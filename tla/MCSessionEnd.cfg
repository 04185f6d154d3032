\* The claim of session_impl.go that subscribers see the complete close.
SPECIFICATION Spec
CONSTANTS
  Subscribers = {s1}
  EventsCap = 2
  SubCap = 2
  MaxChunks = 0
  MaxInputs = 0
  DataChCap = 1
  InputCap = 1
  MaxAccum = 1
PROPERTY CloseIsSeen
