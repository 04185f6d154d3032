\* The claim of manager.go that closing during a dial leaks nothing.
SPECIFICATION Spec
CONSTANTS
  Subscribers = {}
  EventsCap = 2
  SubCap = 1
  MaxChunks = 0
  MaxInputs = 0
  DataChCap = 1
  InputCap = 1
  MaxAccum = 1
INVARIANT ReleasedAfterClose
