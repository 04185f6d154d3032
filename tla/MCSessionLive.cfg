\* Liveness: nobody subscribes (subscribers never block a goroutine), one
\* chunk and one input keep every loop busy while the session closes.
SPECIFICATION Spec
CONSTANTS
  Subscribers = {}
  EventsCap = 1
  SubCap = 1
  MaxChunks = 1
  MaxInputs = 1
  DataChCap = 1
  InputCap = 1
  MaxAccum = 2
PROPERTIES
  CloseCompletes
  LoopsExit
