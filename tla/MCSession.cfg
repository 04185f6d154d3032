\* Safety: one subscription, room for two events in each channel, one chunk
\* (so that a full events channel can drop it) and no input.
SPECIFICATION Spec
CONSTANTS
  Subscribers = {s1}
  EventsCap = 2
  SubCap = 2
  MaxChunks = 1
  MaxInputs = 0
  DataChCap = 1
  InputCap = 1
  MaxAccum = 1
INVARIANTS
  TypeOK
  OneOwner
  EstablishedIsUsable
  StateEventsInOrder
  DropsFlagged
  FailureNotLost
PROPERTY BadgeContract
