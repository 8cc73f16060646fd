CONSTANTS
  MaxRequests = 2
  Limit = 5
  Reserve = 2
  Envelope = 1
  BufSize = 3
  PipeSize = 2
  IdSizes <- MCIdSizes
  BodySizes <- MCBodySizes
SPECIFICATION Spec
INVARIANTS
  TypeOK
  StreamIsFramesInOrder
  AnsweredInFull
  RejectedPreviewKeepsNothing
PROPERTIES
  SendEnds
CHECK_DEADLOCK FALSE
