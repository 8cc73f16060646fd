CONSTANTS
  MaxRequests = 2
  Limit = 5
  Reserve = 2
  Envelope = 1
  BufSize = 3
  PipeSize = 2
  IdSizes <- MCLongIdSizes
  BodySizes <- MCBodySizes
SPECIFICATION Spec
INVARIANT RejectedPreviewKeepsNothing
CHECK_DEADLOCK FALSE
