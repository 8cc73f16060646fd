CONSTANTS
  Main = main
  Helpers = {helper}
  QueueSize = 2
  StderrSize = 1
  MaxEmits = 3
SPECIFICATION Spec
INVARIANTS
  TypeOK
  EveryEventIsAccountedFor
  LateLossesAreFew
  CleanCloseTookMainsEvents
PROPERTIES
  EmitReturns
  ServerStopExits
CHECK_DEADLOCK FALSE
