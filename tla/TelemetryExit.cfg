CONSTANTS
  Main = main
  Helpers = {helper}
  QueueSize = 2
  StderrSize = 1
  MaxEmits = 3
SPECIFICATION Spec
PROPERTY ServerErrorExits
CHECK_DEADLOCK FALSE
