CONSTANTS
  n1 = n1
  n2 = n2
  Up = Up
  Names <- MCNames
  MaxDepth <- MCMaxDepth
  MaxLinks <- MCMaxLinks
  Trees <- MCTrees
  Inputs <- MCInputs
  DriveMount <- MCDriveMount
  OnNinep <- MCOnNinep
  DriveType <- MCDriveType
  MaxCreates <- MCMaxCreates
  Disks <- MCDisks
  Args <- MCArgs
  MaxRuns <- MCMaxRuns
SPECIFICATION Spec
INVARIANTS
  TypeOK
  ServesExactlyTheInside
  RollbackUndoesApply
  WritesAreSeen
PROPERTIES
  CreateOnlyAddsInside
CHECK_DEADLOCK FALSE
