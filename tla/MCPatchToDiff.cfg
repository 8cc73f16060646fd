CONSTANTS
  Calls <- MCCalls
  MaxOperations <- MCMaxOperations
  Fold <- MCFold
  MaxPatch <- MCMaxPatch
  Requests <- MCRequests
  WordSymbols <- MCWordSymbols
  None = None
  Lines = {a, b, c}
  MaxLines <- MCMaxLines
  MaxTrace <- MCMaxTrace
SPECIFICATION Spec
INVARIANTS
  TypeOK
  SchemaIsKept
  ParsesWhatIsWritten
  CommandsQuoteThePatch
  CountsAgree
  LiteralsAreExact
  RightPlaces
  OnlyThePlacesChange
  PlanReadsBack
  HunksTurnOldIntoNew
  ScriptIsShortest
  WayBackStaysInside
CHECK_DEADLOCK FALSE
