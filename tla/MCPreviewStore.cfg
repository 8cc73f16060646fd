CONSTANTS
  Ids = {k1, k2, k3, k4}
  Bodies = {body}
  NoPlan = NoPlan
  MaxPreviewPlans = 2
  PreviewTTL = 1
  MaxClock = 4
SPECIFICATION TableSpec
INVARIANTS
  TableTypeOK
  CapacityBound
  SingleUse
  FreshPlansSurvive
  TableHoldsOffersOnly
PROPERTIES
  ImplementsLedger
