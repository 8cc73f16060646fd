CONSTANTS
  Targets = {f}
  Contents = {a, b}
  Empty = Empty
  Torn = Torn
  Absent = Absent
  Link = Link
  Servers = {server}
  Clis = {}
  None = None
  MaxOutside = 1
  MaxCrashes = 1
  Ids = {k1, k2}
  Bodies <- MCBodies
  NoPlan = NoPlan
  MaxPreviewPlans = 1
  PreviewTTL = 0
  MaxClock = 1
  Server = server
SPECIFICATION Spec
INVARIANTS
  AppliedAtMostOnce
PROPERTIES
  ReviewedBytesOnly
SYMMETRY Symmetry
