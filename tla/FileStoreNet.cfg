CONSTANTS
  Targets = {f}
  Contents = {a, b}
  Empty = Empty
  Torn = Torn
  Absent = Absent
  Link = Link
  Servers = {server}
  Clis = {cli}
  None = None
  MaxOutside = 0
  MaxCrashes = 0
SPECIFICATION FileSpec
INVARIANT SafetyNetIsWhole
