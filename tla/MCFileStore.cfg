CONSTANTS
  Targets = {f}
  Contents = {a, b}
  Empty = Empty
  Torn = Torn
  Absent = Absent
  Link = Link
  Servers = {server}
  Clis = {cli}
  None = None
  MaxOutside = 1
  MaxCrashes = 1
SPECIFICATION FileSpec
INVARIANTS
  FileTypeOK
  QuietApplyIsExact
PROPERTIES
  CreateNeverOverwrites
