SPECIFICATION FairSpec
CONSTANTS
  a = a
  b = b
  old = old
  new = new
  Rego = {a, b}
  Document = {}
  ConfFile = conf
  Unwatched = {}
  Content = {old, new}
  Uncompilable <- NeedsB
  Absent = Absent
  Torn = Torn
  Unread = Unread
  Nobody = Nobody
  MaxQueue = 2
INVARIANTS
  TypeOK
  NoEditMissed
  ServesLoadable
PROPERTIES
  OnlyConfigStops
  EditsReachEngine
