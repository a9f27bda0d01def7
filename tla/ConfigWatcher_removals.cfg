SPECIFICATION FairSpec
CONSTANTS
  a = a
  b = b
  old = old
  new = new
  Rego = {a}
  Document = {b}
  ConfFile = conf
  Unwatched = {conf}
  Content = {old, new}
  Uncompilable <- NeedsB
  Absent = Absent
  Torn = Torn
  Unread = Unread
  Nobody = Nobody
  MaxQueue = 2
INVARIANT
  RemovalsNotified
