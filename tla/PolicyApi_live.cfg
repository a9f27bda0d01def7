SPECIFICATION FairSpec
CONSTANTS
  i1 = i1
  i2 = i2
  lib = lib
  user = user
  free = free
  p1 = p1
  p2 = p2
  p3 = p3
  v1 = v1
  Thread = {c1, c2, watcher}
  Watcher = watcher
  Nobody = Nobody
  Id = {i1, i2}
  Source = {lib, user}
  NoSource = NoSource
  Unparsable = Unparsable
  Path = {p1, p2}
  Value = {v1}
  NoDoc = NoDoc
  Kept = Kept
  Unread = Unread
  Package <- MCPackage
  Calls <- MCCalls
  Requests <- LiveRequests
  Bundles <- LiveBundles
  BundleRoots = {}
PROPERTY
  EveryCallEnds
