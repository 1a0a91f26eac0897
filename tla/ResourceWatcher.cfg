\* Two pods that refer to the same two resources, one informer.
SPECIFICATION Spec
CONSTANTS
  Pods = {p1, p2}
  Keys = {k1, k2}
  Informers = {i1}
  MaxRefs = 2
INVARIANTS TypeOK NoStaleWatch
CHECK_DEADLOCK TRUE
