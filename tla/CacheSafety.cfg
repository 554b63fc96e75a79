SPECIFICATION FairSpec
CONSTANTS
  Key = {k1, k2, k3}
  Node = {n1, n2, n3}
  NoNode = NoNode
  Capacity = 2
  MaxTimeouts = 1
INVARIANT CacheConsistent
INVARIANT ArgumentOutlivesEvent
PROPERTY ArgumentIsReclaimed
