SPECIFICATION Spec
CONSTANTS
  a1 = a1
  a2 = a2
  b1 = b1
  b2 = b2
  v1 = v1
  v2 = v2
  n1 = n1
  n2 = n2
  n3 = n3
  n4 = n4
  sched = sched
  None = None
  Cmds = {a1, a2, b1, b2}
  Vdevs = {v1, v2}
  VdevOf <- MCVdevOf
  Blocking = {b2}
  Urgent = {b1}
  Disabling = {a2}
  Nodes = {n1, n2, n3, n4}
  Threads = {sched}
  Scheduler = sched
  Scopes <- MCScopes
  Rearmed = {b1}
  Closing = {}
  MaxPending = 1
  MaxRequests = 2
  MaxTimeouts = 1
  Faults = TRUE
INVARIANTS PoolSuffices BlockingAlone IInv
SYMMETRY Symmetry
CHECK_DEADLOCK FALSE
