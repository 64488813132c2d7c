SPECIFICATION Spec
CONSTANTS
  a1 = a1
  a2 = a2
  b1 = b1
  b2 = b2
  v1 = v1
  v2 = v2
  n1 = n1
  n2 = n2
  n3 = n3
  n4 = n4
  sched = sched
  t1 = t1
  None = None
  Cmds = {a1, a2, b1, b2}
  Vdevs = {v1, v2}
  VdevOf <- MCVdevOf
  Blocking = {a1}
  Urgent = {}
  Disabling = {}
  Nodes = {n1, n2, n3, n4}
  Threads = {sched, t1}
  Scheduler = sched
  Scopes = {}
  Rearmed = {}
  Closing = {v2}
  MaxPending = 4
  MaxRequests = 1
  MaxTimeouts = 0
  Faults = FALSE
INVARIANTS CursorInQueue
SYMMETRY Symmetry
CHECK_DEADLOCK FALSE
