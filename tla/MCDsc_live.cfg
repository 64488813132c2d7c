CONSTANTS
  t1 = t1
  t2 = t2
  t3 = t3
  p1 = p1
  p2 = p2
  v1 = v1
  v2 = v2
  Threads = {t1, t2, t3}
  Driver = Driver
  Psocs = {p1}
  Vdevs = {v1}
  PsocOf <- OneVdevTree
  None = None
SPECIFICATION SteadySpec
PROPERTIES
  DriverWaiterServed
  PsocWaiterServed
  VdevWaiterServed
  WaitForOpsReturns
