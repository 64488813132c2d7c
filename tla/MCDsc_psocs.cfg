CONSTANTS
  t1 = t1
  t2 = t2
  t3 = t3
  p1 = p1
  p2 = p2
  v1 = v1
  v2 = v2
  Threads = {t1, t2, t3}
  Driver = Driver
  Psocs = {p1, p2}
  Vdevs = {v1, v2}
  PsocOf <- TwoPsocTree
  None = None
SPECIFICATION SteadySpec
SYMMETRY Symmetry
INVARIANTS
  IInv
