CONSTANTS
  None = None
  NetDevs = {d1, d2}
  Vdevs = {v1, v2}
  Operators = {t1, t2}
  MaxSlots = 2
  ReplayedSlots = 1
SPECIFICATION FairSpec
INVARIANTS
  TypeOK
  SectionKeepsNode
  LookupUnambiguous
  EntriesConserved
  IInv
PROPERTIES
  UpStaysUp
  NoOtherCircle
