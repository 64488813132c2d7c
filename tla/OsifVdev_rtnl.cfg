CONSTANTS
  None = None
  NetDevs = {d1}
  Vdevs = {v1}
  Operators = {t1}
  MaxSlots = 1
  ReplayedSlots = 1
SPECIFICATION FairSpec
PROPERTIES
  CallsReturn
