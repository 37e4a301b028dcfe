SPECIFICATION Spec
CONSTANTS
  Inbound = {i1, i2}
  Slots = {t1, t2}
  NoInbound = NoInbound
  MaxConnects = 2
PROPERTIES
  HistoryStays
CHECK_DEADLOCK FALSE
