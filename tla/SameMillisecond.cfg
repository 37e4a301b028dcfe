SPECIFICATION Spec
CONSTANTS
  Inbound = {i1, i2}
  Slots = {t1, t2}
  NoInbound = NoInbound
  MaxConnects = 1
INVARIANTS
  UnreadIsKept
CHECK_DEADLOCK FALSE
