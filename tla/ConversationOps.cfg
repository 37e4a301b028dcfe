SPECIFICATION Spec
CONSTANTS
  Inbound = {i1, i2}
  Slots = {t1, t2, t3}
  NoInbound = NoInbound
  MaxConnects = 2
SYMMETRY Alike
INVARIANTS
  TypeOK
  ReadIsSeen
  TagAuditBalances
  AccountHasChannel
CHECK_DEADLOCK FALSE
