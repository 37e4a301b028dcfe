SPECIFICATION Spec
CONSTANTS
  Messages = {m1}
  Runs = {r1, r2}
  Pids = {p1}
  NoMessage = NoMessage
  NoPid = NoPid
  NoRun = NoRun
  MaxAttempts = 2
  MaxStalls = 1
  Reports = {"SENT", "DELIVERED", "READ", "FAILED"}
  Faults = {"crash", "stall", "db", "enqueueAck", "providerAck"}
INVARIANTS
  TypeOK
  StampsConsistent
  StatusIsEarned
CHECK_DEADLOCK FALSE
SYMMETRY RunAndPidSymmetry
