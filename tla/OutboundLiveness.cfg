SPECIFICATION FairSpec
CONSTANTS
  Messages = {m1}
  Runs = {r1, r2}
  Pids = {p1, p2}
  NoMessage = NoMessage
  NoPid = NoPid
  NoRun = NoRun
  MaxAttempts = 3
  MaxStalls = 1
  Reports = {"SENT", "DELIVERED", "READ", "FAILED"}
  Faults = {"stall"}
INVARIANTS
  LeaseExclusive
  NoDuplicateDelivery
PROPERTIES
  ImplementsLifecycle
CHECK_DEADLOCK FALSE
