SPECIFICATION Spec
CONSTANTS
  Payloads = {"dm", "photo"}
  Keys <- MCKeys
  Texts <- MCTexts
  Threads <- MCThreads
  RawKey <- MCRawKey
  TextOf <- MCTextOf
  HasStatuses <- MCHasStatuses
  ThreadOf <- MCThreadOf
  NoKey = NoKey
  NoText = NoText
  NoPayload = NoPayload
  Missing = Missing
  Posts = {q1}
  Runs = {r1, r2}
  NoRun = NoRun
  MaxDeliveries = 1
  MaxAttempts = 3
  MaxStalls = 1
  Faults = {"crash", "stall", "db"}
INVARIANTS
  TypeOK
  ProcessedIsPersisted
  EmittedOnce
CHECK_DEADLOCK FALSE
SYMMETRY RunAndPostSymmetry
