SPECIFICATION Spec
CONSTANTS
  Payloads = {"hello", "batch"}
  Keys <- MCKeys
  Texts <- MCTexts
  Threads <- MCThreads
  RawKey <- MCRawKey
  TextOf <- MCTextOf
  HasStatuses <- MCHasStatuses
  ThreadOf <- MCThreadOf
  NoKey = NoKey
  NoText = NoText
  NoPayload = NoPayload
  Missing = Missing
  Posts = {q1}
  Runs = {r1}
  NoRun = NoRun
  MaxDeliveries = 1
  MaxAttempts = 2
  MaxStalls = 1
  Faults = {}
INVARIANTS
  DuplicateIsNoOp
CHECK_DEADLOCK FALSE
