SPECIFICATION FairSpec
CONSTANTS
  Payloads = {"hello", "again"}
  Keys <- MCKeys
  Texts <- MCTexts
  Threads <- MCThreads
  RawKey <- MCRawKey
  TextOf <- MCTextOf
  HasStatuses <- MCHasStatuses
  ThreadOf <- MCThreadOf
  NoKey = NoKey
  NoText = NoText
  NoPayload = NoPayload
  Missing = Missing
  Posts = {q1, q2}
  Runs = {r1, r2}
  NoRun = NoRun
  MaxDeliveries = 2
  MaxAttempts = 2
  MaxStalls = 1
  Faults = {"postCrash", "enqueueAck", "httpAck"}
INVARIANTS
  AcknowledgedIsQueued
PROPERTIES
  AcknowledgedIsShown
CHECK_DEADLOCK FALSE
