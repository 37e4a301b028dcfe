------------------------ MODULE OutboundDeliveryProofs ------------------------
(* Proofs about OutboundDelivery, for every choice of its constants.        *)
EXTENDS OutboundDelivery, TLAPS

(* The queue.                                                               *)

QueueMove(r, j) ==
  TakeJob(r, j) \/ FinishJob(r, j) \/ RetryJob(r, j) \/ AbandonJob(r, j)

(* Every queue operation keeps the queue well typed.                        *)
LEMMA QueueTypePreserved ==
  ASSUME NEW Jobs, NEW j \in Jobs, NEW r \in Runs, QueueTypeOK(Jobs),
         AddJob(j) \/ QueueMove(r, j)
  PROVE  QueueTypeOK(Jobs)'
<1>1. CASE AddJob(j)
  BY <1>1 DEF QueueTypeOK, AddJob
<1>2. CASE TakeJob(r, j)
  BY <1>2 DEF QueueTypeOK, TakeJob
<1>3. CASE FinishJob(r, j)
  BY <1>3, QueueAssumption DEF QueueTypeOK, FinishJob
<1>4. CASE RetryJob(r, j)
  <2>1. CASE lockOwner[j] = r
    <3> DEFINE next == IF attemptsMade[j] + 1 < MaxAttempts
                         THEN "waiting" ELSE "failed"
    <3>1. /\ job' = [job EXCEPT ![j] = next]
          /\ attemptsMade' = [attemptsMade EXCEPT ![j] = @ + 1]
          /\ lockOwner' = [lockOwner EXCEPT ![j] = NoRun]
          /\ stalledCount' = stalledCount
      BY <1>4, <2>1 DEF RetryJob
    <3>2. next \in {"waiting", "failed"}
      OBVIOUS
    <3> HIDE DEF next
    <3>3. attemptsMade' \in [Jobs -> Nat]
      <4>1. attemptsMade[j] + 1 \in Nat
        BY DEF QueueTypeOK
      <4>2. QED
        BY <3>1, <4>1 DEF QueueTypeOK
    <3>4. QED
      BY <3>1, <3>2, <3>3 DEF QueueTypeOK
  <2>2. CASE lockOwner[j] # r
    BY <1>4, <2>2 DEF QueueTypeOK, RetryJob
  <2>3. QED
    BY <2>1, <2>2
<1>5. CASE AbandonJob(r, j)
  BY <1>5 DEF QueueTypeOK, AbandonJob
<1>6. QED
  BY <1>1, <1>2, <1>3, <1>4, <1>5 DEF QueueMove

(* So does the stalled check.                                               *)
LEMMA StalledTypePreserved ==
  ASSUME NEW Jobs, NEW j \in Jobs, QueueTypeOK(Jobs), RequeueStalled(j)
  PROVE  QueueTypeOK(Jobs)'
<1>1. CASE stalledCount[j] < MaxStalls
  <2>1. stalledCount[j] + 1 \in Nat
    BY DEF QueueTypeOK
  <2>2. QED
    BY <1>1, <2>1 DEF QueueTypeOK, RequeueStalled
<1>2. CASE ~(stalledCount[j] < MaxStalls)
  BY <1>2 DEF QueueTypeOK, RequeueStalled
<1>3. QED
  BY <1>1, <1>2

(* A job that was never added is only ever touched by adding it: a run that *)
(* moves a job moves one the queue knows.                                   *)
LEMMA AbsentJobsPreserved ==
  ASSUME NEW Jobs, NEW j \in Jobs, NEW r \in Runs, QueueTypeOK(Jobs),
         job[j] # "absent", QueueMove(r, j)
  PROVE  \A i \in Jobs : job'[i] = "absent" <=> job[i] = "absent"
<1>1. PICK next \in {"waiting", "active", "completed", "failed"} :
        job' = job \/ job' = [job EXCEPT ![j] = next]
  BY DEF QueueMove, TakeJob, FinishJob, RetryJob, AbandonJob
<1>2. QED
  BY <1>1 DEF QueueTypeOK

(* The worker and the webhooks.                                             *)

(* A webhook write keeps the set of timestamp columns a set of columns, and *)
(* leaves every column but failedAt set that was set.                       *)
LEMMA StampsAfterFacts ==
  ASSUME NEW s \in Reports, NEW current \in SUBSET Stamps, NEW read
  PROVE  /\ StampsAfter(s, current, read) \in SUBSET Stamps
         /\ current \ {"failedAt"} \subseteq StampsAfter(s, current, read)
         /\ s = "FAILED" <=> "failedAt" \in StampsAfter(s, current, read)
         /\ read \ {"failedAt"} \subseteq current
              => ImpliedStamps(s) \subseteq StampsAfter(s, current, read)
<1>1. s \in {"SENT", "DELIVERED", "READ", "FAILED"}
  BY ReportAssumption
<1>2. CASE s = "FAILED"
  BY <1>2 DEF StampsAfter, ImpliedStamps, Stamps
<1>3. CASE s = "SENT"
  BY <1>3 DEF StampsAfter, ImpliedStamps, Stamps
<1>4. CASE s = "DELIVERED"
  BY <1>4 DEF StampsAfter, ImpliedStamps, Stamps
<1>5. CASE s = "READ"
  BY <1>5 DEF StampsAfter, ImpliedStamps, Stamps
<1>6. QED
  BY <1>1, <1>2, <1>3, <1>4, <1>5

(* Who refers to whom: a run that is not idle has a message, the send result *)
(* it records is one the provider gave for that message, the provider id of  *)
(* a row was given for that row, and a webhook is about an accepted message. *)
(* Nothing happens to a message before its request created the row, and no   *)
(* run sees it before it was enqueued.                                       *)
Ownership ==
  /\ \A r \in Runs : run[r] # "idle" => runMessage[r] \in Messages
  /\ \A r \in Runs : run[r] = "record" =>
       runPid[r] \in Pids /\ accepted[runPid[r]] = runMessage[r]
  /\ \A m \in Messages : providerMessageId[m] # NoPid =>
       accepted[providerMessageId[m]] = m
  /\ \A p \in Pids, s \in Reports : update[<<p, s>>] # "none" =>
       accepted[p] \in Messages /\ s \in reported[p]
  /\ \A m \in Messages : request[m] = "idle" =>
       deliveryStatus[m] = "NONE" /\ job[m] = "absent"
  /\ \A m \in Messages : job[m] = "absent" =>
       /\ \A r \in Runs : runMessage[r] # m
       /\ \A p \in Pids : accepted[p] # m

WellFormed == TypeOK /\ Ownership

LEMMA WellFormedInit == Init => WellFormed
  BY SentinelAssumption, QueueAssumption DEF Init, QueueInit, QueueTypeOK,
     WellFormed, TypeOK, Ownership, UpdatePhase

LEMMA TypeStep == WellFormed /\ [Next]_vars => TypeOK'
<1> SUFFICES ASSUME TypeOK, Ownership, [Next]_vars PROVE TypeOK'
  BY DEF WellFormed
<1>1. ASSUME NEW m \in Messages, CreateOutboundMessage(m)
      PROVE  TypeOK'
  BY <1>1 DEF TypeOK, QueueTypeOK, DeliveryStatus, Stamps, UpdatePhase,
      CreateOutboundMessage, rowVars, jobVars, runVars, providerVars,
      webhookVars
<1>2. ASSUME NEW m \in Messages, Enqueue(m)
      PROVE  TypeOK'
  BY <1>2 DEF TypeOK, QueueTypeOK, DeliveryStatus, Stamps, UpdatePhase,
      Enqueue, AddJob, rowVars, jobVars, runVars, providerVars, webhookVars
<1>3. ASSUME NEW m \in Messages, EnqueueThrows(m)
      PROVE  TypeOK'
  BY <1>3 DEF TypeOK, QueueTypeOK, DeliveryStatus, Stamps, UpdatePhase,
      EnqueueThrows, rowVars, jobVars, runVars, providerVars, webhookVars
<1>4. ASSUME NEW m \in Messages, EnqueueAckLost(m)
      PROVE  TypeOK'
  BY <1>4 DEF TypeOK, QueueTypeOK, DeliveryStatus, Stamps, UpdatePhase,
      EnqueueAckLost, AddJob, rowVars, jobVars, runVars, providerVars,
      webhookVars
<1>5. ASSUME NEW m \in Messages, CatchEnqueueError(m)
      PROVE  TypeOK'
  BY <1>5 DEF TypeOK, QueueTypeOK, DeliveryStatus, Stamps, UpdatePhase,
      CatchEnqueueError, SetFailed, rowVars, jobVars, runVars, providerVars,
      webhookVars
<1>6. ASSUME NEW m \in Messages, RequestDies(m)
      PROVE  TypeOK'
  BY <1>6 DEF TypeOK, QueueTypeOK, DeliveryStatus, Stamps, UpdatePhase,
      RequestDies, rowVars, jobVars, runVars, providerVars, webhookVars
<1>7. ASSUME NEW m \in Messages, Stall(m)
      PROVE  TypeOK'
  <2>1. QueueTypeOK(Messages)'
    BY <1>7, StalledTypePreserved DEF TypeOK, Stall
  <2>2. QED
    BY <1>7, <2>1 DEF TypeOK, Stall, rowVars, runVars, providerVars,
       webhookVars
<1>8. ASSUME NEW r \in Runs, NEW m \in Messages, PickUp(r, m)
      PROVE  TypeOK'
  BY <1>8 DEF TypeOK, QueueTypeOK, DeliveryStatus, Stamps, UpdatePhase,
      PickUp, TakeJob, rowVars, jobVars, runVars, providerVars, webhookVars
<1>9. ASSUME NEW r \in Runs, Claim(r)
      PROVE  TypeOK'
  <2>1. CASE Claimable(runMessage[r])
    <3>1. /\ deliveryStatus' \in [Messages -> DeliveryStatus \cup {"NONE"}]
          /\ stamps' \in [Messages -> SUBSET Stamps]
          /\ providerMessageId' = providerMessageId
      BY <1>9, <2>1, SMTT(30) DEF TypeOK, QueueTypeOK, DeliveryStatus, Stamps,
         Claim,
         SetSending
    <3>2. QED
      BY <1>9, <2>1, <3>1 DEF TypeOK, QueueTypeOK, Claim, Goto, jobVars,
         providerVars,
        webhookVars
  <2>2. CASE ~Claimable(runMessage[r])
    BY <1>9, <2>2 DEF TypeOK, QueueTypeOK, Claim, Goto, rowVars, jobVars,
       runVars,
      providerVars, webhookVars
  <2>3. QED
    BY <2>1, <2>2
<1>10. ASSUME NEW r \in Runs, ClaimThrows(r)
      PROVE  TypeOK'
  <2>1. CASE SetSending(runMessage[r])
    BY <1>10, <2>1 DEF TypeOK, QueueTypeOK, DeliveryStatus, Stamps,
       ClaimThrows, SetSending,
      Goto, jobVars, runVars, providerVars, webhookVars
  <2>2. CASE UNCHANGED rowVars
    BY <1>10, <2>2 DEF TypeOK, QueueTypeOK, ClaimThrows, Goto, rowVars,
       jobVars, runVars,
      providerVars, webhookVars
  <2>3. QED
    BY <1>10, <2>1, <2>2 DEF ClaimThrows
<1>11. ASSUME NEW r \in Runs, Load(r)
      PROVE  TypeOK'
  BY <1>11 DEF TypeOK, QueueTypeOK, DeliveryStatus, Stamps, UpdatePhase, Load,
      Goto, rowVars, jobVars, runVars, providerVars, webhookVars
<1>12. ASSUME NEW r \in Runs, LoadThrows(r)
      PROVE  TypeOK'
  BY <1>12 DEF TypeOK, QueueTypeOK, DeliveryStatus, Stamps, UpdatePhase,
      LoadThrows, Goto, rowVars, jobVars, runVars, providerVars, webhookVars
<1>13. ASSUME NEW r \in Runs, NEW p \in Pids, SendAccepted(r, p)
      PROVE  TypeOK'
  BY <1>13 DEF TypeOK, QueueTypeOK, DeliveryStatus, Stamps, UpdatePhase,
      SendAccepted, ProviderAccepts, Goto, rowVars, jobVars, runVars,
      providerVars, webhookVars
<1>14. ASSUME NEW r \in Runs, NEW p \in Pids, SendAckLost(r, p)
      PROVE  TypeOK'
  BY <1>14 DEF TypeOK, QueueTypeOK, DeliveryStatus, Stamps, UpdatePhase,
      SendAckLost, ProviderAccepts, Goto, rowVars, jobVars, runVars,
      providerVars, webhookVars
<1>15. ASSUME NEW r \in Runs, SendRejected(r)
      PROVE  TypeOK'
  BY <1>15 DEF TypeOK, QueueTypeOK, DeliveryStatus, Stamps, UpdatePhase,
      SendRejected, Goto, rowVars, jobVars, runVars, providerVars, webhookVars
<1>16. ASSUME NEW r \in Runs, RecordSent(r)
      PROVE  TypeOK'
  BY <1>16 DEF TypeOK, QueueTypeOK, DeliveryStatus, Stamps, UpdatePhase,
      RecordSent, SetSent, Goto, rowVars, jobVars, runVars, providerVars,
      webhookVars
<1>17. ASSUME NEW r \in Runs, RecordThrows(r)
      PROVE  TypeOK'
  <2>1. CASE SetSent(runMessage[r], runPid[r])
    BY <1>17, <2>1 DEF TypeOK, QueueTypeOK, DeliveryStatus, Stamps,
       RecordThrows, SetSent,
      Goto, jobVars, runVars, providerVars, webhookVars
  <2>2. CASE UNCHANGED rowVars
    BY <1>17, <2>2 DEF TypeOK, QueueTypeOK, RecordThrows, Goto, rowVars,
       jobVars, runVars,
      providerVars, webhookVars
  <2>3. QED
    BY <1>17, <2>1, <2>2 DEF RecordThrows
<1>18. ASSUME NEW r \in Runs, MarkMessageAsFailed(r)
      PROVE  TypeOK'
  BY <1>18 DEF TypeOK, QueueTypeOK, DeliveryStatus, Stamps, UpdatePhase,
      MarkMessageAsFailed, SetFailed, Goto, rowVars, jobVars, runVars,
      providerVars, webhookVars
<1>19. ASSUME NEW r \in Runs, MarkThrows(r)
      PROVE  TypeOK'
  BY <1>19 DEF TypeOK, QueueTypeOK, DeliveryStatus, Stamps, UpdatePhase,
      MarkThrows, Goto, rowVars, jobVars, runVars, providerVars, webhookVars
<1>20. ASSUME NEW r \in Runs, CompleteJob(r)
      PROVE  TypeOK'
  <2>1. runMessage[r] \in Messages
    BY <1>20 DEF Ownership, CompleteJob
  <2>2. QueueTypeOK(Messages)'
    BY <1>20, <2>1, QueueTypePreserved DEF TypeOK, QueueMove, CompleteJob
  <2>3. QED
    BY <1>20, <2>2 DEF TypeOK, CompleteJob, Release, rowVars, providerVars,
       webhookVars
<1>21. ASSUME NEW r \in Runs, FailJob(r)
      PROVE  TypeOK'
  <2>1. runMessage[r] \in Messages
    BY <1>21 DEF Ownership, FailJob
  <2>2. QueueTypeOK(Messages)'
    BY <1>21, <2>1, QueueTypePreserved DEF TypeOK, QueueMove, FailJob
  <2>3. QED
    BY <1>21, <2>2 DEF TypeOK, FailJob, Release, rowVars, providerVars,
       webhookVars
<1>22. ASSUME NEW r \in Runs, CrashRun(r)
      PROVE  TypeOK'
  BY <1>22 DEF TypeOK, QueueTypeOK, DeliveryStatus, Stamps, UpdatePhase,
      CrashRun, AbandonJob, Release, rowVars, jobVars, runVars, providerVars,
      webhookVars
<1>23. ASSUME NEW p \in Pids, NEW s \in Reports, ProviderReports(p, s)
      PROVE  TypeOK'
  BY <1>23 DEF TypeOK, QueueTypeOK, DeliveryStatus, Stamps, UpdatePhase,
      ProviderReports, rowVars, jobVars, runVars, providerVars, webhookVars
<1>24. ASSUME NEW p \in Pids, NEW s \in Reports, ReadForStatusUpdate(p, s)
      PROVE  TypeOK'
  <2>1. update' \in [Pids \X Reports -> UpdatePhase]
    <3>1. PICK phase \in UpdatePhase :
             update' = [update EXCEPT ![<<p, s>>] = phase]
      BY <1>24 DEF UpdatePhase, ReadForStatusUpdate
    <3>2. QED
      BY <3>1 DEF TypeOK, QueueTypeOK
  <2>2. seen' \in [Pids \X Reports -> SUBSET Stamps]
    <3>1. CASE seen' = seen
      BY <3>1 DEF TypeOK, QueueTypeOK
    <3>2. CASE /\ providerMessageId[accepted[p]] = p
               /\ seen' = [seen EXCEPT ![<<p, s>>] = stamps[accepted[p]]]
      <4>1. accepted[p] \in Messages
        BY <1>24 DEF Ownership, ReadForStatusUpdate
      <4>2. QED
        BY <3>2, <4>1 DEF TypeOK, QueueTypeOK
    <3>3. QED
      BY <1>24, <3>1, <3>2 DEF ReadForStatusUpdate
  <2>3. QED
    BY <1>24, <2>1, <2>2 DEF TypeOK, QueueTypeOK, ReadForStatusUpdate, rowVars,
       jobVars,
      runVars, providerVars
<1>25. ASSUME NEW p \in Pids, NEW s \in Reports, WriteStatusUpdate(p, s)
      PROVE  TypeOK'
  <2>1. stamps' \in [Messages -> SUBSET Stamps]
    <3>1. accepted[p] \in Messages /\ stamps[accepted[p]] \in SUBSET Stamps
      BY <1>25 DEF TypeOK, QueueTypeOK, Ownership, WriteStatusUpdate
    <3>2. StampsAfter(s, stamps[accepted[p]], seen[<<p, s>>])
            \in SUBSET Stamps
      BY <3>1, StampsAfterFacts
    <3>3. QED
      BY <1>25, <3>2 DEF TypeOK, QueueTypeOK, WriteStatusUpdate
  <2>2. deliveryStatus' \in [Messages -> DeliveryStatus \cup {"NONE"}]
    BY <1>25, ReportAssumption DEF TypeOK, QueueTypeOK, DeliveryStatus,
       WriteStatusUpdate
  <2>3. update' \in [Pids \X Reports -> UpdatePhase]
    BY <1>25 DEF TypeOK, QueueTypeOK, UpdatePhase, WriteStatusUpdate
  <2>4. QED
    BY <1>25, <2>1, <2>2, <2>3 DEF TypeOK, QueueTypeOK, WriteStatusUpdate,
       jobVars, runVars,
      providerVars
<1>26. ASSUME NEW p \in Pids, NEW s \in Reports, StatusUpdateThrows(p, s)
      PROVE  TypeOK'
  BY <1>26 DEF TypeOK, QueueTypeOK, DeliveryStatus, Stamps, UpdatePhase,
      StatusUpdateThrows, rowVars, jobVars, runVars, providerVars, webhookVars
<1>27. CASE UNCHANGED vars
  BY <1>27 DEF TypeOK, QueueTypeOK, DeliveryStatus, Stamps, UpdatePhase, vars,
      rowVars, jobVars, runVars, providerVars, webhookVars
<1>28. QED
  BY <1>1, <1>2, <1>3, <1>4, <1>5, <1>6, <1>7, <1>8, <1>9, <1>10, <1>11,
      <1>12, <1>13, <1>14, <1>15, <1>16, <1>17, <1>18, <1>19, <1>20, <1>21,
      <1>22, <1>23, <1>24, <1>25, <1>26, <1>27
     DEF Next, RequestStep, RunStep, UpdateStep, Fault

LEMMA OwnershipStep == WellFormed /\ [Next]_vars => Ownership'
<1> SUFFICES ASSUME TypeOK, Ownership, [Next]_vars PROVE Ownership'
  BY DEF WellFormed
<1>1. ASSUME NEW m \in Messages, CreateOutboundMessage(m)
      PROVE  Ownership'
  BY <1>1, SentinelAssumption DEF TypeOK, QueueTypeOK, Ownership,
      CreateOutboundMessage, rowVars, jobVars, runVars, providerVars,
      webhookVars
<1>2. ASSUME NEW m \in Messages, Enqueue(m)
      PROVE  Ownership'
  BY <1>2, SentinelAssumption DEF TypeOK, QueueTypeOK, Ownership, Enqueue,
      AddJob, rowVars, jobVars, runVars, providerVars, webhookVars
<1>3. ASSUME NEW m \in Messages, EnqueueThrows(m)
      PROVE  Ownership'
  BY <1>3, SentinelAssumption DEF TypeOK, QueueTypeOK, Ownership,
      EnqueueThrows, rowVars, jobVars, runVars, providerVars, webhookVars
<1>4. ASSUME NEW m \in Messages, EnqueueAckLost(m)
      PROVE  Ownership'
  BY <1>4, SentinelAssumption DEF TypeOK, QueueTypeOK, Ownership,
      EnqueueAckLost, AddJob, rowVars, jobVars, runVars, providerVars,
      webhookVars
<1>5. ASSUME NEW m \in Messages, CatchEnqueueError(m)
      PROVE  Ownership'
  BY <1>5, SentinelAssumption DEF TypeOK, QueueTypeOK, Ownership,
      CatchEnqueueError, SetFailed, rowVars, jobVars, runVars, providerVars,
      webhookVars
<1>6. ASSUME NEW m \in Messages, RequestDies(m)
      PROVE  Ownership'
  BY <1>6, SentinelAssumption DEF TypeOK, QueueTypeOK, Ownership, RequestDies,
      rowVars, jobVars, runVars, providerVars, webhookVars
<1>7. ASSUME NEW m \in Messages, Stall(m)
      PROVE  Ownership'
  BY <1>7, SentinelAssumption DEF TypeOK, QueueTypeOK, Ownership, Stall,
      RequeueStalled, rowVars, jobVars, runVars, providerVars, webhookVars
<1>8. ASSUME NEW r \in Runs, NEW m \in Messages, PickUp(r, m)
      PROVE  Ownership'
  BY <1>8, SentinelAssumption DEF TypeOK, QueueTypeOK, Ownership, PickUp,
      TakeJob, rowVars, jobVars, runVars, providerVars, webhookVars
<1>9. ASSUME NEW r \in Runs, Claim(r)
      PROVE  Ownership'
  BY <1>9, SentinelAssumption DEF TypeOK, QueueTypeOK, Ownership, Claim, Goto,
      SetSending, Claimable, rowVars, jobVars, runVars, providerVars,
      webhookVars
<1>10. ASSUME NEW r \in Runs, ClaimThrows(r)
      PROVE  Ownership'
  BY <1>10, SentinelAssumption DEF TypeOK, QueueTypeOK, Ownership,
      ClaimThrows, Goto, SetSending, Claimable, rowVars, jobVars, runVars,
      providerVars, webhookVars
<1>11. ASSUME NEW r \in Runs, Load(r)
      PROVE  Ownership'
  BY <1>11, SentinelAssumption DEF TypeOK, QueueTypeOK, Ownership, Load, Goto,
      rowVars, jobVars, runVars, providerVars, webhookVars
<1>12. ASSUME NEW r \in Runs, LoadThrows(r)
      PROVE  Ownership'
  BY <1>12, SentinelAssumption DEF TypeOK, QueueTypeOK, Ownership, LoadThrows,
      Goto, rowVars, jobVars, runVars, providerVars, webhookVars
<1>13. ASSUME NEW r \in Runs, NEW p \in Pids, SendAccepted(r, p)
      PROVE  Ownership'
  BY <1>13, SentinelAssumption DEF TypeOK, QueueTypeOK, Ownership,
      SendAccepted, ProviderAccepts, Goto, rowVars, jobVars, runVars,
      providerVars, webhookVars
<1>14. ASSUME NEW r \in Runs, NEW p \in Pids, SendAckLost(r, p)
      PROVE  Ownership'
  BY <1>14, SentinelAssumption DEF TypeOK, QueueTypeOK, Ownership,
      SendAckLost, ProviderAccepts, Goto, rowVars, jobVars, runVars,
      providerVars, webhookVars
<1>15. ASSUME NEW r \in Runs, SendRejected(r)
      PROVE  Ownership'
  BY <1>15, SentinelAssumption DEF TypeOK, QueueTypeOK, Ownership,
      SendRejected, Goto, rowVars, jobVars, runVars, providerVars, webhookVars
<1>16. ASSUME NEW r \in Runs, RecordSent(r)
      PROVE  Ownership'
  <2>1. /\ runMessage[r] \in Messages
        /\ request[runMessage[r]] # "idle"
        /\ runPid[r] \in Pids
        /\ accepted[runPid[r]] = runMessage[r]
    BY <1>16 DEF Ownership, RecordSent
  <2>2. /\ \A m \in Messages : providerMessageId'[m] # NoPid =>
             accepted'[providerMessageId'[m]] = m
        /\ \A m \in Messages : request'[m] = "idle" =>
             deliveryStatus'[m] = "NONE" /\ job'[m] = "absent"
    BY <1>16, <2>1 DEF TypeOK, QueueTypeOK, Ownership, RecordSent, SetSent,
       jobVars,
      providerVars
  <2>3. QED
    BY <1>16, <2>2 DEF TypeOK, QueueTypeOK, Ownership, RecordSent, Goto,
       jobVars,
      providerVars, webhookVars
<1>17. ASSUME NEW r \in Runs, RecordThrows(r)
      PROVE  Ownership'
  <2>1. /\ runMessage[r] \in Messages
        /\ request[runMessage[r]] # "idle"
        /\ runPid[r] \in Pids
        /\ accepted[runPid[r]] = runMessage[r]
    BY <1>17 DEF Ownership, RecordThrows
  <2>2. /\ \A m \in Messages : providerMessageId'[m] # NoPid =>
             accepted'[providerMessageId'[m]] = m
        /\ \A m \in Messages : request'[m] = "idle" =>
             deliveryStatus'[m] = "NONE" /\ job'[m] = "absent"
    <3>1. CASE SetSent(runMessage[r], runPid[r])
      BY <1>17, <2>1, <3>1 DEF TypeOK, QueueTypeOK, Ownership, RecordThrows,
         SetSent, jobVars,
        providerVars
    <3>2. CASE UNCHANGED rowVars
      BY <1>17, <3>2 DEF Ownership, RecordThrows, rowVars, jobVars,
         providerVars
    <3>3. QED
      BY <1>17, <3>1, <3>2 DEF RecordThrows
  <2>3. QED
    BY <1>17, <2>2 DEF TypeOK, QueueTypeOK, Ownership, RecordThrows, Goto,
       jobVars,
      providerVars, webhookVars
<1>18. ASSUME NEW r \in Runs, MarkMessageAsFailed(r)
      PROVE  Ownership'
  BY <1>18, SentinelAssumption DEF TypeOK, QueueTypeOK, Ownership,
      MarkMessageAsFailed, SetFailed, Goto, rowVars, jobVars, runVars,
      providerVars, webhookVars
<1>19. ASSUME NEW r \in Runs, MarkThrows(r)
      PROVE  Ownership'
  BY <1>19, SentinelAssumption DEF TypeOK, QueueTypeOK, Ownership, MarkThrows,
      Goto, rowVars, jobVars, runVars, providerVars, webhookVars
<1>20. ASSUME NEW r \in Runs, CompleteJob(r)
      PROVE  Ownership'
  BY <1>20, SentinelAssumption DEF TypeOK, QueueTypeOK, Ownership,
      CompleteJob, FinishJob, Release, rowVars, jobVars, runVars,
      providerVars, webhookVars
<1>21. ASSUME NEW r \in Runs, FailJob(r)
      PROVE  Ownership'
  <2>1. \A m \in Messages : job'[m] = "absent" <=> job[m] = "absent"
    <3>1. /\ runMessage[r] \in Messages
          /\ job[runMessage[r]] # "absent"
      BY <1>21 DEF Ownership, FailJob
    <3>2. QueueMove(r, runMessage[r]) /\ QueueTypeOK(Messages)
      BY <1>21 DEF TypeOK, QueueMove, FailJob
    <3>3. QED
      BY <3>1, <3>2, AbsentJobsPreserved
  <2>2. QED
    BY <1>21, <2>1, SentinelAssumption DEF TypeOK, Ownership, FailJob, Release,
      rowVars, providerVars, webhookVars
<1>22. ASSUME NEW r \in Runs, CrashRun(r)
      PROVE  Ownership'
  BY <1>22, SentinelAssumption DEF TypeOK, QueueTypeOK, Ownership, CrashRun,
      AbandonJob, Release, rowVars, jobVars, runVars, providerVars,
      webhookVars
<1>23. ASSUME NEW p \in Pids, NEW s \in Reports, ProviderReports(p, s)
      PROVE  Ownership'
  BY <1>23, SentinelAssumption DEF TypeOK, QueueTypeOK, Ownership,
      ProviderReports, rowVars, jobVars, runVars, providerVars, webhookVars
<1>24. ASSUME NEW p \in Pids, NEW s \in Reports, ReadForStatusUpdate(p, s)
      PROVE  Ownership'
  BY <1>24, SentinelAssumption DEF TypeOK, QueueTypeOK, Ownership,
      ReadForStatusUpdate, rowVars, jobVars, runVars, providerVars,
      webhookVars
<1>25. ASSUME NEW p \in Pids, NEW s \in Reports, WriteStatusUpdate(p, s)
      PROVE  Ownership'
  BY <1>25, SentinelAssumption DEF TypeOK, QueueTypeOK, Ownership,
      WriteStatusUpdate, StampsAfter, ImpliedStamps, rowVars, jobVars,
      runVars, providerVars, webhookVars
<1>26. ASSUME NEW p \in Pids, NEW s \in Reports, StatusUpdateThrows(p, s)
      PROVE  Ownership'
  BY <1>26, SentinelAssumption DEF TypeOK, QueueTypeOK, Ownership,
      StatusUpdateThrows, rowVars, jobVars, runVars, providerVars, webhookVars
<1>27. CASE UNCHANGED vars
  BY <1>27 DEF TypeOK, QueueTypeOK, Ownership, vars, rowVars, jobVars,
      runVars, providerVars, webhookVars
<1>28. QED
  BY <1>1, <1>2, <1>3, <1>4, <1>5, <1>6, <1>7, <1>8, <1>9, <1>10, <1>11,
      <1>12, <1>13, <1>14, <1>15, <1>16, <1>17, <1>18, <1>19, <1>20, <1>21,
      <1>22, <1>23, <1>24, <1>25, <1>26, <1>27
     DEF Next, RequestStep, RunStep, UpdateStep, Fault

LEMMA WellFormedInvariant == Spec => []WellFormed
<1>1. WellFormed /\ [Next]_vars => WellFormed'
  BY TypeStep, OwnershipStep DEF WellFormed
<1>2. QED
  BY WellFormedInit, <1>1, PTL DEF Spec

(* Every reachable state is well typed.                                     *)
THEOREM TypeCorrect == Spec => []TypeOK
<1>1. WellFormed => TypeOK
  BY DEF WellFormed
<1>2. QED
  BY WellFormedInvariant, <1>1, PTL

-----------------------------------------------------------------------------
(* A webhook that has decided to write saw no timestamp column, other than  *)
(* failedAt, that has been cleared since: only failedAt is ever cleared.    *)
SnapshotsAged ==
  \A p \in Pids, s \in Reports : update[<<p, s>>] = "decided" =>
    seen[<<p, s>>] \ {"failedAt"} \subseteq stamps[accepted[p]]

LEMMA ConsistentStep ==
  WellFormed /\ StampsConsistent /\ SnapshotsAged /\ [Next]_vars
    => StampsConsistent'
<1> SUFFICES ASSUME WellFormed, StampsConsistent, SnapshotsAged, [Next]_vars
             PROVE  StampsConsistent'
  OBVIOUS
<1> USE DEF WellFormed
<1>1. ASSUME NEW m \in Messages, CreateOutboundMessage(m)
      PROVE  StampsConsistent'
  BY <1>1 DEF TypeOK, QueueTypeOK, Ownership, StampsConsistent, ImpliedStamps,
      CreateOutboundMessage, rowVars, jobVars, runVars, providerVars,
      webhookVars
<1>2. ASSUME NEW m \in Messages, Enqueue(m)
      PROVE  StampsConsistent'
  BY <1>2 DEF TypeOK, QueueTypeOK, Ownership, StampsConsistent, ImpliedStamps,
      Enqueue, AddJob, rowVars, jobVars, runVars, providerVars, webhookVars
<1>3. ASSUME NEW m \in Messages, EnqueueThrows(m)
      PROVE  StampsConsistent'
  BY <1>3 DEF TypeOK, QueueTypeOK, Ownership, StampsConsistent, ImpliedStamps,
      EnqueueThrows, rowVars, jobVars, runVars, providerVars, webhookVars
<1>4. ASSUME NEW m \in Messages, EnqueueAckLost(m)
      PROVE  StampsConsistent'
  BY <1>4 DEF TypeOK, QueueTypeOK, Ownership, StampsConsistent, ImpliedStamps,
      EnqueueAckLost, AddJob, rowVars, jobVars, runVars, providerVars,
      webhookVars
<1>5. ASSUME NEW m \in Messages, CatchEnqueueError(m)
      PROVE  StampsConsistent'
  BY <1>5 DEF TypeOK, QueueTypeOK, Ownership, StampsConsistent, ImpliedStamps,
      CatchEnqueueError, SetFailed, rowVars, jobVars, runVars, providerVars,
      webhookVars
<1>6. ASSUME NEW m \in Messages, RequestDies(m)
      PROVE  StampsConsistent'
  BY <1>6 DEF TypeOK, QueueTypeOK, Ownership, StampsConsistent, ImpliedStamps,
      RequestDies, rowVars, jobVars, runVars, providerVars, webhookVars
<1>7. ASSUME NEW m \in Messages, Stall(m)
      PROVE  StampsConsistent'
  BY <1>7 DEF TypeOK, QueueTypeOK, Ownership, StampsConsistent, ImpliedStamps,
      Stall, RequeueStalled, rowVars, jobVars, runVars, providerVars,
      webhookVars
<1>8. ASSUME NEW r \in Runs, NEW m \in Messages, PickUp(r, m)
      PROVE  StampsConsistent'
  BY <1>8 DEF TypeOK, QueueTypeOK, Ownership, StampsConsistent, ImpliedStamps,
      PickUp, TakeJob, rowVars, jobVars, runVars, providerVars, webhookVars
<1>9. ASSUME NEW r \in Runs, Claim(r)
      PROVE  StampsConsistent'
  <2>1. CASE SetSending(runMessage[r])
    BY <1>9, <2>1 DEF TypeOK, QueueTypeOK, StampsConsistent, ImpliedStamps,
       SetSending
  <2>2. CASE UNCHANGED rowVars
    BY <1>9, <2>2 DEF StampsConsistent, rowVars
  <2>3. QED
    BY <1>9, <2>1, <2>2 DEF Claim
<1>10. ASSUME NEW r \in Runs, ClaimThrows(r)
      PROVE  StampsConsistent'
  <2>1. CASE SetSending(runMessage[r])
    BY <1>10, <2>1 DEF TypeOK, QueueTypeOK, StampsConsistent, ImpliedStamps,
       SetSending
  <2>2. CASE UNCHANGED rowVars
    BY <1>10, <2>2 DEF StampsConsistent, rowVars
  <2>3. QED
    BY <1>10, <2>1, <2>2 DEF ClaimThrows
<1>11. ASSUME NEW r \in Runs, Load(r)
      PROVE  StampsConsistent'
  BY <1>11 DEF TypeOK, QueueTypeOK, Ownership, StampsConsistent,
      ImpliedStamps, Load, Goto, rowVars, jobVars, runVars, providerVars,
      webhookVars
<1>12. ASSUME NEW r \in Runs, LoadThrows(r)
      PROVE  StampsConsistent'
  BY <1>12 DEF TypeOK, QueueTypeOK, Ownership, StampsConsistent,
      ImpliedStamps, LoadThrows, Goto, rowVars, jobVars, runVars,
      providerVars, webhookVars
<1>13. ASSUME NEW r \in Runs, NEW p \in Pids, SendAccepted(r, p)
      PROVE  StampsConsistent'
  BY <1>13 DEF TypeOK, QueueTypeOK, Ownership, StampsConsistent,
      ImpliedStamps, SendAccepted, ProviderAccepts, Goto, rowVars, jobVars,
      runVars, providerVars, webhookVars
<1>14. ASSUME NEW r \in Runs, NEW p \in Pids, SendAckLost(r, p)
      PROVE  StampsConsistent'
  BY <1>14 DEF TypeOK, QueueTypeOK, Ownership, StampsConsistent,
      ImpliedStamps, SendAckLost, ProviderAccepts, Goto, rowVars, jobVars,
      runVars, providerVars, webhookVars
<1>15. ASSUME NEW r \in Runs, SendRejected(r)
      PROVE  StampsConsistent'
  BY <1>15 DEF TypeOK, QueueTypeOK, Ownership, StampsConsistent,
      ImpliedStamps, SendRejected, Goto, rowVars, jobVars, runVars,
      providerVars, webhookVars
<1>16. ASSUME NEW r \in Runs, RecordSent(r)
      PROVE  StampsConsistent'
  BY <1>16 DEF TypeOK, QueueTypeOK, Ownership, StampsConsistent,
      ImpliedStamps, RecordSent, SetSent, Goto, rowVars, jobVars, runVars,
      providerVars, webhookVars
<1>17. ASSUME NEW r \in Runs, RecordThrows(r)
      PROVE  StampsConsistent'
  <2>1. CASE SetSent(runMessage[r], runPid[r])
    BY <1>17, <2>1 DEF TypeOK, QueueTypeOK, StampsConsistent, ImpliedStamps,
       SetSent
  <2>2. CASE UNCHANGED rowVars
    BY <1>17, <2>2 DEF StampsConsistent, rowVars
  <2>3. QED
    BY <1>17, <2>1, <2>2 DEF RecordThrows
<1>18. ASSUME NEW r \in Runs, MarkMessageAsFailed(r)
      PROVE  StampsConsistent'
  BY <1>18 DEF TypeOK, QueueTypeOK, Ownership, StampsConsistent,
      ImpliedStamps, MarkMessageAsFailed, SetFailed, Goto, rowVars, jobVars,
      runVars, providerVars, webhookVars
<1>19. ASSUME NEW r \in Runs, MarkThrows(r)
      PROVE  StampsConsistent'
  BY <1>19 DEF TypeOK, QueueTypeOK, Ownership, StampsConsistent,
      ImpliedStamps, MarkThrows, Goto, rowVars, jobVars, runVars,
      providerVars, webhookVars
<1>20. ASSUME NEW r \in Runs, CompleteJob(r)
      PROVE  StampsConsistent'
  BY <1>20 DEF TypeOK, QueueTypeOK, Ownership, StampsConsistent,
      ImpliedStamps, CompleteJob, FinishJob, Release, rowVars, jobVars,
      runVars, providerVars, webhookVars
<1>21. ASSUME NEW r \in Runs, FailJob(r)
      PROVE  StampsConsistent'
  BY <1>21 DEF TypeOK, QueueTypeOK, Ownership, StampsConsistent,
      ImpliedStamps, FailJob, RetryJob, Release, rowVars, jobVars, runVars,
      providerVars, webhookVars
<1>22. ASSUME NEW r \in Runs, CrashRun(r)
      PROVE  StampsConsistent'
  BY <1>22 DEF TypeOK, QueueTypeOK, Ownership, StampsConsistent,
      ImpliedStamps, CrashRun, AbandonJob, Release, rowVars, jobVars, runVars,
      providerVars, webhookVars
<1>23. ASSUME NEW p \in Pids, NEW s \in Reports, ProviderReports(p, s)
      PROVE  StampsConsistent'
  BY <1>23 DEF TypeOK, QueueTypeOK, Ownership, StampsConsistent,
      ImpliedStamps, ProviderReports, rowVars, jobVars, runVars, providerVars,
      webhookVars
<1>24. ASSUME NEW p \in Pids, NEW s \in Reports, ReadForStatusUpdate(p, s)
      PROVE  StampsConsistent'
  BY <1>24 DEF TypeOK, QueueTypeOK, Ownership, StampsConsistent,
      ImpliedStamps, ReadForStatusUpdate, rowVars, jobVars, runVars,
      providerVars, webhookVars
<1>25. ASSUME NEW p \in Pids, NEW s \in Reports, WriteStatusUpdate(p, s)
      PROVE  StampsConsistent'
  <2> DEFINE m == accepted[p]
             new == StampsAfter(s, stamps[m], seen[<<p, s>>])
  <2>1. /\ m \in Messages
        /\ seen[<<p, s>>] \ {"failedAt"} \subseteq stamps[m]
        /\ stamps[m] \in SUBSET Stamps
    BY <1>25 DEF TypeOK, QueueTypeOK, Ownership, SnapshotsAged,
       WriteStatusUpdate
  <2>2. /\ s = "FAILED" <=> "failedAt" \in new
        /\ ImpliedStamps(s) \subseteq new
    BY <2>1, StampsAfterFacts
  <2>3. /\ deliveryStatus' = [deliveryStatus EXCEPT ![m] = s]
        /\ stamps' = [stamps EXCEPT ![m] = new]
    BY <1>25 DEF WriteStatusUpdate
  <2> HIDE DEF new, m
  <2>4. QED
    BY <2>1, <2>2, <2>3 DEF TypeOK, QueueTypeOK, StampsConsistent
<1>26. ASSUME NEW p \in Pids, NEW s \in Reports, StatusUpdateThrows(p, s)
      PROVE  StampsConsistent'
  BY <1>26 DEF TypeOK, QueueTypeOK, Ownership, StampsConsistent,
      ImpliedStamps, StatusUpdateThrows, rowVars, jobVars, runVars,
      providerVars, webhookVars
<1>27. CASE UNCHANGED vars
  BY <1>27 DEF TypeOK, QueueTypeOK, Ownership, StampsConsistent,
      ImpliedStamps, vars, rowVars, jobVars, runVars, providerVars,
      webhookVars
<1>28. QED
  BY <1>1, <1>2, <1>3, <1>4, <1>5, <1>6, <1>7, <1>8, <1>9, <1>10, <1>11,
      <1>12, <1>13, <1>14, <1>15, <1>16, <1>17, <1>18, <1>19, <1>20, <1>21,
      <1>22, <1>23, <1>24, <1>25, <1>26, <1>27
     DEF Next, RequestStep, RunStep, UpdateStep, Fault

LEMMA AgedStep ==
  WellFormed /\ SnapshotsAged /\ [Next]_vars => SnapshotsAged'
<1> SUFFICES ASSUME WellFormed, SnapshotsAged, [Next]_vars
             PROVE  SnapshotsAged'
  OBVIOUS
<1> USE DEF WellFormed
<1>a. ASSUME \A q \in Pids, t \in Reports : update'[<<q, t>>] = "decided" =>
                /\ update[<<q, t>>] = "decided"
                /\ seen'[<<q, t>>] = seen[<<q, t>>]
                /\ accepted'[q] = accepted[q],
             \A m \in Messages : stamps[m] \ {"failedAt"} \subseteq stamps'[m]
      PROVE  SnapshotsAged'
  <2> SUFFICES ASSUME NEW q \in Pids, NEW t \in Reports,
                      update'[<<q, t>>] = "decided"
               PROVE  seen'[<<q, t>>] \ {"failedAt"} \subseteq stamps'[accepted'[q]]
    BY DEF SnapshotsAged
  <2>1. /\ seen[<<q, t>>] \ {"failedAt"} \subseteq stamps[accepted[q]]
        /\ accepted[q] \in Messages
    BY <1>a DEF SnapshotsAged, Ownership
  <2>2. QED
    BY <1>a, <2>1
<1>b. ASSUME NEW m \in Messages, SetSending(m) \/ SetFailed(m)
      PROVE  \A n \in Messages : stamps[n] \ {"failedAt"} \subseteq stamps'[n]
  BY <1>b DEF TypeOK, QueueTypeOK, SetSending, SetFailed
<1>c. ASSUME NEW m \in Messages, NEW q, SetSent(m, q)
      PROVE  \A n \in Messages : stamps[n] \ {"failedAt"} \subseteq stamps'[n]
  BY <1>c DEF TypeOK, QueueTypeOK, SetSent
<1>1. ASSUME NEW m \in Messages, CreateOutboundMessage(m)
      PROVE  SnapshotsAged'
  BY <1>1, SentinelAssumption DEF TypeOK, QueueTypeOK, Ownership,
      SnapshotsAged, CreateOutboundMessage, rowVars, jobVars, runVars,
      providerVars, webhookVars
<1>2. ASSUME NEW m \in Messages, Enqueue(m)
      PROVE  SnapshotsAged'
  BY <1>2, SentinelAssumption DEF TypeOK, QueueTypeOK, Ownership,
      SnapshotsAged, Enqueue, AddJob, rowVars, jobVars, runVars, providerVars,
      webhookVars
<1>3. ASSUME NEW m \in Messages, EnqueueThrows(m)
      PROVE  SnapshotsAged'
  BY <1>3, SentinelAssumption DEF TypeOK, QueueTypeOK, Ownership,
      SnapshotsAged, EnqueueThrows, rowVars, jobVars, runVars, providerVars,
      webhookVars
<1>4. ASSUME NEW m \in Messages, EnqueueAckLost(m)
      PROVE  SnapshotsAged'
  BY <1>4, SentinelAssumption DEF TypeOK, QueueTypeOK, Ownership,
      SnapshotsAged, EnqueueAckLost, AddJob, rowVars, jobVars, runVars,
      providerVars, webhookVars
<1>5. ASSUME NEW m \in Messages, CatchEnqueueError(m)
      PROVE  SnapshotsAged'
  BY <1>5, <1>a, <1>b DEF CatchEnqueueError, providerVars, webhookVars
<1>6. ASSUME NEW m \in Messages, RequestDies(m)
      PROVE  SnapshotsAged'
  BY <1>6, SentinelAssumption DEF TypeOK, QueueTypeOK, Ownership,
      SnapshotsAged, RequestDies, rowVars, jobVars, runVars, providerVars,
      webhookVars
<1>7. ASSUME NEW m \in Messages, Stall(m)
      PROVE  SnapshotsAged'
  BY <1>7, SentinelAssumption DEF TypeOK, QueueTypeOK, Ownership,
      SnapshotsAged, Stall, RequeueStalled, rowVars, jobVars, runVars,
      providerVars, webhookVars
<1>8. ASSUME NEW r \in Runs, NEW m \in Messages, PickUp(r, m)
      PROVE  SnapshotsAged'
  BY <1>8, SentinelAssumption DEF TypeOK, QueueTypeOK, Ownership,
      SnapshotsAged, PickUp, TakeJob, rowVars, jobVars, runVars, providerVars,
      webhookVars
<1>9. ASSUME NEW r \in Runs, Claim(r)
      PROVE  SnapshotsAged'
  <2>1. CASE SetSending(runMessage[r])
    BY <1>9, <2>1, <1>a, <1>b DEF Ownership, Claim, providerVars, webhookVars
  <2>2. CASE UNCHANGED rowVars
    BY <1>9, <2>2, <1>a DEF Claim, rowVars, providerVars, webhookVars
  <2>3. QED
    BY <1>9, <2>1, <2>2 DEF Claim
<1>10. ASSUME NEW r \in Runs, ClaimThrows(r)
      PROVE  SnapshotsAged'
  <2>1. CASE SetSending(runMessage[r])
    BY <1>10, <2>1, <1>a, <1>b DEF Ownership, ClaimThrows, providerVars,
       webhookVars
  <2>2. CASE UNCHANGED rowVars
    BY <1>10, <2>2, <1>a DEF ClaimThrows, rowVars, providerVars, webhookVars
  <2>3. QED
    BY <1>10, <2>1, <2>2 DEF ClaimThrows
<1>11. ASSUME NEW r \in Runs, Load(r)
      PROVE  SnapshotsAged'
  BY <1>11, SentinelAssumption DEF TypeOK, QueueTypeOK, Ownership,
      SnapshotsAged, Load, Goto, rowVars, jobVars, runVars, providerVars,
      webhookVars
<1>12. ASSUME NEW r \in Runs, LoadThrows(r)
      PROVE  SnapshotsAged'
  BY <1>12, SentinelAssumption DEF TypeOK, QueueTypeOK, Ownership,
      SnapshotsAged, LoadThrows, Goto, rowVars, jobVars, runVars,
      providerVars, webhookVars
<1>13. ASSUME NEW r \in Runs, NEW p \in Pids, SendAccepted(r, p)
      PROVE  SnapshotsAged'
  <2>1. \A q \in Pids, t \in Reports : update[<<q, t>>] = "decided" =>
          accepted'[q] = accepted[q]
    BY <1>13, SentinelAssumption DEF TypeOK, QueueTypeOK, Ownership,
       SendAccepted, ProviderAccepts
  <2>2. QED
    BY <1>13, <2>1, <1>a DEF SendAccepted, rowVars, webhookVars
<1>14. ASSUME NEW r \in Runs, NEW p \in Pids, SendAckLost(r, p)
      PROVE  SnapshotsAged'
  <2>1. \A q \in Pids, t \in Reports : update[<<q, t>>] = "decided" =>
          accepted'[q] = accepted[q]
    BY <1>14, SentinelAssumption DEF TypeOK, QueueTypeOK, Ownership,
       SendAckLost, ProviderAccepts
  <2>2. QED
    BY <1>14, <2>1, <1>a DEF SendAckLost, rowVars, webhookVars
<1>15. ASSUME NEW r \in Runs, SendRejected(r)
      PROVE  SnapshotsAged'
  BY <1>15, SentinelAssumption DEF TypeOK, QueueTypeOK, Ownership,
      SnapshotsAged, SendRejected, Goto, rowVars, jobVars, runVars,
      providerVars, webhookVars
<1>16. ASSUME NEW r \in Runs, RecordSent(r)
      PROVE  SnapshotsAged'
  BY <1>16, <1>a, <1>c DEF Ownership, RecordSent, providerVars, webhookVars
<1>17. ASSUME NEW r \in Runs, RecordThrows(r)
      PROVE  SnapshotsAged'
  <2>1. CASE SetSent(runMessage[r], runPid[r])
    BY <1>17, <2>1, <1>a, <1>c DEF Ownership, RecordThrows, providerVars,
       webhookVars
  <2>2. CASE UNCHANGED rowVars
    BY <1>17, <2>2, <1>a DEF RecordThrows, rowVars, providerVars, webhookVars
  <2>3. QED
    BY <1>17, <2>1, <2>2 DEF RecordThrows
<1>18. ASSUME NEW r \in Runs, MarkMessageAsFailed(r)
      PROVE  SnapshotsAged'
  BY <1>18, <1>a, <1>b DEF Ownership, MarkMessageAsFailed, providerVars,
    webhookVars
<1>19. ASSUME NEW r \in Runs, MarkThrows(r)
      PROVE  SnapshotsAged'
  BY <1>19, SentinelAssumption DEF TypeOK, QueueTypeOK, Ownership,
      SnapshotsAged, MarkThrows, Goto, rowVars, jobVars, runVars,
      providerVars, webhookVars
<1>20. ASSUME NEW r \in Runs, CompleteJob(r)
      PROVE  SnapshotsAged'
  BY <1>20, SentinelAssumption DEF TypeOK, QueueTypeOK, Ownership,
      SnapshotsAged, CompleteJob, FinishJob, Release, rowVars, jobVars,
      runVars, providerVars, webhookVars
<1>21. ASSUME NEW r \in Runs, FailJob(r)
      PROVE  SnapshotsAged'
  BY <1>21, SentinelAssumption DEF TypeOK, QueueTypeOK, Ownership,
      SnapshotsAged, FailJob, RetryJob, Release, rowVars, jobVars, runVars,
      providerVars, webhookVars
<1>22. ASSUME NEW r \in Runs, CrashRun(r)
      PROVE  SnapshotsAged'
  BY <1>22, SentinelAssumption DEF TypeOK, QueueTypeOK, Ownership,
      SnapshotsAged, CrashRun, AbandonJob, Release, rowVars, jobVars, runVars,
      providerVars, webhookVars
<1>23. ASSUME NEW p \in Pids, NEW s \in Reports, ProviderReports(p, s)
      PROVE  SnapshotsAged'
  <2>1. \A q \in Pids, t \in Reports : update'[<<q, t>>] = "decided" =>
          update[<<q, t>>] = "decided"
    <3> SUFFICES ASSUME NEW q \in Pids, NEW t \in Reports,
                        update'[<<q, t>>] = "decided"
                 PROVE  update[<<q, t>>] = "decided"
      OBVIOUS
    <3>1. CASE <<q, t>> = <<p, s>>
      BY <1>23, <3>1 DEF TypeOK, QueueTypeOK, ProviderReports
    <3>2. CASE <<q, t>> # <<p, s>>
      BY <1>23, <3>2 DEF TypeOK, QueueTypeOK, ProviderReports
    <3>3. QED
      BY <3>1, <3>2
  <2>2. QED
    BY <1>23, <2>1, <1>a DEF ProviderReports, rowVars
<1>24. ASSUME NEW p \in Pids, NEW s \in Reports, ReadForStatusUpdate(p, s)
      PROVE  SnapshotsAged'
  <2>1. CASE /\ update' = [update EXCEPT ![<<p, s>>] = "decided"]
             /\ seen' = [seen EXCEPT ![<<p, s>>] = stamps[accepted[p]]]
    BY <1>24, <2>1 DEF TypeOK, QueueTypeOK, SnapshotsAged, ReadForStatusUpdate,
       rowVars,
      providerVars
  <2>2. CASE /\ update' = [update EXCEPT ![<<p, s>>] = "dropped"]
             /\ UNCHANGED seen
    BY <1>24, <2>2 DEF TypeOK, QueueTypeOK, SnapshotsAged, ReadForStatusUpdate,
       rowVars,
      providerVars
  <2>3. QED
    BY <1>24, <2>1, <2>2 DEF ReadForStatusUpdate
<1>25. ASSUME NEW p \in Pids, NEW s \in Reports, WriteStatusUpdate(p, s)
      PROVE  SnapshotsAged'
  <2> DEFINE m == accepted[p]
             new == StampsAfter(s, stamps[m], seen[<<p, s>>])
  <2>1. /\ m \in Messages
        /\ stamps[m] \in SUBSET Stamps
    BY <1>25 DEF TypeOK, QueueTypeOK, Ownership, WriteStatusUpdate
  <2>2. stamps[m] \ {"failedAt"} \subseteq new
    BY <2>1, StampsAfterFacts
  <2>3. \A n \in Messages : stamps[n] \ {"failedAt"} \subseteq stamps'[n]
    <3>1. stamps' = [stamps EXCEPT ![m] = new]
      BY <1>25 DEF WriteStatusUpdate
    <3> HIDE DEF new, m
    <3>2. QED
      BY <2>2, <3>1 DEF TypeOK, QueueTypeOK
  <2>4. \A q \in Pids, t \in Reports : update'[<<q, t>>] = "decided" =>
          update[<<q, t>>] = "decided"
    <3> SUFFICES ASSUME NEW q \in Pids, NEW t \in Reports,
                        update'[<<q, t>>] = "decided"
                 PROVE  update[<<q, t>>] = "decided"
      OBVIOUS
    <3>1. CASE <<q, t>> = <<p, s>>
      BY <1>25, <3>1 DEF TypeOK, QueueTypeOK, WriteStatusUpdate
    <3>2. CASE <<q, t>> # <<p, s>>
      BY <1>25, <3>2 DEF TypeOK, QueueTypeOK, WriteStatusUpdate
    <3>3. QED
      BY <3>1, <3>2
  <2>5. QED
    BY <1>25, <2>3, <2>4, <1>a DEF WriteStatusUpdate, providerVars
<1>26. ASSUME NEW p \in Pids, NEW s \in Reports, StatusUpdateThrows(p, s)
      PROVE  SnapshotsAged'
  <2>1. \A q \in Pids, t \in Reports : update'[<<q, t>>] = "decided" =>
          update[<<q, t>>] = "decided"
    <3> SUFFICES ASSUME NEW q \in Pids, NEW t \in Reports,
                        update'[<<q, t>>] = "decided"
                 PROVE  update[<<q, t>>] = "decided"
      OBVIOUS
    <3>1. CASE <<q, t>> = <<p, s>>
      BY <1>26, <3>1 DEF TypeOK, QueueTypeOK, StatusUpdateThrows
    <3>2. CASE <<q, t>> # <<p, s>>
      BY <1>26, <3>2 DEF TypeOK, QueueTypeOK, StatusUpdateThrows
    <3>3. QED
      BY <3>1, <3>2
  <2>2. QED
    BY <1>26, <2>1, <1>a DEF StatusUpdateThrows, rowVars,
      providerVars
<1>27. CASE UNCHANGED vars
  BY <1>27 DEF TypeOK, QueueTypeOK, Ownership, SnapshotsAged, vars, rowVars,
      jobVars, runVars, providerVars, webhookVars
<1>28. QED
  BY <1>1, <1>2, <1>3, <1>4, <1>5, <1>6, <1>7, <1>8, <1>9, <1>10, <1>11,
      <1>12, <1>13, <1>14, <1>15, <1>16, <1>17, <1>18, <1>19, <1>20, <1>21,
      <1>22, <1>23, <1>24, <1>25, <1>26, <1>27
     DEF Next, RequestStep, RunStep, UpdateStep, Fault

(* The timestamp columns always agree with the status.                      *)
THEOREM StampsAlwaysConsistent == Spec => []StampsConsistent
<1>1. Init => StampsConsistent /\ SnapshotsAged
  BY DEF Init, StampsConsistent, SnapshotsAged
<1>2. QED
  BY <1>1, ConsistentStep, AgedStep, WellFormedInvariant, PTL DEF Spec

-----------------------------------------------------------------------------
LEMMA EarnedStep ==
  WellFormed /\ StatusIsEarned /\ [Next]_vars => StatusIsEarned'
<1> SUFFICES ASSUME WellFormed, StatusIsEarned, [Next]_vars
             PROVE  StatusIsEarned'
  OBVIOUS
<1> USE DEF WellFormed
<1>1. ASSUME NEW m \in Messages, CreateOutboundMessage(m)
      PROVE  StatusIsEarned'
  BY <1>1, SentinelAssumption DEF TypeOK, QueueTypeOK, Ownership,
      StatusIsEarned, CreateOutboundMessage, rowVars, jobVars, runVars,
      providerVars, webhookVars
<1>2. ASSUME NEW m \in Messages, Enqueue(m)
      PROVE  StatusIsEarned'
  BY <1>2, SentinelAssumption DEF TypeOK, QueueTypeOK, Ownership,
      StatusIsEarned, Enqueue, AddJob, rowVars, jobVars, runVars,
      providerVars, webhookVars
<1>3. ASSUME NEW m \in Messages, EnqueueThrows(m)
      PROVE  StatusIsEarned'
  BY <1>3, SentinelAssumption DEF TypeOK, QueueTypeOK, Ownership,
      StatusIsEarned, EnqueueThrows, rowVars, jobVars, runVars, providerVars,
      webhookVars
<1>4. ASSUME NEW m \in Messages, EnqueueAckLost(m)
      PROVE  StatusIsEarned'
  BY <1>4, SentinelAssumption DEF TypeOK, QueueTypeOK, Ownership,
      StatusIsEarned, EnqueueAckLost, AddJob, rowVars, jobVars, runVars,
      providerVars, webhookVars
<1>5. ASSUME NEW m \in Messages, CatchEnqueueError(m)
      PROVE  StatusIsEarned'
  BY <1>5, SentinelAssumption DEF TypeOK, QueueTypeOK, Ownership,
      StatusIsEarned, CatchEnqueueError, SetFailed, rowVars, jobVars, runVars,
      providerVars, webhookVars
<1>6. ASSUME NEW m \in Messages, RequestDies(m)
      PROVE  StatusIsEarned'
  BY <1>6, SentinelAssumption DEF TypeOK, QueueTypeOK, Ownership,
      StatusIsEarned, RequestDies, rowVars, jobVars, runVars, providerVars,
      webhookVars
<1>7. ASSUME NEW m \in Messages, Stall(m)
      PROVE  StatusIsEarned'
  BY <1>7, SentinelAssumption DEF TypeOK, QueueTypeOK, Ownership,
      StatusIsEarned, Stall, RequeueStalled, rowVars, jobVars, runVars,
      providerVars, webhookVars
<1>8. ASSUME NEW r \in Runs, NEW m \in Messages, PickUp(r, m)
      PROVE  StatusIsEarned'
  BY <1>8, SentinelAssumption DEF TypeOK, QueueTypeOK, Ownership,
      StatusIsEarned, PickUp, TakeJob, rowVars, jobVars, runVars,
      providerVars, webhookVars
<1>9. ASSUME NEW r \in Runs, Claim(r)
      PROVE  StatusIsEarned'
  BY <1>9, SentinelAssumption DEF TypeOK, QueueTypeOK, Ownership,
      StatusIsEarned, Claim, Goto, SetSending, Claimable, rowVars, jobVars,
      runVars, providerVars, webhookVars
<1>10. ASSUME NEW r \in Runs, ClaimThrows(r)
      PROVE  StatusIsEarned'
  BY <1>10, SentinelAssumption DEF TypeOK, QueueTypeOK, Ownership,
      StatusIsEarned, ClaimThrows, Goto, SetSending, Claimable, rowVars,
      jobVars, runVars, providerVars, webhookVars
<1>11. ASSUME NEW r \in Runs, Load(r)
      PROVE  StatusIsEarned'
  BY <1>11, SentinelAssumption DEF TypeOK, QueueTypeOK, Ownership,
      StatusIsEarned, Load, Goto, rowVars, jobVars, runVars, providerVars,
      webhookVars
<1>12. ASSUME NEW r \in Runs, LoadThrows(r)
      PROVE  StatusIsEarned'
  BY <1>12, SentinelAssumption DEF TypeOK, QueueTypeOK, Ownership,
      StatusIsEarned, LoadThrows, Goto, rowVars, jobVars, runVars,
      providerVars, webhookVars
<1>13. ASSUME NEW r \in Runs, NEW p \in Pids, SendAccepted(r, p)
      PROVE  StatusIsEarned'
  BY <1>13, SentinelAssumption DEF TypeOK, QueueTypeOK, Ownership,
      StatusIsEarned, SendAccepted, ProviderAccepts, Goto, rowVars, jobVars,
      runVars, providerVars, webhookVars
<1>14. ASSUME NEW r \in Runs, NEW p \in Pids, SendAckLost(r, p)
      PROVE  StatusIsEarned'
  BY <1>14, SentinelAssumption DEF TypeOK, QueueTypeOK, Ownership,
      StatusIsEarned, SendAckLost, ProviderAccepts, Goto, rowVars, jobVars,
      runVars, providerVars, webhookVars
<1>15. ASSUME NEW r \in Runs, SendRejected(r)
      PROVE  StatusIsEarned'
  BY <1>15, SentinelAssumption DEF TypeOK, QueueTypeOK, Ownership,
      StatusIsEarned, SendRejected, Goto, rowVars, jobVars, runVars,
      providerVars, webhookVars
<1>16. ASSUME NEW r \in Runs, RecordSent(r)
      PROVE  StatusIsEarned'
  BY <1>16, SentinelAssumption DEF TypeOK, QueueTypeOK, Ownership,
      StatusIsEarned, RecordSent, SetSent, Goto, rowVars, jobVars, runVars,
      providerVars, webhookVars
<1>17. ASSUME NEW r \in Runs, RecordThrows(r)
      PROVE  StatusIsEarned'
  BY <1>17, SentinelAssumption DEF TypeOK, QueueTypeOK, Ownership,
      StatusIsEarned, RecordThrows, SetSent, Goto, rowVars, jobVars, runVars,
      providerVars, webhookVars
<1>18. ASSUME NEW r \in Runs, MarkMessageAsFailed(r)
      PROVE  StatusIsEarned'
  BY <1>18, SentinelAssumption DEF TypeOK, QueueTypeOK, Ownership,
      StatusIsEarned, MarkMessageAsFailed, SetFailed, Goto, rowVars, jobVars,
      runVars, providerVars, webhookVars
<1>19. ASSUME NEW r \in Runs, MarkThrows(r)
      PROVE  StatusIsEarned'
  BY <1>19, SentinelAssumption DEF TypeOK, QueueTypeOK, Ownership,
      StatusIsEarned, MarkThrows, Goto, rowVars, jobVars, runVars,
      providerVars, webhookVars
<1>20. ASSUME NEW r \in Runs, CompleteJob(r)
      PROVE  StatusIsEarned'
  BY <1>20, SentinelAssumption DEF TypeOK, QueueTypeOK, Ownership,
      StatusIsEarned, CompleteJob, FinishJob, Release, rowVars, jobVars,
      runVars, providerVars, webhookVars
<1>21. ASSUME NEW r \in Runs, FailJob(r)
      PROVE  StatusIsEarned'
  BY <1>21, SentinelAssumption DEF TypeOK, QueueTypeOK, Ownership,
      StatusIsEarned, FailJob, RetryJob, Release, rowVars, jobVars, runVars,
      providerVars, webhookVars
<1>22. ASSUME NEW r \in Runs, CrashRun(r)
      PROVE  StatusIsEarned'
  BY <1>22, SentinelAssumption DEF TypeOK, QueueTypeOK, Ownership,
      StatusIsEarned, CrashRun, AbandonJob, Release, rowVars, jobVars,
      runVars, providerVars, webhookVars
<1>23. ASSUME NEW p \in Pids, NEW s \in Reports, ProviderReports(p, s)
      PROVE  StatusIsEarned'
  BY <1>23, SentinelAssumption DEF TypeOK, QueueTypeOK, Ownership,
      StatusIsEarned, ProviderReports, rowVars, jobVars, runVars,
      providerVars, webhookVars
<1>24. ASSUME NEW p \in Pids, NEW s \in Reports, ReadForStatusUpdate(p, s)
      PROVE  StatusIsEarned'
  BY <1>24, SentinelAssumption DEF TypeOK, QueueTypeOK, Ownership,
      StatusIsEarned, ReadForStatusUpdate, rowVars, jobVars, runVars,
      providerVars, webhookVars
<1>25. ASSUME NEW p \in Pids, NEW s \in Reports, WriteStatusUpdate(p, s)
      PROVE  StatusIsEarned'
  BY <1>25, SentinelAssumption DEF TypeOK, QueueTypeOK, Ownership,
      StatusIsEarned, WriteStatusUpdate, StampsAfter, ImpliedStamps, rowVars,
      jobVars, runVars, providerVars, webhookVars
<1>26. ASSUME NEW p \in Pids, NEW s \in Reports, StatusUpdateThrows(p, s)
      PROVE  StatusIsEarned'
  BY <1>26, SentinelAssumption DEF TypeOK, QueueTypeOK, Ownership,
      StatusIsEarned, StatusUpdateThrows, rowVars, jobVars, runVars,
      providerVars, webhookVars
<1>27. CASE UNCHANGED vars
  BY <1>27 DEF TypeOK, QueueTypeOK, Ownership, StatusIsEarned, vars, rowVars,
      jobVars, runVars, providerVars, webhookVars
<1>28. QED
  BY <1>1, <1>2, <1>3, <1>4, <1>5, <1>6, <1>7, <1>8, <1>9, <1>10, <1>11,
      <1>12, <1>13, <1>14, <1>15, <1>16, <1>17, <1>18, <1>19, <1>20, <1>21,
      <1>22, <1>23, <1>24, <1>25, <1>26, <1>27
     DEF Next, RequestStep, RunStep, UpdateStep, Fault

(* The status never claims more than the provider said.                     *)
THEOREM StatusAlwaysEarned == Spec => []StatusIsEarned
<1>1. Init => StatusIsEarned
  BY DEF Init, StatusIsEarned
<1>2. QED
  BY <1>1, EarnedStep, WellFormedInvariant, PTL DEF Spec

-----------------------------------------------------------------------------
(* The right to hand a message to the provider.  With crashes and stalls as *)
(* the only faults it is never in two places at once: in the row (QUEUED or *)
(* FAILED), with a run that has claimed and not sent, or with a provider id *)
(* that has not been written back as failed.                                *)
Unsent(r) == run[r] \in {"load", "send", "mark"}

WrittenFailed(p) == "FAILED" \in Reports /\ update[<<p, "FAILED">>] = "applied"

Live(p) == accepted[p] \in Messages /\ ~WrittenFailed(p)

RunHasRight ==
  /\ \A r \in Runs : Unsent(r) => ~Claimable(runMessage[r])
  /\ \A r, q \in Runs :
       Unsent(r) /\ Unsent(q) /\ runMessage[r] = runMessage[q] => r = q
  /\ \A r \in Runs, p \in Pids :
       Unsent(r) /\ Live(p) => accepted[p] # runMessage[r]

PidHasRight ==
  /\ \A p \in Pids : Live(p) => ~Claimable(accepted[p])
  /\ \A p, q \in Pids :
       Live(p) /\ Live(q) /\ accepted[p] = accepted[q] => p = q

(* A send result waiting to be recorded is live, is no row's provider id    *)
(* yet, and so no webhook has decided to fail it; no two runs hold it.      *)
RecordPending ==
  /\ \A r \in Runs : run[r] = "record" =>
       /\ Live(runPid[r])
       /\ providerMessageId[runMessage[r]] # runPid[r]
       /\ "FAILED" \in Reports => update[<<runPid[r], "FAILED">>] # "decided"
  /\ \A r, q \in Runs :
       run[r] = "record" /\ run[q] = "record" /\ runPid[r] = runPid[q] => r = q

JobAfterRequest ==
  \A m \in Messages : request[m] \in {"enqueue", "catch"} => job[m] = "absent"

RightInv == RunHasRight /\ PidHasRight /\ RecordPending /\ JobAfterRequest

CrashAndStallOnly == Faults \subseteq {"crash", "stall"}

LEMMA RightStep ==
  CrashAndStallOnly /\ WellFormed /\ RightInv /\ [Next]_vars => RightInv'
<1> SUFFICES ASSUME CrashAndStallOnly, WellFormed, RightInv, [Next]_vars
             PROVE  RightInv'
  OBVIOUS
<1> USE DEF WellFormed, CrashAndStallOnly
<1>1. ASSUME NEW m \in Messages, CreateOutboundMessage(m)
      PROVE  RightInv'
  BY <1>1, SentinelAssumption DEF TypeOK, QueueTypeOK, Ownership, RightInv,
      RunHasRight, PidHasRight, RecordPending, JobAfterRequest, Unsent, Live,
      WrittenFailed, Claimable, CreateOutboundMessage, rowVars, jobVars,
      runVars, providerVars, webhookVars
<1>2. ASSUME NEW m \in Messages, Enqueue(m)
      PROVE  RightInv'
  BY <1>2, SentinelAssumption DEF TypeOK, QueueTypeOK, Ownership, RightInv,
      RunHasRight, PidHasRight, RecordPending, JobAfterRequest, Unsent, Live,
      WrittenFailed, Claimable, Enqueue, AddJob, rowVars, jobVars, runVars,
      providerVars, webhookVars
<1>3. ASSUME NEW m \in Messages, EnqueueThrows(m)
      PROVE  RightInv'
  BY <1>3, SentinelAssumption DEF TypeOK, QueueTypeOK, Ownership, RightInv,
      RunHasRight, PidHasRight, RecordPending, JobAfterRequest, Unsent, Live,
      WrittenFailed, Claimable, EnqueueThrows, rowVars, jobVars, runVars,
      providerVars, webhookVars
<1>4. ASSUME NEW m \in Messages, EnqueueAckLost(m)
      PROVE  RightInv'
  BY <1>4, SentinelAssumption DEF TypeOK, QueueTypeOK, Ownership, RightInv,
      RunHasRight, PidHasRight, RecordPending, JobAfterRequest, Unsent, Live,
      WrittenFailed, Claimable, EnqueueAckLost, AddJob, rowVars, jobVars,
      runVars, providerVars, webhookVars
<1>5. ASSUME NEW m \in Messages, CatchEnqueueError(m)
      PROVE  RightInv'
  BY <1>5, SentinelAssumption DEF TypeOK, QueueTypeOK, Ownership, RightInv,
      RunHasRight, PidHasRight, RecordPending, JobAfterRequest, Unsent, Live,
      WrittenFailed, Claimable, CatchEnqueueError, SetFailed, rowVars,
      jobVars, runVars, providerVars, webhookVars
<1>6. ASSUME NEW m \in Messages, RequestDies(m)
      PROVE  RightInv'
  BY <1>6, SentinelAssumption DEF TypeOK, QueueTypeOK, Ownership, RightInv,
      RunHasRight, PidHasRight, RecordPending, JobAfterRequest, Unsent, Live,
      WrittenFailed, Claimable, RequestDies, rowVars, jobVars, runVars,
      providerVars, webhookVars
<1>7. ASSUME NEW m \in Messages, Stall(m)
      PROVE  RightInv'
  BY <1>7, SentinelAssumption DEF TypeOK, QueueTypeOK, Ownership, RightInv,
      RunHasRight, PidHasRight, RecordPending, JobAfterRequest, Unsent, Live,
      WrittenFailed, Claimable, Stall, RequeueStalled, rowVars, jobVars,
      runVars, providerVars, webhookVars
<1>8. ASSUME NEW r \in Runs, NEW m \in Messages, PickUp(r, m)
      PROVE  RightInv'
  BY <1>8, SentinelAssumption DEF TypeOK, QueueTypeOK, Ownership, RightInv,
      RunHasRight, PidHasRight, RecordPending, JobAfterRequest, Unsent, Live,
      WrittenFailed, Claimable, PickUp, TakeJob, rowVars, jobVars, runVars,
      providerVars, webhookVars
<1>9. ASSUME NEW r \in Runs, Claim(r)
      PROVE  RightInv'
  <2> DEFINE m == runMessage[r]
  <2>1. CASE Claimable(m)
    <3>1. /\ m \in Messages
          /\ \A q \in Runs : Unsent(q) => runMessage[q] # m
          /\ \A p \in Pids : Live(p) => accepted[p] # m
      BY <1>9, <2>1 DEF Ownership, Claim, RightInv, RunHasRight, PidHasRight
    <3>2. /\ deliveryStatus' = [deliveryStatus EXCEPT ![m] = "SENDING"]
          /\ run' = [run EXCEPT ![r] = "load"]
          /\ UNCHANGED <<runMessage, runPid, accepted, update,
                         providerMessageId, request, job>>
      BY <1>9, <2>1 DEF Claim, SetSending, Goto, jobVars, providerVars,
        webhookVars
    <3>3. \A q \in Runs : Unsent(q)' <=> Unsent(q) \/ q = r
      BY <1>9, <3>2 DEF TypeOK, QueueTypeOK, Unsent, Claim
    <3>4. \A p \in Pids : Live(p)' <=> Live(p)
      BY <3>2 DEF Live, WrittenFailed
    <3>5. \A n \in Messages : Claimable(n)' <=> Claimable(n) /\ n # m
      BY <3>1, <3>2 DEF TypeOK, QueueTypeOK, Claimable
    <3>6. RunHasRight'
      BY <3>1, <3>2, <3>3, <3>4, <3>5
      DEF Ownership, RightInv, RunHasRight, Unsent
    <3>7. PidHasRight'
      BY <3>1, <3>2, <3>4, <3>5 DEF RightInv, PidHasRight, Live
    <3>8. RecordPending' /\ JobAfterRequest'
      BY <1>9, <3>2, <3>4
      DEF TypeOK, QueueTypeOK, Ownership, RightInv, RecordPending, JobAfterRequest, Claim
    <3>9. QED
      BY <3>6, <3>7, <3>8 DEF RightInv
  <2>2. CASE ~Claimable(m)
    <3>1. /\ run' = [run EXCEPT ![r] = "return"]
          /\ UNCHANGED <<deliveryStatus, runMessage, runPid, accepted, update,
                         providerMessageId, request, job>>
      BY <1>9, <2>2 DEF Claim, Goto, rowVars, jobVars, providerVars,
        webhookVars
    <3>2. \A q \in Runs :
            /\ Unsent(q)' <=> Unsent(q)
            /\ run'[q] = "record" => run[q] = "record"
      BY <1>9, <3>1 DEF TypeOK, QueueTypeOK, Unsent, Claim
    <3>3. RunHasRight' /\ PidHasRight' /\ JobAfterRequest'
      BY <3>1, <3>2 DEF RightInv, RunHasRight, PidHasRight, JobAfterRequest,
        Live, WrittenFailed, Claimable
    <3>4. RecordPending'
      BY <3>1, <3>2 DEF RightInv, RecordPending, Live, WrittenFailed
    <3>5. QED
      BY <3>3, <3>4 DEF RightInv
  <2>3. QED
    BY <2>1, <2>2
<1>10. ASSUME NEW r \in Runs, ClaimThrows(r)
      PROVE  RightInv'
  BY <1>10, SentinelAssumption DEF TypeOK, QueueTypeOK, Ownership, RightInv,
      RunHasRight, PidHasRight, RecordPending, JobAfterRequest, Unsent, Live,
      WrittenFailed, Claimable, ClaimThrows, Goto, SetSending, Claimable,
      rowVars, jobVars, runVars, providerVars, webhookVars
<1>11. ASSUME NEW r \in Runs, Load(r)
      PROVE  RightInv'
  BY <1>11, SentinelAssumption DEF TypeOK, QueueTypeOK, Ownership, RightInv,
      RunHasRight, PidHasRight, RecordPending, JobAfterRequest, Unsent, Live,
      WrittenFailed, Claimable, Load, Goto, rowVars, jobVars, runVars,
      providerVars, webhookVars
<1>12. ASSUME NEW r \in Runs, LoadThrows(r)
      PROVE  RightInv'
  BY <1>12, SentinelAssumption DEF TypeOK, QueueTypeOK, Ownership, RightInv,
      RunHasRight, PidHasRight, RecordPending, JobAfterRequest, Unsent, Live,
      WrittenFailed, Claimable, LoadThrows, Goto, rowVars, jobVars, runVars,
      providerVars, webhookVars
<1>13. ASSUME NEW r \in Runs, NEW p \in Pids, SendAccepted(r, p)
      PROVE  RightInv'
  BY <1>13, SentinelAssumption DEF TypeOK, QueueTypeOK, Ownership, RightInv,
      RunHasRight, PidHasRight, RecordPending, JobAfterRequest, Unsent, Live,
      WrittenFailed, Claimable, SendAccepted, ProviderAccepts, Goto, rowVars,
      jobVars, runVars, providerVars, webhookVars
<1>14. ASSUME NEW r \in Runs, NEW p \in Pids, SendAckLost(r, p)
      PROVE  RightInv'
  BY <1>14, SentinelAssumption DEF TypeOK, QueueTypeOK, Ownership, RightInv,
      RunHasRight, PidHasRight, RecordPending, JobAfterRequest, Unsent, Live,
      WrittenFailed, Claimable, SendAckLost, ProviderAccepts, Goto, rowVars,
      jobVars, runVars, providerVars, webhookVars
<1>15. ASSUME NEW r \in Runs, SendRejected(r)
      PROVE  RightInv'
  BY <1>15, SentinelAssumption DEF TypeOK, QueueTypeOK, Ownership, RightInv,
      RunHasRight, PidHasRight, RecordPending, JobAfterRequest, Unsent, Live,
      WrittenFailed, Claimable, SendRejected, Goto, rowVars, jobVars, runVars,
      providerVars, webhookVars
<1>16. ASSUME NEW r \in Runs, RecordSent(r)
      PROVE  RightInv'
  BY <1>16, SentinelAssumption DEF TypeOK, QueueTypeOK, Ownership, RightInv,
      RunHasRight, PidHasRight, RecordPending, JobAfterRequest, Unsent, Live,
      WrittenFailed, Claimable, RecordSent, SetSent, Goto, rowVars, jobVars,
      runVars, providerVars, webhookVars
<1>17. ASSUME NEW r \in Runs, RecordThrows(r)
      PROVE  RightInv'
  BY <1>17, SentinelAssumption DEF TypeOK, QueueTypeOK, Ownership, RightInv,
      RunHasRight, PidHasRight, RecordPending, JobAfterRequest, Unsent, Live,
      WrittenFailed, Claimable, RecordThrows, SetSent, Goto, rowVars, jobVars,
      runVars, providerVars, webhookVars
<1>18. ASSUME NEW r \in Runs, MarkMessageAsFailed(r)
      PROVE  RightInv'
  BY <1>18, SentinelAssumption DEF TypeOK, QueueTypeOK, Ownership, RightInv,
      RunHasRight, PidHasRight, RecordPending, JobAfterRequest, Unsent, Live,
      WrittenFailed, Claimable, MarkMessageAsFailed, SetFailed, Goto, rowVars,
      jobVars, runVars, providerVars, webhookVars
<1>19. ASSUME NEW r \in Runs, MarkThrows(r)
      PROVE  RightInv'
  BY <1>19, SentinelAssumption DEF TypeOK, QueueTypeOK, Ownership, RightInv,
      RunHasRight, PidHasRight, RecordPending, JobAfterRequest, Unsent, Live,
      WrittenFailed, Claimable, MarkThrows, Goto, rowVars, jobVars, runVars,
      providerVars, webhookVars
<1>20. ASSUME NEW r \in Runs, CompleteJob(r)
      PROVE  RightInv'
  BY <1>20, SentinelAssumption DEF TypeOK, QueueTypeOK, Ownership, RightInv,
      RunHasRight, PidHasRight, RecordPending, JobAfterRequest, Unsent, Live,
      WrittenFailed, Claimable, CompleteJob, FinishJob, Release, rowVars,
      jobVars, runVars, providerVars, webhookVars
<1>21. ASSUME NEW r \in Runs, FailJob(r)
      PROVE  RightInv'
  BY <1>21, SentinelAssumption DEF TypeOK, QueueTypeOK, Ownership, RightInv,
      RunHasRight, PidHasRight, RecordPending, JobAfterRequest, Unsent, Live,
      WrittenFailed, Claimable, FailJob, RetryJob, Release, rowVars, jobVars,
      runVars, providerVars, webhookVars
<1>22. ASSUME NEW r \in Runs, CrashRun(r)
      PROVE  RightInv'
  BY <1>22, SentinelAssumption DEF TypeOK, QueueTypeOK, Ownership, RightInv,
      RunHasRight, PidHasRight, RecordPending, JobAfterRequest, Unsent, Live,
      WrittenFailed, Claimable, CrashRun, AbandonJob, Release, rowVars,
      jobVars, runVars, providerVars, webhookVars
<1>23. ASSUME NEW p \in Pids, NEW s \in Reports, ProviderReports(p, s)
      PROVE  RightInv'
  BY <1>23, SentinelAssumption DEF TypeOK, QueueTypeOK, Ownership, RightInv,
      RunHasRight, PidHasRight, RecordPending, JobAfterRequest, Unsent, Live,
      WrittenFailed, Claimable, ProviderReports, rowVars, jobVars, runVars,
      providerVars, webhookVars
<1>24. ASSUME NEW p \in Pids, NEW s \in Reports, ReadForStatusUpdate(p, s)
      PROVE  RightInv'
  <2>1. /\ update[<<p, s>>] = "pending"
        /\ UNCHANGED <<deliveryStatus, providerMessageId, request, job, run,
                       runMessage, runPid, accepted>>
    BY <1>24 DEF ReadForStatusUpdate, rowVars, jobVars, runVars, providerVars
  <2>2. PICK phase \in {"decided", "dropped"} :
          /\ update' = [update EXCEPT ![<<p, s>>] = phase]
          /\ phase = "decided" => providerMessageId[accepted[p]] = p
    BY <1>24 DEF ReadForStatusUpdate
  <2>3. \A q \in Pids : WrittenFailed(q)' <=> WrittenFailed(q)
    BY <2>1, <2>2 DEF TypeOK, QueueTypeOK, WrittenFailed
  <2>4. \A q \in Pids : Live(q)' <=> Live(q)
    BY <2>1, <2>3 DEF Live
  <2>5. RunHasRight' /\ PidHasRight' /\ JobAfterRequest'
    BY <2>1, <2>4 DEF RightInv, RunHasRight, PidHasRight, JobAfterRequest,
      Unsent, Claimable
  <2>6. \A q \in Runs :
          run[q] = "record" /\ "FAILED" \in Reports =>
            update'[<<runPid[q], "FAILED">>] # "decided"
    BY <2>2 DEF TypeOK, QueueTypeOK, Ownership, RightInv, RecordPending
  <2>7. RecordPending'
    BY <2>1, <2>4, <2>6 DEF Ownership, RightInv, RecordPending
  <2>8. QED
    BY <2>5, <2>7 DEF RightInv
<1>25. ASSUME NEW p \in Pids, NEW s \in Reports, WriteStatusUpdate(p, s)
      PROVE  RightInv'
  <2> DEFINE m == accepted[p]
  <2>1. /\ update[<<p, s>>] = "decided"
        /\ deliveryStatus' = [deliveryStatus EXCEPT ![m] = s]
        /\ update' = [update EXCEPT ![<<p, s>>] = "applied"]
        /\ UNCHANGED <<providerMessageId, request, job, run, runMessage,
                       runPid, accepted>>
    BY <1>25 DEF WriteStatusUpdate, jobVars, runVars, providerVars
  <2>2. m \in Messages
    BY <2>1 DEF Ownership
  <2>3. \A q \in Pids : Live(q)' <=> Live(q) /\ (q # p \/ s # "FAILED")
    BY <2>1, <2>2 DEF TypeOK, QueueTypeOK, Live, WrittenFailed
  <2>4. \A n \in Messages :
          Claimable(n)' => Claimable(n) \/ (n = m /\ s = "FAILED")
    BY <2>1, <2>2, ReportAssumption DEF TypeOK, QueueTypeOK, Claimable
  <2>5. s = "FAILED" => Live(p)
    BY <2>1, <2>2 DEF Live, WrittenFailed
  <2>6. RunHasRight'
    <3>1. \A r \in Runs : Unsent(r) /\ runMessage[r] = m => s # "FAILED"
      BY <2>5 DEF RightInv, RunHasRight
    <3>2. QED
      BY <2>1, <2>3, <2>4, <3>1
      DEF Ownership, RightInv, RunHasRight, Unsent
  <2>7. PidHasRight'
    BY <2>1, <2>3, <2>4, <2>5 DEF RightInv, PidHasRight, Live
  <2>8. RecordPending' /\ JobAfterRequest'
    <3>1. \A r \in Runs : run[r] = "record" =>
            s # "FAILED" \/ runPid[r] # p
      BY <2>1 DEF RightInv, RecordPending
    <3>2. \A r \in Runs : run[r] = "record" /\ "FAILED" \in Reports =>
            update'[<<runPid[r], "FAILED">>] # "decided"
      BY <2>1 DEF TypeOK, QueueTypeOK, Ownership, RightInv, RecordPending
    <3>3. QED
      BY <2>1, <2>3, <3>1, <3>2
      DEF Ownership, RightInv, RecordPending, JobAfterRequest
  <2>9. QED
    BY <2>6, <2>7, <2>8 DEF RightInv
<1>26. ASSUME NEW p \in Pids, NEW s \in Reports, StatusUpdateThrows(p, s)
      PROVE  RightInv'
  BY <1>26, SentinelAssumption DEF TypeOK, QueueTypeOK, Ownership, RightInv,
      RunHasRight, PidHasRight, RecordPending, JobAfterRequest, Unsent, Live,
      WrittenFailed, Claimable, StatusUpdateThrows, rowVars, jobVars, runVars,
      providerVars, webhookVars
<1>27. CASE UNCHANGED vars
  BY <1>27 DEF TypeOK, QueueTypeOK, Ownership, RightInv, RunHasRight,
      PidHasRight, RecordPending, JobAfterRequest, Unsent, Live,
      WrittenFailed, Claimable, vars, rowVars, jobVars, runVars, providerVars,
      webhookVars
<1>28. QED
  BY <1>1, <1>2, <1>3, <1>4, <1>5, <1>6, <1>7, <1>8, <1>9, <1>10, <1>11,
      <1>12, <1>13, <1>14, <1>15, <1>16, <1>17, <1>18, <1>19, <1>20, <1>21,
      <1>22, <1>23, <1>24, <1>25, <1>26, <1>27
     DEF Next, RequestStep, RunStep, UpdateStep, Fault

(* A row is there from the start of its request on, and a provider id that    *)
(* was not handed out has not been reported on.                             *)
Begun ==
  /\ \A m \in Messages : request[m] # "idle" => deliveryStatus[m] # "NONE"
  /\ \A p \in Pids : accepted[p] = NoMessage => reported[p] = {}

LEMMA BegunStep ==
  ASSUME WellFormed, Begun, [Next]_vars
  PROVE  Begun'
<1>1. ASSUME NEW m \in Messages, CreateOutboundMessage(m)
      PROVE  Begun'
  BY <1>1, SentinelAssumption
     DEF WellFormed, TypeOK, Ownership, Begun, CreateOutboundMessage, rowVars,
        providerVars
<1>2. ASSUME NEW m \in Messages, Enqueue(m)
      PROVE  Begun'
  BY <1>2, SentinelAssumption
     DEF WellFormed, TypeOK, Ownership, Begun, Enqueue, AddJob, rowVars,
        providerVars
<1>3. ASSUME NEW m \in Messages, EnqueueThrows(m)
      PROVE  Begun'
  BY <1>3, SentinelAssumption
     DEF WellFormed, TypeOK, Ownership, Begun, EnqueueThrows, rowVars,
        providerVars
<1>4. ASSUME NEW m \in Messages, EnqueueAckLost(m)
      PROVE  Begun'
  BY <1>4, SentinelAssumption
     DEF WellFormed, TypeOK, Ownership, Begun, EnqueueAckLost, rowVars,
        providerVars
<1>5. ASSUME NEW m \in Messages, CatchEnqueueError(m)
      PROVE  Begun'
  BY <1>5, SentinelAssumption
     DEF WellFormed, TypeOK, Ownership, Begun, CatchEnqueueError, SetFailed,
        rowVars, providerVars
<1>6. ASSUME NEW m \in Messages, RequestDies(m)
      PROVE  Begun'
  BY <1>6, SentinelAssumption
     DEF WellFormed, TypeOK, Ownership, Begun, RequestDies, rowVars,
        providerVars
<1>7. ASSUME NEW m \in Messages, Stall(m)
      PROVE  Begun'
  BY <1>7, SentinelAssumption
     DEF WellFormed, TypeOK, Ownership, Begun, Stall, rowVars, providerVars
<1>8. ASSUME NEW r \in Runs, NEW m \in Messages, PickUp(r, m)
      PROVE  Begun'
  BY <1>8, SentinelAssumption
     DEF WellFormed, TypeOK, Ownership, Begun, PickUp, rowVars, providerVars
<1>9. ASSUME NEW r \in Runs, Claim(r)
      PROVE  Begun'
  BY <1>9, SentinelAssumption
     DEF WellFormed, TypeOK, Ownership, Begun, Claim, SetSending, Goto,
        rowVars, providerVars
<1>10. ASSUME NEW r \in Runs, ClaimThrows(r)
      PROVE  Begun'
  BY <1>10, SentinelAssumption
     DEF WellFormed, TypeOK, Ownership, Begun, ClaimThrows, SetSending,
        rowVars, providerVars
<1>11. ASSUME NEW r \in Runs, Load(r)
      PROVE  Begun'
  BY <1>11, SentinelAssumption
     DEF WellFormed, TypeOK, Ownership, Begun, Load, rowVars, providerVars
<1>12. ASSUME NEW r \in Runs, LoadThrows(r)
      PROVE  Begun'
  BY <1>12, SentinelAssumption
     DEF WellFormed, TypeOK, Ownership, Begun, LoadThrows, rowVars,
        providerVars
<1>13. ASSUME NEW r \in Runs, NEW p \in Pids, SendAccepted(r, p)
      PROVE  Begun'
  BY <1>13, SentinelAssumption
     DEF WellFormed, TypeOK, Ownership, Begun, SendAccepted, ProviderAccepts,
        rowVars, providerVars
<1>14. ASSUME NEW r \in Runs, NEW p \in Pids, SendAckLost(r, p)
      PROVE  Begun'
  BY <1>14, SentinelAssumption
     DEF WellFormed, TypeOK, Ownership, Begun, SendAckLost, ProviderAccepts,
        rowVars, providerVars
<1>15. ASSUME NEW r \in Runs, SendRejected(r)
      PROVE  Begun'
  BY <1>15, SentinelAssumption
     DEF WellFormed, TypeOK, Ownership, Begun, SendRejected, rowVars,
        providerVars
<1>16. ASSUME NEW r \in Runs, RecordSent(r)
      PROVE  Begun'
  BY <1>16, SentinelAssumption
     DEF WellFormed, TypeOK, Ownership, Begun, RecordSent, SetSent, rowVars,
        providerVars
<1>17. ASSUME NEW r \in Runs, RecordThrows(r)
      PROVE  Begun'
  BY <1>17, SentinelAssumption
     DEF WellFormed, TypeOK, Ownership, Begun, RecordThrows, SetSent, rowVars,
        providerVars
<1>18. ASSUME NEW r \in Runs, MarkMessageAsFailed(r)
      PROVE  Begun'
  BY <1>18, SentinelAssumption
     DEF WellFormed, TypeOK, Ownership, Begun, MarkMessageAsFailed, SetFailed,
        rowVars, providerVars
<1>19. ASSUME NEW r \in Runs, MarkThrows(r)
      PROVE  Begun'
  BY <1>19, SentinelAssumption
     DEF WellFormed, TypeOK, Ownership, Begun, MarkThrows, rowVars,
        providerVars
<1>20. ASSUME NEW r \in Runs, CompleteJob(r)
      PROVE  Begun'
  BY <1>20, SentinelAssumption
     DEF WellFormed, TypeOK, Ownership, Begun, CompleteJob, rowVars,
        providerVars
<1>21. ASSUME NEW r \in Runs, FailJob(r)
      PROVE  Begun'
  BY <1>21, SentinelAssumption
     DEF WellFormed, TypeOK, Ownership, Begun, FailJob, rowVars, providerVars
<1>22. ASSUME NEW r \in Runs, CrashRun(r)
      PROVE  Begun'
  BY <1>22, SentinelAssumption
     DEF WellFormed, TypeOK, Ownership, Begun, CrashRun, rowVars, providerVars
<1>23. ASSUME NEW p \in Pids, NEW s \in Reports, ProviderReports(p, s)
      PROVE  Begun'
  BY <1>23, SentinelAssumption
     DEF WellFormed, TypeOK, Ownership, Begun, ProviderReports, rowVars,
        providerVars
<1>24. ASSUME NEW p \in Pids, NEW s \in Reports, ReadForStatusUpdate(p, s)
      PROVE  Begun'
  BY <1>24, SentinelAssumption
     DEF WellFormed, TypeOK, Ownership, Begun, ReadForStatusUpdate, rowVars,
        providerVars
<1>25. ASSUME NEW p \in Pids, NEW s \in Reports, WriteStatusUpdate(p, s)
      PROVE  Begun'
  BY <1>25, SentinelAssumption, ReportAssumption
     DEF WellFormed, TypeOK, Ownership, Begun, WriteStatusUpdate, rowVars,
        providerVars
<1>26. ASSUME NEW p \in Pids, NEW s \in Reports, StatusUpdateThrows(p, s)
      PROVE  Begun'
  BY <1>26, SentinelAssumption
     DEF WellFormed, TypeOK, Ownership, Begun, StatusUpdateThrows, rowVars,
        providerVars
<1>27. CASE UNCHANGED vars
  BY <1>27
     DEF WellFormed, TypeOK, Ownership, Begun, vars, rowVars, providerVars
<1>28. QED
  BY <1>1, <1>2, <1>3, <1>4, <1>5, <1>6, <1>7, <1>8, <1>9, <1>10, <1>11, <1>12,
     <1>13, <1>14, <1>15, <1>16, <1>17, <1>18, <1>19, <1>20, <1>21, <1>22,
     <1>23, <1>24, <1>25, <1>26, <1>27
     DEF Next, RequestStep, RunStep, UpdateStep, Fault

LEMMA RightInvariant ==
  ASSUME CrashAndStallOnly
  PROVE  Spec => [](WellFormed /\ RightInv /\ Begun)
<1>1. Init => RightInv /\ Begun
  BY SentinelAssumption, QueueAssumption
     DEF Init, QueueInit, RightInv, RunHasRight, PidHasRight, RecordPending,
         JobAfterRequest, Unsent, Live, Begun
<1>2. WellFormed /\ RightInv /\ Begun /\ [Next]_vars => RightInv' /\ Begun'
  BY RightStep, BegunStep
<1>3. QED
  BY <1>1, <1>2, WellFormedInvariant, PTL DEF Spec

(* SENDING works as a lease: with crashes and stalls as the only faults, a    *)
(* message is never in the hands of two runs.                               *)
THEOREM LeaseIsExclusive ==
  ASSUME CrashAndStallOnly
  PROVE  Spec => []LeaseExclusive
<1>1. WellFormed /\ RightInv => LeaseExclusive
  <2> SUFFICES ASSUME WellFormed, RightInv, NEW r \in Runs, NEW q \in Runs,
                      InFlight(r), InFlight(q), runMessage[r] = runMessage[q]
               PROVE  r = q
    BY DEF LeaseExclusive
  <2>1. /\ Unsent(r) \/ run[r] = "record"
        /\ Unsent(q) \/ run[q] = "record"
    BY DEF InFlight, Unsent
  <2>2. \A x \in Runs : run[x] = "record" =>
          runPid[x] \in Pids /\ accepted[runPid[x]] = runMessage[x]
                            /\ Live(runPid[x])
    BY DEF WellFormed, Ownership, RightInv, RecordPending
  <2>3. CASE Unsent(r) /\ Unsent(q)
    BY <2>3 DEF RightInv, RunHasRight
  <2>4. CASE run[r] = "record" /\ run[q] = "record"
    <3>1. runPid[r] = runPid[q]
      BY <2>2, <2>4 DEF RightInv, PidHasRight
    <3>2. QED
      BY <2>4, <3>1 DEF RightInv, RecordPending
  <2>5. CASE \/ Unsent(r) /\ run[q] = "record"
             \/ Unsent(q) /\ run[r] = "record"
    BY <2>2, <2>5 DEF RightInv, RunHasRight
  <2>6. QED
    BY <2>1, <2>3, <2>4, <2>5
<1>2. QED
  BY <1>1, RightInvariant, PTL

(* With the same faults, a message is not handed to the provider again while  *)
(* a send of it may still be delivered.                                     *)
THEOREM NoSendIsRepeated ==
  ASSUME CrashAndStallOnly
  PROVE  Spec => []NoDuplicateDelivery
<1>1. WellFormed /\ RightInv => NoDuplicateDelivery
  <2> SUFFICES ASSUME WellFormed, RightInv, NEW p \in Pids, NEW q \in Pids,
                      p # q, accepted[p] = accepted[q],
                      accepted[p] # NoMessage
               PROVE  "FAILED" \in reported[p] \cup reported[q]
    BY DEF NoDuplicateDelivery
  <2>1. accepted[p] \in Messages
    BY DEF WellFormed, TypeOK
  <2>2. WrittenFailed(p) \/ WrittenFailed(q)
    BY <2>1 DEF RightInv, PidHasRight, Live
  <2>3. QED
    BY <2>2 DEF WellFormed, Ownership, WrittenFailed
<1>2. QED
  BY <1>1, RightInvariant, PTL

-----------------------------------------------------------------------------
(* The refinement of MessageLifecycle: its initial states and its steps.    *)

(* What the abstract state says of the concrete one.                        *)
LEMMA AtProviderFacts ==
  ASSUME WellFormed, NEW m \in Messages
  PROVE  /\ AtProvider(m) \in {"nothing", "has", "refused"}
         /\ AtProvider(m) = "nothing" <=> \A p \in Pids : accepted[p] # m
         /\ AtProvider(m) = "has" <=>
              \E p \in Pids : accepted[p] = m /\ "FAILED" \notin reported[p]
         /\ AtProvider(m) = "has" => \E p \in Pids : accepted[p] = m /\ Live(p)
<1> DEFINE pids == {p \in Pids : accepted[p] = m}
           have == \E p \in pids : "FAILED" \notin reported[p]
<1>1. AtProvider(m) =
        IF pids = {} THEN "nothing" ELSE IF have THEN "has" ELSE "refused"
  BY DEF AtProvider
<1>2. have => \E p \in Pids : accepted[p] = m /\ Live(p)
  BY DEF WellFormed, Ownership, Live, WrittenFailed
<1>3. QED
  BY <1>1, <1>2

(* A write of one message's status that leaves the provider alone.          *)
LEMMA TellStep ==
  ASSUME WellFormed, NEW m \in Messages, NEW status \in DeliveryStatus,
         deliveryStatus' = [deliveryStatus EXCEPT ![m] = status],
         UNCHANGED <<accepted, reported>>,
         \/ status = "QUEUED" /\ deliveryStatus[m] = "NONE"
         \/ status = "SENDING" /\ deliveryStatus[m] = "QUEUED"
         \/ /\ status = "SENDING" /\ deliveryStatus[m] = "FAILED"
            /\ AtProvider(m) # "has"
         \/ /\ status = "FAILED" /\ deliveryStatus[m] # "NONE"
            /\ AtProvider(m) # "has"
         \/ /\ status \in {"SENT", "DELIVERED", "READ"}
            /\ deliveryStatus[m] # "NONE" /\ AtProvider(m) # "nothing"
  PROVE  [Lifecycle!Next]_(Lifecycle!vars)
<1> DEFINE told == [n \in Messages |-> Told(n)]
           provider == [n \in Messages |-> AtProvider(n)]
<1>1. provider' = provider
  BY DEF AtProvider
<1>2. told' = [told EXCEPT ![m] = Told(m)']
  BY DEF WellFormed, TypeOK, Told
<1>3. CASE Told(m)' = Told(m)
  <2>1. told' = told
    BY <1>2, <1>3
  <2>2. QED
    BY <1>1, <2>1 DEF Lifecycle!vars
<1>4. CASE Told(m)' # Told(m)
  <2>1. \/ Told(m) = "none" /\ Told(m)' = "waiting"
        \/ /\ Told(m) = "failed" /\ Told(m)' = "waiting"
           /\ AtProvider(m) # "has"
        \/ /\ Told(m) \in {"waiting", "sent"} /\ Told(m)' = "failed"
           /\ AtProvider(m) # "has"
        \/ /\ Told(m) \in {"waiting", "failed"} /\ Told(m)' = "sent"
           /\ AtProvider(m) # "nothing"
    BY <1>4 DEF WellFormed, TypeOK, DeliveryStatus, Told
  <2>2. told[m] = Told(m) /\ provider[m] = AtProvider(m)
    OBVIOUS
  <2>3. \/ Lifecycle!Create(m) \/ Lifecycle!Retry(m)
        \/ Lifecycle!Failed(m) \/ Lifecycle!Sent(m)
    BY <1>1, <1>2, <2>1, <2>2
       DEF Lifecycle!Create, Lifecycle!Retry, Lifecycle!Failed,
           Lifecycle!Sent, Lifecycle!Tell
  <2>4. QED
    BY <2>3 DEF Lifecycle!Next
<1>5. QED
  BY <1>3, <1>4

(* A step that the abstract state does not show.                            *)
LEMMA HiddenStep ==
  ASSUME UNCHANGED <<deliveryStatus, accepted, reported>>
  PROVE  UNCHANGED Lifecycle!vars
BY DEF Lifecycle!vars, Told, AtProvider

LEMMA AcceptStep ==
  ASSUME WellFormed, Begun, NEW m \in Messages, NEW p \in Pids,
         accepted[p] = NoMessage, accepted' = [accepted EXCEPT ![p] = m],
         UNCHANGED <<deliveryStatus, reported>>,
         deliveryStatus[m] # "NONE", AtProvider(m) # "has"
  PROVE  Lifecycle!Next
<1> DEFINE told == [n \in Messages |-> Told(n)]
           provider == [n \in Messages |-> AtProvider(n)]
<1>1. told' = told /\ told[m] # "none"
  BY DEF WellFormed, TypeOK, DeliveryStatus, Told
<1>2. AtProvider(m)' = "has"
  <2>1. p \in {q \in Pids : accepted'[q] = m} /\ "FAILED" \notin reported'[p]
    BY DEF WellFormed, TypeOK, Begun
  <2>2. QED
    BY <2>1 DEF AtProvider
<1>3. \A n \in Messages \ {m} : AtProvider(n)' = AtProvider(n)
  <2> SUFFICES ASSUME NEW n \in Messages \ {m}
               PROVE  AtProvider(n)' = AtProvider(n)
    OBVIOUS
  <2>1. {q \in Pids : accepted'[q] = n} = {q \in Pids : accepted[q] = n}
    BY SentinelAssumption DEF WellFormed, TypeOK
  <2>2. QED
    BY <2>1 DEF AtProvider
<1>4. provider' = [provider EXCEPT ![m] = "has"]
  BY <1>2, <1>3
<1>5. provider[m] # "has"
  OBVIOUS
<1>6. Lifecycle!Accept(m)
  BY <1>1, <1>4, <1>5 DEF Lifecycle!Accept
<1>7. QED
  BY <1>6 DEF Lifecycle!Next

LEMMA ReportStep ==
  ASSUME WellFormed, Begun, NEW p \in Pids, NEW s \in Reports,
         ProviderReports(p, s)
  PROVE  [Lifecycle!Next]_(Lifecycle!vars)
<1> DEFINE m == accepted[p]
           told == [n \in Messages |-> Told(n)]
           provider == [n \in Messages |-> AtProvider(n)]
<1>1. /\ m \in Messages /\ s \notin reported[p]
      /\ reported' = [reported EXCEPT ![p] = @ \cup {s}]
      /\ UNCHANGED <<accepted, deliveryStatus>>
  BY DEF WellFormed, TypeOK, ProviderReports, rowVars
<1>2. told' = told
  BY <1>1 DEF Told
<1>3. \A n \in Messages \ {m} : AtProvider(n)' = AtProvider(n)
  <2> SUFFICES ASSUME NEW n \in Messages \ {m}
               PROVE  AtProvider(n)' = AtProvider(n)
    OBVIOUS
  <2>1. {q \in Pids : accepted'[q] = n} = {q \in Pids : accepted[q] = n}
    BY <1>1
  <2>2. \A q \in {x \in Pids : accepted[x] = n} : reported'[q] = reported[q]
    BY <1>1 DEF WellFormed, TypeOK
  <2>3. QED
    BY <2>1, <2>2 DEF AtProvider
<1>4. CASE AtProvider(m)' = AtProvider(m)
  <2>1. provider' = provider
    BY <1>1, <1>3, <1>4
  <2>2. QED
    BY <1>2, <2>1 DEF Lifecycle!vars
<1>5. CASE AtProvider(m)' # AtProvider(m)
  <2>1. /\ {q \in Pids : accepted'[q] = m} = {q \in Pids : accepted[q] = m}
        /\ p \in {q \in Pids : accepted[q] = m}
    BY <1>1
  <2>2. s = "FAILED"
    <3>1. CASE s # "FAILED"
      <4>1. \A q \in Pids : "FAILED" \in reported'[q] <=> "FAILED" \in reported[q]
        BY <1>1, <3>1 DEF WellFormed, TypeOK
      <4>2. AtProvider(m)' = AtProvider(m)
        BY <2>1, <4>1 DEF AtProvider
      <4>3. QED
        BY <1>5, <4>2
    <3>2. QED
      BY <3>1
  <2>3. AtProvider(m) = "has"
    BY <1>1, <2>2, AtProviderFacts
  <2>4. AtProvider(m)' = "refused"
    <3>1. ~(\E q \in {x \in Pids : accepted'[x] = m} : "FAILED" \notin reported'[q])
      BY <1>1, <1>5, <2>1, <2>3 DEF AtProvider
    <3>2. QED
      BY <2>1, <3>1 DEF AtProvider
  <2>5. provider' = [provider EXCEPT ![m] = "refused"] /\ provider[m] = "has"
    BY <1>1, <1>3, <2>3, <2>4
  <2>6. Lifecycle!Refuse(m)
    BY <1>2, <2>5 DEF Lifecycle!Refuse
  <2>7. QED
    BY <1>1, <2>6 DEF Lifecycle!Next
<1>6. QED
  BY <1>4, <1>5

LEMMA LifecycleStep ==
  ASSUME CrashAndStallOnly, WellFormed, RightInv, Begun, [Next]_vars
  PROVE  [Lifecycle!Next]_(Lifecycle!vars)
<1>1. ASSUME NEW m \in Messages, CreateOutboundMessage(m)
      PROVE  [Lifecycle!Next]_(Lifecycle!vars)
  <2>1. deliveryStatus[m] = "NONE"
    BY <1>1 DEF WellFormed, Ownership, CreateOutboundMessage
  <2>2. QED
    BY <1>1, <2>1, TellStep DEF CreateOutboundMessage, DeliveryStatus,
       providerVars
<1>2. ASSUME NEW m \in Messages, Enqueue(m)
      PROVE  [Lifecycle!Next]_(Lifecycle!vars)
  BY <1>2, HiddenStep DEF Enqueue, rowVars, providerVars
<1>3. ASSUME NEW m \in Messages, EnqueueThrows(m)
      PROVE  [Lifecycle!Next]_(Lifecycle!vars)
  BY <1>3, HiddenStep DEF EnqueueThrows, rowVars, providerVars
<1>4. ASSUME NEW m \in Messages, EnqueueAckLost(m)
      PROVE  [Lifecycle!Next]_(Lifecycle!vars)
  BY <1>4 DEF EnqueueAckLost, CrashAndStallOnly
<1>5. ASSUME NEW m \in Messages, CatchEnqueueError(m)
      PROVE  [Lifecycle!Next]_(Lifecycle!vars)
  <2>1. deliveryStatus[m] # "NONE" /\ job[m] = "absent"
    BY <1>5 DEF Begun, RightInv, JobAfterRequest, CatchEnqueueError
  <2>2. AtProvider(m) # "has"
    BY <2>1, AtProviderFacts DEF WellFormed, Ownership
  <2>3. QED
    BY <1>5, <2>1, <2>2, TellStep DEF CatchEnqueueError, SetFailed,
       DeliveryStatus, providerVars
<1>6. ASSUME NEW m \in Messages, RequestDies(m)
      PROVE  [Lifecycle!Next]_(Lifecycle!vars)
  BY <1>6, HiddenStep DEF RequestDies, rowVars, providerVars
<1>7. ASSUME NEW m \in Messages, Stall(m)
      PROVE  [Lifecycle!Next]_(Lifecycle!vars)
  BY <1>7, HiddenStep DEF Stall, rowVars, providerVars
<1>8. ASSUME NEW r \in Runs, NEW m \in Messages, PickUp(r, m)
      PROVE  [Lifecycle!Next]_(Lifecycle!vars)
  BY <1>8, HiddenStep DEF PickUp, rowVars, providerVars
<1>9. ASSUME NEW r \in Runs, Claim(r)
      PROVE  [Lifecycle!Next]_(Lifecycle!vars)
  <2> DEFINE m == runMessage[r]
  <2>1. m \in Messages
    BY <1>9 DEF WellFormed, Ownership, Claim
  <2>2. CASE Claimable(m)
    <3>1. AtProvider(m) # "has"
      BY <2>1, <2>2, AtProviderFacts DEF RightInv, PidHasRight
    <3>2. deliveryStatus' = [deliveryStatus EXCEPT ![m] = "SENDING"]
      BY <1>9, <2>2 DEF Claim, SetSending
    <3>3. QED
      BY <1>9, <2>1, <2>2, <3>1, <3>2, TellStep
         DEF Claim, Claimable, DeliveryStatus, providerVars
  <2>3. CASE ~Claimable(m)
    BY <1>9, <2>3, HiddenStep DEF Claim, rowVars, providerVars
  <2>4. QED
    BY <2>2, <2>3
<1>10. ASSUME NEW r \in Runs, ClaimThrows(r)
      PROVE  [Lifecycle!Next]_(Lifecycle!vars)
  BY <1>10 DEF ClaimThrows, CrashAndStallOnly
<1>11. ASSUME NEW r \in Runs, Load(r)
      PROVE  [Lifecycle!Next]_(Lifecycle!vars)
  BY <1>11, HiddenStep DEF Load, rowVars, providerVars
<1>12. ASSUME NEW r \in Runs, LoadThrows(r)
      PROVE  [Lifecycle!Next]_(Lifecycle!vars)
  BY <1>12 DEF LoadThrows, CrashAndStallOnly
<1>13. ASSUME NEW r \in Runs, NEW p \in Pids, SendAccepted(r, p)
      PROVE  [Lifecycle!Next]_(Lifecycle!vars)
  <2> DEFINE m == runMessage[r]
  <2>1. m \in Messages /\ deliveryStatus[m] # "NONE"
    BY <1>13 DEF WellFormed, Ownership, Begun, SendAccepted, ProviderAccepts
  <2>2. AtProvider(m) # "has"
    BY <1>13, <2>1, AtProviderFacts
       DEF RightInv, RunHasRight, Unsent, SendAccepted, ProviderAccepts
  <2>3. QED
    BY <1>13, <2>1, <2>2, AcceptStep DEF SendAccepted, ProviderAccepts, rowVars
<1>14. ASSUME NEW r \in Runs, NEW p \in Pids, SendAckLost(r, p)
      PROVE  [Lifecycle!Next]_(Lifecycle!vars)
  BY <1>14 DEF SendAckLost, CrashAndStallOnly
<1>15. ASSUME NEW r \in Runs, SendRejected(r)
      PROVE  [Lifecycle!Next]_(Lifecycle!vars)
  BY <1>15, HiddenStep DEF SendRejected, rowVars, providerVars
<1>16. ASSUME NEW r \in Runs, RecordSent(r)
      PROVE  [Lifecycle!Next]_(Lifecycle!vars)
  <2> DEFINE m == runMessage[r]
  <2>1. m \in Messages /\ deliveryStatus[m] # "NONE"
    BY <1>16 DEF WellFormed, Ownership, Begun, RecordSent
  <2>2. AtProvider(m) # "nothing"
    BY <1>16, <2>1, AtProviderFacts DEF WellFormed, Ownership, RecordSent
  <2>3. QED
    BY <1>16, <2>1, <2>2, TellStep DEF RecordSent, SetSent, DeliveryStatus,
       providerVars
<1>17. ASSUME NEW r \in Runs, RecordThrows(r)
      PROVE  [Lifecycle!Next]_(Lifecycle!vars)
  BY <1>17 DEF RecordThrows, CrashAndStallOnly
<1>18. ASSUME NEW r \in Runs, MarkMessageAsFailed(r)
      PROVE  [Lifecycle!Next]_(Lifecycle!vars)
  <2> DEFINE m == runMessage[r]
  <2>1. m \in Messages /\ deliveryStatus[m] # "NONE"
    BY <1>18 DEF WellFormed, Ownership, Begun, MarkMessageAsFailed
  <2>2. AtProvider(m) # "has"
    BY <1>18, <2>1, AtProviderFacts DEF RightInv, RunHasRight, Unsent,
       MarkMessageAsFailed
  <2>3. QED
    BY <1>18, <2>1, <2>2, TellStep
       DEF MarkMessageAsFailed, SetFailed, DeliveryStatus, providerVars
<1>19. ASSUME NEW r \in Runs, MarkThrows(r)
      PROVE  [Lifecycle!Next]_(Lifecycle!vars)
  BY <1>19 DEF MarkThrows, CrashAndStallOnly
<1>20. ASSUME NEW r \in Runs, CompleteJob(r)
      PROVE  [Lifecycle!Next]_(Lifecycle!vars)
  BY <1>20, HiddenStep DEF CompleteJob, rowVars, providerVars
<1>21. ASSUME NEW r \in Runs, FailJob(r)
      PROVE  [Lifecycle!Next]_(Lifecycle!vars)
  BY <1>21, HiddenStep DEF FailJob, rowVars, providerVars
<1>22. ASSUME NEW r \in Runs, CrashRun(r)
      PROVE  [Lifecycle!Next]_(Lifecycle!vars)
  BY <1>22, HiddenStep DEF CrashRun, rowVars, providerVars
<1>23. ASSUME NEW p \in Pids, NEW s \in Reports, ProviderReports(p, s)
      PROVE  [Lifecycle!Next]_(Lifecycle!vars)
  BY <1>23, ReportStep
<1>24. ASSUME NEW p \in Pids, NEW s \in Reports, ReadForStatusUpdate(p, s)
      PROVE  [Lifecycle!Next]_(Lifecycle!vars)
  BY <1>24, HiddenStep DEF ReadForStatusUpdate, rowVars, providerVars
<1>25. ASSUME NEW p \in Pids, NEW s \in Reports, WriteStatusUpdate(p, s)
      PROVE  [Lifecycle!Next]_(Lifecycle!vars)
  <2> DEFINE m == accepted[p]
  <2>1. m \in Messages /\ s \in reported[p] /\ deliveryStatus[m] # "NONE"
    BY <1>25 DEF WellFormed, Ownership, Begun, WriteStatusUpdate
  <2>2. AtProvider(m) # "nothing"
    BY <2>1, AtProviderFacts
  <2>3. s = "FAILED" => AtProvider(m) # "has"
    <3>1. SUFFICES ASSUME s = "FAILED", NEW q \in Pids, accepted[q] = m,
                          "FAILED" \notin reported[q]
                   PROVE  FALSE
      BY <2>1, AtProviderFacts
    <3>2. Live(p) /\ Live(q)
      BY <1>25, <2>1, <3>1 DEF WellFormed, Ownership, WriteStatusUpdate, Live,
         WrittenFailed
    <3>3. QED
      BY <2>1, <3>1, <3>2 DEF RightInv, PidHasRight
  <2>4. s \in {"SENT", "DELIVERED", "READ", "FAILED"}
    BY ReportAssumption
  <2>5. QED
    BY <1>25, <2>1, <2>2, <2>3, <2>4, TellStep
       DEF WriteStatusUpdate, DeliveryStatus, providerVars
<1>26. ASSUME NEW p \in Pids, NEW s \in Reports, StatusUpdateThrows(p, s)
      PROVE  [Lifecycle!Next]_(Lifecycle!vars)
  BY <1>26, HiddenStep DEF StatusUpdateThrows, rowVars, providerVars
<1>27. CASE UNCHANGED vars
  BY <1>27, HiddenStep DEF vars, rowVars, providerVars
<1>28. QED
  BY <1>1, <1>2, <1>3, <1>4, <1>5, <1>6, <1>7, <1>8, <1>9, <1>10, <1>11, <1>12,
     <1>13, <1>14, <1>15, <1>16, <1>17, <1>18, <1>19, <1>20, <1>21, <1>22,
     <1>23, <1>24, <1>25, <1>26, <1>27
     DEF Next, RequestStep, RunStep, UpdateStep, Fault

(* The safety part of MessageLifecycle, with crashes and stalls as the only   *)
(* faults: a message the provider has is never called failed nor tried again, *)
(* one it never had is never called sent.                                   *)
THEOREM LifecycleIsFollowed ==
  ASSUME CrashAndStallOnly
  PROVE  Spec => Lifecycle!Init /\ [][Lifecycle!Next]_(Lifecycle!vars)
<1>1. Init => Lifecycle!Init
  BY SentinelAssumption DEF Init, Lifecycle!Init, Told, AtProvider
<1>2. WellFormed /\ RightInv /\ Begun /\ [Next]_vars => [Lifecycle!Next]_(Lifecycle!vars)
  BY LifecycleStep
<1>3. QED
  BY <1>1, <1>2, RightInvariant, PTL DEF Spec
=============================================================================
