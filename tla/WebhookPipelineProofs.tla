------------------------ MODULE WebhookPipelineProofs ------------------------
(* Proofs about WebhookPipeline, for every choice of its constants.         *)
EXTENDS WebhookPipeline, TLAPS

(* Who refers to what: a row holds the payload that names it, a request has  *)
(* a payload and, past its insert, a row; a job has a row, and a run a job.  *)
(* Only a run whose payload has a text works on a conversation.              *)
References ==
  /\ \A k \in Keys : raw[k] # "none" =>
       rawPayload[k] \in Payloads /\ RawKey[rawPayload[k]] = k
  /\ \A q \in Posts : post[q] # "idle" => postPayload[q] \in Payloads
  /\ \A q \in Posts : post[q] \in {"enqueue", "lookup", "answer"} =>
       raw[PostKey(q)] # "none"
  /\ \A k \in Keys : job[k] # "absent" => raw[k] # "none"
  /\ \A r \in Runs : run[r] # "idle" =>
       runKey[r] \in Keys /\ job[runKey[r]] # "absent"
  /\ \A r \in Runs : run[r] \in {"find", "create", "message", "emit"} => HasText(r)
  /\ \A r \in Runs : run[r] = "mark" => ~HasText(r)
  /\ \A r \in Runs : inserted[r] => run[r] \in {"message", "commit"} /\ HasText(r)

WellFormed == TypeOK /\ References

LEMMA WellFormedInit == Init => WellFormed
  BY DEF Init, QueueInit, WellFormed, TypeOK, QueueTypeOK, References

LEMMA TypeStep ==
  ASSUME TypeOK, References, [Next]_vars
  PROVE  TypeOK'
<1>1. ASSUME NEW q \in Posts, NEW e \in Payloads, Deliver(q, e)
      PROVE  TypeOK'
  BY <1>1
     DEF TypeOK, QueueTypeOK, Deliver, rawVars, inboxVars, postVars, jobVars,
        runVars
<1>2. ASSUME NEW q \in Posts, CreateRawEvent(q)
      PROVE  TypeOK'
  BY <1>2
     DEF TypeOK, QueueTypeOK, References, CreateRawEvent, PostGoto, PostKey,
        rawVars, inboxVars, postVars, jobVars, runVars
<1>3. ASSUME NEW q \in Posts, LookUpDuplicate(q)
      PROVE  TypeOK'
  BY <1>3
     DEF TypeOK, QueueTypeOK, LookUpDuplicate, PostGoto, rawVars, inboxVars,
        jobVars, runVars
<1>4. ASSUME NEW q \in Posts, EnqueueRawEvent(q)
      PROVE  TypeOK'
  BY <1>4
     DEF TypeOK, QueueTypeOK, EnqueueRawEvent, AddJob, PostGoto, rawVars,
        inboxVars, runVars
<1>5. ASSUME NEW q \in Posts, Acknowledge(q)
      PROVE  TypeOK'
  BY <1>5
     DEF TypeOK, QueueTypeOK, References, Acknowledge, EndPost, rawVars,
        inboxVars, postVars, jobVars, runVars
<1>6. ASSUME NEW q \in Posts, EnqueueThrows(q)
      PROVE  TypeOK'
  BY <1>6
     DEF TypeOK, QueueTypeOK, EnqueueThrows, EndPost, rawVars, inboxVars,
        postVars, jobVars, runVars
<1>7. ASSUME NEW q \in Posts, EnqueueAckLost(q)
      PROVE  TypeOK'
  BY <1>7
     DEF TypeOK, QueueTypeOK, EnqueueAckLost, AddJob, EndPost, rawVars,
        inboxVars, runVars
<1>8. ASSUME NEW q \in Posts, PostDies(q)
      PROVE  TypeOK'
  BY <1>8
     DEF TypeOK, QueueTypeOK, PostDies, EndPost, rawVars, inboxVars, postVars,
        jobVars, runVars
<1>9. ASSUME NEW r \in Runs, NEW k \in Keys, PickUp(r, k)
      PROVE  TypeOK'
  BY <1>9
     DEF TypeOK, QueueTypeOK, PickUp, TakeJob, rawVars, inboxVars, postVars,
        jobVars, runVars
<1>10. ASSUME NEW r \in Runs, ReadRawEvent(r)
      PROVE  TypeOK'
  BY <1>10
     DEF TypeOK, QueueTypeOK, ReadRawEvent, Goto, rawVars, inboxVars, postVars,
        jobVars, runVars
<1>11. ASSUME NEW r \in Runs, MarkProcessed(r)
      PROVE  TypeOK'
  BY <1>11
     DEF TypeOK, QueueTypeOK, MarkProcessed, SetRaw, Goto, inboxVars, postVars,
        jobVars
<1>12. ASSUME NEW r \in Runs, FindConversation(r)
      PROVE  TypeOK'
  BY <1>12
     DEF TypeOK, QueueTypeOK, FindConversation, Goto, rawVars, inboxVars,
        postVars, jobVars, runVars
<1>13. ASSUME NEW r \in Runs, CreateConversation(r)
      PROVE  TypeOK'
  BY <1>13, PayloadAssumption, ZenonT(30)
     DEF TypeOK, QueueTypeOK, CreateConversation, EndTransaction, rawVars,
        inboxVars, postVars, jobVars, runVars
<1>14. ASSUME NEW r \in Runs, CreateMessage(r)
      PROVE  TypeOK'
  BY <1>14, PayloadAssumption, ZenonT(30)
     DEF TypeOK, QueueTypeOK, CreateMessage, EndTransaction, Goto, rawVars,
        inboxVars, postVars, jobVars, runVars
<1>15. ASSUME NEW r \in Runs, Commit(r)
      PROVE  TypeOK'
  BY <1>15, PayloadAssumption
     DEF TypeOK, QueueTypeOK, References, HasText, Text, Payload, Thread,
        Commit, CommitWrites, SetRaw, EndTransaction, rawVars, inboxVars,
        postVars, jobVars, runVars
<1>16. ASSUME NEW r \in Runs, CommitAckLost(r)
      PROVE  TypeOK'
  BY <1>16, PayloadAssumption
     DEF TypeOK, QueueTypeOK, References, HasText, Text, Payload, Thread,
        CommitAckLost, CommitWrites, SetRaw, EndTransaction, rawVars,
        inboxVars, postVars, jobVars, runVars
<1>17. ASSUME NEW r \in Runs, Emit(r)
      PROVE  TypeOK'
  BY <1>17, PayloadAssumption
     DEF TypeOK, QueueTypeOK, References, HasText, Text, Payload, Thread, Emit,
        Goto, rawVars, inboxVars, postVars, jobVars, runVars
<1>18. ASSUME NEW r \in Runs, CatchError(r)
      PROVE  TypeOK'
  BY <1>18
     DEF TypeOK, QueueTypeOK, CatchError, SetRaw, Goto, rawVars, inboxVars,
        postVars, jobVars
<1>19. ASSUME NEW r \in Runs, StatementThrows(r)
      PROVE  TypeOK'
  BY <1>19, PayloadAssumption, ZenonT(30)
     DEF TypeOK, QueueTypeOK, StatementThrows, EndTransaction, rawVars,
        inboxVars, postVars, jobVars, runVars
<1>20. ASSUME NEW r \in Runs, CompleteJob(r)
      PROVE  TypeOK'
  BY <1>20
     DEF TypeOK, QueueTypeOK, CompleteJob, FinishJob, Release, rawVars,
        inboxVars, postVars
<1>21. ASSUME NEW r \in Runs, FailJob(r)
      PROVE  TypeOK'
  BY <1>21
     DEF TypeOK, QueueTypeOK, FailJob, RetryJob, Release, rawVars, inboxVars,
        postVars
<1>22. ASSUME NEW r \in Runs, CrashRun(r)
      PROVE  TypeOK'
  BY <1>22
     DEF TypeOK, QueueTypeOK, CrashRun, AbandonJob, Release, rawVars,
        inboxVars, postVars
<1>23. ASSUME NEW k \in Keys, Stall(k)
      PROVE  TypeOK'
  BY <1>23
     DEF TypeOK, QueueTypeOK, Stall, RequeueStalled, rawVars, inboxVars,
        postVars, jobVars, runVars
<1>24. CASE UNCHANGED vars
  BY <1>24
     DEF TypeOK, QueueTypeOK, vars, rawVars, inboxVars, postVars, jobVars,
        runVars
<1>25. QED
  BY <1>1, <1>2, <1>3, <1>4, <1>5, <1>6, <1>7, <1>8, <1>9, <1>10, <1>11, <1>12,
     <1>13, <1>14, <1>15, <1>16, <1>17, <1>18, <1>19, <1>20, <1>21, <1>22,
     <1>23, <1>24
     DEF Next, PostStep, RunStep, Fault

LEMMA ReferencesStep ==
  ASSUME TypeOK, References, TypeOK', [Next]_vars
  PROVE  References'
<1>1. ASSUME NEW q \in Posts, NEW e \in Payloads, Deliver(q, e)
      PROVE  References'
  BY <1>1
     DEF TypeOK, References, HasText, Text, Payload, PostKey, Deliver, rawVars,
        jobVars, runVars
<1>2. ASSUME NEW q \in Posts, CreateRawEvent(q)
      PROVE  References'
  BY <1>2, PayloadAssumption
     DEF TypeOK, QueueTypeOK, References, HasText, Text, Payload, Thread,
        PostKey, CreateRawEvent, PostGoto, PostKey, rawVars, inboxVars,
        postVars, jobVars, runVars
<1>3. ASSUME NEW q \in Posts, LookUpDuplicate(q)
      PROVE  References'
  BY <1>3
     DEF References, HasText, Text, Payload, PostKey, LookUpDuplicate,
        PostGoto, PostKey, rawVars, jobVars, runVars
<1>4. ASSUME NEW q \in Posts, EnqueueRawEvent(q)
      PROVE  References'
  BY <1>4
     DEF References, HasText, Text, Payload, PostKey, EnqueueRawEvent, AddJob,
        PostGoto, PostKey, rawVars, runVars
<1>5. ASSUME NEW q \in Posts, Acknowledge(q)
      PROVE  References'
  BY <1>5
     DEF TypeOK, References, HasText, Text, Payload, PostKey, Acknowledge,
        EndPost, rawVars, jobVars, runVars
<1>6. ASSUME NEW q \in Posts, EnqueueThrows(q)
      PROVE  References'
  BY <1>6
     DEF TypeOK, References, HasText, Text, Payload, PostKey, EnqueueThrows,
        EndPost, rawVars, jobVars, runVars
<1>7. ASSUME NEW q \in Posts, EnqueueAckLost(q)
      PROVE  References'
  BY <1>7
     DEF TypeOK, References, HasText, Text, Payload, PostKey, EnqueueAckLost,
        AddJob, EndPost, PostKey, rawVars, runVars
<1>8. ASSUME NEW q \in Posts, PostDies(q)
      PROVE  References'
  BY <1>8
     DEF TypeOK, References, HasText, Text, Payload, PostKey, PostDies,
        EndPost, rawVars, jobVars, runVars
<1>9. ASSUME NEW r \in Runs, NEW k \in Keys, PickUp(r, k)
      PROVE  References'
  BY <1>9
     DEF TypeOK, References, HasText, Text, Payload, PostKey, PickUp, TakeJob,
        rawVars, postVars
<1>10. ASSUME NEW r \in Runs, ReadRawEvent(r)
      PROVE  References'
  BY <1>10
     DEF TypeOK, References, HasText, Text, Payload, PostKey, ReadRawEvent,
        Goto, rawVars, postVars, jobVars
<1>11. ASSUME NEW r \in Runs, MarkProcessed(r)
      PROVE  References'
  BY <1>11
     DEF References, HasText, Text, Payload, PostKey, MarkProcessed, SetRaw,
        Goto, postVars, jobVars
<1>12. ASSUME NEW r \in Runs, FindConversation(r)
      PROVE  References'
  BY <1>12
     DEF References, HasText, Text, Payload, PostKey, FindConversation, Goto,
        rawVars, postVars, jobVars
<1>13. ASSUME NEW r \in Runs, CreateConversation(r)
      PROVE  References'
  BY <1>13
     DEF TypeOK, References, HasText, Text, Payload, PostKey,
        CreateConversation, EndTransaction, rawVars, postVars, jobVars
<1>14. ASSUME NEW r \in Runs, CreateMessage(r)
      PROVE  References'
  BY <1>14
     DEF TypeOK, References, HasText, Text, Payload, PostKey, CreateMessage,
        EndTransaction, Goto, rawVars, postVars, jobVars
<1>15. ASSUME NEW r \in Runs, Commit(r)
      PROVE  References'
  BY <1>15
     DEF TypeOK, References, HasText, Text, Payload, PostKey, Commit,
        CommitWrites, SetRaw, EndTransaction, postVars, jobVars
<1>16. ASSUME NEW r \in Runs, CommitAckLost(r)
      PROVE  References'
  BY <1>16
     DEF TypeOK, References, HasText, Text, Payload, PostKey, CommitAckLost,
        CommitWrites, SetRaw, EndTransaction, postVars, jobVars
<1>17. ASSUME NEW r \in Runs, Emit(r)
      PROVE  References'
  BY <1>17
     DEF References, HasText, Text, Payload, PostKey, Emit, Goto, rawVars,
        postVars, jobVars
<1>18. ASSUME NEW r \in Runs, CatchError(r)
      PROVE  References'
  BY <1>18, PayloadAssumption
     DEF TypeOK, References, HasText, Text, Payload, PostKey, CatchError,
        SetRaw, Goto, rawVars, postVars, jobVars
<1>19. ASSUME NEW r \in Runs, StatementThrows(r)
      PROVE  References'
  BY <1>19
     DEF TypeOK, References, HasText, Text, Payload, PostKey, StatementThrows,
        EndTransaction, rawVars, postVars, jobVars
<1>20. ASSUME NEW r \in Runs, CompleteJob(r)
      PROVE  References'
  BY <1>20
     DEF TypeOK, QueueTypeOK, References, HasText, Text, Payload, Thread,
        PostKey, CompleteJob, FinishJob, Release, rawVars, postVars
<1>21. ASSUME NEW r \in Runs, FailJob(r)
      PROVE  References'
  BY <1>21
     DEF TypeOK, QueueTypeOK, References, HasText, Text, Payload, Thread,
        PostKey, FailJob, RetryJob, Release, rawVars, postVars
<1>22. ASSUME NEW r \in Runs, CrashRun(r)
      PROVE  References'
  BY <1>22
     DEF TypeOK, References, HasText, Text, Payload, PostKey, CrashRun,
        AbandonJob, Release, rawVars, postVars
<1>23. ASSUME NEW k \in Keys, Stall(k)
      PROVE  References'
  BY <1>23
     DEF TypeOK, QueueTypeOK, References, HasText, Text, Payload, Thread,
        PostKey, Stall, RequeueStalled, rawVars, postVars, runVars
<1>24. CASE UNCHANGED vars
  BY <1>24
     DEF References, HasText, Text, Payload, PostKey, vars, rawVars, postVars,
        jobVars, runVars
<1>25. QED
  BY <1>1, <1>2, <1>3, <1>4, <1>5, <1>6, <1>7, <1>8, <1>9, <1>10, <1>11, <1>12,
     <1>13, <1>14, <1>15, <1>16, <1>17, <1>18, <1>19, <1>20, <1>21, <1>22,
     <1>23, <1>24
     DEF Next, PostStep, RunStep, Fault

LEMMA WellFormedInvariant == Spec => []WellFormed
<1>1. WellFormed /\ [Next]_vars => WellFormed'
  BY TypeStep, ReferencesStep DEF WellFormed
<1>2. QED
  BY <1>1, WellFormedInit, PTL DEF Spec

(* Every reachable state is well typed.                                     *)
THEOREM TypeCorrect == Spec => []TypeOK
<1>1. WellFormed => TypeOK
  BY DEF WellFormed
<1>2. QED
  BY <1>1, WellFormedInvariant, PTL

-----------------------------------------------------------------------------
LEMMA PersistedStep ==
  ASSUME TypeOK, References, ProcessedIsPersisted, [Next]_vars
  PROVE  ProcessedIsPersisted'
<1>1. ASSUME NEW q \in Posts, NEW e \in Payloads, Deliver(q, e)
      PROVE  ProcessedIsPersisted'
  BY <1>1 DEF ProcessedIsPersisted, TextOfKey, Deliver, rawVars, inboxVars
<1>2. ASSUME NEW q \in Posts, CreateRawEvent(q)
      PROVE  ProcessedIsPersisted'
  BY <1>2
     DEF TypeOK, ProcessedIsPersisted, TextOfKey, CreateRawEvent, rawVars,
        inboxVars
<1>3. ASSUME NEW q \in Posts, LookUpDuplicate(q)
      PROVE  ProcessedIsPersisted'
  BY <1>3
     DEF ProcessedIsPersisted, TextOfKey, LookUpDuplicate, rawVars, inboxVars
<1>4. ASSUME NEW q \in Posts, EnqueueRawEvent(q)
      PROVE  ProcessedIsPersisted'
  BY <1>4
     DEF ProcessedIsPersisted, TextOfKey, EnqueueRawEvent, rawVars, inboxVars
<1>5. ASSUME NEW q \in Posts, Acknowledge(q)
      PROVE  ProcessedIsPersisted'
  BY <1>5 DEF ProcessedIsPersisted, TextOfKey, Acknowledge, rawVars, inboxVars
<1>6. ASSUME NEW q \in Posts, EnqueueThrows(q)
      PROVE  ProcessedIsPersisted'
  BY <1>6
     DEF ProcessedIsPersisted, TextOfKey, EnqueueThrows, rawVars, inboxVars
<1>7. ASSUME NEW q \in Posts, EnqueueAckLost(q)
      PROVE  ProcessedIsPersisted'
  BY <1>7
     DEF ProcessedIsPersisted, TextOfKey, EnqueueAckLost, rawVars, inboxVars
<1>8. ASSUME NEW q \in Posts, PostDies(q)
      PROVE  ProcessedIsPersisted'
  BY <1>8 DEF ProcessedIsPersisted, TextOfKey, PostDies, rawVars, inboxVars
<1>9. ASSUME NEW r \in Runs, NEW k \in Keys, PickUp(r, k)
      PROVE  ProcessedIsPersisted'
  BY <1>9 DEF ProcessedIsPersisted, TextOfKey, PickUp, rawVars, inboxVars
<1>10. ASSUME NEW r \in Runs, ReadRawEvent(r)
      PROVE  ProcessedIsPersisted'
  BY <1>10
     DEF ProcessedIsPersisted, TextOfKey, ReadRawEvent, rawVars, inboxVars
<1>11. ASSUME NEW r \in Runs, MarkProcessed(r)
      PROVE  ProcessedIsPersisted'
  BY <1>11
     DEF References, HasText, Text, Payload, ProcessedIsPersisted, TextOfKey,
        MarkProcessed, SetRaw, inboxVars
<1>12. ASSUME NEW r \in Runs, FindConversation(r)
      PROVE  ProcessedIsPersisted'
  BY <1>12
     DEF ProcessedIsPersisted, TextOfKey, FindConversation, rawVars, inboxVars
<1>13. ASSUME NEW r \in Runs, CreateConversation(r)
      PROVE  ProcessedIsPersisted'
  BY <1>13
     DEF ProcessedIsPersisted, TextOfKey, CreateConversation, rawVars,
        inboxVars
<1>14. ASSUME NEW r \in Runs, CreateMessage(r)
      PROVE  ProcessedIsPersisted'
  BY <1>14
     DEF ProcessedIsPersisted, TextOfKey, CreateMessage, rawVars, inboxVars
<1>15. ASSUME NEW r \in Runs, Commit(r)
      PROVE  ProcessedIsPersisted'
  BY <1>15
     DEF Text, Payload, ProcessedIsPersisted, TextOfKey, Commit, CommitWrites,
        SetRaw
<1>16. ASSUME NEW r \in Runs, CommitAckLost(r)
      PROVE  ProcessedIsPersisted'
  BY <1>16
     DEF Text, Payload, ProcessedIsPersisted, TextOfKey, CommitAckLost,
        CommitWrites, SetRaw
<1>17. ASSUME NEW r \in Runs, Emit(r)
      PROVE  ProcessedIsPersisted'
  BY <1>17 DEF ProcessedIsPersisted, TextOfKey, Emit, rawVars
<1>18. ASSUME NEW r \in Runs, CatchError(r)
      PROVE  ProcessedIsPersisted'
  BY <1>18
     DEF TypeOK, ProcessedIsPersisted, TextOfKey, CatchError, SetRaw, rawVars,
        inboxVars
<1>19. ASSUME NEW r \in Runs, StatementThrows(r)
      PROVE  ProcessedIsPersisted'
  BY <1>19
     DEF ProcessedIsPersisted, TextOfKey, StatementThrows, rawVars, inboxVars
<1>20. ASSUME NEW r \in Runs, CompleteJob(r)
      PROVE  ProcessedIsPersisted'
  BY <1>20 DEF ProcessedIsPersisted, TextOfKey, CompleteJob, rawVars, inboxVars
<1>21. ASSUME NEW r \in Runs, FailJob(r)
      PROVE  ProcessedIsPersisted'
  BY <1>21 DEF ProcessedIsPersisted, TextOfKey, FailJob, rawVars, inboxVars
<1>22. ASSUME NEW r \in Runs, CrashRun(r)
      PROVE  ProcessedIsPersisted'
  BY <1>22 DEF ProcessedIsPersisted, TextOfKey, CrashRun, rawVars, inboxVars
<1>23. ASSUME NEW k \in Keys, Stall(k)
      PROVE  ProcessedIsPersisted'
  BY <1>23 DEF ProcessedIsPersisted, TextOfKey, Stall, rawVars, inboxVars
<1>24. CASE UNCHANGED vars
  BY <1>24 DEF ProcessedIsPersisted, TextOfKey, vars, rawVars, inboxVars
<1>25. QED
  BY <1>1, <1>2, <1>3, <1>4, <1>5, <1>6, <1>7, <1>8, <1>9, <1>10, <1>11, <1>12,
     <1>13, <1>14, <1>15, <1>16, <1>17, <1>18, <1>19, <1>20, <1>21, <1>22,
     <1>23, <1>24
     DEF Next, PostStep, RunStep, Fault

(* An event marked PROCESSED has its text stored: whatever runs crash, lose  *)
(* their locks, their statements or the answers to their commits.           *)
THEOREM ProcessedIsAlwaysPersisted == Spec => []ProcessedIsPersisted
<1>1. Init => ProcessedIsPersisted
  BY DEF Init, ProcessedIsPersisted
<1>2. WellFormed /\ ProcessedIsPersisted /\ [Next]_vars => ProcessedIsPersisted'
  BY PersistedStep DEF WellFormed
<1>3. QED
  BY <1>1, <1>2, WellFormedInvariant, PTL DEF Spec

-----------------------------------------------------------------------------
(* The unique key on Message.providerMessageId, seen from the runs: one      *)
(* transaction at a time is about to store a text, which is not there yet,   *)
(* and one run is about to announce it, which nobody has done.              *)
Storing(r) == run[r] = "commit" /\ HasText(r)

OneStorer ==
  /\ \A r \in Runs : Storing(r) => Text(r) \notin messages
  /\ \A r, s \in Runs :
       Storing(r) /\ Storing(s) /\ Text(r) = Text(s) => r = s

OneAnnouncer ==
  /\ \A r \in Runs :
       run[r] = "emit" => Text(r) \in messages /\ emitted[Text(r)] = 0
  /\ \A r, s \in Runs :
       run[r] = "emit" /\ run[s] = "emit" /\ Text(r) = Text(s) => r = s

OnceInv == OneStorer /\ OneAnnouncer /\ EmittedOnce

LEMMA OneStorerStep ==
  ASSUME TypeOK, References, OneStorer, [Next]_vars
  PROVE  OneStorer'
<1>1. ASSUME NEW q \in Posts, NEW e \in Payloads, Deliver(q, e)
      PROVE  OneStorer'
  BY <1>1
     DEF HasText, Text, Payload, OneStorer, Storing, Deliver, rawVars,
        inboxVars, runVars
<1>2. ASSUME NEW q \in Posts, CreateRawEvent(q)
      PROVE  OneStorer'
  BY <1>2
     DEF TypeOK, QueueTypeOK, References, HasText, Text, Payload, Thread,
        OneStorer, Storing, CreateRawEvent, PostKey, rawVars, inboxVars,
        runVars
<1>3. ASSUME NEW q \in Posts, LookUpDuplicate(q)
      PROVE  OneStorer'
  BY <1>3
     DEF HasText, Text, Payload, OneStorer, Storing, LookUpDuplicate, rawVars,
        inboxVars, runVars
<1>4. ASSUME NEW q \in Posts, EnqueueRawEvent(q)
      PROVE  OneStorer'
  BY <1>4
     DEF HasText, Text, Payload, OneStorer, Storing, EnqueueRawEvent, rawVars,
        inboxVars, runVars
<1>5. ASSUME NEW q \in Posts, Acknowledge(q)
      PROVE  OneStorer'
  BY <1>5
     DEF HasText, Text, Payload, OneStorer, Storing, Acknowledge, rawVars,
        inboxVars, runVars
<1>6. ASSUME NEW q \in Posts, EnqueueThrows(q)
      PROVE  OneStorer'
  BY <1>6
     DEF HasText, Text, Payload, OneStorer, Storing, EnqueueThrows, rawVars,
        inboxVars, runVars
<1>7. ASSUME NEW q \in Posts, EnqueueAckLost(q)
      PROVE  OneStorer'
  BY <1>7
     DEF HasText, Text, Payload, OneStorer, Storing, EnqueueAckLost, rawVars,
        inboxVars, runVars
<1>8. ASSUME NEW q \in Posts, PostDies(q)
      PROVE  OneStorer'
  BY <1>8
     DEF HasText, Text, Payload, OneStorer, Storing, PostDies, rawVars,
        inboxVars, runVars
<1>9. ASSUME NEW r \in Runs, NEW k \in Keys, PickUp(r, k)
      PROVE  OneStorer'
  BY <1>9
     DEF HasText, Text, Payload, OneStorer, Storing, PickUp, rawVars, inboxVars
<1>10. ASSUME NEW r \in Runs, ReadRawEvent(r)
      PROVE  OneStorer'
  BY <1>10
     DEF TypeOK, HasText, Text, Payload, OneStorer, Storing, ReadRawEvent,
        Goto, rawVars, inboxVars
<1>11. ASSUME NEW r \in Runs, MarkProcessed(r)
      PROVE  OneStorer'
  BY <1>11
     DEF HasText, Text, Payload, OneStorer, Storing, MarkProcessed, SetRaw,
        Goto, inboxVars
<1>12. ASSUME NEW r \in Runs, FindConversation(r)
      PROVE  OneStorer'
  BY <1>12
     DEF HasText, Text, Payload, OneStorer, Storing, FindConversation, Goto,
        rawVars, inboxVars
<1>13. ASSUME NEW r \in Runs, CreateConversation(r)
      PROVE  OneStorer'
  BY <1>13
     DEF TypeOK, HasText, Text, Payload, OneStorer, Storing,
        CreateConversation, EndTransaction, rawVars, inboxVars
<1>14. ASSUME NEW r \in Runs, CreateMessage(r)
      PROVE  OneStorer'
  BY <1>14
     DEF TypeOK, HasText, Text, Payload, OneStorer, Storing, CreateMessage,
        EndTransaction, Goto, rawVars, inboxVars
<1>15. ASSUME NEW r \in Runs, Commit(r)
      PROVE  OneStorer'
  BY <1>15
     DEF TypeOK, HasText, Text, Payload, OneStorer, Storing, Commit,
        CommitWrites, SetRaw, EndTransaction
<1>16. ASSUME NEW r \in Runs, CommitAckLost(r)
      PROVE  OneStorer'
  BY <1>16
     DEF TypeOK, HasText, Text, Payload, OneStorer, Storing, CommitAckLost,
        CommitWrites, SetRaw, EndTransaction
<1>17. ASSUME NEW r \in Runs, Emit(r)
      PROVE  OneStorer'
  BY <1>17 DEF HasText, Text, Payload, OneStorer, Storing, Emit, Goto, rawVars
<1>18. ASSUME NEW r \in Runs, CatchError(r)
      PROVE  OneStorer'
  BY <1>18
     DEF HasText, Text, Payload, OneStorer, Storing, CatchError, SetRaw, Goto,
        rawVars, inboxVars
<1>19. ASSUME NEW r \in Runs, StatementThrows(r)
      PROVE  OneStorer'
  BY <1>19
     DEF TypeOK, HasText, Text, Payload, OneStorer, Storing, StatementThrows,
        EndTransaction, rawVars, inboxVars
<1>20. ASSUME NEW r \in Runs, CompleteJob(r)
      PROVE  OneStorer'
  BY <1>20
     DEF HasText, Text, Payload, OneStorer, Storing, CompleteJob, Release,
        rawVars, inboxVars
<1>21. ASSUME NEW r \in Runs, FailJob(r)
      PROVE  OneStorer'
  BY <1>21
     DEF HasText, Text, Payload, OneStorer, Storing, FailJob, Release, rawVars,
        inboxVars
<1>22. ASSUME NEW r \in Runs, CrashRun(r)
      PROVE  OneStorer'
  BY <1>22
     DEF TypeOK, HasText, Text, Payload, OneStorer, Storing, CrashRun, Release,
        rawVars, inboxVars
<1>23. ASSUME NEW k \in Keys, Stall(k)
      PROVE  OneStorer'
  BY <1>23
     DEF HasText, Text, Payload, OneStorer, Storing, Stall, rawVars, inboxVars,
        runVars
<1>24. CASE UNCHANGED vars
  BY <1>24
     DEF HasText, Text, Payload, OneStorer, Storing, vars, rawVars, inboxVars,
        runVars
<1>25. QED
  BY <1>1, <1>2, <1>3, <1>4, <1>5, <1>6, <1>7, <1>8, <1>9, <1>10, <1>11, <1>12,
     <1>13, <1>14, <1>15, <1>16, <1>17, <1>18, <1>19, <1>20, <1>21, <1>22,
     <1>23, <1>24
     DEF Next, PostStep, RunStep, Fault

LEMMA OneAnnouncerStep ==
  ASSUME TypeOK, References, OnceInv, [Next]_vars
  PROVE  OneAnnouncer'
<1>1. ASSUME NEW q \in Posts, NEW e \in Payloads, Deliver(q, e)
      PROVE  OneAnnouncer'
  BY <1>1
     DEF Text, Payload, OnceInv, OneAnnouncer, Deliver, rawVars, inboxVars,
        runVars
<1>2. ASSUME NEW q \in Posts, CreateRawEvent(q)
      PROVE  OneAnnouncer'
  BY <1>2
     DEF TypeOK, References, HasText, Text, Payload, OnceInv, OneAnnouncer,
        EmittedOnce, CreateRawEvent, rawVars, inboxVars, jobVars, runVars
<1>3. ASSUME NEW q \in Posts, LookUpDuplicate(q)
      PROVE  OneAnnouncer'
  BY <1>3
     DEF Text, Payload, OnceInv, OneAnnouncer, LookUpDuplicate, rawVars,
        inboxVars, runVars
<1>4. ASSUME NEW q \in Posts, EnqueueRawEvent(q)
      PROVE  OneAnnouncer'
  BY <1>4
     DEF Text, Payload, OnceInv, OneAnnouncer, EnqueueRawEvent, rawVars,
        inboxVars, runVars
<1>5. ASSUME NEW q \in Posts, Acknowledge(q)
      PROVE  OneAnnouncer'
  BY <1>5
     DEF Text, Payload, OnceInv, OneAnnouncer, Acknowledge, rawVars, inboxVars,
        runVars
<1>6. ASSUME NEW q \in Posts, EnqueueThrows(q)
      PROVE  OneAnnouncer'
  BY <1>6
     DEF Text, Payload, OnceInv, OneAnnouncer, EnqueueThrows, rawVars,
        inboxVars, runVars
<1>7. ASSUME NEW q \in Posts, EnqueueAckLost(q)
      PROVE  OneAnnouncer'
  BY <1>7
     DEF Text, Payload, OnceInv, OneAnnouncer, EnqueueAckLost, rawVars,
        inboxVars, runVars
<1>8. ASSUME NEW q \in Posts, PostDies(q)
      PROVE  OneAnnouncer'
  BY <1>8
     DEF Text, Payload, OnceInv, OneAnnouncer, PostDies, rawVars, inboxVars,
        runVars
<1>9. ASSUME NEW r \in Runs, NEW k \in Keys, PickUp(r, k)
      PROVE  OneAnnouncer'
  BY <1>9 DEF Text, Payload, OnceInv, OneAnnouncer, PickUp, rawVars, inboxVars
<1>10. ASSUME NEW r \in Runs, ReadRawEvent(r)
      PROVE  OneAnnouncer'
  BY <1>10
     DEF TypeOK, Text, Payload, OnceInv, OneAnnouncer, ReadRawEvent, Goto,
        rawVars, inboxVars
<1>11. ASSUME NEW r \in Runs, MarkProcessed(r)
      PROVE  OneAnnouncer'
  BY <1>11
     DEF Text, Payload, OnceInv, OneAnnouncer, MarkProcessed, SetRaw, Goto,
        inboxVars
<1>12. ASSUME NEW r \in Runs, FindConversation(r)
      PROVE  OneAnnouncer'
  BY <1>12
     DEF Text, Payload, OnceInv, OneAnnouncer, FindConversation, Goto, rawVars,
        inboxVars
<1>13. ASSUME NEW r \in Runs, CreateConversation(r)
      PROVE  OneAnnouncer'
  BY <1>13
     DEF TypeOK, Text, Payload, OnceInv, OneAnnouncer, CreateConversation,
        EndTransaction, rawVars, inboxVars
<1>14. ASSUME NEW r \in Runs, CreateMessage(r)
      PROVE  OneAnnouncer'
  BY <1>14
     DEF TypeOK, Text, Payload, OnceInv, OneAnnouncer, CreateMessage,
        EndTransaction, Goto, rawVars, inboxVars
<1>15. ASSUME NEW r \in Runs, Commit(r)
      PROVE  OneAnnouncer'
  BY <1>15, PayloadAssumption
     DEF TypeOK, References, HasText, Text, Payload, OnceInv, OneStorer,
        Storing, OneAnnouncer, EmittedOnce, Commit, CommitWrites, SetRaw,
        EndTransaction
<1>16. ASSUME NEW r \in Runs, CommitAckLost(r)
      PROVE  OneAnnouncer'
  BY <1>16
     DEF Text, Payload, OnceInv, OneAnnouncer, CommitAckLost, CommitWrites,
        SetRaw, EndTransaction
<1>17. ASSUME NEW r \in Runs, Emit(r)
      PROVE  OneAnnouncer'
  BY <1>17
     DEF TypeOK, Text, Payload, OnceInv, OneAnnouncer, Emit, Goto, rawVars
<1>18. ASSUME NEW r \in Runs, CatchError(r)
      PROVE  OneAnnouncer'
  BY <1>18
     DEF Text, Payload, OnceInv, OneAnnouncer, CatchError, SetRaw, Goto,
        rawVars, inboxVars
<1>19. ASSUME NEW r \in Runs, StatementThrows(r)
      PROVE  OneAnnouncer'
  BY <1>19
     DEF TypeOK, Text, Payload, OnceInv, OneAnnouncer, StatementThrows,
        EndTransaction, rawVars, inboxVars
<1>20. ASSUME NEW r \in Runs, CompleteJob(r)
      PROVE  OneAnnouncer'
  BY <1>20
     DEF Text, Payload, OnceInv, OneAnnouncer, CompleteJob, Release, rawVars,
        inboxVars
<1>21. ASSUME NEW r \in Runs, FailJob(r)
      PROVE  OneAnnouncer'
  BY <1>21
     DEF Text, Payload, OnceInv, OneAnnouncer, FailJob, Release, rawVars,
        inboxVars
<1>22. ASSUME NEW r \in Runs, CrashRun(r)
      PROVE  OneAnnouncer'
  BY <1>22
     DEF TypeOK, Text, Payload, OnceInv, OneAnnouncer, CrashRun, Release,
        rawVars, inboxVars
<1>23. ASSUME NEW k \in Keys, Stall(k)
      PROVE  OneAnnouncer'
  BY <1>23
     DEF Text, Payload, OnceInv, OneAnnouncer, Stall, rawVars, inboxVars,
        runVars
<1>24. CASE UNCHANGED vars
  BY <1>24
     DEF Text, Payload, OnceInv, OneAnnouncer, vars, rawVars, inboxVars,
        runVars
<1>25. QED
  BY <1>1, <1>2, <1>3, <1>4, <1>5, <1>6, <1>7, <1>8, <1>9, <1>10, <1>11, <1>12,
     <1>13, <1>14, <1>15, <1>16, <1>17, <1>18, <1>19, <1>20, <1>21, <1>22,
     <1>23, <1>24
     DEF Next, PostStep, RunStep, Fault

LEMMA EmittedStep ==
  ASSUME TypeOK, References, OnceInv, [Next]_vars
  PROVE  EmittedOnce'
<1>1. ASSUME NEW q \in Posts, NEW e \in Payloads, Deliver(q, e)
      PROVE  EmittedOnce'
  BY <1>1 DEF OnceInv, EmittedOnce, Deliver, inboxVars
<1>2. ASSUME NEW q \in Posts, CreateRawEvent(q)
      PROVE  EmittedOnce'
  BY <1>2 DEF OnceInv, EmittedOnce, CreateRawEvent, inboxVars
<1>3. ASSUME NEW q \in Posts, LookUpDuplicate(q)
      PROVE  EmittedOnce'
  BY <1>3 DEF OnceInv, EmittedOnce, LookUpDuplicate, inboxVars
<1>4. ASSUME NEW q \in Posts, EnqueueRawEvent(q)
      PROVE  EmittedOnce'
  BY <1>4 DEF OnceInv, EmittedOnce, EnqueueRawEvent, inboxVars
<1>5. ASSUME NEW q \in Posts, Acknowledge(q)
      PROVE  EmittedOnce'
  BY <1>5 DEF OnceInv, EmittedOnce, Acknowledge, inboxVars
<1>6. ASSUME NEW q \in Posts, EnqueueThrows(q)
      PROVE  EmittedOnce'
  BY <1>6 DEF OnceInv, EmittedOnce, EnqueueThrows, inboxVars
<1>7. ASSUME NEW q \in Posts, EnqueueAckLost(q)
      PROVE  EmittedOnce'
  BY <1>7 DEF OnceInv, EmittedOnce, EnqueueAckLost, inboxVars
<1>8. ASSUME NEW q \in Posts, PostDies(q)
      PROVE  EmittedOnce'
  BY <1>8 DEF OnceInv, EmittedOnce, PostDies, inboxVars
<1>9. ASSUME NEW r \in Runs, NEW k \in Keys, PickUp(r, k)
      PROVE  EmittedOnce'
  BY <1>9 DEF OnceInv, EmittedOnce, PickUp, inboxVars
<1>10. ASSUME NEW r \in Runs, ReadRawEvent(r)
      PROVE  EmittedOnce'
  BY <1>10 DEF OnceInv, EmittedOnce, ReadRawEvent, inboxVars
<1>11. ASSUME NEW r \in Runs, MarkProcessed(r)
      PROVE  EmittedOnce'
  BY <1>11 DEF OnceInv, EmittedOnce, MarkProcessed, inboxVars
<1>12. ASSUME NEW r \in Runs, FindConversation(r)
      PROVE  EmittedOnce'
  BY <1>12 DEF OnceInv, EmittedOnce, FindConversation, inboxVars
<1>13. ASSUME NEW r \in Runs, CreateConversation(r)
      PROVE  EmittedOnce'
  BY <1>13 DEF OnceInv, EmittedOnce, CreateConversation, inboxVars
<1>14. ASSUME NEW r \in Runs, CreateMessage(r)
      PROVE  EmittedOnce'
  BY <1>14 DEF OnceInv, EmittedOnce, CreateMessage, inboxVars
<1>15. ASSUME NEW r \in Runs, Commit(r)
      PROVE  EmittedOnce'
  BY <1>15 DEF OnceInv, EmittedOnce, Commit, CommitWrites
<1>16. ASSUME NEW r \in Runs, CommitAckLost(r)
      PROVE  EmittedOnce'
  BY <1>16 DEF OnceInv, EmittedOnce, CommitAckLost, CommitWrites
<1>17. ASSUME NEW r \in Runs, Emit(r)
      PROVE  EmittedOnce'
  BY <1>17 DEF OnceInv, OneAnnouncer, EmittedOnce, Emit
<1>18. ASSUME NEW r \in Runs, CatchError(r)
      PROVE  EmittedOnce'
  BY <1>18 DEF OnceInv, EmittedOnce, CatchError, inboxVars
<1>19. ASSUME NEW r \in Runs, StatementThrows(r)
      PROVE  EmittedOnce'
  BY <1>19 DEF OnceInv, EmittedOnce, StatementThrows, inboxVars
<1>20. ASSUME NEW r \in Runs, CompleteJob(r)
      PROVE  EmittedOnce'
  BY <1>20 DEF OnceInv, EmittedOnce, CompleteJob, inboxVars
<1>21. ASSUME NEW r \in Runs, FailJob(r)
      PROVE  EmittedOnce'
  BY <1>21 DEF OnceInv, EmittedOnce, FailJob, inboxVars
<1>22. ASSUME NEW r \in Runs, CrashRun(r)
      PROVE  EmittedOnce'
  BY <1>22 DEF OnceInv, EmittedOnce, CrashRun, inboxVars
<1>23. ASSUME NEW k \in Keys, Stall(k)
      PROVE  EmittedOnce'
  BY <1>23 DEF OnceInv, EmittedOnce, Stall, inboxVars
<1>24. CASE UNCHANGED vars
  BY <1>24 DEF OnceInv, EmittedOnce, vars, inboxVars
<1>25. QED
  BY <1>1, <1>2, <1>3, <1>4, <1>5, <1>6, <1>7, <1>8, <1>9, <1>10, <1>11, <1>12,
     <1>13, <1>14, <1>15, <1>16, <1>17, <1>18, <1>19, <1>20, <1>21, <1>22,
     <1>23, <1>24
     DEF Next, PostStep, RunStep, Fault

(* No message is announced twice, or before it is stored.                   *)
THEOREM AlwaysEmittedOnce == Spec => []EmittedOnce
<1>1. Init => OnceInv
  BY DEF Init, OnceInv, OneStorer, Storing, OneAnnouncer, EmittedOnce
<1>2. WellFormed /\ OnceInv /\ [Next]_vars => OnceInv'
  BY OneStorerStep, OneAnnouncerStep, EmittedStep DEF WellFormed, OnceInv
<1>3. OnceInv => EmittedOnce
  BY DEF OnceInv
<1>4. QED
  BY <1>1, <1>2, <1>3, WellFormedInvariant, PTL DEF Spec

-----------------------------------------------------------------------------
(* A job in work belongs to one run, and a run to a job in work, which knows *)
(* whether this is its last attempt.  A run that returns or gives up has     *)
(* decided its event.                                                       *)
RunsOwnJobs ==
  /\ \A k \in Keys : job[k] = "active" =>
       /\ lockOwner[k] \in Runs /\ run[lockOwner[k]] # "idle"
       /\ runKey[lockOwner[k]] = k
  /\ \A r \in Runs : run[r] # "idle" =>
       /\ job[runKey[r]] = "active" /\ lockOwner[runKey[r]] = r
       /\ finalAttempt[r] <=> attemptsMade[runKey[r]] + 1 >= MaxAttempts

RunsDecide ==
  /\ \A r \in Runs : run[r] \in {"emit", "return"} => raw[runKey[r]] # "PENDING"
  /\ \A r \in Runs :
       run[r] = "throw" /\ finalAttempt[r] => raw[runKey[r]] # "PENDING"
  /\ \A k \in Keys : job[k] \in {"completed", "failed"} => raw[k] # "PENDING"

(* Whoever has been answered, or is about to be, has a row, and a job if the *)
(* row is pending.                                                          *)
Kept(k) == raw[k] # "none" /\ (raw[k] = "PENDING" => job[k] # "absent")

AnswersKeep ==
  /\ \A e \in acknowledged : Kept(RawKey[e])
  /\ \A q \in Posts : post[q] = "answer" => Kept(PostKey(q))

QueueInv == RunsOwnJobs /\ RunsDecide /\ AnswersKeep

OnlyRequestsFail == Faults \cap {"crash", "stall", "db"} = {}

LEMMA RunsOwnJobsStep ==
  ASSUME OnlyRequestsFail, TypeOK, References, QueueInv, [Next]_vars
  PROVE  RunsOwnJobs'
<1>1. ASSUME NEW q \in Posts, NEW e \in Payloads, Deliver(q, e)
      PROVE  RunsOwnJobs'
  BY <1>1 DEF QueueInv, RunsOwnJobs, Deliver, jobVars, runVars
<1>2. ASSUME NEW q \in Posts, CreateRawEvent(q)
      PROVE  RunsOwnJobs'
  BY <1>2 DEF QueueInv, RunsOwnJobs, CreateRawEvent, jobVars, runVars
<1>3. ASSUME NEW q \in Posts, LookUpDuplicate(q)
      PROVE  RunsOwnJobs'
  BY <1>3 DEF QueueInv, RunsOwnJobs, LookUpDuplicate, jobVars, runVars
<1>4. ASSUME NEW q \in Posts, EnqueueRawEvent(q)
      PROVE  RunsOwnJobs'
  BY <1>4 DEF QueueInv, RunsOwnJobs, EnqueueRawEvent, AddJob, runVars
<1>5. ASSUME NEW q \in Posts, Acknowledge(q)
      PROVE  RunsOwnJobs'
  BY <1>5 DEF QueueInv, RunsOwnJobs, Acknowledge, jobVars, runVars
<1>6. ASSUME NEW q \in Posts, EnqueueThrows(q)
      PROVE  RunsOwnJobs'
  BY <1>6 DEF QueueInv, RunsOwnJobs, EnqueueThrows, jobVars, runVars
<1>7. ASSUME NEW q \in Posts, EnqueueAckLost(q)
      PROVE  RunsOwnJobs'
  BY <1>7 DEF QueueInv, RunsOwnJobs, EnqueueAckLost, AddJob, runVars
<1>8. ASSUME NEW q \in Posts, PostDies(q)
      PROVE  RunsOwnJobs'
  BY <1>8 DEF QueueInv, RunsOwnJobs, PostDies, jobVars, runVars
<1>9. ASSUME NEW r \in Runs, NEW k \in Keys, PickUp(r, k)
      PROVE  RunsOwnJobs'
  <2>1. job[k] = "waiting" /\ run[r] = "idle"
    BY <1>9 DEF PickUp, TakeJob
  <2>2. /\ run' = [run EXCEPT ![r] = "read"] /\ runKey' = [runKey EXCEPT ![r] = k]
        /\ \A s \in Runs \ {r} : finalAttempt'[s] = finalAttempt[s]
        /\ finalAttempt'[r] <=> attemptsMade[k] + 1 >= MaxAttempts
    BY <1>9, Zenon DEF TypeOK, PickUp
  <2>3. /\ job' = [job EXCEPT ![k] = "active"]
        /\ lockOwner' = [lockOwner EXCEPT ![k] = r]
        /\ attemptsMade' = attemptsMade
    BY <1>9 DEF PickUp, TakeJob
  <2>4. QED
    BY <2>1, <2>2, <2>3 DEF TypeOK, QueueTypeOK, QueueInv, RunsOwnJobs
<1>10. ASSUME NEW r \in Runs, ReadRawEvent(r)
      PROVE  RunsOwnJobs'
  BY <1>10 DEF TypeOK, QueueInv, RunsOwnJobs, ReadRawEvent, Goto, jobVars
<1>11. ASSUME NEW r \in Runs, MarkProcessed(r)
      PROVE  RunsOwnJobs'
  BY <1>11 DEF QueueInv, RunsOwnJobs, MarkProcessed, Goto, jobVars
<1>12. ASSUME NEW r \in Runs, FindConversation(r)
      PROVE  RunsOwnJobs'
  BY <1>12 DEF QueueInv, RunsOwnJobs, FindConversation, Goto, jobVars
<1>13. ASSUME NEW r \in Runs, CreateConversation(r)
      PROVE  RunsOwnJobs'
  BY <1>13
     DEF TypeOK, QueueInv, RunsOwnJobs, CreateConversation, EndTransaction,
        jobVars
<1>14. ASSUME NEW r \in Runs, CreateMessage(r)
      PROVE  RunsOwnJobs'
  BY <1>14
     DEF TypeOK, References, QueueInv, RunsOwnJobs, CreateMessage,
        EndTransaction, Goto, jobVars
<1>15. ASSUME NEW r \in Runs, Commit(r)
      PROVE  RunsOwnJobs'
  BY <1>15 DEF QueueInv, RunsOwnJobs, Commit, EndTransaction, jobVars
<1>16. ASSUME NEW r \in Runs, CommitAckLost(r)
      PROVE  RunsOwnJobs'
  BY <1>16 DEF QueueInv, RunsOwnJobs, CommitAckLost, EndTransaction, jobVars
<1>17. ASSUME NEW r \in Runs, Emit(r)
      PROVE  RunsOwnJobs'
  BY <1>17 DEF QueueInv, RunsOwnJobs, Emit, Goto, jobVars
<1>18. ASSUME NEW r \in Runs, CatchError(r)
      PROVE  RunsOwnJobs'
  BY <1>18 DEF QueueInv, RunsOwnJobs, CatchError, Goto, jobVars
<1>19. ASSUME NEW r \in Runs, StatementThrows(r)
      PROVE  RunsOwnJobs'
  BY <1>19
     DEF TypeOK, QueueInv, RunsOwnJobs, StatementThrows, EndTransaction,
        jobVars
<1>20. ASSUME NEW r \in Runs, CompleteJob(r)
      PROVE  RunsOwnJobs'
  <2>1. /\ runKey[r] \in Keys /\ lockOwner[runKey[r]] = r
        /\ \A s \in Runs \ {r} : run[s] # "idle" =>
             runKey[s] \in Keys /\ runKey[s] # runKey[r]
    BY <1>20 DEF References, QueueInv, RunsOwnJobs, CompleteJob
  <2>2. /\ run' = [run EXCEPT ![r] = "idle"]
        /\ \A s \in Runs \ {r} : /\ run'[s] = run[s] /\ runKey'[s] = runKey[s]
                                 /\ finalAttempt'[s] = finalAttempt[s]
        /\ job'[runKey[r]] # "active"
        /\ \A k \in Keys \ {runKey[r]} :
             /\ job'[k] = job[k] /\ lockOwner'[k] = lockOwner[k]
             /\ attemptsMade'[k] = attemptsMade[k]
    BY <1>20, <2>1 DEF TypeOK, QueueTypeOK, CompleteJob, FinishJob, Release
  <2>3. QED
    BY <2>1, <2>2 DEF TypeOK, QueueInv, RunsOwnJobs
<1>21. ASSUME NEW r \in Runs, FailJob(r)
      PROVE  RunsOwnJobs'
  <2>1. /\ runKey[r] \in Keys /\ lockOwner[runKey[r]] = r
        /\ \A s \in Runs \ {r} : run[s] # "idle" =>
             runKey[s] \in Keys /\ runKey[s] # runKey[r]
    BY <1>21 DEF References, QueueInv, RunsOwnJobs, FailJob
  <2>2. /\ run' = [run EXCEPT ![r] = "idle"]
        /\ \A s \in Runs \ {r} : /\ run'[s] = run[s] /\ runKey'[s] = runKey[s]
                                 /\ finalAttempt'[s] = finalAttempt[s]
        /\ job'[runKey[r]] # "active"
        /\ \A k \in Keys \ {runKey[r]} :
             /\ job'[k] = job[k] /\ lockOwner'[k] = lockOwner[k]
             /\ attemptsMade'[k] = attemptsMade[k]
    BY <1>21, <2>1 DEF TypeOK, QueueTypeOK, FailJob, RetryJob, Release
  <2>3. QED
    BY <2>1, <2>2 DEF TypeOK, QueueInv, RunsOwnJobs
<1>22. ASSUME NEW r \in Runs, CrashRun(r)
      PROVE  RunsOwnJobs'
  BY <1>22 DEF OnlyRequestsFail, CrashRun
<1>23. ASSUME NEW k \in Keys, Stall(k)
      PROVE  RunsOwnJobs'
  BY <1>23, QueueAssumption
     DEF OnlyRequestsFail, QueueInv, RunsOwnJobs, Stall, RequeueStalled
<1>24. CASE UNCHANGED vars
  BY <1>24 DEF QueueInv, RunsOwnJobs, vars, jobVars, runVars
<1>25. QED
  BY <1>1, <1>2, <1>3, <1>4, <1>5, <1>6, <1>7, <1>8, <1>9, <1>10, <1>11, <1>12,
     <1>13, <1>14, <1>15, <1>16, <1>17, <1>18, <1>19, <1>20, <1>21, <1>22,
     <1>23, <1>24
     DEF Next, PostStep, RunStep, Fault

LEMMA RunsDecideStep ==
  ASSUME OnlyRequestsFail, TypeOK, References, QueueInv, [Next]_vars
  PROVE  RunsDecide'
<1>1. ASSUME NEW q \in Posts, NEW e \in Payloads, Deliver(q, e)
      PROVE  RunsDecide'
  BY <1>1 DEF QueueInv, RunsDecide, Deliver, rawVars, jobVars, runVars
<1>2. ASSUME NEW q \in Posts, CreateRawEvent(q)
      PROVE  RunsDecide'
  BY <1>2
     DEF TypeOK, References, QueueInv, RunsDecide, CreateRawEvent, rawVars,
        jobVars, runVars
<1>3. ASSUME NEW q \in Posts, LookUpDuplicate(q)
      PROVE  RunsDecide'
  BY <1>3 DEF QueueInv, RunsDecide, LookUpDuplicate, rawVars, jobVars, runVars
<1>4. ASSUME NEW q \in Posts, EnqueueRawEvent(q)
      PROVE  RunsDecide'
  BY <1>4 DEF QueueInv, RunsDecide, EnqueueRawEvent, AddJob, rawVars, runVars
<1>5. ASSUME NEW q \in Posts, Acknowledge(q)
      PROVE  RunsDecide'
  BY <1>5 DEF QueueInv, RunsDecide, Acknowledge, rawVars, jobVars, runVars
<1>6. ASSUME NEW q \in Posts, EnqueueThrows(q)
      PROVE  RunsDecide'
  BY <1>6 DEF QueueInv, RunsDecide, EnqueueThrows, rawVars, jobVars, runVars
<1>7. ASSUME NEW q \in Posts, EnqueueAckLost(q)
      PROVE  RunsDecide'
  BY <1>7 DEF QueueInv, RunsDecide, EnqueueAckLost, AddJob, rawVars, runVars
<1>8. ASSUME NEW q \in Posts, PostDies(q)
      PROVE  RunsDecide'
  BY <1>8 DEF QueueInv, RunsDecide, PostDies, rawVars, jobVars, runVars
<1>9. ASSUME NEW r \in Runs, NEW k \in Keys, PickUp(r, k)
      PROVE  RunsDecide'
  BY <1>9 DEF QueueInv, RunsDecide, PickUp, TakeJob, rawVars
<1>10. ASSUME NEW r \in Runs, ReadRawEvent(r)
      PROVE  RunsDecide'
  BY <1>10
     DEF TypeOK, QueueInv, RunsDecide, ReadRawEvent, Goto, rawVars, jobVars
<1>11. ASSUME NEW r \in Runs, MarkProcessed(r)
      PROVE  RunsDecide'
  BY <1>11
     DEF TypeOK, References, QueueInv, RunsDecide, MarkProcessed, SetRaw, Goto,
        jobVars
<1>12. ASSUME NEW r \in Runs, FindConversation(r)
      PROVE  RunsDecide'
  BY <1>12 DEF QueueInv, RunsDecide, FindConversation, Goto, rawVars, jobVars
<1>13. ASSUME NEW r \in Runs, CreateConversation(r)
      PROVE  RunsDecide'
  BY <1>13
     DEF TypeOK, QueueInv, RunsDecide, CreateConversation, EndTransaction,
        rawVars, jobVars
<1>14. ASSUME NEW r \in Runs, CreateMessage(r)
      PROVE  RunsDecide'
  BY <1>14
     DEF TypeOK, QueueInv, RunsDecide, CreateMessage, EndTransaction, Goto,
        rawVars, jobVars
<1>15. ASSUME NEW r \in Runs, Commit(r)
      PROVE  RunsDecide'
  BY <1>15
     DEF TypeOK, References, QueueInv, RunsDecide, Commit, CommitWrites,
        SetRaw, EndTransaction, jobVars
<1>16. ASSUME NEW r \in Runs, CommitAckLost(r)
      PROVE  RunsDecide'
  BY <1>16
     DEF QueueInv, RunsDecide, CommitAckLost, CommitWrites, SetRaw,
        EndTransaction, jobVars
<1>17. ASSUME NEW r \in Runs, Emit(r)
      PROVE  RunsDecide'
  BY <1>17 DEF QueueInv, RunsDecide, Emit, Goto, rawVars, jobVars
<1>18. ASSUME NEW r \in Runs, CatchError(r)
      PROVE  RunsDecide'
  BY <1>18
     DEF TypeOK, References, QueueInv, RunsDecide, CatchError, SetRaw, Goto,
        rawVars, jobVars
<1>19. ASSUME NEW r \in Runs, StatementThrows(r)
      PROVE  RunsDecide'
  BY <1>19 DEF OnlyRequestsFail, StatementThrows
<1>20. ASSUME NEW r \in Runs, CompleteJob(r)
      PROVE  RunsDecide'
  BY <1>20
     DEF TypeOK, QueueTypeOK, QueueInv, RunsDecide, CompleteJob, FinishJob,
        Release, rawVars
<1>21. ASSUME NEW r \in Runs, FailJob(r)
      PROVE  RunsDecide'
  BY <1>21, QueueAssumption
     DEF TypeOK, QueueTypeOK, QueueInv, RunsOwnJobs, RunsDecide, FailJob,
        RetryJob, Release, rawVars
<1>22. ASSUME NEW r \in Runs, CrashRun(r)
      PROVE  RunsDecide'
  BY <1>22
     DEF TypeOK, QueueInv, RunsDecide, CrashRun, AbandonJob, Release, rawVars
<1>23. ASSUME NEW k \in Keys, Stall(k)
      PROVE  RunsDecide'
  BY <1>23, QueueAssumption
     DEF OnlyRequestsFail, QueueInv, RunsOwnJobs, Stall, RequeueStalled
<1>24. CASE UNCHANGED vars
  BY <1>24 DEF QueueInv, RunsDecide, vars, rawVars, jobVars, runVars
<1>25. QED
  BY <1>1, <1>2, <1>3, <1>4, <1>5, <1>6, <1>7, <1>8, <1>9, <1>10, <1>11, <1>12,
     <1>13, <1>14, <1>15, <1>16, <1>17, <1>18, <1>19, <1>20, <1>21, <1>22,
     <1>23, <1>24
     DEF Next, PostStep, RunStep, Fault

LEMMA AnswersKeepStep ==
  ASSUME TypeOK, References, AnswersKeep, [Next]_vars
  PROVE  AnswersKeep'
<1>1. ASSUME NEW q \in Posts, NEW e \in Payloads, Deliver(q, e)
      PROVE  AnswersKeep'
  BY <1>1 DEF AnswersKeep, Kept, PostKey, Deliver, rawVars, jobVars
<1>2. ASSUME NEW q \in Posts, CreateRawEvent(q)
      PROVE  AnswersKeep'
  BY <1>2, PayloadAssumption
     DEF TypeOK, References, AnswersKeep, Kept, PostKey, CreateRawEvent,
        PostGoto, PostKey, rawVars, jobVars
<1>3. ASSUME NEW q \in Posts, LookUpDuplicate(q)
      PROVE  AnswersKeep'
  BY <1>3
     DEF References, AnswersKeep, Kept, PostKey, LookUpDuplicate, PostGoto,
        PostKey, rawVars, jobVars
<1>4. ASSUME NEW q \in Posts, EnqueueRawEvent(q)
      PROVE  AnswersKeep'
  BY <1>4, PayloadAssumption
     DEF TypeOK, QueueTypeOK, References, AnswersKeep, Kept, PostKey,
        EnqueueRawEvent, AddJob, PostGoto, PostKey, rawVars
<1>5. ASSUME NEW q \in Posts, Acknowledge(q)
      PROVE  AnswersKeep'
  BY <1>5
     DEF TypeOK, AnswersKeep, Kept, PostKey, Acknowledge, EndPost, rawVars,
        jobVars
<1>6. ASSUME NEW q \in Posts, EnqueueThrows(q)
      PROVE  AnswersKeep'
  BY <1>6
     DEF AnswersKeep, Kept, PostKey, EnqueueThrows, EndPost, rawVars, jobVars
<1>7. ASSUME NEW q \in Posts, EnqueueAckLost(q)
      PROVE  AnswersKeep'
  BY <1>7
     DEF AnswersKeep, Kept, PostKey, EnqueueAckLost, AddJob, EndPost, PostKey,
        rawVars
<1>8. ASSUME NEW q \in Posts, PostDies(q)
      PROVE  AnswersKeep'
  BY <1>8
     DEF TypeOK, AnswersKeep, Kept, PostKey, PostDies, EndPost, rawVars,
        jobVars
<1>9. ASSUME NEW r \in Runs, NEW k \in Keys, PickUp(r, k)
      PROVE  AnswersKeep'
  BY <1>9 DEF AnswersKeep, Kept, PostKey, PickUp, TakeJob, rawVars, postVars
<1>10. ASSUME NEW r \in Runs, ReadRawEvent(r)
      PROVE  AnswersKeep'
  BY <1>10
     DEF AnswersKeep, Kept, PostKey, ReadRawEvent, rawVars, postVars, jobVars
<1>11. ASSUME NEW r \in Runs, MarkProcessed(r)
      PROVE  AnswersKeep'
  BY <1>11
     DEF AnswersKeep, Kept, PostKey, MarkProcessed, SetRaw, postVars, jobVars
<1>12. ASSUME NEW r \in Runs, FindConversation(r)
      PROVE  AnswersKeep'
  BY <1>12
     DEF AnswersKeep, Kept, PostKey, FindConversation, rawVars, postVars,
        jobVars
<1>13. ASSUME NEW r \in Runs, CreateConversation(r)
      PROVE  AnswersKeep'
  BY <1>13
     DEF AnswersKeep, Kept, PostKey, CreateConversation, rawVars, postVars,
        jobVars
<1>14. ASSUME NEW r \in Runs, CreateMessage(r)
      PROVE  AnswersKeep'
  BY <1>14
     DEF AnswersKeep, Kept, PostKey, CreateMessage, rawVars, postVars, jobVars
<1>15. ASSUME NEW r \in Runs, Commit(r)
      PROVE  AnswersKeep'
  BY <1>15
     DEF AnswersKeep, Kept, PostKey, Commit, CommitWrites, SetRaw, postVars,
        jobVars
<1>16. ASSUME NEW r \in Runs, CommitAckLost(r)
      PROVE  AnswersKeep'
  BY <1>16
     DEF AnswersKeep, Kept, PostKey, CommitAckLost, CommitWrites, SetRaw,
        postVars, jobVars
<1>17. ASSUME NEW r \in Runs, Emit(r)
      PROVE  AnswersKeep'
  BY <1>17 DEF AnswersKeep, Kept, PostKey, Emit, rawVars, postVars, jobVars
<1>18. ASSUME NEW r \in Runs, CatchError(r)
      PROVE  AnswersKeep'
  BY <1>18, PayloadAssumption
     DEF TypeOK, References, AnswersKeep, Kept, PostKey, CatchError, SetRaw,
        rawVars, postVars, jobVars
<1>19. ASSUME NEW r \in Runs, StatementThrows(r)
      PROVE  AnswersKeep'
  BY <1>19
     DEF AnswersKeep, Kept, PostKey, StatementThrows, rawVars, postVars,
        jobVars
<1>20. ASSUME NEW r \in Runs, CompleteJob(r)
      PROVE  AnswersKeep'
  BY <1>20, PayloadAssumption
     DEF TypeOK, QueueTypeOK, References, AnswersKeep, Kept, PostKey,
        CompleteJob, FinishJob, rawVars, postVars
<1>21. ASSUME NEW r \in Runs, FailJob(r)
      PROVE  AnswersKeep'
  BY <1>21, PayloadAssumption
     DEF TypeOK, QueueTypeOK, References, AnswersKeep, Kept, PostKey, FailJob,
        RetryJob, rawVars, postVars
<1>22. ASSUME NEW r \in Runs, CrashRun(r)
      PROVE  AnswersKeep'
  BY <1>22
     DEF AnswersKeep, Kept, PostKey, CrashRun, AbandonJob, rawVars, postVars
<1>23. ASSUME NEW k \in Keys, Stall(k)
      PROVE  AnswersKeep'
  BY <1>23, PayloadAssumption
     DEF TypeOK, QueueTypeOK, References, AnswersKeep, Kept, PostKey, Stall,
        RequeueStalled, rawVars, postVars
<1>24. CASE UNCHANGED vars
  BY <1>24 DEF AnswersKeep, Kept, PostKey, vars, rawVars, postVars, jobVars
<1>25. QED
  BY <1>1, <1>2, <1>3, <1>4, <1>5, <1>6, <1>7, <1>8, <1>9, <1>10, <1>11, <1>12,
     <1>13, <1>14, <1>15, <1>16, <1>17, <1>18, <1>19, <1>20, <1>21, <1>22,
     <1>23, <1>24
     DEF Next, PostStep, RunStep, Fault

(* With requests that die, fail to enqueue, lose their answers and are       *)
(* repeated, an acknowledged payload whose event is pending has a job that   *)
(* is waiting or in work.                                                   *)
THEOREM AcknowledgedIsAlwaysQueued ==
  ASSUME OnlyRequestsFail
  PROVE  Spec => []AcknowledgedIsQueued
<1>1. Init => QueueInv
  BY DEF Init, QueueInit, QueueInv, RunsOwnJobs, RunsDecide, AnswersKeep
<1>2. WellFormed /\ QueueInv /\ [Next]_vars => QueueInv'
  BY RunsOwnJobsStep, RunsDecideStep, AnswersKeepStep DEF WellFormed, QueueInv
<1>3. WellFormed /\ QueueInv => AcknowledgedIsQueued
  BY PayloadAssumption
     DEF WellFormed, TypeOK, QueueTypeOK, QueueInv, RunsDecide, AnswersKeep,
         Kept, AcknowledgedIsQueued
<1>4. QED
  BY <1>1, <1>2, <1>3, WellFormedInvariant, PTL DEF Spec
=============================================================================
