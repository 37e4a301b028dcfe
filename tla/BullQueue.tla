------------------------------ MODULE BullQueue -------------------------------
(***************************************************************************)
(* The BullMQ queues as outbound.queue.service.ts and                      *)
(* webhooks.queue.service.ts use them (the library is external to the      *)
(* repository): jobs with an id of the caller's choice, 5 attempts, worker *)
(* slots that own a job through a lock, and the stalled-job check.         *)
(***************************************************************************)
EXTENDS Integers

CONSTANTS
  Runs,         \* worker slots that execute the processor (concurrency 5)
  NoRun,
  MaxAttempts,  \* job option "attempts"
  MaxStalls     \* worker option maxStalledCount, left at its default

ASSUME QueueAssumption ==
  NoRun \notin Runs /\ MaxAttempts \in Nat \ {0} /\ MaxStalls \in Nat

VARIABLES
  job,          \* the state of the job with each id, "absent" if never added
  attemptsMade, \* the failed attempts of each job
  stalledCount, \* how often the stalled check requeued it
  lockOwner     \* the run that holds the job's lock

jobVars == <<job, attemptsMade, stalledCount, lockOwner>>

QueueTypeOK(Jobs) ==
  /\ job \in [Jobs -> {"absent", "waiting", "active", "completed", "failed"}]
  /\ attemptsMade \in [Jobs -> Nat]
  /\ stalledCount \in [Jobs -> Nat]
  /\ lockOwner \in [Jobs -> Runs \cup {NoRun}]

QueueInit(Jobs) ==
  /\ job = [j \in Jobs |-> "absent"]
  /\ attemptsMade = [j \in Jobs |-> 0]
  /\ stalledCount = [j \in Jobs |-> 0]
  /\ lockOwner = [j \in Jobs |-> NoRun]

\* queue.add with a jobId: an id the queue knows, in whatever state, is not
\* added again (completed and failed jobs are kept by removeOnComplete and
\* removeOnFail).  The ids, outbound-message:... and raw-webhook-event:..., are taken
\* to be accepted, as the tests of both services have it; a BullMQ that refuses the
\* colon in them makes every add an error of the caller's.
AddJob(j) ==
  /\ job' = [job EXCEPT ![j] = IF @ = "absent" THEN "waiting" ELSE @]
  /\ UNCHANGED <<attemptsMade, stalledCount, lockOwner>>

TakeJob(r, j) ==
  /\ job[j] = "waiting"
  /\ job' = [job EXCEPT ![j] = "active"]
  /\ lockOwner' = [lockOwner EXCEPT ![j] = r]
  /\ UNCHANGED <<attemptsMade, stalledCount>>

\* The processor of run r returned; without the lock it moves nothing.
FinishJob(r, j) ==
  /\ IF lockOwner[j] = r
       THEN /\ job' = [job EXCEPT ![j] = "completed"]
            /\ lockOwner' = [lockOwner EXCEPT ![j] = NoRun]
       ELSE UNCHANGED <<job, lockOwner>>
  /\ UNCHANGED <<attemptsMade, stalledCount>>

\* The processor of run r threw: the job is retried while attempts are left.
RetryJob(r, j) ==
  /\ IF lockOwner[j] = r
       THEN /\ job' = [job EXCEPT ![j] =
                         IF attemptsMade[j] + 1 < MaxAttempts
                           THEN "waiting" ELSE "failed"]
            /\ attemptsMade' = [attemptsMade EXCEPT ![j] = @ + 1]
            /\ lockOwner' = [lockOwner EXCEPT ![j] = NoRun]
       ELSE UNCHANGED <<job, attemptsMade, lockOwner>>
  /\ UNCHANGED stalledCount

\* The process of run r died; its lock will expire.
AbandonJob(r, j) ==
  /\ lockOwner' = [lockOwner EXCEPT ![j] = IF @ = r THEN NoRun ELSE @]
  /\ UNCHANGED <<job, attemptsMade, stalledCount>>

\* The stalled check takes an active job back, MaxStalls times.
RequeueStalled(j) ==
  /\ job[j] = "active"
  /\ IF stalledCount[j] < MaxStalls
       THEN /\ job' = [job EXCEPT ![j] = "waiting"]
            /\ stalledCount' = [stalledCount EXCEPT ![j] = @ + 1]
       ELSE /\ job' = [job EXCEPT ![j] = "failed"]
            /\ UNCHANGED stalledCount
  /\ lockOwner' = [lockOwner EXCEPT ![j] = NoRun]
  /\ UNCHANGED attemptsMade
=============================================================================
