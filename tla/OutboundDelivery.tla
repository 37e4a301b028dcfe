--------------------------- MODULE OutboundDelivery ---------------------------
(***************************************************************************)
(* Delivery of outbound messages: the tail of POST /messages in            *)
(* ConversationsService.createOutboundMessage, the BullMQ queue            *)
(* "outbound-messages", OutboundWorkerService.processOutboundMessage, the   *)
(* provider, and the provider's status webhooks as applied by               *)
(* WebhooksWorkerService.applyOutboundStatusUpdate.                         *)
(*                                                                         *)
(* A "run" is one slot of a queue worker (concurrency 5 per process) that   *)
(* executes processOutboundMessage.  Every Prisma statement commits on its  *)
(* own, so every statement is one action; the await points between them    *)
(* are where runs, requests and webhooks interleave.                       *)
(***************************************************************************)
EXTENDS BullQueue

CONSTANTS
  Messages,     \* outbound messages that may be created
  Pids,         \* provider message ids the provider may hand out
  NoMessage, NoPid,
  Reports,      \* delivery states the provider reports by status webhook
  Faults        \* the faults the environment may inject

FaultKinds ==
  { "crash",        \* a process dies between two steps
    "stall",        \* a live worker loses its job lock (blocked event loop)
    "db",           \* a statement fails, or commits and its answer is lost
    "enqueueAck",   \* queue.add reaches Redis and its answer is lost
    "providerAck" } \* the provider accepts and the answer is lost or unusable

ASSUME SentinelAssumption ==
  NoMessage \notin Messages /\ NoPid \notin Pids

DeliveryStatus ==
  {"QUEUED", "SENDING", "SENT", "DELIVERED", "READ", "FAILED"}

ASSUME ReportAssumption ==
  /\ Reports \subseteq {"SENT", "DELIVERED", "READ", "FAILED"}
  /\ Faults \subseteq FaultKinds

Stamps == {"sentAt", "deliveredAt", "readAt", "failedAt"}

UpdatePhase == {"none", "pending", "decided", "applied", "dropped"}

VARIABLES
  deliveryStatus,    \* Message.deliveryStatus, "NONE" before the row exists
  providerMessageId, \* Message.providerMessageId
  stamps,            \* which of the four timestamp columns are not null
  request,           \* where the POST request that creates the message is
  run, runMessage, runPid, \* where each run is, its message, its send result
  accepted,          \* provider: the message each provider id was given for
  reported,          \* provider: the states reported for each provider id
  update,            \* the webhook transaction of each (provider id, state)
  seen               \* the timestamp columns that transaction has read

rowVars == <<deliveryStatus, providerMessageId, stamps>>
runVars == <<run, runMessage, runPid>>
providerVars == <<accepted, reported>>
webhookVars == <<update, seen>>
vars == <<rowVars, request, jobVars, runVars, providerVars, webhookVars>>

TypeOK ==
  /\ deliveryStatus \in [Messages -> DeliveryStatus \cup {"NONE"}]
  /\ providerMessageId \in [Messages -> Pids \cup {NoPid}]
  /\ stamps \in [Messages -> SUBSET Stamps]
  /\ request \in [Messages -> {"idle", "enqueue", "catch", "ok", "error"}]
  /\ QueueTypeOK(Messages)
  /\ run \in [Runs -> {"idle", "claim", "load", "send", "record", "mark",
                       "return", "throw"}]
  /\ runMessage \in [Runs -> Messages \cup {NoMessage}]
  /\ runPid \in [Runs -> Pids \cup {NoPid}]
  /\ accepted \in [Pids -> Messages \cup {NoMessage}]
  /\ reported \in [Pids -> SUBSET Reports]
  /\ update \in [Pids \X Reports -> UpdatePhase]
  /\ seen \in [Pids \X Reports -> SUBSET Stamps]

Init ==
  /\ deliveryStatus = [m \in Messages |-> "NONE"]
  /\ providerMessageId = [m \in Messages |-> NoPid]
  /\ stamps = [m \in Messages |-> {}]
  /\ request = [m \in Messages |-> "idle"]
  /\ QueueInit(Messages)
  /\ run = [r \in Runs |-> "idle"]
  /\ runMessage = [r \in Runs |-> NoMessage]
  /\ runPid = [r \in Runs |-> NoPid]
  /\ accepted = [p \in Pids |-> NoMessage]
  /\ reported = [p \in Pids |-> {}]
  /\ update = [u \in Pids \X Reports |-> "none"]
  /\ seen = [u \in Pids \X Reports |-> {}]

-----------------------------------------------------------------------------
(* The row writes shared by the actions.                                   *)

SetFailed(m) ==
  /\ deliveryStatus' = [deliveryStatus EXCEPT ![m] = "FAILED"]
  /\ stamps' = [stamps EXCEPT ![m] = @ \cup {"failedAt"}]
  /\ UNCHANGED providerMessageId

\* Mutation: the send result is recorded with failedAt left in place.
SetSentKeepingFailedAt(m, p) ==
  /\ deliveryStatus' = [deliveryStatus EXCEPT ![m] = "SENT"]
  /\ providerMessageId' = [providerMessageId EXCEPT ![m] = p]
  /\ stamps' = [stamps EXCEPT ![m] = @ \cup {"sentAt"}]

\* Mutation: the message's own id is recorded as the provider's.
SetSentWithOwnId(m, p) ==
  /\ deliveryStatus' = [deliveryStatus EXCEPT ![m] = "SENT"]
  /\ providerMessageId' = [providerMessageId EXCEPT ![m] = m]
  /\ stamps' = [stamps EXCEPT ![m] = (@ \ {"failedAt"}) \cup {"sentAt"}]

SetSent(m, p) ==
  /\ deliveryStatus' = [deliveryStatus EXCEPT ![m] = "SENT"]
  /\ providerMessageId' = [providerMessageId EXCEPT ![m] = p]
  /\ stamps' = [stamps EXCEPT ![m] = (@ \ {"failedAt"}) \cup {"sentAt"}]

-----------------------------------------------------------------------------
(* The request: the create transaction has committed a QUEUED row, then    *)
(* the job is enqueued outside of it.                                      *)

CreateOutboundMessage(m) ==
  /\ request[m] = "idle"
  /\ request' = [request EXCEPT ![m] = "enqueue"]
  /\ deliveryStatus' = [deliveryStatus EXCEPT ![m] = "QUEUED"]
  /\ UNCHANGED <<providerMessageId, stamps, jobVars, runVars, providerVars,
                 webhookVars>>

Enqueue(m) ==
  /\ request[m] = "enqueue"
  /\ request' = [request EXCEPT ![m] = "ok"]
  /\ AddJob(m)
  /\ UNCHANGED <<rowVars, runVars, providerVars, webhookVars>>

\* queue.add throws and nothing was added.
EnqueueThrows(m) ==
  /\ request[m] = "enqueue"
  /\ request' = [request EXCEPT ![m] = "catch"]
  /\ UNCHANGED <<rowVars, jobVars, runVars, providerVars, webhookVars>>

\* queue.add throws although the job was added.
EnqueueAckLost(m) ==
  /\ "enqueueAck" \in Faults
  /\ request[m] = "enqueue"
  /\ request' = [request EXCEPT ![m] = "catch"]
  /\ AddJob(m)
  /\ UNCHANGED <<rowVars, runVars, providerVars, webhookVars>>

\* The catch block: an update by id, whatever the row holds by now.
CatchEnqueueError(m) ==
  /\ request[m] = "catch"
  /\ request' = [request EXCEPT ![m] = "error"]
  /\ SetFailed(m)
  /\ UNCHANGED <<jobVars, runVars, providerVars, webhookVars>>

\* The process dies, or the catch block's update fails.
RequestDies(m) ==
  /\ \/ "crash" \in Faults /\ request[m] \in {"enqueue", "catch"}
     \/ "db" \in Faults /\ request[m] = "catch"
  /\ request' = [request EXCEPT ![m] = "error"]
  /\ UNCHANGED <<rowVars, jobVars, runVars, providerVars, webhookVars>>

-----------------------------------------------------------------------------
(* The queue; the job of a message is named after it.                      *)

Goto(r, place) ==
  /\ run' = [run EXCEPT ![r] = place]
  /\ UNCHANGED runMessage

Release(r) ==
  /\ run' = [run EXCEPT ![r] = "idle"]
  /\ runMessage' = [runMessage EXCEPT ![r] = NoMessage]
  /\ runPid' = [runPid EXCEPT ![r] = NoPid]

PickUp(r, m) ==
  /\ run[r] = "idle"
  /\ TakeJob(r, m)
  /\ run' = [run EXCEPT ![r] = "claim"]
  /\ runMessage' = [runMessage EXCEPT ![r] = m]
  /\ UNCHANGED <<rowVars, request, runPid, providerVars, webhookVars>>

CompleteJob(r) ==
  /\ run[r] = "return"
  /\ FinishJob(r, runMessage[r])
  /\ Release(r)
  /\ UNCHANGED <<rowVars, request, providerVars, webhookVars>>

FailJob(r) ==
  /\ run[r] = "throw"
  /\ RetryJob(r, runMessage[r])
  /\ Release(r)
  /\ UNCHANGED <<rowVars, request, providerVars, webhookVars>>

\* The stalled check finds a job whose run is dead, or alive but too slow to
\* renew its lock.
Stall(m) ==
  /\ lockOwner[m] = NoRun \/ "stall" \in Faults
  /\ RequeueStalled(m)
  /\ UNCHANGED <<rowVars, request, runVars, providerVars, webhookVars>>

CrashRun(r) ==
  /\ "crash" \in Faults
  /\ run[r] # "idle"
  /\ AbandonJob(r, runMessage[r])
  /\ Release(r)
  /\ UNCHANGED <<rowVars, request, providerVars, webhookVars>>

-----------------------------------------------------------------------------
(* processOutboundMessage.                                                 *)

\* The conditional update that turns QUEUED or FAILED into SENDING.
SetSending(m) ==
  /\ deliveryStatus' = [deliveryStatus EXCEPT ![m] = "SENDING"]
  /\ stamps' = [stamps EXCEPT ![m] = @ \ {"failedAt"}]
  /\ UNCHANGED providerMessageId

\* Mutation: a retry may take over a message that is being sent.
ClaimableWhileSending(m) ==
  deliveryStatus[m] \in {"QUEUED", "SENDING", "FAILED"}

\* Mutation: only what is known to be delivered is not sent again.
ClaimableUntilDelivered(m) ==
  deliveryStatus[m] \notin {"SENDING", "DELIVERED", "READ"}

Claimable(m) == deliveryStatus[m] \in {"QUEUED", "FAILED"}

Claim(r) ==
  /\ run[r] = "claim"
  /\ IF Claimable(runMessage[r])
       THEN SetSending(runMessage[r]) /\ Goto(r, "load")
       ELSE UNCHANGED rowVars /\ Goto(r, "return")
  /\ UNCHANGED <<request, jobVars, runPid, providerVars, webhookVars>>

\* The claim throws, having committed or not.
ClaimThrows(r) ==
  /\ "db" \in Faults
  /\ run[r] = "claim"
  /\ \/ Claimable(runMessage[r]) /\ SetSending(runMessage[r])
     \/ UNCHANGED rowVars
  /\ Goto(r, "throw")
  /\ UNCHANGED <<request, jobVars, runPid, providerVars, webhookVars>>

\* The early return for a row that is missing or not OUTBOUND is left out: what is
\* enqueued was created OUTBOUND, and the row could only be gone with its channel,
\* which a disconnect deletes while it has no conversation (but see ChannelHistory).
Load(r) ==
  /\ run[r] = "load"
  /\ Goto(r, "send")
  /\ UNCHANGED <<rowVars, request, jobVars, runPid, providerVars, webhookVars>>

\* findUnique stands outside the try block: its error skips markMessageAsFailed.
LoadThrows(r) ==
  /\ "db" \in Faults
  /\ run[r] = "load"
  /\ Goto(r, "throw")
  /\ UNCHANGED <<rowVars, request, jobVars, runPid, providerVars, webhookVars>>

ProviderAccepts(r, p) ==
  /\ run[r] = "send"
  /\ accepted[p] = NoMessage
  /\ accepted' = [accepted EXCEPT ![p] = runMessage[r]]
  /\ UNCHANGED reported

SendAccepted(r, p) ==
  /\ ProviderAccepts(r, p)
  /\ Goto(r, "record")
  /\ runPid' = [runPid EXCEPT ![r] = p]
  /\ UNCHANGED <<rowVars, request, jobVars, webhookVars>>

SendAckLost(r, p) ==
  /\ "providerAck" \in Faults
  /\ ProviderAccepts(r, p)
  /\ Goto(r, "mark")
  /\ UNCHANGED <<rowVars, request, jobVars, runPid, webhookVars>>

\* Mutation: an error response is taken for a send result.
SendRejectedUnnoticed(r) ==
  /\ run[r] = "send"
  /\ Goto(r, "record")
  /\ UNCHANGED <<rowVars, request, jobVars, runPid, providerVars, webhookVars>>

\* A failed precondition, a network error or a provider error response.
SendRejected(r) ==
  /\ run[r] = "send"
  /\ Goto(r, "mark")
  /\ UNCHANGED <<rowVars, request, jobVars, runPid, providerVars, webhookVars>>

RecordSent(r) ==
  /\ run[r] = "record"
  /\ SetSent(runMessage[r], runPid[r])
  /\ Goto(r, "return")
  /\ UNCHANGED <<request, jobVars, runPid, providerVars, webhookVars>>

\* The update stands inside the try block: its error reaches markMessageAsFailed.
RecordThrows(r) ==
  /\ "db" \in Faults
  /\ run[r] = "record"
  /\ SetSent(runMessage[r], runPid[r]) \/ UNCHANGED rowVars
  /\ Goto(r, "mark")
  /\ UNCHANGED <<request, jobVars, runPid, providerVars, webhookVars>>

\* Mutation: a failed send is rethrown without being marked.
RethrowOnly(r) ==
  /\ run[r] = "mark"
  /\ Goto(r, "throw")
  /\ UNCHANGED <<rowVars, request, jobVars, runPid, providerVars, webhookVars>>

MarkMessageAsFailed(r) ==
  /\ run[r] = "mark"
  /\ SetFailed(runMessage[r])
  /\ Goto(r, "throw")
  /\ UNCHANGED <<request, jobVars, runPid, providerVars, webhookVars>>

MarkThrows(r) ==
  /\ "db" \in Faults
  /\ run[r] = "mark"
  /\ Goto(r, "throw")
  /\ UNCHANGED <<rowVars, request, jobVars, runPid, providerVars, webhookVars>>

-----------------------------------------------------------------------------
(* The provider and its status webhooks.                                   *)

\* A provider reports each state of a message at most once, and does not
\* report both a failure and a delivery.
ProviderReports(p, s) ==
  /\ accepted[p] # NoMessage
  /\ s \notin reported[p]
  /\ s = "FAILED" => reported[p] \subseteq {"SENT"}
  /\ s \in {"DELIVERED", "READ"} => "FAILED" \notin reported[p]
  /\ reported' = [reported EXCEPT ![p] = @ \cup {s}]
  /\ update' = [update EXCEPT ![<<p, s>>] = "pending"]
  /\ UNCHANGED <<rowVars, request, jobVars, runVars, accepted, seen>>

StatusRank(status) ==
  CASE status = "QUEUED" -> 0
    [] status \in {"SENDING", "FAILED"} -> 1
    [] status = "SENT" -> 2
    [] status = "DELIVERED" -> 3
    [] status = "READ" -> 4
    [] OTHER -> -1

ShouldApplyStatusTransition(current, incoming) ==
  IF incoming = "FAILED"
    THEN current \notin {"FAILED", "DELIVERED", "READ"}
    ELSE current # "READ" /\ StatusRank(incoming) > StatusRank(current)

\* findFirst by provider message id, and the decision; no row lock is taken.
\* providerMessageId is unique and only a run that holds p's send result
\* writes it, so the row found, if any, is accepted[p].
ReadForStatusUpdate(p, s) ==
  /\ update[<<p, s>>] = "pending"
  /\ LET m == accepted[p] IN
       IF /\ providerMessageId[m] = p
          /\ ShouldApplyStatusTransition(deliveryStatus[m], s)
         THEN /\ update' = [update EXCEPT ![<<p, s>>] = "decided"]
              /\ seen' = [seen EXCEPT ![<<p, s>>] = stamps[m]]
         ELSE /\ update' = [update EXCEPT ![<<p, s>>] = "dropped"]
              /\ UNCHANGED seen
  /\ UNCHANGED <<rowVars, request, jobVars, runVars, providerVars>>

\* The timestamps a status implies; those already set when read are kept.
ImpliedStamps(status) ==
  CASE status = "SENT" -> {"sentAt"}
    [] status = "DELIVERED" -> {"sentAt", "deliveredAt"}
    [] status = "READ" -> {"sentAt", "deliveredAt", "readAt"}
    [] OTHER -> {"failedAt"}

StampsAfter(s, current, read) ==
  IF s = "FAILED"
    THEN current \cup {"failedAt"}
    ELSE (current \ {"failedAt"}) \cup (ImpliedStamps(s) \ read)

\* The update by id, whatever the row holds by now; the transaction commits.
WriteStatusUpdate(p, s) ==
  /\ update[<<p, s>>] = "decided"
  /\ LET m == accepted[p] IN
       /\ deliveryStatus' = [deliveryStatus EXCEPT ![m] = s]
       /\ stamps' = [stamps EXCEPT ![m] =
                       StampsAfter(s, @, seen[<<p, s>>])]
  /\ update' = [update EXCEPT ![<<p, s>>] = "applied"]
  /\ UNCHANGED <<providerMessageId, request, jobVars, runVars, providerVars,
                 seen>>

\* The transaction rolls back; the webhook job runs it again, or gives up
\* after its last attempt.
StatusUpdateThrows(p, s) ==
  /\ Faults \cap {"db", "crash"} # {}
  /\ update[<<p, s>>] \in {"pending", "decided"}
  /\ \E phase \in {"pending", "dropped"} :
       update' = [update EXCEPT ![<<p, s>>] = phase]
  /\ UNCHANGED <<rowVars, request, jobVars, runVars, providerVars, seen>>

-----------------------------------------------------------------------------
RequestStep(m) ==
  Enqueue(m) \/ EnqueueThrows(m) \/ CatchEnqueueError(m)

RunStep(r) ==
  \/ Claim(r) \/ Load(r) \/ SendRejected(r) \/ RecordSent(r)
  \/ \E p \in Pids : SendAccepted(r, p)
  \/ MarkMessageAsFailed(r) \/ CompleteJob(r) \/ FailJob(r)

UpdateStep(p, s) == ReadForStatusUpdate(p, s) \/ WriteStatusUpdate(p, s)

Fault ==
  \/ \E m \in Messages : EnqueueAckLost(m) \/ RequestDies(m)
  \/ \E r \in Runs : \/ CrashRun(r) \/ ClaimThrows(r) \/ LoadThrows(r)
                     \/ RecordThrows(r) \/ MarkThrows(r)
                     \/ \E p \in Pids : SendAckLost(r, p)
  \/ \E p \in Pids, s \in Reports : StatusUpdateThrows(p, s)

Next ==
  \/ \E m \in Messages : CreateOutboundMessage(m) \/ RequestStep(m) \/ Stall(m)
  \/ \E r \in Runs, m \in Messages : PickUp(r, m)
  \/ \E r \in Runs : RunStep(r)
  \/ \E p \in Pids, s \in Reports : ProviderReports(p, s) \/ UpdateStep(p, s)
  \/ Fault

Spec == Init /\ [][Next]_vars

\* Nothing is promised of users, of what the provider reports, or of faults.
\* Pickups are bounded by attempts and stalls, so weak fairness of taking some
\* job is enough for each of them to be taken.
Fairness ==
  /\ \A m \in Messages : WF_vars(RequestStep(m))
  /\ \A m \in Messages : WF_vars(lockOwner[m] = NoRun /\ Stall(m))
  /\ WF_vars(\E r \in Runs, m \in Messages : PickUp(r, m))
  /\ \A r \in Runs : WF_vars(RunStep(r))
  /\ \A p \in Pids, s \in Reports : WF_vars(UpdateStep(p, s))

FairSpec == Spec /\ Fairness
-----------------------------------------------------------------------------
(* Properties.                                                             *)

\* Run r has claimed its message and has not written an outcome yet.
InFlight(r) == run[r] \in {"load", "send", "record", "mark"}

\* The timestamp columns agree with the status whoever wrote last: failedAt is
\* set exactly on FAILED rows, and each delivery state has the timestamps of
\* all the states it implies, although the webhook completes them from a
\* snapshot that claims, send results and other webhooks overwrite.
StampsConsistent ==
  \A m \in Messages :
    /\ deliveryStatus[m] = "FAILED" <=> "failedAt" \in stamps[m]
    /\ deliveryStatus[m] \in {"SENT", "DELIVERED", "READ"} =>
         ImpliedStamps(deliveryStatus[m]) \subseteq stamps[m]

\* The status never claims more than the provider said: SENT only when the
\* provider accepted the message, DELIVERED and READ only when it reported
\* that state for a send of this very message.
StatusIsEarned ==
  \A m \in Messages :
    /\ deliveryStatus[m] = "SENT" => \E p \in Pids : accepted[p] = m
    /\ deliveryStatus[m] \in {"DELIVERED", "READ"} =>
         \E p \in Pids : accepted[p] = m /\ deliveryStatus[m] \in reported[p]

\* SENDING works as a lease: with stalled jobs, retries and crashes, two runs
\* never both stand between the claim and the outcome of one message.
LeaseExclusive ==
  \A r, q \in Runs :
    InFlight(r) /\ InFlight(q) /\ runMessage[r] = runMessage[q] => r = q

\* A message that the provider accepted, and has not reported as failed, is
\* not handed to the provider a second time.
NoDuplicateDelivery ==
  \A p, q \in Pids :
    /\ p # q /\ accepted[p] = accepted[q] /\ accepted[p] # NoMessage
    => "FAILED" \in reported[p] \cup reported[q]

\* What the row and the provider's books say of a message, told as in
\* MessageLifecycle.
Told(m) ==
  CASE deliveryStatus[m] = "NONE" -> "none"
    [] deliveryStatus[m] \in {"QUEUED", "SENDING"} -> "waiting"
    [] deliveryStatus[m] = "FAILED" -> "failed"
    [] OTHER -> "sent"

AtProvider(m) ==
  LET pids == {p \in Pids : accepted[p] = m} IN
    IF pids = {} THEN "nothing"
    ELSE IF \A p \in pids : "FAILED" \in reported[p] THEN "refused"
    ELSE "has"

Lifecycle ==
  INSTANCE MessageLifecycle WITH
    told <- [m \in Messages |-> Told(m)],
    provider <- [m \in Messages |-> AtProvider(m)]

\* Queue, runs, retries and webhooks together implement MessageLifecycle: a
\* message the provider has is neither called failed nor sent again, one it never
\* had is never called sent, and none waits for its outcome for ever.
ImplementsLifecycle == Lifecycle!Spec
=============================================================================
