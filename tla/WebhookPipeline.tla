--------------------------- MODULE WebhookPipeline ----------------------------
(***************************************************************************)
(* Inbound webhooks: WebhooksService.handle*Webhook stores a raw event and  *)
(* enqueues it, the BullMQ queue "raw-webhook-events" runs                  *)
(* WebhooksWorkerService.processRawEvent, which stores the message and the  *)
(* conversation in one transaction and then emits the realtime event.       *)
(*                                                                         *)
(* PostgreSQL runs the transactions at READ COMMITTED: a read sees what is  *)
(* committed, an insert of a key another transaction has inserted and not   *)
(* committed waits for it, and after an error every later statement of the  *)
(* transaction fails until it is rolled back.                               *)
(***************************************************************************)
EXTENDS BullQueue

CONSTANTS
  Payloads,       \* webhook bodies the provider may send
  Keys, NoKey,    \* dedupe keys: RawWebhookEvent.providerMessageId
  Texts, NoText,  \* ids of inbound text messages: Message.providerMessageId
  Threads,        \* externalThreadId of conversations
  RawKey,         \* the dedupe key extracted from each payload
  TextOf,         \* the text message extracted from each payload, or NoText
  HasStatuses,    \* whether status updates are extracted from each payload
  ThreadOf,       \* the thread of each text message
  NoPayload,
  Posts,          \* request slots of the webhook endpoint
  MaxDeliveries,  \* bound: how often the provider sends one payload
  Faults

FaultKinds ==
  { "postCrash",   \* the process dies, or the database fails, in a request
    "enqueueAck",  \* queue.add reaches Redis and its answer is lost
    "httpAck",     \* the provider does not see the answer
    "crash",       \* the process dies in a run
    "stall",       \* a live run loses its job lock
    "db" }         \* a statement of a run fails, or its answer is lost

ASSUME PayloadAssumption ==
  /\ RawKey \in [Payloads -> Keys]
  /\ TextOf \in [Payloads -> Texts \cup {NoText}]
  /\ HasStatuses \in [Payloads -> BOOLEAN]
  /\ ThreadOf \in [Texts -> Threads]
  /\ NoKey \notin Keys /\ NoText \notin Texts /\ NoPayload \notin Payloads
  /\ MaxDeliveries \in Nat /\ Faults \subseteq FaultKinds

VARIABLES
  raw,            \* RawWebhookEvent.processingStatus by key, or "none"
  rawPayload,     \* RawWebhookEvent.payload: the payload that created the row
  messages,       \* committed inbound messages
  conversations,  \* committed conversations
  emitted,        \* how often message.created was emitted for each text
  post, postPayload,        \* where each request is, and its payload
  deliveries, acknowledged, \* provider: sends per payload, payloads answered
  run, runKey,    \* where each run is, and the raw event it processes
  finalAttempt,   \* the option computed when the run started
  inserted        \* the run's transaction has inserted the conversation

inboxVars == <<messages, conversations, emitted>>
rawVars == <<raw, rawPayload>>
postVars == <<post, postPayload, deliveries, acknowledged>>
runVars == <<run, runKey, finalAttempt, inserted>>
vars == <<rawVars, inboxVars, postVars, jobVars, runVars>>

TypeOK ==
  /\ raw \in [Keys -> {"none", "PENDING", "PROCESSED", "FAILED"}]
  /\ rawPayload \in [Keys -> Payloads \cup {NoPayload}]
  /\ messages \subseteq Texts
  /\ conversations \subseteq Threads
  /\ emitted \in [Texts -> Nat]
  /\ post \in [Posts -> {"idle", "create", "enqueue", "lookup", "answer"}]
  /\ postPayload \in [Posts -> Payloads \cup {NoPayload}]
  /\ deliveries \in [Payloads -> Nat]
  /\ acknowledged \subseteq Payloads
  /\ QueueTypeOK(Keys)
  /\ run \in [Runs -> {"idle", "read", "mark", "find", "create", "message",
                       "commit", "emit", "catch", "return", "throw"}]
  /\ runKey \in [Runs -> Keys \cup {NoKey}]
  /\ finalAttempt \in [Runs -> BOOLEAN]
  /\ inserted \in [Runs -> BOOLEAN]

Init ==
  /\ raw = [k \in Keys |-> "none"]
  /\ rawPayload = [k \in Keys |-> NoPayload]
  /\ messages = {}
  /\ conversations = {}
  /\ emitted = [t \in Texts |-> 0]
  /\ post = [q \in Posts |-> "idle"]
  /\ postPayload = [q \in Posts |-> NoPayload]
  /\ deliveries = [e \in Payloads |-> 0]
  /\ acknowledged = {}
  /\ QueueInit(Keys)
  /\ run = [r \in Runs |-> "idle"]
  /\ runKey = [r \in Runs |-> NoKey]
  /\ finalAttempt = [r \in Runs |-> FALSE]
  /\ inserted = [r \in Runs |-> FALSE]

-----------------------------------------------------------------------------
(* The webhook request, after the signature check and the mapping of the    *)
(* account to an organization.                                              *)

PostKey(q) == RawKey[postPayload[q]]

PostGoto(q, place) ==
  /\ post' = [post EXCEPT ![q] = place]
  /\ UNCHANGED <<postPayload, deliveries, acknowledged>>

EndPost(q) ==
  /\ post' = [post EXCEPT ![q] = "idle"]
  /\ postPayload' = [postPayload EXCEPT ![q] = NoPayload]
  /\ UNCHANGED deliveries

\* The provider sends a payload, again and again until it sees a 200.
Deliver(q, e) ==
  /\ post[q] = "idle"
  /\ e \notin acknowledged
  /\ deliveries[e] < MaxDeliveries
  /\ deliveries' = [deliveries EXCEPT ![e] = @ + 1]
  /\ post' = [post EXCEPT ![q] = "create"]
  /\ postPayload' = [postPayload EXCEPT ![q] = e]
  /\ UNCHANGED <<rawVars, inboxVars, acknowledged, jobVars, runVars>>

\* create: the unique key (provider, providerMessageId) admits one row.
CreateRawEvent(q) ==
  /\ post[q] = "create"
  /\ IF raw[PostKey(q)] = "none"
       THEN /\ raw' = [raw EXCEPT ![PostKey(q)] = "PENDING"]
            /\ rawPayload' = [rawPayload EXCEPT ![PostKey(q)] = postPayload[q]]
            /\ PostGoto(q, "enqueue")
       ELSE /\ UNCHANGED rawVars
            /\ PostGoto(q, "lookup")
  /\ UNCHANGED <<inboxVars, jobVars, runVars>>

\* Mutation: a duplicate is answered without looking at its row.
AnswerDuplicate(q) ==
  /\ post[q] = "lookup"
  /\ PostGoto(q, "answer")
  /\ UNCHANGED <<rawVars, inboxVars, jobVars, runVars>>

\* reenqueueIfPendingDuplicate, up to its enqueue.
LookUpDuplicate(q) ==
  /\ post[q] = "lookup"
  /\ PostGoto(q, IF raw[PostKey(q)] = "PENDING" THEN "enqueue" ELSE "answer")
  /\ UNCHANGED <<rawVars, inboxVars, jobVars, runVars>>

EnqueueRawEvent(q) ==
  /\ post[q] = "enqueue"
  /\ AddJob(PostKey(q))
  /\ PostGoto(q, "answer")
  /\ UNCHANGED <<rawVars, inboxVars, runVars>>

\* queue.add throws: the provider sees a 500.
EnqueueThrows(q) ==
  /\ post[q] = "enqueue"
  /\ EndPost(q)
  /\ UNCHANGED <<rawVars, inboxVars, acknowledged, jobVars, runVars>>

EnqueueAckLost(q) ==
  /\ "enqueueAck" \in Faults
  /\ post[q] = "enqueue"
  /\ AddJob(PostKey(q))
  /\ EndPost(q)
  /\ UNCHANGED <<rawVars, inboxVars, acknowledged, runVars>>

Acknowledge(q) ==
  /\ post[q] = "answer"
  /\ acknowledged' = acknowledged \cup {postPayload[q]}
  /\ EndPost(q)
  /\ UNCHANGED <<rawVars, inboxVars, jobVars, runVars>>

PostDies(q) ==
  /\ \/ "postCrash" \in Faults /\ post[q] # "idle"
     \/ "httpAck" \in Faults /\ post[q] = "answer"
  /\ EndPost(q)
  /\ UNCHANGED <<rawVars, inboxVars, acknowledged, jobVars, runVars>>

-----------------------------------------------------------------------------
(* The queue; the job of a raw event is named after it.                     *)

Goto(r, place) ==
  /\ run' = [run EXCEPT ![r] = place]
  /\ UNCHANGED <<runKey, finalAttempt, inserted>>

\* Ends the run's transaction, if it has one: what it inserted is committed
\* by the action that says so, or gone.
EndTransaction(r, place) ==
  /\ run' = [run EXCEPT ![r] = place]
  /\ inserted' = [inserted EXCEPT ![r] = FALSE]
  /\ UNCHANGED <<runKey, finalAttempt>>

Release(r) ==
  /\ run' = [run EXCEPT ![r] = "idle"]
  /\ runKey' = [runKey EXCEPT ![r] = NoKey]
  /\ finalAttempt' = [finalAttempt EXCEPT ![r] = FALSE]
  /\ inserted' = [inserted EXCEPT ![r] = FALSE]

\* Mutation: the attempt before the last one is taken for the last.
PickUpOffByOne(r, k) ==
  /\ run[r] = "idle"
  /\ TakeJob(r, k)
  /\ run' = [run EXCEPT ![r] = "read"]
  /\ runKey' = [runKey EXCEPT ![r] = k]
  /\ finalAttempt' =
       [finalAttempt EXCEPT ![r] = attemptsMade[k] + 2 >= MaxAttempts]
  /\ UNCHANGED <<rawVars, inboxVars, postVars, inserted>>

PickUp(r, k) ==
  /\ run[r] = "idle"
  /\ TakeJob(r, k)
  /\ run' = [run EXCEPT ![r] = "read"]
  /\ runKey' = [runKey EXCEPT ![r] = k]
  /\ finalAttempt' =
       [finalAttempt EXCEPT ![r] = attemptsMade[k] + 1 >= MaxAttempts]
  /\ UNCHANGED <<rawVars, inboxVars, postVars, inserted>>

CompleteJob(r) ==
  /\ run[r] = "return"
  /\ FinishJob(r, runKey[r])
  /\ Release(r)
  /\ UNCHANGED <<rawVars, inboxVars, postVars>>

FailJob(r) ==
  /\ run[r] = "throw"
  /\ RetryJob(r, runKey[r])
  /\ Release(r)
  /\ UNCHANGED <<rawVars, inboxVars, postVars>>

Stall(k) ==
  /\ lockOwner[k] = NoRun \/ "stall" \in Faults
  /\ RequeueStalled(k)
  /\ UNCHANGED <<rawVars, inboxVars, postVars, runVars>>

\* PostgreSQL rolls back the transaction of a connection that is gone.
CrashRun(r) ==
  /\ "crash" \in Faults
  /\ run[r] # "idle"
  /\ AbandonJob(r, runKey[r])
  /\ Release(r)
  /\ UNCHANGED <<rawVars, inboxVars, postVars>>

-----------------------------------------------------------------------------
(* processRawEvent.                                                        *)

Payload(r) == rawPayload[runKey[r]]
Text(r) == TextOf[Payload(r)]
Thread(r) == ThreadOf[Text(r)]
HasText(r) == Text(r) # NoText

\* findUnique, and what the payload normalizes to.
ReadRawEvent(r) ==
  /\ run[r] = "read"
  /\ \/ raw[runKey[r]] # "PENDING" /\ Goto(r, "return")
     \/ raw[runKey[r]] = "PENDING" /\ HasText(r) /\ Goto(r, "find")
     \/ /\ raw[runKey[r]] = "PENDING" /\ ~HasText(r)
        /\ Goto(r, IF HasStatuses[Payload(r)] THEN "commit" ELSE "mark")
  /\ UNCHANGED <<rawVars, inboxVars, postVars, jobVars>>

SetRaw(r, status) ==
  /\ raw' = [raw EXCEPT ![runKey[r]] = status]
  /\ UNCHANGED rawPayload

MarkProcessed(r) ==
  /\ run[r] = "mark"
  /\ SetRaw(r, "PROCESSED")
  /\ Goto(r, "return")
  /\ UNCHANGED <<inboxVars, postVars, jobVars>>

\* getOrCreateConversation: findFirst.
FindConversation(r) ==
  /\ run[r] = "find"
  /\ Goto(r, IF Thread(r) \in conversations THEN "message" ELSE "create")
  /\ UNCHANGED <<rawVars, inboxVars, postVars, jobVars>>

\* getOrCreateConversation: create.  The unique violation is caught, but the
\* findFirst of the catch block runs in the aborted transaction and throws.
CreateConversation(r) ==
  /\ run[r] = "create"
  /\ \A other \in Runs \ {r} : inserted[other] => Thread(other) # Thread(r)
  /\ IF Thread(r) \in conversations
       THEN EndTransaction(r, "catch")
       ELSE /\ run' = [run EXCEPT ![r] = "message"]
            /\ inserted' = [inserted EXCEPT ![r] = TRUE]
            /\ UNCHANGED <<runKey, finalAttempt>>
  /\ UNCHANGED <<rawVars, inboxVars, postVars, jobVars>>

\* Mutation: no unique key on Message.providerMessageId.
CreateMessageAgain(r) ==
  /\ run[r] = "message"
  /\ Goto(r, "commit")
  /\ UNCHANGED <<rawVars, inboxVars, postVars, jobVars>>

\* message.create.  The unique violation is caught and persistInboundMessage
\* returns null, but the transaction is aborted: its next statement throws.
CreateMessage(r) ==
  /\ run[r] = "message"
  /\ \A other \in Runs \ {r} : run[other] = "commit" => Text(other) # Text(r)
  /\ IF Text(r) \in messages
       THEN EndTransaction(r, "catch")
       ELSE Goto(r, "commit")
  /\ UNCHANGED <<rawVars, inboxVars, postVars, jobVars>>

\* Mutation: the message is stored without the provider's id.
CommitWithoutId(r) ==
  /\ SetRaw(r, "PROCESSED")
  /\ messages' = messages \cup {NoText}
  /\ conversations' =
       conversations \cup (IF inserted[r] THEN {Thread(r)} ELSE {})
  /\ UNCHANGED emitted

\* The conversation update, the status updates, PROCESSED, and the commit.
CommitWrites(r) ==
  /\ SetRaw(r, "PROCESSED")
  /\ messages' = messages \cup ({Text(r)} \ {NoText})
  /\ conversations' =
       conversations \cup (IF inserted[r] THEN {Thread(r)} ELSE {})
  /\ UNCHANGED emitted

Commit(r) ==
  /\ run[r] = "commit"
  /\ CommitWrites(r)
  /\ EndTransaction(r, IF HasText(r) THEN "emit" ELSE "return")
  /\ UNCHANGED <<postVars, jobVars>>

Emit(r) ==
  /\ run[r] = "emit"
  /\ emitted' = [emitted EXCEPT ![Text(r)] = @ + 1]
  /\ Goto(r, "return")
  /\ UNCHANGED <<rawVars, messages, conversations, postVars, jobVars>>

\* Mutation: an event that keeps failing is ticked off as processed.
CatchErrorAsProcessed(r) ==
  /\ run[r] = "catch"
  /\ IF finalAttempt[r] THEN SetRaw(r, "PROCESSED") ELSE UNCHANGED rawVars
  /\ Goto(r, "throw")
  /\ UNCHANGED <<inboxVars, postVars, jobVars>>

\* The catch block: the last attempt gives the raw event up, whatever its
\* row holds by now; every attempt rethrows.
CatchError(r) ==
  /\ run[r] = "catch"
  /\ IF finalAttempt[r] THEN SetRaw(r, "FAILED") ELSE UNCHANGED rawVars
  /\ Goto(r, "throw")
  /\ UNCHANGED <<inboxVars, postVars, jobVars>>

\* A failing statement: the first read and markRawEventAsFailed stand outside
\* the try block.
StatementThrows(r) ==
  /\ "db" \in Faults
  /\ \/ run[r] \in {"read", "catch"} /\ EndTransaction(r, "throw")
     \/ /\ run[r] \in {"mark", "find", "create", "message", "commit"}
        /\ EndTransaction(r, "catch")
  /\ UNCHANGED <<rawVars, inboxVars, postVars, jobVars>>

\* The commit succeeds and its answer is lost: no event is emitted.
CommitAckLost(r) ==
  /\ "db" \in Faults
  /\ run[r] = "commit"
  /\ CommitWrites(r)
  /\ EndTransaction(r, "catch")
  /\ UNCHANGED <<postVars, jobVars>>

-----------------------------------------------------------------------------
PostStep(q) ==
  CreateRawEvent(q) \/ LookUpDuplicate(q) \/ EnqueueRawEvent(q)
    \/ Acknowledge(q)

RunStep(r) ==
  \/ ReadRawEvent(r) \/ MarkProcessed(r) \/ FindConversation(r)
  \/ CreateConversation(r) \/ CreateMessage(r) \/ Commit(r) \/ Emit(r)
  \/ CatchError(r) \/ CompleteJob(r) \/ FailJob(r)

Fault ==
  \/ \E q \in Posts : EnqueueThrows(q) \/ EnqueueAckLost(q) \/ PostDies(q)
  \/ \E r \in Runs : CrashRun(r) \/ StatementThrows(r) \/ CommitAckLost(r)

Next ==
  \/ \E q \in Posts, e \in Payloads : Deliver(q, e)
  \/ \E q \in Posts : PostStep(q)
  \/ \E r \in Runs, k \in Keys : PickUp(r, k)
  \/ \E r \in Runs : RunStep(r)
  \/ \E k \in Keys : Stall(k)
  \/ Fault

Spec == Init /\ [][Next]_vars

\* Nothing is promised of the provider or of faults.  Pickups are bounded by
\* attempts and stalls, so weak fairness of taking some job is enough.
Fairness ==
  /\ \A q \in Posts : WF_vars(PostStep(q))
  /\ WF_vars(\E r \in Runs, k \in Keys : PickUp(r, k))
  /\ \A r \in Runs : WF_vars(RunStep(r))
  /\ \A k \in Keys : WF_vars(lockOwner[k] = NoRun /\ Stall(k))

FairSpec == Spec /\ Fairness

-----------------------------------------------------------------------------
(* Properties.                                                             *)

TextOfKey(k) == IF raw[k] = "none" THEN NoText ELSE TextOf[rawPayload[k]]

\* PROCESSED is only ever written with the message: an event marked so has
\* its text stored, whatever failed, crashed or was retried on the way.
ProcessedIsPersisted ==
  \A k \in Keys :
    raw[k] = "PROCESSED" => TextOfKey(k) \in messages \cup {NoText}

\* Agents are told of a message at most once, and only of a stored one,
\* although its event may be processed several times and by two runs at once.
EmittedOnce ==
  \A t \in Texts : emitted[t] > 0 => emitted[t] = 1 /\ t \in messages

\* A payload the provider will not send again is not lost: as long as its
\* event is PENDING the queue still holds a job that will run, although the
\* row and the job are written apart, and requests race, fail and repeat.
\* It is what the re-enqueue of pending duplicates and the finalAttempt
\* option are for; it needs runs that neither crash nor lose their database.
AcknowledgedIsQueued ==
  \A e \in acknowledged :
    /\ raw[RawKey[e]] # "none"
    /\ raw[RawKey[e]] = "PENDING" => job[RawKey[e]] \in {"waiting", "active"}

\* The text of an acknowledged payload's event is stored and agents are told,
\* also when two events race to create one conversation.
AcknowledgedIsShown ==
  \A k \in Keys :
    (TextOfKey(k) # NoText /\ \E e \in acknowledged : RawKey[e] = k)
      ~> (TextOfKey(k) \in messages /\ emitted[TextOfKey(k)] = 1)

\* An event whose text is already stored ends PROCESSED: a duplicate is a
\* no-op, not a failure (webhooks.worker.service.ts, persistInboundMessage).
DuplicateIsNoOp ==
  \A k \in Keys : raw[k] = "FAILED" => TextOfKey(k) \notin messages
=============================================================================
