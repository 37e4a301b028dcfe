---------------------------- MODULE EventsFanout ----------------------------
(***************************************************************************)
(* Realtime events of one organization: EventsService in each API process,  *)
(* RedisPubSubEventsTransport, and the organization's Redis channel.        *)
(*                                                                         *)
(* A process is single-threaded, so what runs between two awaits is one     *)
(* action.  Commands of the subscriber connection are answered in the order *)
(* they were sent; a command may be answered with an error.  The answer and *)
(* the promise callbacks it triggers are one action.  ioredis opens a lost   *)
(* connection again, resubscribes it and resends what was not answered.     *)
(***************************************************************************)
EXTENDS Naturals, Sequences, FiniteSets

CONSTANTS
  Processes,
  Listeners,      \* connections of GET /events/stream, each of them one
  Events,
  Nowhere,
  MaxFailures     \* bound: how many failures of each kind there are

FaultKinds ==
  {"current",      \* Redis refuses a subscription that is still wanted,
   "stale",        \* one that is no longer wanted,
   "unsubscribe",
   "publish",
   "resend",       \* the answer to a PUBLISH is lost with the connection
   "connection"}   \* a subscriber connection is lost

ASSUME FanoutAssumption ==
  /\ Nowhere \notin Processes
  /\ IsFiniteSet(Listeners) /\ MaxFailures \in [FaultKinds -> Nat]

VARIABLES
  at,         \* the process each listener is connected to
  closed,     \* the connections that have ended
  down,       \* the processes that have ended
  status,     \* transportStates[org].status, "none" without an entry
  generation, \* transportGenerations[org]
  retry,      \* whether its retryTimeout is running
  handler,    \* whether the transport has a handler for the organization
  orphaned,   \* ghost: processes whose handler a stale failure has deleted
  commands,   \* unanswered commands of the subscriber connection
  channel,    \* whether Redis has the connection subscribed
  failures,   \* failures so far, by kind
  emitter,    \* the process that emitted each event, sourceId
  publishing, \* events whose PUBLISH has not reached Redis
  arriving,   \* events on their way from Redis to each process
  received,   \* how often each listener was sent each event
  dropped,    \* ghost: events whose PUBLISH was refused,
  resent      \* and those whose PUBLISH ioredis sent again

fanoutVars == <<status, generation, retry, handler, orphaned, commands>>
redisVars == <<channel, failures>>
eventVars == <<emitter, publishing, arriving, received, dropped, resent>>
listenerVars == <<at, closed, down>>
vars == <<listenerVars, fanoutVars, redisVars, eventVars>>

\* A process creates a transport state when a first listener comes.
Generations == 0 .. Cardinality(Listeners)

Commands ==
  [cmd : {"subscribe"}, generation : Generations]
    \cup [cmd : {"unsubscribe", "resubscribe"}]

TypeOK ==
  /\ at \in [Listeners -> Processes \cup {Nowhere}]
  /\ closed \subseteq Listeners /\ down \subseteq Processes
  /\ status \in [Processes -> {"none", "idle", "subscribing", "subscribed"}]
  /\ generation \in [Processes -> Generations]
  /\ retry \in [Processes -> BOOLEAN]
  /\ handler \in [Processes -> BOOLEAN]
  /\ orphaned \subseteq Processes
  /\ commands \in [Processes -> Seq(Commands)]
  /\ channel \in [Processes -> BOOLEAN]
  /\ failures \in [FaultKinds -> Nat]
  /\ emitter \in [Events -> Processes \cup {Nowhere}]
  /\ publishing \subseteq Events
  /\ arriving \in [Processes -> Seq(Events)]
  /\ received \in [Listeners -> [Events -> Nat]]
  /\ dropped \subseteq Events /\ resent \subseteq Events

Init ==
  /\ at = [l \in Listeners |-> Nowhere]
  /\ closed = {} /\ down = {}
  /\ status = [p \in Processes |-> "none"]
  /\ generation = [p \in Processes |-> 0]
  /\ retry = [p \in Processes |-> FALSE]
  /\ handler = [p \in Processes |-> FALSE]
  /\ orphaned = {}
  /\ commands = [p \in Processes |-> <<>>]
  /\ channel = [p \in Processes |-> FALSE]
  /\ failures = [kind \in FaultKinds |-> 0]
  /\ emitter = [e \in Events |-> Nowhere]
  /\ publishing = {}
  /\ arriving = [p \in Processes |-> <<>>]
  /\ received = [l \in Listeners |-> [e \in Events |-> 0]]
  /\ dropped = {} /\ resent = {}

\* The observers of the organization's subject; their number is its refCount.
ListenersAt(p) == {l \in Listeners : at[l] = p}

-----------------------------------------------------------------------------
(* Subscription.                                                           *)

Send(p, command) == commands' = [commands EXCEPT ![p] = Append(@, command)]

\* transport.subscribe for generation g: only the first handler sends a
\* command, and a later one is subscribed at once.
Subscribe(p, g) ==
  /\ handler' = [handler EXCEPT ![p] = TRUE]
  /\ IF handler[p]
       THEN /\ status' = [status EXCEPT ![p] = "subscribed"]
            /\ UNCHANGED <<orphaned, commands>>
       ELSE /\ status' = [status EXCEPT ![p] = "subscribing"]
            /\ orphaned' = orphaned \ {p}
            /\ Send(p, [cmd |-> "subscribe", generation |-> g])

\* Mutation: the handler outlives its channel.
UnsubscribeKeepingHandler(p) ==
  /\ IF handler[p] THEN Send(p, [cmd |-> "unsubscribe"]) ELSE UNCHANGED commands
  /\ UNCHANGED handler

\* transport.unsubscribe.
Unsubscribe(p) ==
  /\ handler' = [handler EXCEPT ![p] = FALSE]
  /\ IF handler[p] THEN Send(p, [cmd |-> "unsubscribe"]) ELSE UNCHANGED commands

\* subscribe: the first listener of a process creates the subject and
\* subscribes the transport.
Connect(l, p) ==
  /\ at[l] = Nowhere /\ l \notin closed /\ p \notin down
  /\ at' = [at EXCEPT ![l] = p]
  /\ IF ListenersAt(p) = {}
       THEN /\ generation' = [generation EXCEPT ![p] = @ + 1]
            /\ Subscribe(p, generation[p] + 1)
            /\ UNCHANGED retry
       ELSE UNCHANGED fanoutVars
  /\ UNCHANGED <<closed, down, redisVars, eventVars>>

\* teardownTransportSubscription.
TearDown(p) ==
  /\ status' = [status EXCEPT ![p] = "none"]
  /\ retry' = [retry EXCEPT ![p] = FALSE]
  /\ Unsubscribe(p)
  /\ UNCHANGED <<generation, orphaned>>

\* finalize: the last listener takes the subject and the transport with it.
Disconnect(l) ==
  /\ at[l] # Nowhere
  /\ at' = [at EXCEPT ![l] = Nowhere]
  /\ closed' = closed \cup {l}
  /\ IF ListenersAt(at[l]) = {l} THEN TearDown(at[l]) ELSE UNCHANGED fanoutVars
  /\ UNCHANGED <<down, redisVars, eventVars>>

\* The answer to a subscription is about the entry there is now.
Current(p, g) == status[p] # "none" /\ generation[p] = g

Answered(p) ==
  commands[p] # <<>> /\ commands' = [commands EXCEPT ![p] = Tail(@)]

\* Without an entry the code would unsubscribe, but its handler is gone then
\* and transport.unsubscribe returns at once.
Subscribed(p) ==
  LET c == Head(commands[p]) IN
    /\ Answered(p)
    /\ c.cmd = "subscribe"
    /\ channel' = [channel EXCEPT ![p] = TRUE]
    /\ status' = [status EXCEPT ![p] =
                    IF Current(p, c.generation) THEN "subscribed" ELSE @]
    /\ UNCHANGED <<listenerVars, generation, retry, handler, orphaned, failures,
                   eventVars>>

Unsubscribed(p) ==
  /\ Answered(p)
  /\ Head(commands[p]).cmd = "unsubscribe"
  /\ channel' = [channel EXCEPT ![p] = FALSE]
  /\ UNCHANGED <<listenerVars, status, generation, retry, handler, orphaned,
                 failures, eventVars>>

\* No promise of the process awaits this answer.
Resubscribed(p) ==
  /\ Answered(p)
  /\ Head(commands[p]).cmd = "resubscribe"
  /\ channel' = [channel EXCEPT ![p] = TRUE]
  /\ UNCHANGED <<listenerVars, status, generation, retry, handler, orphaned,
                 failures, eventVars>>

Fault(kind) ==
  /\ failures[kind] < MaxFailures[kind]
  /\ failures' = [failures EXCEPT ![kind] = @ + 1]

\* Mutation: scheduleTransportSubscriptionRetry is not called.
SubscribeFailsForGood(p) ==
  /\ Answered(p)
  /\ Head(commands[p]).cmd = "subscribe"
  /\ Current(p, Head(commands[p]).generation) /\ Fault("current")
  /\ handler' = [handler EXCEPT ![p] = FALSE]
  /\ status' = [status EXCEPT ![p] = "idle"]
  /\ UNCHANGED <<listenerVars, generation, retry, orphaned, channel, eventVars>>

\* The transport's catch block deletes the handler, whoever set it; the
\* service's retries unless the failure is stale.
SubscribeFails(p) ==
  LET current == Current(p, Head(commands[p]).generation) IN
    /\ Answered(p)
    /\ Head(commands[p]).cmd = "subscribe"
    /\ Fault(IF current THEN "current" ELSE "stale")
    /\ handler' = [handler EXCEPT ![p] = FALSE]
    /\ status' = [status EXCEPT ![p] = IF current THEN "idle" ELSE @]
    /\ retry' = [retry EXCEPT ![p] = current \/ @]
    /\ orphaned' = IF handler[p] /\ ~current THEN orphaned \cup {p} ELSE orphaned
    /\ UNCHANGED <<listenerVars, generation, channel, eventVars>>

UnsubscribeFails(p) ==
  /\ Answered(p)
  /\ Head(commands[p]).cmd = "unsubscribe"
  /\ Fault("unsubscribe")
  /\ UNCHANGED <<listenerVars, status, generation, retry, handler, orphaned,
                 channel, eventVars>>

\* The subscriber loses its connection and what was on its way over it; the
\* next one starts with the channel it had, then come the unanswered commands.
\* The process is told nothing, and keeps its status.
LoseConnection(p) ==
  /\ channel[p] \/ commands[p] # <<>>
  /\ Fault("connection")
  /\ channel' = [channel EXCEPT ![p] = FALSE]
  /\ commands' = [commands EXCEPT ![p] =
                    IF channel[p] THEN <<[cmd |-> "resubscribe"]>> \o @ ELSE @]
  /\ arriving' = [arriving EXCEPT ![p] = <<>>]
  /\ UNCHANGED <<listenerVars, status, generation, retry, handler, orphaned,
                 emitter, publishing, received, dropped, resent>>

\* Mutation: a retry starts a new generation.
RetryAsNewGeneration(p) ==
  /\ retry[p]
  /\ retry' = [retry EXCEPT ![p] = FALSE]
  /\ generation' = [generation EXCEPT ![p] = @ + 1]
  /\ IF status[p] = "idle"
       THEN Subscribe(p, generation[p] + 1)
       ELSE UNCHANGED <<status, handler, orphaned, commands>>
  /\ UNCHANGED <<listenerVars, redisVars, eventVars>>

\* The timer's callback; without an entry it does nothing.
Retry(p) ==
  /\ retry[p]
  /\ retry' = [retry EXCEPT ![p] = FALSE]
  /\ IF status[p] = "idle"
       THEN Subscribe(p, generation[p])
       ELSE UNCHANGED <<status, handler, orphaned, commands>>
  /\ UNCHANGED <<listenerVars, generation, redisVars, eventVars>>

-----------------------------------------------------------------------------
(* Events.                                                                 *)

\* publishLocally.
PublishLocally(p, e) ==
  received' = [l \in Listeners |->
    IF at[l] = p THEN [received[l] EXCEPT ![e] = @ + 1] ELSE received[l]]

Emit(p, e) ==
  /\ emitter[e] = Nowhere /\ p \notin down
  /\ emitter' = [emitter EXCEPT ![e] = p]
  /\ PublishLocally(p, e)
  /\ publishing' = publishing \cup {e}
  /\ UNCHANGED <<listenerVars, fanoutVars, redisVars, arriving, dropped, resent>>

\* PUBLISH: Redis passes the event to the connections subscribed by then.
PassOn(e) ==
  arriving' = [p \in Processes |->
    IF channel[p] THEN Append(arriving[p], e) ELSE arriving[p]]

Publish(e) ==
  /\ e \in publishing
  /\ publishing' = publishing \ {e}
  /\ PassOn(e)
  /\ UNCHANGED <<listenerVars, fanoutVars, redisVars, emitter, received, dropped,
                 resent>>

\* Redis has passed it on, but the publisher's connection is lost before the
\* answer: ioredis sends the command again.
PublishUnanswered(e) ==
  /\ e \in publishing
  /\ Fault("resend")
  /\ PassOn(e)
  /\ resent' = resent \cup {e}
  /\ UNCHANGED <<listenerVars, fanoutVars, channel, emitter, publishing, received,
                 dropped>>

\* The catch of emit logs it: the event is lost to the other processes.
PublishFails(e) ==
  /\ e \in publishing
  /\ Fault("publish")
  /\ publishing' = publishing \ {e}
  /\ dropped' = dropped \cup {e}
  /\ UNCHANGED <<listenerVars, fanoutVars, channel, emitter, arriving, received,
                 resent>>

\* Mutation: the emitter does not recognize its own event.
ReceiveAny(p) ==
  /\ arriving[p] # <<>>
  /\ arriving' = [arriving EXCEPT ![p] = Tail(@)]
  /\ IF handler[p] THEN PublishLocally(p, Head(arriving[p]))
                   ELSE UNCHANGED received
  /\ UNCHANGED <<listenerVars, fanoutVars, redisVars, emitter, publishing, dropped,
                 resent>>

\* Mutation: the test of the source is inverted.
ReceiveOwn(p) ==
  /\ arriving[p] # <<>>
  /\ arriving' = [arriving EXCEPT ![p] = Tail(@)]
  /\ IF handler[p] /\ emitter[Head(arriving[p])] = p
       THEN PublishLocally(p, Head(arriving[p]))
       ELSE UNCHANGED received
  /\ UNCHANGED <<listenerVars, fanoutVars, redisVars, emitter, publishing, dropped,
                 resent>>

\* handleMessage.
Receive(p) ==
  /\ arriving[p] # <<>>
  /\ arriving' = [arriving EXCEPT ![p] = Tail(@)]
  /\ IF handler[p] /\ emitter[Head(arriving[p])] # p
       THEN PublishLocally(p, Head(arriving[p]))
       ELSE UNCHANGED received
  /\ UNCHANGED <<listenerVars, fanoutVars, redisVars, emitter, publishing, dropped,
                 resent>>

\* onModuleDestroy, or a crash: the connections end, Redis drops the
\* subscription, and what had not been published yet may be lost.
Stop(p) ==
  /\ p \notin down
  /\ down' = down \cup {p}
  /\ closed' = closed \cup ListenersAt(p)
  /\ at' = [l \in Listeners |-> IF at[l] = p THEN Nowhere ELSE at[l]]
  /\ status' = [status EXCEPT ![p] = "none"]
  /\ retry' = [retry EXCEPT ![p] = FALSE]
  /\ handler' = [handler EXCEPT ![p] = FALSE]
  /\ orphaned' = orphaned \ {p}
  /\ commands' = [commands EXCEPT ![p] = <<>>]
  /\ channel' = [channel EXCEPT ![p] = FALSE]
  /\ arriving' = [arriving EXCEPT ![p] = <<>>]
  /\ \E lost \in SUBSET {e \in publishing : emitter[e] = p} :
       publishing' = publishing \ lost
  /\ UNCHANGED <<generation, failures, emitter, received, dropped, resent>>

-----------------------------------------------------------------------------
Answer(p) ==
  \/ Subscribed(p) \/ Unsubscribed(p) \/ Resubscribed(p)
  \/ SubscribeFails(p) \/ UnsubscribeFails(p)

Next ==
  \/ \E l \in Listeners, p \in Processes : Connect(l, p)
  \/ \E l \in Listeners : Disconnect(l)
  \/ \E p \in Processes :
       Answer(p) \/ LoseConnection(p) \/ Retry(p) \/ Receive(p) \/ Stop(p)
  \/ \E p \in Processes, e \in Events : Emit(p, e)
  \/ \E e \in Events : Publish(e) \/ PublishUnanswered(e) \/ PublishFails(e)

Spec == Init /\ [][Next]_vars

\* Redis answers, timers fire and messages arrive.
Fairness ==
  /\ \A p \in Processes : WF_vars(Answer(p)) /\ WF_vars(Retry(p))
                          /\ WF_vars(Receive(p))
  /\ \A e \in Events : WF_vars(Publish(e))

FairSpec == Spec /\ Fairness

-----------------------------------------------------------------------------
(* Properties.                                                             *)

\* No listener is sent an event twice, by its own process and by Redis, or by
\* Redis after a re-subscription, but for an event that was published twice.
HeardOnce ==
  \A l \in Listeners, e \in Events : received[l][e] <= 1 \/ e \in resent

\* A process that counts on its subscription hears the other processes: the
\* handler is set, and Redis has it subscribed once what was sent is answered.  Only
\* the failure of an earlier subscription takes the handler from it.
SubscribedHears ==
  \A p \in Processes :
    status[p] = "subscribed" =>
      p \in orphaned \/ (handler[p] /\ (commands[p] = <<>> => channel[p]))

\* The failure of a subscription nobody waits for leaves the one that was made
\* after it alone: events.service.spec.ts:222, "should ignore stale subscribe
\* failures after a disconnect and reconnect".
StaleFailuresAreIgnored ==
  \A p \in Processes :
    status[p] = "subscribed" /\ commands[p] = <<>> => handler[p]

\* An event of another process reaches every listener of a process that is
\* subscribed, unless the listener leaves or the emitter ends first, Redis
\* refuses the event, or the subscriber loses its connection meanwhile, and whatever
\* other listeners, processes and subscriptions come and go.
SubscribedIsReached ==
  \A l \in Listeners, p \in Processes, e \in Events :
    ( /\ at[l] = p /\ status[p] = "subscribed" /\ p \notin orphaned
      /\ commands[p] = <<>> /\ e \in publishing /\ emitter[e] # p )
      ~> \/ received[l][e] > 0
         \/ at[l] # p \/ emitter[e] \in down \/ e \in dropped \/ ~channel[p]

\* Subscriptions settle with the listeners.  While some stay connected to a process
\* it ends up subscribed, whatever was unanswered when the first of them came, and
\* although subscriptions fail and connections are lost, unless the failure of
\* an earlier subscription took its handler; when the last has left for good,
\* nothing is left but a channel that Redis refused to give up, or that a process
\* did not give up because a failure had taken its handler.
SubscriptionsFollowListeners ==
  \A p \in Processes :
    /\ <>[](ListenersAt(p) # {}) =>
         <>[](handler[p] /\ channel[p]) \/ <>[](p \in orphaned)
    /\ <>[](ListenersAt(p) = {}) =>
         <>[](/\ status[p] = "none" /\ ~handler[p] /\ ~retry[p]
              /\ channel[p] => failures["unsubscribe"] > 0 \/ failures["stale"] > 0)
=============================================================================
