-------------------------- MODULE EventsFanoutProofs --------------------------
(* Proofs about EventsFanout, for every choice of its constants.            *)
EXTENDS EventsFanout, FiniteSetTheorems, SequenceTheorems, TLAPS

-----------------------------------------------------------------------------
(* Types and connections.                                                  *)

(* TypeOK in parts: what has generations in it is typed last, because their   *)
(* bound follows from Connections.                                          *)
Subscribers ==
  /\ at \in [Listeners -> Processes \cup {Nowhere}]
  /\ closed \subseteq Listeners /\ down \subseteq Processes
  /\ status \in [Processes -> {"none", "idle", "subscribing", "subscribed"}]
  /\ generation \in [Processes -> Nat]

Flags ==
  /\ retry \in [Processes -> BOOLEAN]
  /\ handler \in [Processes -> BOOLEAN]
  /\ channel \in [Processes -> BOOLEAN]
  /\ orphaned \subseteq Processes

EventTypes ==
  /\ emitter \in [Events -> Processes \cup {Nowhere}]
  /\ publishing \subseteq Events
  /\ arriving \in [Processes -> Seq(Events)]
  /\ received \in [Listeners -> [Events -> Nat]]
  /\ dropped \subseteq Events /\ resent \subseteq Events

(* Who was ever at a process: every one of its generations had a listener of  *)
(* its own.                                                                 *)
Visitors(p) == closed \cup ListenersAt(p)

Connections ==
  /\ \A p \in Processes : generation[p] <= Cardinality(Visitors(p))
  /\ \A l \in closed : at[l] = Nowhere
  /\ \A p \in Processes : ListenersAt(p) = {} <=> status[p] = "none"

LEMMA SubscribersStep ==
  ASSUME Subscribers, [Next]_vars
  PROVE  Subscribers'
<1>1. ASSUME NEW l \in Listeners, NEW p \in Processes, Connect(l, p)
      PROVE  Subscribers'
<2>1. \/ status' = [status EXCEPT ![p] = "subscribed"]
      \/ status' = [status EXCEPT ![p] = "subscribing"]
      \/ status' = status
  BY <1>1 DEF Connect, Subscribe, fanoutVars
<2>2. status' \in [Processes -> {"none", "idle", "subscribing", "subscribed"}]
  BY <2>1 DEF Subscribers
<2>3. generation' \in [Processes -> Nat]
  BY <1>1 DEF Subscribers, Connect, fanoutVars
<2>4. QED
  BY <1>1, <2>2, <2>3 DEF Subscribers, Connect
<1>2. ASSUME NEW l \in Listeners, Disconnect(l)
      PROVE  Subscribers'
  BY <1>2 DEF Subscribers, Disconnect, TearDown, fanoutVars
<1>3. ASSUME NEW p \in Processes, Subscribed(p)
      PROVE  Subscribers'
  BY <1>3 DEF Subscribers, Subscribed, listenerVars
<1>4. ASSUME NEW p \in Processes, Unsubscribed(p)
      PROVE  Subscribers'
  BY <1>4 DEF Subscribers, Unsubscribed, listenerVars
<1>5. ASSUME NEW p \in Processes, SubscribeFails(p)
      PROVE  Subscribers'
  BY <1>5 DEF Subscribers, SubscribeFails, listenerVars
<1>6. ASSUME NEW p \in Processes, UnsubscribeFails(p)
      PROVE  Subscribers'
  BY <1>6 DEF Subscribers, UnsubscribeFails, listenerVars
<1>7. ASSUME NEW p \in Processes, Retry(p)
      PROVE  Subscribers'
  BY <1>7 DEF Subscribers, Retry, Subscribe, listenerVars
<1>8. ASSUME NEW p \in Processes, Receive(p)
      PROVE  Subscribers'
  BY <1>8 DEF Subscribers, Receive, listenerVars, fanoutVars
<1>9. ASSUME NEW p \in Processes, Stop(p)
      PROVE  Subscribers'
  BY <1>9 DEF Subscribers, ListenersAt, Stop
<1>10. ASSUME NEW p \in Processes, NEW e \in Events, Emit(p, e)
      PROVE  Subscribers'
  BY <1>10 DEF Subscribers, Emit, listenerVars, fanoutVars
<1>11. ASSUME NEW e \in Events, Publish(e)
      PROVE  Subscribers'
  BY <1>11 DEF Subscribers, Publish, listenerVars, fanoutVars
<1>12. ASSUME NEW p \in Processes, Resubscribed(p)
       PROVE  Subscribers'
  BY <1>12 DEF Subscribers, Resubscribed, listenerVars
<1>13. ASSUME NEW p \in Processes, LoseConnection(p)
       PROVE  Subscribers'
  BY <1>13 DEF Subscribers, LoseConnection, listenerVars
<1>14. ASSUME NEW e \in Events, PublishUnanswered(e)
       PROVE  Subscribers'
  BY <1>14 DEF Subscribers, PublishUnanswered, listenerVars, fanoutVars
<1>15. ASSUME NEW e \in Events, PublishFails(e)
       PROVE  Subscribers'
  BY <1>15 DEF Subscribers, PublishFails, listenerVars, fanoutVars
<1>16. CASE UNCHANGED vars
  BY <1>16 DEF Subscribers, vars, listenerVars, fanoutVars
<1>17. QED
  BY <1>1, <1>2, <1>3, <1>4, <1>5, <1>6, <1>7, <1>8, <1>9, <1>10, <1>11, <1>12,
     <1>13, <1>14, <1>15, <1>16
     DEF Next, Answer

LEMMA FlagsStep ==
  ASSUME Flags, [Next]_vars
  PROVE  Flags'
<1>1. ASSUME NEW l \in Listeners, NEW p \in Processes, Connect(l, p)
      PROVE  Flags'
  BY <1>1 DEF Flags, Connect, Subscribe, fanoutVars, redisVars
<1>2. ASSUME NEW l \in Listeners, Disconnect(l)
      PROVE  Flags'
  BY <1>2 DEF Flags, Disconnect, TearDown, Unsubscribe, fanoutVars, redisVars
<1>3. ASSUME NEW p \in Processes, Subscribed(p)
      PROVE  Flags'
  BY <1>3 DEF Flags, Subscribed
<1>4. ASSUME NEW p \in Processes, Unsubscribed(p)
      PROVE  Flags'
  BY <1>4 DEF Flags, Unsubscribed
<1>5. ASSUME NEW p \in Processes, SubscribeFails(p)
      PROVE  Flags'
  BY <1>5 DEF Flags, SubscribeFails, listenerVars
<1>6. ASSUME NEW p \in Processes, UnsubscribeFails(p)
      PROVE  Flags'
  BY <1>6 DEF Flags, UnsubscribeFails
<1>7. ASSUME NEW p \in Processes, Retry(p)
      PROVE  Flags'
  BY <1>7 DEF Flags, Retry, Subscribe, redisVars
<1>8. ASSUME NEW p \in Processes, Receive(p)
      PROVE  Flags'
  BY <1>8 DEF Flags, Receive, fanoutVars, redisVars
<1>9. ASSUME NEW p \in Processes, Stop(p)
      PROVE  Flags'
  BY <1>9 DEF Flags, Stop
<1>10. ASSUME NEW p \in Processes, NEW e \in Events, Emit(p, e)
      PROVE  Flags'
  BY <1>10 DEF Flags, Emit, fanoutVars, redisVars
<1>11. ASSUME NEW e \in Events, Publish(e)
      PROVE  Flags'
  BY <1>11 DEF Flags, Publish, fanoutVars, redisVars
<1>12. ASSUME NEW p \in Processes, Resubscribed(p)
       PROVE  Flags'
  BY <1>12 DEF Flags, Resubscribed
<1>13. ASSUME NEW p \in Processes, LoseConnection(p)
       PROVE  Flags'
  BY <1>13 DEF Flags, LoseConnection
<1>14. ASSUME NEW e \in Events, PublishUnanswered(e)
       PROVE  Flags'
  BY <1>14 DEF Flags, PublishUnanswered, fanoutVars
<1>15. ASSUME NEW e \in Events, PublishFails(e)
       PROVE  Flags'
  BY <1>15 DEF Flags, PublishFails, fanoutVars
<1>16. CASE UNCHANGED vars
  BY <1>16 DEF Flags, vars, fanoutVars, redisVars
<1>17. QED
  BY <1>1, <1>2, <1>3, <1>4, <1>5, <1>6, <1>7, <1>8, <1>9, <1>10, <1>11, <1>12,
     <1>13, <1>14, <1>15, <1>16
     DEF Next, Answer

LEMMA EventTypesStep ==
  ASSUME EventTypes, [Next]_vars
  PROVE  EventTypes'
<1>1. ASSUME NEW l \in Listeners, NEW p \in Processes, Connect(l, p)
      PROVE  EventTypes'
  BY <1>1 DEF EventTypes, Connect, eventVars
<1>2. ASSUME NEW l \in Listeners, Disconnect(l)
      PROVE  EventTypes'
  BY <1>2 DEF EventTypes, Disconnect, eventVars
<1>3. ASSUME NEW p \in Processes, Subscribed(p)
      PROVE  EventTypes'
  BY <1>3 DEF EventTypes, Subscribed, eventVars
<1>4. ASSUME NEW p \in Processes, Unsubscribed(p)
      PROVE  EventTypes'
  BY <1>4 DEF EventTypes, Unsubscribed, eventVars
<1>5. ASSUME NEW p \in Processes, SubscribeFails(p)
      PROVE  EventTypes'
  BY <1>5 DEF EventTypes, SubscribeFails, eventVars
<1>6. ASSUME NEW p \in Processes, UnsubscribeFails(p)
      PROVE  EventTypes'
  BY <1>6 DEF EventTypes, UnsubscribeFails, eventVars
<1>7. ASSUME NEW p \in Processes, Retry(p)
      PROVE  EventTypes'
  BY <1>7 DEF EventTypes, Retry, eventVars
<1>8. ASSUME NEW p \in Processes, Receive(p)
      PROVE  EventTypes'
<2> DEFINE e == Head(arriving[p])
<2>1. e \in Events /\ Tail(arriving[p]) \in Seq(Events)
  BY <1>8 DEF EventTypes, Receive
<2>2. arriving' \in [Processes -> Seq(Events)]
  BY <1>8, <2>1 DEF EventTypes, Receive
<2>3. received' \in [Listeners -> [Events -> Nat]]
  <3>1. CASE PublishLocally(p, e)
    BY <2>1, <3>1 DEF EventTypes, PublishLocally
  <3>2. CASE UNCHANGED received
    BY <3>2 DEF EventTypes
  <3>3. QED
    BY <1>8, <3>1, <3>2 DEF Receive
<2>4. QED
  BY <1>8, <2>2, <2>3 DEF EventTypes, Receive
<1>9. ASSUME NEW p \in Processes, Stop(p)
      PROVE  EventTypes'
  BY <1>9 DEF EventTypes, Stop
<1>10. ASSUME NEW p \in Processes, NEW e \in Events, Emit(p, e)
      PROVE  EventTypes'
  BY <1>10 DEF EventTypes, Emit, PublishLocally
<1>11. ASSUME NEW e \in Events, Publish(e)
      PROVE  EventTypes'
  BY <1>11 DEF EventTypes, Publish, PassOn
<1>12. ASSUME NEW p \in Processes, Resubscribed(p)
       PROVE  EventTypes'
  BY <1>12 DEF EventTypes, Resubscribed, eventVars
<1>13. ASSUME NEW p \in Processes, LoseConnection(p)
       PROVE  EventTypes'
  BY <1>13 DEF EventTypes, LoseConnection
<1>14. ASSUME NEW e \in Events, PublishUnanswered(e)
       PROVE  EventTypes'
  BY <1>14 DEF EventTypes, PublishUnanswered, PassOn
<1>15. ASSUME NEW e \in Events, PublishFails(e)
       PROVE  EventTypes'
  BY <1>15 DEF EventTypes, PublishFails
<1>16. CASE UNCHANGED vars
  BY <1>16 DEF EventTypes, vars, eventVars
<1>17. QED
  BY <1>1, <1>2, <1>3, <1>4, <1>5, <1>6, <1>7, <1>8, <1>9, <1>10, <1>11, <1>12,
     <1>13, <1>14, <1>15, <1>16
     DEF Next, Answer

LEMMA FailuresStep ==
  ASSUME failures \in [FaultKinds -> Nat], [Next]_vars
  PROVE  failures' \in [FaultKinds -> Nat]
<1>1. ASSUME NEW l \in Listeners, NEW p \in Processes, Connect(l, p)
      PROVE  failures' \in [FaultKinds -> Nat]
  BY <1>1 DEF Connect, redisVars
<1>2. ASSUME NEW l \in Listeners, Disconnect(l)
      PROVE  failures' \in [FaultKinds -> Nat]
  BY <1>2 DEF Disconnect, redisVars
<1>3. ASSUME NEW p \in Processes, Subscribed(p)
      PROVE  failures' \in [FaultKinds -> Nat]
  BY <1>3 DEF Subscribed
<1>4. ASSUME NEW p \in Processes, Unsubscribed(p)
      PROVE  failures' \in [FaultKinds -> Nat]
  BY <1>4 DEF Unsubscribed
<1>5. ASSUME NEW p \in Processes, SubscribeFails(p)
      PROVE  failures' \in [FaultKinds -> Nat]
<2>1. PICK kind \in FaultKinds : failures' = [failures EXCEPT ![kind] = failures[kind] + 1]
  BY <1>5 DEF SubscribeFails, Fault, FaultKinds
<2>2. QED
  BY <2>1
<1>6. ASSUME NEW p \in Processes, UnsubscribeFails(p)
      PROVE  failures' \in [FaultKinds -> Nat]
  BY <1>6 DEF UnsubscribeFails, Fault, FaultKinds
<1>7. ASSUME NEW p \in Processes, Retry(p)
      PROVE  failures' \in [FaultKinds -> Nat]
  BY <1>7 DEF Retry, redisVars
<1>8. ASSUME NEW p \in Processes, Receive(p)
      PROVE  failures' \in [FaultKinds -> Nat]
  BY <1>8 DEF Receive, redisVars
<1>9. ASSUME NEW p \in Processes, Stop(p)
      PROVE  failures' \in [FaultKinds -> Nat]
  BY <1>9 DEF Stop
<1>10. ASSUME NEW p \in Processes, NEW e \in Events, Emit(p, e)
      PROVE  failures' \in [FaultKinds -> Nat]
  BY <1>10 DEF Emit, redisVars
<1>11. ASSUME NEW e \in Events, Publish(e)
      PROVE  failures' \in [FaultKinds -> Nat]
  BY <1>11 DEF Publish, redisVars
<1>12. ASSUME NEW p \in Processes, Resubscribed(p)
       PROVE  failures' \in [FaultKinds -> Nat]
  BY <1>12 DEF Resubscribed
<1>13. ASSUME NEW p \in Processes, LoseConnection(p)
       PROVE  failures' \in [FaultKinds -> Nat]
  BY <1>13 DEF LoseConnection, Fault, FaultKinds
<1>14. ASSUME NEW e \in Events, PublishUnanswered(e)
       PROVE  failures' \in [FaultKinds -> Nat]
  BY <1>14 DEF PublishUnanswered, Fault, FaultKinds
<1>15. ASSUME NEW e \in Events, PublishFails(e)
       PROVE  failures' \in [FaultKinds -> Nat]
  BY <1>15 DEF PublishFails, Fault, FaultKinds
<1>16. CASE UNCHANGED vars
  BY <1>16 DEF vars, redisVars
<1>17. QED
  BY <1>1, <1>2, <1>3, <1>4, <1>5, <1>6, <1>7, <1>8, <1>9, <1>10, <1>11, <1>12,
     <1>13, <1>14, <1>15, <1>16
     DEF Next, Answer

LEMMA ConnectionsStep ==
  ASSUME Subscribers, Subscribers', Connections, [Next]_vars
  PROVE  Connections'
<1>1. ASSUME NEW p \in Processes
      PROVE  /\ IsFiniteSet(Visitors(p)) /\ IsFiniteSet(Visitors(p)')
             /\ Cardinality(Visitors(p)) \in Nat
             /\ Cardinality(Visitors(p)') \in Nat
  BY FanoutAssumption, FS_Subset, FS_CardinalityType
     DEF Subscribers, Visitors, ListenersAt
(* A visitor is never forgotten, and a new generation has a new one.        *)
<1>2. ASSUME NEW p \in Processes, Visitors(p) \subseteq Visitors(p)',
             \/ generation'[p] = generation[p]
             \/ /\ generation'[p] = generation[p] + 1
                /\ \E l \in Listeners \ Visitors(p) : l \in Visitors(p)'
      PROVE  generation'[p] <= Cardinality(Visitors(p)')
<2>1. generation[p] \in Nat /\ generation[p] <= Cardinality(Visitors(p))
  BY DEF Subscribers, Connections
<2>2. CASE generation'[p] = generation[p]
  <3>1. Cardinality(Visitors(p)) <= Cardinality(Visitors(p)')
    BY <1>1, <1>2, FS_Subset
  <3>2. QED
    BY <1>1, <2>1, <2>2, <3>1
<2>3. CASE /\ generation'[p] = generation[p] + 1
           /\ \E l \in Listeners \ Visitors(p) : l \in Visitors(p)'
  <3>1. PICK l \in Listeners \ Visitors(p) : l \in Visitors(p)'
    BY <2>3
  <3>2. /\ IsFiniteSet(Visitors(p) \cup {l})
        /\ Cardinality(Visitors(p) \cup {l}) = Cardinality(Visitors(p)) + 1
    BY <1>1, FS_AddElement
  <3>3. Cardinality(Visitors(p) \cup {l}) <= Cardinality(Visitors(p)')
    BY <1>1, <1>2, <3>1, FS_Subset
  <3>4. QED
    BY <1>1, <2>1, <2>3, <3>2, <3>3
<2>4. QED
  BY <1>2, <2>2, <2>3
<1>3. CASE \E l \in Listeners, p \in Processes : Connect(l, p)
  <2>1. PICK l \in Listeners, p \in Processes : Connect(l, p)
    BY <1>3
  <2>2. /\ at[l] = Nowhere /\ l \notin closed /\ at' = [at EXCEPT ![l] = p]
        /\ UNCHANGED closed
    BY <2>1 DEF Connect
  <2>3. /\ ListenersAt(p)' = ListenersAt(p) \cup {l}
        /\ \A q \in Processes \ {p} : ListenersAt(q)' = ListenersAt(q)
        /\ l \notin ListenersAt(p)
    BY <2>2, FanoutAssumption DEF Subscribers, ListenersAt
  <2>4. /\ generation' = IF ListenersAt(p) = {}
                           THEN [generation EXCEPT ![p] = generation[p] + 1]
                           ELSE generation
        /\ \A q \in Processes \ {p} : status'[q] = status[q]
        /\ ListenersAt(p) # {} => UNCHANGED status
        /\ ListenersAt(p) = {} => status'[p] \in {"subscribing", "subscribed"}
    BY <2>1 DEF Connect, Subscribe, Subscribers, fanoutVars
  <2>5. \A q \in Processes : generation'[q] <= Cardinality(Visitors(q)')
    <3>1. TAKE q \in Processes
    <3>2. Visitors(q) \subseteq Visitors(q)'
      BY <2>2, <2>3 DEF Visitors
    <3>3. \/ generation'[q] = generation[q]
          \/ generation'[q] = generation[q] + 1 /\ q = p
      BY <2>4
    <3>4. l \in Listeners \ Visitors(p) /\ l \in Visitors(p)'
      BY <2>2, <2>3 DEF Visitors
    <3>5. QED
      BY <1>2, <3>2, <3>3, <3>4
  <2>6. \A x \in closed' : at'[x] = Nowhere
    BY <2>2 DEF Connections
  <2>7. \A q \in Processes : ListenersAt(q)' = {} <=> status'[q] = "none"
    BY <2>3, <2>4 DEF Connections
  <2>8. QED
    BY <2>5, <2>6, <2>7 DEF Connections
<1>4. CASE \E l \in Listeners : Disconnect(l)
  <2>1. PICK l \in Listeners : Disconnect(l)
    BY <1>4
  <2>2. PICK p \in Processes : at[l] = p
    BY <2>1 DEF Disconnect, Subscribers
  <2>3. /\ at[l] = p /\ at' = [at EXCEPT ![l] = Nowhere]
        /\ closed' = closed \cup {l} /\ UNCHANGED generation
    BY <2>1, <2>2 DEF Disconnect, TearDown, fanoutVars
  <2>4. /\ ListenersAt(p)' = ListenersAt(p) \ {l}
        /\ \A q \in Processes \ {p} : ListenersAt(q)' = ListenersAt(q)
    BY <2>3, FanoutAssumption DEF Subscribers, ListenersAt
  <2>5. /\ ListenersAt(p) = {l} =>
             status' = [status EXCEPT ![p] = "none"]
        /\ ListenersAt(p) # {l} => UNCHANGED status
    BY <2>1, <2>2 DEF Disconnect, TearDown, fanoutVars
  <2>6. \A q \in Processes : generation'[q] <= Cardinality(Visitors(q)')
    <3>1. TAKE q \in Processes
    <3>2. Visitors(q) \subseteq Visitors(q)'
      BY <2>3, <2>4 DEF Visitors
    <3>3. QED
      BY <1>2, <2>3, <3>2
  <2>7. \A x \in closed' : at'[x] = Nowhere
    BY <2>3 DEF Connections, Subscribers
  <2>8. \A q \in Processes : ListenersAt(q)' = {} <=> status'[q] = "none"
    <3>1. l \in ListenersAt(p)
      BY <2>3 DEF ListenersAt
    <3>2. QED
      BY <2>3, <2>4, <2>5, <3>1 DEF Connections, Subscribers
  <2>9. QED
    BY <2>6, <2>7, <2>8 DEF Connections
<1>5. CASE \E p \in Processes : Stop(p)
  <2>1. PICK p \in Processes : Stop(p)
    BY <1>5
  <2>2. /\ closed' = closed \cup ListenersAt(p)
        /\ at' = [l \in Listeners |-> IF at[l] = p THEN Nowhere ELSE at[l]]
        /\ status' = [status EXCEPT ![p] = "none"] /\ UNCHANGED generation
    BY <2>1 DEF Stop
  <2>3. /\ ListenersAt(p)' = {}
        /\ \A q \in Processes \ {p} : ListenersAt(q)' = ListenersAt(q)
    BY <2>2, FanoutAssumption DEF ListenersAt
  <2>4. \A q \in Processes : generation'[q] <= Cardinality(Visitors(q)')
    <3>1. TAKE q \in Processes
    <3>2. Visitors(q) \subseteq Visitors(q)'
      BY <2>2, <2>3 DEF Visitors
    <3>3. QED
      BY <1>2, <2>2, <3>2
  <2>5. \A x \in closed' : at'[x] = Nowhere
    BY <2>2 DEF Connections, Subscribers, ListenersAt
  <2>6. \A q \in Processes : ListenersAt(q)' = {} <=> status'[q] = "none"
    BY <2>2, <2>3 DEF Connections, Subscribers
  <2>7. QED
    BY <2>4, <2>5, <2>6 DEF Connections
(* No other step changes who is connected.                                  *)
<1>6. CASE /\ UNCHANGED <<at, closed, generation>>
           /\ \A p \in Processes : status'[p] = "none" <=> status[p] = "none"
  BY <1>6 DEF Connections, Visitors, ListenersAt
<1>7. ASSUME NEW p \in Processes, Answer(p) \/ Retry(p)
      PROVE  /\ UNCHANGED <<at, closed, generation>>
             /\ \A q \in Processes : status'[q] = "none" <=> status[q] = "none"
  BY <1>7 DEF Answer, Subscribed, Unsubscribed, Resubscribed, SubscribeFails,
        UnsubscribeFails, Current, Retry, Subscribe, Subscribers, listenerVars
<1>8. ASSUME \/ \E p \in Processes : Receive(p)
             \/ \E p \in Processes, e \in Events : Emit(p, e)
             \/ \E p \in Processes : LoseConnection(p)
             \/ \E e \in Events : Publish(e) \/ PublishUnanswered(e) \/ PublishFails(e)
             \/ UNCHANGED vars
      PROVE  UNCHANGED <<at, closed, generation, status>>
  BY <1>8 DEF Receive, Emit, LoseConnection, Publish, PublishUnanswered,
     PublishFails, vars, listenerVars, fanoutVars
<1>9. QED
  BY <1>3, <1>4, <1>5, <1>6, <1>7, <1>8 DEF Next

LEMMA CommandsStep ==
  ASSUME commands \in [Processes -> Seq(Commands)],
         generation \in [Processes -> Generations],
         generation' \in [Processes -> Generations], [Next]_vars
  PROVE  commands' \in [Processes -> Seq(Commands)]
<1>1. ASSUME NEW p \in Processes, NEW c \in Commands, Send(p, c)
      PROVE  commands' \in [Processes -> Seq(Commands)]
  BY <1>1 DEF Send
<1>2. ASSUME NEW p \in Processes, Answered(p)
      PROVE  commands' \in [Processes -> Seq(Commands)]
  BY <1>2 DEF Answered
<1>3. /\ [cmd |-> "unsubscribe"] \in Commands
      /\ \A g \in Generations : [cmd |-> "subscribe", generation |-> g] \in Commands
  BY DEF Commands
<1>4. ASSUME NEW p \in Processes, NEW g \in Generations, Subscribe(p, g)
      PROVE  commands' \in [Processes -> Seq(Commands)]
  BY <1>1, <1>3, <1>4 DEF Subscribe
<1>5. ASSUME NEW l \in Listeners, NEW p \in Processes, Connect(l, p)
      PROVE  commands' \in [Processes -> Seq(Commands)]
  <2>1. CASE ListenersAt(p) = {}
    <3>1. generation[p] + 1 \in Generations
      BY <1>5, <2>1 DEF Connect
    <3>2. QED
      BY <1>4, <1>5, <2>1, <3>1 DEF Connect
  <2>2. CASE ListenersAt(p) # {}
    BY <1>5, <2>2 DEF Connect, fanoutVars
  <2>3. QED
    BY <2>1, <2>2
<1>6. ASSUME NEW l \in Listeners, Disconnect(l), at[l] \in Processes
      PROVE  commands' \in [Processes -> Seq(Commands)]
  BY <1>1, <1>3, <1>6 DEF Disconnect, TearDown, Unsubscribe, fanoutVars
<1>7. ASSUME NEW l \in Listeners, Disconnect(l), at[l] \notin Processes
      PROVE  commands' \in [Processes -> Seq(Commands)]
  BY <1>7 DEF Disconnect, TearDown, Unsubscribe, Send, fanoutVars
<1>8. ASSUME NEW p \in Processes, Answer(p)
      PROVE  commands' \in [Processes -> Seq(Commands)]
  BY <1>2, <1>8 DEF Answer, Subscribed, Unsubscribed, Resubscribed,
     SubscribeFails, UnsubscribeFails
<1>9. ASSUME NEW p \in Processes, Retry(p)
      PROVE  commands' \in [Processes -> Seq(Commands)]
  BY <1>4, <1>9 DEF Retry
<1>10. ASSUME NEW p \in Processes, Stop(p)
       PROVE  commands' \in [Processes -> Seq(Commands)]
  BY <1>10 DEF Stop
<1>11. ASSUME \/ \E p \in Processes : Receive(p)
              \/ \E p \in Processes, e \in Events : Emit(p, e)
              \/ \E e \in Events :
                   Publish(e) \/ PublishUnanswered(e) \/ PublishFails(e)
              \/ UNCHANGED vars
       PROVE  UNCHANGED commands
  BY <1>11 DEF Receive, Emit, Publish, PublishUnanswered, PublishFails, vars, fanoutVars
<1>12. ASSUME NEW p \in Processes, LoseConnection(p)
       PROVE  commands' \in [Processes -> Seq(Commands)]
  <2>1. <<[cmd |-> "resubscribe"]>> \o commands[p] \in Seq(Commands)
    BY DEF Commands
  <2>2. QED
    BY <1>12, <2>1 DEF LoseConnection
<1>13. QED
  BY <1>5, <1>6, <1>7, <1>8, <1>9, <1>10, <1>11, <1>12 DEF Next

TypeInv ==
  TypeOK /\ Connections

LEMMA TypeParts ==
  TypeOK <=> /\ Subscribers /\ Flags /\ EventTypes
             /\ generation \in [Processes -> Generations]
             /\ commands \in [Processes -> Seq(Commands)]
             /\ failures \in [FaultKinds -> Nat]
<1>1. Cardinality(Listeners) \in Nat
  BY FanoutAssumption, FS_CardinalityType
<1>2. Generations \subseteq Nat
  BY <1>1 DEF Generations
<1>3. QED
  BY <1>2 DEF TypeOK, Subscribers, Flags, EventTypes

LEMMA GenerationsBounded ==
  Subscribers /\ Connections => generation \in [Processes -> Generations]
<1> SUFFICES ASSUME Subscribers, Connections
             PROVE  generation \in [Processes -> Generations]
  OBVIOUS
<1>1. ASSUME NEW p \in Processes
      PROVE  generation[p] \in Generations
  <2>1. Visitors(p) \subseteq Listeners
    BY DEF Subscribers, Visitors, ListenersAt
  <2>2. /\ Cardinality(Visitors(p)) \in Nat /\ Cardinality(Listeners) \in Nat
        /\ Cardinality(Visitors(p)) <= Cardinality(Listeners)
    BY <2>1, FanoutAssumption, FS_Subset, FS_CardinalityType
  <2>3. QED
    BY <2>2 DEF Subscribers, Connections, Generations
<1>2. QED
  BY <1>1 DEF Subscribers

LEMMA TypeInvariant == Spec => []TypeInv
<1>1. Init => TypeInv
  <2>1. SUFFICES ASSUME Init PROVE TypeInv
    OBVIOUS
  <2>2. Cardinality(Listeners) \in Nat /\ Cardinality({}) = 0
    BY FanoutAssumption, FS_CardinalityType, FS_EmptySet
  <2>3. Subscribers /\ EventTypes /\ commands \in [Processes -> Seq(Commands)]
    BY <2>1 DEF Init, Subscribers, EventTypes
  <2>4. Flags
    BY <2>1, Zenon DEF Init, Flags
  <2>5. failures \in [FaultKinds -> Nat]
    BY <2>1 DEF Init
  <2>6. Connections
    <3>1. \A p \in Processes : ListenersAt(p) = {}
      BY <2>1, FanoutAssumption DEF Init, ListenersAt
    <3>2. \A p \in Processes : Visitors(p) = {}
      BY <2>1, <3>1 DEF Init, Visitors
    <3>3. \A p \in Processes : generation[p] = 0 /\ status[p] = "none"
      BY <2>1 DEF Init
    <3>4. closed = {}
      BY <2>1 DEF Init
    <3>5. QED
      BY <2>2, <3>1, <3>2, <3>3, <3>4 DEF Connections
  <2>7. QED
    BY <2>3, <2>4, <2>5, <2>6, GenerationsBounded, TypeParts DEF TypeInv
<1>2. /\ (Subscribers /\ Connections => generation \in [Processes -> Generations])'
      /\ (  /\ Subscribers /\ Flags /\ EventTypes
          /\ generation \in [Processes -> Generations]
          /\ commands \in [Processes -> Seq(Commands)]
          /\ failures \in [FaultKinds -> Nat]
            => TypeOK)'
  BY GenerationsBounded, TypeParts, PTL
<1>3. TypeInv /\ [Next]_vars => TypeInv'
  <2>1. SUFFICES ASSUME TypeInv, [Next]_vars PROVE TypeInv'
    OBVIOUS
  <2>2. Subscribers' /\ Flags' /\ EventTypes' /\ failures' \in [FaultKinds -> Nat]
    BY <2>1, TypeParts, SubscribersStep, FlagsStep, EventTypesStep,
       FailuresStep
       DEF TypeInv
  <2>3. Connections'
    BY <2>1, <2>2, TypeParts, ConnectionsStep DEF TypeInv
  <2>4. generation' \in [Processes -> Generations]
    BY <1>2, <2>2, <2>3
  <2>5. commands' \in [Processes -> Seq(Commands)]
    BY <2>1, <2>4, TypeParts, CommandsStep DEF TypeInv
  <2>6. QED
    BY <1>2, <2>2, <2>3, <2>4, <2>5 DEF TypeInv
<1>4. QED
  BY <1>1, <1>3, PTL DEF Spec

(* Every reachable state is well typed; a process never counts more         *)
(* generations than there were listeners.                                   *)
THEOREM TypeCorrect == Spec => []TypeOK
<1>1. TypeInv => TypeOK
  BY DEF TypeInv
<1>2. QED
  BY <1>1, TypeInvariant, PTL

-----------------------------------------------------------------------------
(* Events.                                                                 *)

(* What occurs in a sequence, and that only members of R occur repeatedly,   *)
(* when it loses the first of its elements or gets one more.                *)
Occurs(s, e) == \E i \in 1 .. Len(s) : s[i] = e

NoRepeats(s, R) == \A i, j \in 1 .. Len(s) : s[i] = s[j] => i = j \/ s[i] \in R

LEMMA TailOccurs ==
  ASSUME NEW S, NEW R, NEW s \in Seq(S), s # <<>>
  PROVE  /\ Head(s) \in S /\ Occurs(s, Head(s))
         /\ \A e : Occurs(Tail(s), e) => Occurs(s, e)
         /\ NoRepeats(s, R) => NoRepeats(Tail(s), R)
         /\ NoRepeats(s, R) /\ Head(s) \notin R => ~Occurs(Tail(s), Head(s))
<1>1. /\ Len(s) \in Nat /\ Len(s) > 0 /\ Head(s) = s[1] /\ Head(s) \in S
      /\ Len(Tail(s)) = Len(s) - 1
      /\ \A i \in 1 .. Len(Tail(s)) : Tail(s)[i] = s[i + 1]
  OBVIOUS
<1>2. \A i \in 1 .. Len(Tail(s)) : i + 1 \in 1 .. Len(s) /\ i + 1 # 1
  BY <1>1
<1>3. 1 \in 1 .. Len(s)
  BY <1>1
<1>4. \A e : Occurs(Tail(s), e) => Occurs(s, e)
  BY <1>1, <1>2 DEF Occurs
<1>5. NoRepeats(s, R) => NoRepeats(Tail(s), R)
  BY <1>1, <1>2 DEF NoRepeats
<1>6. NoRepeats(s, R) /\ Head(s) \notin R => ~Occurs(Tail(s), Head(s))
  BY <1>1, <1>2, <1>3 DEF NoRepeats, Occurs
<1>7. QED
  BY <1>1, <1>3, <1>4, <1>5, <1>6 DEF Occurs

LEMMA AppendOccurs ==
  ASSUME NEW S, NEW R, NEW s \in Seq(S), NEW x \in S
  PROVE  /\ \A e : Occurs(Append(s, x), e) <=> Occurs(s, e) \/ e = x
         /\ NoRepeats(s, R) /\ (~Occurs(s, x) \/ x \in R) =>
              NoRepeats(Append(s, x), R)
<1>1. /\ Len(s) \in Nat /\ Len(Append(s, x)) = Len(s) + 1
      /\ \A i \in 1 .. Len(s) : Append(s, x)[i] = s[i]
      /\ Append(s, x)[Len(s) + 1] = x
  OBVIOUS
<1>2. QED
  BY <1>1 DEF Occurs, NoRepeats

(* What was sent for an event: nothing before it was emitted, and each process *)
(* is sent it once, so that it is not on its way again to those who heard it;  *)
(* but for the events whose PUBLISH was sent again.                         *)
Unheard(l, e) == received[l][e] = 0

Unsent(e) ==
  /\ e \notin publishing
  /\ \A p \in Processes : ~Occurs(arriving[p], e)
  /\ \A l \in Listeners : Unheard(l, e)

Travels ==
  /\ \A e \in Events : emitter[e] = Nowhere => Unsent(e)
  /\ \A e \in publishing \ resent, p \in Processes : ~Occurs(arriving[p], e)
  /\ \A p \in Processes : NoRepeats(arriving[p], resent)

Heard ==
  /\ HeardOnce
  /\ \A l \in Listeners \ closed, e \in Events :
       at[l] = Nowhere => Unheard(l, e)
  /\ \A l \in Listeners, p \in Processes, e \in Events \ resent :
       /\ at[l] = p /\ emitter[e] # p
       /\ e \in publishing \/ Occurs(arriving[p], e)
       => Unheard(l, e)

Deliveries == Travels /\ Heard

LEMMA DeliveriesStep ==
  ASSUME Subscribers, EventTypes, EventTypes', Connections, Deliveries, [Next]_vars
  PROVE  Deliveries'
<1>1. CASE UNCHANGED <<eventVars>> /\ UNCHANGED <<at, closed>>
  BY <1>1 DEF Deliveries, Travels, Heard, HeardOnce, Unsent, Unheard, eventVars
<1>2. ASSUME \/ \E p \in Processes : Answer(p) \/ Retry(p)
             \/ UNCHANGED vars
      PROVE  UNCHANGED <<eventVars>> /\ UNCHANGED <<at, closed>>
  BY <1>2 DEF Answer, Subscribed, Unsubscribed, Resubscribed, SubscribeFails,
     UnsubscribeFails, Retry, vars, listenerVars
<1>3. ASSUME NEW l \in Listeners, NEW p \in Processes, Connect(l, p)
      PROVE  Deliveries'
  <2>1. /\ at[l] = Nowhere /\ l \notin closed /\ at' = [at EXCEPT ![l] = p]
        /\ UNCHANGED <<closed, emitter, publishing, arriving, received, resent>>
    BY <1>3 DEF Connect, eventVars
  <2>2. \A e \in Events : Unheard(l, e)
    BY <2>1 DEF Deliveries, Heard
  <2>3. Travels'
    BY <2>1 DEF Deliveries, Travels, Unsent, Unheard
  <2>4. HeardOnce'
    BY <2>1 DEF Deliveries, Heard, HeardOnce
  <2>5. \A x \in Listeners : x # l => at'[x] = at[x]
    BY <2>1
  <2>6. Heard'
    BY <2>1, <2>2, <2>4, <2>5 DEF Deliveries, Heard, Unheard
  <2>7. QED
    BY <2>3, <2>6 DEF Deliveries
<1>4. ASSUME NEW l \in Listeners, Disconnect(l)
      PROVE  Deliveries'
  <2>1. /\ at' = [at EXCEPT ![l] = Nowhere] /\ closed' = closed \cup {l}
        /\ UNCHANGED <<emitter, publishing, arriving, received, resent>>
    BY <1>4 DEF Disconnect, eventVars
  <2>2. Travels' /\ HeardOnce'
    BY <2>1 DEF Deliveries, Travels, Unsent, Unheard, Heard, HeardOnce
  <2>3. \A x \in Listeners : at'[x] = IF x = l THEN Nowhere ELSE at[x]
    BY <2>1 DEF Subscribers
  <2>4. Heard'
    BY <2>1, <2>2, <2>3, FanoutAssumption DEF Deliveries, Heard, Unheard
  <2>5. QED
    BY <2>2, <2>4 DEF Deliveries
<1>5. ASSUME NEW p \in Processes, Stop(p)
      PROVE  Deliveries'
  <2>1. /\ at' = [l \in Listeners |-> IF at[l] = p THEN Nowhere ELSE at[l]]
        /\ closed' = closed \cup ListenersAt(p)
        /\ publishing' \subseteq publishing
        /\ arriving' = [arriving EXCEPT ![p] = <<>>]
        /\ UNCHANGED <<emitter, received, resent>>
    BY <1>5 DEF Stop
  <2>2. /\ NoRepeats(<<>>, resent) /\ \A e : ~Occurs(<<>>, e)
    BY DEF NoRepeats, Occurs
  <2>3. \A q \in Processes : arriving'[q] = IF q = p THEN <<>> ELSE arriving[q]
    BY <2>1 DEF EventTypes
  <2>4. Travels' /\ HeardOnce'
    BY <2>1, <2>2, <2>3 DEF Deliveries, Travels, Unsent, Unheard, Heard,
       HeardOnce
  <2>5. \A l \in Listeners : at'[l] = IF at[l] = p THEN Nowhere ELSE at[l]
    BY <2>1
  <2>6. Heard'
    BY <2>1, <2>2, <2>3, <2>4, <2>5, FanoutAssumption
       DEF Deliveries, Heard, Unheard, ListenersAt
  <2>7. QED
    BY <2>4, <2>6 DEF Deliveries
<1>6. ASSUME NEW p \in Processes, NEW e \in Events, Emit(p, e)
      PROVE  Deliveries'
  <2>1. /\ emitter[e] = Nowhere /\ emitter' = [emitter EXCEPT ![e] = p]
        /\ publishing' = publishing \cup {e}
        /\ received' = [l \in Listeners |-> IF at[l] = p
             THEN [received[l] EXCEPT ![e] = received[l][e] + 1] ELSE received[l]]
        /\ UNCHANGED <<at, closed, arriving, resent>>
    BY <1>6 DEF Emit, PublishLocally, listenerVars
  <2>2. Unsent(e)
    BY <2>1 DEF Deliveries, Travels
  <2>3. \A f \in Events : emitter'[f] = IF f = e THEN p ELSE emitter[f]
    BY <2>1 DEF EventTypes
  <2>4. /\ \A l \in Listeners, f \in Events : f # e => received'[l][f] = received[l][f]
        /\ \A l \in Listeners : received'[l][e] = IF at[l] = p THEN 1 ELSE 0
    BY <2>1, <2>2 DEF EventTypes, Unsent, Unheard
  <2>5. Travels'
    BY <2>1, <2>2, <2>3, <2>4, FanoutAssumption
       DEF Deliveries, Travels, Unsent, Unheard
  <2>6. HeardOnce'
    BY <2>1, <2>4 DEF Deliveries, Heard, HeardOnce
  <2>7. Heard'
    BY <2>1, <2>2, <2>3, <2>4, <2>6, FanoutAssumption
       DEF Deliveries, Heard, Unheard
  <2>8. QED
    BY <2>5, <2>7 DEF Deliveries
<1>7. ASSUME NEW e \in Events, Publish(e) \/ PublishUnanswered(e)
      PROVE  Deliveries'
  <2>1. /\ e \in publishing
        /\ \/ publishing' = publishing \ {e} /\ UNCHANGED resent
           \/ resent' = resent \cup {e} /\ UNCHANGED publishing
        /\ \A p \in Processes :
             \/ arriving'[p] = arriving[p]
             \/ arriving'[p] = Append(arriving[p], e)
        /\ UNCHANGED <<at, closed, emitter, received>>
    BY <1>7 DEF Publish, PublishUnanswered, PassOn, listenerVars
  <2>2. /\ emitter[e] # Nowhere
        /\ e \in resent \/ \A p \in Processes : ~Occurs(arriving[p], e)
    BY <2>1 DEF Deliveries, Travels, Unsent
  <2>3. \A p \in Processes :
          /\ NoRepeats(arriving'[p], resent')
          /\ \A f : Occurs(arriving'[p], f) => Occurs(arriving[p], f) \/ f = e
    <3>1. TAKE p \in Processes
    <3>2. /\ arriving[p] \in Seq(Events) /\ NoRepeats(arriving[p], resent)
          /\ resent \subseteq resent'
      BY <2>1 DEF EventTypes, Deliveries, Travels
    <3>3. NoRepeats(arriving[p], resent')
      BY <3>2 DEF NoRepeats
    <3>4. CASE arriving'[p] = arriving[p]
      BY <3>3, <3>4
    <3>5. CASE arriving'[p] = Append(arriving[p], e)
      <4>1. e \in resent' \/ ~Occurs(arriving[p], e)
        BY <2>2, <3>2
      <4>2. QED
        BY <3>2, <3>3, <3>5, <4>1, AppendOccurs
    <3>6. QED
      BY <2>1, <3>4, <3>5
  <2>4. e \notin publishing' \ resent'
    BY <2>1
  <2>5. Travels' /\ HeardOnce'
    BY <2>1, <2>2, <2>3, <2>4
       DEF Deliveries, Travels, Unsent, Unheard, Heard, HeardOnce
  <2>6. Heard'
    BY <2>1, <2>3, <2>5 DEF Deliveries, Heard, Unheard
  <2>7. QED
    BY <2>5, <2>6 DEF Deliveries
<1>8. ASSUME NEW p \in Processes, Receive(p)
      PROVE  Deliveries'
  <2>1. PICK e \in Events : e = Head(arriving[p]) /\ Occurs(arriving[p], e)
    BY <1>8, TailOccurs DEF Receive, EventTypes
  <2>2. /\ arriving[p] # <<>> /\ arriving' = [arriving EXCEPT ![p] = Tail(arriving[p])]
        /\ \/ UNCHANGED received
           \/ /\ emitter[e] # p
              /\ received' = [l \in Listeners |-> IF at[l] = p
                   THEN [received[l] EXCEPT ![e] = received[l][e] + 1]
                   ELSE received[l]]
        /\ UNCHANGED <<at, closed, emitter, publishing, resent>>
    BY <1>8, <2>1 DEF Receive, PublishLocally, listenerVars
  <2>3. /\ \A q \in Processes : \A f : Occurs(arriving'[q], f) => Occurs(arriving[q], f)
        /\ \A q \in Processes : NoRepeats(arriving'[q], resent)
        /\ e \in resent \/ ~Occurs(arriving'[p], e)
    <3>1. arriving[p] \in Seq(Events) /\ NoRepeats(arriving[p], resent)
      BY DEF EventTypes, Deliveries, Travels
    <3>2. /\ \A f : Occurs(Tail(arriving[p]), f) => Occurs(arriving[p], f)
          /\ NoRepeats(Tail(arriving[p]), resent)
          /\ e \in resent \/ ~Occurs(Tail(arriving[p]), e)
      BY <2>1, <2>2, <3>1, TailOccurs
    <3>3. /\ arriving'[p] = Tail(arriving[p])
          /\ \A q \in Processes \ {p} : arriving'[q] = arriving[q]
      BY <2>2 DEF EventTypes
    <3>4. QED
      BY <3>2, <3>3 DEF Deliveries, Travels
  <2>4. e \notin publishing \ resent /\ emitter[e] # Nowhere
    BY <2>1 DEF Deliveries, Travels, Unsent
  <2>5. emitter[e] # p /\ e \notin resent =>
          \A l \in Listeners : at[l] = p => Unheard(l, e)
    BY <2>1 DEF Deliveries, Heard
  <2>6. \A l \in Listeners, f \in Events :
          \/ received'[l][f] = received[l][f]
          \/ /\ f = e /\ at[l] = p /\ emitter[e] # p
             /\ e \in resent \/ (received[l][f] = 0 /\ received'[l][f] = 1)
    <3>1. CASE UNCHANGED received
      BY <3>1
    <3>2. CASE /\ emitter[e] # p
               /\ received' = [l \in Listeners |-> IF at[l] = p
                    THEN [received[l] EXCEPT ![e] = received[l][e] + 1]
                    ELSE received[l]]
      <4>1. TAKE l \in Listeners, f \in Events
      <4>2. received[l] \in [Events -> Nat]
        BY DEF EventTypes
      <4>3. CASE at[l] = p
        <5>1. received'[l] = [received[l] EXCEPT ![e] = received[l][e] + 1]
          BY <3>2, <4>3
        <5>2. e \in resent \/ received[l][e] = 0
          BY <2>5, <3>2, <4>3 DEF Unheard
        <5>3. QED
          BY <3>2, <4>2, <4>3, <5>1, <5>2
      <4>4. CASE at[l] # p
        BY <3>2, <4>4
      <4>5. QED
        BY <4>3, <4>4
    <3>3. QED
      BY <2>2, <3>1, <3>2
  <2>7. Travels'
    <3>1. ASSUME NEW f \in Events, emitter'[f] = Nowhere
          PROVE  Unsent(f)'
      <4>1. Unsent(f) /\ f # e
        BY <2>2, <2>4, <3>1 DEF Deliveries, Travels
      <4>2. \A l \in Listeners : received'[l][f] = received[l][f]
        BY <2>6, <4>1
      <4>3. QED
        BY <2>2, <2>3, <4>1, <4>2 DEF Unsent, Unheard
    <3>2. \A f \in publishing' \ resent', q \in Processes : ~Occurs(arriving'[q], f)
      BY <2>2, <2>3 DEF Deliveries, Travels
    <3>3. QED
      BY <2>2, <2>3, <3>1, <3>2 DEF Travels
  <2>8. HeardOnce'
    BY <2>2, <2>6 DEF Deliveries, Heard, HeardOnce
  <2>9. Heard'
    <3>1. \A l \in Listeners \ closed', f \in Events :
            at'[l] = Nowhere => Unheard(l, f)'
      BY <2>2, <2>6, FanoutAssumption DEF Deliveries, Heard, Unheard
    <3>2. ASSUME NEW l \in Listeners, NEW q \in Processes,
                 NEW f \in Events \ resent', at'[l] = q, emitter'[f] # q,
                 f \in publishing' \/ Occurs(arriving'[q], f)
          PROVE  Unheard(l, f)'
      <4>1. Unheard(l, f)
        BY <2>2, <2>3, <3>2 DEF Deliveries, Heard
      <4>2. ~(f = e /\ q = p)
        BY <2>2, <2>3, <2>4, <3>2
      <4>3. QED
        BY <2>2, <2>6, <3>2, <4>1, <4>2 DEF Unheard
    <3>3. QED
      BY <2>8, <3>1, <3>2 DEF Heard
  <2>10. QED
    BY <2>7, <2>9 DEF Deliveries
(* Losing what is on its way, or not sending it.                            *)
<1>9. ASSUME \/ \E p \in Processes : LoseConnection(p)
             \/ \E e \in Events : PublishFails(e)
      PROVE  Deliveries'
  <2>1. /\ publishing' \subseteq publishing
        /\ \A q \in Processes : arriving'[q] = arriving[q] \/ arriving'[q] = <<>>
        /\ UNCHANGED <<at, closed, emitter, received, resent>>
    BY <1>9 DEF LoseConnection, PublishFails, EventTypes, listenerVars
  <2>2. NoRepeats(<<>>, resent) /\ \A e : ~Occurs(<<>>, e)
    BY DEF NoRepeats, Occurs
  <2>3. \A q \in Processes :
          /\ NoRepeats(arriving[q], resent) => NoRepeats(arriving'[q], resent)
          /\ \A e : Occurs(arriving'[q], e) => Occurs(arriving[q], e)
    BY <2>1, <2>2
  <2>4. Travels' /\ HeardOnce'
    BY <2>1, <2>3 DEF Deliveries, Travels, Unsent, Unheard, Heard, HeardOnce
  <2>5. Heard'
    BY <2>1, <2>3, <2>4 DEF Deliveries, Heard, Unheard
  <2>6. QED
    BY <2>4, <2>5 DEF Deliveries
<1>10. QED
  BY <1>1, <1>2, <1>3, <1>4, <1>5, <1>6, <1>7, <1>8, <1>9 DEF Next

(* No listener is sent an event twice, whatever process emits it and however *)
(* subscriptions come and go and connections are lost, but for an event that *)
(* ioredis published a second time: publishLocally and handleMessage divide the    *)
(* listeners between them by the event's source.                            *)
THEOREM ListenersHearOnce == Spec => []HeardOnce
<1>1. Init => Deliveries
  <2>1. /\ NoRepeats(<<>>, {}) /\ \A e : ~Occurs(<<>>, e)
    BY DEF NoRepeats, Occurs
  <2>2. QED
    BY <2>1 DEF Init, Deliveries, Travels, Heard, HeardOnce, Unsent, Unheard
<1>2. TypeInv /\ TypeInv' /\ Deliveries /\ [Next]_vars => Deliveries'
  <2>1. (TypeOK => Subscribers /\ EventTypes) /\ (TypeOK => EventTypes)'
    BY TypeParts, PTL
  <2>2. QED
    BY <2>1, DeliveriesStep DEF TypeInv
<1>3. Deliveries => HeardOnce
  BY DEF Deliveries, Heard
<1>4. QED
  BY <1>1, <1>2, <1>3, TypeInvariant, PTL DEF Spec

-----------------------------------------------------------------------------
(* Subscriptions.                                                          *)

(* The subscriptions among the commands are of generations up to g; the last *)
(* command is the only subscription of generation g; there are none but those *)
(* of a new connection.                                                     *)
AtMost(s, g) ==
  \A i \in 1 .. Len(s) : s[i].cmd = "subscribe" => s[i].generation <= g

Awaits(s, g) ==
  /\ s # <<>>
  /\ s[Len(s)].cmd = "subscribe" /\ s[Len(s)].generation = g
  /\ \A i \in 1 .. Len(s) - 1 :
       s[i].cmd = "subscribe" => s[i].generation # g

Renewed(s) == \A i \in 1 .. Len(s) : s[i].cmd = "resubscribe"

LEMMA AnswerTakesHead ==
  ASSUME NEW s \in Seq(Commands), s # <<>>, NEW g \in Nat
  PROVE  /\ AtMost(s, g) => AtMost(Tail(s), g)
         /\ Renewed(s) => Renewed(Tail(s)) /\ Head(s).cmd = "resubscribe"
         /\ Awaits(s, g) =>
              \/ Tail(s) = <<>> /\ Head(s).cmd = "subscribe"
                 /\ Head(s).generation = g
              \/ Awaits(Tail(s), g)
                 /\ (Head(s).cmd = "subscribe" => Head(s).generation # g)
<1>1. /\ Len(s) \in Nat /\ Len(s) > 0 /\ Head(s) = s[1]
      /\ Tail(s) \in Seq(Commands) /\ Len(Tail(s)) = Len(s) - 1
      /\ \A i \in 1 .. Len(Tail(s)) : Tail(s)[i] = s[i + 1]
  OBVIOUS
<1>2. /\ AtMost(s, g) => AtMost(Tail(s), g)
      /\ Renewed(s) => Renewed(Tail(s)) /\ Head(s).cmd = "resubscribe"
  <2>1. /\ \A i \in 1 .. Len(Tail(s)) : i + 1 \in 1 .. Len(s)
        /\ 1 \in 1 .. Len(s)
    BY <1>1
  <2>2. QED
    BY <1>1, <2>1 DEF AtMost, Renewed
<1>3. CASE Len(s) = 1
  <2>1. Len(Tail(s)) = 0
    BY <1>1, <1>3
  <2>2. Tail(s) = <<>>
    BY <1>1, <2>1, EmptySeq
  <2>3. QED
    BY <1>1, <1>2, <1>3, <2>2 DEF Awaits
<1>4. CASE Len(s) # 1
  <2>1. Tail(s) # <<>> /\ Tail(s)[Len(Tail(s))] = s[Len(s)]
    BY <1>1, <1>4
  <2>2. \A i \in 1 .. Len(Tail(s)) - 1 :
          i + 1 \in 1 .. Len(s) - 1 /\ Tail(s)[i] = s[i + 1]
    BY <1>1, <1>4
  <2>3. 1 \in 1 .. Len(s) - 1
    BY <1>1, <1>4
  <2>4. QED
    BY <1>1, <1>2, <2>1, <2>2, <2>3 DEF Awaits
<1>5. QED
  BY <1>3, <1>4

LEMMA SendAddsLast ==
  ASSUME NEW s \in Seq(Commands), NEW g \in Generations, AtMost(s, g)
  PROVE  /\ AtMost(Append(s, [cmd |-> "unsubscribe"]), g)
         /\ g + 1 \in Generations =>
              LET c == [cmd |-> "subscribe", generation |-> g + 1]
              IN  AtMost(Append(s, c), g + 1) /\ Awaits(Append(s, c), g + 1)
         /\ Renewed(s) =>
              LET c == [cmd |-> "subscribe", generation |-> g]
              IN  AtMost(Append(s, c), g) /\ Awaits(Append(s, c), g)
<1> DEFINE unsubscribe == [cmd |-> "unsubscribe"]
           subscribe(h) == [cmd |-> "subscribe", generation |-> h]
<1>1. Cardinality(Listeners) \in Nat
  BY FanoutAssumption, FS_CardinalityType
<1>2. g \in Nat /\ \A h \in Generations : h \in Nat
  BY <1>1 DEF Generations
<1>3. /\ unsubscribe \in Commands
      /\ \A h \in Generations : subscribe(h) \in Commands
  BY DEF Commands
<1>4. ASSUME NEW c \in Commands
      PROVE  /\ Len(s) \in Nat /\ Len(Append(s, c)) = Len(s) + 1
             /\ \A i \in 1 .. Len(s) : Append(s, c)[i] = s[i]
             /\ Append(s, c)[Len(s) + 1] = c
             /\ Append(s, c) # <<>>
  OBVIOUS
<1>5. \A i \in 1 .. Len(s) : s[i] \in Commands
  OBVIOUS
<1>6. \A c \in Commands : c.cmd = "subscribe" => c.generation \in Nat
  BY <1>2 DEF Commands
<1>7. AtMost(Append(s, unsubscribe), g)
  <2>1. unsubscribe.cmd # "subscribe"
    OBVIOUS
  <2>2. QED
    BY <1>3, <1>4, <2>1 DEF AtMost
<1>8. ASSUME g + 1 \in Generations
      PROVE  /\ AtMost(Append(s, subscribe(g + 1)), g + 1)
             /\ Awaits(Append(s, subscribe(g + 1)), g + 1)
  <2> DEFINE c == subscribe(g + 1)
  <2>1. c \in Commands /\ c.cmd = "subscribe" /\ c.generation = g + 1
    BY <1>3, <1>8
  <2>2. \A i \in 1 .. Len(s) : s[i].cmd = "subscribe" =>
          s[i].generation \in Nat /\ s[i].generation <= g
    BY <1>5, <1>6 DEF AtMost
  <2> HIDE DEF c
  <2>3. AtMost(Append(s, c), g + 1) /\ Awaits(Append(s, c), g + 1)
    BY <1>2, <1>4, <2>1, <2>2 DEF AtMost, Awaits
  <2>4. QED
    BY <2>3 DEF c
<1>9. ASSUME Renewed(s)
      PROVE  /\ AtMost(Append(s, subscribe(g)), g)
             /\ Awaits(Append(s, subscribe(g)), g)
  <2> DEFINE c == subscribe(g)
  <2>1. c \in Commands /\ c.cmd = "subscribe" /\ c.generation = g
    BY <1>3, <1>9
  <2> HIDE DEF c
  <2>2. AtMost(Append(s, c), g) /\ Awaits(Append(s, c), g)
    BY <1>2, <1>4, <1>9, <2>1 DEF AtMost, Awaits, Renewed
  <2>3. QED
    BY <2>2 DEF c
<1>10. QED
  BY <1>7, <1>8, <1>9

LEMMA RenewalComesFirst ==
  ASSUME NEW s \in Seq(Commands), NEW g \in Nat
  PROVE  LET r == <<[cmd |-> "resubscribe"]>> \o s
         IN  /\ AtMost(s, g) => AtMost(r, g)
             /\ Awaits(s, g) => Awaits(r, g)
             /\ Renewed(s) => Renewed(r)
             /\ r # <<>>
<1> DEFINE c == [cmd |-> "resubscribe"]
           r == <<c>> \o s
<1>1. c \in Commands /\ c.cmd = "resubscribe"
  BY DEF Commands
<1>2. /\ Len(s) \in Nat /\ r \in Seq(Commands) /\ Len(r) = Len(s) + 1 /\ r[1] = c
      /\ \A i \in 1 .. Len(s) : r[i + 1] = s[i]
  BY <1>1
<1>3. \A i \in 1 .. Len(r) : i = 1 \/ (i - 1 \in 1 .. Len(s) /\ r[i] = s[i - 1])
  <2>1. TAKE i \in 1 .. Len(r)
  <2>2. i # 1 => i - 1 \in 1 .. Len(s) /\ (i - 1) + 1 = i
    BY <1>2
  <2>3. QED
    BY <1>2, <2>2
<1>4. r # <<>>
  BY <1>2
<1> HIDE DEF c, r
<1>5. AtMost(s, g) => AtMost(r, g)
  BY <1>1, <1>2, <1>3 DEF AtMost
<1>6. Renewed(s) => Renewed(r)
  BY <1>1, <1>2, <1>3 DEF Renewed
<1>7. Awaits(s, g) => Awaits(r, g)
  <2>1. SUFFICES ASSUME Awaits(s, g) PROVE Awaits(r, g)
    OBVIOUS
  <2>2. Len(s) \in 1 .. Len(s) /\ r[Len(r)] = s[Len(s)]
    BY <1>2, <2>1, EmptySeq DEF Awaits
  <2>3. ASSUME NEW i \in 1 .. Len(r) - 1, r[i].cmd = "subscribe"
        PROVE  r[i].generation # g
    <3>1. i # 1
      BY <1>1, <1>2, <2>3
    <3>2. i - 1 \in 1 .. Len(s) - 1 /\ r[i] = s[i - 1]
      BY <1>2, <1>3, <3>1
    <3>3. QED
      BY <2>1, <2>3, <3>2 DEF Awaits
  <2>4. QED
    BY <1>4, <2>1, <2>2, <2>3 DEF Awaits
<1>8. QED
  BY <1>4, <1>5, <1>6, <1>7 DEF r, c

(* A subscription that is under way is the last command sent, and the only one *)
(* of its generation; one that counts has been answered, and what else there is *)
(* renews it on a new connection.  Its handler goes with the status, or was     *)
(* taken by a stale failure.                                                *)
Subscription(p) ==
  /\ handler[p] => status[p] \in {"subscribing", "subscribed"}
  /\ status[p] \in {"subscribing", "subscribed"} => handler[p] \/ p \in orphaned
  /\ retry[p] => status[p] = "idle"
  /\ status[p] \in {"idle", "subscribed"} => Renewed(commands[p])
  /\ status[p] = "subscribed" => commands[p] # <<>> \/ channel[p]
  /\ status[p] = "subscribing" => Awaits(commands[p], generation[p])
  /\ AtMost(commands[p], generation[p])

Subscriptions == \A p \in Processes : Subscription(p)

LEMMA SubscriptionsStep ==
  ASSUME TypeOK, TypeOK', Connections, Subscriptions, [Next]_vars
  PROVE  Subscriptions'
<1> DEFINE Same(q) == /\ status'[q] = status[q] /\ generation'[q] = generation[q]
                      /\ retry'[q] = retry[q] /\ handler'[q] = handler[q]
                      /\ commands'[q] = commands[q] /\ channel'[q] = channel[q]
                      /\ q \in orphaned' <=> q \in orphaned
<1>1. ASSUME NEW q \in Processes, Same(q)
      PROVE  Subscription(q)'
  BY <1>1, Zenon DEF Subscriptions, Subscription
<1> HIDE DEF Same
<1>2. ASSUME NEW p \in Processes, Subscription(p)',
             \A q \in Processes \ {p} : Same(q)
      PROVE  Subscriptions'
  BY <1>1, <1>2 DEF Subscriptions
<1>3. ASSUME NEW p \in Processes
      PROVE  /\ commands[p] \in Seq(Commands) /\ generation[p] \in Generations
             /\ generation[p] \in Nat /\ Subscription(p)
  <2>1. Cardinality(Listeners) \in Nat
    BY FanoutAssumption, FS_CardinalityType
  <2>2. QED
    BY <2>1 DEF TypeOK, Generations, Subscriptions
<1>4. ASSUME NEW l \in Listeners, NEW p \in Processes, Connect(l, p)
      PROVE  Subscriptions'
  <2>1. CASE ListenersAt(p) = {}
    <3>1. status[p] = "none" /\ ~handler[p] /\ ~retry[p]
      BY <1>3, <2>1 DEF Connections, Subscription
    <3>2. /\ generation' = [generation EXCEPT ![p] = generation[p] + 1]
          /\ handler' = [handler EXCEPT ![p] = TRUE]
          /\ status' = [status EXCEPT ![p] = "subscribing"]
          /\ commands' = [commands EXCEPT ![p] = Append(commands[p],
               [cmd |-> "subscribe", generation |-> generation[p] + 1])]
          /\ orphaned' = orphaned \ {p}
          /\ UNCHANGED <<retry, channel>>
      BY <1>4, <2>1, <3>1 DEF Connect, Subscribe, Send, redisVars
    <3>3. generation'[p] \in Generations /\ generation'[p] = generation[p] + 1
      BY <3>2 DEF TypeOK
    <3>4. /\ AtMost(commands'[p], generation'[p])
          /\ Awaits(commands'[p], generation'[p])
      BY <1>3, <3>2, <3>3, SendAddsLast DEF TypeOK, Subscription
    <3>5. handler'[p] /\ ~retry'[p]
      BY <3>1, <3>2, Zenon DEF TypeOK
    <3>6. status'[p] = "subscribing"
      BY <3>2 DEF TypeOK
    <3>7. Subscription(p)'
      BY <3>4, <3>5, <3>6 DEF Subscription
    <3>8. \A q \in Processes \ {p} : Same(q)
      BY <3>2, Zenon DEF TypeOK, Same
    <3>9. QED
      BY <1>2, <3>7, <3>8
  <2>2. CASE ListenersAt(p) # {}
    <3>1. UNCHANGED <<fanoutVars, channel>>
      BY <1>4, <2>2 DEF Connect, redisVars
    <3>2. \A q \in Processes : Same(q)
      BY <3>1 DEF Same, fanoutVars
    <3>3. QED
      BY <1>1, <3>2 DEF Subscriptions
  <2>3. QED
    BY <2>1, <2>2
<1>5. ASSUME NEW l \in Listeners, Disconnect(l)
      PROVE  Subscriptions'
  <2>1. PICK p \in Processes : at[l] = p
    BY <1>5 DEF Disconnect, TypeOK
  <2>2. CASE ListenersAt(p) = {l}
    <3>1. /\ status' = [status EXCEPT ![p] = "none"]
          /\ retry' = [retry EXCEPT ![p] = FALSE]
          /\ handler' = [handler EXCEPT ![p] = FALSE]
          /\ \/ UNCHANGED commands
             \/ commands' = [commands EXCEPT
                               ![p] = Append(commands[p], [cmd |-> "unsubscribe"])]
          /\ UNCHANGED <<generation, orphaned, channel>>
      BY <1>5, <2>1, <2>2 DEF Disconnect, TearDown, Unsubscribe, Send,
         redisVars
    <3>2. AtMost(commands'[p], generation'[p])
      <4>1. AtMost(commands[p], generation[p])
        BY <1>3 DEF Subscription
      <4>2. AtMost(Append(commands[p], [cmd |-> "unsubscribe"]), generation[p])
        BY <1>3, <4>1, SendAddsLast
      <4>3. \/ commands'[p] = commands[p]
            \/ commands'[p] = Append(commands[p], [cmd |-> "unsubscribe"])
        BY <3>1 DEF TypeOK
      <4>4. QED
        BY <3>1, <4>1, <4>2, <4>3
    <3>3. status'[p] = "none"
      BY <3>1 DEF TypeOK
    <3>4. ~handler'[p] /\ ~retry'[p]
      BY <3>1, Zenon DEF TypeOK
    <3>5. Subscription(p)'
      BY <3>2, <3>3, <3>4 DEF Subscription
    <3>6. \A q \in Processes \ {p} : commands'[q] = commands[q]
      BY <3>1 DEF TypeOK
    <3>7. \A q \in Processes \ {p} : Same(q)
      BY <3>1, <3>6, ZenonT(30) DEF TypeOK, Same
    <3>8. QED
      BY <1>2, <3>5, <3>7
  <2>3. CASE ListenersAt(p) # {l}
    <3>1. UNCHANGED <<fanoutVars, channel>>
      BY <1>5, <2>1, <2>3 DEF Disconnect, redisVars
    <3>2. \A q \in Processes : Same(q)
      BY <3>1 DEF Same, fanoutVars
    <3>3. QED
      BY <1>1, <3>2 DEF Subscriptions
  <2>4. QED
    BY <2>2, <2>3
(* What an answer leaves to be answered.                                    *)
<1>6. ASSUME NEW p \in Processes, Answered(p)
      PROVE  /\ commands'[p] = Tail(commands[p])
             /\ \A q \in Processes \ {p} : commands'[q] = commands[q]
             /\ status[p] \in {"idle", "subscribed"} =>
                  Renewed(commands'[p]) /\ Head(commands[p]).cmd = "resubscribe"
             /\ AtMost(commands'[p], generation[p])
             /\ status[p] = "subscribing" =>
                  \/ /\ commands'[p] = <<>> /\ Head(commands[p]).cmd = "subscribe"
                     /\ Head(commands[p]).generation = generation[p]
                  \/ /\ Awaits(commands'[p], generation[p])
                     /\ Head(commands[p]).cmd = "subscribe" =>
                          Head(commands[p]).generation # generation[p]
  <2>1. /\ commands[p] # <<>> /\ commands'[p] = Tail(commands[p])
        /\ \A q \in Processes \ {p} : commands'[q] = commands[q]
    BY <1>6 DEF Answered, TypeOK
  <2>2. status[p] \in {"idle", "subscribed"} => Renewed(commands[p])
    BY <1>3 DEF Subscription
  <2>3. /\ AtMost(commands[p], generation[p])
        /\ status[p] = "subscribing" => Awaits(commands[p], generation[p])
    BY <1>3 DEF Subscription
  <2>4. QED
    BY <1>3, <2>1, <2>2, <2>3, AnswerTakesHead
<1>7. ASSUME NEW p \in Processes, Subscribed(p)
      PROVE  Subscriptions'
  <2>1. /\ Answered(p) /\ Head(commands[p]).cmd = "subscribe"
        /\ channel' = [channel EXCEPT ![p] = TRUE]
        /\ status' = [status EXCEPT ![p] =
                IF Current(p, Head(commands[p]).generation)
                  THEN "subscribed" ELSE status[p]]
        /\ UNCHANGED <<generation, retry, handler, orphaned>>
    BY <1>7 DEF Subscribed
  <2>2. channel'[p]
    BY <2>1, Zenon DEF TypeOK
  <2>3. \A q \in Processes \ {p} : Same(q)
    <3>1. \A q \in Processes \ {p} : commands'[q] = commands[q]
      BY <1>6, <2>1
    <3>2. \A q \in Processes \ {p} : status'[q] = status[q]
      BY <2>1
    <3>3. QED
      BY <2>1, <3>1, <3>2, Zenon DEF TypeOK, Same
  <2>4. CASE Current(p, Head(commands[p]).generation)
    <3>1. status[p] = "subscribing" /\ commands'[p] = <<>> /\ status'[p] = "subscribed"
      <4>1. status[p] \notin {"none", "idle", "subscribed"}
        BY <1>6, <2>1, <2>4 DEF Current
      <4>2. status[p] = "subscribing" /\ status'[p] = "subscribed"
        BY <2>1, <2>4, <4>1 DEF TypeOK
      <4>3. QED
        BY <1>6, <2>1, <2>4, <4>2 DEF Current
    <3>2. AtMost(commands'[p], generation'[p])
      BY <1>6, <2>1
    <3>3. (handler'[p] \/ p \in orphaned') /\ ~retry'[p]
      BY <1>3, <2>1, <3>1 DEF Subscription
    <3>4. Renewed(<<>>)
      BY DEF Renewed
    <3>5. Subscription(p)'
      BY <2>2, <3>1, <3>2, <3>3, <3>4 DEF Subscription
    <3>6. QED
      BY <1>2, <2>3, <3>5
  <2>5. CASE ~Current(p, Head(commands[p]).generation)
    <3>1. status'[p] = status[p] /\ status[p] \in {"none", "subscribing"}
      BY <1>6, <2>1, <2>5 DEF TypeOK
    <3>2. AtMost(commands'[p], generation'[p])
      BY <1>6, <2>1
    <3>3. status[p] = "subscribing" => Awaits(commands'[p], generation'[p])
      BY <1>6, <2>1, <2>5 DEF Current
    <3>4. /\ handler'[p] => status[p] = "subscribing"
          /\ status[p] = "subscribing" => handler'[p] \/ p \in orphaned'
          /\ ~retry'[p]
      BY <1>3, <2>1, <3>1 DEF Subscription
    <3>5. Subscription(p)'
      BY <3>1, <3>2, <3>3, <3>4 DEF Subscription
    <3>6. QED
      BY <1>2, <2>3, <3>5
  <2>6. QED
    BY <2>4, <2>5
(* Answers to what no status awaits.                                         *)
<1>8. ASSUME NEW p \in Processes,
             Unsubscribed(p) \/ UnsubscribeFails(p) \/ Resubscribed(p)
      PROVE  Subscriptions'
  <2>1. /\ Answered(p)
        /\ \/ /\ Head(commands[p]).cmd = "unsubscribe"
              /\ \/ channel' = [channel EXCEPT ![p] = FALSE]
                 \/ UNCHANGED channel
           \/ /\ Head(commands[p]).cmd = "resubscribe"
              /\ channel' = [channel EXCEPT ![p] = TRUE]
        /\ UNCHANGED <<status, generation, retry, handler, orphaned>>
    BY <1>8 DEF Unsubscribed, UnsubscribeFails, Resubscribed
  <2>2. \A q \in Processes \ {p} : Same(q)
    <3>1. \A q \in Processes \ {p} : commands'[q] = commands[q]
      BY <1>6, <2>1
    <3>2. \A q \in Processes \ {p} : channel'[q] = channel[q]
      BY <2>1, Zenon DEF TypeOK
    <3>3. QED
      BY <2>1, <3>1, <3>2 DEF Same
  <2>3. AtMost(commands'[p], generation'[p])
    BY <1>6, <2>1
  <2>4. status[p] = "subscribing" => Awaits(commands'[p], generation'[p])
    BY <1>6, <2>1
  <2>5. status[p] \in {"idle", "subscribed"} =>
          Renewed(commands'[p]) /\ Head(commands[p]).cmd = "resubscribe"
    BY <1>6, <2>1
  <2>6. status[p] = "subscribed" => channel'[p]
    <3>1. Head(commands[p]).cmd = "resubscribe" => channel'[p]
      BY <2>1, Zenon DEF TypeOK
    <3>2. QED
      BY <2>5, <3>1
  <2>7. Subscription(p)'
    BY <1>3, <2>1, <2>3, <2>4, <2>5, <2>6 DEF Subscription
  <2>8. QED
    BY <1>2, <2>2, <2>7
<1>9. ASSUME NEW p \in Processes, SubscribeFails(p)
      PROVE  Subscriptions'
  <2> DEFINE current == Current(p, Head(commands[p]).generation)
  <2>1. /\ Answered(p) /\ Head(commands[p]).cmd = "subscribe"
        /\ handler' = [handler EXCEPT ![p] = FALSE]
        /\ status' = [status EXCEPT ![p] = IF current THEN "idle" ELSE status[p]]
        /\ retry' = [retry EXCEPT ![p] = current \/ retry[p]]
        /\ orphaned' = IF handler[p] /\ ~current
                         THEN orphaned \cup {p} ELSE orphaned
        /\ UNCHANGED <<generation, channel>>
    BY <1>9 DEF SubscribeFails
  <2>2. AtMost(commands'[p], generation'[p]) /\ ~handler'[p]
    <3>1. ~handler'[p]
      BY <2>1, Zenon DEF TypeOK
    <3>2. QED
      BY <1>6, <2>1, <3>1
  <2>3. \A q \in Processes \ {p} : Same(q)
    <3>1. \A q \in Processes \ {p} : commands'[q] = commands[q]
      BY <1>6, <2>1
    <3>2. \A q \in Processes \ {p} :
            /\ status'[q] = status[q] /\ (q \in orphaned' <=> q \in orphaned)
      BY <2>1
    <3>3. QED
      BY <2>1, <3>1, <3>2, Zenon DEF TypeOK, Same
  <2>4. CASE current
    <3>1. status[p] = "subscribing" /\ commands'[p] = <<>> /\ status'[p] = "idle"
      <4>1. status[p] \notin {"none", "idle", "subscribed"}
        BY <1>6, <2>1, <2>4 DEF Current
      <4>2. status[p] = "subscribing" /\ status'[p] = "idle"
        BY <2>1, <2>4, <4>1 DEF TypeOK
      <4>3. QED
        BY <1>6, <2>1, <2>4, <4>2 DEF Current
    <3>2. Renewed(<<>>)
      BY DEF Renewed
    <3>3. Subscription(p)'
      BY <2>2, <3>1, <3>2 DEF Subscription
    <3>4. QED
      BY <1>2, <2>3, <3>3
  <2>5. CASE ~current
    <3>1. status'[p] = status[p] /\ status[p] \in {"none", "subscribing"}
      BY <1>6, <2>1, <2>5 DEF TypeOK
    <3>2. status[p] = "subscribing" => Awaits(commands'[p], generation'[p])
      BY <1>6, <2>1, <2>5 DEF Current
    <3>3. status[p] = "subscribing" => p \in orphaned'
      BY <1>3, <2>1, <2>5 DEF Subscription
    <3>4. retry'[p] = retry[p] /\ ~retry[p]
      <4>1. retry[p] = FALSE
        BY <1>3, <3>1, Zenon DEF Subscription, TypeOK
      <4>2. QED
        BY <2>1, <2>5, <4>1, Zenon DEF TypeOK
    <3>5. Subscription(p)'
      BY <2>2, <3>1, <3>2, <3>3, <3>4 DEF Subscription
    <3>6. QED
      BY <1>2, <2>3, <3>5
  <2>6. QED
    BY <2>4, <2>5
<1>10. ASSUME NEW p \in Processes, Retry(p)
       PROVE  Subscriptions'
  <2>1. status[p] = "idle" /\ ~handler[p] /\ Renewed(commands[p])
    BY <1>3, <1>10 DEF Retry, Subscription
  <2>2. /\ retry' = [retry EXCEPT ![p] = FALSE]
        /\ handler' = [handler EXCEPT ![p] = TRUE]
        /\ status' = [status EXCEPT ![p] = "subscribing"]
        /\ commands' = [commands EXCEPT ![p] = Append(commands[p],
             [cmd |-> "subscribe", generation |-> generation[p]])]
        /\ orphaned' = orphaned \ {p}
        /\ UNCHANGED <<generation, channel>>
    BY <1>10, <2>1 DEF Retry, Subscribe, Send, redisVars
  <2>3. /\ AtMost(commands'[p], generation'[p])
        /\ Awaits(commands'[p], generation'[p])
    BY <1>3, <2>1, <2>2, SendAddsLast DEF TypeOK, Subscription
  <2>4. status'[p] = "subscribing"
    BY <2>2 DEF TypeOK
  <2>5. handler'[p] /\ ~retry'[p]
    BY <2>2, Zenon DEF TypeOK
  <2>6. Subscription(p)'
    BY <2>3, <2>4, <2>5 DEF Subscription
  <2>7. \A q \in Processes \ {p} : Same(q)
    BY <2>2, Zenon DEF TypeOK, Same
  <2>8. QED
    BY <1>2, <2>6, <2>7
<1>11. ASSUME NEW p \in Processes, Stop(p)
       PROVE  Subscriptions'
  <2>1. /\ status' = [status EXCEPT ![p] = "none"]
        /\ retry' = [retry EXCEPT ![p] = FALSE]
        /\ handler' = [handler EXCEPT ![p] = FALSE]
        /\ commands' = [commands EXCEPT ![p] = <<>>]
        /\ channel' = [channel EXCEPT ![p] = FALSE]
        /\ orphaned' = orphaned \ {p}
        /\ UNCHANGED generation
    BY <1>11 DEF Stop
  <2>2. status'[p] = "none" /\ commands'[p] = <<>>
    BY <2>1 DEF TypeOK
  <2>3. ~handler'[p] /\ ~retry'[p]
    BY <2>1, Zenon DEF TypeOK
  <2>4. AtMost(<<>>, generation'[p])
    BY DEF AtMost
  <2>5. Subscription(p)'
    BY <2>2, <2>3, <2>4 DEF Subscription
  <2>6. \A q \in Processes \ {p} : Same(q)
    BY <2>1, Zenon DEF TypeOK, Same
  <2>7. QED
    BY <1>2, <2>5, <2>6
<1>12. ASSUME \/ \E p \in Processes : Receive(p)
              \/ \E p \in Processes, e \in Events : Emit(p, e)
              \/ \E e \in Events :
                   Publish(e) \/ PublishUnanswered(e) \/ PublishFails(e)
              \/ UNCHANGED vars
       PROVE  Subscriptions'
  <2>1. UNCHANGED <<fanoutVars, channel>>
    BY <1>12 DEF Receive, Emit, Publish, PublishUnanswered, PublishFails, vars,
       redisVars
  <2>2. \A q \in Processes : Same(q)
    BY <2>1 DEF Same, fanoutVars
  <2>3. QED
    BY <1>1, <2>2 DEF Subscriptions
<1>13. ASSUME NEW p \in Processes, LoseConnection(p)
       PROVE  Subscriptions'
  <2> DEFINE s == commands[p]
             r == <<[cmd |-> "resubscribe"]>> \o s
  <2>1. /\ channel' = [channel EXCEPT ![p] = FALSE]
        /\ commands' = [commands EXCEPT ![p] = IF channel[p] THEN r ELSE s]
        /\ UNCHANGED <<status, generation, retry, handler, orphaned>>
    BY <1>13 DEF LoseConnection
  <2>2. /\ AtMost(s, generation[p]) => AtMost(r, generation[p])
        /\ Awaits(s, generation[p]) => Awaits(r, generation[p])
        /\ Renewed(s) => Renewed(r)
        /\ r # <<>>
    BY <1>3, RenewalComesFirst
  <2>3. commands'[p] = r \/ (~channel[p] /\ commands'[p] = s)
    BY <2>1 DEF TypeOK
  <2> HIDE DEF r
  <2>4. Subscription(p)'
    BY <1>3, <2>1, <2>2, <2>3 DEF Subscription
  <2>5. \A q \in Processes \ {p} : Same(q)
    BY <2>1, Zenon DEF TypeOK, Same
  <2>6. QED
    BY <1>2, <2>4, <2>5
<1>14. QED
  BY <1>4, <1>5, <1>7, <1>8, <1>9, <1>10, <1>11, <1>12, <1>13 DEF Next, Answer

(* A process that counts on its subscription hears the other processes,     *)
(* whatever was unanswered when its last listener left and the next one came,  *)
(* and whichever commands fail or connections are lost; the failure of an earlier *)
(* subscription, which deletes the handler of the present one, is the only way   *)
(* to make it deaf.                                                        *)
THEOREM SubscribedAlwaysHears == Spec => []SubscribedHears
<1>1. Init => Subscriptions
  <2>1. SUFFICES ASSUME Init, NEW p \in Processes PROVE Subscription(p)
    BY DEF Subscriptions
  <2>2. status[p] = "none" /\ commands[p] = <<>>
    BY <2>1 DEF Init
  <2>3. ~handler[p] /\ ~retry[p]
    BY <2>1, Zenon DEF Init
  <2>4. AtMost(<<>>, generation[p])
    BY DEF AtMost
  <2>5. QED
    BY <2>2, <2>3, <2>4 DEF Subscription
<1>2. TypeInv /\ TypeInv' /\ Subscriptions /\ [Next]_vars => Subscriptions'
  BY SubscriptionsStep DEF TypeInv
<1>3. Subscriptions => SubscribedHears
  BY DEF Subscriptions, Subscription, SubscribedHears
<1>4. QED
  BY <1>1, <1>2, <1>3, TypeInvariant, PTL DEF Spec

=============================================================================
