--------------------------- MODULE InboxPageProofs ---------------------------
(* Proofs about InboxPage, for every choice of its constants.               *)
EXTENDS InboxPage, SequenceTheorems, TLAPS

-----------------------------------------------------------------------------
(* Bags of calls, as sets, and the larger of two numbers.                   *)

LEMMA BagSets ==
  ASSUME NEW B, NEW x, NEW R
  PROVE  /\ BagToSet(BagAdd(B, x)) = BagToSet(B) \cup {x}
         /\ BagToSet(BagRemove(B, x)) \subseteq BagToSet(B)
         /\ BagToSet(B) \ {x} \subseteq BagToSet(BagRemove(B, x))
         /\ BagToSet(B (+) SetToBag(R)) = BagToSet(B) \cup R
         /\ BagToSet(EmptyBag) = {}
  BY DEF BagToSet, BagAdd, BagRemove, SetToBag, EmptyBag, (+)

LEMMA MaxOfTwo ==
  ASSUME NEW a \in Nat, NEW b \in Nat
  PROVE  Max({a, b}) \in {a, b} /\ Max({a, b}) >= a /\ Max({a, b}) >= b
  BY DEF Max

Sent == BagToSet(calls)

(* What a step does to the calls in flight: it sends some, turns one into its *)
(* answer, or is the end of one.                                            *)
LEMMA CallSteps ==
  /\ \A R : Send(R) => Sent' = Sent \cup R
  /\ \A call, answer : Answer(call, answer) =>
       /\ Sent \ {call} \subseteq Sent' /\ Sent' \subseteq Sent \cup {answer}
       /\ answer \in Sent'
  /\ \A call : Finish(call) =>
       /\ Sent \ {call} \subseteq Sent' /\ Sent' \subseteq Sent \cup FollowUp(call)
       /\ FollowUp(call) \subseteq Sent'
<1>1. \A R : Send(R) => Sent' = Sent \cup R
  BY BagSets DEF Send, Sent
<1>2. ASSUME NEW call, NEW answer, Answer(call, answer)
      PROVE  /\ Sent \ {call} \subseteq Sent' /\ Sent' \subseteq Sent \cup {answer}
             /\ answer \in Sent'
  <2>1. Sent' = BagToSet(BagRemove(calls, call)) \cup {answer}
    BY <1>2, BagSets DEF Answer, Sent
  <2>2. QED
    BY <2>1, BagSets DEF Sent
<1>3. ASSUME NEW call, Finish(call)
      PROVE  /\ Sent \ {call} \subseteq Sent' /\ Sent' \subseteq Sent \cup FollowUp(call)
             /\ FollowUp(call) \subseteq Sent'
  <2>1. Sent' = BagToSet(BagRemove(calls, call)) \cup FollowUp(call)
    BY <1>3, BagSets DEF Finish, Sent
  <2>2. QED
    BY <2>1, BagSets DEF Sent
<1>4. QED
  BY <1>1, <1>2, <1>3

-----------------------------------------------------------------------------
(* Types.                                                                  *)

EventType == {"conversation", "note"} \X Conversations

Patches == {"assignee", "status"}

CallType ==
  [kind : Kinds, of : Conversations \cup {None}, filter : Filters,
   to : Statuses \cup Members \cup Tags \cup {None},
   prior : Item \cup {None}, knew : Nat, by : {"page", "send", "simulate"},
   phase : {"sent", "answered", "refused", "lost"}, seen : Nat, read : BOOLEAN]

ServerTypes ==
  /\ history \in Seq([Conversations -> Row]) /\ Version >= 1
  /\ events \in Seq(EventType)

PageTypes ==
  /\ filter \in Filters
  /\ DOMAIN list \subseteq Conversations /\ list \in [DOMAIN list -> Item]
  /\ selected \in DOMAIN list \cup {None} /\ active \in Conversations \cup {None}
  /\ messages \in Shown /\ notes \in Shown

GhostTypes ==
  /\ known \in [Parts -> Nat] /\ excused \subseteq Parts
  /\ \A p \in Parts : known[p] <= Version
  /\ known["list"] >= 1

(* The server's history only grows, and a commit changes one row of it.     *)
Extends ==
  /\ Version' \in {Version, Version + 1}
  /\ \A v \in 1 .. Version : history'[v] = history[v]

LEMMA CommitExtends ==
  ASSUME ServerTypes, NEW c \in Conversations, NEW row \in Row,
         NEW event \in {"conversation", "note"}, NEW told \in BOOLEAN,
         Commit(c, row, event, told)
  PROVE  /\ ServerTypes' /\ Extends
         /\ Now'[c] = row /\ \A d \in Conversations \ {c} : Now'[d] = Now[d]
         /\ \/ history' = history /\ row = Now[c]
            \/ Version' = Version + 1 /\ row # Now[c]
<1>1. /\ Version \in Nat /\ Version >= 1 /\ Now \in [Conversations -> Row]
      /\ \A v \in 1 .. Version : history[v] \in [Conversations -> Row]
  BY LenProperties DEF ServerTypes, Version, Now
<1>2. events' \in Seq(EventType)
  <2>1. <<event, c>> \in EventType
    BY DEF EventType
  <2>2. Append(events, <<event, c>>) \in Seq(EventType)
    BY <2>1, AppendProperties DEF ServerTypes
  <2>3. events' = events \/ events' = Append(events, <<event, c>>)
    BY DEF Commit
  <2>4. QED
    BY <2>2, <2>3 DEF ServerTypes
<1>3. CASE row = Now[c]
  <2>1. history' = history
    BY <1>3 DEF Commit
  <2>2. QED
    BY <1>1, <1>2, <1>3, <2>1 DEF ServerTypes, Extends, Version, Now
<1>4. CASE row # Now[c]
  <2> DEFINE next == [Now EXCEPT ![c] = row]
  <2>1. history' = Append(history, next)
    BY <1>4 DEF Commit
  <2>2. next \in [Conversations -> Row]
    BY <1>1
  <2> HIDE DEF next
  <2>3. /\ history' \in Seq([Conversations -> Row]) /\ Version' = Version + 1
        /\ \A v \in 1 .. Version : history'[v] = history[v]
        /\ history'[Version + 1] = next
    BY <2>1, <2>2, AppendProperties DEF ServerTypes, Version
  <2>4. Now' = next
    BY <2>3 DEF Now, Version
  <2>5. next[c] = row /\ \A d \in Conversations \ {c} : next[d] = Now[d]
    BY <1>1 DEF next
  <2>6. QED
    BY <1>1, <1>2, <1>4, <2>3, <2>4, <2>5 DEF ServerTypes, Extends
<1>5. QED
  BY <1>3, <1>4

LEMMA Quietly ==
  ASSUME ServerTypes, UNCHANGED history
  PROVE  Extends /\ Now' = Now /\ Version' = Version
  BY LenProperties DEF ServerTypes, Extends, Version, Now

-----------------------------------------------------------------------------
(* What the parts of the page show of a state, and since when it is so.     *)

View(p, v) ==
  IF p = "list"
    THEN [c \in Conversations |->
            [item |-> history[v][c].item, messages |-> history[v][c].messages]]
  ELSE IF p = "messages" THEN history[v][active].messages
  ELSE history[v][active].notes

Same(p, w) ==
  w \in 1 .. Version /\ \A v \in w .. Version : View(p, v) = View(p, Version)

(* There are no messages and notes without an active conversation.          *)
Works(p) == p = "list" \/ active # None

LEMMA SameList ==
  ASSUME NEW w, Same("list", w), NEW v \in w .. Version, NEW c \in Conversations
  PROVE  /\ history[v][c].item = Now[c].item
         /\ history[v][c].messages = Now[c].messages
<1>1. View("list", v) = View("list", Version)
  BY DEF Same
<1>2. View("list", v)[c] = View("list", Version)[c]
  BY <1>1
<1>3. QED
  BY <1>2 DEF View, Now

LEMMA SameNow ==
  ASSUME ServerTypes, NEW p
  PROVE  Same(p, Version)
  BY LenProperties DEF ServerTypes, Same, Version

LEMMA SameUp ==
  ASSUME ServerTypes, NEW p, NEW w, NEW u \in Nat, Same(p, w), w <= u, u <= Version
  PROVE  Same(p, u)
  BY LenProperties DEF ServerTypes, Same, Version

(* A later state can only be the same since w if this one is.               *)
LEMMA SameBefore ==
  ASSUME ServerTypes, Extends, NEW p \in Parts, p = "list" \/ active' = active,
         NEW w, w <= Version, Same(p, w)'
  PROVE  /\ Same(p, w) /\ View(p, Version)' = View(p, Version)
<1>1. Version \in Nat /\ Version >= 1 /\ Version' \in {Version, Version + 1}
  BY LenProperties DEF ServerTypes, Extends, Version
<1>2. ASSUME NEW v \in 1 .. Version
      PROVE  View(p, v)' = View(p, v)
  BY <1>2 DEF Extends, View, Parts
<1>3. w \in 1 .. Version
  BY <1>1 DEF Same
<1>4. \A v \in w .. Version : View(p, v)' = View(p, Version)'
  BY <1>1, <1>3 DEF Same
<1>5. View(p, Version)' = View(p, Version)
  BY <1>1, <1>2, <1>3, <1>4
<1>6. QED
  BY <1>1, <1>2, <1>3, <1>4, <1>5 DEF Same

(* It is the same since w again if what is new looks like what was there.   *)
LEMMA SameAfter ==
  ASSUME ServerTypes, Extends, NEW p \in Parts, p = "list" \/ active' = active,
         NEW w, Same(p, w), View(p, Version)' = View(p, Version)
  PROVE  Same(p, w)'
<1>1. Version \in Nat /\ Version >= 1 /\ Version' \in {Version, Version + 1}
  BY LenProperties DEF ServerTypes, Extends, Version
<1>2. ASSUME NEW v \in 1 .. Version
      PROVE  View(p, v)' = View(p, v)
  BY <1>2 DEF Extends, View, Parts
<1>3. ASSUME NEW v \in w .. Version'
      PROVE  View(p, v)' = View(p, Version)'
  <2>1. CASE v \in w .. Version
    BY <1>1, <1>2, <2>1 DEF Same
  <2>2. CASE v = Version'
    BY <2>2
  <2>3. QED
    BY <1>1, <1>3, <2>1, <2>2 DEF Same
<1>4. QED
  BY <1>1, <1>3 DEF Same

-----------------------------------------------------------------------------
(* Calls in flight.                                                        *)

(* Whom a call is about, and what the user and the page put into it.        *)
Addressed(call) ==
  /\ call \in CallType
  /\ call.kind \notin {"list", "simulate"} => call.of \in Conversations
  /\ call.kind \in {"list", "simulate"} => call.of = None
  /\ call.kind = "status" => call.to \in Statuses
  /\ call.kind = "assignee" => call.to \in Members
  /\ call.kind \in TagRequests => call.to \in Tags
  /\ call.kind \in Patches \cup TagRequests => call.prior \in Item
  /\ call.knew <= Version /\ call.seen <= Version

(* What an answer says of the state it is from.                             *)
Replies(call) ==
  call.phase = "answered" =>
    /\ call.seen \in 1 .. Version /\ call.knew <= call.seen
    /\ call.read => ~history[call.seen][call.of].item.unread
    /\ call.kind = "assignee" => history[call.seen][call.of].item.assignee = call.to
    /\ call.kind = "status" => history[call.seen][call.of].item.status = call.to
    /\ call.kind = "addTag" => call.to \in history[call.seen][call.of].item.tags
    /\ call.kind = "removeTag" => call.to \notin history[call.seen][call.of].item.tags
    /\ call.kind = "addNote" =>
         /\ call.seen > 1
         /\ history[call.seen - 1][call.of].notes # history[call.seen][call.of].notes

(* What the page remembers for a call is right while nothing has changed    *)
(* since the state it knew.                                                 *)
Remembers(call) ==
  Same("list", call.knew) =>
    /\ call.kind = "assignee" => call.prior.assignee = Now[call.of].item.assignee
    /\ call.kind = "status" => call.prior.status = Now[call.of].item.status
    /\ call.kind \in TagRequests => call.prior.tags = Now[call.of].item.tags

Proper(call) == Addressed(call) /\ Replies(call) /\ Remembers(call)

LEMMA ProperKept ==
  ASSUME ServerTypes, Extends, NEW call, Proper(call)
  PROVE  Proper(call)'
<1>1. Version \in Nat /\ Version >= 1 /\ Version' \in Nat /\ Version <= Version'
  BY LenProperties DEF ServerTypes, Extends, Version
<1>2. call.knew \in Nat /\ call.seen \in Nat
  BY DEF Proper, Addressed, CallType
<1>3. Addressed(call)'
  BY <1>1, <1>2 DEF Proper, Addressed
<1>4. Replies(call)'
  <2>1. CASE call.phase = "answered"
    <3>1. call.seen \in 1 .. Version
      BY <2>1 DEF Proper, Replies
    <3>2. history'[call.seen] = history[call.seen]
      BY <3>1 DEF Extends
    <3>3. call.seen > 1 => history'[call.seen - 1] = history[call.seen - 1]
      BY <1>1, <3>1 DEF Extends
    <3>4. QED
      BY <1>1, <3>1, <3>2, <3>3 DEF Proper, Replies
  <2>2. QED
    BY <2>1 DEF Replies
<1>5. Remembers(call)'
  <2>1. SUFFICES ASSUME Same("list", call.knew)' PROVE Remembers(call)'
    BY DEF Remembers
  <2>2. Same("list", call.knew) /\ View("list", Version)' = View("list", Version)
    BY <2>1, SameBefore DEF Proper, Addressed, Parts
  <2>3. \A c \in Conversations : Now'[c].item = Now[c].item
    <3>1. TAKE c \in Conversations
    <3>2. View("list", Version)'[c] = View("list", Version)[c]
      BY <2>2
    <3>3. QED
      BY <3>2 DEF View, Now
  <2>4. QED
    BY <2>2, <2>3 DEF Proper, Addressed, Remembers, TagRequests, Patches
<1>6. QED
  BY <1>3, <1>4, <1>5 DEF Proper

(* A request of the page, before the server has handled it, and a copy of a  *)
(* call that failed, are proper.                                            *)
Plain(call) ==
  /\ call \in CallType
  /\ call.kind \in {"list", "messages", "notes", "send", "simulate"}
  /\ call.kind \in {"messages", "notes", "send"} => call.of \in Conversations
  /\ call.kind \in {"list", "simulate"} => call.of = None
  /\ call.knew = 0 /\ call.seen = 0 /\ call.phase = "sent"

LEMMA PlainIsProper ==
  ASSUME ServerTypes, NEW call, Plain(call)
  PROVE  Proper(call)
<1>1. Version \in Nat /\ Version >= 1
  BY LenProperties DEF ServerTypes, Version
<1>2. ~Same("list", 0)
  BY DEF Same
<1>3. QED
  BY <1>1, <1>2
     DEF Plain, Proper, Addressed, Replies, Remembers, TagRequests, Patches

LEMMA RequestIsPlain ==
  ASSUME NEW kind, NEW of, NEW f \in Filters,
         NEW by \in {"page", "send", "simulate"},
         \/ kind \in {"list", "simulate"} /\ of = None
         \/ kind \in {"messages", "notes", "send"} /\ of \in Conversations
  PROVE  /\ Plain(Request(kind, of)) /\ Plain([Request(kind, of) EXCEPT !.filter = f])
         /\ Plain([[Request(kind, of) EXCEPT !.filter = f] EXCEPT !.by = by])
         /\ Plain([Request(kind, of) EXCEPT !.filter = f, !.by = by])
         /\ Plain([Request(kind, of) EXCEPT !.by = by])
<1>1. Plain(Request(kind, of))
  BY DEF Request, Plain, CallType, Kinds, Filters
<1>2. Plain([Request(kind, of) EXCEPT !.filter = f])
  BY DEF Request, Plain, CallType, Kinds, Filters
<1>3. Plain([[Request(kind, of) EXCEPT !.filter = f] EXCEPT !.by = by])
  BY DEF Request, Plain, CallType, Kinds, Filters
<1>4. Plain([Request(kind, of) EXCEPT !.filter = f, !.by = by])
  BY DEF Request, Plain, CallType, Kinds, Filters
<1>5. Plain([Request(kind, of) EXCEPT !.by = by])
  BY DEF Request, Plain, CallType, Kinds, Filters
<1>6. QED
  BY <1>1, <1>2, <1>3, <1>4, <1>5

LEMMA FailedIsProper ==
  ASSUME NEW call, Proper(call), NEW phase \in {"refused", "lost"}
  PROVE  /\ Proper([call EXCEPT !.phase = phase])
         /\ [call EXCEPT !.phase = phase].kind = call.kind
         /\ [call EXCEPT !.phase = phase].of = call.of
         /\ [call EXCEPT !.phase = phase].filter = call.filter
         /\ [call EXCEPT !.phase = phase].to = call.to
         /\ [call EXCEPT !.phase = phase].phase = phase
<1> DEFINE answer == [call EXCEPT !.phase = phase]
<1>1. /\ answer \in CallType /\ answer.kind = call.kind /\ answer.of = call.of
      /\ answer.filter = call.filter /\ answer.to = call.to
      /\ answer.prior = call.prior /\ answer.knew = call.knew
      /\ answer.phase = phase /\ answer.seen = call.seen
  BY DEF Proper, Addressed, CallType
<1> HIDE DEF answer
<1>2. Proper(answer)
  BY <1>1 DEF Proper, Addressed, Replies, Remembers
<1>3. QED
  BY <1>1, <1>2 DEF answer

-----------------------------------------------------------------------------
(* Whether news of a part are on their way: a fetch that will see them, or an *)
(* event that will cause one.  Otherwise the page knows the latest.         *)

AllProper == \A call \in Sent : Proper(call)

Fetches(call, p) == call.kind = p /\ (p = "list" \/ call.of = active)

Fetching(p) ==
  \E call \in Sent :
    Fetches(call, p) /\ (call.phase = "answered" => Same(p, call.seen))

Announced(p) == \E i \in 1 .. Len(events) : p \in Touched(events[i])

CaughtUp(p) == Fetching(p) \/ Announced(p) \/ Same(p, known[p])

(* A step that shows nothing new of a part: what changes about it is         *)
(* announced, or the ghosts record that it is missed.                       *)
Missed(p) == known'[p] = Version' /\ p \in excused'

Moves(p) ==
  /\ known'[p] = known[p] \/ Missed(p)
  /\ p \in excused => p \in excused'
  /\ Announced(p) => Announced(p)' \/ Missed(p)
  /\ Announced(p)' \/ Missed(p) \/ View(p, Version)' = View(p, Version)

(* A call stays as it is, or is answered now, or fails.                     *)
Stays(call) ==
  \E next \in Sent' :
    /\ next.kind = call.kind /\ next.of = call.of
    /\ next.filter = call.filter /\ next.to = call.to
    /\ next # call => (next.phase = "answered" => next.seen = Version')

CallsStay == \A call \in Sent : Stays(call)

CallsKeep(p) == \A call \in Sent : Fetches(call, p) => Stays(call)

LEMMA CaughtUpKept ==
  ASSUME ServerTypes, ServerTypes', Extends, AllProper, NEW p \in Parts,
         p = "list" \/ active' = active, Moves(p), CallsKeep(p), CaughtUp(p)
  PROVE  CaughtUp(p)'
<1>1. ServerTypes' => Same(p, Version)'
  BY SameNow, PTL
<1>2. CASE Announced(p)' \/ Missed(p)
  BY <1>1, <1>2 DEF CaughtUp, Missed
<1>3. CASE View(p, Version)' = View(p, Version) /\ ~Announced(p) /\ known'[p] = known[p]
  <2>1. CASE Same(p, known[p])
    BY <1>3, <2>1, SameAfter DEF CaughtUp
  <2>2. CASE Fetching(p)
    <3>1. PICK call \in Sent :
            Fetches(call, p) /\ (call.phase = "answered" => Same(p, call.seen))
      BY <2>2 DEF Fetching
    <3>2. PICK next \in Sent' :
            /\ next.kind = call.kind /\ next.of = call.of
            /\ next # call => (next.phase = "answered" => next.seen = Version')
      BY <3>1 DEF CallsKeep, Stays
    <3>3. next.phase = "answered" => Same(p, next.seen)'
      <4>1. CASE next = call
        BY <1>3, <3>1, <4>1, SameAfter
      <4>2. CASE next # call
        BY <1>1, <3>2, <4>2
      <4>3. QED
        BY <4>1, <4>2
    <3>4. Fetches(next, p)'
      BY <3>1, <3>2 DEF Fetches
    <3>5. QED
      BY <3>3, <3>4 DEF CaughtUp, Fetching
  <2>3. QED
    BY <1>3, <2>1, <2>2 DEF CaughtUp
<1>4. QED
  BY <1>2, <1>3 DEF Moves

LEMMA TouchedParts ==
  ASSUME NEW event \in EventType
  PROVE  /\ Touched(event) \subseteq Parts
         /\ "list" \in Touched(event) <=> event[1] = "conversation"
         /\ "messages" \in Touched(event) <=> event[1] = "conversation" /\ event[2] = active
         /\ "notes" \in Touched(event) <=> event[1] = "note" /\ event[2] = active
  BY DEF EventType, Touched, Parts

(* A commit is announced to the parts that show what it changes, or missed  *)
(* by them, while the stream is closed or because nobody is told.           *)
LEMMA CommitMoves ==
  ASSUME ServerTypes, PageTypes, NEW c \in Conversations, NEW row \in Row,
         NEW event \in {"conversation", "note"}, NEW told \in BOOLEAN,
         Commit(c, row, event, told), active' = active,
         event = "note" => row.item = Now[c].item /\ row.messages = Now[c].messages,
         event = "conversation" => row.notes = Now[c].notes,
         NEW p \in Parts, Works(p)
  PROVE  Moves(p)
<1> DEFINE e == <<event, c>>
<1>1. e \in EventType /\ e[1] = event /\ e[2] = c
  BY DEF EventType
<1> HIDE DEF e
<1>2. /\ ServerTypes' /\ Extends /\ Now'[c] = row
      /\ \A d \in Conversations \ {c} : Now'[d] = Now[d]
  BY CommitExtends
<1>3. p \notin Touched(e) => View(p, Version)' = View(p, Version)
  <2>1. CASE p = "list"
    <3>1. p \notin Touched(e) =>
            \A d \in Conversations : /\ Now'[d].item = Now[d].item
                                     /\ Now'[d].messages = Now[d].messages
      BY <1>1, <1>2, <2>1, TouchedParts
    <3>2. QED
      BY <2>1, <3>1 DEF View, Now
  <2>2. CASE p = "messages"
    <3>1. active \in Conversations
      BY <2>2 DEF Works, PageTypes
    <3>2. p \notin Touched(e) => Now'[active].messages = Now[active].messages
      BY <1>1, <1>2, <2>2, <3>1, TouchedParts
    <3>3. QED
      BY <2>2, <3>2 DEF View, Now
  <2>3. CASE p = "notes"
    <3>1. active \in Conversations
      BY <2>3 DEF Works, PageTypes
    <3>2. p \notin Touched(e) => Now'[active].notes = Now[active].notes
      BY <1>1, <1>2, <2>3, <3>1, TouchedParts
    <3>3. QED
      BY <2>3, <3>2 DEF View, Now
  <2>4. QED
    BY <2>1, <2>2, <2>3 DEF Parts
<1>4. CASE told /\ stream = "open"
  <2>1. events' = Append(events, e) /\ UNCHANGED <<known, excused>>
    BY <1>4 DEF Commit, ghostVars, e
  <2>2. /\ Len(events) \in Nat /\ Len(events') = Len(events) + 1
        /\ events'[Len(events) + 1] = e
        /\ \A i \in 1 .. Len(events) : events'[i] = events[i]
    BY <1>1, <2>1, AppendProperties, LenProperties DEF ServerTypes
  <2>3. \A f : Touched(f)' = Touched(f)
    BY DEF Touched
  <2>4. p \in Touched(e) => Announced(p)'
    BY <2>2, <2>3 DEF Announced
  <2>5. Announced(p) => Announced(p)'
    BY <2>2, <2>3 DEF Announced
  <2>6. QED
    BY <1>3, <2>1, <2>4, <2>5 DEF Moves
<1>5. CASE ~(told /\ stream = "open")
  <2>1. Misses(Touched(e), Len(history')) /\ UNCHANGED events
    BY <1>5 DEF Commit, e
  <2>2. /\ p \in Touched(e) => Missed(p)
        /\ p \notin Touched(e) => known'[p] = known[p]
        /\ p \in excused => p \in excused'
    BY <2>1 DEF Misses, Missed, Version
  <2>3. Announced(p) => Announced(p)'
    BY <2>1 DEF Announced, Touched
  <2>4. QED
    BY <1>3, <2>2, <2>3 DEF Moves
<1>6. QED
  BY <1>4, <1>5

LEMMA GhostSteps ==
  ASSUME ServerTypes, ServerTypes', Extends, GhostTypes,
         \/ UNCHANGED known /\ excused' \subseteq Parts
         \/ \E parts \in SUBSET Parts : Misses(parts, Version')
  PROVE  GhostTypes'
<1>1. /\ Version \in Nat /\ Version' \in Nat /\ Version >= 1 /\ Version <= Version'
  BY LenProperties DEF ServerTypes, Extends, Version
<1>2. CASE UNCHANGED known /\ excused' \subseteq Parts
  BY <1>1, <1>2 DEF GhostTypes, Parts
<1>3. ASSUME NEW parts \in SUBSET Parts, Misses(parts, Version')
      PROVE  GhostTypes'
  <2>1. /\ known' = [p \in Parts |-> IF p \in parts THEN Version' ELSE known[p]]
        /\ excused' = excused \cup parts
    BY <1>3 DEF Misses
  <2>2. \A p \in Parts : known[p] \in Nat /\ known[p] <= Version /\ "list" \in Parts
    BY DEF GhostTypes, Parts
  <2>3. /\ known' \in [Parts -> Nat] /\ \A p \in Parts : known'[p] <= Version'
    BY <1>1, <2>1, <2>2
  <2>4. known'["list"] >= 1
    BY <1>1, <2>1, <2>2 DEF GhostTypes
  <2>5. QED
    BY <2>1, <2>3, <2>4 DEF GhostTypes
<1>4. QED
  BY <1>2, <1>3

-----------------------------------------------------------------------------
(* Steps of the server.                                                    *)

(* What a step of the server or the stream leaves true.                     *)
ServerStep ==
  /\ ServerTypes' /\ GhostTypes' /\ Extends
  /\ \A p \in Parts : Works(p) => Moves(p)

LEMMA CommitIsStep ==
  ASSUME ServerTypes, PageTypes, GhostTypes,
         NEW c \in Conversations, NEW row \in Row,
         NEW event \in {"conversation", "note"}, NEW told \in BOOLEAN,
         Commit(c, row, event, told), active' = active,
         event = "note" => row.item = Now[c].item /\ row.messages = Now[c].messages,
         event = "conversation" => row.notes = Now[c].notes
  PROVE  ServerStep /\ Now'[c] = row
<1>1. /\ ServerTypes' /\ Extends /\ Now'[c] = row
  BY CommitExtends
<1>2. \A p \in Parts : Works(p) => Moves(p)
  BY CommitMoves
<1>3. Touched(<<event, c>>) \subseteq Parts
  BY TouchedParts DEF EventType
<1>4. \/ UNCHANGED ghostVars
      \/ Misses(Touched(<<event, c>>), Version')
  BY DEF Commit, Version
<1>5. GhostTypes'
  BY <1>1, <1>3, <1>4, GhostSteps DEF ghostVars, GhostTypes
<1>6. QED
  BY <1>1, <1>2, <1>5 DEF ServerStep

LEMMA QuietIsStep ==
  ASSUME ServerTypes, GhostTypes, UNCHANGED <<history, events, active>>,
         \/ UNCHANGED known /\ excused \subseteq excused' /\ excused' \subseteq Parts
         \/ \E parts \in SUBSET Parts : Misses(parts, Version)
  PROVE  ServerStep
<1>1. Extends /\ ServerTypes' /\ Version' = Version
  BY Quietly DEF ServerTypes, Version
<1>2. GhostTypes'
  BY <1>1, GhostSteps
<1>3. ASSUME NEW p \in Parts
      PROVE  Moves(p)
  <2>1. known'[p] = known[p] \/ Missed(p)
    BY <1>1 DEF Misses, Missed
  <2>2. p \in excused => p \in excused'
    BY DEF Misses
  <2>3. Announced(p) => Announced(p)'
    BY DEF Announced, Touched
  <2>4. View(p, Version)' = View(p, Version)
    BY <1>1 DEF View
  <2>5. QED
    BY <2>1, <2>2, <2>3, <2>4 DEF Moves
<1>4. QED
  BY <1>1, <1>2, <1>3 DEF ServerStep

LEMMA ToggleChanges ==
  /\ \A x \in Statuses : Toggle(x, Statuses) \in Statuses
  /\ \A x \in Members : Toggle(x, Members) \in Members
  BY DEF Toggle, Statuses, Members

LEMMA NowTypes ==
  ASSUME ServerTypes
  PROVE  /\ Version \in Nat /\ Version >= 1 /\ Now \in [Conversations -> Row]
         /\ \A v \in 1 .. Version : history[v] \in [Conversations -> Row]
  BY LenProperties DEF ServerTypes, Version, Now

LEMMA ChangeElsewhereStep ==
  ASSUME ServerTypes, PageTypes, GhostTypes, NEW c \in Conversations,
         ChangeElsewhere(c)
  PROVE  ServerStep
<1> DEFINE row == Now[c]
<1>1. row \in Row /\ active' = active
  BY NowTypes DEF ChangeElsewhere, pageVars
<1>2. /\ row.item \in Item /\ row.messages \in Nat /\ row.notes \in Nat
      /\ row.item.status \in Statuses /\ row.item.assignee \in Members
      /\ row.item.tags \in SUBSET Tags
  BY <1>1 DEF Row, Item
<1>0. PICK told \in BOOLEAN :
         \/ Commit(c, [row EXCEPT !.messages = @ + 1, !.item.unread = TRUE],
                   "conversation", told)
         \/ Commit(c, [row EXCEPT !.item.status = Toggle(@, Statuses)],
                   "conversation", told)
         \/ Commit(c, [row EXCEPT !.item.assignee = Toggle(@, Members)],
                   "conversation", told)
         \/ \E t \in Tags :
              Commit(c, [row EXCEPT !.item.tags = IF t \in @ THEN @ \ {t} ELSE @ \cup {t}],
                     "conversation", told)
         \/ Commit(c, [row EXCEPT !.notes = @ + 1], "note", told)
  BY DEF ChangeElsewhere
<1>3. CASE Commit(c, [row EXCEPT !.messages = @ + 1, !.item.unread = TRUE],
                  "conversation", told)
  <2> DEFINE new == [row EXCEPT !.messages = @ + 1, !.item.unread = TRUE]
             item == [row.item EXCEPT !.unread = TRUE]
  <2>1. item \in Item
    BY <1>2 DEF Item
  <2>2. new = [row EXCEPT !.messages = row.messages + 1, !.item = item]
    BY <1>1 DEF Row
  <2> HIDE DEF item
  <2>3. \A i \in Item, n \in Nat :
          LET other == [row EXCEPT !.messages = n, !.item = i] IN
          other \in Row /\ other.notes = row.notes
    BY <1>1 DEF Row
  <2>4. new \in Row /\ new.notes = row.notes
    <3>1. row.messages + 1 \in Nat
      BY <1>2
    <3> HIDE DEF new
    <3>2. QED
      BY <2>1, <2>2, <2>3, <3>1
  <2>5. QED
    BY <1>1, <1>3, <2>4, CommitIsStep
<1>4. CASE Commit(c, [row EXCEPT !.item.status = Toggle(@, Statuses)], "conversation", told)
  <2> DEFINE new == [row EXCEPT !.item.status = Toggle(@, Statuses)]
  <2>1. new \in Row /\ new.notes = row.notes
    BY <1>1, <1>2, ToggleChanges DEF Row, Item
  <2>2. QED
    BY <1>1, <1>4, <2>1, CommitIsStep
<1>5. CASE Commit(c, [row EXCEPT !.item.assignee = Toggle(@, Members)], "conversation", told)
  <2> DEFINE new == [row EXCEPT !.item.assignee = Toggle(@, Members)]
  <2>1. new \in Row /\ new.notes = row.notes
    BY <1>1, <1>2, ToggleChanges DEF Row, Item
  <2>2. QED
    BY <1>1, <1>5, <2>1, CommitIsStep
<1>6. ASSUME NEW t \in Tags,
             Commit(c, [row EXCEPT !.item.tags = IF t \in @ THEN @ \ {t} ELSE @ \cup {t}],
                    "conversation", told)
      PROVE  ServerStep
  <2> DEFINE new == [row EXCEPT !.item.tags = IF t \in @ THEN @ \ {t} ELSE @ \cup {t}]
  <2>1. new \in Row /\ new.notes = row.notes
    BY <1>1, <1>2 DEF Row, Item
  <2>2. QED
    BY <1>1, <1>6, <2>1, CommitIsStep
<1>7. CASE Commit(c, [row EXCEPT !.notes = @ + 1], "note", told)
  <2> DEFINE new == [row EXCEPT !.notes = @ + 1]
  <2>1. new \in Row /\ new.item = row.item /\ new.messages = row.messages
    BY <1>1, <1>2 DEF Row
  <2>2. QED
    BY <1>1, <1>7, <2>1, CommitIsStep
<1>8. QED
  BY <1>0, <1>3, <1>4, <1>5, <1>6, <1>7

LEMMA WrittenRow ==
  ASSUME NEW call, Addressed(call), NEW row \in Row
  PROVE  LET new == Written(call, row) IN
         /\ new \in Row
         /\ call.kind = "addNote" =>
              new.item = row.item /\ new.messages = row.messages /\ new.notes # row.notes
         /\ call.kind # "addNote" => new.notes = row.notes
         /\ call.kind = "messages" => ~new.item.unread
         /\ call.kind = "assignee" => new.item.assignee = call.to
         /\ call.kind = "status" => new.item.status = call.to
         /\ call.kind = "addTag" => call.to \in new.item.tags
         /\ call.kind = "removeTag" => call.to \notin new.item.tags
<1> DEFINE new == Written(call, row)
<1>1. /\ row.item \in Item /\ row.messages \in Nat /\ row.notes \in Nat
      /\ row.item.tags \in SUBSET Tags
  BY DEF Row, Item
<1>2. CASE call.kind = "messages"
  <2>1. new = [row EXCEPT !.item.unread = FALSE]
    BY <1>2 DEF Written
  <2>2. new \in Row
    BY <1>1, <2>1 DEF Row, Item
  <2>3. ~new.item.unread /\ new.notes = row.notes
    BY <1>1, <2>1 DEF Row, Item
  <2>4. QED
    BY <1>2, <2>2, <2>3
<1>3. CASE call.kind = "send"
  <2> DEFINE item == [row.item EXCEPT !.unread = FALSE]
  <2>1. new = [row EXCEPT !.messages = row.messages + 1, !.item = item]
    BY <1>3 DEF Written, Row
  <2>2. item \in Item
    BY <1>1 DEF Item
  <2>3. row.messages + 1 \in Nat
    BY <1>1
  <2> HIDE DEF item
  <2>4. new \in Row /\ new.notes = row.notes
    BY <1>1, <2>1, <2>2, <2>3 DEF Row
  <2>5. QED
    BY <1>3, <2>4
<1>4. CASE call.kind = "status"
  <2>1. new = [row EXCEPT !.item.status = call.to] /\ call.to \in Statuses
    BY <1>4 DEF Written, Addressed
  <2>2. new \in Row
    BY <1>1, <2>1 DEF Row, Item
  <2>3. new.item.status = call.to /\ new.notes = row.notes
    BY <1>1, <2>1 DEF Row, Item
  <2>4. QED
    BY <1>4, <2>2, <2>3
<1>5. CASE call.kind = "assignee"
  <2>1. new = [row EXCEPT !.item.assignee = call.to] /\ call.to \in Members
    BY <1>5 DEF Written, Addressed
  <2>2. new \in Row
    BY <1>1, <2>1 DEF Row, Item
  <2>3. new.item.assignee = call.to /\ new.notes = row.notes
    BY <1>1, <2>1 DEF Row, Item
  <2>4. QED
    BY <1>5, <2>2, <2>3
<1>6. CASE call.kind = "addTag"
  <2>1. /\ new = [row EXCEPT !.item.tags = row.item.tags \cup {call.to}]
        /\ row.item.tags \cup {call.to} \in SUBSET Tags
    BY <1>1, <1>6 DEF Written, Addressed, TagRequests
  <2>2. new \in Row
    BY <1>1, <2>1 DEF Row, Item
  <2>3. call.to \in new.item.tags /\ new.notes = row.notes
    BY <1>1, <2>1 DEF Row, Item
  <2>4. QED
    BY <1>6, <2>2, <2>3
<1>7. CASE call.kind = "removeTag"
  <2>1. /\ new = [row EXCEPT !.item.tags = row.item.tags \ {call.to}]
        /\ row.item.tags \ {call.to} \in SUBSET Tags
    BY <1>1, <1>7 DEF Written
  <2>2. new \in Row
    BY <1>1, <2>1 DEF Row, Item
  <2>3. call.to \notin new.item.tags /\ new.notes = row.notes
    BY <1>1, <2>1 DEF Row, Item
  <2>4. QED
    BY <1>7, <2>2, <2>3
<1>8. CASE call.kind = "addNote"
  <2>1. new = [row EXCEPT !.notes = @ + 1]
    BY <1>8 DEF Written
  <2>2. new \in Row
    BY <1>1, <2>1 DEF Row, Item
  <2>3. /\ new.item = row.item /\ new.messages = row.messages
        /\ new.notes # row.notes
    BY <1>1, <2>1 DEF Row, Item
  <2>4. QED
    BY <1>8, <2>2, <2>3
<1>9. CASE call.kind \in {"list", "notes", "simulate"}
  <2>1. new = row
    BY <1>9 DEF Written
  <2>2. QED
    BY <1>9, <2>1
<1>10. QED
  BY <1>2, <1>3, <1>4, <1>5, <1>6, <1>7, <1>8, <1>9 DEF Addressed, CallType,
     Kinds

(* The server handles a request: what it changes is announced or missed, its  *)
(* answer is proper, and every other call stays.                            *)
LEMMA AnsweredFromHere ==
  ASSUME ServerTypes, PageTypes, GhostTypes, AllProper, NEW call \in Sent,
         call.phase = "sent", active' = active,
         NEW done \in {"answered", "refused", "lost"}, AnswerFromHere(call, done),
         done = "answered" => call.of = None \/ ~Refused(call),
         NEW told \in BOOLEAN,
         IF Does(call) THEN CommitCall(call, told) ELSE UNCHANGED <<serverVars, ghostVars>>
  PROVE  ServerStep /\ AllProper' /\ CallsStay
<1> DEFINE row == Now[call.of]
           changes == Does(call)
           read == call.kind = "messages" /\ row.item.unread
<1>0. PICK answer :
         answer = [call EXCEPT !.phase = done, !.seen = Len(history'), !.read = read]
  OBVIOUS
<1>1. /\ Addressed(call) /\ Remembers(call) /\ call \in CallType
      /\ active' = active /\ call.phase = "sent" /\ Answer(call, answer)
  BY <1>0 DEF AllProper, Proper, Addressed, AnswerFromHere
<1>2. /\ Version \in Nat /\ Version >= 1 /\ Now \in [Conversations -> Row]
  BY NowTypes
<1>3. call.of # None => call.of \in Conversations /\ row \in Row
  BY <1>1, <1>2 DEF CallType
<1>4. ASSUME changes
      PROVE  ServerStep /\ Now'[call.of] = Written(call, row) /\ call.of # None
  <2> DEFINE new == Written(call, row)
             event == IF call.kind = "addNote" THEN "note" ELSE "conversation"
  <2>1. Commit(call.of, new, event, told) /\ call.of # None
    BY <1>4 DEF CommitCall, Does
  <2>2. /\ new \in Row
        /\ call.kind = "addNote" => new.item = row.item /\ new.messages = row.messages
        /\ call.kind # "addNote" => new.notes = row.notes
    BY <1>1, <1>3, <1>4, <2>1, WrittenRow
  <2>3. /\ event \in {"conversation", "note"}
        /\ event = "note" <=> call.kind = "addNote"
    OBVIOUS
  <2> HIDE DEF new, event
  <2>4. QED
    BY <1>1, <1>3, <1>4, <2>1, <2>2, <2>3, CommitIsStep DEF new
<1>5. ASSUME ~changes
      PROVE  ServerStep /\ Now' = Now
  <2>1. UNCHANGED <<serverVars, ghostVars>>
    BY <1>5
  <2>2. ServerStep
    BY <1>1, <2>1, QuietIsStep DEF serverVars, ghostVars, GhostTypes
  <2>3. QED
    BY <2>1, <2>2, Quietly DEF serverVars
<1>6. ServerStep
  BY <1>4, <1>5
<1>7. /\ ServerTypes' /\ Extends /\ Version' \in Nat /\ Version <= Version'
      /\ Now' \in [Conversations -> Row] /\ Len(history') = Version'
  <2>1. ServerTypes' /\ Extends
    BY <1>6 DEF ServerStep
  <2>2. Version' \in Nat /\ Now' \in [Conversations -> Row]
    BY <2>1, LenProperties DEF ServerTypes, Version, Now
  <2>3. QED
    BY <1>2, <2>1, <2>2 DEF Extends, Version
<1>8. /\ answer \in CallType /\ answer.kind = call.kind /\ answer.of = call.of
      /\ answer.filter = call.filter /\ answer.to = call.to /\ answer.prior = call.prior
      /\ answer.knew = call.knew /\ answer.phase = done /\ answer.seen = Version'
      /\ answer.read = read
  <2> DEFINE now == Version'
  <2>1. now \in Nat /\ Len(history') = now
    BY <1>7
  <2>2. answer = [call EXCEPT !.phase = done, !.seen = now, !.read = read]
    BY <1>0, <2>1
  <2>3. read \in BOOLEAN
    OBVIOUS
  <2> HIDE DEF now, read
  <2>4. answer \in CallType
    BY <1>1, <2>1, <2>2, <2>3 DEF CallType
  <2>5. /\ answer.kind = call.kind /\ answer.of = call.of
        /\ answer.filter = call.filter /\ answer.to = call.to /\ answer.prior = call.prior
        /\ answer.knew = call.knew
    BY <1>1, <2>2 DEF CallType
  <2>6. answer.phase = done /\ answer.seen = now /\ answer.read = read
    BY <1>1, <2>2 DEF CallType
  <2>7. QED
    BY <2>4, <2>5, <2>6 DEF now
<1>9. Addressed(answer)' /\ Remembers(answer)'
  <2>1. Addressed(call)' /\ Remembers(call)'
    BY <1>6, ProperKept DEF ServerStep, AllProper, Proper
  <2>2. QED
    BY <1>7, <1>8, <2>1 DEF Addressed, Remembers
<1>10. Replies(answer)'
  <2>1. SUFFICES ASSUME done = "answered" PROVE Replies(answer)'
    BY <1>8 DEF Replies
  <2>2. /\ Version' \in 1 .. Version' /\ call.knew <= Version'
    BY <1>1, <1>2, <1>7 DEF Addressed, CallType
  <2>3. CASE call.of = None
    <3>1. call.kind \in {"list", "simulate"} /\ ~read
      BY <1>1, <2>3, PageAssumption DEF Addressed
    <3>2. QED
      BY <1>8, <2>2, <3>1 DEF Replies
  <2>4. CASE call.of # None
    <3>1. /\ call.of \in Conversations /\ row \in Row /\ ~Refused(call)
      BY <1>3, <2>1, <2>4
    <3>2. Now'[call.of] = Written(call, row)
      BY <1>4, <1>5, <2>4, <3>1 DEF Announces, Does
    <3>3. Now'[call.of] = history'[Version'][call.of]
      BY DEF Now
    <3>4. CASE call.kind = "addNote"
      <4>1. Written(call, row).notes # row.notes
        BY <1>1, <3>1, <3>4, WrittenRow
      <4>2. Now' # Now
        BY <3>2, <4>1
      <4>3. history' # history
        BY <4>2 DEF Now, Version
      <4>4. Version' = Version + 1 
        <5>1. changes
          BY <1>5, <4>2
        <5>2. PICK event \in {"conversation", "note"} :
                Commit(call.of, Written(call, row), event, told)
          BY <5>1 DEF CommitCall
        <5>3. Written(call, row) \in Row
          BY <1>1, <3>1, WrittenRow
        <5>4. QED
          BY <3>1, <4>3, <5>2, <5>3, CommitExtends
      <4>5. history'[Version] = history[Version]
        BY <1>2, <1>7 DEF Extends
      <4>6. history'[Version' - 1][call.of].notes # history'[Version'][call.of].notes
        BY <1>2, <3>2, <3>3, <4>1, <4>4, <4>5 DEF Now
      <4>7. Version' > 1 /\ ~read
        BY <1>2, <3>4, <4>4
      <4>8. QED
        BY <1>8, <2>2, <3>4, <4>6, <4>7 DEF Replies
    <3>5. CASE call.kind # "addNote"
      <4>1. /\ call.kind = "messages" => ~Now'[call.of].item.unread
            /\ call.kind = "assignee" => Now'[call.of].item.assignee = call.to
            /\ call.kind = "status" => Now'[call.of].item.status = call.to
            /\ call.kind = "addTag" => call.to \in Now'[call.of].item.tags
            /\ call.kind = "removeTag" => call.to \notin Now'[call.of].item.tags
        BY <1>1, <3>1, <3>2, WrittenRow
      <4>2. QED
        BY <1>8, <2>2, <3>3, <3>5, <4>1 DEF Replies
    <3>6. QED
      BY <3>4, <3>5
  <2>5. QED
    BY <2>3, <2>4
<1>11. /\ Sent \ {call} \subseteq Sent' /\ Sent' \subseteq Sent \cup {answer}
       /\ answer \in Sent'
  BY <1>1, CallSteps
<1>12. AllProper'
  <2>1. \A other \in Sent : Proper(other)'
    BY <1>6, ProperKept DEF ServerStep, AllProper
  <2>2. QED
    BY <1>9, <1>10, <1>11, <2>1 DEF AllProper, Proper
<1>13. CallsStay
  BY <1>8, <1>11 DEF CallsStay, Stays
<1>14. QED
  BY <1>6, <1>12, <1>13

LEMMA HandleStep ==
  ASSUME ServerTypes, PageTypes, GhostTypes, AllProper, NEW call \in Sent,
         Handle(call) \/ HandleUntold(call)
  PROVE  ServerStep /\ AllProper' /\ CallsStay
<1>1. call.phase = "sent" /\ active' = active
  BY DEF Handle, HandleUntold, pageVars
<1>2. CASE Handle(call)
  <2> DEFINE done == IF call.of # None /\ Refused(call) THEN "refused" ELSE "answered"
  <2>1. /\ done \in {"answered", "refused", "lost"}
        /\ done = "answered" => call.of = None \/ ~Refused(call)
    OBVIOUS
  <2>2. AnswerFromHere(call, done)
    BY <1>2 DEF Handle
  <2>3. IF Does(call) THEN CommitCall(call, TRUE) ELSE UNCHANGED <<serverVars, ghostVars>>
    BY <1>2 DEF Handle
  <2> HIDE DEF done
  <2>4. QED
    BY <1>1, <2>1, <2>2, <2>3, AnsweredFromHere
<1>3. CASE HandleUntold(call)
  <2>1. PICK done \in {"answered", "refused", "lost"} : AnswerFromHere(call, done)
    BY <1>3 DEF HandleUntold
  <2>2. Does(call) /\ CommitCall(call, FALSE)
    BY <1>3 DEF HandleUntold
  <2>3. ~Refused(call)
    BY <2>2 DEF Does
  <2>4. QED
    BY <1>1, <2>1, <2>2, <2>3, AnsweredFromHere
<1>4. QED
  BY <1>2, <1>3

(* The request or its answer is lost, or an error comes back.               *)
LEMMA CallFailsStep ==
  ASSUME ServerTypes, PageTypes, GhostTypes, AllProper, NEW call \in Sent,
         CallFails(call)
  PROVE  ServerStep /\ AllProper' /\ CallsStay
<1>1. UNCHANGED <<serverVars, ghostVars>> /\ active' = active
  BY DEF CallFails, pageVars
<1>2. ServerStep
  BY <1>1, QuietIsStep DEF serverVars, ghostVars, GhostTypes
<1>3. PICK phase \in {"refused", "lost"} : Answer(call, [call EXCEPT !.phase = phase])
  BY DEF CallFails
<1> DEFINE answer == [call EXCEPT !.phase = phase]
<1>4. /\ Sent \ {call} \subseteq Sent' /\ Sent' \subseteq Sent \cup {answer}
      /\ answer \in Sent'
  BY <1>3, CallSteps
<1>5. /\ Proper(answer) /\ answer.kind = call.kind /\ answer.of = call.of
      /\ answer.filter = call.filter /\ answer.to = call.to /\ answer.phase = phase
  BY FailedIsProper DEF AllProper
<1> HIDE DEF answer
<1>6. AllProper'
  BY <1>2, <1>4, <1>5, ProperKept DEF ServerStep, AllProper
<1>7. CallsStay
  BY <1>4, <1>5 DEF CallsStay, Stays
<1>8. QED
  BY <1>2, <1>6, <1>7

-----------------------------------------------------------------------------
(* What the page shows.                                                    *)

(* The messages and the notes are those of the newest state shown, if       *)
(* nothing has changed since.                                               *)
ShownMessages ==
  active # None /\ "messages" \notin excused /\ Same("messages", known["messages"]) =>
    messages = [of |-> active, count |-> Now[active].messages]

ShownNotes ==
  active # None /\ "notes" \notin excused /\ Same("notes", known["notes"]) =>
    notes = [of |-> active, count |-> Now[active].notes]

(* The spinner waits for something.                                         *)
Spinner ==
  active # None /\ "messages" \notin excused /\ loading =>
    \E call \in Sent : Fetches(call, "messages")

(* The list is that of the filter, but for what the page has shown before    *)
(* its requests were answered.                                              *)
RightFilter ==
  \/ DOMAIN list = DOMAIN ListOf(Version, filter)
  \/ \E call \in Sent : call.kind = "list" /\ call.filter = filter

RemovesTag(call, c, t) ==
  /\ call.kind = "removeTag" /\ call.of = c /\ call.to = t
  /\ call.phase = "answered" => call.seen >= known["list"]

RightItem(c) ==
  LET item == Now[c].item IN
    /\ list[c].unread = item.unread
    /\ \/ list[c].assignee = item.assignee
       \/ \E call \in Sent : call.kind = "assignee" /\ call.of = c
    /\ \/ list[c].status = item.status
       \/ \E call \in Sent : call.kind = "status" /\ call.of = c
    /\ list[c].tags \subseteq item.tags
    /\ \A t \in item.tags \ list[c].tags : \E call \in Sent : RemovesTag(call, c, t)

ShownList ==
  "list" \notin excused /\ Same("list", known["list"]) =>
    RightFilter /\ \A c \in DOMAIN list : RightItem(c)

PageInv ==
  /\ ServerTypes /\ PageTypes /\ GhostTypes /\ AllProper
  /\ \A p \in Parts : Works(p) => CaughtUp(p)
  /\ ShownMessages /\ ShownNotes /\ Spinner /\ ShownList

LEMMA MessagesKept ==
  ASSUME ServerTypes, PageTypes, GhostTypes, Extends, ShownMessages,
         UNCHANGED <<active, messages>>, Works("messages") => Moves("messages")
  PROVE  ShownMessages'
<1>1. SUFFICES ASSUME active # None, "messages" \notin excused',
                      Same("messages", known["messages"])'
               PROVE  messages = [of |-> active, count |-> Now'[active].messages]
  BY DEF ShownMessages
<1>2. /\ known'["messages"] = known["messages"] /\ "messages" \notin excused
      /\ known["messages"] <= Version /\ known["messages"] \in Nat
  BY <1>1 DEF Works, Moves, Missed, GhostTypes, Parts
<1>3. /\ Same("messages", known["messages"])
      /\ View("messages", Version)' = View("messages", Version)
  BY <1>1, <1>2, SameBefore DEF Parts
<1>4. Now'[active].messages = Now[active].messages
  BY <1>3 DEF View, Now
<1>5. QED
  BY <1>1, <1>2, <1>3, <1>4 DEF ShownMessages

LEMMA NotesKept ==
  ASSUME ServerTypes, PageTypes, GhostTypes, Extends, ShownNotes,
         UNCHANGED <<active, notes>>, Works("notes") => Moves("notes")
  PROVE  ShownNotes'
<1>1. SUFFICES ASSUME active # None, "notes" \notin excused',
                      Same("notes", known["notes"])'
               PROVE  notes = [of |-> active, count |-> Now'[active].notes]
  BY DEF ShownNotes
<1>2. /\ known'["notes"] = known["notes"] /\ "notes" \notin excused
      /\ known["notes"] <= Version /\ known["notes"] \in Nat
  BY <1>1 DEF Works, Moves, Missed, GhostTypes, Parts
<1>3. /\ Same("notes", known["notes"])
      /\ View("notes", Version)' = View("notes", Version)
  BY <1>1, <1>2, SameBefore DEF Parts
<1>4. Now'[active].notes = Now[active].notes
  BY <1>3 DEF View, Now
<1>5. QED
  BY <1>1, <1>2, <1>3, <1>4 DEF ShownNotes

LEMMA SpinnerKept ==
  ASSUME Spinner, UNCHANGED active, loading' => loading, CallsKeep("messages"),
         "messages" \in excused => "messages" \in excused'
  PROVE  Spinner'
BY DEF Spinner, CallsKeep, Stays, Fetches

(* The calls that excuse a list that is not right.                          *)
ListCallsStay ==
  \A call \in Sent :
    call.kind \in {"list", "assignee", "status", "removeTag"} => Stays(call)

LEMMA ListIsAsBefore ==
  ASSUME ServerTypes, ServerTypes', GhostTypes, Extends, Moves("list"),
         "list" \notin excused', Same("list", known["list"])'
  PROVE  /\ known'["list"] = known["list"] /\ "list" \notin excused
         /\ Same("list", known["list"])
         /\ \A c \in Conversations : /\ Now'[c].item = Now[c].item
                                    /\ Now'[c].messages = Now[c].messages
         /\ known["list"] <= Version'
<1>1. /\ known'["list"] = known["list"] /\ "list" \notin excused
      /\ known["list"] <= Version /\ known["list"] \in Nat
  BY DEF Moves, Missed, GhostTypes, Parts
<1>2. /\ Same("list", known["list"])
      /\ View("list", Version)' = View("list", Version)
  BY <1>1, SameBefore DEF Parts
<1>3. ASSUME NEW c \in Conversations
      PROVE  Now'[c].item = Now[c].item /\ Now'[c].messages = Now[c].messages
  <2>1. View("list", Version)'[c] = View("list", Version)[c]
    BY <1>2
  <2>2. QED
    BY <2>1 DEF View, Now
<1>4. Version \in Nat /\ Version' \in Nat /\ Version <= Version'
  BY LenProperties DEF ServerTypes, Extends, Version
<1>5. QED
  BY <1>1, <1>2, <1>3, <1>4

LEMMA ListOfNow ==
  ASSUME ServerTypes, NEW f
  PROVE  /\ DOMAIN ListOf(Version, f) =
              {c \in Conversations :
                 Exists(Now[c]) /\ (f = "" \/ Now[c].item.status = f)}
         /\ \A c \in DOMAIN ListOf(Version, f) : ListOf(Version, f)[c] = Now[c].item
BY DEF ListOf, Now

LEMMA RightFilterKept ==
  ASSUME ServerTypes, ServerTypes', RightFilter, UNCHANGED <<list, filter>>,
         \A c \in Conversations : /\ Now'[c].item = Now[c].item
                                 /\ Now'[c].messages = Now[c].messages,
         \A call \in Sent : call.kind = "list" => Stays(call)
  PROVE  RightFilter'
<1>1. CASE \E call \in Sent : call.kind = "list" /\ call.filter = filter
  BY <1>1 DEF RightFilter, Stays
<1>2. CASE DOMAIN list = DOMAIN ListOf(Version, filter)
  <2>1. DOMAIN ListOf(Version, filter)' =
          {c \in Conversations :
             Exists(Now'[c]) /\ (filter' = "" \/ Now'[c].item.status = filter')}
    BY DEF ListOf, Now, Exists
  <2>2. DOMAIN ListOf(Version, filter) =
          {c \in Conversations :
             Exists(Now[c]) /\ (filter = "" \/ Now[c].item.status = filter)}
    BY ListOfNow
  <2>3. DOMAIN list' = DOMAIN ListOf(Version, filter)'
    BY <1>2, <2>1, <2>2 DEF Exists
  <2>4. QED
    BY <2>3 DEF RightFilter
<1>3. QED
  BY <1>1, <1>2 DEF RightFilter

LEMMA RemovesTagKept ==
  ASSUME NEW call \in Sent, NEW c, NEW t, RemovesTag(call, c, t), Stays(call),
         known'["list"] = known["list"], known["list"] <= Version'
  PROVE  \E next \in Sent' : RemovesTag(next, c, t)'
<1>1. PICK next \in Sent' :
        /\ next.kind = call.kind /\ next.of = call.of /\ next.to = call.to
        /\ next # call => (next.phase = "answered" => next.seen = Version')
  BY DEF Stays
<1>2. RemovesTag(next, c, t)'
  BY <1>1 DEF RemovesTag
<1>3. QED
  BY <1>2

LEMMA RightItemKept ==
  ASSUME NEW c, RightItem(c), UNCHANGED list, Now'[c].item = Now[c].item,
         known'["list"] = known["list"], known["list"] <= Version',
         \A call \in Sent :
           call.kind \in {"assignee", "status", "removeTag"} /\ call.of = c => Stays(call)
  PROVE  RightItem(c)'
<1>1. \/ list[c].assignee = Now[c].item.assignee
      \/ \E call \in Sent' : call.kind = "assignee" /\ call.of = c
  BY DEF RightItem, Stays
<1>2. \/ list[c].status = Now[c].item.status
      \/ \E call \in Sent' : call.kind = "status" /\ call.of = c
  BY DEF RightItem, Stays
<1>3. ASSUME NEW t \in Now[c].item.tags \ list[c].tags
      PROVE  \E next \in Sent' : RemovesTag(next, c, t)'
  <2>1. PICK call \in Sent : RemovesTag(call, c, t)
    BY DEF RightItem
  <2>2. Stays(call)
    BY <2>1 DEF RemovesTag
  <2>3. QED
    BY <2>1, <2>2, RemovesTagKept
<1>4. QED
  BY <1>1, <1>2, <1>3 DEF RightItem

LEMMA ListKept ==
  ASSUME ServerTypes, ServerTypes', PageTypes, GhostTypes, Extends, ShownList,
         UNCHANGED <<list, filter>>, Moves("list"), ListCallsStay
  PROVE  ShownList'
<1>1. SUFFICES ASSUME "list" \notin excused', Same("list", known["list"])'
               PROVE  RightFilter' /\ \A c \in DOMAIN list : RightItem(c)'
  BY DEF ShownList
<1>2. /\ known'["list"] = known["list"] /\ known["list"] <= Version'
      /\ RightFilter /\ \A c \in DOMAIN list : RightItem(c)
      /\ \A c \in Conversations : /\ Now'[c].item = Now[c].item
                                 /\ Now'[c].messages = Now[c].messages
  BY <1>1, ListIsAsBefore DEF ShownList
<1>3. RightFilter'
  BY <1>2, RightFilterKept DEF ListCallsStay
<1>4. ASSUME NEW c \in DOMAIN list
      PROVE  RightItem(c)'
  BY <1>2, RightItemKept DEF ListCallsStay, PageTypes
<1>5. QED
  BY <1>3, <1>4

(* A step of the server or of the stream that leaves the page alone.        *)
LEMMA BackgroundStep ==
  ASSUME PageInv, ServerStep, AllProper', CallsStay, UNCHANGED pageVars
  PROVE  PageInv'
<1>1. /\ ServerTypes /\ PageTypes /\ GhostTypes /\ AllProper /\ Extends
      /\ ServerTypes' /\ GhostTypes' /\ PageTypes'
      /\ active' = active
      /\ \A p \in Parts : Works(p) => Moves(p) /\ CaughtUp(p)
      /\ \A p : CallsKeep(p)
      /\ ListCallsStay
  BY DEF PageInv, ServerStep, PageTypes, pageVars, CallsStay, CallsKeep,
     ListCallsStay
<1>2. \A p \in Parts : Works(p)' => CaughtUp(p)'
  <2>1. TAKE p \in Parts
  <2>2. Works(p)' <=> Works(p)
    BY <1>1 DEF Works
  <2>3. QED
    BY <1>1, <2>2, CaughtUpKept
<1>3. ShownMessages' /\ ShownNotes'
  BY <1>1, MessagesKept, NotesKept DEF PageInv, pageVars, Parts
<1>4. Moves("list")
  BY <1>1 DEF Works, Parts
<1>5. ShownList'
  BY <1>1, <1>4, ListKept DEF PageInv, pageVars
<1>6. Spinner'
  <2>1. CASE active # None
    <3>1. "messages" \in excused => "messages" \in excused'
      BY <1>1, <2>1 DEF Works, Parts, Moves
    <3>2. QED
      BY <1>1, <3>1, SpinnerKept DEF PageInv, pageVars
  <2>2. CASE active = None
    BY <1>1, <2>2 DEF Spinner
  <2>3. QED
    BY <2>1, <2>2
<1>7. QED
  BY <1>1, <1>2, <1>3, <1>5, <1>6 DEF PageInv

(* When the stream closes, what it still carried is missed.                  *)
LEMMA CloseMoves ==
  ASSUME ServerTypes, GhostTypes, CloseStream, UNCHANGED <<history, active>>
  PROVE  ServerStep
<1>1. Extends /\ Now' = Now /\ Version' = Version
  BY Quietly
<1>2. events' = <<>> /\ ServerTypes'
  <2>1. events' = <<>>
    BY DEF CloseStream
  <2>2. QED
    BY <2>1, EmptySeq DEF ServerTypes, Version
<1> DEFINE gone == UNION {Touched(events[i]) : i \in DOMAIN events}
<1>3. DOMAIN events = 1 .. Len(events) /\ \A i \in DOMAIN events : events[i] \in EventType
  BY LenProperties DEF ServerTypes
<1>4. gone \in SUBSET Parts
  BY <1>3, TouchedParts
<1>5. Misses(gone, Version)
  BY DEF CloseStream
<1>6. GhostTypes'
  BY <1>1, <1>2, <1>4, <1>5, GhostSteps
<1>7. ASSUME NEW p \in Parts
      PROVE  Moves(p)
  <2>1. /\ known'[p] = known[p] \/ Missed(p)
        /\ p \in excused => p \in excused'
        /\ p \in gone => Missed(p)
    BY <1>1, <1>5 DEF Misses, Missed
  <2>2. Announced(p) => p \in gone
    BY <1>3 DEF Announced
  <2>3. View(p, Version)' = View(p, Version)
    BY <1>1 DEF View
  <2>4. QED
    BY <2>1, <2>2, <2>3 DEF Moves
<1>8. QED
  BY <1>1, <1>2, <1>6, <1>7 DEF ServerStep

LEMMA SameCalls ==
  ASSUME ServerTypes, Extends, AllProper, UNCHANGED calls
  PROVE  AllProper' /\ CallsStay
<1>1. Sent' = Sent
  BY DEF Sent
<1>2. QED
  BY <1>1, ProperKept DEF AllProper, CallsStay, Stays

LEMMA OpenStream ==
  ASSUME PageInv, StreamOpens
  PROVE  PageInv'
<1>1. UNCHANGED <<history, events, pageVars, calls, ghostVars>> /\ active' = active
  BY DEF StreamOpens, pageVars
<1>2. ServerStep
  BY <1>1, QuietIsStep DEF PageInv, ghostVars, GhostTypes
<1>3. AllProper' /\ CallsStay
  BY <1>1, <1>2, SameCalls DEF PageInv, ServerStep
<1>4. QED
  BY <1>1, <1>2, <1>3, BackgroundStep

LEMMA BreakStream ==
  ASSUME PageInv, StreamBreaks
  PROVE  PageInv'
<1>1. /\ CloseStream /\ UNCHANGED <<history, pageVars, calls>> /\ active' = active
  BY DEF StreamBreaks, pageVars
<1>2. ServerStep
  BY <1>1, CloseMoves DEF PageInv
<1>3. AllProper' /\ CallsStay
  BY <1>1, <1>2, SameCalls DEF PageInv, ServerStep
<1>4. QED
  BY <1>1, <1>2, <1>3, BackgroundStep

(* More requests of the page.                                               *)
LEMMA SendStep ==
  ASSUME ServerTypes, Extends, AllProper, NEW R, Sent' = Sent \cup R,
         \A call \in R : Proper(call)'
  PROVE  AllProper' /\ CallsStay /\ ListCallsStay /\ \A p : CallsKeep(p)
<1>1. \A call \in Sent : Proper(call)'
  BY ProperKept DEF AllProper
<1>2. QED
  BY <1>1 DEF AllProper, CallsStay, ListCallsStay, CallsKeep, Stays

LEMMA PlainRequests ==
  ASSUME PageTypes
  PROVE  /\ \A f \in Filters :
              /\ Plain(FetchList(f)) /\ Plain([FetchList(f) EXCEPT !.by = "send"])
              /\ Plain([FetchList(f) EXCEPT !.by = "simulate"])
         /\ \A part \in {"messages", "notes"}, c \in Conversations :
              Plain(Request(part, c)) /\ Plain([Request(part, c) EXCEPT !.by = "simulate"])
<1>1. ASSUME NEW f \in Filters, NEW by \in {"page", "send", "simulate"}
      PROVE  /\ Plain([Request("list", None) EXCEPT !.filter = f])
             /\ Plain([[Request("list", None) EXCEPT !.filter = f] EXCEPT !.by = by])
  BY RequestIsPlain
<1>2. ASSUME NEW part \in {"messages", "notes"}, NEW c \in Conversations
      PROVE  Plain(Request(part, c)) /\ Plain([Request(part, c) EXCEPT !.by = "simulate"])
  BY RequestIsPlain DEF Filters
<1>3. QED
  BY <1>1, <1>2 DEF FetchList

(* An event makes the page fetch what it touches, and is then off the stream. *)
LEMMA DeliverEvent ==
  ASSUME PageInv, StreamDelivers
  PROVE  PageInv'
<1> DEFINE event == Head(events)
<1>1. /\ events # <<>> /\ events' = Tail(events) /\ Send(FetchesOf(event))
      /\ loading' = (loading \/ "messages" \in Touched(event))
      /\ UNCHANGED <<history, stream, filter, list, selected, active, messages, notes>>
      /\ known' = known /\ excused' = excused
  BY DEF StreamDelivers, ghostVars
<1>2. ServerTypes /\ PageTypes /\ GhostTypes /\ AllProper
  BY DEF PageInv
<1>3. /\ event \in EventType /\ events' \in Seq(EventType)
      /\ Len(events) \in Nat /\ Len(events) > 0 /\ Len(events') = Len(events) - 1
      /\ \A i \in 1 .. Len(events') : events'[i] = events[i + 1]
      /\ event = events[1]
  BY <1>1, <1>2, HeadTailProperties, EmptySeq, LenProperties DEF ServerTypes
<1>4. /\ ServerTypes' /\ PageTypes' /\ GhostTypes' /\ Extends /\ Version' = Version
      /\ Now' = Now
  BY <1>1, <1>2, <1>3, Quietly DEF ServerTypes, PageTypes, GhostTypes, Version
<1> DEFINE R == FetchesOf(event)
<1>5. Sent' = Sent \cup R
  BY <1>1, CallSteps
<1>6. ASSUME NEW call \in R
      PROVE  Plain(call)
  <2>1. /\ Touched(event) \subseteq Parts
        /\ active \in Conversations \/ Touched(event) \subseteq {"list"}
    BY <1>2, <1>3, TouchedParts, PageAssumption DEF PageTypes, EventType, Parts
  <2>2. filter \in Filters
    BY <1>2 DEF PageTypes
  <2>3. call = FetchList(filter)
        \/ \E part \in Touched(event) \ {"list"} : call = Request(part, active)
    BY <1>6 DEF FetchesOf
  <2>4. QED
    BY <1>2, <2>1, <2>2, <2>3, PlainRequests DEF Parts
<1>7. \A call \in R : Proper(call)'
  <2>1. \A call \in R : Proper(call)
    BY <1>2, <1>6, PlainIsProper
  <2>2. QED
    BY <1>2, <1>4, <2>1, ProperKept
<1>8. AllProper' /\ CallsStay /\ ListCallsStay /\ \A p : CallsKeep(p)
  BY <1>2, <1>4, <1>5, <1>7, SendStep
<1>9. \A p \in Touched(event) : \E call \in Sent' : Fetches(call, p)' /\ call.phase = "sent"
  <2>1. TAKE p \in Touched(event)
  <2>2. CASE p = "list"
    <3>1. PICK call \in R : call = FetchList(filter)
      BY <1>3, <2>2, TouchedParts DEF FetchesOf
    <3>2. Fetches(call, p)' /\ call.phase = "sent"
      BY <2>2, <3>1 DEF Fetches, FetchList, Request
    <3>3. QED
      BY <1>5, <3>1, <3>2
  <2>3. CASE p # "list"
    <3>1. PICK call \in R : call = Request(p, active)
      BY <2>3 DEF FetchesOf
    <3>2. Fetches(call, p)' /\ call.phase = "sent"
      BY <1>1, <3>1 DEF Fetches, Request
    <3>3. QED
      BY <1>5, <3>1, <3>2
  <2>4. QED
    BY <2>2, <2>3
<1> HIDE DEF R
<1>10. ASSUME NEW p \in Parts
       PROVE  p \in Touched(event) \/ Moves(p)
  <2>1. View(p, Version)' = View(p, Version)
    BY <1>1, <1>4 DEF View
  <2>2. Announced(p) => p \in Touched(event) \/ Announced(p)'
    <3>1. SUFFICES ASSUME NEW i \in 1 .. Len(events), p \in Touched(events[i]),
                          p \notin Touched(event)
                   PROVE  Announced(p)'
      BY DEF Announced
    <3>2. i # 1 /\ i - 1 \in 1 .. Len(events') /\ events'[i - 1] = events[i]
      BY <1>3, <3>1
    <3>3. \A e : Touched(e)' = Touched(e)
      BY <1>1 DEF Touched
    <3>4. PICK j \in 1 .. Len(events') : j = i - 1 /\ events'[j] = events[i]
      BY <3>2
    <3>5. QED
      BY <3>1, <3>3, <3>4 DEF Announced
  <2>3. QED
    BY <1>1, <2>1, <2>2 DEF Moves
<1>11. \A p \in Parts : Works(p)' => CaughtUp(p)'
  <2>1. TAKE p \in Parts
  <2>2. CASE p \in Touched(event)
    BY <1>9, <2>2 DEF CaughtUp, Fetching
  <2>3. CASE Moves(p)
    <3>1. Works(p)' => Works(p)
      BY <1>1 DEF Works
    <3>2. QED
      BY <1>1, <1>2, <1>4, <1>8, <2>3, <3>1, CaughtUpKept DEF PageInv
  <2>4. QED
    BY <1>10, <2>2, <2>3
<1>12. ShownMessages' /\ ShownNotes' /\ ShownList'
  <2>1. UNCHANGED <<active, messages, notes, list, filter, known, excused, history>>
    BY <1>1
  <2>2. Sent \subseteq Sent'
    BY <1>5
  <2>3. ShownMessages' /\ ShownNotes'
    BY <1>4, <2>1 DEF PageInv, ShownMessages, ShownNotes, Same, View, Version
  <2>4. RightFilter => RightFilter'
    BY <1>4, <2>1, <2>2 DEF RightFilter, ListOf
  <2>5. \A c : RightItem(c) => RightItem(c)'
    BY <1>4, <2>1, <2>2 DEF RightItem, RemovesTag
  <2>6. QED
    BY <2>1, <2>3, <2>4, <2>5 DEF PageInv, ShownList, Same, View, Version
<1>13. Spinner'
  <2>1. CASE loading' => loading
    BY <1>1, <1>8, <2>1, SpinnerKept DEF PageInv
  <2>2. CASE "messages" \in Touched(event)
    BY <1>9, <2>2 DEF Spinner
  <2>3. QED
    BY <1>1, <2>1, <2>2
<1>14. QED
  BY <1>4, <1>8, <1>11, <1>12, <1>13 DEF PageInv

-----------------------------------------------------------------------------
(* The user.                                                               *)

(* A request that shows nothing yet.                                        *)
LEMMA AskStep ==
  ASSUME PageInv, NEW call, Sent' = Sent \cup {call}, Proper(call),
         UNCHANGED <<history, events, pageVars, ghostVars>>
  PROVE  PageInv'
<1>1. ServerTypes /\ GhostTypes /\ AllProper /\ active' = active
  BY DEF PageInv, pageVars
<1>2. ServerStep
  BY <1>1, QuietIsStep DEF ghostVars, GhostTypes
<1>3. PICK R : R = {call}
  OBVIOUS
<1>3a. \A other \in R : Proper(other)'
  <2>1. TAKE other \in R
  <2>2. Proper(other)
    BY <1>3
  <2>3. QED
    BY <1>1, <1>2, <2>2, ProperKept DEF ServerStep
<1>4. AllProper' /\ CallsStay
  BY <1>1, <1>2, <1>3, <1>3a, SendStep DEF ServerStep
<1>5. QED
  BY <1>2, <1>4, BackgroundStep

LEMMA SendMessageStep ==
  ASSUME PageInv, SendMessage
  PROVE  PageInv'
<1>1. PICK call : call = [Request("send", selected) EXCEPT !.filter = filter]
  OBVIOUS
<1>2. Sent' = Sent \cup {call} /\ UNCHANGED <<history, events, pageVars, ghostVars>>
  BY <1>1, CallSteps DEF SendMessage, serverVars
<1>3. selected \in Conversations /\ filter \in Filters
  BY DEF SendMessage, Chosen, PageInv, PageTypes
<1>4. Proper(call)
  BY <1>1, <1>3, RequestIsPlain, PlainIsProper DEF PageInv
<1>5. QED
  BY <1>2, <1>4, AskStep

LEMMA SimulateInboundStep ==
  ASSUME PageInv, SimulateInbound
  PROVE  PageInv'
<1>1. PICK call : call = [Request("simulate", None) EXCEPT !.filter = filter]
  OBVIOUS
<1>2. Sent' = Sent \cup {call} /\ UNCHANGED <<history, events, pageVars, ghostVars>>
  BY <1>1, CallSteps DEF SimulateInbound, serverVars
<1>3. filter \in Filters
  BY DEF PageInv, PageTypes
<1>4. Proper(call)
  BY <1>1, <1>3, RequestIsPlain, PlainIsProper DEF PageInv
<1>5. QED
  BY <1>2, <1>4, AskStep

(* What a click on the selected conversation sends.                         *)
Clicked(call, kind, to) ==
  call = [Request(kind, selected) EXCEPT
            !.to = to, !.prior = list[selected], !.knew = Knows(kind)]

LEMMA ClickedCall ==
  ASSUME ServerTypes, PageTypes, GhostTypes, selected # None,
         NEW kind \in Patches \cup TagRequests \cup {"addNote"}, NEW to,
         kind = "assignee" => to \in Members, kind = "status" => to \in Statuses,
         kind \in TagRequests => to \in Tags, kind = "addNote" => to = None,
         NEW call, Clicked(call, kind, to)
  PROVE  /\ Addressed(call) /\ Replies(call)
         /\ call.kind = kind /\ call.of = selected /\ call.phase = "sent" /\ call.to = to
         /\ call.prior = list[selected] /\ call.knew = Knows(kind)
<1>1. selected \in DOMAIN list /\ selected \in Conversations /\ list[selected] \in Item
  BY DEF PageTypes
<1>2. /\ Version \in Nat /\ known["list"] \in Nat /\ known["list"] <= Version
      /\ Knows(kind) \in {0, known["list"]}
  BY NowTypes DEF GhostTypes, Parts, Knows
<1>3. Knows(kind) \in Nat /\ Knows(kind) <= Version
  BY <1>2
<1>4. to \in Statuses \cup Members \cup Tags \cup {None} /\ kind \in Kinds
  BY DEF Patches, TagRequests, Kinds
<1>5. call \in CallType
  BY <1>1, <1>3, <1>4 DEF Clicked, Request, CallType, Filters, Item
<1>6. /\ call.kind = kind /\ call.of = selected /\ call.phase = "sent" /\ call.to = to
      /\ call.prior = list[selected] /\ call.knew = Knows(kind) /\ call.seen = 0
  BY DEF Clicked, Request
<1>7. QED
  BY <1>1, <1>2, <1>3, <1>5, <1>6 DEF Addressed, Replies, Patches, TagRequests

(* What the click remembers is right if nothing has changed since the state  *)
(* it knew: the list showed it, and no other request had changed that.       *)
LEMMA ClickRemembers ==
  ASSUME PageInv, selected # None,
         NEW kind \in Patches \cup TagRequests \cup {"addNote"}, NEW to,
         kind \in Patches => ~Busy(kind),
         NEW call, Clicked(call, kind, to)
  PROVE  Remembers(call)
<1>1. /\ call.kind = kind /\ call.of = selected /\ call.prior = list[selected]
      /\ call.knew = Knows(kind)
  BY DEF Clicked, Request
<1>2. SUFFICES ASSUME Same("list", Knows(kind)),
                      kind # "addNote" PROVE Remembers(call)
  BY <1>1 DEF Remembers, Patches, TagRequests
<1>3. Knows(kind) # 0
  BY <1>2 DEF Same
<1>4. /\ "list" \notin excused /\ Knows(kind) = known["list"]
      /\ kind \in TagRequests =>
           ~\E other \in Sent : other.of = selected /\ other.kind \in TagRequests
  BY <1>3 DEF Knows, Sent
<1>5. selected \in DOMAIN list /\ RightItem(selected)
  BY <1>2, <1>4 DEF PageInv, PageTypes, ShownList
<1>6. CASE kind \in Patches
  <2>1. ~\E other \in Sent : other.kind = kind
    BY <1>6 DEF Busy, Sent
  <2>2. QED
    BY <1>1, <1>5, <1>6, <2>1 DEF Remembers, RightItem, Patches, TagRequests
<1>7. CASE kind \in TagRequests
  <2>1. \A t \in Now[selected].item.tags : t \in list[selected].tags
    BY <1>4, <1>5, <1>7 DEF RightItem, RemovesTag, TagRequests
  <2>2. list[selected].tags \subseteq Now[selected].item.tags
    BY <1>5 DEF RightItem
  <2>3. list[selected].tags = Now[selected].item.tags
    BY <2>1, <2>2
  <2>4. QED
    BY <1>1, <1>7, <2>3 DEF Remembers, Patches, TagRequests
<1>8. QED
  BY <1>2, <1>6, <1>7

LEMMA AddNoteStep ==
  ASSUME PageInv, AddNote
  PROVE  PageInv'
<1>1. PICK call : Clicked(call, "addNote", None)
  BY DEF Clicked
<1>2. Sent' = Sent \cup {call} /\ UNCHANGED <<history, events, pageVars, ghostVars>>
  BY <1>1, CallSteps DEF AddNote, Click, Clicked, serverVars, pageVars
<1>3. Proper(call)
  BY <1>1, ClickedCall, ClickRemembers
     DEF AddNote, Chosen, PageInv, Proper, Patches, TagRequests
<1>4. QED
  BY <1>2, <1>3, AskStep

LEMMA AddTagStep ==
  ASSUME PageInv, NEW t \in Tags, AddTag(t)
  PROVE  PageInv'
<1>1. PICK call : Clicked(call, "addTag", t)
  BY DEF Clicked
<1>2. Sent' = Sent \cup {call} /\ UNCHANGED <<history, events, pageVars, ghostVars>>
  BY <1>1, CallSteps DEF AddTag, Click, Clicked, serverVars, pageVars
<1>3. Proper(call)
  BY <1>1, ClickedCall, ClickRemembers
     DEF AddTag, Chosen, PageInv, Proper, Patches, TagRequests
<1>4. QED
  BY <1>2, <1>3, AskStep

(* A click whose outcome is shown at once, in the list.                     *)
LEMMA ClickStep ==
  ASSUME PageInv, NEW call, Sent' = Sent \cup {call}, Proper(call),
         UNCHANGED <<history, events, filter, selected, active, messages, notes, loading,
                     ghostVars>>,
         DOMAIN list' = DOMAIN list, list' \in [DOMAIN list -> Item],
         \A c \in DOMAIN list : RightItem(c) => RightItem(c)'
  PROVE  PageInv'
<1>1. ServerTypes /\ PageTypes /\ GhostTypes /\ AllProper
  BY DEF PageInv
<1>2. ServerStep
  BY <1>1, QuietIsStep DEF ghostVars, GhostTypes
<1>3. ServerTypes' /\ GhostTypes' /\ Extends /\ \A p \in Parts : Works(p) => Moves(p)
  BY <1>2 DEF ServerStep
<1>4. PageTypes'
  BY <1>1 DEF PageTypes
<1>5. PICK R : R = {call}
  OBVIOUS
<1>5a. \A other \in R : Proper(other)'
  <2>1. TAKE other \in R
  <2>2. Proper(other)
    BY <1>5
  <2>3. QED
    BY <1>1, <1>3, <2>2, ProperKept
<1>6. AllProper' /\ CallsStay /\ ListCallsStay /\ \A p : CallsKeep(p)
  BY <1>1, <1>3, <1>5, <1>5a, SendStep
<1>7. \A p \in Parts : Works(p)' => CaughtUp(p)'
  <2>1. TAKE p \in Parts
  <2>2. Works(p)' => Works(p)
    BY DEF Works
  <2>3. QED
    BY <1>1, <1>3, <1>6, <2>2, CaughtUpKept DEF PageInv
<1>8. ShownMessages' /\ ShownNotes'
  BY <1>1, <1>3, MessagesKept, NotesKept DEF PageInv, Parts
<1>9. Spinner'
  BY <1>6, SpinnerKept DEF PageInv, ghostVars
<1>10. ShownList'
  <2>1. RightFilter => RightFilter'
    BY DEF RightFilter, ListOf, Version
  <2>2. QED
    BY <2>1 DEF PageInv, ShownList, Same, View, Version, ghostVars
<1>11. QED
  BY <1>3, <1>4, <1>6, <1>7, <1>8, <1>9, <1>10 DEF PageInv

LEMMA AssignStep ==
  ASSUME PageInv, Assign
  PROVE  PageInv'
<1> DEFINE to == Toggle(list[selected].assignee, Members)
<1>1. PICK call : Clicked(call, "assignee", to)
  BY DEF Clicked
<1>2. /\ selected \in DOMAIN list /\ DOMAIN list \subseteq Conversations
      /\ list \in [DOMAIN list -> Item]
  BY DEF Assign, Chosen, PageInv, PageTypes
<1>3. to \in Members
  BY <1>2, ToggleChanges DEF Item
<1> HIDE DEF to
<1>4. /\ Sent' = Sent \cup {call} /\ list' = [list EXCEPT ![selected].assignee = to]
      /\ UNCHANGED <<history, events, filter, selected, active, messages, notes, loading,
                     ghostVars>>
  BY <1>1, CallSteps DEF Assign, Click, Clicked, serverVars, to
<1>5. call.kind = "assignee" /\ call.of = selected /\ Proper(call)
  BY <1>1, <1>3, ClickedCall, ClickRemembers
     DEF Assign, Chosen, PageInv, Proper, Patches, TagRequests
<1>6. /\ DOMAIN list' = DOMAIN list /\ list' \in [DOMAIN list -> Item]
      /\ \A c \in DOMAIN list \ {selected} : list'[c] = list[c]
      /\ list'[selected].unread = list[selected].unread
      /\ list'[selected].status = list[selected].status
      /\ list'[selected].tags = list[selected].tags
  BY <1>2, <1>3, <1>4 DEF Item
<1>7. Now' = Now /\ known' = known /\ Sent \subseteq Sent' /\ call \in Sent'
  BY <1>4 DEF Now, Version, ghostVars
<1>8. \A c \in DOMAIN list : RightItem(c) => RightItem(c)'
  <2>1. TAKE c \in DOMAIN list
  <2>2. CASE c = selected
    BY <1>5, <1>6, <1>7, <2>2 DEF RightItem, RemovesTag
  <2>3. CASE c # selected
    BY <1>6, <1>7, <2>3 DEF RightItem, RemovesTag
  <2>4. QED
    BY <2>2, <2>3
<1>9. QED
  BY <1>4, <1>5, <1>6, <1>8, ClickStep

LEMMA ToggleStatusStep ==
  ASSUME PageInv, ToggleStatus
  PROVE  PageInv'
<1> DEFINE to == Toggle(list[selected].status, Statuses)
<1>1. PICK call : Clicked(call, "status", to)
  BY DEF Clicked
<1>2. /\ selected \in DOMAIN list /\ DOMAIN list \subseteq Conversations
      /\ list \in [DOMAIN list -> Item]
  BY DEF ToggleStatus, Chosen, PageInv, PageTypes
<1>3. to \in Statuses
  BY <1>2, ToggleChanges DEF Item
<1> HIDE DEF to
<1>4. /\ Sent' = Sent \cup {call} /\ list' = [list EXCEPT ![selected].status = to]
      /\ UNCHANGED <<history, events, filter, selected, active, messages, notes, loading,
                     ghostVars>>
  BY <1>1, CallSteps DEF ToggleStatus, Click, Clicked, serverVars, to
<1>5. call.kind = "status" /\ call.of = selected /\ Proper(call)
  BY <1>1, <1>3, ClickedCall, ClickRemembers
     DEF ToggleStatus, Chosen, PageInv, Proper, Patches, TagRequests
<1>6. /\ DOMAIN list' = DOMAIN list /\ list' \in [DOMAIN list -> Item]
      /\ \A c \in DOMAIN list \ {selected} : list'[c] = list[c]
      /\ list'[selected].unread = list[selected].unread
      /\ list'[selected].assignee = list[selected].assignee
      /\ list'[selected].tags = list[selected].tags
  BY <1>2, <1>3, <1>4 DEF Item
<1>7. Now' = Now /\ known' = known /\ Sent \subseteq Sent' /\ call \in Sent'
  BY <1>4 DEF Now, Version, ghostVars
<1>8. \A c \in DOMAIN list : RightItem(c) => RightItem(c)'
  <2>1. TAKE c \in DOMAIN list
  <2>2. CASE c = selected
    BY <1>5, <1>6, <1>7, <2>2 DEF RightItem, RemovesTag
  <2>3. CASE c # selected
    BY <1>6, <1>7, <2>3 DEF RightItem, RemovesTag
  <2>4. QED
    BY <2>2, <2>3
<1>9. QED
  BY <1>4, <1>5, <1>6, <1>8, ClickStep

LEMMA RemoveTagStep ==
  ASSUME PageInv, NEW t \in Tags, RemoveTag(t)
  PROVE  PageInv'
<1>1. PICK call : Clicked(call, "removeTag", t)
  BY DEF Clicked
<1>2. /\ selected \in DOMAIN list /\ DOMAIN list \subseteq Conversations
      /\ list \in [DOMAIN list -> Item]
  BY DEF RemoveTag, Chosen, PageInv, PageTypes
<1>3. /\ Sent' = Sent \cup {call} /\ list' = [list EXCEPT ![selected].tags = @ \ {t}]
      /\ UNCHANGED <<history, events, filter, selected, active, messages, notes, loading,
                     ghostVars>>
  BY <1>1, CallSteps DEF RemoveTag, Click, Clicked, serverVars
<1>4. /\ call.kind = "removeTag" /\ call.of = selected /\ call.to = t /\ call.phase = "sent"
      /\ Proper(call)
  BY <1>1, ClickedCall, ClickRemembers
     DEF RemoveTag, Chosen, PageInv, Proper, Patches, TagRequests
<1>5. /\ DOMAIN list' = DOMAIN list /\ list' \in [DOMAIN list -> Item]
      /\ \A c \in DOMAIN list \ {selected} : list'[c] = list[c]
      /\ list'[selected].unread = list[selected].unread
      /\ list'[selected].assignee = list[selected].assignee
      /\ list'[selected].status = list[selected].status
      /\ list'[selected].tags = list[selected].tags \ {t}
  BY <1>2, <1>3 DEF Item
<1>6. Now' = Now /\ known' = known /\ Sent \subseteq Sent' /\ call \in Sent'
  BY <1>3 DEF Now, Version, ghostVars
<1>7. \A c \in DOMAIN list : RightItem(c) => RightItem(c)'
  <2>1. TAKE c \in DOMAIN list
  <2>2. CASE c = selected
    <3>1. RemovesTag(call, c, t)'
      BY <1>4, <2>2 DEF RemovesTag
    <3>2. \A other, u : RemovesTag(other, c, u) => RemovesTag(other, c, u)'
      BY <1>6 DEF RemovesTag
    <3>3. SUFFICES ASSUME RightItem(c) PROVE RightItem(c)'
      OBVIOUS
    <3>4. ASSUME NEW u \in Now[c].item.tags \ list'[c].tags
          PROVE  \E other \in Sent' : RemovesTag(other, c, u)'
      <4>1. CASE u = t
        BY <1>6, <3>1, <4>1
      <4>2. CASE u # t
        <5>1. u \in Now[c].item.tags \ list[c].tags
          BY <1>5, <2>2, <3>4, <4>2
        <5>2. QED
          BY <1>6, <3>2, <3>3, <5>1 DEF RightItem
      <4>3. QED
        BY <4>1, <4>2
    <3>5. QED
      BY <1>5, <1>6, <2>2, <3>3, <3>4 DEF RightItem
  <2>3. CASE c # selected
    BY <1>5, <1>6, <2>3 DEF RightItem, RemovesTag
  <2>4. QED
    BY <2>2, <2>3
<1>8. QED
  BY <1>3, <1>4, <1>5, <1>7, ClickStep

LEMMA SelectStep ==
  ASSUME PageInv, NEW c \in Conversations, Select(c)
  PROVE  PageInv'
<1>1. /\ c \in DOMAIN list /\ selected' = c
      /\ UNCHANGED <<history, events, filter, list, active, messages, notes, loading, calls,
                     known, excused>>
  BY DEF Select, serverVars, ghostVars
<1>2. ServerTypes /\ PageTypes /\ GhostTypes /\ AllProper
  BY DEF PageInv
<1>3. ServerStep
  BY <1>1, <1>2, QuietIsStep DEF GhostTypes
<1>4. ServerTypes' /\ GhostTypes' /\ Extends /\ \A p \in Parts : Works(p) => Moves(p)
  BY <1>3 DEF ServerStep
<1>5. PageTypes'
  BY <1>1, <1>2 DEF PageTypes
<1>6. AllProper' /\ CallsStay /\ ListCallsStay /\ \A p : CallsKeep(p)
  BY <1>1, <1>2, <1>4, SameCalls DEF CallsStay, ListCallsStay, CallsKeep
<1>7. \A p \in Parts : Works(p)' => CaughtUp(p)'
  <2>1. TAKE p \in Parts
  <2>2. Works(p)' => Works(p)
    BY <1>1 DEF Works
  <2>3. QED
    BY <1>1, <1>2, <1>4, <1>6, <2>2, CaughtUpKept DEF PageInv
<1>8. ShownMessages' /\ ShownNotes'
  BY <1>1, <1>2, <1>4, MessagesKept, NotesKept DEF PageInv, Parts
<1>9. Spinner'
  BY <1>1, <1>6, SpinnerKept DEF PageInv
<1>10. ShownList'
  BY <1>1, <1>2, <1>4, <1>6, ListKept DEF PageInv, Works, Parts
<1>11. QED
  BY <1>4, <1>5, <1>6, <1>7, <1>8, <1>9, <1>10 DEF PageInv

(* A new filter: the stream is reopened, and the list is on its way.        *)
LEMMA SetFilterStep ==
  ASSUME PageInv, NEW f \in Filters, SetFilter(f)
  PROVE  PageInv'
<1>1. /\ filter' = f /\ CloseStream /\ Send({FetchList(f)})
      /\ UNCHANGED <<history, list, selected, active, messages, notes, loading>>
  BY DEF SetFilter
<1>2. ServerTypes /\ PageTypes /\ GhostTypes /\ AllProper
  BY DEF PageInv
<1>3. ServerStep
  BY <1>1, <1>2, CloseMoves
<1>4. ServerTypes' /\ GhostTypes' /\ Extends /\ \A p \in Parts : Works(p) => Moves(p)
  BY <1>3 DEF ServerStep
<1>5. PageTypes'
  BY <1>1, <1>2 DEF PageTypes
<1>6. PICK R : R = {FetchList(f)}
  OBVIOUS
<1>7. Sent' = Sent \cup R
  BY <1>1, <1>6, CallSteps
<1>8. \A call \in R : Proper(call)'
  <2>1. \A call \in R : Proper(call)
    BY <1>2, <1>6, PlainRequests, PlainIsProper
  <2>2. QED
    BY <1>2, <1>4, <2>1, ProperKept
<1>9. AllProper' /\ CallsStay /\ \A p : CallsKeep(p)
  BY <1>2, <1>4, <1>7, <1>8, SendStep
<1>10. \A p \in Parts : Works(p)' => CaughtUp(p)'
  <2>1. TAKE p \in Parts
  <2>2. Works(p)' => Works(p)
    BY <1>1 DEF Works
  <2>3. QED
    BY <1>1, <1>2, <1>4, <1>9, <2>2, CaughtUpKept DEF PageInv
<1>11. ShownMessages' /\ ShownNotes'
  BY <1>1, <1>2, <1>4, MessagesKept, NotesKept DEF PageInv, Parts
<1>12. Spinner'
  <2>1. CASE active # None
    <3>1. "messages" \in excused => "messages" \in excused'
      BY <1>4, <2>1 DEF Works, Parts, Moves
    <3>2. QED
      BY <1>1, <1>9, <3>1, SpinnerKept DEF PageInv
  <2>2. CASE active = None
    BY <1>1, <2>2 DEF Spinner
  <2>3. QED
    BY <2>1, <2>2
<1>13. ShownList'
  <2>1. SUFFICES ASSUME "list" \notin excused', Same("list", known["list"])'
                 PROVE  RightFilter' /\ \A c \in DOMAIN list : RightItem(c)'
    BY <1>1 DEF ShownList
  <2>2. Moves("list")
    BY <1>4 DEF Works, Parts
  <2>3. /\ known'["list"] = known["list"] /\ known["list"] <= Version'
        /\ \A c \in DOMAIN list : RightItem(c)
        /\ \A c \in Conversations : Now'[c].item = Now[c].item
    BY <1>2, <1>4, <2>1, <2>2, ListIsAsBefore DEF PageInv, ShownList
  <2>4. RightFilter'
    <3>1. FetchList(f).kind = "list" /\ FetchList(f).filter = f
      BY DEF FetchList, Request
    <3>2. QED
      BY <1>1, <1>6, <1>7, <3>1 DEF RightFilter
  <2>5. ASSUME NEW c \in DOMAIN list
        PROVE  RightItem(c)'
    BY <1>1, <1>2, <1>9, <2>3, RightItemKept DEF CallsStay, PageTypes
  <2>6. QED
    BY <2>4, <2>5
<1>14. QED
  BY <1>4, <1>5, <1>9, <1>10, <1>11, <1>12, <1>13 DEF PageInv

(* The page moves to the conversation that is selected, and fetches what it  *)
(* shows of it.                                                             *)
LEMMA SelectionStep ==
  ASSUME PageInv, SelectionEffect
  PROVE  PageInv'
<1>1. /\ active' = selected /\ messages' = Nothing /\ notes' = Nothing
      /\ loading' = (selected # None)
      /\ known' = [known EXCEPT !["messages"] = 0, !["notes"] = 0]
      /\ excused' = excused \ {"messages", "notes"}
      /\ UNCHANGED <<history, events, filter, list, selected>>
  BY DEF SelectionEffect, serverVars
<1>2. ServerTypes /\ PageTypes /\ GhostTypes /\ AllProper
  BY DEF PageInv
<1>3. ServerTypes' /\ Extends /\ Version' = Version /\ Now' = Now /\ Version \in Nat
  BY <1>1, <1>2, Quietly, NowTypes DEF ServerTypes, Version
<1>4. PageTypes'
  BY <1>1, <1>2 DEF PageTypes, Shown, Nothing
<1>5. /\ GhostTypes' /\ known'["messages"] = 0 /\ known'["notes"] = 0
      /\ known'["list"] = known["list"]
  BY <1>1, <1>2, <1>3 DEF GhostTypes, Parts
<1>6. PICK R : R = IF selected = None THEN {}
                   ELSE {Request("messages", selected), Request("notes", selected)}
  OBVIOUS
<1>7. Sent' = Sent \cup R
  <2>1. CASE selected = None
    BY <1>6, <2>1 DEF SelectionEffect, Sent
  <2>2. CASE selected # None
    BY <1>6, <2>2, CallSteps DEF SelectionEffect
  <2>3. QED
    BY <2>1, <2>2
<1>8. \A call \in R : Proper(call)'
  <2>1. selected # None => selected \in Conversations
    BY <1>2 DEF PageTypes
  <2>2. \A call \in R : Proper(call)
    BY <1>2, <1>6, <2>1, PlainRequests, PlainIsProper
  <2>3. QED
    BY <1>2, <1>3, <2>2, ProperKept
<1>9. AllProper' /\ ListCallsStay /\ CallsKeep("list")
  BY <1>2, <1>3, <1>7, <1>8, SendStep
<1>10. \A p \in {"messages", "notes"} : selected # None =>
         \E call \in Sent' : Fetches(call, p)' /\ call.phase = "sent"
  <2>1. SUFFICES ASSUME NEW p \in {"messages", "notes"}, selected # None
                 PROVE  \E call \in Sent' : Fetches(call, p)' /\ call.phase = "sent"
    OBVIOUS
  <2>2. PICK call \in Sent' : call = Request(p, selected)
    BY <1>6, <1>7, <2>1
  <2>3. Fetches(call, p)' /\ call.phase = "sent"
    BY <1>1, <2>2 DEF Fetches, Request
  <2>4. QED
    BY <2>3
<1>11. Moves("list")
  <2>1. \A e : "list" \in Touched(e)' <=> "list" \in Touched(e)
    BY DEF Touched
  <2>2. Announced("list")' <=> Announced("list")
    BY <1>1, <2>1 DEF Announced
  <2>3. View("list", Version)' = View("list", Version)
    BY <1>1, <1>3 DEF View
  <2>4. QED
    BY <1>1, <1>5, <2>2, <2>3 DEF Moves
<1>12. \A p \in Parts : Works(p)' => CaughtUp(p)'
  <2>1. CaughtUp("list")'
    BY <1>2, <1>3, <1>9, <1>11, CaughtUpKept DEF PageInv, Works, Parts
  <2>2. \A p \in {"messages", "notes"} : Works(p)' => CaughtUp(p)'
    BY <1>1, <1>10 DEF Works, CaughtUp, Fetching
  <2>3. QED
    BY <2>1, <2>2 DEF Parts
<1>13. ShownMessages' /\ ShownNotes'
  BY <1>5 DEF ShownMessages, ShownNotes, Same
<1>14. Spinner'
  BY <1>1, <1>10 DEF Spinner
<1>15. ShownList'
  BY <1>1, <1>2, <1>3, <1>9, <1>11, ListKept DEF PageInv
<1>16. QED
  BY <1>3, <1>4, <1>5, <1>9, <1>12, <1>13, <1>14, <1>15 DEF PageInv

-----------------------------------------------------------------------------
(* Answers.                                                                *)

(* Nothing is new of a part that an answer does not show.                   *)
LEMMA PartLeftAlone ==
  ASSUME ServerTypes, UNCHANGED <<history, events, active>>, NEW p \in Parts,
         \/ known'[p] = known[p] /\ (p \in excused => p \in excused')
         \/ Missed(p)
  PROVE  Moves(p)
<1>1. View(p, Version)' = View(p, Version)
  BY DEF View, Version
<1>2. Announced(p)' <=> Announced(p)
  BY DEF Announced, Touched
<1>3. QED
  BY <1>1, <1>2 DEF Moves, Missed

(* The answer that is shown is as new as what the page knew, or newer.       *)
LEMMA PartShown ==
  ASSUME ServerTypes, GhostTypes, UNCHANGED <<history, events, active>>,
         NEW p \in Parts,
         CaughtUp(p), NEW call \in Sent, call.phase = "answered", Replies(call),
         Sent \ {call} \subseteq Sent', known'[p] = Max({known[p], call.seen})
  PROVE  CaughtUp(p)'
<1>1. /\ known[p] \in Nat /\ call.seen \in Nat /\ call.seen <= Version /\ Version \in Nat
      /\ known[p] <= Version
  BY NowTypes DEF GhostTypes, Replies
<1>2. known'[p] \in {known[p], call.seen} /\ known'[p] >= known[p] /\ known'[p] >= call.seen
  BY <1>1, MaxOfTwo
<1>3. known'[p] \in Nat /\ known'[p] <= Version
  BY <1>1, <1>2
<1>4. \A w : Same(p, w)' <=> Same(p, w)
  BY DEF Same, View, Version
<1>5. CASE Same(p, known[p]) \/ Same(p, call.seen)
  <2>1. Same(p, known'[p])
    BY <1>1, <1>2, <1>3, <1>5, SameUp
  <2>2. QED
    BY <1>4, <2>1 DEF CaughtUp
<1>6. CASE Announced(p)
  BY <1>6 DEF CaughtUp, Announced, Touched
<1>7. ASSUME NEW other \in Sent, Fetches(other, p), other # call,
             other.phase = "answered" => Same(p, other.seen)
      PROVE  CaughtUp(p)'
  <2>1. other \in Sent' /\ Fetches(other, p)'
    BY <1>7 DEF Fetches
  <2>2. QED
    BY <1>4, <1>7, <2>1 DEF CaughtUp, Fetching
<1>8. QED
  BY <1>5, <1>6, <1>7 DEF CaughtUp, Fetching

LEMMA FollowUpIsPlain ==
  ASSUME PageTypes, NEW call, Addressed(call), NEW next \in FollowUp(call)
  PROVE  Plain(next)
<1>1. call.filter \in Filters /\ (active # None => active \in Conversations)
  BY DEF Addressed, CallType, PageTypes
<1>2. \/ next = [FetchList(call.filter) EXCEPT !.by = "send"]
      \/ active # None /\ next = [Request("messages", active) EXCEPT !.by = "simulate"]
  BY DEF FollowUp
<1>3. QED
  BY <1>1, <1>2, PlainRequests

(* What every end of a call has in common.                                  *)
LEMMA CallEnds ==
  ASSUME PageInv, NEW call \in Sent, NEW R, Sent \ {call} \subseteq Sent',
         Sent' \subseteq Sent \cup R, \A next \in R : Plain(next),
         UNCHANGED <<history, events, active>>
  PROVE  /\ ServerTypes /\ PageTypes /\ GhostTypes /\ AllProper
         /\ ServerTypes' /\ Extends /\ Version' = Version /\ Now' = Now /\ AllProper'
         /\ \A other \in Sent \ {call} : Stays(other)
         /\ \A p : ~Fetches(call, p) => CallsKeep(p)
         /\ call.kind \notin {"list", "assignee", "status", "removeTag"} => ListCallsStay
         /\ \A p \in Parts : Works(p)' => CaughtUp(p)
         /\ \A p \in Parts : Works(p)' /\ Moves(p) /\ ~Fetches(call, p) => CaughtUp(p)'
<1>1. ServerTypes /\ PageTypes /\ GhostTypes /\ AllProper
  BY DEF PageInv
<1>2. ServerTypes' /\ Extends /\ Version' = Version /\ Now' = Now
  BY <1>1, Quietly DEF ServerTypes, Version
<1>3. AllProper'
  <2>1. ASSUME NEW next \in Sent'
        PROVE  Proper(next)'
    <3>1. Proper(next)
      BY <1>1, PlainIsProper DEF AllProper
    <3>2. QED
      BY <1>1, <1>2, <3>1, ProperKept
  <2>2. QED
    BY <2>1 DEF AllProper
<1>4. \A other \in Sent \ {call} : Stays(other)
  BY DEF Stays
<1>5. /\ \A p : ~Fetches(call, p) => CallsKeep(p)
      /\ call.kind \notin {"list", "assignee", "status", "removeTag"} => ListCallsStay
  BY <1>4 DEF CallsKeep, ListCallsStay
<1>6. \A p \in Parts : Works(p)' => CaughtUp(p)
  BY DEF PageInv, Works
<1>7. \A p \in Parts : Works(p)' /\ Moves(p) /\ ~Fetches(call, p) => CaughtUp(p)'
  BY <1>1, <1>2, <1>5, <1>6, CaughtUpKept
<1>8. QED
  BY <1>1, <1>2, <1>3, <1>4, <1>5, <1>6, <1>7

LEMMA FinishEnds ==
  ASSUME PageInv, NEW call \in Sent, Finish(call)
  PROVE  /\ Sent \ {call} \subseteq Sent' /\ Sent' \subseteq Sent \cup FollowUp(call)
         /\ FollowUp(call) \subseteq Sent' /\ \A next \in FollowUp(call) : Plain(next)
BY CallSteps, FollowUpIsPlain DEF PageInv, AllProper, Proper

(* What a step that writes items of the list must leave right.              *)
ItemsStayRight ==
  "list" \notin excused' /\ Same("list", known["list"])' =>
    \A c \in DOMAIN list : RightItem(c) => RightItem(c)'

(* An answer or a failure that only changes items of the list.              *)
WritesList(call) ==
  /\ call.kind \notin Parts /\ Finish(call)
  /\ UNCHANGED <<history, events, filter, selected, active, messages, notes, loading>>
  /\ DOMAIN list' = DOMAIN list /\ list' \in [DOMAIN list -> Item]
  /\ \/ known' = known /\ excused' \in {excused, excused \cup {"list"}}
     \/ Misses({"list"}, Version)
  /\ ItemsStayRight

LEMMA ListWritten ==
  ASSUME PageInv, NEW call \in Sent, WritesList(call)
  PROVE  PageInv'
<1>0. /\ call.kind \notin Parts /\ Finish(call)
      /\ UNCHANGED <<history, events, filter, selected, active, messages, notes, loading>>
      /\ DOMAIN list' = DOMAIN list /\ list' \in [DOMAIN list -> Item]
      /\ \/ known' = known /\ excused' \in {excused, excused \cup {"list"}}
         \/ Misses({"list"}, Version)
      /\ ItemsStayRight
  BY DEF WritesList
<1>1. PICK R : /\ Sent \ {call} \subseteq Sent' /\ Sent' \subseteq Sent \cup R
               /\ R = FollowUp(call) /\ \A next \in R : Plain(next)
  BY <1>0, FinishEnds
<1>2. /\ ServerTypes /\ PageTypes /\ GhostTypes /\ AllProper
      /\ ServerTypes' /\ Extends /\ Version' = Version /\ Now' = Now /\ AllProper'
      /\ \A other \in Sent \ {call} : Stays(other)
      /\ \A p : ~Fetches(call, p) => CallsKeep(p)
      /\ \A p \in Parts : Works(p)' /\ Moves(p) /\ ~Fetches(call, p) => CaughtUp(p)'
  BY <1>0, <1>1, CallEnds
<1>3. \A p \in Parts : ~Fetches(call, p)
  BY <1>0 DEF Fetches
<1>4. /\ \A p \in Parts : p \in excused => p \in excused'
      /\ \A p \in Parts : known'[p] = known[p] \/ Missed(p)
      /\ \A p \in {"messages", "notes"} : known'[p] = known[p]
  BY <1>0, <1>2 DEF Misses, Missed, Parts
<1>5. \A p \in Parts : Moves(p)
  BY <1>0, <1>2, <1>4, PartLeftAlone
<1>6. PageTypes'
  BY <1>0, <1>2 DEF PageTypes
<1>7. GhostTypes'
  <2>1. "list" \in Parts /\ {"list"} \in SUBSET Parts
    BY DEF Parts
  <2>2. CASE known' = known /\ excused' \in {excused, excused \cup {"list"}}
    BY <1>2, <2>1, <2>2 DEF GhostTypes
  <2>3. CASE Misses({"list"}, Version)
    BY <1>2, <2>1, <2>3, GhostSteps
  <2>4. QED
    BY <1>0, <2>2, <2>3
<1>8. \A p \in Parts : Works(p)' => CaughtUp(p)'
  BY <1>2, <1>3, <1>5
<1>9. ShownMessages' /\ ShownNotes'
  BY <1>0, <1>2, <1>5, MessagesKept, NotesKept DEF PageInv, Parts
<1>10. Spinner'
  BY <1>0, <1>2, <1>3, <1>4, SpinnerKept DEF PageInv, Parts
<1>11. ShownList'
  <2>1. SUFFICES ASSUME "list" \notin excused', Same("list", known["list"])'
                 PROVE  RightFilter' /\ \A c \in DOMAIN list' : RightItem(c)'
    BY <1>0 DEF ShownList
  <2>2. /\ RightFilter /\ \A c \in DOMAIN list : RightItem(c)
        /\ Same("list", known["list"]) /\ \A c \in Conversations : Now'[c].item = Now[c].item
    BY <1>2, <1>5, <2>1, ListIsAsBefore DEF PageInv, ShownList, Parts
  <2>3. \A other \in Sent : other.kind = "list" => other \in Sent'
    BY <1>0, <1>1 DEF Parts
  <2>4. RightFilter'
    BY <1>0, <2>2, <2>3 DEF RightFilter, ListOf, Version
  <2>5. QED
    BY <1>0, <2>1, <2>2, <2>4 DEF ItemsStayRight
<1>12. QED
  BY <1>2, <1>6, <1>7, <1>8, <1>9, <1>10, <1>11 DEF PageInv

LEMMA PatchStep ==
  ASSUME PageInv, NEW call \in Sent, PatchAnswered(call),
         UNCHANGED <<history, events>>
  PROVE  PageInv'
<1> DEFINE c == call.of
           field == call.kind
           to == IF call.phase = "answered" THEN call.to ELSE call.prior[field]
<1>1. /\ field \in {"assignee", "status"} /\ Finish(call) /\ known' = known
      /\ Put(c, [list[c] EXCEPT ![field] = to])
      /\ UNCHANGED <<filter, selected, active, messages, notes, loading>>
      /\ excused' \in {excused, excused \cup {"list"}}
      /\ "list" \notin excused' =>
           IF call.phase = "answered" THEN ~(call.seen < known["list"])
                                      ELSE call.knew = known["list"]
  BY DEF PatchAnswered, Excuse
<1>2. /\ Addressed(call) /\ Replies(call) /\ Remembers(call)
      /\ PageTypes /\ ServerTypes /\ GhostTypes
  BY DEF PageInv, AllProper, Proper
<1>3. /\ c \in Conversations /\ call.seen \in Nat /\ call.knew \in Nat
      /\ field = "assignee" => to \in Members
      /\ field = "status" => to \in Statuses
  BY <1>1, <1>2 DEF Addressed, CallType, Patches, Item
<1>4. /\ DOMAIN list' = DOMAIN list /\ list' \in [DOMAIN list -> Item]
      /\ \A d \in DOMAIN list \ {c} : list'[d] = list[d]
      /\ c \in DOMAIN list =>
           /\ list'[c].unread = list[c].unread /\ list'[c].tags = list[c].tags
           /\ field = "assignee" => /\ list'[c].assignee = to
                                    /\ list'[c].status = list[c].status
           /\ field = "status" => /\ list'[c].status = to
                                  /\ list'[c].assignee = list[c].assignee
  <2>1. list \in [DOMAIN list -> Item]
    BY <1>2 DEF PageTypes
  <2>2. CASE c \in DOMAIN list
    <3> DEFINE item == [list[c] EXCEPT ![field] = to]
    <3>1. list' = [list EXCEPT ![c] = item]
      BY <1>1, <2>2 DEF Put
    <3>2. list[c] \in Item
      BY <2>1, <2>2
    <3>3. /\ item \in Item /\ item.unread = list[c].unread /\ item.tags = list[c].tags
          /\ field = "assignee" => item.assignee = to /\ item.status = list[c].status
          /\ field = "status" => item.status = to /\ item.assignee = list[c].assignee
      <4>1. CASE field = "assignee"
        BY <1>3, <3>2, <4>1 DEF Item
      <4>2. CASE field = "status"
        BY <1>3, <3>2, <4>2 DEF Item
      <4>3. QED
        BY <1>1, <4>1, <4>2
    <3> HIDE DEF item
    <3>4. QED
      BY <2>1, <2>2, <3>1, <3>3
  <2>3. CASE c \notin DOMAIN list
    BY <1>1, <2>1, <2>3 DEF Put
  <2>4. QED
    BY <2>2, <2>3
<1>5. /\ Sent \ {call} \subseteq Sent' /\ Now' = Now
  BY <1>1, FinishEnds DEF Now, Version
<1>6. ItemsStayRight
  <2>0. SUFFICES ASSUME "list" \notin excused', Same("list", known["list"])'
                 PROVE  \A d \in DOMAIN list : RightItem(d) => RightItem(d)'
    BY DEF ItemsStayRight
  <2>1. Same("list", known["list"])
    BY <1>1, <2>0 DEF Same, View, Version
  <2>2. /\ field = "assignee" => to = Now[c].item.assignee
        /\ field = "status" => to = Now[c].item.status
    <3>1. CASE call.phase = "answered"
      <4>1. call.seen \in known["list"] .. Version
        BY <1>1, <1>2, <1>3, <2>0, <3>1, NowTypes DEF Replies, GhostTypes,
           Parts
      <4>2. history[call.seen][c].item = Now[c].item
        BY <1>3, <2>1, <4>1, SameList
      <4>3. QED
        BY <1>2, <3>1, <4>2 DEF Replies
    <3>2. CASE call.phase # "answered"
      <4>1. Same("list", call.knew)
        BY <1>1, <2>0, <2>1, <3>2
      <4>2. QED
        BY <1>2, <3>2, <4>1 DEF Remembers
    <3>3. QED
      BY <3>1, <3>2
  <2>3. \A d, t, other : other # call => (RemovesTag(other, d, t) => RemovesTag(other, d, t)')
    BY <1>1 DEF RemovesTag
  <2>4. TAKE d \in DOMAIN list
  <2>5. CASE d = c
    <3>1. \A t : ~RemovesTag(call, d, t)
      BY <1>1 DEF RemovesTag
    <3>2. QED
      BY <1>1, <1>4, <1>5, <2>2, <2>3, <2>5, <3>1 DEF RightItem
  <2>6. CASE d # c
    <3>1. \A t : ~RemovesTag(call, d, t)
      BY <1>1 DEF RemovesTag
    <3>2. QED
      BY <1>4, <1>5, <2>3, <2>6, <3>1 DEF RightItem
  <2>7. QED
    BY <2>5, <2>6
<1>7. call.kind \notin Parts
  BY <1>1 DEF Parts
<1>8. WritesList(call)
  BY <1>1, <1>4, <1>6, <1>7 DEF WritesList
<1>9. QED
  BY <1>8, ListWritten

LEMMA TagStep ==
  ASSUME PageInv, NEW call \in Sent, TagAnswered(call),
         UNCHANGED <<history, events>>
  PROVE  PageInv'
<1> DEFINE c == call.of
           restored == IF call.kind = "addTag" THEN call.prior.tags \cup {call.to}
                       ELSE call.prior.tags
           writes == \/ call.kind = "addTag" /\ call.phase = "answered"
                        /\ call.to \notin call.prior.tags
                     \/ call.kind = "removeTag" /\ call.phase = "refused"
<1>1. /\ call.kind \in TagRequests /\ Finish(call) /\ call.phase # "sent"
      /\ UNCHANGED <<filter, selected, active, messages, notes, loading>>
      /\ IF writes
           THEN /\ Put(c, [list[c] EXCEPT !.tags = restored])
                /\ Excuse(call.knew # known["list"])
           ELSE /\ UNCHANGED list
                /\ IF call.kind = "removeTag" /\ call.phase = "lost"
                     THEN Misses({"list"}, Version) ELSE UNCHANGED ghostVars
  BY DEF TagAnswered, TagRequests
<1>2. /\ Addressed(call) /\ Replies(call) /\ Remembers(call)
      /\ PageTypes /\ ServerTypes /\ GhostTypes
  BY DEF PageInv, AllProper, Proper
<1>3. /\ c \in Conversations /\ call.seen \in Nat /\ call.knew \in Nat
      /\ call.prior \in Item /\ restored \in SUBSET Tags
  BY <1>1, <1>2 DEF Addressed, CallType, Patches, TagRequests, Item
<1>4. Sent \ {call} \subseteq Sent' /\ Now' = Now
  BY <1>1, FinishEnds DEF Now, Version
<1>5. call.kind \notin Parts
  BY <1>1 DEF Parts, TagRequests
<1>6. list \in [DOMAIN list -> Item]
  BY <1>2 DEF PageTypes
<1>7. CASE writes
  <2>1. /\ known' = known /\ excused' \in {excused, excused \cup {"list"}}
        /\ "list" \notin excused' => call.knew = known["list"]
        /\ Put(c, [list[c] EXCEPT !.tags = restored])
    BY <1>1, <1>7 DEF Excuse
  <2>2. /\ DOMAIN list' = DOMAIN list /\ list' \in [DOMAIN list -> Item]
        /\ \A d \in DOMAIN list \ {c} : list'[d] = list[d]
        /\ c \in DOMAIN list =>
             /\ list'[c].unread = list[c].unread /\ list'[c].assignee = list[c].assignee
             /\ list'[c].status = list[c].status /\ list'[c].tags = restored
    <3> HIDE DEF restored
    <3>1. CASE c \in DOMAIN list
      BY <1>3, <1>6, <2>1, <3>1 DEF Put, Item
    <3>2. CASE c \notin DOMAIN list
      BY <1>6, <2>1, <3>2 DEF Put
    <3>3. QED
      BY <3>1, <3>2
  <2>3. ItemsStayRight
    <3>0. SUFFICES ASSUME "list" \notin excused', Same("list", known["list"])'
                   PROVE  \A d \in DOMAIN list : RightItem(d) => RightItem(d)'
      BY DEF ItemsStayRight
    <3>1. Same("list", known["list"]) /\ call.knew = known["list"]
      BY <1>1, <2>1, <3>0 DEF Same, View, Version
    <3>2. call.prior.tags = Now[c].item.tags
      BY <1>1, <1>2, <3>1 DEF Remembers
    <3>3. restored = Now[c].item.tags
      <4>1. CASE call.kind = "addTag"
        <5>1. call.phase = "answered"
          BY <1>7, <4>1
        <5>2. call.seen \in known["list"] .. Version
          BY <1>2, <1>3, <3>1, <5>1, NowTypes DEF Replies
        <5>3. history[call.seen][c].item = Now[c].item
          BY <1>3, <3>1, <5>2, SameList
        <5>4. call.to \in Now[c].item.tags
          BY <1>2, <4>1, <5>1, <5>3 DEF Replies
        <5>5. QED
          BY <3>2, <4>1, <5>4
      <4>2. CASE call.kind = "removeTag"
        BY <3>2, <4>2
      <4>3. QED
        BY <1>1, <4>1, <4>2 DEF TagRequests
    <3> HIDE DEF restored
    <3>4. \A d, t, other : RemovesTag(other, d, t) => RemovesTag(other, d, t)'
      BY <2>1 DEF RemovesTag
    <3>5. \A d, t : RemovesTag(call, d, t) => d = c
      BY DEF RemovesTag
    <3>6. call.kind # "assignee" /\ call.kind # "status"
      BY <1>1 DEF TagRequests
    <3>7. TAKE d \in DOMAIN list
    <3>8. CASE d = c
      BY <1>4, <2>2, <3>3, <3>6, <3>8 DEF RightItem
    <3>9. CASE d # c
      BY <1>4, <2>2, <3>4, <3>5, <3>6, <3>9 DEF RightItem
    <3>10. QED
      BY <3>8, <3>9
  <2>4. WritesList(call)
    BY <1>1, <1>5, <2>1, <2>2, <2>3 DEF WritesList
  <2>5. QED
    BY <2>4, ListWritten
<1>8. CASE ~writes
  <2>1. /\ list' = list
        /\ \/ Misses({"list"}, Version)
           \/ known' = known /\ excused' = excused
        /\ call.kind = "removeTag" /\ call.phase = "lost" => Misses({"list"}, Version)
    BY <1>1, <1>8 DEF ghostVars
  <2>2. ItemsStayRight
    <3>0. SUFFICES ASSUME "list" \notin excused', Same("list", known["list"])'
                   PROVE  \A d \in DOMAIN list : RightItem(d) => RightItem(d)'
      BY DEF ItemsStayRight
    <3>1. known' = known /\ (call.kind = "removeTag" => call.phase = "answered")
      <4>1. ~Misses({"list"}, Version)
        BY <3>0 DEF Misses
      <4>2. call.phase \in {"answered", "refused", "lost"}
        BY <1>1, <1>2 DEF Addressed, CallType
      <4>3. QED
        BY <1>8, <2>1, <4>1, <4>2
    <3>2. Same("list", known["list"])
      BY <1>1, <3>0, <3>1 DEF Same, View, Version
    <3>3. ASSUME NEW d, NEW t, RemovesTag(call, d, t)
          PROVE  d = c /\ t \notin Now[c].item.tags
      <4>1. /\ d = c /\ t = call.to /\ call.kind = "removeTag" /\ call.phase = "answered"
            /\ call.seen >= known["list"]
        BY <3>1, <3>3 DEF RemovesTag
      <4>2. call.seen \in known["list"] .. Version
        BY <1>2, <1>3, <4>1, NowTypes DEF Replies, GhostTypes, Parts
      <4>3. history[call.seen][c].item = Now[c].item
        BY <1>3, <3>2, <4>2, SameList
      <4>4. QED
        BY <1>2, <4>1, <4>3 DEF Replies
    <3>4. \A d, t, other : RemovesTag(other, d, t) => RemovesTag(other, d, t)'
      BY <3>1 DEF RemovesTag
    <3>5. call.kind # "assignee" /\ call.kind # "status"
      BY <1>1 DEF TagRequests
    <3>6. TAKE d \in DOMAIN list
    <3>7. SUFFICES ASSUME RightItem(d) PROVE RightItem(d)'
      OBVIOUS
    <3>8. ASSUME NEW t \in Now[d].item.tags \ list[d].tags
          PROVE  \E other \in Sent' : RemovesTag(other, d, t)'
      <4>1. PICK other \in Sent : RemovesTag(other, d, t)
        BY <3>7 DEF RightItem
      <4>2. other # call
        BY <3>3, <3>8, <4>1
      <4>3. QED
        BY <1>4, <3>4, <4>1, <4>2
    <3>9. QED
      BY <1>4, <2>1, <3>5, <3>7, <3>8 DEF RightItem
  <2>3. WritesList(call)
    BY <1>1, <1>5, <1>6, <2>1, <2>2 DEF WritesList
  <2>4. QED
    BY <2>3, ListWritten
<1>9. QED
  BY <1>7, <1>8

LEMMA AnswerTypes ==
  ASSUME ServerTypes, GhostTypes, AllProper, NEW call \in Sent,
         call.phase = "answered"
  PROVE  /\ Addressed(call) /\ Replies(call) /\ call.seen \in 1 .. Version
         /\ Version \in Nat /\ call.seen \in Nat
         /\ call.kind \in {"messages", "notes"} => call.of \in Conversations
         /\ \A p \in Parts : known[p] \in Nat /\ known[p] <= Version
         /\ known["list"] \in Nat /\ known["list"] <= Version /\ known["list"] >= 1
<1>1. Addressed(call) /\ Replies(call)
  BY DEF AllProper, Proper
<1>2. call.seen \in 1 .. Version
  BY <1>1 DEF Replies
<1>3. Version \in Nat /\ call.seen \in Nat
  BY <1>2, NowTypes
<1>4. call.kind \in {"messages", "notes"} => call.of \in Conversations
  BY <1>1 DEF Addressed
<1>5. \A p \in Parts : known[p] \in Nat /\ known[p] <= Version
  BY DEF GhostTypes
<1>6. known["list"] \in Nat /\ known["list"] <= Version /\ known["list"] >= 1
  BY <1>5 DEF GhostTypes, Parts
<1>7. QED
  BY <1>1, <1>2, <1>3, <1>4, <1>5, <1>6

LEMMA ListStep ==
  ASSUME PageInv, NEW call \in Sent, ListArrives(call),
         UNCHANGED <<history, events>>
  PROVE  PageInv'
<1> DEFINE data == ListOf(call.seen, call.filter)
<1>1. /\ call.kind = "list" /\ call.phase = "answered" /\ Finish(call)
      /\ list' = data /\ selected' \in SelectedFrom(data)
      /\ messages' = IF data = <<>> THEN Nothing ELSE messages
      /\ loading' = (loading \/ LoadsNext(call))
      /\ known' = [known EXCEPT !["list"] = Max({@, call.seen})]
      /\ excused' = (excused \ {"list"})
           \cup {p \in {"list"} : call.seen < known[p] \/ call.filter # filter}
           \cup {p \in {"messages"} : data = <<>>}
      /\ UNCHANGED <<filter, active, notes>>
  BY DEF ListArrives
<1>2. PICK R : /\ Sent \ {call} \subseteq Sent' /\ Sent' \subseteq Sent \cup R
               /\ R = FollowUp(call) /\ R \subseteq Sent' /\ \A next \in R : Plain(next)
  BY <1>1, FinishEnds
<1>3. /\ ServerTypes /\ PageTypes /\ GhostTypes /\ AllProper
      /\ ServerTypes' /\ Extends /\ Version' = Version /\ Now' = Now /\ AllProper'
      /\ \A p : ~Fetches(call, p) => CallsKeep(p)
      /\ \A p \in Parts : Works(p)' => CaughtUp(p)
      /\ \A p \in Parts : Works(p)' /\ Moves(p) /\ ~Fetches(call, p) => CaughtUp(p)'
  BY <1>1, <1>2, CallEnds
<1>4. /\ Addressed(call) /\ Replies(call) /\ call.seen \in 1 .. Version /\ Version \in Nat
      /\ known["list"] \in Nat /\ known["list"] <= Version /\ known["list"] >= 1
      /\ call.seen \in Nat
  BY <1>1, <1>3, AnswerTypes
<1>5. /\ known'["list"] = Max({known["list"], call.seen})
      /\ \A p \in {"messages", "notes"} : known'[p] = known[p]
      /\ known' \in [Parts -> Nat] /\ excused' \subseteq Parts
      /\ known'["list"] \in {known["list"], call.seen}
      /\ known'["list"] >= known["list"] /\ known'["list"] >= call.seen
  <2>1. /\ Max({known["list"], call.seen}) \in {known["list"], call.seen}
        /\ Max({known["list"], call.seen}) >= known["list"]
        /\ Max({known["list"], call.seen}) >= call.seen
    BY <1>4, MaxOfTwo
  <2>2. known \in [Parts -> Nat] /\ excused \subseteq Parts
    BY <1>3 DEF GhostTypes
  <2>3. QED
    BY <1>1, <1>4, <2>1, <2>2 DEF Parts
<1>6. GhostTypes'
  BY <1>3, <1>4, <1>5 DEF GhostTypes, Parts
<1>7. /\ DOMAIN data \subseteq Conversations /\ data \in [DOMAIN data -> Item]
      /\ DOMAIN data =
           {c \in Conversations :
              /\ Exists(history[call.seen][c])
              /\ call.filter = "" \/ history[call.seen][c].item.status = call.filter}
      /\ \A c \in DOMAIN data : data[c] = history[call.seen][c].item
  BY <1>3, <1>4, NowTypes DEF ListOf, Row
<1> HIDE DEF data
<1>8. PageTypes'
  <2>1. selected' \in DOMAIN list' \cup {None}
    BY <1>1 DEF SelectedFrom
  <2>2. QED
    BY <1>1, <1>3, <1>7, <2>1 DEF PageTypes, Shown, Nothing
<1>9. \A p \in {"messages", "notes"} : Moves(p) /\ ~Fetches(call, p)
  <2>1. TAKE p \in {"messages", "notes"}
  <2>2. p \in Parts /\ known'[p] = known[p] /\ (p \in excused => p \in excused')
    BY <1>1, <1>5 DEF Parts
  <2>3. QED
    BY <1>1, <1>3, <2>2, PartLeftAlone DEF Fetches
<1>10. \A p \in Parts : Works(p)' => CaughtUp(p)'
  <2>1. CaughtUp("list")'
    BY <1>1, <1>2, <1>3, <1>4, <1>5, PartShown DEF Works, Parts
  <2>2. QED
    BY <1>3, <1>9, <2>1 DEF Parts
<1>11. ShownNotes'
  BY <1>1, <1>3, <1>9, NotesKept DEF PageInv
<1>12. ShownMessages'
  <2>1. CASE data = <<>>
    BY <1>1, <2>1 DEF ShownMessages
  <2>2. CASE data # <<>>
    BY <1>1, <1>3, <1>9, <2>2, MessagesKept DEF PageInv
  <2>3. QED
    BY <2>1, <2>2
<1>13. Spinner'
  <2>1. CASE LoadsNext(call)
    <3>1. PICK next \in R : next.kind = "messages" /\ next.of = active
      BY <1>1, <1>2, <2>1 DEF LoadsNext, FollowUp, Request
    <3>2. QED
      BY <1>1, <1>2, <3>1 DEF Spinner, Fetches
  <2>2. CASE ~LoadsNext(call)
    <3>1. (loading' => loading) /\ ("messages" \in excused => "messages" \in excused')
      BY <1>1, <2>2
    <3>2. QED
      BY <1>1, <1>3, <1>9, <3>1, SpinnerKept DEF PageInv
  <2>3. QED
    BY <2>1, <2>2
<1>14. ShownList'
  <2>1. SUFFICES ASSUME "list" \notin excused', Same("list", known["list"])'
                 PROVE  RightFilter' /\ \A c \in DOMAIN list' : RightItem(c)'
    BY DEF ShownList
  <2>2. ~(call.seen < known["list"]) /\ call.filter = filter
    BY <1>1, <2>1
  <2>3. known'["list"] = call.seen
    BY <1>4, <1>5, <2>2
  <2>4. Same("list", call.seen)
    <3>1. \A w : Same("list", w)' <=> Same("list", w)
      BY DEF Same, View, Version
    <3>2. QED
      BY <2>1, <2>3, <3>1
  <2>5. \A c \in Conversations : /\ history[call.seen][c].item = Now[c].item
                                 /\ Exists(history[call.seen][c]) <=> Exists(Now[c])
    BY <1>4, <2>4, SameList DEF Exists
  <2>6. RightFilter'
    <3>1. DOMAIN ListOf(Version, filter)' =
            {c \in Conversations :
               Exists(Now'[c]) /\ (filter' = "" \/ Now'[c].item.status = filter')}
      BY DEF ListOf, Now, Exists
    <3>2. QED
      BY <1>1, <1>3, <1>7, <2>2, <2>5, <3>1 DEF RightFilter
  <2>7. ASSUME NEW c \in DOMAIN list'
        PROVE  RightItem(c)'
    <3>1. list'[c] = Now'[c].item
      BY <1>1, <1>3, <1>7, <2>5, <2>7
    <3>2. QED
      BY <3>1 DEF RightItem
  <2>8. QED
    BY <2>6, <2>7
<1>15. QED
  BY <1>3, <1>6, <1>8, <1>10, <1>11, <1>12, <1>13, <1>14 DEF PageInv

LEMMA MessagesStep ==
  ASSUME PageInv, NEW call \in Sent, MessagesArrive(call),
         UNCHANGED <<history, events>>
  PROVE  PageInv'
<1>1. /\ call.kind = "messages" /\ call.phase = "answered" /\ Finish(call)
      /\ UNCHANGED <<filter, selected, active, notes>>
  BY DEF MessagesArrive
<1>2. PICK R : /\ Sent \ {call} \subseteq Sent' /\ Sent' \subseteq Sent \cup R
               /\ R = FollowUp(call) /\ R \subseteq Sent' /\ \A next \in R : Plain(next)
  BY <1>1, FinishEnds
<1>3. /\ ServerTypes /\ PageTypes /\ GhostTypes /\ AllProper
      /\ ServerTypes' /\ Extends /\ Version' = Version /\ Now' = Now /\ AllProper'
      /\ \A p : ~Fetches(call, p) => CallsKeep(p)
      /\ ListCallsStay
      /\ \A p \in Parts : Works(p)' => CaughtUp(p)
      /\ \A p \in Parts : Works(p)' /\ Moves(p) /\ ~Fetches(call, p) => CaughtUp(p)'
  BY <1>1, <1>2, CallEnds
<1>4. /\ Addressed(call) /\ Replies(call) /\ call.seen \in 1 .. Version /\ Version \in Nat
      /\ call.of \in Conversations /\ call.seen \in Nat
      /\ \A p \in Parts : known[p] \in Nat /\ known[p] <= Version
  BY <1>1, <1>3, AnswerTypes
<1>5. CASE call.of # active
  <2>1. UNCHANGED <<messages, list, loading, known, excused>>
    BY <1>5 DEF MessagesArrive, ghostVars
  <2>2. \A p \in Parts : Moves(p) /\ ~Fetches(call, p)
    BY <1>1, <1>3, <1>5, <2>1, PartLeftAlone DEF Fetches
  <2>3. PageTypes' /\ GhostTypes'
    BY <1>1, <1>3, <2>1 DEF PageTypes, GhostTypes
  <2>4. \A p \in Parts : Works(p)' => CaughtUp(p)'
    BY <1>3, <2>2
  <2>5. ShownMessages' /\ ShownNotes'
    BY <1>1, <1>3, <2>1, <2>2, MessagesKept, NotesKept DEF PageInv, Parts
  <2>6. Spinner'
    BY <1>1, <1>3, <2>1, <2>2, SpinnerKept DEF PageInv, Parts
  <2>7. ShownList'
    BY <1>1, <1>3, <2>1, <2>2, ListKept DEF PageInv, Parts
  <2>8. QED
    BY <1>3, <2>3, <2>4, <2>5, <2>6, <2>7 DEF PageInv
<1>6. CASE call.of = active
  <2>1. /\ messages' = [of |-> active, count |-> history[call.seen][active].messages]
        /\ list' = IF call.read /\ active \in DOMAIN list
                     THEN [list EXCEPT ![active].unread = FALSE] ELSE list
        /\ loading' = FALSE
        /\ known' = [known EXCEPT !["messages"] = Max({@, call.seen})]
        /\ excused' = (excused \ {"messages"})
             \cup {p \in {"messages"} : call.seen < known[p]}
             \cup {p \in {"list"} : call.read /\ call.seen < known[p]}
    BY <1>6 DEF MessagesArrive
  <2>2. known \in [Parts -> Nat] /\ excused \subseteq Parts
    BY <1>3 DEF GhostTypes
  <2>3. /\ Max({known["messages"], call.seen}) \in {known["messages"], call.seen}
        /\ Max({known["messages"], call.seen}) >= call.seen
        /\ Max({known["messages"], call.seen}) >= known["messages"]
    BY <1>4, MaxOfTwo DEF Parts
  <2>4. /\ known'["messages"] = Max({known["messages"], call.seen})
        /\ \A p \in {"list", "notes"} : known'[p] = known[p]
        /\ known' \in [Parts -> Nat] /\ excused' \subseteq Parts
    BY <1>4, <2>1, <2>2, <2>3 DEF Parts
  <2>5. GhostTypes'
    BY <1>3, <1>4, <2>3, <2>4 DEF GhostTypes, Parts
  <2>6. list \in [DOMAIN list -> Item]
    BY <1>3 DEF PageTypes
  <2>7. /\ DOMAIN list' = DOMAIN list /\ list' \in [DOMAIN list -> Item]
        /\ \A c \in DOMAIN list : c # active \/ ~call.read => list'[c] = list[c]
        /\ call.read /\ active \in DOMAIN list =>
             /\ list'[active].unread = FALSE
             /\ list'[active].assignee = list[active].assignee
             /\ list'[active].status = list[active].status
             /\ list'[active].tags = list[active].tags
    <3>1. CASE call.read /\ active \in DOMAIN list
      <4>1. list' = [list EXCEPT ![active].unread = FALSE]
        BY <2>1, <3>1
      <4>2. QED
        BY <2>6, <3>1, <4>1 DEF Item
    <3>2. CASE ~(call.read /\ active \in DOMAIN list)
      <4>1. list' = list
        BY <2>1, <3>2
      <4>2. QED
        BY <2>6, <3>2, <4>1
    <3>3. QED
      BY <3>1, <3>2
  <2>8. history[call.seen][active] \in Row
    BY <1>3, <1>4, <1>6, NowTypes
  <2>9. PageTypes'
    <3>1. messages' \in Shown
      BY <1>3, <2>1, <2>8 DEF Row, Shown, PageTypes
    <3>2. QED
      BY <1>1, <1>3, <2>7, <3>1 DEF PageTypes
  <2>10. \A p \in {"list", "notes"} : Moves(p) /\ ~Fetches(call, p)
    <3>1. TAKE p \in {"list", "notes"}
    <3>2. p \in Parts /\ known'[p] = known[p] /\ (p \in excused => p \in excused')
      BY <2>1, <2>4 DEF Parts
    <3>3. QED
      BY <1>1, <1>3, <3>2, PartLeftAlone DEF Fetches
  <2>11. \A p \in Parts : Works(p)' => CaughtUp(p)'
    <3>1. Works("messages")' => CaughtUp("messages")'
      BY <1>1, <1>2, <1>3, <1>4, <2>4, PartShown DEF Parts
    <3>2. QED
      BY <1>3, <2>10, <3>1 DEF Parts
  <2>12. ShownNotes'
    BY <1>1, <1>3, <2>10, NotesKept DEF PageInv
  <2>13. ShownMessages'
    <3>1. SUFFICES ASSUME "messages" \notin excused',
                          Same("messages", known["messages"])'
                   PROVE  messages' = [of |-> active, count |-> Now'[active].messages]
      BY <1>1 DEF ShownMessages
    <3>2. ~(call.seen < known["messages"])
      BY <2>1, <3>1
    <3>3. known'["messages"] = call.seen
      BY <1>4, <2>3, <2>4, <3>2 DEF Parts
    <3>4. Same("messages", call.seen)
      BY <1>1, <3>1, <3>3 DEF Same, View, Version
    <3>5. View("messages", call.seen) = View("messages", Version)
      BY <1>4, <3>4 DEF Same
    <3>6. history[call.seen][active].messages = Now[active].messages
      BY <3>5 DEF View, Now
    <3>7. QED
      BY <1>3, <2>1, <3>6
  <2>14. Spinner'
    BY <2>1 DEF Spinner
  <2>15. ShownList'
    <3>1. SUFFICES ASSUME "list" \notin excused', Same("list", known["list"])'
                   PROVE  RightFilter' /\ \A c \in DOMAIN list' : RightItem(c)'
      BY DEF ShownList
    <3>2. /\ RightFilter /\ \A c \in DOMAIN list : RightItem(c)
          /\ Same("list", known["list"]) /\ known'["list"] = known["list"]
      BY <1>3, <2>10, <3>1, ListIsAsBefore DEF PageInv, ShownList
    <3>3. \A other \in Sent : other # call => other \in Sent'
      BY <1>2
    <3>4. RightFilter'
      BY <1>1, <1>3, <2>7, <3>2, <3>3 DEF RightFilter, ListOf
    <3>5. \A d, t, other : RemovesTag(other, d, t) => other # call /\ RemovesTag(other, d, t)'
      BY <1>1, <3>2 DEF RemovesTag
    <3>6. call.read => ~Now[active].item.unread
      <4>1. SUFFICES ASSUME call.read PROVE ~Now[active].item.unread
        OBVIOUS
      <4>2. call.seen \in known["list"] .. Version
        BY <1>4, <2>1, <3>1, <4>1 DEF Parts
      <4>3. history[call.seen][active].item = Now[active].item
        BY <1>4, <1>6, <3>2, <4>2, SameList
      <4>4. QED
        BY <1>1, <1>4, <1>6, <4>1, <4>3 DEF Replies
    <3>7. Now \in [Conversations -> Row]
      BY <1>3, NowTypes
    <3>8. ASSUME NEW c \in DOMAIN list'
          PROVE  RightItem(c)'
      <4>1. RightItem(c) /\ c \in DOMAIN list
        BY <2>7, <3>2, <3>8
      <4>2. CASE c # active \/ ~call.read
        BY <1>1, <1>3, <2>7, <3>3, <3>5, <4>1, <4>2 DEF RightItem
      <4>3. CASE c = active /\ call.read
        <5>1. list'[c].unread = Now'[c].item.unread
          BY <1>3, <1>4, <1>6, <2>7, <3>6, <3>7, <4>1, <4>3 DEF Row, Item
        <5>2. QED
          BY <1>1, <1>3, <2>7, <3>3, <3>5, <4>1, <4>3, <5>1 DEF RightItem
      <4>4. QED
        BY <4>2, <4>3
    <3>9. QED
      BY <3>4, <3>8
  <2>16. QED
    BY <1>3, <2>5, <2>9, <2>11, <2>12, <2>13, <2>14, <2>15 DEF PageInv
<1>7. QED
  BY <1>5, <1>6

LEMMA NotesStep ==
  ASSUME PageInv, NEW call \in Sent, NotesArrive(call),
         UNCHANGED <<history, events>>
  PROVE  PageInv'
<1>1. /\ call.kind = "notes" /\ call.phase = "answered" /\ Finish(call)
      /\ UNCHANGED <<filter, list, selected, active, messages, loading>>
  BY DEF NotesArrive
<1>2. PICK R : /\ Sent \ {call} \subseteq Sent' /\ Sent' \subseteq Sent \cup R
               /\ R = FollowUp(call) /\ R \subseteq Sent' /\ \A next \in R : Plain(next)
  BY <1>1, FinishEnds
<1>3. /\ ServerTypes /\ PageTypes /\ GhostTypes /\ AllProper
      /\ ServerTypes' /\ Extends /\ Version' = Version /\ Now' = Now /\ AllProper'
      /\ \A p : ~Fetches(call, p) => CallsKeep(p)
      /\ ListCallsStay
      /\ \A p \in Parts : Works(p)' => CaughtUp(p)
      /\ \A p \in Parts : Works(p)' /\ Moves(p) /\ ~Fetches(call, p) => CaughtUp(p)'
  BY <1>1, <1>2, CallEnds
<1>4. /\ Addressed(call) /\ Replies(call) /\ call.seen \in 1 .. Version /\ Version \in Nat
      /\ call.of \in Conversations /\ call.seen \in Nat
      /\ \A p \in Parts : known[p] \in Nat /\ known[p] <= Version
  BY <1>1, <1>3, AnswerTypes
<1>5. \A p \in {"list", "messages"} :
        p \in Parts /\ known'[p] = known[p] /\ (p \in excused => p \in excused')
  BY <1>3 DEF NotesArrive, ghostVars, GhostTypes, Parts
<1>6. \A p \in {"list", "messages"} : Moves(p) /\ ~Fetches(call, p)
  <2>1. TAKE p \in {"list", "messages"}
  <2>2. QED
    BY <1>1, <1>3, <1>5, PartLeftAlone DEF Fetches
<1>7. ShownMessages' /\ Spinner' /\ ShownList'
  <2>1. ShownMessages'
    BY <1>1, <1>3, <1>6, MessagesKept DEF PageInv
  <2>2. Spinner'
    BY <1>1, <1>3, <1>5, <1>6, SpinnerKept DEF PageInv
  <2>3. ShownList'
    BY <1>1, <1>3, <1>6, ListKept DEF PageInv
  <2>4. QED
    BY <2>1, <2>2, <2>3
<1>8. CASE call.of # active
  <2>1. UNCHANGED <<notes, known, excused>>
    BY <1>8 DEF NotesArrive, ghostVars
  <2>2. \A p \in Parts : Moves(p) /\ ~Fetches(call, p)
    BY <1>1, <1>3, <1>8, <2>1, PartLeftAlone DEF Fetches
  <2>3. PageTypes' /\ GhostTypes'
    BY <1>1, <1>3, <2>1 DEF PageTypes, GhostTypes
  <2>4. \A p \in Parts : Works(p)' => CaughtUp(p)'
    BY <1>3, <2>2
  <2>5. ShownNotes'
    BY <1>1, <1>3, <2>1, <2>2, NotesKept DEF PageInv, Parts
  <2>6. QED
    BY <1>3, <1>7, <2>3, <2>4, <2>5 DEF PageInv
<1>9. CASE call.of = active
  <2>1. /\ notes' = [of |-> active, count |-> history[call.seen][active].notes]
        /\ known' = [known EXCEPT !["notes"] = Max({@, call.seen})]
        /\ excused' = (excused \ {"notes"})
             \cup {p \in {"notes"} : call.seen < known[p]}
    BY <1>9 DEF NotesArrive
  <2>2. known \in [Parts -> Nat] /\ excused \subseteq Parts
    BY <1>3 DEF GhostTypes
  <2>3. /\ Max({known["notes"], call.seen}) \in {known["notes"], call.seen}
        /\ Max({known["notes"], call.seen}) >= call.seen
        /\ Max({known["notes"], call.seen}) >= known["notes"]
    BY <1>4, MaxOfTwo DEF Parts
  <2>4. /\ known'["notes"] = Max({known["notes"], call.seen})
        /\ known' \in [Parts -> Nat] /\ excused' \subseteq Parts
    BY <1>4, <2>1, <2>2, <2>3 DEF Parts
  <2>5. GhostTypes'
    BY <1>3, <1>4, <1>5, <2>3, <2>4 DEF GhostTypes, Parts
  <2>6. history[call.seen][active] \in Row
    BY <1>3, <1>4, <1>9, NowTypes
  <2>7. PageTypes'
    <3>1. notes' \in Shown
      BY <1>3, <2>1, <2>6 DEF Row, Shown, PageTypes
    <3>2. QED
      BY <1>1, <1>3, <3>1 DEF PageTypes
  <2>8. \A p \in Parts : Works(p)' => CaughtUp(p)'
    <3>1. Works("notes")' => CaughtUp("notes")'
      BY <1>1, <1>2, <1>3, <1>4, <2>4, PartShown DEF Parts
    <3>2. QED
      BY <1>3, <1>6, <3>1 DEF Parts
  <2>9. ShownNotes'
    <3>1. SUFFICES ASSUME "notes" \notin excused', Same("notes", known["notes"])'
                   PROVE  notes' = [of |-> active, count |-> Now'[active].notes]
      BY <1>1 DEF ShownNotes
    <3>2. ~(call.seen < known["notes"])
      BY <2>1, <3>1
    <3>3. known'["notes"] = call.seen
      BY <1>4, <2>3, <2>4, <3>2 DEF Parts
    <3>4. Same("notes", call.seen)
      BY <1>1, <3>1, <3>3 DEF Same, View, Version
    <3>5. View("notes", call.seen) = View("notes", Version)
      BY <1>4, <3>4 DEF Same
    <3>6. history[call.seen][active].notes = Now[active].notes
      BY <3>5 DEF View, Now
    <3>7. QED
      BY <1>3, <2>1, <3>6
  <2>10. QED
    BY <1>3, <1>7, <2>5, <2>7, <2>8, <2>9 DEF PageInv
<1>10. QED
  BY <1>8, <1>9

LEMMA FetchFailsStep ==
  ASSUME PageInv, NEW call \in Sent, FetchFails(call), UNCHANGED <<history, events>>
  PROVE  PageInv'
<1>1. /\ call.kind \in Parts /\ call.phase \in {"refused", "lost"} /\ Finish(call)
      /\ IF call.kind = "list" \/ call.of = active
           THEN Misses({call.kind}, Version) ELSE UNCHANGED ghostVars
      /\ loading' = IF call.kind = "messages" /\ call.of = active THEN FALSE
                    ELSE loading \/ LoadsNext(call)
      /\ UNCHANGED <<filter, list, selected, active, messages, notes>>
  BY DEF FetchFails
<1>2. PICK R : /\ Sent \ {call} \subseteq Sent' /\ Sent' \subseteq Sent \cup R
               /\ R = FollowUp(call) /\ R \subseteq Sent' /\ \A next \in R : Plain(next)
  BY <1>1, FinishEnds
<1>3. /\ ServerTypes /\ PageTypes /\ GhostTypes /\ AllProper
      /\ ServerTypes' /\ Extends /\ Version' = Version /\ Now' = Now /\ AllProper'
      /\ \A other \in Sent \ {call} : Stays(other)
      /\ \A p : ~Fetches(call, p) => CallsKeep(p)
      /\ call.kind # "list" => ListCallsStay
      /\ \A p \in Parts : Works(p)' /\ Moves(p) /\ ~Fetches(call, p) => CaughtUp(p)'
  BY <1>1, <1>2, CallEnds DEF Parts
<1>4. /\ \A p \in Parts : Fetches(call, p) => Missed(p)
      /\ \A p \in Parts : ~Fetches(call, p) => known'[p] = known[p]
      /\ \A p \in Parts : p \in excused => p \in excused'
  BY <1>1, <1>3 DEF Fetches, Misses, Missed, ghostVars, GhostTypes
<1>5. \A p \in Parts : Moves(p)
  <2>1. TAKE p \in Parts
  <2>2. QED
    BY <1>1, <1>3, <1>4, PartLeftAlone
<1>6. PageTypes'
  BY <1>1, <1>3 DEF PageTypes
<1>7. GhostTypes'
  <2>1. {call.kind} \in SUBSET Parts
    BY <1>1
  <2>2. QED
    BY <1>1, <1>3, <2>1, GhostSteps DEF ghostVars, GhostTypes
<1>8. \A p \in Parts : Works(p)' => CaughtUp(p)'
  <2>1. TAKE p \in Parts
  <2>2. CASE Fetches(call, p)
    <3>1. ServerTypes' => Same(p, Version)'
      BY SameNow, PTL
    <3>2. QED
      BY <1>3, <1>4, <2>2, <3>1 DEF CaughtUp, Missed
  <2>3. CASE ~Fetches(call, p)
    BY <1>3, <1>5, <2>3
  <2>4. QED
    BY <2>2, <2>3
<1>9. ShownMessages' /\ ShownNotes'
  BY <1>1, <1>3, <1>5, MessagesKept, NotesKept DEF PageInv, Parts
<1>10. Spinner'
  <2>1. CASE Fetches(call, "messages")
    BY <1>4, <2>1 DEF Spinner, Missed, Parts
  <2>2. CASE ~Fetches(call, "messages") /\ LoadsNext(call)
    <3>1. PICK next \in R : next.kind = "messages" /\ next.of = active
      BY <1>1, <1>2, <2>2 DEF LoadsNext, FollowUp, Request, FetchList
    <3>2. QED
      BY <1>1, <1>2, <3>1 DEF Spinner, Fetches
  <2>3. CASE ~Fetches(call, "messages") /\ ~LoadsNext(call)
    <3>1. (loading' => loading) /\ ("messages" \in excused => "messages" \in excused')
      BY <1>1, <1>4, <2>3 DEF Fetches, Parts
    <3>2. QED
      BY <1>1, <1>3, <2>3, <3>1, SpinnerKept DEF PageInv
  <2>4. QED
    BY <2>1, <2>2, <2>3
<1>11. ShownList'
  <2>1. CASE call.kind = "list"
    BY <1>4, <2>1 DEF ShownList, Fetches, Missed, Parts
  <2>2. CASE call.kind # "list"
    BY <1>1, <1>3, <1>5, <2>2, ListKept DEF PageInv, Parts
  <2>3. QED
    BY <2>1, <2>2
<1>12. QED
  BY <1>3, <1>6, <1>7, <1>8, <1>9, <1>10, <1>11 DEF PageInv

(* What the answer of a request that shows nothing in the list leaves: the   *)
(* parts are as they were, or excused.                                      *)
LEMMA OtherAnswer ==
  ASSUME PageInv, NEW call \in Sent,
         call.kind \in {"addNote", "send", "simulate"}, NEW R,
         Sent \ {call} \subseteq Sent', Sent' \subseteq Sent \cup R,
         \A next \in R : Plain(next),
         UNCHANGED <<history, events, filter, list, selected, active, messages, known>>,
         notes' \in Shown, excused \subseteq excused', excused' \subseteq Parts,
         ShownNotes', Spinner'
  PROVE  PageInv'
<1>1. /\ ServerTypes /\ PageTypes /\ GhostTypes /\ AllProper
      /\ ServerTypes' /\ Extends /\ Version' = Version /\ Now' = Now /\ AllProper'
      /\ ListCallsStay
      /\ \A p \in Parts : Works(p)' /\ Moves(p) /\ ~Fetches(call, p) => CaughtUp(p)'
  BY CallEnds
<1>2. \A p \in Parts : Moves(p) /\ ~Fetches(call, p)
  <2>1. TAKE p \in Parts
  <2>2. QED
    BY <1>1, PartLeftAlone DEF Fetches, Parts
<1>3. PageTypes' /\ GhostTypes'
  BY <1>1 DEF PageTypes, GhostTypes
<1>4. \A p \in Parts : Works(p)' => CaughtUp(p)'
  BY <1>1, <1>2
<1>5. ShownMessages'
  BY <1>1, <1>2, MessagesKept DEF PageInv, Parts
<1>6. ShownList'
  BY <1>1, <1>2, ListKept DEF PageInv, Parts
<1>7. QED
  BY <1>1, <1>3, <1>4, <1>5, <1>6 DEF PageInv

LEMMA NoteStep ==
  ASSUME PageInv, NEW call \in Sent, NoteAnswered(call),
         UNCHANGED <<history, events>>
  PROVE  PageInv'
<1>1. /\ call.kind = "addNote" /\ Finish(call)
      /\ IF call.phase = "answered" /\ call.of = active
           THEN /\ notes' = [of |-> active, count |-> notes.count + 1]
                /\ excused' = IF known["notes"] >= call.seen THEN excused \cup {"notes"}
                              ELSE excused
           ELSE notes' = notes /\ excused' = excused
      /\ UNCHANGED <<filter, list, selected, active, messages, loading, known>>
  BY DEF NoteAnswered
<1>2. PICK R : /\ Sent \ {call} \subseteq Sent' /\ Sent' \subseteq Sent \cup R
               /\ R = FollowUp(call) /\ R \subseteq Sent' /\ \A next \in R : Plain(next)
  BY <1>1, FinishEnds
<1>3. /\ ServerTypes /\ PageTypes /\ GhostTypes /\ AllProper
      /\ Replies(call) /\ known["notes"] \in Nat /\ known["notes"] <= Version
      /\ Version \in Nat
  BY NowTypes DEF PageInv, AllProper, Proper, GhostTypes, Parts
<1>4. notes' \in Shown
  <2>1. notes \in Shown /\ active \in Conversations \cup {None}
    BY <1>3 DEF PageTypes
  <2>2. [of |-> active, count |-> notes.count + 1] \in Shown
    BY <2>1 DEF Shown
  <2>3. QED
    BY <1>1, <2>1, <2>2
<1>5. excused \subseteq excused' /\ excused' \subseteq Parts
  BY <1>1, <1>3 DEF GhostTypes, Parts
<1>6. Spinner'
  <2>1. CallsKeep("messages")
    BY <1>1, <1>2 DEF CallsKeep, Fetches, Stays
  <2>2. QED
    BY <1>1, <1>5, <2>1, SpinnerKept DEF PageInv
<1>7. ShownNotes'
  <2>1. CASE notes' = notes
    <3>1. \A p : Same(p, known[p])' <=> Same(p, known[p])
      BY <1>1 DEF Same, View, Version
    <3>2. QED
      BY <1>1, <1>5, <2>1, <3>1 DEF PageInv, ShownNotes, Now, Version
  <2>2. CASE call.phase = "answered" /\ call.of = active
    <3>1. SUFFICES ASSUME "notes" \notin excused', Same("notes", known["notes"])'
                   PROVE  FALSE
      BY DEF ShownNotes
    <3>2. ~(known["notes"] >= call.seen)
      BY <1>1, <2>2, <3>1
    <3>3. /\ call.seen \in 1 .. Version /\ call.seen > 1
          /\ history[call.seen - 1][active].notes # history[call.seen][active].notes
      BY <1>1, <1>3, <2>2 DEF Replies
    <3>4. Same("notes", known["notes"])
      BY <1>1, <3>1 DEF Same, View, Version
    <3>5. /\ call.seen - 1 \in known["notes"] .. Version
          /\ call.seen \in known["notes"] .. Version
      BY <1>3, <3>2, <3>3
    <3>6. View("notes", call.seen - 1) = View("notes", call.seen)
      BY <3>4, <3>5 DEF Same
    <3>7. QED
      BY <3>3, <3>6 DEF View
  <2>3. QED
    BY <1>1, <2>1, <2>2
<1>8. QED
  BY <1>1, <1>2, <1>4, <1>5, <1>6, <1>7, OtherAnswer

LEMMA SendAnsweredStep ==
  ASSUME PageInv, NEW call \in Sent, SendAnswered(call),
         UNCHANGED <<history, events>>
  PROVE  PageInv'
<1> DEFINE next == [Request("messages", call.of) EXCEPT
                      !.filter = call.filter, !.by = "send"]
<1>1. /\ call.kind = "send"
      /\ IF call.phase = "answered"
           THEN /\ calls' = BagAdd(BagRemove(calls, call), next)
                /\ loading' = TRUE
                /\ excused' = IF call.of = active THEN excused
                              ELSE excused \cup {"messages"}
           ELSE calls' = BagRemove(calls, call) /\ UNCHANGED <<loading, excused>>
      /\ UNCHANGED <<filter, list, selected, active, messages, notes, known>>
  BY DEF SendAnswered
<1>2. PICK R : R = IF call.phase = "answered" THEN {next} ELSE {}
  OBVIOUS
<1>3. /\ ServerTypes /\ PageTypes /\ GhostTypes /\ AllProper /\ Addressed(call)
  BY DEF PageInv, AllProper, Proper
<1>4. call.of \in Conversations /\ call.filter \in Filters
  BY <1>1, <1>3 DEF Addressed, CallType
<1>5. \A other \in R : Plain(other)
  <2>1. Plain(next)
    BY <1>4, RequestIsPlain
  <2>2. QED
    BY <1>2, <2>1
<1>6. next.kind = "messages" /\ next.of = call.of
  BY DEF Request
<1> HIDE DEF next
<1>7. Sent \ {call} \subseteq Sent' /\ Sent' \subseteq Sent \cup R /\ R \subseteq Sent'
  <2>1. CASE call.phase = "answered"
    <3>1. calls' = BagAdd(BagRemove(calls, call), next)
      BY <1>1, <2>1
    <3>2. Sent' = BagToSet(BagRemove(calls, call)) \cup {next}
      BY <3>1, BagSets DEF Sent
    <3>3. QED
      BY <1>2, <2>1, <3>2, BagSets DEF Sent
  <2>2. CASE call.phase # "answered"
    BY <1>1, <1>2, <2>2, BagSets DEF Sent
  <2>3. QED
    BY <2>1, <2>2
<1>8. notes' \in Shown /\ excused \subseteq excused' /\ excused' \subseteq Parts
  BY <1>1, <1>3 DEF GhostTypes, PageTypes, Parts
<1>9. Spinner'
  <2>1. CASE call.phase = "answered"
    <3>1. call.of = active => Fetches(next, "messages")'
      BY <1>1, <1>6 DEF Fetches
    <3>2. QED
      BY <1>1, <1>2, <1>7, <2>1, <3>1 DEF Spinner
  <2>2. CASE call.phase # "answered"
    <3>1. CallsKeep("messages")
      BY <1>1, <1>7 DEF CallsKeep, Fetches, Stays
    <3>2. QED
      BY <1>1, <1>8, <2>2, <3>1, SpinnerKept DEF PageInv
  <2>3. QED
    BY <2>1, <2>2
<1>10. ShownNotes'
  <2>1. Same("notes", known["notes"])' <=> Same("notes", known["notes"])
    BY <1>1 DEF Same, View, Version
  <2>2. QED
    BY <1>1, <1>8, <2>1 DEF PageInv, ShownNotes, Now, Version
<1>11. QED
  BY <1>1, <1>5, <1>7, <1>8, <1>9, <1>10, OtherAnswer

LEMMA SimulateAnsweredStep ==
  ASSUME PageInv, NEW call \in Sent, SimulateAnswered(call),
         UNCHANGED <<history, events>>
  PROVE  PageInv'
<1> DEFINE next == [FetchList(call.filter) EXCEPT !.by = "simulate"]
<1>1. /\ call.kind = "simulate"
      /\ calls' = IF call.phase = "answered" THEN BagAdd(BagRemove(calls, call), next)
                  ELSE BagRemove(calls, call)
      /\ UNCHANGED <<filter, list, selected, active, messages, notes, loading, known,
                     excused>>
  BY DEF SimulateAnswered, pageVars, ghostVars
<1>2. PICK R : R = IF call.phase = "answered" THEN {next} ELSE {}
  OBVIOUS
<1>3. /\ ServerTypes /\ PageTypes /\ GhostTypes /\ AllProper /\ Addressed(call)
  BY DEF PageInv, AllProper, Proper
<1>4. call.filter \in Filters
  BY <1>3 DEF Addressed, CallType
<1>5. \A other \in R : Plain(other)
  BY <1>2, <1>3, <1>4, PlainRequests
<1> HIDE DEF next
<1>6. Sent \ {call} \subseteq Sent' /\ Sent' \subseteq Sent \cup R
  <2>1. CASE call.phase = "answered"
    <3>1. Sent' = BagToSet(BagRemove(calls, call)) \cup {next}
      BY <1>1, <2>1, BagSets DEF Sent
    <3>2. QED
      BY <1>2, <2>1, <3>1, BagSets DEF Sent
  <2>2. CASE call.phase # "answered"
    <3>1. Sent' = BagToSet(BagRemove(calls, call))
      BY <1>1, <2>2 DEF Sent
    <3>2. QED
      BY <1>2, <2>2, <3>1, BagSets DEF Sent
  <2>3. QED
    BY <2>1, <2>2
<1>7. notes' \in Shown /\ excused \subseteq excused' /\ excused' \subseteq Parts
  BY <1>1, <1>3 DEF GhostTypes, PageTypes
<1>8. Spinner'
  <2>1. CallsKeep("messages")
    BY <1>1, <1>6 DEF CallsKeep, Fetches, Stays
  <2>2. QED
    BY <1>1, <2>1, SpinnerKept DEF PageInv
<1>9. ShownNotes'
  <2>1. Same("notes", known["notes"])' <=> Same("notes", known["notes"])
    BY <1>1 DEF Same, View, Version
  <2>2. QED
    BY <1>1, <2>1 DEF PageInv, ShownNotes, Now, Version
<1>10. QED
  BY <1>1, <1>5, <1>6, <1>7, <1>8, <1>9, OtherAnswer

-----------------------------------------------------------------------------
(* The theorems.                                                           *)

LEMMA InitPage == Init => PageInv
<1>1. SUFFICES ASSUME Init PROVE PageInv
  OBVIOUS
<1>0. PICK there \in SUBSET Conversations :
         /\ Opened \in there
         /\ history =
              <<[c \in Conversations |-> IF c \in there THEN Loaded(c = Opened) ELSE Absent]>>
         /\ list = [c \in there |-> Loaded(c = Opened).item]
  BY <1>1 DEF Init
<1> DEFINE first ==
      [c \in Conversations |-> IF c \in there THEN Loaded(c = Opened) ELSE Absent]
<1>2. /\ history = <<first>> /\ events = <<>>
      /\ filter = "" /\ list = [c \in there |-> Loaded(c = Opened).item]
      /\ selected = Opened /\ active = Opened
      /\ messages = [of |-> Opened, count |-> 1] /\ notes = [of |-> Opened, count |-> 0]
      /\ loading = FALSE /\ calls = EmptyBag
      /\ known = [p \in Parts |-> 1] /\ excused = {}
  BY <1>0, <1>1 DEF Init
<1>3. /\ \A open \in BOOLEAN : /\ Loaded(open) \in Row
                               /\ Loaded(open).messages = 1 /\ Loaded(open).notes = 0
      /\ Absent \in Row /\ Absent.messages = 0
  BY DEF Loaded, Absent, Row, Item, Statuses, Members
<1>4. first \in [Conversations -> Row]
  BY <1>3
<1>5. /\ Version = 1 /\ Now = first
      /\ history \in Seq([Conversations -> Row])
  <2> HIDE DEF first
  <2>1. Len(history) = 1 /\ history[1] = first
    BY <1>2
  <2>2. history \in Seq([Conversations -> Row])
    <3>1. \A S, x : x \in S => <<x>> \in Seq(S)
      OBVIOUS
    <3>2. QED
      BY <1>2, <1>4, <3>1
  <2>3. QED
    BY <2>1, <2>2 DEF Version, Now
<1>6. ServerTypes
  <2>1. events \in Seq(EventType)
    BY <1>2, EmptySeq
  <2>2. QED
    BY <1>5, <2>1 DEF ServerTypes
<1>7. PageTypes
  <2> HIDE DEF first
  <2>1. \A c \in Conversations : Loaded(c = Opened).item \in Item
    BY <1>3 DEF Row
  <2>2. /\ DOMAIN list = there /\ there \subseteq Conversations /\ Opened \in there
        /\ list \in [there -> Item]
    BY <1>0, <2>1
  <2>3. filter \in Filters /\ active \in Conversations
    BY <1>2, PageAssumption DEF Filters
  <2>4. messages \in Shown /\ notes \in Shown
    BY <1>2, PageAssumption DEF Shown
  <2>5. selected \in DOMAIN list
    BY <1>2, <2>2
  <2>6. QED
    BY <2>2, <2>3, <2>4, <2>5 DEF PageTypes
<1>8. GhostTypes
  <2>1. known \in [Parts -> Nat] /\ \A p \in Parts : known[p] = 1
    BY <1>2
  <2>2. "list" \in Parts
    BY DEF Parts
  <2>3. excused \subseteq Parts
    BY <1>2
  <2>4. Version = 1
    BY <1>5
  <2>5. known["list"] >= 1 /\ \A p \in Parts : known[p] <= Version
    BY <2>1, <2>2, <2>4
  <2>6. QED
    BY <2>1, <2>3, <2>5 DEF GhostTypes
<1>9. Sent = {} /\ \A p \in Parts : Same(p, known[p])
  BY <1>2, <1>5, <1>6, SameNow, BagSets DEF Sent
<1>10. ShownMessages /\ ShownNotes
  BY <1>0, <1>2, <1>3, <1>5, PageAssumption DEF ShownMessages, ShownNotes
<1>11. ShownList
  <2>1. /\ DOMAIN list = there /\ \A c \in there : list[c] = Now[c].item
        /\ \A c \in Conversations : c \in there <=> Exists(Now[c])
    <3>1. \A c \in Conversations :
            Now[c] = IF c \in there THEN Loaded(c = Opened) ELSE Absent
      BY <1>5
    <3>2. \A c \in Conversations :
            Now[c].messages = IF c \in there THEN 1 ELSE 0
      BY <1>3, <3>1
    <3>3. \A c \in Conversations : c \in there <=> Exists(Now[c])
      BY <3>2 DEF Exists
    <3>4. list = [c \in there |-> Loaded(c = Opened).item] /\ there \subseteq Conversations
      BY <1>0
    <3> HIDE DEF first
    <3>5. \A c \in there : list[c] = Now[c].item
      BY <3>1, <3>4
    <3>6. DOMAIN list = there
      BY <3>4
    <3>7. QED
      BY <3>3, <3>5, <3>6
  <2>2. RightFilter
    BY <1>0, <1>2, <1>6, <2>1, ListOfNow DEF RightFilter
  <2>3. QED
    BY <2>1, <2>2 DEF ShownList, RightItem
<1>12. QED
  BY <1>2, <1>6, <1>7, <1>8, <1>9, <1>10, <1>11 DEF PageInv, AllProper,
     CaughtUp, Spinner

LEMMA ArriveStep ==
  ASSUME PageInv, NEW call \in Sent, Arrive(call)
  PROVE  PageInv'
<1>1. UNCHANGED <<history, events>>
  BY DEF Arrive, serverVars
<1>2. \/ ListArrives(call) \/ MessagesArrive(call) \/ NotesArrive(call)
      \/ FetchFails(call) \/ PatchAnswered(call) \/ TagAnswered(call)
      \/ NoteAnswered(call) \/ SendAnswered(call) \/ SimulateAnswered(call)
  BY DEF Arrive
<1>3. CASE ListArrives(call)
  BY <1>1, <1>3, ListStep
<1>4. CASE MessagesArrive(call)
  BY <1>1, <1>4, MessagesStep
<1>5. CASE NotesArrive(call)
  BY <1>1, <1>5, NotesStep
<1>6. CASE FetchFails(call)
  BY <1>1, <1>6, FetchFailsStep
<1>7. CASE PatchAnswered(call)
  BY <1>1, <1>7, PatchStep
<1>8. CASE TagAnswered(call)
  BY <1>1, <1>8, TagStep
<1>9. CASE NoteAnswered(call)
  BY <1>1, <1>9, NoteStep
<1>10. CASE SendAnswered(call)
  BY <1>1, <1>10, SendAnsweredStep
<1>11. CASE SimulateAnswered(call)
  BY <1>1, <1>11, SimulateAnsweredStep
<1>12. QED
  BY <1>2, <1>3, <1>4, <1>5, <1>6, <1>7, <1>8, <1>9, <1>10, <1>11

LEMMA UserStep == PageInv /\ User => PageInv'
<1>1. ASSUME PageInv, NEW c \in Conversations, Select(c) PROVE PageInv'
  BY <1>1, SelectStep
<1>2. ASSUME PageInv, NEW f \in Filters, SetFilter(f) PROVE PageInv'
  BY <1>2, SetFilterStep
<1>3. ASSUME PageInv, Assign \/ ToggleStatus \/ AddNote PROVE PageInv'
  BY <1>3, AssignStep, ToggleStatusStep, AddNoteStep
<1>4. ASSUME PageInv, SendMessage \/ SimulateInbound PROVE PageInv'
  BY <1>4, SendMessageStep, SimulateInboundStep
<1>5. ASSUME PageInv, NEW t \in Tags, AddTag(t) \/ RemoveTag(t) PROVE PageInv'
  BY <1>5, AddTagStep, RemoveTagStep
<1>6. QED
  BY <1>1, <1>2, <1>3, <1>4, <1>5 DEF User

LEMMA PageInvNext == PageInv /\ [Next]_vars => PageInv'
<1>1. SUFFICES ASSUME PageInv, [Next]_vars PROVE PageInv'
  OBVIOUS
<1>2. ServerTypes /\ PageTypes /\ GhostTypes /\ AllProper
  BY <1>1 DEF PageInv
<1>3. ASSUME NEW c \in Conversations, ChangeElsewhere(c)
      PROVE  PageInv'
  <2>1. ServerStep /\ UNCHANGED <<pageVars, calls>>
    BY <1>2, <1>3, ChangeElsewhereStep DEF ChangeElsewhere
  <2>2. AllProper' /\ CallsStay
    BY <1>2, <2>1, SameCalls DEF ServerStep
  <2>3. QED
    BY <1>1, <2>1, <2>2, BackgroundStep
<1>4. ASSUME NEW call \in Sent,
             Handle(call) \/ HandleUntold(call) \/ CallFails(call)
      PROVE  PageInv'
  <2>1. UNCHANGED pageVars
    BY <1>4 DEF Handle, HandleUntold, CallFails
  <2>2. ServerStep /\ AllProper' /\ CallsStay
    BY <1>2, <1>4, HandleStep, CallFailsStep
  <2>3. QED
    BY <1>1, <2>1, <2>2, BackgroundStep
<1>5. ASSUME NEW call \in Sent, Arrive(call)
      PROVE  PageInv'
  BY <1>1, <1>5, ArriveStep
<1>6. CASE StreamBreaks \/ StreamOpens \/ StreamDelivers
  BY <1>1, <1>6, BreakStream, OpenStream, DeliverEvent
<1>7. CASE SelectionEffect \/ User
  BY <1>1, <1>7, SelectionStep, UserStep
<1>8. CASE UNCHANGED vars
  <2>1. UNCHANGED <<history, events, pageVars, calls, ghostVars>>
    BY <1>8 DEF vars, serverVars
  <2>2. ServerStep
    BY <1>2, <2>1, QuietIsStep DEF ghostVars, pageVars, GhostTypes
  <2>3. AllProper' /\ CallsStay
    BY <1>2, <2>1, <2>2, SameCalls DEF ServerStep
  <2>4. QED
    BY <1>1, <2>1, <2>2, <2>3, BackgroundStep
<1>9. QED
  BY <1>1, <1>3, <1>4, <1>5, <1>6, <1>7, <1>8 DEF Next, Sent

LEMMA PageIsRight == Spec => []PageInv
<1>1. Init => PageInv
  BY InitPage
<1>2. PageInv /\ [Next]_vars => PageInv'
  BY PageInvNext
<1>3. QED
  BY <1>1, <1>2, PTL DEF Spec

(* Once nothing is on its way the page is current (fetchConversations,        *)
(* fetchMessages, fetchNotes, the optimistic handlers and the listeners of the *)
(* event stream in page.tsx): whatever was changed by whom, and however the    *)
(* requests, their answers and the events overtook each other, the list is    *)
(* that of the filter and the messages and notes of the selected conversation *)
(* are all there, unless the page is known to have shown something older last, *)
(* or to have missed the news.                                              *)
THEOREM QuietPageIsCurrent == Spec => []QuietIsCurrent
<1>1. PageInv => QuietIsCurrent
  <2>1. SUFFICES ASSUME PageInv, Quiet PROVE QuietIsCurrent
    BY DEF QuietIsCurrent
  <2>2. Sent = {} /\ active = selected /\ events = <<>>
    BY <2>1, BagSets DEF Quiet, Sent
  <2>3. Len(events) = 0
    BY <2>2
  <2>4. \A p \in Parts : Works(p) => Same(p, known[p])
    BY <2>1, <2>2, <2>3 DEF PageInv, CaughtUp, Fetching, Announced
  <2>5. ServerTypes /\ PageTypes
    BY <2>1 DEF PageInv
  <2>6. "list" \in excused \/ list = ListOf(Version, filter)
    <3>1. SUFFICES ASSUME "list" \notin excused PROVE list = ListOf(Version, filter)
      OBVIOUS
    <3>2. RightFilter /\ \A c \in DOMAIN list : RightItem(c)
      BY <2>1, <2>4, <3>1 DEF PageInv, ShownList, Works, Parts
    <3>3. DOMAIN list = DOMAIN ListOf(Version, filter)
      BY <2>2, <3>2 DEF RightFilter
    <3>4. ASSUME NEW c \in DOMAIN list
          PROVE  list[c] = Now[c].item
      <4>1. /\ list[c].unread = Now[c].item.unread
            /\ list[c].assignee = Now[c].item.assignee
            /\ list[c].status = Now[c].item.status
            /\ list[c].tags = Now[c].item.tags
        BY <2>2, <3>2 DEF RightItem
      <4>2. list[c] \in Item /\ Now[c].item \in Item
        BY <2>5, NowTypes DEF PageTypes, Row
      <4>3. QED
        BY <4>1, <4>2 DEF Item
    <3>5. list \in [DOMAIN list -> Item]
      BY <2>5 DEF PageTypes
    <3>6. \A c \in DOMAIN list : list[c] = ListOf(Version, filter)[c]
      BY <2>5, <3>3, <3>4, ListOfNow
    <3>7. QED
      BY <3>3, <3>5, <3>6 DEF ListOf
  <2>7. selected # None /\ "messages" \notin excused =>
          messages = [of |-> selected, count |-> Now[selected].messages] /\ ~loading
    BY <2>1, <2>2, <2>4 DEF PageInv, ShownMessages, Spinner, Works, Parts
  <2>8. selected # None /\ "notes" \notin excused =>
          notes = [of |-> selected, count |-> Now[selected].notes]
    BY <2>1, <2>2, <2>4 DEF PageInv, ShownNotes, Works, Parts
  <2>9. QED
    BY <2>6, <2>7, <2>8 DEF QuietIsCurrent
<1>2. QED
  BY <1>1, PageIsRight, PTL

(* Messages and notes are never shown for another conversation than the one   *)
(* the page works on (the tests of activeConversationRef in fetchMessages and  *)
(* fetchNotes), however often the user has moved on while they were fetched.  *)
THEOREM ShownAlwaysBelongs == Spec => []ShownBelongs
<1>1. Init => ShownBelongs
  <2>1. Init => /\ active = Opened
                /\ messages = [of |-> Opened, count |-> 1]
                /\ notes = [of |-> Opened, count |-> 0]
    BY DEF Init
  <2>2. QED
    BY <2>1 DEF ShownBelongs
<1>2. ShownBelongs /\ [Next]_vars => ShownBelongs'
  <2>1. SUFFICES ASSUME ShownBelongs, [Next]_vars PROVE ShownBelongs'
    OBVIOUS
  <2>2. CASE UNCHANGED <<active, messages, notes>>
    BY <2>1, <2>2 DEF ShownBelongs
  <2>3. ASSUME NEW call,
               ListArrives(call) \/ MessagesArrive(call) \/ NotesArrive(call)
                         \/ NoteAnswered(call)
        PROVE  ShownBelongs'
    BY <2>1, <2>3
       DEF ShownBelongs, ListArrives, MessagesArrive, NotesArrive, NoteAnswered, Nothing
  <2>4. CASE SelectionEffect
    BY <2>4 DEF ShownBelongs, SelectionEffect, Nothing
  <2>5. ASSUME NEW call,
               FetchFails(call) \/ PatchAnswered(call) \/ TagAnswered(call)
                         \/ SendAnswered(call) \/ SimulateAnswered(call)
        PROVE  UNCHANGED <<active, messages, notes>>
    BY <2>5 DEF FetchFails, PatchAnswered, TagAnswered, SendAnswered,
       SimulateAnswered,
                pageVars
  <2>6. ASSUME NEW call, Handle(call) \/ HandleUntold(call) \/ CallFails(call)
        PROVE  UNCHANGED <<active, messages, notes>>
    BY <2>6 DEF Handle, HandleUntold, CallFails, pageVars
  <2>7. ASSUME NEW c,
               ChangeElsewhere(c) \/ StreamBreaks \/ StreamOpens \/ StreamDelivers
        PROVE  UNCHANGED <<active, messages, notes>>
    BY <2>7 DEF ChangeElsewhere, StreamBreaks, StreamOpens, StreamDelivers,
       pageVars
  <2>8. ASSUME User
        PROVE  UNCHANGED <<active, messages, notes>>
    BY <2>8 DEF User, Select, SetFilter, Assign, ToggleStatus, AddTag,
       RemoveTag, AddNote,
                Click, SendMessage, SimulateInbound, pageVars
  <2>9. QED
    BY <2>1, <2>2, <2>3, <2>4, <2>5, <2>6, <2>7, <2>8 DEF Next, Arrive, vars,
       pageVars
<1>3. QED
  BY <1>1, <1>2, PTL DEF Spec

(* What is not needed for the theorem above: the stream, the spinner and the  *)
(* bounds.                                                                  *)
RestTypes ==
  /\ stream \in {"open", "closed"} /\ loading \in BOOLEAN
  /\ surprises \in 0 .. MaxSurprises /\ failures \in 0 .. MaxFailures

LEMMA RestTypesNext == RestTypes /\ [Next]_vars => RestTypes'
<1>1. SUFFICES ASSUME RestTypes, [Next]_vars PROVE RestTypes'
  OBVIOUS
<1>2. MaxSurprises \in Nat /\ MaxFailures \in Nat
  BY PageAssumption
<1>3. ASSUME Surprise \/ UNCHANGED bounds, UNCHANGED loading,
             stream' \in {stream, "open", "closed"}
      PROVE  RestTypes'
  BY <1>1, <1>2, <1>3 DEF RestTypes, Surprise, bounds
<1>4. ASSUME NEW call, CallFails(call)
      PROVE  RestTypes'
  BY <1>1, <1>2, <1>4 DEF RestTypes, CallFails, serverVars, pageVars
<1>5. ASSUME UNCHANGED <<serverVars, bounds>>, loading' \in BOOLEAN
      PROVE  RestTypes'
  BY <1>1, <1>5 DEF RestTypes, serverVars, bounds
<1>6. ASSUME NEW c, ChangeElsewhere(c)
      PROVE  RestTypes'
  BY <1>3, <1>6 DEF ChangeElsewhere, Commit, pageVars
<1>7. ASSUME NEW call, Handle(call)
      PROVE  RestTypes'
  BY <1>3, <1>7 DEF Handle, CommitCall, Commit, pageVars, serverVars
<1>15. ASSUME NEW call, HandleUntold(call)
       PROVE  RestTypes'
  BY <1>1, <1>2, <1>15 DEF RestTypes, HandleUntold, CommitCall, Commit, pageVars
<1>8. ASSUME NEW call, Arrive(call)
      PROVE  RestTypes'
  <2>1. loading' \in BOOLEAN
    BY <1>1, <1>8
       DEF RestTypes, Arrive, ListArrives, MessagesArrive, NotesArrive, FetchFails,
           PatchAnswered, TagAnswered, NoteAnswered, SendAnswered, SimulateAnswered,
           pageVars
  <2>2. QED
    BY <1>5, <1>8, <2>1 DEF Arrive
<1>9. CASE StreamBreaks \/ StreamOpens
  BY <1>3, <1>9 DEF StreamBreaks, StreamOpens, CloseStream, pageVars
<1>10. CASE StreamDelivers
  BY <1>1, <1>10 DEF RestTypes, StreamDelivers, bounds
<1>11. CASE SelectionEffect
  BY <1>5, <1>11 DEF SelectionEffect
<1>12. CASE User
  BY <1>3, <1>12
     DEF User, Select, SetFilter, CloseStream, Assign, ToggleStatus, AddTag, RemoveTag,
         AddNote, Click, SendMessage, SimulateInbound, pageVars, serverVars
<1>13. CASE UNCHANGED vars
  BY <1>3, <1>13 DEF vars, serverVars, pageVars
<1>14. QED
  BY <1>1, <1>4, <1>6, <1>7, <1>8, <1>9, <1>10, <1>11, <1>12, <1>13, <1>15 DEF Next

(* Every variable has its type; in particular what a call remembers and what  *)
(* a part has shown are states the server has been in.                      *)
THEOREM TypeCorrect == Spec => []TypeOK
<1>1. Init => RestTypes
  <2>1. MaxSurprises \in Nat /\ MaxFailures \in Nat
    BY PageAssumption
  <2>2. Init => stream \in {"open", "closed"} /\ loading \in BOOLEAN
    BY DEF Init
  <2>3. Init => surprises = 0 /\ failures = 0
    BY DEF Init
  <2>4. 0 \in 0 .. MaxSurprises /\ 0 \in 0 .. MaxFailures
    BY <2>1
  <2>5. QED
    BY <2>2, <2>3, <2>4 DEF RestTypes
<1>2. RestTypes /\ [Next]_vars => RestTypes'
  BY RestTypesNext
<1>3. PageInv /\ RestTypes => TypeOK
  <2>1. SUFFICES ASSUME PageInv, RestTypes PROVE TypeOK
    OBVIOUS
  <2>2. ServerTypes /\ PageTypes /\ GhostTypes /\ AllProper /\ Version \in Nat
    BY <2>1, NowTypes DEF PageInv
  <2>3. ASSUME NEW call \in Sent
        PROVE  call \in Call
    <3>1. call \in CallType /\ call.knew <= Version /\ call.seen <= Version
      BY <2>2 DEF AllProper, Proper, Addressed
    <3>2. call.knew \in 0 .. Version /\ call.seen \in 0 .. Version
      BY <2>2, <3>1 DEF CallType
    <3>3. QED
      BY <3>1, <3>2 DEF CallType, Call
  <2>4. known \in [Parts -> 0 .. Version]
    BY <2>2 DEF GhostTypes
  <2>5. QED
    BY <2>1, <2>2, <2>3, <2>4
       DEF TypeOK, ServerTypes, PageTypes, GhostTypes, RestTypes, EventType, Sent
<1>4. QED
  BY <1>1, <1>2, <1>3, PageIsRight, PTL DEF Spec
=============================================================================
