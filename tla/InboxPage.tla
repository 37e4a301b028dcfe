------------------------------ MODULE InboxPage ------------------------------
(***************************************************************************)
(* The inbox page (apps/web/src/app/inbox/page.tsx) in one browser tab: what *)
(* it shows, its requests, and the server-sent events that make it refetch. *)
(*                                                                         *)
(* A handler runs alone up to its next await.  A request is sent, handled by *)
(* the server at some moment, and answered; requests overtake each other.   *)
(* The server is the history of its committed states; the event of a change *)
(* is on the stream as soon as the change is committed, or it never comes.   *)
(* A conversation is there once it has a message.  The list can be clicked   *)
(* at any time; the page hides it while it waits for one.                   *)
(***************************************************************************)
EXTENDS Integers, Sequences, Bags, BagsExt, FiniteSetsExt

CONSTANTS
  Conversations,
  Opened,       \* the conversation that is open at first
  Tags,
  Fields,       \* which fields of a conversation are in play
  None,
  MaxSurprises, \* bound: what the user, other agents and the stream do, in all
  MaxFailures,  \* bound: requests that fail
  MaxCalls      \* bound: requests in flight

ASSUME PageAssumption ==
  /\ Fields \subseteq {"status", "assignee", "tags", "message", "notes"}
  /\ Opened \in Conversations /\ None \notin Conversations
  /\ {MaxSurprises, MaxFailures, MaxCalls} \subseteq Nat

VARIABLES
  history,    \* the states of the organization's conversations so far
  stream,     \* whether the EventSource is open
  events,     \* events on the stream
  filter,     \* filterStatus
  list,       \* conversations
  selected,   \* selectedConversationId
  active,     \* activeConversationRef
  messages,   \* whose messages are shown, and how many
  notes,      \* whose notes are shown, and how many
  loading,    \* isLoadingMessages
  calls,      \* requests in flight
  known,      \* ghost: the newest state each part has shown, or failed to learn of
  excused,    \* ghost: parts that show something older than that
  surprises,  \* how many there were
  failures

serverVars == <<history, stream, events>>
pageVars == <<filter, list, selected, active, messages, notes, loading>>
ghostVars == <<known, excused>>
bounds == <<surprises, failures>>
vars == <<serverVars, pageVars, calls, ghostVars, bounds>>

Parts == {"list", "messages", "notes"}
Statuses == {"OPEN", "RESOLVED"}
Filters == Statuses \cup {""}
Members == {"nobody", "anna"}
Kinds ==
  {"list", "messages", "notes", "send", "simulate", "assignee", "status",
   "addTag", "removeTag", "addNote"}

Item ==
  [status : Statuses, assignee : Members, tags : SUBSET Tags, unread : BOOLEAN]

Row ==
  [item : Item, messages : Nat, notes : Nat]

Version == Len(history)
Now == history[Version]

Call ==
  [kind : Kinds, of : Conversations \cup {None}, filter : Filters,
   to : Statuses \cup Members \cup Tags \cup {None},
   prior : Item \cup {None},         \* the conversation when the user clicked
   knew : 0 .. Version,              \* and the state the list showed
   by : {"page", "send", "simulate"}, \* the handler that awaits this call
   phase : {"sent", "answered", "refused", "lost"},
   seen : 0 .. Version,              \* the state the answer is from
   read : BOOLEAN]                   \* markedAsRead

Shown == [of : Conversations \cup {None}, count : Nat]
Nothing == [of |-> None, count |-> 0]

TypeOK ==
  /\ history \in Seq([Conversations -> Row])
  /\ stream \in {"open", "closed"}
  /\ events \in Seq({"conversation", "note"} \X Conversations)
  /\ filter \in Filters
  /\ DOMAIN list \subseteq Conversations
  /\ \A c \in DOMAIN list : list[c] \in Item
  /\ selected \in DOMAIN list \cup {None} /\ active \in Conversations \cup {None}
  /\ messages \in Shown /\ notes \in Shown /\ loading \in BOOLEAN
  /\ BagToSet(calls) \subseteq Call
  /\ known \in [Parts -> 0 .. Version] /\ excused \subseteq Parts
  /\ surprises \in 0 .. MaxSurprises /\ failures \in 0 .. MaxFailures

Request(kind, c) ==
  [kind |-> kind, of |-> c, filter |-> "", to |-> None, prior |-> None,
   knew |-> 0, by |-> "page", phase |-> "sent", seen |-> 0, read |-> FALSE]

FetchList(f) == [Request("list", None) EXCEPT !.filter = f]

\* A conversation that is not there; its first message leaves it open and unread.
Absent ==
  [item |-> [status |-> "OPEN", assignee |-> "nobody", tags |-> {}, unread |-> FALSE],
   messages |-> 0, notes |-> 0]

\* The page has loaded: it shows the list, and the conversation it has opened;
\* the others in it are resolved and unread.
Loaded(open) ==
  [item |-> [status |-> IF open THEN "OPEN" ELSE "RESOLVED", assignee |-> "nobody",
             tags |-> {}, unread |-> ~open],
   messages |-> 1, notes |-> 0]

Init ==
  /\ \E there \in SUBSET Conversations :
       /\ Opened \in there
       /\ history =
            <<[c \in Conversations |-> IF c \in there THEN Loaded(c = Opened) ELSE Absent]>>
       /\ list = [c \in there |-> Loaded(c = Opened).item]
  /\ stream = "open" /\ events = <<>>
  /\ filter = ""
  /\ selected = Opened /\ active = Opened
  /\ messages = [of |-> Opened, count |-> 1] /\ notes = [of |-> Opened, count |-> 0]
  /\ loading = FALSE /\ calls = EmptyBag
  /\ known = [p \in Parts |-> 1] /\ excused = {} /\ surprises = 0 /\ failures = 0

Surprise == surprises < MaxSurprises /\ surprises' = surprises + 1 /\ UNCHANGED failures

\* The flags isSending, isSimulatingInbound, isAssigning and so on.
Busy(handler) == \E call \in BagToSet(calls) : handler \in {call.kind, call.by}

-----------------------------------------------------------------------------
(* The server.                                                             *)

\* What an event makes the page fetch.
Touched(event) ==
  (IF event[1] = "note" THEN {"notes"} ELSE {"list", "messages"})
    \ (IF event[2] = active THEN {} ELSE {"messages", "notes"})

\* Whatever was read up to version v does not count as news of these parts.
Misses(parts, v) ==
  /\ known' = [p \in Parts |-> IF p \in parts THEN v ELSE known[p]]
  /\ excused' = excused \cup parts

\* The row is written, and the event announces it or does not.
Commit(c, row, event, told) ==
  /\ history' = IF row = Now[c] THEN history ELSE Append(history, [Now EXCEPT ![c] = row])
  /\ IF told /\ stream = "open"
       THEN events' = Append(events, <<event, c>>) /\ UNCHANGED ghostVars
       ELSE Misses(Touched(<<event, c>>), Len(history')) /\ UNCHANGED events
  /\ UNCHANGED stream

Exists(row) == row.messages > 0

Toggle(value, set) == CHOOSE other \in set : other # value

\* Other agents, and the webhook worker.  Nobody may be told: removeMember takes
\* the member's assignments back without an event, a process may die between the
\* commit and the emit, and Redis may lose what was emitted (see EventsFanout).
ChangeElsewhere(c) ==
  LET row == Now[c] IN
    /\ Surprise
    /\ \E told \in BOOLEAN :
         \/ /\ "message" \in Fields
            /\ Commit(c, [row EXCEPT !.messages = @ + 1, !.item.unread = TRUE],
                      "conversation", told)
         \/ /\ "status" \in Fields /\ Exists(row)
            /\ Commit(c, [row EXCEPT !.item.status = Toggle(@, Statuses)],
                      "conversation", told)
         \/ /\ "assignee" \in Fields /\ Exists(row)
            /\ Commit(c, [row EXCEPT !.item.assignee = Toggle(@, Members)],
                      "conversation", told)
         \/ /\ "tags" \in Fields /\ Exists(row)
            /\ \E t \in Tags :
                 Commit(c, [row EXCEPT !.item.tags = IF t \in @ THEN @ \ {t} ELSE @ \cup {t}],
                        "conversation", told)
         \/ /\ "notes" \in Fields /\ Exists(row)
            /\ Commit(c, [row EXCEPT !.notes = @ + 1], "note", told)
    /\ UNCHANGED <<pageVars, calls>>

Answer(call, answer) == calls' = BagAdd(BagRemove(calls, call), answer)

\* The server refuses what does not apply: a reply in a resolved conversation,
\* a tag that is not there.
Refused(call) ==
  LET item == Now[call.of].item IN
    \/ call.kind = "send" /\ item.status = "RESOLVED"
    \/ call.kind = "removeTag" /\ call.to \notin item.tags

\* The row a request makes of the row it finds.
Written(call, row) ==
  CASE call.kind = "messages" -> [row EXCEPT !.item.unread = FALSE]
    [] call.kind = "send" -> [row EXCEPT !.messages = @ + 1, !.item.unread = FALSE]
    [] call.kind = "status" -> [row EXCEPT !.item.status = call.to]
    [] call.kind = "assignee" -> [row EXCEPT !.item.assignee = call.to]
    [] call.kind = "addTag" -> [row EXCEPT !.item.tags = @ \cup {call.to}]
    [] call.kind = "removeTag" -> [row EXCEPT !.item.tags = @ \ {call.to}]
    [] call.kind = "addNote" -> [row EXCEPT !.notes = @ + 1]
    [] OTHER -> row

\* Mutation: every opening of a conversation is announced.
AnnouncesAll(call, row) ==
  Written(call, row) # row \/ call.kind \in {"status", "addTag", "messages"}

\* The services announce what they have changed, and a status or a tag that was
\* already there.
Announces(call, row) ==
  Written(call, row) # row \/ call.kind \in {"status", "addTag"}

\* What a request does is committed, and the event of it emitted.
Does(call) == call.of # None /\ Announces(call, Now[call.of]) /\ ~Refused(call)

CommitCall(call, told) ==
  Commit(call.of, Written(call, Now[call.of]),
         IF call.kind = "addNote" THEN "note" ELSE "conversation", told)

AnswerFromHere(call, phase) ==
  Answer(call,
    [call EXCEPT
       !.phase = phase,
       !.seen = Len(history'),
       !.read = call.kind = "messages" /\ Now[call.of].item.unread])

Handle(call) ==
  /\ call.phase = "sent"
  /\ IF Does(call) THEN CommitCall(call, TRUE) ELSE UNCHANGED <<serverVars, ghostVars>>
  /\ AnswerFromHere(call, IF call.of # None /\ Refused(call) THEN "refused" ELSE "answered")
  /\ UNCHANGED <<pageVars, bounds>>

\* It is committed and nobody is told: the reply of a send stays when its enqueue
\* fails and the request is refused; or the process dies before the emit, or Redis
\* loses the event.
HandleUntold(call) ==
  /\ failures < MaxFailures /\ failures' = failures + 1
  /\ call.phase = "sent" /\ Does(call)
  /\ CommitCall(call, FALSE)
  /\ \E phase \in {"answered", "lost"} \cup {p \in {"refused"} : call.kind = "send"} :
       AnswerFromHere(call, phase)
  /\ UNCHANGED <<pageVars, surprises>>

\* An error answer, or a fetch that rejects before or after the server has acted;
\* only handleRemoveTag tells one from the other.
CallFails(call) ==
  /\ failures < MaxFailures /\ failures' = failures + 1
  /\ call.phase \in {"sent", "answered"}
  /\ \/ Answer(call, [call EXCEPT !.phase = "lost"])
     \/ /\ call.phase = "sent" /\ call.kind = "removeTag"
        /\ Answer(call, [call EXCEPT !.phase = "refused"])
  /\ UNCHANGED <<serverVars, pageVars, ghostVars, surprises>>

-----------------------------------------------------------------------------
(* The event stream.                                                       *)

\* Calls for a set of requests, within the bound.
Send(requests) ==
  /\ BagCardinality(calls) + Cardinality(requests) <= MaxCalls
  /\ calls' = calls (+) SetToBag(requests)

\* What is on the stream when it closes is not repeated.
CloseStream ==
  /\ stream' = "closed" /\ events' = <<>>
  /\ Misses(UNION {Touched(events[i]) : i \in DOMAIN events}, Version)

\* onerror.
StreamBreaks ==
  /\ stream = "open" /\ Surprise
  /\ CloseStream
  /\ UNCHANGED <<history, pageVars, calls>>

\* The retry timer and onopen: nothing is fetched.
StreamOpens ==
  /\ stream = "closed" /\ stream' = "open"
  /\ UNCHANGED <<history, events, pageVars, calls, ghostVars, bounds>>

\* Mutation: an event is only listened to for the conversation shown.
FetchesOfActiveOnly(event) ==
  IF event[2] # active THEN {}
  ELSE IF event[1] = "note" THEN {Request("notes", active)}
  ELSE {FetchList(filter), Request("messages", active)}

\* The listeners of message.created, conversation.updated and note.created.
FetchesOf(event) ==
  (IF event[1] = "note" THEN {} ELSE {FetchList(filter)})
    \cup {Request(part, active) : part \in Touched(event) \ {"list"}}

StreamDelivers ==
  LET event == Head(events) IN
    /\ events # <<>>
    /\ events' = Tail(events)
    /\ Send(FetchesOf(event))
    /\ loading' = (loading \/ "messages" \in Touched(event))
    /\ UNCHANGED <<history, stream, filter, list, selected, active, messages, notes,
                   ghostVars, bounds>>

-----------------------------------------------------------------------------
(* Answers of the fetches.                                                 *)

\* The call is over, and the handler that awaits it, if any, sends the next one.
\* handleSend fetches messages and then the list, handleSimulateInbound the list
\* and then the messages of the conversation active by then.
FollowUp(call) ==
  IF call.by = "send" /\ call.kind = "messages"
    THEN {[FetchList(call.filter) EXCEPT !.by = "send"]}
  ELSE IF call.by = "simulate" /\ call.kind = "list" /\ active # None
    THEN {[Request("messages", active) EXCEPT !.by = "simulate"]}
  ELSE {}

Finish(call) == calls' = BagRemove(calls, call) (+) SetToBag(FollowUp(call))

LoadsNext(call) == \E next \in FollowUp(call) : next.kind = "messages"

ListOf(v, f) ==
  [c \in {d \in Conversations :
            Exists(history[v][d]) /\ (f = "" \/ history[v][d].item.status = f)}
     |-> history[v][c].item]

\* Mutation: the selection is only made once.
SelectedOnce(data) == IF selected # None THEN {selected} ELSE DOMAIN data \cup {None}

\* The selection stays if it is listed; else the code selects data[0], whichever
\* conversation it is.
SelectedFrom(data) ==
  IF selected \in DOMAIN data THEN {selected}
  ELSE IF data = <<>> THEN {None} ELSE DOMAIN data

\* fetchConversations.
ListArrives(call) ==
  LET data == ListOf(call.seen, call.filter) IN
    /\ call.kind = "list" /\ call.phase = "answered"
    /\ list' = data
    /\ selected' \in SelectedFrom(data)
    /\ messages' = IF data = <<>> THEN Nothing ELSE messages
    /\ loading' = (loading \/ LoadsNext(call))
    /\ Finish(call)
    /\ known' = [known EXCEPT !["list"] = Max({@, call.seen})]
    /\ excused' = (excused \ {"list"})
         \cup {p \in {"list"} : call.seen < known[p] \/ call.filter # filter}
         \cup {p \in {"messages"} : data = <<>>}
    /\ UNCHANGED <<filter, active, notes>>

\* Mutation: the answer is shown whichever conversation is active by then.
MessagesArriveAnyway(call) ==
  /\ call.kind = "messages" /\ call.phase = "answered"
  /\ Finish(call)
  /\ messages' = [of |-> call.of, count |-> history[call.seen][call.of].messages]
  /\ loading' = FALSE
  /\ UNCHANGED <<filter, list, selected, active, notes, ghostVars>>

\* fetchMessages: an answer for another conversation than the active one is
\* dropped, and isLoadingMessages left alone.
MessagesArrive(call) ==
  /\ call.kind = "messages" /\ call.phase = "answered"
  /\ Finish(call)
  /\ IF call.of = active
       THEN /\ messages' = [of |-> active, count |-> history[call.seen][active].messages]
            /\ list' = IF call.read /\ active \in DOMAIN list
                         THEN [list EXCEPT ![active].unread = FALSE] ELSE list
            /\ loading' = FALSE
            /\ known' = [known EXCEPT !["messages"] = Max({@, call.seen})]
            /\ excused' = (excused \ {"messages"})
                 \cup {p \in {"messages"} : call.seen < known[p]}
                 \cup {p \in {"list"} : call.read /\ call.seen < known[p]}
       ELSE UNCHANGED <<messages, list, loading, ghostVars>>
  /\ UNCHANGED <<filter, selected, active, notes>>

\* fetchNotes.
NotesArrive(call) ==
  /\ call.kind = "notes" /\ call.phase = "answered"
  /\ Finish(call)
  /\ IF call.of = active
       THEN /\ notes' = [of |-> active, count |-> history[call.seen][active].notes]
            /\ known' = [known EXCEPT !["notes"] = Max({@, call.seen})]
            /\ excused' = (excused \ {"notes"})
                 \cup {p \in {"notes"} : call.seen < known[p]}
       ELSE UNCHANGED <<notes, ghostVars>>
  /\ UNCHANGED <<filter, list, selected, active, messages, loading>>

\* The catch blocks: the page keeps what it shows and says so.
FetchFails(call) ==
  /\ call.kind \in Parts /\ call.phase \in {"refused", "lost"}
  /\ Finish(call)
  /\ IF call.kind = "list" \/ call.of = active
       THEN Misses({call.kind}, Version)
       ELSE UNCHANGED ghostVars
  /\ loading' = IF call.kind = "messages" /\ call.of = active THEN FALSE
                ELSE loading \/ LoadsNext(call)
  /\ UNCHANGED <<filter, list, selected, active, messages, notes>>

\* The effect on selectedConversationId.
SelectionEffect ==
  /\ active # selected /\ active' = selected
  /\ messages' = Nothing /\ notes' = Nothing
  /\ loading' = (selected # None)
  /\ known' = [known EXCEPT !["messages"] = 0, !["notes"] = 0]
  /\ excused' = excused \ {"messages", "notes"}
  /\ IF selected = None THEN UNCHANGED calls
     ELSE Send({Request("messages", selected), Request("notes", selected)})
  /\ UNCHANGED <<serverVars, filter, list, selected, bounds>>

-----------------------------------------------------------------------------
(* The user.                                                               *)

Select(c) ==
  /\ c \in DOMAIN list \ {selected} /\ Surprise
  /\ selected' = c
  /\ UNCHANGED <<serverVars, filter, list, active, messages, notes, loading,
                 calls, ghostVars>>

\* A new filter makes a new fetchConversations: its effect fetches, and the
\* effect of the stream closes one EventSource and opens another.
SetFilter(f) ==
  /\ f # filter /\ Surprise
  /\ filter' = f
  /\ CloseStream
  /\ Send({FetchList(f)})
  /\ UNCHANGED <<history, list, selected, active, messages, notes, loading>>

Chosen == selected # None /\ active = selected

TagRequests == {"addTag", "removeTag"}

\* The state the list shows of the tags or of another field; none if it shows
\* something older, or what a request that is on its way has made of it.
Knows(kind) ==
  IF \/ "list" \in excused
     \/ /\ kind \in TagRequests
        /\ \E call \in BagToSet(calls) : call.of = selected /\ call.kind \in TagRequests
    THEN 0 ELSE known["list"]

\* A click on the selected conversation sends a request about it.
Click(kind, to) ==
  /\ Surprise
  /\ Send({[Request(kind, selected) EXCEPT
              !.to = to, !.prior = list[selected], !.knew = Knows(kind)]})
  /\ UNCHANGED <<serverVars, filter, selected, active, messages, notes, loading,
                 ghostVars>>

\* handleAssign and handleToggleStatus show the outcome at once.
Assign ==
  LET to == Toggle(list[selected].assignee, Members) IN
    /\ Chosen /\ "assignee" \in Fields /\ ~Busy("assignee")
    /\ Click("assignee", to)
    /\ list' = [list EXCEPT ![selected].assignee = to]

ToggleStatus ==
  LET to == Toggle(list[selected].status, Statuses) IN
    /\ Chosen /\ "status" \in Fields /\ ~Busy("status")
    /\ Click("status", to)
    /\ list' = [list EXCEPT ![selected].status = to]

AddTag(t) ==
  /\ Chosen /\ "tags" \in Fields /\ ~Busy("addTag")
  /\ Click("addTag", t)
  /\ UNCHANGED list

RemoveTag(t) ==
  /\ Chosen /\ "tags" \in Fields /\ t \in list[selected].tags
  /\ Click("removeTag", t)
  /\ list' = [list EXCEPT ![selected].tags = @ \ {t}]

AddNote ==
  /\ Chosen /\ "notes" \in Fields /\ ~Busy("addNote")
  /\ Click("addNote", None)
  /\ UNCHANGED list

\* The button is disabled while a message is sent or the conversation resolved.
SendMessage ==
  /\ Chosen /\ "message" \in Fields /\ list[selected].status # "RESOLVED"
  /\ ~Busy("send") /\ Surprise
  /\ Send({[Request("send", selected) EXCEPT !.filter = filter]})
  /\ UNCHANGED <<serverVars, pageVars, ghostVars>>

\* The worker turns a simulated message into a change like any other.
SimulateInbound ==
  /\ "message" \in Fields /\ ~Busy("simulate")
  /\ Surprise
  /\ Send({[Request("simulate", None) EXCEPT !.filter = filter]})
  /\ UNCHANGED <<serverVars, pageVars, ghostVars>>

-----------------------------------------------------------------------------
(* Answers to the user's requests.                                         *)

Put(c, item) == list' = IF c \in DOMAIN list THEN [list EXCEPT ![c] = item] ELSE list

\* The list has been refetched since, so that this write is older than it.
Excuse(overtaken) ==
  excused' = (IF overtaken THEN excused \cup {"list"} ELSE excused) /\ UNCHANGED known

\* An assignment or a status is confirmed or taken back.
PatchAnswered(call) ==
  /\ call.kind \in {"assignee", "status"} /\ call.phase # "sent"
  /\ IF call.phase = "answered"
       THEN /\ Put(call.of, [list[call.of] EXCEPT ![call.kind] = call.to])
            /\ Excuse(call.seen < known["list"])
       ELSE /\ Put(call.of, [list[call.of] EXCEPT ![call.kind] = call.prior[call.kind]])
            /\ Excuse(call.knew # known["list"])
  /\ Finish(call)
  /\ UNCHANGED <<filter, selected, active, messages, notes, loading>>

\* Both tag handlers write what they remember of the tags; a removal whose
\* fetch rejects restores nothing.
TagAnswered(call) ==
  /\ call.kind \in {"addTag", "removeTag"} /\ call.phase # "sent"
  /\ LET restored ==
           IF call.kind = "addTag" THEN call.prior.tags \cup {call.to} ELSE call.prior.tags
         writes == \/ call.kind = "addTag" /\ call.phase = "answered"
                      /\ call.to \notin call.prior.tags
                   \/ call.kind = "removeTag" /\ call.phase = "refused"
     IN  IF writes
           THEN /\ Put(call.of, [list[call.of] EXCEPT !.tags = restored])
                /\ Excuse(call.knew # known["list"])
           ELSE /\ UNCHANGED list
                /\ IF call.kind = "removeTag" /\ call.phase = "lost"
                     THEN Misses({"list"}, Version) ELSE UNCHANGED ghostVars
  /\ Finish(call)
  /\ UNCHANGED <<filter, selected, active, messages, notes, loading>>

\* The new note is appended if its conversation is still the active one.
NoteAnswered(call) ==
  /\ call.kind = "addNote" /\ call.phase # "sent"
  /\ IF call.phase = "answered" /\ call.of = active
       THEN /\ notes' = [of |-> active, count |-> notes.count + 1]
            /\ excused' = excused \cup {p \in {"notes"} : call.seen <= known[p]}
       ELSE UNCHANGED <<notes, excused>>
  /\ Finish(call)
  /\ UNCHANGED <<filter, list, selected, active, messages, loading, known>>

\* handleSend fetches the messages of the conversation it was sent in, which
\* sets isLoadingMessages whether it is still the active one or not.
SendAnswered(call) ==
  /\ call.kind = "send" /\ call.phase # "sent"
  /\ IF call.phase = "answered"
       THEN /\ calls' = BagAdd(BagRemove(calls, call),
                 [Request("messages", call.of) EXCEPT
                    !.filter = call.filter, !.by = "send"])
            /\ loading' = TRUE
            /\ excused' = IF call.of = active THEN excused ELSE excused \cup {"messages"}
       ELSE calls' = BagRemove(calls, call) /\ UNCHANGED <<loading, excused>>
  /\ UNCHANGED <<filter, list, selected, active, messages, notes, known>>

SimulateAnswered(call) ==
  /\ call.kind = "simulate" /\ call.phase # "sent"
  /\ calls' = IF call.phase = "answered"
       THEN BagAdd(BagRemove(calls, call), [FetchList(call.filter) EXCEPT !.by = "simulate"])
       ELSE BagRemove(calls, call)
  /\ UNCHANGED <<pageVars, ghostVars>>

-----------------------------------------------------------------------------
Arrive(call) ==
  /\ \/ ListArrives(call) \/ MessagesArrive(call) \/ NotesArrive(call)
     \/ FetchFails(call) \/ PatchAnswered(call) \/ TagAnswered(call)
     \/ NoteAnswered(call) \/ SendAnswered(call) \/ SimulateAnswered(call)
  /\ UNCHANGED <<serverVars, bounds>>

User ==
  \/ \E c \in Conversations : Select(c)
  \/ \E f \in Filters : SetFilter(f)
  \/ Assign \/ ToggleStatus \/ AddNote \/ SendMessage \/ SimulateInbound
  \/ \E t \in Tags : AddTag(t) \/ RemoveTag(t)

Next ==
  \/ \E c \in Conversations : ChangeElsewhere(c)
  \/ \E call \in BagToSet(calls) :
       Handle(call) \/ HandleUntold(call) \/ CallFails(call) \/ Arrive(call)
  \/ StreamBreaks \/ StreamOpens \/ StreamDelivers
  \/ SelectionEffect \/ User

Spec == Init /\ [][Next]_vars

\* Requests are handled and answered, effects run, the stream reconnects.
Fairness ==
  /\ WF_vars(\E call \in BagToSet(calls) : Handle(call) \/ Arrive(call))
  /\ WF_vars(StreamOpens) /\ WF_vars(StreamDelivers) /\ WF_vars(SelectionEffect)

FairSpec == Spec /\ Fairness

-----------------------------------------------------------------------------
(* Properties.                                                             *)

\* What is shown as messages and notes belongs to the conversation the page
\* works on, however often the user has moved on while they were fetched
\* (the tests of activeConversationRef in fetchMessages and fetchNotes).
ShownBelongs ==
  /\ messages.of \in {None, active}
  /\ notes.of \in {None, active}

Quiet ==
  calls = EmptyBag /\ events = <<>> /\ stream = "open" /\ active = selected

\* With nothing on its way the page shows the list of its filter, and of the
\* selected conversation every message and note, and not the spinner; unless
\* the last thing it showed was older than what it had shown before, a fetch
\* failed, or since its last fetch an event was lost with the stream or a change
\* was committed of which nobody was told.
QuietIsCurrent ==
  Quiet =>
    /\ "list" \in excused \/ list = ListOf(Version, filter)
    /\ selected # None /\ "messages" \notin excused =>
         messages = [of |-> selected, count |-> Now[selected].messages] /\ ~loading
    /\ selected # None /\ "notes" \notin excused =>
         notes = [of |-> selected, count |-> Now[selected].notes]

\* The page comes to rest: opening a conversation announces that it was read,
\* the announcement makes the page open it again, and that ends.
RefreshesEnd == <>[]Quiet
=============================================================================
