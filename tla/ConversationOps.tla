---------------------------- MODULE ConversationOps ----------------------------
(***************************************************************************)
(* One channel of one organization and the conversation a customer has on   *)
(* it: ChannelsService connects and disconnects the account, the webhook    *)
(* worker stores inbound messages, and ConversationsService lists, answers, *)
(* resolves, tags and annotates.                                            *)
(*                                                                         *)
(* A statement is an action, as in TeamMembership, and the last statement   *)
(* of a transaction that can wait commits it.  Conversation rows go with    *)
(* their channel (ON DELETE CASCADE), so the conversation needs no id other *)
(* than the number of its channel row.  Emitted events are left out.        *)
(***************************************************************************)
EXTENDS Integers

CONSTANTS
  Inbound,   \* messages of the customer
  Slots,     \* transactions at one time
  NoInbound,
  MaxConnects \* bound on accounts connected

ASSUME ConversationAssumption ==
  NoInbound \notin Inbound /\ MaxConnects \in Nat

Status == {"OPEN", "RESOLVED"}

VARIABLES
  account,      \* the number of the ChannelAccount row, 0 for none
  accounts,     \* rows of it created so far
  channel,      \* the number of the Channel row, 0 for none
  channels,     \* rows of it created so far
  conversation, \* whether the channel has the conversation,
  status, isUnread, \* Conversation.status and isUnread,
  stored,       \* its inbound messages,
  noted,        \* whether it has notes,
  linked,       \* whether it has the tag,
  tagAudit,     \* audit entries tag_added minus tag_removed
  inbound,      \* how far the webhook of each message is
  shown,        \* messages a request has listed
  tied,         \* ghost: messages that updatedAt hides from a transaction
  place,        \* the next statement of each slot's transaction
  row,          \* the number of the row it has read or inserted
  about,        \* the message it stores, the status it sets
  read,         \* the messages it has read
  fresh         \* whether it has read isUnread and updatedAt is what it read

accountVars == <<account, accounts>>
channelVars == <<channel, channels>>
convVars == <<conversation, status, isUnread, stored, noted, linked, tagAudit>>
seenVars == <<shown, tied>>
rowVars == <<accountVars, channelVars, convVars, inbound, seenVars>>
slotVars == <<place, row, about, read, fresh>>
vars == <<rowVars, slotVars>>

Places == {"idle", "find", "create", "message", "bump", "messages", "clear",
           "list", "send", "setStatus", "note", "link", "unlink", "connectChannel",
           "deleteAccount", "findChannel", "deleteChannel"}

TypeOK ==
  /\ account \in 0 .. accounts /\ accounts \in Nat
  /\ channel \in 0 .. channels /\ channels \in Nat
  /\ conversation \in BOOLEAN /\ (conversation => channel # 0)
  /\ status \in Status
  /\ isUnread \in BOOLEAN /\ noted \in BOOLEAN /\ linked \in BOOLEAN
  /\ stored \subseteq Inbound /\ shown \subseteq Inbound /\ tied \subseteq Inbound
  /\ tagAudit \in Int
  /\ inbound \in [Inbound -> {"none", "received", "stored"}]
  /\ place \in [Slots -> Places]
  /\ row \in [Slots -> Nat]
  /\ about \in [Slots -> Inbound \cup Status \cup {NoInbound}]
  /\ read \in [Slots -> SUBSET Inbound]
  /\ fresh \in [Slots -> BOOLEAN]

Init ==
  /\ account = 0 /\ accounts = 0
  /\ channel = 0 /\ channels = 0
  /\ conversation = FALSE /\ status = "OPEN" /\ isUnread = FALSE
  /\ stored = {} /\ noted = FALSE /\ linked = FALSE /\ tagAudit = 0
  /\ inbound = [i \in Inbound |-> "none"]
  /\ shown = {} /\ tied = {}
  /\ place = [t \in Slots |-> "idle"]
  /\ row = [t \in Slots |-> 0]
  /\ about = [t \in Slots |-> NoInbound]
  /\ read = [t \in Slots |-> {}]
  /\ fresh = [t \in Slots |-> FALSE]

-----------------------------------------------------------------------------
(* Transactions and their locks.                                           *)

\* Statement next follows, about the row with this number.
Goto(t, next, n) ==
  /\ place' = [place EXCEPT ![t] = next]
  /\ row' = [row EXCEPT ![t] = n]

\* A transaction starts with what its first statement has read.
Begin(t, next, n, what) ==
  /\ place[t] = "idle"
  /\ Goto(t, next, n)
  /\ about' = [about EXCEPT ![t] = what]
  /\ UNCHANGED <<rowVars, read, fresh>>

Others(t) == Slots \ {t}

\* The slot is free.
Leave(t) ==
  /\ Goto(t, "idle", 0)
  /\ about' = [about EXCEPT ![t] = NoInbound]
  /\ read' = [read EXCEPT ![t] = {}]

End(t) == Leave(t) /\ fresh' = [fresh EXCEPT ![t] = FALSE]

\* Those who have read updatedAt of the conversation t is about, to compare it.
Comparing(t) == {s \in Others(t) : place[s] \in {"messages", "clear"} /\ row[s] = row[t]}

\* So it is when t has written the conversation: updatedAt is the millisecond of
\* the write on its client's clock, which may be the one that others have read.
EndWritten(t) ==
  /\ Leave(t)
  /\ \E same \in SUBSET Comparing(t) :
       /\ fresh' = [s \in Slots |-> s \in same]
       /\ tied' = tied \cup
            UNION {stored' \ read[s] : s \in {r \in same : place[r] = "clear"}}

Rollback(t) == End(t) /\ UNCHANGED rowVars

\* A statement fails, or the process dies.
Fail(t) == place[t] # "idle" /\ Rollback(t)

\* Has inserted a channel, or a conversation, that is not committed yet.
OwnChannel(t) == place[t] \in {"find", "create", "message", "bump"} /\ row[t] > channels

OwnConversation(t) ==
  /\ place[t] \in {"message", "bump"}
  /\ OwnChannel(t) \/ (row[t] = channel /\ ~conversation)

\* The conversation a slot's transaction is about is there.
Here(t) == conversation /\ row[t] = channel

\* FOR KEY SHARE on the conversation, by the insert of a message.
Shares(t) == place[t] = "bump"

\* The key of the account, by its insert or its delete.
HoldsAccount(t) == place[t] \in {"connectChannel", "findChannel", "deleteChannel"}

AccountHeld(t) == \E s \in Others(t) : HoldsAccount(s)

-----------------------------------------------------------------------------
(* Channels.                                                               *)

\* connectWhatsAppChannel and connectInstagramChannel: the account is created;
\* the unique key waits for another transaction that has it, and refuses.
CreateAccount(t) ==
  /\ accounts < MaxConnects
  /\ account = 0 /\ ~AccountHeld(t)
  /\ Begin(t, "connectChannel", 0, NoInbound)

\* Mutation: the channel is taken to be there when one was created before.
ConnectFirstOnly(t) ==
  /\ place[t] = "connectChannel"
  /\ \A s \in Others(t) : ~OwnChannel(s)
  /\ account' = accounts + 1 /\ accounts' = accounts + 1
  /\ IF channels = 0
       THEN channel' = 1 /\ channels' = 1
       ELSE UNCHANGED channelVars
  /\ End(t)
  /\ UNCHANGED <<convVars, inbound, seenVars>>

\* The channel is upserted; the audit entry is written; commit.
ConnectChannel(t) ==
  /\ place[t] = "connectChannel"
  /\ \A s \in Others(t) : ~OwnChannel(s)
  /\ account' = accounts + 1 /\ accounts' = accounts + 1
  /\ IF channel = 0
       THEN channel' = channels + 1 /\ channels' = channels + 1
       ELSE UNCHANGED channelVars
  /\ End(t)
  /\ UNCHANGED <<convVars, inbound, seenVars>>

\* disconnectChannel reads the account,
ReadAccount(t) == account # 0 /\ Begin(t, "deleteAccount", account, NoInbound)

\* deletes it,
DeleteAccount(t) ==
  /\ place[t] = "deleteAccount"
  /\ ~AccountHeld(t)
  /\ IF account = row[t]
       THEN Goto(t, "findChannel", 0) /\ UNCHANGED <<rowVars, about, read, fresh>>
       ELSE Rollback(t)

\* looks for the channel if it has no conversations,
FindChannel(t) ==
  /\ place[t] = "findChannel"
  /\ IF channel # 0 /\ ~conversation
       THEN /\ Goto(t, "deleteChannel", channel)
            /\ UNCHANGED <<rowVars, about, read, fresh>>
       ELSE /\ account' = 0
            /\ End(t)
            /\ UNCHANGED <<accounts, channelVars, convVars, inbound, seenVars>>

\* Mutation: the conversations are left behind.
DeleteChannelOnly(t) ==
  /\ place[t] = "deleteChannel"
  /\ account' = 0 /\ channel' = 0
  /\ End(t)
  /\ UNCHANGED <<accounts, channels, convVars, inbound, seenVars>>

\* and deletes it by id, with whatever it has by then.
DeleteChannel(t) ==
  /\ place[t] = "deleteChannel"
  /\ \A s \in Others(t) : row[s] = row[t] => ~Shares(s) /\ ~OwnConversation(s)
  /\ account' = 0 /\ channel' = 0
  /\ conversation' = FALSE /\ status' = "OPEN" /\ isUnread' = FALSE
  /\ stored' = {} /\ noted' = FALSE /\ linked' = FALSE /\ tagAudit' = 0
  /\ End(t)
  /\ UNCHANGED <<accounts, channels, inbound, seenVars>>

-----------------------------------------------------------------------------
(* Inbound messages.                                                       *)

\* The intake takes a webhook of a connected account (see WebhookPipeline).
Receive(i) ==
  /\ account # 0 /\ inbound[i] = "none"
  /\ inbound' = [inbound EXCEPT ![i] = "received"]
  /\ UNCHANGED <<accountVars, channelVars, convVars, seenVars, slotVars>>

\* A run of its job upserts the channel; an attempt that fails is repeated.
UpsertChannel(t, i) ==
  /\ inbound[i] = "received" /\ i \notin {about[s] : s \in Slots}
  /\ \A s \in Others(t) : ~OwnChannel(s)
  /\ Begin(t, "find", IF channel # 0 THEN channel ELSE channels + 1, i)

\* getOrCreateConversation.
FindConversation(t) ==
  /\ place[t] = "find"
  /\ Goto(t, IF Here(t) THEN "message" ELSE "create", row[t])
  /\ UNCHANGED <<rowVars, about, read, fresh>>

\* The unique key or the foreign key refuses: the transaction is aborted, also
\* for the query in the catch block.
CreateConversation(t) ==
  /\ place[t] = "create"
  /\ \A s \in Others(t) : ~(OwnConversation(s) /\ row[s] = row[t])
  /\ IF OwnChannel(t) \/ (row[t] = channel /\ ~conversation)
       THEN Goto(t, "message", row[t]) /\ UNCHANGED <<rowVars, about, read, fresh>>
       ELSE Rollback(t)

CreateMessage(t) ==
  /\ place[t] = "message"
  /\ IF OwnChannel(t) \/ row[t] = channel
       THEN Goto(t, "bump", row[t]) /\ UNCHANGED <<rowVars, about, read, fresh>>
       ELSE Rollback(t)

\* The conversation is updated, the event becomes PROCESSED; commit.
BumpConversation(t) ==
  /\ place[t] = "bump"
  /\ channel' = row[t]
  /\ channels' = IF OwnChannel(t) THEN row[t] ELSE channels
  /\ conversation' = TRUE
  /\ stored' = stored \cup {about[t]}
  /\ isUnread' = TRUE
  /\ inbound' = [inbound EXCEPT ![about[t]] = "stored"]
  /\ EndWritten(t)
  /\ UNCHANGED <<accountVars, status, noted, linked, tagAudit, shown>>

-----------------------------------------------------------------------------
(* listConversationMessages and createOutboundMessage.                     *)

\* isUnread and updatedAt, which only a conversation marked unread compares.
ReadConversation(t) ==
  /\ place[t] = "idle"
  /\ conversation
  /\ Goto(t, IF isUnread THEN "messages" ELSE "list", channel)
  /\ fresh' = [fresh EXCEPT ![t] = isUnread]
  /\ UNCHANGED <<rowVars, about, read>>

\* The messages of one that is not; commit.
ListMessages(t) ==
  /\ place[t] = "list"
  /\ shown' = IF Here(t) THEN shown \cup stored ELSE shown
  /\ End(t)
  /\ UNCHANGED <<accountVars, channelVars, convVars, inbound, tied>>

\* The messages of one that is,
ReadMessages(t) ==
  /\ place[t] = "messages"
  /\ Goto(t, "clear", row[t])
  /\ read' = [read EXCEPT ![t] = IF Here(t) THEN stored ELSE {}]
  /\ UNCHANGED <<rowVars, about, fresh>>

\* isUnread is cleared, or there is nothing to clear; commit.
CommitRead(t, clears) ==
  /\ isUnread' = (isUnread /\ ~clears)
  /\ shown' = shown \cup read[t]
  /\ UNCHANGED <<accountVars, channelVars, conversation, status, stored, noted,
                 linked, tagAudit, inbound>>
  /\ IF clears THEN EndWritten(t) ELSE End(t) /\ UNCHANGED tied

\* Mutation: isUnread is cleared by id.
ClearUnreadById(t) == place[t] = "clear" /\ CommitRead(t, Here(t))

\* only where isUnread is set and updatedAt has the millisecond that was read.
ClearUnread(t) ==
  place[t] = "clear" /\ CommitRead(t, Here(t) /\ isUnread /\ fresh[t])

\* A request sends a reply.
RequestSend(t) == conversation /\ Begin(t, "send", channel, NoInbound)

\* SELECT ... FROM "Conversation" ... FOR UPDATE: the schema maps the model to
\* the table "conversations" and no migration makes another, so the statement
\* fails, whatever the conversation is like.
LockForSend(t) == place[t] = "send" /\ Rollback(t)

-----------------------------------------------------------------------------
(* updateConversationStatus, notes and tags.                               *)

\* A request for the status the conversation has ends here.
ReadStatus(t, s) == conversation /\ status # s /\ Begin(t, "setStatus", channel, s)

\* Set by id, with an audit entry from the status read before; commit.
SetStatus(t) ==
  /\ place[t] = "setStatus"
  /\ IF Here(t)
       THEN /\ status' = about[t]
            /\ UNCHANGED <<accountVars, channelVars, conversation, isUnread, stored,
                           noted, linked, tagAudit, inbound, shown>>
            /\ EndWritten(t)
       ELSE Rollback(t)

\* getConversationInOrganization, then the note in a statement of its own.
ReadForNote(t) == conversation /\ Begin(t, "note", channel, NoInbound)

CreateNote(t) ==
  /\ place[t] = "note"
  /\ noted' = (noted \/ Here(t))
  /\ End(t)
  /\ UNCHANGED <<accountVars, channelVars, conversation, status, isUnread, stored,
                 linked, tagAudit, inbound, seenVars>>

\* addTagToConversation, whose tag row is there or upserted.
ReadForTag(t) == conversation /\ Begin(t, "link", channel, NoInbound)

\* The audit entries of tags change by d, and so may the link; commit.
CommitLink(t, is, d) ==
  /\ linked' = is
  /\ tagAudit' = tagAudit + d
  /\ End(t)
  /\ UNCHANGED <<accountVars, channelVars, conversation, status, isUnread, stored,
                 noted, inbound, seenVars>>

\* Mutation: the link is upserted and the audit entry always written.
UpsertLink(t) ==
  /\ place[t] = "link"
  /\ IF Here(t) THEN CommitLink(t, TRUE, 1) ELSE Rollback(t)

\* A link that is there is a unique violation: it is caught, and the aborted
\* transaction has nothing to commit.
CreateLink(t) ==
  /\ place[t] = "link"
  /\ IF Here(t) /\ ~linked THEN CommitLink(t, TRUE, 1) ELSE Rollback(t)

\* removeTagFromConversation: the link is read, then deleted by its key, which
\* fails if it is gone.
ReadLink(t) ==
  conversation /\ linked /\ Begin(t, "unlink", channel, NoInbound)

DeleteLink(t) ==
  /\ place[t] = "unlink"
  /\ IF Here(t) /\ linked THEN CommitLink(t, FALSE, -1) ELSE Rollback(t)

-----------------------------------------------------------------------------
ChannelStep(t) ==
  \/ CreateAccount(t) \/ ConnectChannel(t)
  \/ ReadAccount(t) \/ DeleteAccount(t) \/ FindChannel(t) \/ DeleteChannel(t)

InboundStep(t) ==
  \/ \E i \in Inbound : UpsertChannel(t, i)
  \/ FindConversation(t) \/ CreateConversation(t)
  \/ CreateMessage(t) \/ BumpConversation(t)

UserStep(t) ==
  \/ ReadConversation(t) \/ ListMessages(t) \/ ReadMessages(t) \/ ClearUnread(t)
  \/ RequestSend(t) \/ LockForSend(t)
  \/ \E s \in Status : ReadStatus(t, s)
  \/ SetStatus(t)
  \/ ReadForNote(t) \/ CreateNote(t)
  \/ ReadForTag(t) \/ CreateLink(t) \/ ReadLink(t) \/ DeleteLink(t)

Next ==
  \/ \E i \in Inbound : Receive(i)
  \/ \E t \in Slots : ChannelStep(t) \/ InboundStep(t) \/ UserStep(t) \/ Fail(t)

Spec == Init /\ [][Next]_vars

-----------------------------------------------------------------------------
(* Properties.                                                             *)

\* A conversation that is not marked unread has no message that nobody has
\* listed: one that arrives while somebody opens the conversation keeps it
\* unread, however the transactions overlap.  The messages that updatedAt hid
\* are exempt: those whose write has the very millisecond that a transaction
\* which has listed the messages before it still compares.
ReadIsSeen ==
  conversation /\ ~isUnread => stored \subseteq shown \cup tied

\* "should keep unread state when a newer inbound write wins the race"
\* (conversations.service.spec.ts): it does so only if no two writes of the
\* conversation have the same millisecond (SameMillisecond.cfg).
UnreadIsKept ==
  conversation /\ ~isUnread => stored \subseteq shown

\* The audit log has one tag_added for a linked tag more than tag_removed, and
\* as many for one that is not linked, whatever requests add and remove it.
TagAuditBalances == conversation => tagAudit = IF linked THEN 1 ELSE 0

\* A connected account has its channel, however connecting, disconnecting and
\* late webhooks overlap.
AccountHasChannel == account # 0 => channel # 0

\* "should disconnect a channel account without deleting channels that still
\* have history" (channels.service.spec.ts): a stored message stays.  One that is
\* stored after the disconnect has looked does not (ChannelHistory.cfg).
HistoryStays == [][stored \subseteq stored']_vars
=============================================================================
