------------------------ MODULE ConversationOpsProofs ------------------------
(* Proofs about ConversationOps, for every choice of its constants.         *)
EXTENDS ConversationOps, TLAPS

(* A transaction that stores a message, from its channel on.                *)
Stores(t) == place[t] \in {"find", "create", "message", "bump"}

(* The numbers of rows: the channel a transaction has inserted is the next    *)
(* one and the only one; a message goes to a row that is there and stays; so  *)
(* does the row a disconnect is about to delete.                            *)
Numbers ==
  \A t \in Slots :
    /\ Stores(t) => row[t] # 0 /\ about[t] \in Inbound
    /\ OwnChannel(t) => row[t] = channels + 1 /\ channel = 0
    /\ place[t] = "bump" => OwnChannel(t) \/ row[t] = channel
    /\ place[t] = "setStatus" => about[t] \in Status
    /\ place[t] = "deleteChannel" => row[t] = channel /\ channel # 0

OneHolder ==
  \A s, t \in Slots : s # t =>
    /\ ~(OwnChannel(s) /\ OwnChannel(t))
    /\ ~(HoldsAccount(s) /\ HoldsAccount(t))

(* While updatedAt is what a reader compares, its list of messages lacks only *)
(* what updatedAt hid.                                                      *)
ListIsWhole ==
  \A t \in Slots :
    place[t] = "clear" /\ fresh[t] /\ Here(t) =>
      \A i \in stored : i \in read[t] \/ i \in tied

TagsCounted == tagAudit = IF linked THEN 1 ELSE 0

ConversationInv ==
  TypeOK /\ Numbers /\ OneHolder /\ ListIsWhole
         /\ TagsCounted /\ ReadIsSeen /\ AccountHasChannel

SlotsTyped ==
  /\ place \in [Slots -> Places]
  /\ row \in [Slots -> Nat]
  /\ about \in [Slots -> Inbound \cup Status \cup {NoInbound}]
  /\ read \in [Slots -> SUBSET Inbound]
  /\ fresh \in [Slots -> BOOLEAN]

FlagsTyped ==
  /\ conversation \in BOOLEAN /\ isUnread \in BOOLEAN
  /\ noted \in BOOLEAN /\ linked \in BOOLEAN

LEMMA ConversationInit == Init => ConversationInv
<1> SUFFICES ASSUME Init PROVE ConversationInv
  OBVIOUS
<1>1. fresh \in [Slots -> BOOLEAN]
  BY Zenon DEF Init
<1>2. TypeOK
  <2>1. SlotsTyped
    BY <1>1 DEF Init, SlotsTyped, Places
  <2>2. inbound \in [Inbound -> {"none", "received", "stored"}]
    BY DEF Init
  <2>3. account \in 0 .. accounts /\ channel \in 0 .. channels
    BY DEF Init
  <2>4. FlagsTyped
    BY Zenon DEF Init, FlagsTyped
  <2>5. ~conversation
    BY Zenon DEF Init
  <2>6. status \in Status /\ tagAudit \in Int
    BY DEF Init, Status
  <2>7. /\ stored \subseteq Inbound /\ shown \subseteq Inbound
        /\ tied \subseteq Inbound
        /\ accounts \in Nat /\ channels \in Nat 
    BY DEF Init
  <2>8. QED
    BY <2>1, <2>2, <2>3, <2>4, <2>5, <2>6, <2>7 DEF TypeOK, SlotsTyped,
       FlagsTyped
<1>3. Numbers /\ OneHolder /\ ListIsWhole
  BY DEF Init, Numbers, Stores, OwnChannel, OneHolder, HoldsAccount,
     ListIsWhole
<1>4. TagsCounted /\ ReadIsSeen /\ AccountHasChannel
  BY DEF Init, TagsCounted, ReadIsSeen, AccountHasChannel
<1>5. QED
  BY <1>2, <1>3, <1>4 DEF ConversationInv

(* The end of a transaction leaves well typed slots.                        *)
LEMMA EndIsTyped ==
  ASSUME TypeOK, NEW t \in Slots, End(t)
  PROVE  SlotsTyped'
<1>1. fresh' \in [Slots -> BOOLEAN]
  BY Zenon DEF TypeOK, End
<1>2. QED
  BY <1>1 DEF End, Leave, Goto, TypeOK, Places, SlotsTyped

(* So does the end of one that has written the conversation.                *)
LEMMA EndWrittenIsTyped ==
  ASSUME TypeOK, NEW t \in Slots, EndWritten(t), stored' \subseteq Inbound
  PROVE  SlotsTyped' /\ tied' \subseteq Inbound /\ tied \subseteq tied'
<1>1. PICK same \in SUBSET Comparing(t) :
        /\ fresh' = [s \in Slots |-> s \in same]
        /\ tied' = tied \cup
             UNION {stored' \ read[s] : s \in {r \in same : place[r] = "clear"}}
  BY DEF EndWritten
<1>2. fresh' \in [Slots -> BOOLEAN]
  <2>1. \A s \in Slots : (s \in same) \in BOOLEAN
    OBVIOUS
  <2>2. QED
    BY <1>1, <2>1, Zenon
<1>3. tied' \subseteq Inbound
  <2> SUFFICES ASSUME NEW i \in tied' PROVE i \in Inbound
    OBVIOUS
  <2>1. i \in tied \/ i \in stored'
    BY <1>1
  <2>2. QED
    BY <2>1 DEF TypeOK
<1>4. tied \subseteq tied'
  BY <1>1
<1>5. SlotsTyped'
  BY <1>2 DEF EndWritten, Leave, Goto, TypeOK, Places, SlotsTyped
<1>6. QED
  BY <1>3, <1>4, <1>5

(* And it leaves every list whole: what the write hides is noted as tied.    *)
LEMMA WrittenListIsWhole ==
  ASSUME TypeOK, NEW t \in Slots, EndWritten(t)
  PROVE  ListIsWhole'
<1>1. PICK same \in SUBSET Comparing(t) :
        /\ fresh' = [s \in Slots |-> s \in same]
        /\ tied' = tied \cup
             UNION {stored' \ read[s] : s \in {r \in same : place[r] = "clear"}}
  BY DEF EndWritten
<1>2. SUFFICES ASSUME NEW s \in Slots, place'[s] = "clear", fresh'[s],
                      NEW i \in stored'
               PROVE  i \in read'[s] \/ i \in tied'
  BY DEF ListIsWhole
<1>3. s \in same /\ s # t
  BY <1>1, <1>2 DEF Comparing, Others
<1>4. place[s] = "clear" /\ read'[s] = read[s]
  BY <1>2, <1>3 DEF EndWritten, Leave, Goto, TypeOK
<1>5. stored' \ read[s] \subseteq tied'
  BY <1>1, <1>3, <1>4
<1>6. QED
  BY <1>4, <1>5

LEMMA RolledBackListIsWhole ==
  ASSUME TypeOK, ListIsWhole, NEW t \in Slots, Rollback(t)
  PROVE  ListIsWhole'
BY DEF TypeOK, ListIsWhole, Here, Rollback, End, Leave, Goto, channelVars,
   convVars, seenVars, rowVars

(* Listing the messages of an unread conversation ends its transaction.      *)
LEMMA ClearUnreadLeaves ==
  ASSUME TypeOK, NEW t \in Slots, ClearUnread(t)
  PROVE  /\ Leave(t) /\ SlotsTyped' /\ channelVars' = channelVars
         /\ stored' = stored /\ shown' = shown \cup read[t]
         /\ tied' \subseteq Inbound /\ tied \subseteq tied'
<1>1. CASE EndWritten(t)
  <2>1. stored' = stored /\ stored' \subseteq Inbound
    BY DEF ClearUnread, CommitRead, TypeOK
  <2>2. SlotsTyped' /\ tied' \subseteq Inbound /\ tied \subseteq tied'
    BY <1>1, <2>1, EndWrittenIsTyped
  <2>3. QED
    BY <1>1, <2>1, <2>2 DEF ClearUnread, CommitRead, EndWritten
<1>2. CASE End(t) /\ UNCHANGED tied
  BY <1>2, EndIsTyped DEF ClearUnread, CommitRead, End, TypeOK
<1>3. QED
  BY <1>1, <1>2 DEF ClearUnread, CommitRead

LEMMA TypeStep ==
  ASSUME TypeOK, Numbers, [Next]_vars
  PROVE  TypeOK'
<1>1. ASSUME NEW i \in Inbound, Receive(i)
      PROVE  TypeOK'
  BY <1>1
     DEF TypeOK, Receive, accountVars, channelVars, convVars, seenVars,
        slotVars
<1>2. ASSUME NEW t \in Slots, CreateAccount(t)
      PROVE  TypeOK'
  BY <1>2
     DEF TypeOK, Places, CreateAccount, Begin, Goto, accountVars, channelVars,
        convVars, seenVars, rowVars
<1>3. ASSUME NEW t \in Slots, ConnectChannel(t)
      PROVE  TypeOK'
  BY <1>3
     DEF TypeOK, Places, ConnectChannel, End, Leave, Goto, channelVars,
        convVars, seenVars
<1>4. ASSUME NEW t \in Slots, ReadAccount(t)
      PROVE  TypeOK'
  BY <1>4
     DEF TypeOK, Places, ReadAccount, Begin, Goto, accountVars, channelVars,
        convVars, seenVars, rowVars
<1>5. ASSUME NEW t \in Slots, DeleteAccount(t)
      PROVE  TypeOK'
  <2>1. CASE Rollback(t)
    <3>1. SlotsTyped'
      BY <2>1, EndIsTyped DEF Rollback, End
    <3>2. QED
      BY <2>1, <3>1 DEF TypeOK, SlotsTyped, Rollback, rowVars, accountVars,
         channelVars, convVars, seenVars
  <2>2. CASE ~Rollback(t)
    BY <1>5, <2>2 DEF TypeOK, Places, DeleteAccount, Goto, rowVars,
       accountVars, channelVars, convVars, seenVars
  <2>3. QED
    BY <2>1, <2>2
<1>6. ASSUME NEW t \in Slots, FindChannel(t)
      PROVE  TypeOK'
  <2>1. CASE Goto(t, "deleteChannel", channel) /\ UNCHANGED <<rowVars, about, read, fresh>>
    BY <1>6, <2>1 DEF TypeOK, Places, Goto, rowVars, accountVars, channelVars,
       convVars, seenVars
  <2>2. CASE /\ End(t) /\ account' = 0
             /\ UNCHANGED <<accounts, channelVars, convVars, inbound,
                            seenVars>>
    <3>1. SlotsTyped'
      BY <2>2, EndIsTyped DEF End
    <3>2. QED
      BY <2>2, <3>1 DEF TypeOK, SlotsTyped, channelVars, convVars, seenVars
  <2>3. QED
    BY <1>6, <2>1, <2>2 DEF FindChannel
<1>7. ASSUME NEW t \in Slots, DeleteChannel(t)
      PROVE  TypeOK'
  <2>1. End(t)
    BY <1>7 DEF DeleteChannel
  <2>2. SlotsTyped'
    BY <2>1, EndIsTyped
  <2>3. FlagsTyped'
    BY <1>7, Zenon DEF FlagsTyped, DeleteChannel
  <2>4. /\ conversation' => channel' # 0
        /\ account' \in 0 .. accounts' /\ channel' \in 0 .. channels'
    BY <1>7 DEF TypeOK, DeleteChannel, accountVars, channelVars
  <2>5. QED
    BY <1>7, <2>2, <2>3, <2>4 DEF TypeOK, Status, SlotsTyped, FlagsTyped,
       DeleteChannel, accountVars, channelVars, convVars, seenVars
<1>8. ASSUME NEW t \in Slots, NEW i \in Inbound, UpsertChannel(t, i)
      PROVE  TypeOK'
  BY <1>8
     DEF TypeOK, Places, UpsertChannel, Begin, Goto, accountVars, channelVars,
        convVars, seenVars, rowVars
<1>9. ASSUME NEW t \in Slots, FindConversation(t)
      PROVE  TypeOK'
  BY <1>9
     DEF TypeOK, Places, FindConversation, Goto, accountVars, channelVars,
        convVars, seenVars, rowVars
<1>10. ASSUME NEW t \in Slots, CreateConversation(t)
      PROVE  TypeOK'
  <2>1. CASE Rollback(t)
    <3>1. SlotsTyped'
      BY <2>1, EndIsTyped DEF Rollback, End
    <3>2. QED
      BY <2>1, <3>1 DEF TypeOK, SlotsTyped, Rollback, rowVars, accountVars,
         channelVars, convVars, seenVars
  <2>2. CASE ~Rollback(t)
    BY <1>10, <2>2 DEF TypeOK, Places, CreateConversation, Goto, rowVars,
       accountVars, channelVars, convVars, seenVars
  <2>3. QED
    BY <2>1, <2>2
<1>11. ASSUME NEW t \in Slots, CreateMessage(t)
      PROVE  TypeOK'
  <2>1. CASE Rollback(t)
    <3>1. SlotsTyped'
      BY <2>1, EndIsTyped DEF Rollback, End
    <3>2. QED
      BY <2>1, <3>1 DEF TypeOK, SlotsTyped, Rollback, rowVars, accountVars,
         channelVars, convVars, seenVars
  <2>2. CASE ~Rollback(t)
    BY <1>11, <2>2 DEF TypeOK, Places, CreateMessage, Goto, rowVars,
       accountVars, channelVars, convVars, seenVars
  <2>3. QED
    BY <2>1, <2>2
<1>12. ASSUME NEW t \in Slots, BumpConversation(t)
      PROVE  TypeOK'
  BY <1>12
     DEF TypeOK, Places, Numbers, Stores, BumpConversation, EndWritten, Leave, Goto,
        accountVars, seenVars
<1>13. ASSUME NEW t \in Slots, ReadConversation(t)
      PROVE  TypeOK'
  BY <1>13
     DEF TypeOK, Places, ReadConversation, Goto, accountVars, channelVars,
        convVars, seenVars, rowVars
<1>14. ASSUME NEW t \in Slots, ReadMessages(t)
      PROVE  TypeOK'
  BY <1>14
     DEF TypeOK, Places, ReadMessages, Goto, accountVars, channelVars,
        convVars, seenVars, rowVars
<1>15. ASSUME NEW t \in Slots, ClearUnread(t)
      PROVE  TypeOK'
  <2>1. isUnread' \in BOOLEAN
    BY <1>15, Zenon DEF ClearUnread, CommitRead
  <2>2. SlotsTyped' /\ tied' \subseteq Inbound /\ shown' \subseteq Inbound
    BY <1>15, ClearUnreadLeaves DEF TypeOK
  <2>3. QED
    BY <1>15, <2>1, <2>2
       DEF TypeOK, SlotsTyped, ClearUnread, CommitRead, accountVars, channelVars
<1>16. ASSUME NEW t \in Slots, RequestSend(t)
      PROVE  TypeOK'
  BY <1>16
     DEF TypeOK, Places, RequestSend, Begin, Goto, accountVars, channelVars,
        convVars, seenVars, rowVars
<1>17. ASSUME NEW t \in Slots, LockForSend(t)
      PROVE  TypeOK'
  <2>1. SlotsTyped'
    BY <1>17, EndIsTyped DEF LockForSend, Rollback, End
  <2>2. QED
    BY <1>17, <2>1 DEF TypeOK, SlotsTyped, LockForSend, Rollback, rowVars,
       accountVars, channelVars, convVars, seenVars
<1>18. ASSUME NEW t \in Slots, NEW s \in Status, ReadStatus(t, s)
      PROVE  TypeOK'
  BY <1>18
     DEF TypeOK, Places, ReadStatus, Begin, Goto, accountVars, channelVars,
        convVars, seenVars, rowVars
<1>19. ASSUME NEW t \in Slots, SetStatus(t)
      PROVE  TypeOK'
  <2>1. CASE Rollback(t)
    <3>1. SlotsTyped'
      BY <2>1, EndIsTyped DEF Rollback, End
    <3>2. QED
      BY <2>1, <3>1 DEF TypeOK, SlotsTyped, Rollback, rowVars, accountVars,
         channelVars, convVars, seenVars
  <2>2. CASE ~Rollback(t)
    <3>1. stored' \subseteq Inbound
      BY <1>19, <2>2 DEF SetStatus, TypeOK
    <3>2. SlotsTyped' /\ tied' \subseteq Inbound
      BY <1>19, <2>2, <3>1, EndWrittenIsTyped DEF SetStatus
    <3>3. status' \in Status
      BY <1>19, <2>2 DEF SetStatus, Numbers
    <3>4. QED
      BY <1>19, <2>2, <3>2, <3>3 DEF TypeOK, SlotsTyped, SetStatus,
         accountVars, channelVars
  <2>3. QED
    BY <2>1, <2>2
<1>20. ASSUME NEW t \in Slots, ReadForNote(t)
      PROVE  TypeOK'
  BY <1>20
     DEF TypeOK, Places, ReadForNote, Begin, Goto, accountVars, channelVars,
        convVars, seenVars, rowVars
<1>21. ASSUME NEW t \in Slots, CreateNote(t)
      PROVE  TypeOK'
  BY <1>21
     DEF TypeOK, Places, CreateNote, End, Leave, Goto, accountVars,
        channelVars, seenVars
<1>22. ASSUME NEW t \in Slots, ReadForTag(t)
      PROVE  TypeOK'
  BY <1>22
     DEF TypeOK, Places, ReadForTag, Begin, Goto, accountVars, channelVars,
        convVars, seenVars, rowVars
<1>23. ASSUME NEW t \in Slots, CreateLink(t)
      PROVE  TypeOK'
  <2>1. CASE Rollback(t)
    <3>1. SlotsTyped'
      BY <2>1, EndIsTyped DEF Rollback, End
    <3>2. QED
      BY <2>1, <3>1 DEF TypeOK, SlotsTyped, Rollback, rowVars, accountVars,
         channelVars, convVars, seenVars
  <2>2. CASE ~Rollback(t)
    <3>1. CommitLink(t, TRUE, 1)
      BY <1>23, <2>2 DEF CreateLink
    <3>2. SlotsTyped'
      BY <3>1, EndIsTyped DEF CommitLink, End
    <3>3. linked' \in BOOLEAN
      BY <3>1, Zenon DEF CommitLink
    <3>4. tagAudit' \in Int
      BY <3>1 DEF CommitLink
    <3>5. QED
      BY <3>1, <3>2, <3>3, <3>4 DEF TypeOK, SlotsTyped, CommitLink,
         accountVars, channelVars, convVars, seenVars
  <2>3. QED
    BY <2>1, <2>2
<1>24. ASSUME NEW t \in Slots, ReadLink(t)
      PROVE  TypeOK'
  BY <1>24
     DEF TypeOK, Places, ReadLink, Begin, Goto, accountVars, channelVars,
        convVars, seenVars, rowVars
<1>25. ASSUME NEW t \in Slots, DeleteLink(t)
      PROVE  TypeOK'
  <2>1. CASE Rollback(t)
    <3>1. SlotsTyped'
      BY <2>1, EndIsTyped DEF Rollback, End
    <3>2. QED
      BY <2>1, <3>1 DEF TypeOK, SlotsTyped, Rollback, rowVars, accountVars,
         channelVars, convVars, seenVars
  <2>2. CASE ~Rollback(t)
    <3>1. CommitLink(t, FALSE, -1)
      BY <1>25, <2>2 DEF DeleteLink
    <3>2. SlotsTyped'
      BY <3>1, EndIsTyped DEF CommitLink, End
    <3>3. linked' \in BOOLEAN
      BY <3>1, Zenon DEF CommitLink
    <3>4. tagAudit' \in Int
      BY <3>1 DEF CommitLink
    <3>5. QED
      BY <3>1, <3>2, <3>3, <3>4 DEF TypeOK, SlotsTyped, CommitLink,
         accountVars, channelVars, convVars, seenVars
  <2>3. QED
    BY <2>1, <2>2
<1>26. ASSUME NEW t \in Slots, Fail(t)
      PROVE  TypeOK'
  <2>1. SlotsTyped'
    BY <1>26, EndIsTyped DEF Fail, Rollback, End
  <2>2. QED
    BY <1>26, <2>1 DEF TypeOK, SlotsTyped, Fail, Rollback, rowVars,
       accountVars, channelVars, convVars, seenVars
<1>27. CASE UNCHANGED vars
  BY <1>27
     DEF TypeOK, vars, accountVars, channelVars, convVars, seenVars, rowVars,
        slotVars
<1>28. ASSUME NEW t \in Slots, ListMessages(t)
      PROVE  TypeOK'
  BY <1>28
     DEF TypeOK, Places, ListMessages, convVars, End, Leave, Goto, accountVars,
        channelVars, seenVars
<1>29. QED
  BY <1>1, <1>2, <1>3, <1>4, <1>5, <1>6, <1>7, <1>8, <1>9, <1>10, <1>11, <1>12,
     <1>13, <1>14, <1>15, <1>16, <1>17, <1>18, <1>19, <1>20, <1>21, <1>22,
     <1>23, <1>24, <1>25, <1>26, <1>27, <1>28
     DEF Next, ChannelStep, InboundStep, UserStep

LEMMA NumbersStep ==
  ASSUME TypeOK, Numbers, OneHolder, [Next]_vars
  PROVE  Numbers'
<1>1. ASSUME NEW i \in Inbound, Receive(i)
      PROVE  Numbers'
  BY <1>1 DEF Numbers, Stores, OwnChannel, Receive, channelVars, slotVars
<1>2. ASSUME NEW t \in Slots, CreateAccount(t)
      PROVE  Numbers'
  BY <1>2
     DEF Numbers, Stores, OwnChannel, CreateAccount, Begin, Goto, channelVars,
        rowVars
<1>3. ASSUME NEW t \in Slots, ConnectChannel(t)
      PROVE  Numbers'
  BY <1>3
     DEF TypeOK, Numbers, Stores, OwnChannel, ConnectChannel, End, Leave,
        Goto, channelVars
<1>4. ASSUME NEW t \in Slots, ReadAccount(t)
      PROVE  Numbers'
  BY <1>4
     DEF Numbers, Stores, OwnChannel, ReadAccount, Begin, Goto, channelVars,
        rowVars
<1>5. ASSUME NEW t \in Slots, DeleteAccount(t)
      PROVE  Numbers'
  BY <1>5
     DEF TypeOK, Numbers, Stores, OwnChannel, DeleteAccount, Goto, Rollback,
        End, Leave, channelVars, rowVars
<1>6. ASSUME NEW t \in Slots, FindChannel(t)
      PROVE  Numbers'
  BY <1>6
     DEF TypeOK, Numbers, Stores, OwnChannel, FindChannel, Goto, End, Leave,
        channelVars, rowVars
<1>7. ASSUME NEW t \in Slots, DeleteChannel(t)
      PROVE  Numbers'
  BY <1>7
     DEF TypeOK, Numbers, Stores, OwnChannel, OneHolder, HoldsAccount, Shares,
        DeleteChannel, Others, End, Leave, Goto
<1>8. ASSUME NEW t \in Slots, NEW i \in Inbound, UpsertChannel(t, i)
      PROVE  Numbers'
  BY <1>8
     DEF TypeOK, Numbers, Stores, OwnChannel, UpsertChannel, Begin, Goto,
        channelVars, rowVars
<1>9. ASSUME NEW t \in Slots, FindConversation(t)
      PROVE  Numbers'
  BY <1>9
     DEF Numbers, Stores, OwnChannel, FindConversation, Goto, channelVars,
        rowVars
<1>10. ASSUME NEW t \in Slots, CreateConversation(t)
      PROVE  Numbers'
  BY <1>10
     DEF TypeOK, Numbers, Stores, OwnChannel, CreateConversation, Goto,
        Rollback, End, Leave, channelVars, rowVars
<1>11. ASSUME NEW t \in Slots, CreateMessage(t)
      PROVE  Numbers'
  BY <1>11
     DEF TypeOK, Numbers, Stores, OwnChannel, CreateMessage, Goto, Rollback,
        End, Leave, channelVars, rowVars
<1>12. ASSUME NEW t \in Slots, BumpConversation(t)
      PROVE  Numbers'
  BY <1>12
     DEF TypeOK, Numbers, Stores, OwnChannel, BumpConversation, EndWritten, Leave, Goto
<1>13. ASSUME NEW t \in Slots, ReadConversation(t)
      PROVE  Numbers'
  BY <1>13
     DEF Numbers, Stores, OwnChannel, ReadConversation, Goto, channelVars,
        rowVars
<1>14. ASSUME NEW t \in Slots, ReadMessages(t)
      PROVE  Numbers'
  BY <1>14
     DEF Numbers, Stores, OwnChannel, ReadMessages, Goto, channelVars, rowVars
<1>15. ASSUME NEW t \in Slots, ClearUnread(t)
      PROVE  Numbers'
  BY <1>15, ClearUnreadLeaves
     DEF TypeOK, Numbers, Stores, OwnChannel, Leave, Goto, channelVars
<1>16. ASSUME NEW t \in Slots, RequestSend(t)
      PROVE  Numbers'
  BY <1>16
     DEF Numbers, Stores, OwnChannel, RequestSend, Begin, Goto, channelVars,
        rowVars
<1>17. ASSUME NEW t \in Slots, LockForSend(t)
      PROVE  Numbers'
  BY <1>17
     DEF TypeOK, Numbers, Stores, OwnChannel, LockForSend, Rollback, End, Leave,
        Goto, channelVars, rowVars
<1>18. ASSUME NEW t \in Slots, NEW s \in Status, ReadStatus(t, s)
      PROVE  Numbers'
  BY <1>18
     DEF TypeOK, Numbers, Stores, OwnChannel, ReadStatus, Begin, Goto,
        channelVars, rowVars
<1>19. ASSUME NEW t \in Slots, SetStatus(t)
      PROVE  Numbers'
  BY <1>19
     DEF TypeOK, Numbers, Stores, OwnChannel, SetStatus, Rollback, End,
        EndWritten, Leave, Goto, channelVars, rowVars
<1>20. ASSUME NEW t \in Slots, ReadForNote(t)
      PROVE  Numbers'
  BY <1>20
     DEF Numbers, Stores, OwnChannel, ReadForNote, Begin, Goto, channelVars,
        rowVars
<1>21. ASSUME NEW t \in Slots, CreateNote(t)
      PROVE  Numbers'
  BY <1>21
     DEF Numbers, Stores, OwnChannel, CreateNote, End, Leave, Goto,
        channelVars
<1>22. ASSUME NEW t \in Slots, ReadForTag(t)
      PROVE  Numbers'
  BY <1>22
     DEF Numbers, Stores, OwnChannel, ReadForTag, Begin, Goto, channelVars,
        rowVars
<1>23. ASSUME NEW t \in Slots, CreateLink(t)
      PROVE  Numbers'
  BY <1>23
     DEF TypeOK, Numbers, Stores, OwnChannel, CreateLink, CommitLink, Rollback,
        End, Leave, Goto, channelVars, rowVars
<1>24. ASSUME NEW t \in Slots, ReadLink(t)
      PROVE  Numbers'
  BY <1>24
     DEF Numbers, Stores, OwnChannel, ReadLink, Begin, Goto, channelVars,
        rowVars
<1>25. ASSUME NEW t \in Slots, DeleteLink(t)
      PROVE  Numbers'
  BY <1>25
     DEF TypeOK, Numbers, Stores, OwnChannel, DeleteLink, CommitLink, Rollback,
        End, Leave, Goto, channelVars, rowVars
<1>26. ASSUME NEW t \in Slots, Fail(t)
      PROVE  Numbers'
  BY <1>26
     DEF TypeOK, Numbers, Stores, OwnChannel, Fail, Rollback, End, Leave,
        Goto, channelVars, rowVars
<1>27. CASE UNCHANGED vars
  BY <1>27
     DEF Numbers, Stores, OwnChannel, vars, channelVars, rowVars, slotVars
<1>28. ASSUME NEW t \in Slots, ListMessages(t)
      PROVE  Numbers'
  BY <1>28
     DEF Numbers, Stores, OwnChannel, ListMessages, convVars, End, Leave, Goto,
        channelVars
<1>29. QED
  BY <1>1, <1>2, <1>3, <1>4, <1>5, <1>6, <1>7, <1>8, <1>9, <1>10, <1>11, <1>12,
     <1>13, <1>14, <1>15, <1>16, <1>17, <1>18, <1>19, <1>20, <1>21, <1>22,
     <1>23, <1>24, <1>25, <1>26, <1>27, <1>28
     DEF Next, ChannelStep, InboundStep, UserStep

LEMMA HolderStep ==
  ASSUME TypeOK, Numbers, OneHolder, [Next]_vars
  PROVE  OneHolder'
<1>1. ASSUME NEW i \in Inbound, Receive(i)
      PROVE  OneHolder'
  BY <1>1
     DEF OwnChannel, OneHolder, HoldsAccount, Receive, channelVars, slotVars
<1>2. ASSUME NEW t \in Slots, CreateAccount(t)
      PROVE  OneHolder'
  BY <1>2
     DEF OwnChannel, OneHolder, HoldsAccount, Others, CreateAccount,
        AccountHeld, HoldsAccount, Begin, Goto, channelVars, rowVars
<1>3. ASSUME NEW t \in Slots, ConnectChannel(t)
      PROVE  OneHolder'
  BY <1>3
     DEF TypeOK, OwnChannel, OneHolder, HoldsAccount, ConnectChannel, End,
        End, Leave, Goto, channelVars
<1>4. ASSUME NEW t \in Slots, ReadAccount(t)
      PROVE  OneHolder'
  BY <1>4
     DEF OwnChannel, OneHolder, HoldsAccount, ReadAccount, Begin, Goto,
        channelVars, rowVars
<1>5. ASSUME NEW t \in Slots, DeleteAccount(t)
      PROVE  OneHolder'
  BY <1>5
     DEF TypeOK, OwnChannel, OneHolder, HoldsAccount, DeleteAccount,
        AccountHeld, HoldsAccount, Others, Goto, Rollback, End, Leave,
        channelVars, rowVars
<1>6. ASSUME NEW t \in Slots, FindChannel(t)
      PROVE  OneHolder'
  BY <1>6
     DEF TypeOK, OwnChannel, OneHolder, HoldsAccount, FindChannel, Goto, End,
        End, Leave, channelVars, rowVars
<1>7. ASSUME NEW t \in Slots, DeleteChannel(t)
      PROVE  OneHolder'
  BY <1>7 DEF OwnChannel, OneHolder, HoldsAccount, DeleteChannel, End, Leave, Goto
<1>8. ASSUME NEW t \in Slots, NEW i \in Inbound, UpsertChannel(t, i)
      PROVE  OneHolder'
  BY <1>8
     DEF OwnChannel, OneHolder, HoldsAccount, UpsertChannel, Others, Begin,
        Goto, channelVars, rowVars
<1>9. ASSUME NEW t \in Slots, FindConversation(t)
      PROVE  OneHolder'
  BY <1>9
     DEF OwnChannel, OneHolder, HoldsAccount, FindConversation, Goto,
        channelVars, rowVars
<1>10. ASSUME NEW t \in Slots, CreateConversation(t)
      PROVE  OneHolder'
  BY <1>10
     DEF TypeOK, OwnChannel, OneHolder, HoldsAccount, CreateConversation, Goto,
        Rollback, End, Leave, channelVars, rowVars
<1>11. ASSUME NEW t \in Slots, CreateMessage(t)
      PROVE  OneHolder'
  BY <1>11
     DEF TypeOK, OwnChannel, OneHolder, HoldsAccount, CreateMessage, Goto,
        Rollback, End, Leave, channelVars, rowVars
<1>12. ASSUME NEW t \in Slots, BumpConversation(t)
      PROVE  OneHolder'
  BY <1>12
     DEF TypeOK, OwnChannel, OneHolder, HoldsAccount, BumpConversation,
        EndWritten, Leave, Goto
<1>13. ASSUME NEW t \in Slots, ReadConversation(t)
      PROVE  OneHolder'
  BY <1>13
     DEF OwnChannel, OneHolder, HoldsAccount, ReadConversation, Goto,
        channelVars, rowVars
<1>14. ASSUME NEW t \in Slots, ReadMessages(t)
      PROVE  OneHolder'
  BY <1>14
     DEF OwnChannel, OneHolder, HoldsAccount, ReadMessages, Goto, channelVars,
        rowVars
<1>15. ASSUME NEW t \in Slots, ClearUnread(t)
      PROVE  OneHolder'
  BY <1>15, ClearUnreadLeaves
     DEF TypeOK, OwnChannel, OneHolder, HoldsAccount, Leave, Goto, channelVars
<1>16. ASSUME NEW t \in Slots, RequestSend(t)
      PROVE  OneHolder'
  BY <1>16
     DEF OwnChannel, OneHolder, HoldsAccount, RequestSend, Begin, Goto,
        channelVars, rowVars
<1>17. ASSUME NEW t \in Slots, LockForSend(t)
      PROVE  OneHolder'
  BY <1>17
     DEF TypeOK, OwnChannel, OneHolder, HoldsAccount, LockForSend, Rollback, End,
        End, Leave, Goto, channelVars, rowVars
<1>18. ASSUME NEW t \in Slots, NEW s \in Status, ReadStatus(t, s)
      PROVE  OneHolder'
  BY <1>18
     DEF OwnChannel, OneHolder, HoldsAccount, ReadStatus, Begin, Goto,
        channelVars, rowVars
<1>19. ASSUME NEW t \in Slots, SetStatus(t)
      PROVE  OneHolder'
  BY <1>19
     DEF TypeOK, OwnChannel, OneHolder, HoldsAccount, SetStatus, Rollback, End,
        EndWritten, Leave, Goto, channelVars, rowVars
<1>20. ASSUME NEW t \in Slots, ReadForNote(t)
      PROVE  OneHolder'
  BY <1>20
     DEF OwnChannel, OneHolder, HoldsAccount, ReadForNote, Begin, Goto,
        channelVars, rowVars
<1>21. ASSUME NEW t \in Slots, CreateNote(t)
      PROVE  OneHolder'
  BY <1>21
     DEF OwnChannel, OneHolder, HoldsAccount, CreateNote, End, Leave, Goto,
        channelVars
<1>22. ASSUME NEW t \in Slots, ReadForTag(t)
      PROVE  OneHolder'
  BY <1>22
     DEF OwnChannel, OneHolder, HoldsAccount, ReadForTag, Begin, Goto,
        channelVars, rowVars
<1>23. ASSUME NEW t \in Slots, CreateLink(t)
      PROVE  OneHolder'
  BY <1>23
     DEF TypeOK, OwnChannel, OneHolder, HoldsAccount, CreateLink, CommitLink,
        Rollback, End, Leave, Goto, channelVars, rowVars
<1>24. ASSUME NEW t \in Slots, ReadLink(t)
      PROVE  OneHolder'
  BY <1>24
     DEF OwnChannel, OneHolder, HoldsAccount, ReadLink, Begin, Goto,
        channelVars, rowVars
<1>25. ASSUME NEW t \in Slots, DeleteLink(t)
      PROVE  OneHolder'
  BY <1>25
     DEF TypeOK, OwnChannel, OneHolder, HoldsAccount, DeleteLink, CommitLink,
        Rollback, End, Leave, Goto, channelVars, rowVars
<1>26. ASSUME NEW t \in Slots, Fail(t)
      PROVE  OneHolder'
  BY <1>26
     DEF TypeOK, OwnChannel, OneHolder, HoldsAccount, Fail, Rollback, End,
        End, Leave, Goto, channelVars, rowVars
<1>27. CASE UNCHANGED vars
  BY <1>27
     DEF OwnChannel, OneHolder, HoldsAccount, vars, channelVars, rowVars,
        slotVars
<1>28. ASSUME NEW t \in Slots, ListMessages(t)
      PROVE  OneHolder'
  BY <1>28
     DEF OwnChannel, OneHolder, HoldsAccount, ListMessages, convVars, End, Leave, Goto,
        channelVars
<1>29. QED
  BY <1>1, <1>2, <1>3, <1>4, <1>5, <1>6, <1>7, <1>8, <1>9, <1>10, <1>11, <1>12,
     <1>13, <1>14, <1>15, <1>16, <1>17, <1>18, <1>19, <1>20, <1>21, <1>22,
     <1>23, <1>24, <1>25, <1>26, <1>27, <1>28
     DEF Next, ChannelStep, InboundStep, UserStep

LEMMA ListStep ==
  ASSUME TypeOK, Numbers, ListIsWhole, [Next]_vars
  PROVE  ListIsWhole'
<1>1. ASSUME NEW i \in Inbound, Receive(i)
      PROVE  ListIsWhole'
  BY <1>1 DEF ListIsWhole, Here, Receive, channelVars, convVars, slotVars, seenVars
<1>2. ASSUME NEW t \in Slots, CreateAccount(t)
      PROVE  ListIsWhole'
  BY <1>2
     DEF ListIsWhole, Here, CreateAccount, Begin, Goto, channelVars, convVars,
        rowVars, seenVars
<1>3. ASSUME NEW t \in Slots, ConnectChannel(t)
      PROVE  ListIsWhole'
  BY <1>3
     DEF TypeOK, ListIsWhole, Here, ConnectChannel, End, Leave, Goto,
        channelVars, convVars, seenVars
<1>4. ASSUME NEW t \in Slots, ReadAccount(t)
      PROVE  ListIsWhole'
  BY <1>4
     DEF ListIsWhole, Here, ReadAccount, Begin, Goto, channelVars, convVars,
        rowVars, seenVars
<1>5. ASSUME NEW t \in Slots, DeleteAccount(t)
      PROVE  ListIsWhole'
  <2>1. CASE Rollback(t)
    BY <2>1, RolledBackListIsWhole
  <2>2. CASE ~Rollback(t)
    BY <1>5, <2>2
       DEF TypeOK, ListIsWhole, Here, DeleteAccount, Goto, channelVars, convVars,
           seenVars, rowVars
  <2>3. QED
    BY <2>1, <2>2
<1>6. ASSUME NEW t \in Slots, FindChannel(t)
      PROVE  ListIsWhole'
  BY <1>6
     DEF TypeOK, ListIsWhole, Here, FindChannel, Goto, End, Leave,
        channelVars, convVars, rowVars, seenVars
<1>7. ASSUME NEW t \in Slots, DeleteChannel(t)
      PROVE  ListIsWhole'
  BY <1>7 DEF ListIsWhole, DeleteChannel, seenVars
<1>8. ASSUME NEW t \in Slots, NEW i \in Inbound, UpsertChannel(t, i)
      PROVE  ListIsWhole'
  BY <1>8
     DEF ListIsWhole, Here, UpsertChannel, Begin, Goto, channelVars, convVars,
        rowVars, seenVars
<1>9. ASSUME NEW t \in Slots, FindConversation(t)
      PROVE  ListIsWhole'
  BY <1>9
     DEF ListIsWhole, Here, FindConversation, Here, Goto, channelVars,
        convVars, rowVars, seenVars
<1>10. ASSUME NEW t \in Slots, CreateConversation(t)
      PROVE  ListIsWhole'
  <2>1. CASE Rollback(t)
    BY <2>1, RolledBackListIsWhole
  <2>2. CASE ~Rollback(t)
    BY <1>10, <2>2
       DEF TypeOK, ListIsWhole, Here, CreateConversation, Goto, channelVars, convVars,
           seenVars, rowVars
  <2>3. QED
    BY <2>1, <2>2
<1>11. ASSUME NEW t \in Slots, CreateMessage(t)
      PROVE  ListIsWhole'
  <2>1. CASE Rollback(t)
    BY <2>1, RolledBackListIsWhole
  <2>2. CASE ~Rollback(t)
    BY <1>11, <2>2
       DEF TypeOK, ListIsWhole, Here, CreateMessage, Goto, channelVars, convVars,
           seenVars, rowVars
  <2>3. QED
    BY <2>1, <2>2
<1>12. ASSUME NEW t \in Slots, BumpConversation(t)
      PROVE  ListIsWhole'
  BY <1>12, WrittenListIsWhole DEF BumpConversation
<1>13. ASSUME NEW t \in Slots, ReadConversation(t)
      PROVE  ListIsWhole'
  BY <1>13
     DEF ListIsWhole, Here, ReadConversation, Goto, channelVars, convVars,
        rowVars, seenVars
<1>14. ASSUME NEW t \in Slots, ReadMessages(t)
      PROVE  ListIsWhole'
  BY <1>14
     DEF TypeOK, ListIsWhole, Here, ReadMessages, Here, Goto, channelVars,
        convVars, rowVars, seenVars
<1>15. ASSUME NEW t \in Slots, ClearUnread(t)
      PROVE  ListIsWhole'
  <2>1. CASE EndWritten(t)
    BY <2>1, WrittenListIsWhole
  <2>2. CASE End(t) /\ UNCHANGED tied
    BY <1>15, <2>2
       DEF TypeOK, ListIsWhole, Here, ClearUnread, CommitRead, End, Leave, Goto,
           channelVars
  <2>3. QED
    BY <1>15, <2>1, <2>2 DEF ClearUnread, CommitRead
<1>16. ASSUME NEW t \in Slots, RequestSend(t)
      PROVE  ListIsWhole'
  BY <1>16
     DEF ListIsWhole, Here, RequestSend, Begin, Goto, channelVars, convVars,
        rowVars, seenVars
<1>17. ASSUME NEW t \in Slots, LockForSend(t)
      PROVE  ListIsWhole'
  BY <1>17, RolledBackListIsWhole DEF LockForSend
<1>18. ASSUME NEW t \in Slots, NEW s \in Status, ReadStatus(t, s)
      PROVE  ListIsWhole'
  BY <1>18
     DEF ListIsWhole, Here, ReadStatus, Begin, Goto, channelVars, convVars,
        rowVars, seenVars
<1>19. ASSUME NEW t \in Slots, SetStatus(t)
      PROVE  ListIsWhole'
  <2>1. CASE Rollback(t)
    BY <2>1, RolledBackListIsWhole
  <2>2. CASE ~Rollback(t)
    BY <1>19, <2>2, WrittenListIsWhole DEF SetStatus
  <2>3. QED
    BY <2>1, <2>2
<1>20. ASSUME NEW t \in Slots, ReadForNote(t)
      PROVE  ListIsWhole'
  BY <1>20
     DEF ListIsWhole, Here, ReadForNote, Begin, Goto, channelVars, convVars,
        rowVars, seenVars
<1>21. ASSUME NEW t \in Slots, CreateNote(t)
      PROVE  ListIsWhole'
  BY <1>21
     DEF TypeOK, ListIsWhole, Here, CreateNote, End, Leave, Goto, channelVars, seenVars
<1>22. ASSUME NEW t \in Slots, ReadForTag(t)
      PROVE  ListIsWhole'
  BY <1>22
     DEF ListIsWhole, Here, ReadForTag, Begin, Goto, channelVars, convVars,
        rowVars, seenVars
<1>23. ASSUME NEW t \in Slots, CreateLink(t)
      PROVE  ListIsWhole'
  BY <1>23
     DEF TypeOK, ListIsWhole, Here, CreateLink, Here, CommitLink, Rollback,
        End, Leave, Goto, channelVars, convVars, rowVars, seenVars
<1>24. ASSUME NEW t \in Slots, ReadLink(t)
      PROVE  ListIsWhole'
  BY <1>24
     DEF ListIsWhole, Here, ReadLink, Begin, Goto, channelVars, convVars,
        rowVars, seenVars
<1>25. ASSUME NEW t \in Slots, DeleteLink(t)
      PROVE  ListIsWhole'
  BY <1>25
     DEF TypeOK, ListIsWhole, Here, DeleteLink, Here, CommitLink, Rollback,
        End, Leave, Goto, channelVars, convVars, rowVars, seenVars
<1>26. ASSUME NEW t \in Slots, Fail(t)
      PROVE  ListIsWhole'
  BY <1>26, RolledBackListIsWhole DEF Fail
<1>27. CASE UNCHANGED vars
  BY <1>27
     DEF ListIsWhole, Here, vars, channelVars, convVars, rowVars, slotVars, seenVars
<1>28. ASSUME NEW t \in Slots, ListMessages(t)
      PROVE  ListIsWhole'
  BY <1>28
     DEF TypeOK, ListIsWhole, Here, ListMessages, convVars, End, Leave, Goto, channelVars, seenVars
<1>29. QED
  BY <1>1, <1>2, <1>3, <1>4, <1>5, <1>6, <1>7, <1>8, <1>9, <1>10, <1>11, <1>12,
     <1>13, <1>14, <1>15, <1>16, <1>17, <1>18, <1>19, <1>20, <1>21, <1>22,
     <1>23, <1>24, <1>25, <1>26, <1>27, <1>28
     DEF Next, ChannelStep, InboundStep, UserStep

LEMMA TagsStep ==
  ASSUME TypeOK, TagsCounted, [Next]_vars
  PROVE  TagsCounted'
<1>1. ASSUME NEW i \in Inbound, Receive(i)
      PROVE  TagsCounted'
  BY <1>1 DEF TagsCounted, Receive, convVars
<1>2. ASSUME NEW t \in Slots, CreateAccount(t)
      PROVE  TagsCounted'
  BY <1>2 DEF TagsCounted, CreateAccount, Begin, convVars, rowVars
<1>3. ASSUME NEW t \in Slots, ConnectChannel(t)
      PROVE  TagsCounted'
  BY <1>3 DEF TagsCounted, ConnectChannel, convVars
<1>4. ASSUME NEW t \in Slots, ReadAccount(t)
      PROVE  TagsCounted'
  BY <1>4 DEF TagsCounted, ReadAccount, Begin, convVars, rowVars
<1>5. ASSUME NEW t \in Slots, DeleteAccount(t)
      PROVE  TagsCounted'
  BY <1>5 DEF TagsCounted, DeleteAccount, Rollback, convVars, rowVars
<1>6. ASSUME NEW t \in Slots, FindChannel(t)
      PROVE  TagsCounted'
  BY <1>6 DEF TagsCounted, FindChannel, convVars, rowVars
<1>7. ASSUME NEW t \in Slots, DeleteChannel(t)
      PROVE  TagsCounted'
  BY <1>7 DEF TagsCounted, DeleteChannel
<1>8. ASSUME NEW t \in Slots, NEW i \in Inbound, UpsertChannel(t, i)
      PROVE  TagsCounted'
  BY <1>8 DEF TagsCounted, UpsertChannel, Begin, convVars, rowVars
<1>9. ASSUME NEW t \in Slots, FindConversation(t)
      PROVE  TagsCounted'
  BY <1>9 DEF TagsCounted, FindConversation, convVars, rowVars
<1>10. ASSUME NEW t \in Slots, CreateConversation(t)
      PROVE  TagsCounted'
  BY <1>10 DEF TagsCounted, CreateConversation, Rollback, convVars, rowVars
<1>11. ASSUME NEW t \in Slots, CreateMessage(t)
      PROVE  TagsCounted'
  BY <1>11 DEF TagsCounted, CreateMessage, Rollback, convVars, rowVars
<1>12. ASSUME NEW t \in Slots, BumpConversation(t)
      PROVE  TagsCounted'
  BY <1>12 DEF TagsCounted, BumpConversation
<1>13. ASSUME NEW t \in Slots, ReadConversation(t)
      PROVE  TagsCounted'
  BY <1>13 DEF TagsCounted, ReadConversation, convVars, rowVars
<1>14. ASSUME NEW t \in Slots, ReadMessages(t)
      PROVE  TagsCounted'
  BY <1>14 DEF TagsCounted, ReadMessages, convVars, rowVars
<1>15. ASSUME NEW t \in Slots, ClearUnread(t)
      PROVE  TagsCounted'
  BY <1>15 DEF TagsCounted, ClearUnread, CommitRead
<1>16. ASSUME NEW t \in Slots, RequestSend(t)
      PROVE  TagsCounted'
  BY <1>16 DEF TagsCounted, RequestSend, Begin, convVars, rowVars
<1>17. ASSUME NEW t \in Slots, LockForSend(t)
      PROVE  TagsCounted'
  BY <1>17 DEF TagsCounted, LockForSend, Rollback, convVars, rowVars
<1>18. ASSUME NEW t \in Slots, NEW s \in Status, ReadStatus(t, s)
      PROVE  TagsCounted'
  BY <1>18 DEF TagsCounted, ReadStatus, Begin, convVars, rowVars
<1>19. ASSUME NEW t \in Slots, SetStatus(t)
      PROVE  TagsCounted'
  BY <1>19 DEF TagsCounted, SetStatus, Rollback, EndWritten, Leave, convVars, rowVars
<1>20. ASSUME NEW t \in Slots, ReadForNote(t)
      PROVE  TagsCounted'
  BY <1>20 DEF TagsCounted, ReadForNote, Begin, convVars, rowVars
<1>21. ASSUME NEW t \in Slots, CreateNote(t)
      PROVE  TagsCounted'
  BY <1>21 DEF TagsCounted, CreateNote
<1>22. ASSUME NEW t \in Slots, ReadForTag(t)
      PROVE  TagsCounted'
  BY <1>22 DEF TagsCounted, ReadForTag, Begin, convVars, rowVars
<1>23. ASSUME NEW t \in Slots, CreateLink(t)
      PROVE  TagsCounted'
  BY <1>23 DEF TagsCounted, CreateLink, CommitLink, Rollback, convVars, rowVars
<1>24. ASSUME NEW t \in Slots, ReadLink(t)
      PROVE  TagsCounted'
  BY <1>24 DEF TagsCounted, ReadLink, Begin, convVars, rowVars
<1>25. ASSUME NEW t \in Slots, DeleteLink(t)
      PROVE  TagsCounted'
  BY <1>25 DEF TagsCounted, DeleteLink, CommitLink, Rollback, convVars, rowVars
<1>26. ASSUME NEW t \in Slots, Fail(t)
      PROVE  TagsCounted'
  BY <1>26 DEF TagsCounted, Fail, Rollback, convVars, rowVars
<1>27. CASE UNCHANGED vars
  BY <1>27 DEF TagsCounted, vars, convVars, rowVars
<1>28. ASSUME NEW t \in Slots, ListMessages(t)
      PROVE  TagsCounted'
  BY <1>28 DEF TagsCounted, ListMessages, convVars
<1>29. QED
  BY <1>1, <1>2, <1>3, <1>4, <1>5, <1>6, <1>7, <1>8, <1>9, <1>10, <1>11, <1>12,
     <1>13, <1>14, <1>15, <1>16, <1>17, <1>18, <1>19, <1>20, <1>21, <1>22,
     <1>23, <1>24, <1>25, <1>26, <1>27, <1>28
     DEF Next, ChannelStep, InboundStep, UserStep

LEMMA ReadStep ==
  ASSUME TypeOK, Numbers, ListIsWhole, ReadIsSeen, [Next]_vars
  PROVE  ReadIsSeen'
<1>1. ASSUME NEW i \in Inbound, Receive(i)
      PROVE  ReadIsSeen'
  BY <1>1 DEF ReadIsSeen, Receive, convVars, seenVars
<1>2. ASSUME NEW t \in Slots, CreateAccount(t)
      PROVE  ReadIsSeen'
  BY <1>2 DEF ReadIsSeen, CreateAccount, Begin, convVars, seenVars, rowVars
<1>3. ASSUME NEW t \in Slots, ConnectChannel(t)
      PROVE  ReadIsSeen'
  BY <1>3 DEF ReadIsSeen, ConnectChannel, convVars, seenVars
<1>4. ASSUME NEW t \in Slots, ReadAccount(t)
      PROVE  ReadIsSeen'
  BY <1>4 DEF ReadIsSeen, ReadAccount, Begin, convVars, seenVars, rowVars
<1>5. ASSUME NEW t \in Slots, DeleteAccount(t)
      PROVE  ReadIsSeen'
  BY <1>5 DEF ReadIsSeen, DeleteAccount, Rollback, convVars, seenVars, rowVars
<1>6. ASSUME NEW t \in Slots, FindChannel(t)
      PROVE  ReadIsSeen'
  BY <1>6 DEF ReadIsSeen, FindChannel, convVars, seenVars, rowVars
<1>7. ASSUME NEW t \in Slots, DeleteChannel(t)
      PROVE  ReadIsSeen'
  BY <1>7 DEF ReadIsSeen, DeleteChannel
<1>8. ASSUME NEW t \in Slots, NEW i \in Inbound, UpsertChannel(t, i)
      PROVE  ReadIsSeen'
  BY <1>8 DEF ReadIsSeen, UpsertChannel, Begin, convVars, seenVars, rowVars
<1>9. ASSUME NEW t \in Slots, FindConversation(t)
      PROVE  ReadIsSeen'
  BY <1>9 DEF ReadIsSeen, FindConversation, convVars, seenVars, rowVars
<1>10. ASSUME NEW t \in Slots, CreateConversation(t)
      PROVE  ReadIsSeen'
  BY <1>10
     DEF ReadIsSeen, CreateConversation, Rollback, convVars, seenVars, rowVars
<1>11. ASSUME NEW t \in Slots, CreateMessage(t)
      PROVE  ReadIsSeen'
  BY <1>11 DEF ReadIsSeen, CreateMessage, Rollback, convVars, seenVars, rowVars
<1>12. ASSUME NEW t \in Slots, BumpConversation(t)
      PROVE  ReadIsSeen'
  BY <1>12 DEF ReadIsSeen, BumpConversation
<1>13. ASSUME NEW t \in Slots, ReadConversation(t)
      PROVE  ReadIsSeen'
  BY <1>13 DEF ReadIsSeen, ReadConversation, convVars, seenVars, rowVars
<1>14. ASSUME NEW t \in Slots, ReadMessages(t)
      PROVE  ReadIsSeen'
  BY <1>14 DEF ReadIsSeen, ReadMessages, convVars, seenVars, rowVars
<1>15. ASSUME NEW t \in Slots, ClearUnread(t)
      PROVE  ReadIsSeen'
  <2>1. /\ stored' = stored /\ tied \subseteq tied'
        /\ shown' = shown \cup read[t]
    BY <1>15, ClearUnreadLeaves
  <2>2. conversation' = conversation
    BY <1>15 DEF ClearUnread, CommitRead
  <2>3. CASE Here(t) /\ isUnread /\ fresh[t]
    <3>1. \A i \in stored : i \in read[t] \/ i \in tied
      BY <1>15, <2>3 DEF ListIsWhole, ClearUnread
    <3>2. QED
      BY <2>1, <3>1 DEF ReadIsSeen
  <2>4. CASE ~(Here(t) /\ isUnread /\ fresh[t])
    <3>1. isUnread' = isUnread
      BY <1>15, <2>4, Zenon DEF TypeOK, ClearUnread, CommitRead
    <3>2. QED
      BY <2>1, <2>2, <3>1 DEF ReadIsSeen
  <2>5. QED
    BY <2>3, <2>4
<1>16. ASSUME NEW t \in Slots, RequestSend(t)
      PROVE  ReadIsSeen'
  BY <1>16 DEF ReadIsSeen, RequestSend, Begin, convVars, seenVars, rowVars
<1>17. ASSUME NEW t \in Slots, LockForSend(t)
      PROVE  ReadIsSeen'
  BY <1>17 DEF ReadIsSeen, LockForSend, Rollback, convVars, seenVars, rowVars
<1>18. ASSUME NEW t \in Slots, NEW s \in Status, ReadStatus(t, s)
      PROVE  ReadIsSeen'
  BY <1>18 DEF ReadIsSeen, ReadStatus, Begin, convVars, seenVars, rowVars
<1>19. ASSUME NEW t \in Slots, SetStatus(t)
      PROVE  ReadIsSeen'
  <2>1. CASE Rollback(t)
    BY <2>1 DEF ReadIsSeen, Rollback, convVars, seenVars, rowVars
  <2>2. CASE ~Rollback(t)
    <3>1. stored' = stored /\ stored \subseteq Inbound
      BY <1>19, <2>2 DEF SetStatus, TypeOK
    <3>2. tied \subseteq tied'
      BY <1>19, <2>2, <3>1, EndWrittenIsTyped DEF SetStatus
    <3>3. QED
      BY <1>19, <2>2, <3>1, <3>2 DEF ReadIsSeen, SetStatus
  <2>3. QED
    BY <2>1, <2>2
<1>20. ASSUME NEW t \in Slots, ReadForNote(t)
      PROVE  ReadIsSeen'
  BY <1>20 DEF ReadIsSeen, ReadForNote, Begin, convVars, seenVars, rowVars
<1>21. ASSUME NEW t \in Slots, CreateNote(t)
      PROVE  ReadIsSeen'
  BY <1>21 DEF ReadIsSeen, CreateNote, seenVars
<1>22. ASSUME NEW t \in Slots, ReadForTag(t)
      PROVE  ReadIsSeen'
  BY <1>22 DEF ReadIsSeen, ReadForTag, Begin, convVars, seenVars, rowVars
<1>23. ASSUME NEW t \in Slots, CreateLink(t)
      PROVE  ReadIsSeen'
  BY <1>23
     DEF ReadIsSeen, CreateLink, CommitLink, Rollback, convVars, seenVars,
        rowVars
<1>24. ASSUME NEW t \in Slots, ReadLink(t)
      PROVE  ReadIsSeen'
  BY <1>24 DEF ReadIsSeen, ReadLink, Begin, convVars, seenVars, rowVars
<1>25. ASSUME NEW t \in Slots, DeleteLink(t)
      PROVE  ReadIsSeen'
  BY <1>25
     DEF ReadIsSeen, DeleteLink, CommitLink, Rollback, convVars, seenVars,
        rowVars
<1>26. ASSUME NEW t \in Slots, Fail(t)
      PROVE  ReadIsSeen'
  BY <1>26 DEF ReadIsSeen, Fail, Rollback, convVars, seenVars, rowVars
<1>27. CASE UNCHANGED vars
  BY <1>27 DEF ReadIsSeen, vars, convVars, seenVars, rowVars
<1>28. ASSUME NEW t \in Slots, ListMessages(t)
      PROVE  ReadIsSeen'
  BY <1>28 DEF ReadIsSeen, ListMessages, convVars, seenVars
<1>29. QED
  BY <1>1, <1>2, <1>3, <1>4, <1>5, <1>6, <1>7, <1>8, <1>9, <1>10, <1>11, <1>12,
     <1>13, <1>14, <1>15, <1>16, <1>17, <1>18, <1>19, <1>20, <1>21, <1>22,
     <1>23, <1>24, <1>25, <1>26, <1>27, <1>28
     DEF Next, ChannelStep, InboundStep, UserStep

LEMMA AccountStep ==
  ASSUME TypeOK, Numbers, AccountHasChannel, [Next]_vars
  PROVE  AccountHasChannel'
<1>1. ASSUME NEW i \in Inbound, Receive(i)
      PROVE  AccountHasChannel'
  BY <1>1 DEF AccountHasChannel, Receive, channelVars
<1>2. ASSUME NEW t \in Slots, CreateAccount(t)
      PROVE  AccountHasChannel'
  BY <1>2 DEF AccountHasChannel, CreateAccount, Begin, accountVars, rowVars
<1>3. ASSUME NEW t \in Slots, ConnectChannel(t)
      PROVE  AccountHasChannel'
  BY <1>3 DEF TypeOK, AccountHasChannel, ConnectChannel, channelVars
<1>4. ASSUME NEW t \in Slots, ReadAccount(t)
      PROVE  AccountHasChannel'
  BY <1>4 DEF AccountHasChannel, ReadAccount, Begin, channelVars, rowVars
<1>5. ASSUME NEW t \in Slots, DeleteAccount(t)
      PROVE  AccountHasChannel'
  BY <1>5
     DEF AccountHasChannel, DeleteAccount, Rollback, accountVars, channelVars,
        rowVars
<1>6. ASSUME NEW t \in Slots, FindChannel(t)
      PROVE  AccountHasChannel'
  BY <1>6 DEF AccountHasChannel, FindChannel, channelVars, rowVars
<1>7. ASSUME NEW t \in Slots, DeleteChannel(t)
      PROVE  AccountHasChannel'
  BY <1>7 DEF AccountHasChannel, DeleteChannel
<1>8. ASSUME NEW t \in Slots, NEW i \in Inbound, UpsertChannel(t, i)
      PROVE  AccountHasChannel'
  BY <1>8
     DEF AccountHasChannel, UpsertChannel, Begin, accountVars, channelVars,
        rowVars
<1>9. ASSUME NEW t \in Slots, FindConversation(t)
      PROVE  AccountHasChannel'
  BY <1>9
     DEF AccountHasChannel, FindConversation, accountVars, channelVars, rowVars
<1>10. ASSUME NEW t \in Slots, CreateConversation(t)
      PROVE  AccountHasChannel'
  BY <1>10
     DEF AccountHasChannel, CreateConversation, Rollback, accountVars,
        channelVars, rowVars
<1>11. ASSUME NEW t \in Slots, CreateMessage(t)
      PROVE  AccountHasChannel'
  BY <1>11
     DEF AccountHasChannel, CreateMessage, Rollback, accountVars, channelVars,
        rowVars
<1>12. ASSUME NEW t \in Slots, BumpConversation(t)
      PROVE  AccountHasChannel'
  BY <1>12 DEF Numbers, AccountHasChannel, BumpConversation, accountVars
<1>13. ASSUME NEW t \in Slots, ReadConversation(t)
      PROVE  AccountHasChannel'
  BY <1>13
     DEF AccountHasChannel, ReadConversation, accountVars, channelVars, rowVars
<1>14. ASSUME NEW t \in Slots, ReadMessages(t)
      PROVE  AccountHasChannel'
  BY <1>14
     DEF AccountHasChannel, ReadMessages, accountVars, channelVars, rowVars
<1>15. ASSUME NEW t \in Slots, ClearUnread(t)
      PROVE  AccountHasChannel'
  BY <1>15 DEF AccountHasChannel, ClearUnread, CommitRead, accountVars, channelVars
<1>16. ASSUME NEW t \in Slots, RequestSend(t)
      PROVE  AccountHasChannel'
  BY <1>16
     DEF AccountHasChannel, RequestSend, Begin, accountVars, channelVars,
        rowVars
<1>17. ASSUME NEW t \in Slots, LockForSend(t)
      PROVE  AccountHasChannel'
  BY <1>17
     DEF AccountHasChannel, LockForSend, Rollback, accountVars, channelVars, rowVars
<1>18. ASSUME NEW t \in Slots, NEW s \in Status, ReadStatus(t, s)
      PROVE  AccountHasChannel'
  BY <1>18
     DEF AccountHasChannel, ReadStatus, Begin, accountVars, channelVars,
        rowVars
<1>19. ASSUME NEW t \in Slots, SetStatus(t)
      PROVE  AccountHasChannel'
  BY <1>19
     DEF AccountHasChannel, SetStatus, Rollback, accountVars, channelVars,
        rowVars
<1>20. ASSUME NEW t \in Slots, ReadForNote(t)
      PROVE  AccountHasChannel'
  BY <1>20
     DEF AccountHasChannel, ReadForNote, Begin, accountVars, channelVars,
        rowVars
<1>21. ASSUME NEW t \in Slots, CreateNote(t)
      PROVE  AccountHasChannel'
  BY <1>21 DEF AccountHasChannel, CreateNote, accountVars, channelVars
<1>22. ASSUME NEW t \in Slots, ReadForTag(t)
      PROVE  AccountHasChannel'
  BY <1>22
     DEF AccountHasChannel, ReadForTag, Begin, accountVars, channelVars,
        rowVars
<1>23. ASSUME NEW t \in Slots, CreateLink(t)
      PROVE  AccountHasChannel'
  BY <1>23
     DEF AccountHasChannel, CreateLink, CommitLink, Rollback, accountVars,
        channelVars, rowVars
<1>24. ASSUME NEW t \in Slots, ReadLink(t)
      PROVE  AccountHasChannel'
  BY <1>24
     DEF AccountHasChannel, ReadLink, Begin, accountVars, channelVars, rowVars
<1>25. ASSUME NEW t \in Slots, DeleteLink(t)
      PROVE  AccountHasChannel'
  BY <1>25
     DEF AccountHasChannel, DeleteLink, CommitLink, Rollback, accountVars,
        channelVars, rowVars
<1>26. ASSUME NEW t \in Slots, Fail(t)
      PROVE  AccountHasChannel'
  BY <1>26
     DEF AccountHasChannel, Fail, Rollback, accountVars, channelVars, rowVars
<1>27. CASE UNCHANGED vars
  BY <1>27 DEF AccountHasChannel, vars, accountVars, channelVars, rowVars
<1>28. ASSUME NEW t \in Slots, ListMessages(t)
      PROVE  AccountHasChannel'
  BY <1>28 DEF AccountHasChannel, ListMessages, convVars, accountVars, channelVars
<1>29. QED
  BY <1>1, <1>2, <1>3, <1>4, <1>5, <1>6, <1>7, <1>8, <1>9, <1>10, <1>11, <1>12,
     <1>13, <1>14, <1>15, <1>16, <1>17, <1>18, <1>19, <1>20, <1>21, <1>22,
     <1>23, <1>24, <1>25, <1>26, <1>27, <1>28
     DEF Next, ChannelStep, InboundStep, UserStep

LEMMA ConversationInvariant == Spec => []ConversationInv
<1>1. ConversationInv /\ [Next]_vars => ConversationInv'
  BY TypeStep, NumbersStep, HolderStep, ListStep, TagsStep,
     ReadStep,
     AccountStep DEF ConversationInv
<1>2. QED
  BY <1>1, ConversationInit, PTL DEF Spec

(* Every reachable state is well typed.                                     *)
THEOREM TypeCorrect == Spec => []TypeOK
<1>1. ConversationInv => TypeOK
  BY DEF ConversationInv
<1>2. QED
  BY <1>1, ConversationInvariant, PTL

(* A conversation that is not marked unread has no inbound message that nobody *)
(* has listed, however listing, webhooks and disconnects overlap and whatever  *)
(* the clocks say, except those that updatedAt hid: the ones whose write has   *)
(* the millisecond a transaction compares that listed the messages before it.  *)
THEOREM ReadIsAlwaysSeen == Spec => []ReadIsSeen
<1>1. ConversationInv => ReadIsSeen
  BY DEF ConversationInv
<1>2. QED
  BY <1>1, ConversationInvariant, PTL

(* The audit log's tag entries add up to whether the tag is linked.         *)
THEOREM TagAuditAlwaysBalances == Spec => []TagAuditBalances
<1>1. ConversationInv => TagAuditBalances
  BY DEF ConversationInv, TagsCounted, TagAuditBalances
<1>2. QED
  BY <1>1, ConversationInvariant, PTL

(* A connected account has its channel, also when webhooks that were received *)
(* before a disconnect are stored after it.                                 *)
THEOREM AccountKeepsChannel == Spec => []AccountHasChannel
<1>1. ConversationInv => AccountHasChannel
  BY DEF ConversationInv
<1>2. QED
  BY <1>1, ConversationInvariant, PTL
==============================================================================
