---------------------------- MODULE TeamMembership ----------------------------
(***************************************************************************)
(* One organization's members, invitations and conversation assignments as  *)
(* TeamService and ConversationsService.assignConversation change them, each *)
(* request in one PostgreSQL transaction at READ COMMITTED.                 *)
(*                                                                         *)
(* A statement is an action.  Reads see committed rows; a write takes the   *)
(* row's lock and waits while another transaction has it; what a            *)
(* transaction writes shows when it commits, which its last action does.    *)
(* lockOrganizationMemberships locks the rows it sees one by one, in the    *)
(* order of their ids.  Every user has a password, so a member cannot be    *)
(* invited again; the activation of accounts without one is left out.       *)
(***************************************************************************)
EXTENDS Naturals

CONSTANTS
  Members,       \* membership ids; a user has one, used once
  InitialRole,   \* the memberships there are at the start
  Invites,       \* invitation ids, each used once
  Invitee,       \* the membership an invitation leads to
  InvitedRole,   \* its role
  Conversations,
  Nobody,
  Slots,         \* requests served at one time
  NoRequest

Role == {"OWNER", "AGENT"}

ASSUME TeamAssumption ==
  /\ Members \subseteq Nat
  /\ InitialRole \in [Members -> Role \cup {"absent"}]
  /\ \E m \in Members : InitialRole[m] = "OWNER"
  /\ Invitee \in [Invites -> Members]
  /\ InvitedRole \in [Invites -> Role]
  /\ Nobody \notin Members
  /\ Members \cap Invites = {} /\ Members \cap Conversations = {}
  /\ Invites \cap Conversations = {}

MemberRequests ==
  [op : {"updateMemberRole"}, actor : Members, target : Members, role : Role]
    \cup [op : {"removeMember"}, actor : Members, target : Members]

InviteRequests ==
  [op : {"createInvite", "revokeInvite"}, actor : Members, invite : Invites]

AssignRequests ==
  [op : {"assignConversation"}, conversation : Conversations,
   target : Members \cup {Nobody}]

AcceptRequests == [op : {"acceptInvite"}, invite : Invites]

TeamRequests == MemberRequests \cup InviteRequests

Marks == {"created", "expired", "accepted", "revoked", "deleted"}

Rows == Members \cup Invites \cup Conversations

VARIABLES
  role,      \* Membership.role; "absent" before the row, "removed" after
  assignee,  \* Conversation.assignedMembershipId
  invite,    \* what has happened to each invitation
  invitedBy, \* Invitation.createdByMembershipId
  place,     \* the next statement of each slot's transaction
  request,   \* the request each slot serves
  todo,      \* the rows its current statement has still to lock
  holds,     \* the rows it has locked, and
  shares,    \* the membership rows it has locked FOR KEY SHARE
  seen       \* the assignee it has read

rowVars == <<role, assignee, invite, invitedBy>>
slotVars == <<place, request, todo, holds, shares, seen>>
vars == <<rowVars, slotVars>>

TypeOK ==
  /\ role \in [Members -> Role \cup {"absent", "removed"}]
  /\ assignee \in [Conversations -> Members \cup {Nobody}]
  /\ invite \in [Invites -> SUBSET Marks]
  /\ invitedBy \in [Invites -> Members \cup {Nobody}]
  /\ place \in [Slots -> {"idle", "lock", "unassign", "clear", "setRole",
                          "expire", "check", "insert", "revoke", "accept",
                          "join", "update", "reference", "commit"}]
  /\ request \in [Slots -> TeamRequests \cup AssignRequests
                             \cup AcceptRequests \cup {NoRequest}]
  /\ todo \in [Slots -> SUBSET Rows]
  /\ holds \in [Slots -> SUBSET Rows]
  /\ shares \in [Slots -> SUBSET Members]
  /\ seen \in [Slots -> Members \cup {Nobody}]

Init ==
  /\ role = InitialRole
  /\ assignee = [c \in Conversations |-> Nobody]
  /\ invite = [i \in Invites |-> {}]
  /\ invitedBy = [i \in Invites |-> Nobody]
  /\ place = [t \in Slots |-> "idle"]
  /\ request = [t \in Slots |-> NoRequest]
  /\ todo = [t \in Slots |-> {}]
  /\ holds = [t \in Slots |-> {}]
  /\ shares = [t \in Slots |-> {}]
  /\ seen = [t \in Slots |-> Nobody]

-----------------------------------------------------------------------------
(* Transactions.                                                           *)

Present(m) == role[m] \in Role

Pending(i) ==
  "created" \in invite[i] /\ invite[i] \cap {"accepted", "revoked", "deleted"} = {}

Valid(i) == Pending(i) /\ "expired" \notin invite[i]

HeldByOther(t, row) == \E u \in Slots \ {t} : row \in holds[u]

SharedByOther(t, row) == \E u \in Slots \ {t} : row \in shares[u]

Begin(t, q, first) ==
  /\ place[t] = "idle"
  /\ place' = [place EXCEPT ![t] = first]
  /\ request' = [request EXCEPT ![t] = q]

Goto(t, next) ==
  /\ place' = [place EXCEPT ![t] = next]
  /\ UNCHANGED <<request, shares, seen>>

\* The end of a transaction: its locks are gone.
End(t) ==
  /\ place' = [place EXCEPT ![t] = "idle"]
  /\ request' = [request EXCEPT ![t] = NoRequest]
  /\ todo' = [todo EXCEPT ![t] = {}]
  /\ holds' = [holds EXCEPT ![t] = {}]
  /\ shares' = [shares EXCEPT ![t] = {}]
  /\ seen' = [seen EXCEPT ![t] = Nobody]

Rollback(t) == End(t) /\ UNCHANGED rowVars

\* A statement fails, the transaction times out or loses a deadlock.
Fail(t) == place[t] # "idle" /\ Rollback(t)

-----------------------------------------------------------------------------
(* lockOrganizationMemberships, and getActorMembership with assertOwner.    *)

\* Mutation: the rows are read without FOR UPDATE.
NoRows == {}

RowsToLock == {m \in Members : Present(m)}

\* The ids in a request are ids the caller has been shown.
Known(q) ==
  /\ role[q.actor] # "absent"
  /\ q \in MemberRequests => role[q.target] # "absent"
  /\ q.op = "revokeInvite" => "created" \in invite[q.invite]
  /\ q.op = "createInvite" =>
       /\ invite[q.invite] = {} /\ role[Invitee[q.invite]] # "removed"
       /\ \A u \in Slots : request[u] # NoRequest =>
            ~(request[u].op = "createInvite" /\ request[u].invite = q.invite)

BeginTeamRequest(t, q) ==
  /\ Known(q)
  /\ Begin(t, q, "lock")
  /\ todo' = [todo EXCEPT ![t] = RowsToLock]
  /\ UNCHANGED <<rowVars, holds, shares, seen>>

\* Mutation: the lock is FOR NO KEY UPDATE, which lets references be added.
LockMembershipBesideShares(t) ==
  /\ place[t] = "lock"
  /\ \E m \in todo[t] :
       /\ \A n \in todo[t] : m <= n
       /\ ~HeldByOther(t, m)
       /\ todo' = [todo EXCEPT ![t] = @ \ {m}]
       /\ holds' = [holds EXCEPT ![t] = @ \cup (IF Present(m) THEN {m} ELSE {})]
  /\ UNCHANGED <<rowVars, place, request, shares, seen>>

\* Mutation: no ORDER BY.
LockMembershipInAnyOrder(t) ==
  /\ place[t] = "lock"
  /\ \E m \in todo[t] :
       /\ ~HeldByOther(t, m) /\ ~SharedByOther(t, m)
       /\ todo' = [todo EXCEPT ![t] = @ \ {m}]
       /\ holds' = [holds EXCEPT ![t] = @ \cup (IF Present(m) THEN {m} ELSE {})]
  /\ UNCHANGED <<rowVars, place, request, shares, seen>>

\* A row that was deleted while this transaction waited is passed over.
LockMembership(t) ==
  /\ place[t] = "lock"
  /\ \E m \in todo[t] :
       /\ \A n \in todo[t] : m <= n
       /\ ~HeldByOther(t, m) /\ ~SharedByOther(t, m)
       /\ todo' = [todo EXCEPT ![t] = @ \ {m}]
       /\ holds' = [holds EXCEPT ![t] = @ \cup (IF Present(m) THEN {m} ELSE {})]
  /\ UNCHANGED <<rowVars, place, request, shares, seen>>

Locked(t) == place[t] = "lock" /\ todo[t] = {}

ByOwner(t) == role[request[t].actor] = "OWNER"

-----------------------------------------------------------------------------
(* updateMemberRole and removeMember.                                      *)

Demotes(q) == q.op = "removeMember" \/ q.role = "AGENT"

OnlyOwner(m) ==
  role[m] = "OWNER" /\ \A o \in Members \ {m} : role[o] # "OWNER"

ReadMembership(t) ==
  /\ Locked(t)
  /\ request[t] \in MemberRequests
  /\ LET q == request[t] IN
       IF /\ ByOwner(t) /\ Present(q.target) /\ q.target # q.actor
          /\ Demotes(q) => ~OnlyOwner(q.target)
         THEN /\ Goto(t, IF q.op = "removeMember" THEN "unassign" ELSE "setRole")
              /\ UNCHANGED <<rowVars, todo, holds>>
         ELSE Rollback(t)

SetRole(t) ==
  /\ place[t] = "setRole"
  /\ role' = [role EXCEPT ![request[t].target] = request[t].role]
  /\ End(t)
  /\ UNCHANGED <<assignee, invite, invitedBy>>

\* conversation.updateMany finds the rows, then locks those that still match,
\* one by one.
FindAssigned(t) ==
  /\ place[t] = "unassign"
  /\ todo' = [todo EXCEPT ![t] =
                {c \in Conversations : assignee[c] = request[t].target}]
  /\ Goto(t, "clear")
  /\ UNCHANGED <<rowVars, holds>>

ClearAssigned(t) ==
  /\ place[t] = "clear"
  /\ \E c \in todo[t] :
       /\ ~HeldByOther(t, c)
       /\ todo' = [todo EXCEPT ![t] = @ \ {c}]
       /\ holds' = [holds EXCEPT ![t] =
            IF assignee[c] = request[t].target THEN @ \cup {c} ELSE @]
  /\ UNCHANGED <<rowVars, place, request, shares, seen>>

\* ON DELETE RESTRICT of assignedMembershipId.
Referenced(t) ==
  \E c \in Conversations \ holds[t] : assignee[c] = request[t].target

\* membership.delete: RESTRICT refuses it, or it takes the invitations the
\* member has created with it (ON DELETE CASCADE).
DeleteMembership(t) ==
  /\ place[t] = "clear" /\ todo[t] = {}
  /\ LET gone == {i \in Invites : invitedBy[i] = request[t].target} IN
       /\ \A i \in gone : ~HeldByOther(t, i)
       /\ IF Referenced(t)
            THEN UNCHANGED rowVars
            ELSE /\ role' = [role EXCEPT ![request[t].target] = "removed"]
                 /\ assignee' = [c \in Conversations |->
                      IF assignee[c] = request[t].target
                        THEN Nobody ELSE assignee[c]]
                 /\ invite' = [i \in Invites |->
                      IF i \in gone THEN invite[i] \cup {"deleted"}
                                    ELSE invite[i]]
                 /\ UNCHANGED invitedBy
  /\ End(t)

-----------------------------------------------------------------------------
(* createInvite and revokeInvite.                                          *)

ReadActor(t) ==
  /\ Locked(t)
  /\ request[t].op = "createInvite"
  /\ IF ByOwner(t) THEN Goto(t, "expire") /\ UNCHANGED <<rowVars, todo, holds>>
                   ELSE Rollback(t)

SameInvitee(i) == {j \in Invites : Invitee[j] = Invitee[i]}

\* invitation.updateMany revokes what is pending and expired.
RevokeExpired(t) ==
  /\ place[t] = "expire"
  /\ LET old == {j \in SameInvitee(request[t].invite) : Pending(j) /\ ~Valid(j)}
     IN  /\ \A j \in old : ~HeldByOther(t, j)
         /\ holds' = [holds EXCEPT ![t] = @ \cup old]
  /\ Goto(t, "check")
  /\ UNCHANGED <<rowVars, todo>>

CheckOutsider(t) ==
  /\ place[t] = "check"
  /\ IF Present(Invitee[request[t].invite])
       THEN Rollback(t)
       ELSE Goto(t, "insert") /\ UNCHANGED <<rowVars, todo, holds>>

InsertInvite(t) ==
  /\ place[t] = "insert"
  /\ LET i == request[t].invite IN
       IF \E j \in SameInvitee(i) \ holds[t] : Pending(j)
         THEN Rollback(t)
         ELSE /\ invite' = [j \in Invites |->
                   IF j = i THEN {"created"}
                   ELSE IF j \in holds[t] THEN invite[j] \cup {"revoked"}
                   ELSE invite[j]]
              /\ invitedBy' = [invitedBy EXCEPT ![i] = request[t].actor]
              /\ End(t)
              /\ UNCHANGED <<role, assignee>>

ReadInvite(t) ==
  /\ Locked(t)
  /\ request[t].op = "revokeInvite"
  /\ IF ByOwner(t) /\ Pending(request[t].invite)
       THEN Goto(t, "revoke") /\ UNCHANGED <<rowVars, todo, holds>>
       ELSE Rollback(t)

\* An update by id, whatever the row holds by now.
RevokeInvite(t) ==
  /\ place[t] = "revoke"
  /\ ~HeldByOther(t, request[t].invite)
  /\ invite' = [invite EXCEPT ![request[t].invite] = @ \cup {"revoked"}]
  /\ End(t)
  /\ UNCHANGED <<role, assignee, invitedBy>>

Expire(i) ==
  /\ Valid(i)
  /\ invite' = [invite EXCEPT ![i] = @ \cup {"expired"}]
  /\ UNCHANGED <<role, assignee, invitedBy, slotVars>>

-----------------------------------------------------------------------------
(* acceptInvite, for a user who proves who they are; it takes no membership *)
(* lock.  The User row it creates for a newcomer is not modelled.          *)

BeginAccept(t, q) ==
  /\ Valid(q.invite)
  /\ Begin(t, q, "accept")
  /\ UNCHANGED <<rowVars, todo, holds, shares, seen>>

\* Mutation: the update does not repeat the conditions of the read.
AcceptInviteById(t) ==
  /\ place[t] = "accept"
  /\ ~HeldByOther(t, request[t].invite)
  /\ holds' = [holds EXCEPT ![t] = @ \cup {request[t].invite}]
  /\ Goto(t, "join") /\ UNCHANGED <<rowVars, todo>>

\* The conditional update of the invitation.
AcceptInvite(t) ==
  /\ place[t] = "accept"
  /\ ~HeldByOther(t, request[t].invite)
  /\ IF Valid(request[t].invite)
       THEN /\ holds' = [holds EXCEPT ![t] = @ \cup {request[t].invite}]
            /\ Goto(t, "join") /\ UNCHANGED <<rowVars, todo>>
       ELSE Rollback(t)

\* membership.upsert.  Bound: a removed member, who would come back under a
\* new id, does not come back.
Join(t) ==
  /\ place[t] = "join"
  /\ LET i == request[t].invite
         m == Invitee[i]
     IN  /\ role[m] # "removed"
         /\ role' = [role EXCEPT ![m] =
                       IF @ = "absent" THEN InvitedRole[i] ELSE @]
         /\ invite' = [invite EXCEPT ![i] = @ \cup {"accepted"}]
  /\ End(t)
  /\ UNCHANGED <<assignee, invitedBy>>

-----------------------------------------------------------------------------
(* assignConversation.                                                     *)

BeginAssign(t, q) ==
  /\ q.target # Nobody => Present(q.target)
  /\ assignee[q.conversation] # q.target
  /\ Begin(t, q, "update")
  /\ seen' = [seen EXCEPT ![t] = assignee[q.conversation]]
  /\ UNCHANGED <<rowVars, todo, holds, shares>>

\* conversation.updateMany; without a match the request changes nothing.
UpdateAssignee(t) ==
  /\ place[t] = "update"
  /\ ~HeldByOther(t, request[t].conversation)
  /\ IF assignee[request[t].conversation] = seen[t]
       THEN /\ holds' = [holds EXCEPT ![t] = @ \cup {request[t].conversation}]
            /\ Goto(t, IF request[t].target = Nobody THEN "commit"
                                                     ELSE "reference")
            /\ UNCHANGED <<rowVars, todo>>
       ELSE Rollback(t)

\* Mutation: assignedMembershipId is a plain column.
NoReferenceCheck(t) ==
  /\ place[t] = "reference"
  /\ Goto(t, "commit")
  /\ UNCHANGED <<rowVars, todo, holds>>

\* The foreign key locks the membership FOR KEY SHARE, or fails.
CheckReference(t) ==
  /\ place[t] = "reference"
  /\ ~HeldByOther(t, request[t].target)
  /\ IF Present(request[t].target)
       THEN /\ place' = [place EXCEPT ![t] = "commit"]
            /\ shares' = [shares EXCEPT ![t] = @ \cup {request[t].target}]
            /\ UNCHANGED <<rowVars, request, todo, holds, seen>>
       ELSE Rollback(t)

CommitAssignee(t) ==
  /\ place[t] = "commit"
  /\ assignee' = [assignee EXCEPT ![request[t].conversation] = request[t].target]
  /\ End(t)
  /\ UNCHANGED <<role, invite, invitedBy>>

-----------------------------------------------------------------------------
TeamStep(t) ==
  \/ \E q \in TeamRequests : BeginTeamRequest(t, q)
  \/ LockMembership(t)
  \/ ReadMembership(t) \/ SetRole(t)
  \/ FindAssigned(t) \/ ClearAssigned(t) \/ DeleteMembership(t)
  \/ ReadActor(t) \/ RevokeExpired(t) \/ CheckOutsider(t) \/ InsertInvite(t)
  \/ ReadInvite(t) \/ RevokeInvite(t)

AcceptStep(t) ==
  \/ \E q \in AcceptRequests : BeginAccept(t, q)
  \/ AcceptInvite(t) \/ Join(t)

AssignStep(t) ==
  \/ \E q \in AssignRequests : BeginAssign(t, q)
  \/ UpdateAssignee(t) \/ CheckReference(t) \/ CommitAssignee(t)

Next ==
  \/ \E t \in Slots : TeamStep(t) \/ AcceptStep(t) \/ AssignStep(t) \/ Fail(t)
  \/ \E i \in Invites : Expire(i)

Spec == Init /\ [][Next]_vars

-----------------------------------------------------------------------------
(* Properties.                                                             *)

\* The organization never loses its last owner, however removals and role
\* changes by several owners race with each other and with new members.
LastOwnerStays == \E m \in Members : role[m] = "OWNER"

\* A member is only removed or given another role by someone who is an owner
\* at the moment it happens, not merely when the request was checked.
OwnersDecide ==
  [][\A m \in Members :
       (Present(m) /\ role'[m] # role[m]) =>
         \E t \in Slots : /\ request[t] \in MemberRequests
                          /\ request[t].target = m
                          /\ ByOwner(t)]_vars

\* No conversation is assigned to a member who has been removed.
AssigneeIsMember ==
  \A c \in Conversations : assignee[c] # Nobody => Present(assignee[c])

\* Unassigning first is enough: no removal is refused because a conversation
\* was assigned to the member between the two statements (schema.prisma: "app
\* must unassign before removing a member").
RemovalIsNotRefused ==
  \A t \in Slots : place[t] = "clear" /\ todo[t] = {} => ~Referenced(t)

\* Two requests that lock the memberships never wait for each other.
LockersDoNotDeadlock ==
  \A t, u \in {s \in Slots : place[s] = "lock"} :
    ~(todo[t] \cap holds[u] # {} /\ todo[u] \cap holds[t] # {})

\* Only an invitation that is still pending makes anyone a member, although
\* acceptInvite reads it long before it uses it, and it is then used up.
AdmittedByValidInvite ==
  [][\A m \in Members :
       (role[m] = "absent" /\ role'[m] # "absent") =>
         \E i \in Invites : /\ Invitee[i] = m /\ InvitedRole[i] = role'[m]
                            /\ Pending(i) /\ "accepted" \in invite'[i]]_vars
=============================================================================
