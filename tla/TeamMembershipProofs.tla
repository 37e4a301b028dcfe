------------------------- MODULE TeamMembershipProofs -------------------------
(* Proofs about TeamMembership, for every organization and any number of    *)
(* requests at a time.                                                      *)
EXTENDS TeamMembership, TLAPS

Step(t) == TeamStep(t) \/ AcceptStep(t) \/ AssignStep(t) \/ Fail(t)

(* What a request carries.                                                  *)
LEMMA RequestFields ==
  /\ \A q \in MemberRequests :
       /\ q \in TeamRequests /\ q.actor \in Members /\ q.target \in Members
       /\ q.op # "removeMember" => q.op = "updateMemberRole" /\ q.role \in Role
       /\ q.op # "updateMemberRole" => q.op = "removeMember"
  /\ \A q \in InviteRequests :
       /\ q \in TeamRequests /\ q.actor \in Members /\ q.invite \in Invites
       /\ q.op \in {"createInvite", "revokeInvite"}
  /\ \A q \in AssignRequests :
       /\ q.conversation \in Conversations
       /\ q.target \in Members \cup {Nobody}
  /\ \A q \in AcceptRequests : q.invite \in Invites
  /\ \A q \in TeamRequests :
       /\ q \in MemberRequests \/ q \in InviteRequests
       /\ q.op \in {"createInvite", "revokeInvite"} => q \in InviteRequests
  BY DEF MemberRequests, InviteRequests, AssignRequests, AcceptRequests,
     TeamRequests

(* What a request at each statement is.                                     *)
Fits(t) ==
  /\ place[t] = "lock" => request[t] \in TeamRequests
  /\ place[t] = "setRole" =>
       request[t] \in MemberRequests /\ request[t].op = "updateMemberRole"
  /\ place[t] \in {"unassign", "clear"} =>
       request[t] \in MemberRequests /\ request[t].op = "removeMember"
  /\ place[t] \in {"expire", "check", "insert", "revoke"} =>
       request[t] \in InviteRequests
  /\ place[t] \in {"accept", "join"} => request[t] \in AcceptRequests
  /\ place[t] \in {"update", "reference", "commit"} =>
       request[t] \in AssignRequests
  /\ place[t] = "reference" => request[t].target # Nobody

Parties(t) == {request[t].actor, request[t].target}

\* Until they are locked, the two members a request is about are among the
\* rows to lock, unless they have been removed; from then on they are locked,
\* and the actor is an owner.
PartiesLocked(t) ==
  /\ place[t] = "lock" /\ request[t] \in MemberRequests =>
       \A m \in Parties(t) :
         /\ role[m] # "absent"
         /\ m \in todo[t] \cup holds[t] \/ role[m] = "removed"
  /\ place[t] \in {"unassign", "clear", "setRole"} =>
       /\ Parties(t) \subseteq holds[t]
       /\ request[t].actor # request[t].target
       /\ ByOwner(t)

\* A membership row that is locked is there.
LockedArePresent(t) == \A m \in holds[t] \cap Members : Present(m)

\* The memberships are locked in the order of their ids.
LockedInOrder(t) ==
  /\ place[t] = "idle" => holds[t] = {}
  /\ place[t] = "lock" =>
       /\ todo[t] \subseteq Members /\ holds[t] \subseteq Members
       /\ \A m \in holds[t], n \in todo[t] : m < n

\* A conversation is only given to a member whose row is locked, so that it
\* stays there.
TargetStays(t) ==
  place[t] = "commit" /\ request[t].target # Nobody =>
    request[t].target \in shares[t] /\ Present(request[t].target)

\* A removal has locked, or will lock, each conversation of its member.
ToUnassign(t) ==
  place[t] = "clear" =>
    /\ todo[t] \subseteq Conversations
    /\ \A c \in Conversations :
         assignee[c] = request[t].target => c \in todo[t] \cup holds[t]

SlotInv(t) == Fits(t) /\ PartiesLocked(t) /\ LockedArePresent(t)
                /\ LockedInOrder(t) /\ TargetStays(t) /\ ToUnassign(t)

\* Row locks exclude each other, and exclude locks FOR KEY SHARE.
LocksExclude ==
  \A t, u \in Slots : t # u => /\ holds[t] \cap holds[u] = {}
                               /\ holds[t] \cap shares[u] = {}

TeamInv ==
  /\ TypeOK
  /\ \A t \in Slots : SlotInv(t)
  /\ LocksExclude
  /\ LastOwnerStays
  /\ AssigneeIsMember

LEMMA InitInv == Init => TeamInv
  BY TeamAssumption
     DEF Init, TeamInv, TypeOK, SlotInv, Fits, PartiesLocked, LockedInOrder,
         LockedArePresent, TargetStays, ToUnassign, LocksExclude,
         LastOwnerStays, AssigneeIsMember

-----------------------------------------------------------------------------
(* What one step of a slot may do to the rest.                              *)

\* A membership row changes when it is created, or under its lock.
RolesFrom(t) ==
  \A m \in Members :
    \/ role'[m] = role[m]
    \/ role[m] = "absent" /\ role'[m] \in Role
    \/ /\ place[t] = "setRole" /\ m = request[t].target /\ role'[m] \in Role
    \/ /\ place[t] = "clear" /\ todo[t] = {} /\ ~Referenced(t)
       /\ m = request[t].target /\ role'[m] = "removed"
       /\ \A c \in Conversations : assignee'[c] # m

AssigneesFrom(t) ==
  \A c \in Conversations :
    \/ assignee'[c] \in {assignee[c], Nobody}
    \/ place[t] = "commit" /\ assignee'[c] = request[t].target

OthersAlone(t) ==
  \A u \in Slots \ {t} :
    /\ place'[u] = place[u] /\ request'[u] = request[u]
    /\ todo'[u] = todo[u] /\ holds'[u] = holds[u] /\ shares'[u] = shares[u]

LocksFrom(t) ==
  /\ \A x \in holds'[t] : \/ x \in holds[t]
                          \/ ~HeldByOther(t, x) /\ ~SharedByOther(t, x)
  /\ \A x \in shares'[t] : x \in shares[t] \/ ~HeldByOther(t, x)

Effect(t) == RolesFrom(t) /\ AssigneesFrom(t) /\ OthersAlone(t) /\ LocksFrom(t)

(* The rest of the invariant survives such a step.                          *)
LEMMA OthersKeep ==
  ASSUME TeamInv, NEW t \in Slots, Effect(t), TypeOK'
  PROVE  /\ \A u \in Slots \ {t} : SlotInv(u)'
         /\ LocksExclude' /\ LastOwnerStays' /\ AssigneeIsMember'
<1>1. /\ SlotInv(t) /\ Nobody \notin Members
      /\ shares[t] \subseteq Members
      /\ role \in [Members -> Role \cup {"absent", "removed"}]
  BY TeamAssumption DEF TeamInv, TypeOK
\* Who loses a role is locked by t, on the order of an owner who keeps theirs.
<1>2. ASSUME NEW m \in Members, Present(m), role'[m] # role[m]
      PROVE  /\ m \in holds[t] /\ place[t] \in {"setRole", "clear"}
             /\ m = request[t].target /\ request[t].actor # m
             /\ request[t].actor \in Members /\ ByOwner(t)
  BY <1>1, <1>2, RequestFields
     DEF SlotInv, Fits, PartiesLocked, Parties, Present, Role, Effect, RolesFrom
<1>3. ASSUME NEW u \in Slots \ {t} PROVE SlotInv(u)'
  <2>1. /\ SlotInv(u) /\ u \in Slots /\ u # t
        /\ place'[u] = place[u] /\ request'[u] = request[u]
        /\ todo'[u] = todo[u] /\ holds'[u] = holds[u] /\ shares'[u] = shares[u]
    BY DEF TeamInv, Effect, OthersAlone
  <2>2. \A m \in Members : Present(m) /\ m \in holds[u] \cup shares[u] =>
          role'[m] = role[m]
    BY <1>2, <2>1 DEF TeamInv, LocksExclude
  <2>3. Fits(u)' /\ LockedInOrder(u)'
    BY <2>1 DEF SlotInv, Fits, LockedInOrder
  <2>4. PartiesLocked(u)'
    <3>1. \A m \in Members :
            /\ role[m] # "absent" => role'[m] # "absent"
            /\ role[m] = "removed" => role'[m] = "removed"
      BY <1>1, RequestFields
         DEF Effect, RolesFrom, SlotInv, Fits, PartiesLocked, Parties,
             LockedArePresent, Present, Role
    <3>2. CASE place[u] = "lock" /\ request[u] \in MemberRequests
      BY <2>1, <3>1, <3>2, RequestFields DEF SlotInv, PartiesLocked, Parties
    <3>3. CASE place[u] \in {"unassign", "clear", "setRole"}
      BY <2>1, <2>2, <3>3, RequestFields
         DEF SlotInv, Fits, PartiesLocked, Parties, ByOwner, Present, Role
    <3>4. QED
      BY <2>1, <3>2, <3>3 DEF PartiesLocked
  <2>5. TargetStays(u)'
    BY <1>1, <2>1, <2>2, RequestFields DEF SlotInv, Fits, TargetStays, Present
  <2>6. ToUnassign(u)'
    <3>1. ASSUME place[u] = "clear", NEW c \in Conversations,
                 assignee'[c] = request[u].target
          PROVE  assignee[c] = request[u].target
      <4>1. request[u].target \in Members /\ request[u].target \in holds[u]
        BY <2>1, <3>1, RequestFields DEF SlotInv, Fits, PartiesLocked, Parties
      <4>2. ~(place[t] = "commit" /\ request[t].target = request[u].target)
        BY <1>1, <2>1, <4>1 DEF SlotInv, TargetStays, TeamInv, LocksExclude
      <4>3. QED
        BY <1>1, <3>1, <4>1, <4>2 DEF Effect, AssigneesFrom
    <3>2. QED
      BY <2>1, <3>1 DEF SlotInv, ToUnassign
  <2>7. LockedArePresent(u)'
    BY <2>1, <2>2 DEF SlotInv, LockedArePresent, Present
  <2>8. QED
    BY <2>3, <2>4, <2>5, <2>6, <2>7 DEF SlotInv
<1>4. LocksExclude'
  BY DEF TeamInv, LocksExclude, Effect, OthersAlone, LocksFrom, HeldByOther,
     SharedByOther
<1>5. LastOwnerStays'
  <2>1. PICK o \in Members : role[o] = "OWNER"
    BY DEF TeamInv, LastOwnerStays
  <2>2. CASE role'[o] = role[o]
    BY <2>1, <2>2 DEF LastOwnerStays
  <2>3. CASE role'[o] # role[o]
    <3> DEFINE a == request[t].actor
    <3>1. a \in Members /\ role[a] = "OWNER" /\ a # request[t].target
      BY <1>2, <2>1, <2>3 DEF Present, Role, ByOwner
    <3>2. role'[a] = "OWNER"
      BY <1>2, <3>1 DEF Present, Role
    <3>3. QED
      BY <3>1, <3>2 DEF LastOwnerStays
  <2>4. QED
    BY <2>2, <2>3
<1>6. AssigneeIsMember'
  <2> SUFFICES ASSUME NEW c \in Conversations, assignee'[c] # Nobody
               PROVE  role'[assignee'[c]] \in Role
    BY DEF AssigneeIsMember, Present
  <2>1. assignee'[c] \in Members
    BY DEF TypeOK
  <2>2. Present(assignee'[c])
    BY <1>1 DEF TeamInv, AssigneeIsMember, Effect, AssigneesFrom, SlotInv,
       TargetStays
  <2>3. QED
    BY <2>1, <2>2 DEF Present, Effect, RolesFrom, Role
<1>7. QED
  BY <1>3, <1>4, <1>5, <1>6

(* What one step of a slot does to the rest, and the invariant it restores  *)
(* in its own slot.                                                         *)
Own(t) == Effect(t) /\ TypeOK' /\ SlotInv(t)'

LEMMA RollbackOwn ==
  ASSUME TeamInv, NEW t \in Slots, Rollback(t)
  PROVE  Own(t)
<1>1. TypeOK /\ t \in Slots
  BY DEF TeamInv
<1>2. TypeOK'
  BY <1>1 DEF TypeOK, Rollback, End, rowVars
<1>3. Effect(t)
  BY <1>1 DEF TypeOK, Rollback, End, rowVars, Effect, RolesFrom, AssigneesFrom,
     OthersAlone,
     LocksFrom
<1>4. SlotInv(t)'
  BY <1>1 DEF TypeOK, Rollback, End, SlotInv, Fits, PartiesLocked,
     LockedArePresent, LockedInOrder, TargetStays, ToUnassign
<1>5. QED
  BY <1>2, <1>3, <1>4 DEF Own

LEMMA BeginOwn ==
  ASSUME TeamInv, NEW t \in Slots,
         \/ \E q \in TeamRequests : BeginTeamRequest(t, q)
         \/ \E q \in AcceptRequests : BeginAccept(t, q)
         \/ \E q \in AssignRequests : BeginAssign(t, q)
  PROVE  Own(t)
<1>1. TypeOK /\ t \in Slots /\ SlotInv(t)
  BY DEF TeamInv
<1>2. ASSUME NEW q \in TeamRequests, BeginTeamRequest(t, q)
      PROVE  Own(t)
  <2>1. TypeOK'
    BY <1>1, <1>2 DEF TypeOK, BeginTeamRequest, Begin, RowsToLock, Rows,
       rowVars
  <2>2. Effect(t)
    BY <1>1, <1>2 DEF TypeOK, BeginTeamRequest, Begin, rowVars, Effect,
       RolesFrom,
       AssigneesFrom, OthersAlone, LocksFrom
  <2>3. /\ place'[t] = "lock" /\ request'[t] = q /\ holds'[t] = {}
        /\ todo'[t] = RowsToLock /\ role' = role
    BY <1>1, <1>2 DEF TypeOK, BeginTeamRequest, Begin, rowVars, SlotInv,
       LockedInOrder
  <2>4. PartiesLocked(t)'
    <3> SUFFICES ASSUME q \in MemberRequests, NEW m \in {q.actor, q.target}
                 PROVE  /\ role[m] # "absent"
                        /\ m \in RowsToLock \/ role[m] = "removed"
      BY <2>3 DEF PartiesLocked, Parties
    <3>1. role[m] # "absent" /\ m \in Members
      BY <1>2, RequestFields DEF BeginTeamRequest, Known
    <3>2. QED
      BY <1>1, <3>1 DEF TypeOK, RowsToLock, Present
  <2>5. SlotInv(t)'
    BY <2>3, <2>4 DEF SlotInv, Fits, LockedArePresent, LockedInOrder,
       TargetStays, ToUnassign, RowsToLock
  <2>6. QED
    BY <2>1, <2>2, <2>5 DEF Own
<1>3. ASSUME NEW q \in AcceptRequests, BeginAccept(t, q)
      PROVE  Own(t)
  <2>1. TypeOK'
    BY <1>1, <1>3 DEF TypeOK, BeginAccept, Begin, rowVars
  <2>2. Effect(t)
    BY <1>1, <1>3 DEF TypeOK, BeginAccept, Begin, rowVars, Effect, RolesFrom,
       AssigneesFrom, OthersAlone, LocksFrom
  <2>3. SlotInv(t)'
    BY <1>1, <1>3 DEF TypeOK, BeginAccept, Begin, rowVars, SlotInv, Fits,
       PartiesLocked, LockedArePresent, LockedInOrder, TargetStays, ToUnassign
  <2>4. QED
    BY <2>1, <2>2, <2>3 DEF Own
<1>4. ASSUME NEW q \in AssignRequests, BeginAssign(t, q)
      PROVE  Own(t)
  <2>1. TypeOK'
    BY <1>1, <1>4, RequestFields DEF TypeOK, BeginAssign, Begin, rowVars
  <2>2. Effect(t)
    BY <1>1, <1>4 DEF TypeOK, BeginAssign, Begin, rowVars, Effect, RolesFrom,
       AssigneesFrom, OthersAlone, LocksFrom
  <2>3. SlotInv(t)'
    BY <1>1, <1>4 DEF TypeOK, BeginAssign, Begin, rowVars, SlotInv, Fits,
       PartiesLocked, LockedArePresent, LockedInOrder, TargetStays, ToUnassign
  <2>4. QED
    BY <2>1, <2>2, <2>3 DEF Own
<1>5. QED
  BY <1>2, <1>3, <1>4

LEMMA LockMembershipOwn ==
  ASSUME TeamInv, NEW t \in Slots, LockMembership(t)
  PROVE  Own(t)
<1>1. TypeOK /\ t \in Slots /\ SlotInv(t) /\ Members \subseteq Nat
  BY TeamAssumption DEF TeamInv
<1>2. PICK m \in todo[t] :
        /\ \A n \in todo[t] : m <= n
        /\ ~HeldByOther(t, m) /\ ~SharedByOther(t, m)
        /\ todo' = [todo EXCEPT ![t] = @ \ {m}]
        /\ holds' = [holds EXCEPT ![t] =
                       @ \cup (IF Present(m) THEN {m} ELSE {})]
  BY DEF LockMembership
<1>3. /\ place[t] = "lock" /\ UNCHANGED <<rowVars, place, request, shares, seen>>
      /\ m \in Members /\ todo[t] \subseteq Members /\ holds[t] \subseteq Members
  BY <1>1 DEF LockMembership, SlotInv, LockedInOrder
<1>4. TypeOK'
  BY <1>1, <1>2, <1>3 DEF TypeOK, rowVars
<1>5. Effect(t)
  BY <1>1, <1>2, <1>3 DEF TypeOK, rowVars, Effect, RolesFrom, AssigneesFrom,
     OthersAlone, LocksFrom
<1>6. /\ todo'[t] = todo[t] \ {m}
      /\ holds'[t] = holds[t] \cup (IF Present(m) THEN {m} ELSE {})
  BY <1>1, <1>2 DEF TypeOK
<1>7. LockedInOrder(t)'
  <2>1. ASSUME NEW n \in todo'[t] PROVE m < n
    <3>1. n \in todo[t] /\ n # m /\ n \in Nat /\ m \in Nat
      BY <1>1, <1>3, <1>6
    <3>2. m <= n
      BY <1>2, <3>1
    <3>3. QED
      BY <3>1, <3>2
  <2>2. \A o \in holds[t], n \in todo[t] : o < n
    BY <1>1, <1>3 DEF SlotInv, LockedInOrder
  <2>3. \A o \in holds'[t], n \in todo'[t] : o < n
    BY <1>6, <2>1, <2>2
  <2>4. QED
    BY <1>3, <1>6, <2>3 DEF LockedInOrder
<1>8. LockedArePresent(t)'
  BY <1>1, <1>3, <1>6 DEF SlotInv, LockedArePresent, Present, rowVars
<1>9. PartiesLocked(t)'
  <2>1. Present(m) \/ role[m] = "absent" \/ role[m] = "removed"
    BY <1>1, <1>3 DEF TypeOK, Present
  <2>2. QED
    BY <1>1, <1>3, <1>6, <2>1 DEF SlotInv, PartiesLocked, Parties, rowVars
<1>10. SlotInv(t)'
  BY <1>1, <1>3, <1>7, <1>8, <1>9 DEF SlotInv, Fits, TargetStays, ToUnassign
<1>11. QED
  BY <1>4, <1>5, <1>10 DEF Own

LEMMA ReadMembershipOwn ==
  ASSUME TeamInv, NEW t \in Slots, ReadMembership(t)
  PROVE  Own(t)
<1>1. TypeOK /\ t \in Slots /\ SlotInv(t) /\ request[t] \in MemberRequests
  BY DEF TeamInv, ReadMembership
<1>2. CASE Rollback(t)
  BY <1>2, RollbackOwn
<1>3. CASE ~Rollback(t)
  <2> DEFINE q == request[t]
             next == IF q.op = "removeMember" THEN "unassign" ELSE "setRole"
  <2>1. /\ place[t] = "lock" /\ todo[t] = {} /\ ByOwner(t)
        /\ Present(q.target) /\ q.target # q.actor
        /\ place' = [place EXCEPT ![t] = next]
        /\ UNCHANGED <<rowVars, todo, holds, request, shares, seen>>
    BY <1>3 DEF ReadMembership, Locked, Goto
  <2>2. TypeOK'
    BY <1>1, <2>1 DEF TypeOK, rowVars
  <2>3. Effect(t)
    BY <1>1, <2>1 DEF TypeOK, rowVars, Effect, RolesFrom, AssigneesFrom,
       OthersAlone, LocksFrom
  <2>4. place'[t] = next
    BY <1>1, <2>1 DEF TypeOK
  <2>5. Parties(t) \subseteq holds[t]
    BY <1>1, <2>1 DEF SlotInv, PartiesLocked, Parties, ByOwner, Present, Role
  <2>6. PartiesLocked(t)'
    BY <2>1, <2>4, <2>5 DEF PartiesLocked, Parties, ByOwner, rowVars
  <2>7. SlotInv(t)'
    BY <1>1, <2>1, <2>4, <2>6, RequestFields
       DEF SlotInv, Fits, LockedArePresent, LockedInOrder, TargetStays,
           ToUnassign, Present, rowVars
  <2>8. QED
    BY <2>2, <2>3, <2>7 DEF Own
<1>4. QED
  BY <1>2, <1>3

LEMMA SetRoleOwn ==
  ASSUME TeamInv, NEW t \in Slots, SetRole(t)
  PROVE  Own(t)
<1>1. /\ TypeOK /\ t \in Slots /\ SlotInv(t) /\ place[t] = "setRole"
      /\ request[t].target \in Members /\ request[t].role \in Role
  BY RequestFields DEF TeamInv, SetRole, SlotInv, Fits
<1>2. TypeOK'
  BY <1>1 DEF TypeOK, SetRole, End
<1>3. Effect(t)
  BY <1>1 DEF TypeOK, SetRole, End, Effect, RolesFrom, AssigneesFrom,
     OthersAlone, LocksFrom
<1>4. SlotInv(t)'
  BY <1>1 DEF TypeOK, SetRole, End, SlotInv, Fits, PartiesLocked,
     LockedArePresent, LockedInOrder, TargetStays, ToUnassign
<1>5. QED
  BY <1>2, <1>3, <1>4 DEF Own

LEMMA FindAssignedOwn ==
  ASSUME TeamInv, NEW t \in Slots, FindAssigned(t)
  PROVE  Own(t)
<1>1. TypeOK /\ t \in Slots /\ SlotInv(t)
  BY DEF TeamInv
<1>2. TypeOK'
  BY <1>1 DEF TypeOK, FindAssigned, Goto, rowVars, Rows
<1>3. Effect(t)
  BY <1>1 DEF TypeOK, FindAssigned, Goto, rowVars, Effect, RolesFrom,
     AssigneesFrom, OthersAlone, LocksFrom
<1>4. SlotInv(t)'
  BY <1>1 DEF TypeOK, FindAssigned, Goto, rowVars, SlotInv, Fits,
     PartiesLocked, Parties, ByOwner, LockedArePresent, LockedInOrder,
     TargetStays, ToUnassign, Present
<1>5. QED
  BY <1>2, <1>3, <1>4 DEF Own

LEMMA ClearAssignedOwn ==
  ASSUME TeamInv, NEW t \in Slots, ClearAssigned(t)
  PROVE  Own(t)
<1>1. /\ TypeOK /\ t \in Slots /\ SlotInv(t) /\ place[t] = "clear"
      /\ UNCHANGED <<rowVars, place, request, shares, seen>>
      /\ request[t] \in MemberRequests
  BY DEF TeamInv, ClearAssigned, SlotInv, Fits
<1>2. PICK c \in todo[t] :
        /\ ~HeldByOther(t, c)
        /\ todo' = [todo EXCEPT ![t] = @ \ {c}]
        /\ holds' = [holds EXCEPT ![t] =
             IF assignee[c] = request[t].target THEN @ \cup {c} ELSE @]
  BY DEF ClearAssigned
<1>3. c \in Conversations /\ c \notin Members /\ ~SharedByOther(t, c)
  BY <1>1, <1>2, TeamAssumption DEF TypeOK, SlotInv, ToUnassign, SharedByOther
<1>4. TypeOK'
  BY <1>1, <1>2, <1>3 DEF TypeOK, rowVars, Rows
<1>5. Effect(t)
  BY <1>1, <1>2, <1>3 DEF TypeOK, rowVars, Effect, RolesFrom, AssigneesFrom,
     OthersAlone, LocksFrom
<1>6. /\ todo'[t] = todo[t] \ {c}
      /\ holds'[t] = IF assignee[c] = request[t].target
                       THEN holds[t] \cup {c} ELSE holds[t]
  BY <1>1, <1>2 DEF TypeOK
<1>7. SlotInv(t)'
  BY <1>1, <1>3, <1>6
     DEF SlotInv, Fits, PartiesLocked, Parties, ByOwner, LockedArePresent,
         LockedInOrder, TargetStays, ToUnassign, Present, rowVars
<1>8. QED
  BY <1>4, <1>5, <1>7 DEF Own

LEMMA DeleteMembershipOwn ==
  ASSUME TeamInv, NEW t \in Slots, DeleteMembership(t)
  PROVE  Own(t)
<1>1. /\ TypeOK /\ t \in Slots /\ SlotInv(t) /\ place[t] = "clear"
      /\ todo[t] = {} /\ request[t].target \in Members
  BY RequestFields DEF TeamInv, DeleteMembership, SlotInv, Fits
<1>2. CASE Referenced(t)
  BY <1>2, RollbackOwn DEF DeleteMembership, Rollback
<1>3. CASE ~Referenced(t)
  <2> DEFINE gone == {i \in Invites : invitedBy[i] = request[t].target}
  <2>1. /\ role' = [role EXCEPT ![request[t].target] = "removed"]
        /\ assignee' = [c \in Conversations |->
             IF assignee[c] = request[t].target THEN Nobody ELSE assignee[c]]
        /\ invite' = [i \in Invites |->
             IF i \in gone THEN invite[i] \cup {"deleted"} ELSE invite[i]]
        /\ UNCHANGED invitedBy /\ End(t)
    BY <1>3 DEF DeleteMembership
  <2>2. TypeOK'
    BY <1>1, <2>1 DEF TypeOK, End, Marks
  <2>3. \A c \in Conversations : assignee'[c] # request[t].target
    BY <1>1, <2>1, TeamAssumption
  <2>4. Effect(t)
    BY <1>1, <1>3, <2>1, <2>3 DEF TypeOK, End, Effect, RolesFrom,
       AssigneesFrom,
       OthersAlone, LocksFrom
  <2>5. SlotInv(t)'
    BY <1>1, <2>1 DEF TypeOK, End, SlotInv, Fits, PartiesLocked,
       LockedArePresent, LockedInOrder, TargetStays, ToUnassign
  <2>6. QED
    BY <2>2, <2>4, <2>5 DEF Own
<1>4. QED
  BY <1>2, <1>3

(* Statements that only read, or find rows to lock.                         *)
LEMMA ReadOwn ==
  ASSUME TeamInv, NEW t \in Slots,
         ReadActor(t) \/ CheckOutsider(t) \/ ReadInvite(t)
  PROVE  Own(t)
<1>1. TypeOK /\ t \in Slots /\ SlotInv(t)
  BY DEF TeamInv
<1>2. CASE Rollback(t)
  BY <1>2, RollbackOwn
<1>3. CASE ~Rollback(t)
  <2>1. /\ UNCHANGED <<rowVars, todo, holds, request, shares, seen>>
        /\ request[t] \in InviteRequests
        /\ \E next \in {"expire", "insert", "revoke"} :
             place' = [place EXCEPT ![t] = next]
    BY <1>1, <1>3, RequestFields
       DEF ReadActor, CheckOutsider, ReadInvite, Goto, Locked, SlotInv, Fits
  <2>2. TypeOK'
    BY <1>1, <2>1 DEF TypeOK, rowVars
  <2>3. Effect(t)
    BY <1>1, <2>1 DEF TypeOK, rowVars, Effect, RolesFrom, AssigneesFrom,
       OthersAlone, LocksFrom
  <2>4. SlotInv(t)'
    BY <1>1, <2>1
       DEF TypeOK, rowVars, SlotInv, Fits, PartiesLocked, LockedArePresent,
           LockedInOrder, TargetStays, ToUnassign, Present
  <2>5. QED
    BY <2>2, <2>3, <2>4 DEF Own
<1>4. QED
  BY <1>2, <1>3

LEMMA RevokeExpiredOwn ==
  ASSUME TeamInv, NEW t \in Slots, RevokeExpired(t)
  PROVE  Own(t)
<1>1. TypeOK /\ t \in Slots /\ SlotInv(t) /\ place[t] = "expire"
  BY DEF TeamInv, RevokeExpired
<1>2. PICK old \in SUBSET Invites :
        /\ \A j \in old : ~HeldByOther(t, j)
        /\ holds' = [holds EXCEPT ![t] = @ \cup old]
  BY DEF RevokeExpired, SameInvitee
<1>3. /\ place' = [place EXCEPT ![t] = "check"]
      /\ UNCHANGED <<rowVars, todo, request, shares, seen>>
  BY DEF RevokeExpired, Goto
<1>4. \A j \in old : j \in Rows /\ j \notin Members /\ ~SharedByOther(t, j)
  BY <1>1, <1>2, TeamAssumption DEF TypeOK, Rows, SharedByOther
<1>5. TypeOK'
  BY <1>1, <1>2, <1>3, <1>4 DEF TypeOK, rowVars
<1>6. Effect(t)
  BY <1>1, <1>2, <1>3, <1>4 DEF TypeOK, rowVars, Effect, RolesFrom,
     AssigneesFrom, OthersAlone, LocksFrom
<1>7. SlotInv(t)'
  BY <1>1, <1>2, <1>3, <1>4
     DEF TypeOK, rowVars, SlotInv, Fits, PartiesLocked, LockedArePresent,
         LockedInOrder, TargetStays, ToUnassign, Present
<1>8. QED
  BY <1>5, <1>6, <1>7 DEF Own

(* Statements that end a transaction on invitations.                        *)
LEMMA InviteOwn ==
  ASSUME TeamInv, NEW t \in Slots, InsertInvite(t) \/ RevokeInvite(t)
  PROVE  Own(t)
<1>1. /\ TypeOK /\ t \in Slots
      /\ request[t].actor \in Members /\ request[t].invite \in Invites
  BY RequestFields DEF TeamInv, SlotInv, Fits, InsertInvite, RevokeInvite
<1>2. CASE Rollback(t)
  BY <1>2, RollbackOwn
<1>3. CASE ~Rollback(t)
  <2>1. End(t) /\ UNCHANGED <<role, assignee>>
    BY <1>3 DEF InsertInvite, RevokeInvite
  <2>2. invite' \in [Invites -> SUBSET Marks]
    BY <1>1, <1>3 DEF InsertInvite, RevokeInvite, TypeOK, Marks
  <2>3. invitedBy' \in [Invites -> Members \cup {Nobody}]
    BY <1>1, <1>3 DEF InsertInvite, RevokeInvite, TypeOK
  <2>4. TypeOK'
    BY <1>1, <2>1, <2>2, <2>3 DEF TypeOK, End
  <2>5. Effect(t)
    BY <1>1, <2>1 DEF TypeOK, End, Effect, RolesFrom, AssigneesFrom,
       OthersAlone, LocksFrom
  <2>6. SlotInv(t)'
    BY <1>1, <2>1 DEF TypeOK, End, SlotInv, Fits, PartiesLocked,
       LockedArePresent, LockedInOrder, TargetStays, ToUnassign
  <2>7. QED
    BY <2>4, <2>5, <2>6 DEF Own
<1>4. QED
  BY <1>2, <1>3

LEMMA AcceptOwn ==
  ASSUME TeamInv, NEW t \in Slots, AcceptInvite(t)
  PROVE  Own(t)
<1>1. TypeOK /\ t \in Slots /\ SlotInv(t) /\ request[t].invite \in Invites
  BY RequestFields DEF TeamInv, AcceptInvite, SlotInv, Fits
<1>2. CASE Rollback(t)
  BY <1>2, RollbackOwn
<1>3. CASE ~Rollback(t)
  <2> DEFINE i == request[t].invite
  <2>1. /\ place[t] = "accept" /\ ~HeldByOther(t, i)
        /\ holds' = [holds EXCEPT ![t] = @ \cup {i}]
        /\ place' = [place EXCEPT ![t] = "join"]
        /\ UNCHANGED <<rowVars, todo, request, shares, seen>>
    BY <1>3 DEF AcceptInvite, Goto
  <2>2. i \in Rows /\ i \notin Members /\ ~SharedByOther(t, i)
    BY <1>1, TeamAssumption DEF TypeOK, Rows, SharedByOther
  <2>3. TypeOK'
    BY <1>1, <2>1, <2>2 DEF TypeOK, rowVars
  <2>4. Effect(t)
    BY <1>1, <2>1, <2>2 DEF TypeOK, rowVars, Effect, RolesFrom, AssigneesFrom,
       OthersAlone, LocksFrom
  <2>5. SlotInv(t)'
    BY <1>1, <2>1, <2>2
       DEF TypeOK, rowVars, SlotInv, Fits, PartiesLocked, LockedArePresent,
           LockedInOrder, TargetStays, ToUnassign, Present
  <2>6. QED
    BY <2>3, <2>4, <2>5 DEF Own
<1>4. QED
  BY <1>2, <1>3

LEMMA JoinOwn ==
  ASSUME TeamInv, NEW t \in Slots, Join(t)
  PROVE  Own(t)
<1> DEFINE i == request[t].invite
           m == Invitee[i]
<1>1. TypeOK /\ t \in Slots /\ i \in Invites
  BY RequestFields DEF TeamInv, Join, SlotInv, Fits
<1>2. m \in Members /\ InvitedRole[i] \in Role
  BY <1>1, TeamAssumption
<1>3. /\ role' = [role EXCEPT ![m] =
                    IF role[m] = "absent" THEN InvitedRole[i] ELSE role[m]]
      /\ invite' = [invite EXCEPT ![i] = @ \cup {"accepted"}]
      /\ End(t) /\ UNCHANGED <<assignee, invitedBy>>
  BY <1>1, <1>2 DEF Join, TypeOK
<1>4. TypeOK'
  BY <1>1, <1>2, <1>3 DEF TypeOK, End, Marks
<1>5. Effect(t)
  BY <1>1, <1>2, <1>3 DEF TypeOK, End, Effect, RolesFrom, AssigneesFrom,
     OthersAlone, LocksFrom
<1>6. SlotInv(t)'
  BY <1>1, <1>3 DEF TypeOK, End, SlotInv, Fits, PartiesLocked,
     LockedArePresent, LockedInOrder, TargetStays, ToUnassign
<1>7. QED
  BY <1>4, <1>5, <1>6 DEF Own

LEMMA UpdateAssigneeOwn ==
  ASSUME TeamInv, NEW t \in Slots, UpdateAssignee(t)
  PROVE  Own(t)
<1>1. /\ TypeOK /\ t \in Slots /\ SlotInv(t) /\ request[t] \in AssignRequests
      /\ request[t].conversation \in Conversations
  BY RequestFields DEF TeamInv, UpdateAssignee, SlotInv, Fits
<1>2. CASE Rollback(t)
  BY <1>2, RollbackOwn
<1>3. CASE ~Rollback(t)
  <2> DEFINE c == request[t].conversation
             next == IF request[t].target = Nobody THEN "commit" ELSE "reference"
  <2>1. /\ place[t] = "update" /\ ~HeldByOther(t, c)
        /\ holds' = [holds EXCEPT ![t] = @ \cup {c}]
        /\ place' = [place EXCEPT ![t] = next]
        /\ UNCHANGED <<rowVars, todo, request, shares, seen>>
    BY <1>3 DEF UpdateAssignee, Goto
  <2>2. c \in Rows /\ c \notin Members /\ ~SharedByOther(t, c)
    BY <1>1, TeamAssumption DEF TypeOK, Rows, SharedByOther
  <2>3. TypeOK'
    BY <1>1, <2>1, <2>2 DEF TypeOK, rowVars
  <2>4. Effect(t)
    BY <1>1, <2>1, <2>2 DEF TypeOK, rowVars, Effect, RolesFrom, AssigneesFrom,
       OthersAlone, LocksFrom
  <2>5. SlotInv(t)'
    BY <1>1, <2>1, <2>2
       DEF TypeOK, rowVars, SlotInv, Fits, PartiesLocked, LockedArePresent,
           LockedInOrder, TargetStays, ToUnassign, Present
  <2>6. QED
    BY <2>3, <2>4, <2>5 DEF Own
<1>4. QED
  BY <1>2, <1>3

LEMMA CheckReferenceOwn ==
  ASSUME TeamInv, NEW t \in Slots, CheckReference(t)
  PROVE  Own(t)
<1>1. /\ TypeOK /\ t \in Slots /\ SlotInv(t) /\ request[t] \in AssignRequests
      /\ request[t].target \in Members
  BY RequestFields DEF TeamInv, CheckReference, SlotInv, Fits
<1>2. CASE Rollback(t)
  BY <1>2, RollbackOwn
<1>3. CASE ~Rollback(t)
  <2> DEFINE m == request[t].target
  <2>1. /\ place[t] = "reference" /\ ~HeldByOther(t, m) /\ Present(m)
        /\ shares' = [shares EXCEPT ![t] = @ \cup {m}]
        /\ place' = [place EXCEPT ![t] = "commit"]
        /\ UNCHANGED <<rowVars, todo, request, holds, seen>>
    BY <1>3 DEF CheckReference
  <2>2. TypeOK'
    BY <1>1, <2>1 DEF TypeOK, rowVars
  <2>3. Effect(t)
    BY <1>1, <2>1 DEF TypeOK, rowVars, Effect, RolesFrom, AssigneesFrom,
       OthersAlone, LocksFrom
  <2>4. SlotInv(t)'
    BY <1>1, <2>1
       DEF TypeOK, rowVars, SlotInv, Fits, PartiesLocked, LockedArePresent,
           LockedInOrder, TargetStays, ToUnassign, Present
  <2>5. QED
    BY <2>2, <2>3, <2>4 DEF Own
<1>4. QED
  BY <1>2, <1>3

LEMMA CommitAssigneeOwn ==
  ASSUME TeamInv, NEW t \in Slots, CommitAssignee(t)
  PROVE  Own(t)
<1>1. /\ TypeOK /\ t \in Slots /\ place[t] = "commit"
      /\ request[t].conversation \in Conversations
      /\ request[t].target \in Members \cup {Nobody}
  BY RequestFields DEF TeamInv, CommitAssignee, SlotInv, Fits
<1>2. TypeOK'
  BY <1>1 DEF TypeOK, CommitAssignee, End
<1>3. Effect(t)
  BY <1>1 DEF TypeOK, CommitAssignee, End, Effect, RolesFrom, AssigneesFrom,
     OthersAlone, LocksFrom
<1>4. SlotInv(t)'
  BY <1>1 DEF TypeOK, CommitAssignee, End, SlotInv, Fits, PartiesLocked,
     LockedArePresent, LockedInOrder, TargetStays, ToUnassign
<1>5. QED
  BY <1>2, <1>3, <1>4 DEF Own

LEMMA StepOwn ==
  ASSUME TeamInv, NEW t \in Slots, Step(t)
  PROVE  Own(t)
BY BeginOwn, LockMembershipOwn, ReadMembershipOwn, SetRoleOwn, FindAssignedOwn,
   ClearAssignedOwn, DeleteMembershipOwn, ReadOwn, RevokeExpiredOwn, InviteOwn,
   AcceptOwn, JoinOwn, UpdateAssigneeOwn, CheckReferenceOwn, CommitAssigneeOwn,
   RollbackOwn
   DEF Step, TeamStep, AcceptStep, AssignStep, Fail

-----------------------------------------------------------------------------
LEMMA ExpireKeeps ==
  ASSUME TeamInv, NEW i \in Invites, Expire(i)
  PROVE  TeamInv'
<1>1. TypeOK' /\ UNCHANGED <<role, assignee, slotVars>>
  BY DEF TeamInv, TypeOK, Expire, Marks, slotVars
<1>2. QED
  BY <1>1 DEF TeamInv, SlotInv, Fits, PartiesLocked, Parties, ByOwner,
     LockedArePresent, LockedInOrder, TargetStays, ToUnassign, Present,
     LocksExclude, LastOwnerStays, AssigneeIsMember, slotVars

LEMMA StutterKeeps == TeamInv /\ UNCHANGED vars => TeamInv'
  BY DEF TeamInv, TypeOK, SlotInv, Fits, PartiesLocked, Parties, ByOwner,
     LockedArePresent, LockedInOrder, TargetStays, ToUnassign, Present,
     LocksExclude, LastOwnerStays, AssigneeIsMember, slotVars, rowVars, vars

(* Every state of a team satisfies the whole invariant.                     *)
THEOREM TeamInvariant == Spec => []TeamInv
<1>1. TeamInv /\ [Next]_vars => TeamInv'
  <2> SUFFICES ASSUME TeamInv, [Next]_vars PROVE TeamInv'
    OBVIOUS
  <2>1. ASSUME NEW t \in Slots, Step(t) PROVE TeamInv'
    <3>1. Effect(t) /\ TypeOK' /\ SlotInv(t)'
      BY <2>1, StepOwn DEF Own
    <3>2. QED
      BY <3>1, OthersKeep DEF TeamInv
  <2>2. QED
    BY <2>1, ExpireKeeps, StutterKeeps DEF Next, Step
<1>2. QED
  BY <1>1, InitInv, PTL DEF Spec

(* Every reachable state is well typed.                                     *)
THEOREM TypeCorrect == Spec => []TypeOK
<1>1. TeamInv => TypeOK
  BY DEF TeamInv
<1>2. QED
  BY <1>1, TeamInvariant, PTL

(* An owner remains: removals, role changes and admissions may race in any    *)
(* way.                                                                     *)
THEOREM TeamStaysWhole == Spec => []LastOwnerStays
<1>1. TeamInv => LastOwnerStays
  BY DEF TeamInv
<1>2. QED
  BY <1>1, TeamInvariant, PTL

(* No conversation is assigned to a member who has been removed, although an  *)
(* assignment checks its member before it takes any lock.                   *)
THEOREM AssigneesAreMembers == Spec => []AssigneeIsMember
<1>1. TeamInv => AssigneeIsMember
  BY DEF TeamInv
<1>2. QED
  BY <1>1, TeamInvariant, PTL

(* Requests that lock the memberships do not wait for each other.           *)
THEOREM LockersNeverDeadlock == Spec => []LockersDoNotDeadlock
<1>1. TeamInv => LockersDoNotDeadlock
  <2> SUFFICES ASSUME TeamInv, NEW t \in Slots, NEW u \in Slots,
                      place[t] = "lock", place[u] = "lock",
                      NEW m \in todo[t] \cap holds[u],
                      NEW n \in todo[u] \cap holds[t]
               PROVE  FALSE
    BY DEF LockersDoNotDeadlock
  <2>1. m \in Nat /\ n \in Nat
    BY TeamAssumption DEF TeamInv, SlotInv, LockedInOrder
  <2>2. n < m /\ m < n
    BY DEF TeamInv, SlotInv, LockedInOrder
  <2>3. QED
    BY <2>1, <2>2
<1>2. QED
  BY <1>1, TeamInvariant, PTL

(* No removal fails on a conversation that was assigned meanwhile.          *)
THEOREM RemovalsAreNotRefused == Spec => []RemovalIsNotRefused
<1>1. TeamInv => RemovalIsNotRefused
  BY DEF TeamInv, SlotInv, ToUnassign, RemovalIsNotRefused, Referenced
<1>2. QED
  BY <1>1, TeamInvariant, PTL

(* Only those who are owners at that moment change or end a membership.     *)
THEOREM OnlyOwnersDecide == Spec => OwnersDecide
<1>1. TeamInv /\ [Next]_vars =>
        [\A m \in Members :
           (Present(m) /\ role'[m] # role[m]) =>
             \E t \in Slots : /\ request[t] \in MemberRequests
                              /\ request[t].target = m
                              /\ ByOwner(t)]_vars
  <2> SUFFICES ASSUME TeamInv, [Next]_vars, NEW m \in Members,
                      Present(m), role'[m] # role[m]
               PROVE  \E t \in Slots : /\ request[t] \in MemberRequests
                                       /\ request[t].target = m /\ ByOwner(t)
    OBVIOUS
  <2>1. PICK t \in Slots : Step(t)
    BY DEF Next, Step, Expire, vars, rowVars
  <2>2. RolesFrom(t) /\ SlotInv(t)
    BY <2>1, StepOwn DEF Own, Effect, TeamInv
  <2>3. place[t] \in {"setRole", "clear"} /\ request[t].target = m
    BY <2>2 DEF RolesFrom, Present, Role
  <2>4. QED
    BY <2>2, <2>3 DEF SlotInv, Fits, PartiesLocked
<1>2. QED
  BY <1>1, TeamInvariant, PTL DEF Spec, OwnersDecide

-----------------------------------------------------------------------------
(* Invitations: the one an acceptance is about to use is locked by it, and    *)
(* still pending.                                                           *)
Reserved(t) ==
  place[t] = "join" =>
    request[t].invite \in holds[t] /\ Pending(request[t].invite)

InvitesReserved == \A t \in Slots : Reserved(t)

(* A step leaves invitations pending that another transaction has locked, and *)
(* reserves the one it goes on to use.                                      *)
ReservesOwn(t) ==
  /\ \A i \in Invites : Pending(i) /\ HeldByOther(t, i) => Pending(i)'
  /\ Reserved(t)'

LEMMA ReserveStep ==
  ASSUME TeamInv, InvitesReserved, NEW t \in Slots, Step(t)
  PROVE  ReservesOwn(t)
<1> USE DEF TeamInv, TypeOK, ReservesOwn, Reserved, Pending
<1>1. CASE Rollback(t)
  BY <1>1 DEF Rollback, End, rowVars
<1>2. CASE \/ \E q \in TeamRequests : BeginTeamRequest(t, q)
           \/ \E q \in AcceptRequests : BeginAccept(t, q)
           \/ \E q \in AssignRequests : BeginAssign(t, q)
  BY <1>2 DEF BeginTeamRequest, BeginAccept, BeginAssign, Begin, rowVars
<1>3. CASE LockMembership(t) \/ ClearAssigned(t)
  BY <1>3 DEF LockMembership, ClearAssigned, rowVars
<1>4. CASE /\ UNCHANGED <<rowVars, request>>
           /\ \E next \in {"unassign", "setRole", "clear", "expire", "check",
                           "insert", "revoke", "reference", "commit"} :
                place' = [place EXCEPT ![t] = next]
  BY <1>4 DEF rowVars
<1>5. CASE SetRole(t) \/ CommitAssignee(t)
  BY <1>5 DEF SetRole, CommitAssignee, End
<1>6. CASE DeleteMembership(t)
  BY <1>6 DEF DeleteMembership, End, rowVars
<1>7. CASE InsertInvite(t) /\ ~Rollback(t)
  BY <1>7 DEF InsertInvite, End, LocksExclude, HeldByOther
<1>8. CASE RevokeInvite(t)
  BY <1>8 DEF RevokeInvite, End
<1>9. CASE AcceptInvite(t) /\ ~Rollback(t)
  <2>1. request[t].invite \in Invites
    BY <1>9, RequestFields DEF AcceptInvite, SlotInv, Fits
  <2>2. QED
    BY <1>9, <2>1 DEF AcceptInvite, Valid, Goto, rowVars
<1>10. CASE Join(t)
  <2>1. request[t].invite \in holds[t]
    BY <1>10 DEF Join, InvitesReserved
  <2>2. ~HeldByOther(t, request[t].invite)
    BY <2>1 DEF LocksExclude, HeldByOther
  <2>3. QED
    BY <1>10, <2>2 DEF Join, End
<1>11. QED
  <2>1. ASSUME ReadMembership(t), ~Rollback(t)
        PROVE  /\ UNCHANGED <<rowVars, request>>
               /\ \E next \in {"unassign", "setRole"} :
                    place' = [place EXCEPT ![t] = next]
    BY <2>1 DEF ReadMembership, Goto
  <2>2. ASSUME UpdateAssignee(t), ~Rollback(t)
        PROVE  /\ UNCHANGED <<rowVars, request>>
               /\ \E next \in {"reference", "commit"} :
                    place' = [place EXCEPT ![t] = next]
    BY <2>2 DEF UpdateAssignee, Goto
  <2>3. ASSUME FindAssigned(t) \/ ReadActor(t) \/ RevokeExpired(t) \/ CheckOutsider(t)
               \/ ReadInvite(t) \/ CheckReference(t), ~Rollback(t)
        PROVE  /\ UNCHANGED <<rowVars, request>>
               /\ \E next \in {"clear", "expire", "check", "insert",
                              "revoke", "commit"} :
                    place' = [place EXCEPT ![t] = next]
    BY <2>3 DEF FindAssigned, ReadActor, RevokeExpired, CheckOutsider,
       ReadInvite, CheckReference, Goto
  <2>4. QED
    BY <1>1, <1>2, <1>3, <1>4, <1>5, <1>6, <1>7, <1>8, <1>9, <1>10, <2>1, <2>2,
       <2>3
       DEF Step, TeamStep, AcceptStep, AssignStep, Fail

(* Nothing but a pending invitation makes anyone a member, although an         *)
(* acceptance reads it long before it uses it, and it is then used up.      *)
THEOREM AdmissionsAreValid == Spec => AdmittedByValidInvite
<1>1. Init => InvitesReserved
  BY DEF Init, InvitesReserved, Reserved
<1>2. TeamInv /\ InvitesReserved /\ [Next]_vars => InvitesReserved'
  <2> SUFFICES ASSUME TeamInv, InvitesReserved, [Next]_vars, NEW u \in Slots
               PROVE  Reserved(u)'
    BY DEF InvitesReserved
  <2>1. ASSUME NEW t \in Slots, Step(t)
        PROVE  Reserved(u)'
    <3>1. ReservesOwn(t) /\ OthersAlone(t)
      BY <2>1, ReserveStep, StepOwn DEF Own, Effect
    <3>2. CASE u # t
      <4>1. place[u] = "join" => request[u].invite \in Invites
        BY RequestFields DEF TeamInv, SlotInv, Fits
      <4>2. QED
        BY <3>1, <3>2, <4>1 DEF InvitesReserved, Reserved, ReservesOwn,
           OthersAlone, HeldByOther
    <3>3. QED
      BY <3>1, <3>2 DEF ReservesOwn
  <2>2. ASSUME NEW i \in Invites, Expire(i)
        PROVE  Reserved(u)'
    <3>1. \A j \in Invites : Pending(j) => Pending(j)'
      BY <2>2 DEF TeamInv, TypeOK, Expire, Pending
    <3>2. place[u] = "join" => request[u].invite \in Invites
      BY RequestFields DEF TeamInv, SlotInv, Fits
    <3>3. QED
      BY <2>2, <3>1, <3>2 DEF InvitesReserved, Reserved, Expire, slotVars
  <2>3. CASE UNCHANGED vars
    BY <2>3 DEF InvitesReserved, Reserved, Pending, vars, rowVars, slotVars
  <2>4. QED
    BY <2>1, <2>2, <2>3 DEF Next, Step
<1>3. TeamInv /\ InvitesReserved /\ [Next]_vars =>
        [\A m \in Members :
           (role[m] = "absent" /\ role'[m] # "absent") =>
             \E i \in Invites : /\ Invitee[i] = m /\ InvitedRole[i] = role'[m]
                                /\ Pending(i) /\ "accepted" \in invite'[i]]_vars
  <2> SUFFICES ASSUME TeamInv, InvitesReserved, [Next]_vars, NEW m \in Members,
                      role[m] = "absent", role'[m] # "absent"
               PROVE  \E i \in Invites : /\ Invitee[i] = m /\ InvitedRole[i] = role'[m]
                                         /\ Pending(i) /\ "accepted" \in invite'[i]
    OBVIOUS
  <2>1. PICK t \in Slots : SetRole(t) \/ DeleteMembership(t) \/ Join(t)
    <3>1. role' # role
      OBVIOUS
    <3>2. QED
      BY <3>1 DEF Next, TeamStep, AcceptStep, AssignStep, BeginTeamRequest,
         LockMembership, ReadMembership, FindAssigned, ClearAssigned, ReadActor,
         RevokeExpired, CheckOutsider, InsertInvite, ReadInvite, RevokeInvite,
         BeginAccept, AcceptInvite, BeginAssign, UpdateAssignee, CheckReference,
         CommitAssignee, Fail, Rollback, Expire, vars, rowVars
  <2>2. ~(SetRole(t) \/ DeleteMembership(t))
    <3>1. SUFFICES ASSUME SetRole(t) \/ DeleteMembership(t) PROVE FALSE
      OBVIOUS
    <3>2. request[t].target \in Members /\ Present(request[t].target)
      BY <3>1, RequestFields
         DEF TeamInv, SlotInv, Fits, PartiesLocked, Parties, LockedArePresent,
             SetRole, DeleteMembership
    <3>3. request[t].target # m
      BY <3>2 DEF Present, Role
    <3>4. role'[m] = role[m]
      BY <3>1, <3>3 DEF TeamInv, TypeOK, SetRole, DeleteMembership, rowVars
    <3>5. QED
      BY <3>4
  <2>3. Join(t)
    BY <2>1, <2>2
  <2> DEFINE i == request[t].invite
  <2>4. i \in Invites /\ Pending(i)
    BY <2>3, RequestFields DEF TeamInv, SlotInv, Fits, Join, InvitesReserved,
       Reserved
  <2>5. Invitee[i] = m /\ role'[m] = InvitedRole[i] /\ "accepted" \in invite'[i]
    BY <2>3, <2>4, TeamAssumption DEF TeamInv, TypeOK, Join
  <2>6. QED
    BY <2>4, <2>5
<1>4. QED
  BY <1>1, <1>2, <1>3, TeamInvariant, PTL DEF Spec, AdmittedByValidInvite
=============================================================================
