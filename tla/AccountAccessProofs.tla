------------------------- MODULE AccountAccessProofs -------------------------
(* Proofs about AccountAccess, for every choice of its constants.           *)
EXTENDS AccountAccess, TLAPS

InvitePlaces == {"invite", "newcomer", "setPassword", "consume", "join"}

(* Who has no row has nothing; sessions belong to accounts; a database       *)
(* without accounts has no invitations to accept.                           *)
Accounts ==
  /\ \A u \in Users \ exists : password[u] = 0 /\ version[u] = 0 /\ role[u] = "none"
  /\ \A c \in cookies : c.user \in exists
  /\ exists = {} => \A i \in Invites : invite[i] = "none"

(* What a request at a place of its handler is about.                       *)
Serves(t) ==
  /\ place[t] # "idle" => user[t] \in Users
  /\ place[t] \in {"compare", "lockOrg", "owners", "activate", "recovered",
                   "setPassword"} => user[t] \in exists
  /\ place[t] \in {"consume", "join"} /\ seenPassword[t] # 0 => user[t] \in exists
  /\ place[t] = "create" => exists = {}
  /\ place[t] \in InvitePlaces =>
       /\ inviteOf[t] \in Invites
       /\ way[t] \in {"invite", "invite+session"}
       /\ exists # {}
  /\ place[t] \in {"owners", "activate", "recovered", "newcomer", "setPassword"} =>
       seenPassword[t] = 0

AllServe == \A t \in Slots : Serves(t)

InGate(t) == place[t] \in {"count", "create"}

(* Each of the three locks has one holder.                                  *)
LocksExclude ==
  \A s, t \in Slots : s # t =>
    /\ ~(InGate(s) /\ InGate(t))
    /\ ~(LocksOrganization(s) /\ LocksOrganization(t))
    /\ ~(LocksUser(s) /\ LocksUser(t) /\ user[s] = user[t])

(* What was read under a lock still holds: the password of an account that   *)
(* is about to get one is null, and so are those of all owners while one is  *)
(* being recovered.                                                         *)
NoOwnerBacked == \A v \in Users : role[v] = "OWNER" => ~Backed(v)

LocksProtect ==
  \A t \in Slots :
    /\ LocksUser(t) => ~Backed(user[t])
    /\ place[t] \in {"activate", "recovered"} => NoOwnerBacked

(* A sessionVersion that is the account's now was read together with the     *)
(* password the account has now.                                            *)
Fresh(u, v, p) == v <= version[u] /\ (v = version[u] => p = password[u])

Earned ==
  /\ \A c \in cookies : c.way # "invite+session" => Fresh(c.user, c.version, c.proof)
  /\ \A t \in Slots :
       (\/ place[t] = "compare"
        \/ place[t] \in {"consume", "join"} /\ seenPassword[t] # 0 /\ way[t] = "invite") =>
         Fresh(user[t], seenVersion[t], proof[t])

AccessInv ==
  TypeOK /\ Accounts /\ AllServe /\ LocksExclude /\ LocksProtect /\ Earned
             /\ OneFirstOwner

LEMMA AccessInit == Init => AccessInv
<1> SUFFICES ASSUME Init PROVE AccessInv
  OBVIOUS
<1>1. TypeOK
  BY AccessAssumption DEF Init, InitRows, TypeOK, Cookie, Ways, Places
<1>2. Accounts
  BY AccessAssumption DEF Init, InitRows, Accounts
<1>3. AllServe /\ LocksExclude /\ LocksProtect
  BY DEF Init, AllServe, Serves, InvitePlaces, LocksExclude, InGate,
     LocksOrganization, LocksUser, LocksProtect
<1>4. Earned /\ OneFirstOwner
  BY DEF Init, InitRows, Earned, Fresh, OneFirstOwner
<1>5. QED
  BY <1>1, <1>2, <1>3, <1>4 DEF AccessInv

LEMMA TypeStep ==
  ASSUME TypeOK, Accounts, AllServe, [Next]_vars
  PROVE  TypeOK'
<1>1. ASSUME NEW t \in Slots, NEW u \in Users, Login(t, u)
      PROVE  TypeOK'
  BY <1>1 DEF TypeOK, Places, Login, Goto, rowVars
<1>2. ASSUME NEW t \in Slots, SignLogin(t)
      PROVE  TypeOK'
  BY <1>2
     DEF TypeOK, Places, Ways, Cookie, AllServe, Serves, SignLogin, Sign, End,
        Goto, rowVars
<1>3. ASSUME NEW u \in Users, ResetPassword(u)
      PROVE  TypeOK'
  BY <1>3 DEF TypeOK, ResetPassword, requestVars, slotVars
<1>4. ASSUME NEW u \in Users, RemoveMember(u)
      PROVE  TypeOK'
  BY <1>4 DEF TypeOK, RemoveMember, ChangeMember, requestVars, slotVars
<1>5. ASSUME NEW u \in Users, UpdateMemberRole(u)
      PROVE  TypeOK'
  BY <1>5, AccessAssumption DEF TypeOK,
     UpdateMemberRole, ChangeMember, requestVars, slotVars
<1>6. ASSUME NEW t \in Slots, NEW u \in Users, BootstrapOwner(t, u)
      PROVE  TypeOK'
  BY <1>6 DEF TypeOK, Places, Ways, BootstrapOwner, Begin, Goto, rowVars
<1>7. ASSUME NEW t \in Slots, LockGate(t)
      PROVE  TypeOK'
  BY <1>7 DEF TypeOK, Places, LockGate, Goto, rowVars, requestVars
<1>8. ASSUME NEW t \in Slots, CountAll(t)
      PROVE  TypeOK'
  BY <1>8
     DEF TypeOK, Places, Ways, Cookie, CountAll, Goto, Rollback, End, rowVars,
        requestVars
<1>9. ASSUME NEW t \in Slots, CreateOwner(t)
      PROVE  TypeOK'
  BY <1>9
     DEF TypeOK, Places, Role, Ways, Cookie, AllServe, Serves, InvitePlaces,
        CreateOwner, Sign, End, Goto
<1>10. ASSUME NEW t \in Slots, NEW u \in Users, ReadOwner(t, u)
      PROVE  TypeOK'
  BY <1>10 DEF TypeOK, Places, Ways, ReadOwner, Begin, Goto, rowVars
<1>11. ASSUME NEW t \in Slots, LockOrganization(t)
      PROVE  TypeOK'
  BY <1>11
     DEF TypeOK, Places, Role, Ways, LockOrganization, Goto, Rollback, End,
        rowVars, requestVars
<1>12. ASSUME NEW t \in Slots, CountOwners(t)
      PROVE  TypeOK'
  <2>1. CASE /\ Goto(t, "activate")
             /\ UNCHANGED <<rowVars, cookies, requestVars, seenPassword,
                            seenVersion>>
    BY <1>12, <2>1 DEF TypeOK, Places, Goto, rowVars, requestVars
  <2>2. CASE Rollback(t)
    BY <1>12, <2>2 DEF TypeOK, Places, Ways, Rollback, End, Goto, rowVars
  <2>3. QED
    BY <1>12, <2>1, <2>2 DEF CountOwners
<1>13. ASSUME NEW t \in Slots, ActivateOwner(t)
      PROVE  TypeOK'
  BY <1>13
     DEF TypeOK, Places, Ways, Cookie, AllServe, Serves, InvitePlaces,
        ActivateOwner, UserLockedByOther, Goto, Sign, End, rowVars, requestVars
<1>14. ASSUME NEW t \in Slots, CommitRecovery(t)
      PROVE  TypeOK'
  BY <1>14
     DEF TypeOK, Places, Ways, Cookie, AllServe, Serves, CommitRecovery,
        SetPassword, Sign, End, Goto
<1>15. ASSUME NEW t \in Slots, NEW i \in Invites, AcceptInvite(t, i)
      PROVE  TypeOK'
  BY <1>15, AccessAssumption
     DEF TypeOK, Places, Ways, AcceptInvite, Begin, Goto, rowVars
<1>16. ASSUME NEW t \in Slots, NEW i \in Invites, NEW c \in cookies,
              AcceptInviteWithSession(t, i, c)
      PROVE  TypeOK'
  BY <1>16
     DEF TypeOK, Places, Ways, Cookie, AcceptInviteWithSession, Begin, Goto,
        rowVars
<1>17. ASSUME NEW t \in Slots, ReadInvite(t)
      PROVE  TypeOK'
  BY <1>17
     DEF TypeOK, Places, Role, Ways, Cookie, AllServe, Serves, InvitePlaces,
        ReadInvite, Needed, Goto, Rollback, End, rowVars, requestVars, slotVars
<1>18. ASSUME NEW t \in Slots, CreateUser(t)
      PROVE  TypeOK'
  BY <1>18
     DEF TypeOK, Places, Role, Ways, Cookie, AllServe, Serves, CreateUser,
        Goto, Rollback, End, rowVars, requestVars
<1>19. ASSUME NEW t \in Slots, ActivateUser(t)
      PROVE  TypeOK'
  BY <1>19
     DEF TypeOK, Places, AllServe, Serves, ActivateUser, Goto, rowVars,
        requestVars
<1>20. ASSUME NEW t \in Slots, ConsumeInvite(t)
      PROVE  TypeOK'
  BY <1>20
     DEF TypeOK, Places, Ways, Cookie, ConsumeInvite, Goto, Rollback, End,
        rowVars, requestVars
<1>21. ASSUME NEW t \in Slots, Join(t)
      PROVE  TypeOK'
  <2>1. user[t] \in Users /\ inviteOf[t] \in Invites /\ way[t] \in Ways
    BY <1>21 DEF Join, TypeOK, AllServe, Serves, InvitePlaces
  <2>2. /\ role' \in [Users -> Role \cup {"none"}]
        /\ invite' \in [Invites -> {"none", "pending", "accepted"}]
    BY <1>21, <2>1, AccessAssumption DEF Join, TypeOK
  <2>3. exists' \subseteq Users /\ password' \in [Users -> Nat] /\ version' \in [Users -> Nat]
    BY <1>21, <2>1 DEF Join, TypeOK, SetPassword
  <2>4. cookies' \subseteq Cookie
    BY <1>21, <2>1, <2>3 DEF Join, TypeOK, Sign, Cookie, SetPassword
  <2>5. /\ place' \in [Slots -> Places]
        /\ user' \in [Slots -> Users \cup {NoUser}]
        /\ inviteOf' \in [Slots -> Invites \cup {NoInvite}]
        /\ way' \in [Slots -> Ways]
        /\ seenPassword' \in [Slots -> Nat]
        /\ seenVersion' \in [Slots -> Nat]
        /\ proof' \in [Slots -> Nat]
    BY <1>21 DEF Join, TypeOK, End, Goto, Places, Ways
  <2>6. QED
    BY <2>2, <2>3, <2>4, <2>5 DEF TypeOK
<1>22. ASSUME NEW t \in Slots, Fail(t)
      PROVE  TypeOK'
  BY <1>22 DEF TypeOK, Places, Ways, Fail, Rollback, End, Goto, rowVars
<1>23. CASE UNCHANGED vars
  BY <1>23 DEF TypeOK, vars, rowVars, requestVars, slotVars
<1>24. QED
  BY <1>1, <1>2, <1>3, <1>4, <1>5, <1>6, <1>7, <1>8, <1>9, <1>10, <1>11, <1>12,
     <1>13, <1>14, <1>15, <1>16, <1>17, <1>18, <1>19, <1>20, <1>21, <1>22,
     <1>23
     DEF Next, Step

LEMMA AccountsStep ==
  ASSUME TypeOK, Accounts, AllServe, [Next]_vars
  PROVE  Accounts'
<1>1. ASSUME NEW t \in Slots, NEW u \in Users, Login(t, u)
      PROVE  Accounts'
  BY <1>1 DEF Accounts, Login, rowVars
<1>2. ASSUME NEW t \in Slots, SignLogin(t)
      PROVE  Accounts'
  BY <1>2 DEF Accounts, AllServe, Serves, SignLogin, Sign, rowVars
<1>3. ASSUME NEW u \in Users, ResetPassword(u)
      PROVE  Accounts'
  BY <1>3 DEF Accounts, Backed, ResetPassword
<1>4. ASSUME NEW u \in Users, RemoveMember(u)
      PROVE  Accounts'
  BY <1>4 DEF Accounts, RemoveMember, ChangeMember
<1>5. ASSUME NEW u \in Users, UpdateMemberRole(u)
      PROVE  Accounts'
  BY <1>5 DEF Accounts, UpdateMemberRole, ChangeMember
<1>6. ASSUME NEW t \in Slots, NEW u \in Users, BootstrapOwner(t, u)
      PROVE  Accounts'
  BY <1>6 DEF Accounts, BootstrapOwner, rowVars
<1>7. ASSUME NEW t \in Slots, LockGate(t)
      PROVE  Accounts'
  BY <1>7 DEF Accounts, LockGate, rowVars
<1>8. ASSUME NEW t \in Slots, CountAll(t)
      PROVE  Accounts'
  BY <1>8 DEF Accounts, CountAll, Rollback, rowVars
<1>9. ASSUME NEW t \in Slots, CreateOwner(t)
      PROVE  Accounts'
  BY <1>9 DEF TypeOK, Accounts, CreateOwner, Sign, rowVars
<1>10. ASSUME NEW t \in Slots, NEW u \in Users, ReadOwner(t, u)
      PROVE  Accounts'
  BY <1>10 DEF Accounts, ReadOwner, rowVars
<1>11. ASSUME NEW t \in Slots, LockOrganization(t)
      PROVE  Accounts'
  BY <1>11 DEF Accounts, LockOrganization, Rollback, rowVars
<1>12. ASSUME NEW t \in Slots, CountOwners(t)
      PROVE  Accounts'
  BY <1>12 DEF Accounts, CountOwners, Rollback, rowVars
<1>13. ASSUME NEW t \in Slots, ActivateOwner(t)
      PROVE  Accounts'
  BY <1>13 DEF Accounts, AllServe, Serves, ActivateOwner, Sign, rowVars
<1>14. ASSUME NEW t \in Slots, CommitRecovery(t)
      PROVE  Accounts'
  BY <1>14 DEF Accounts, AllServe, Serves, CommitRecovery, SetPassword, Sign
<1>15. ASSUME NEW t \in Slots, NEW i \in Invites, AcceptInvite(t, i)
      PROVE  Accounts'
  BY <1>15 DEF Accounts, AcceptInvite, rowVars
<1>16. ASSUME NEW t \in Slots, NEW i \in Invites, NEW c \in cookies,
              AcceptInviteWithSession(t, i, c)
      PROVE  Accounts'
  BY <1>16 DEF Accounts, AcceptInviteWithSession, rowVars
<1>17. ASSUME NEW t \in Slots, ReadInvite(t)
      PROVE  Accounts'
  BY <1>17 DEF Accounts, ReadInvite, Rollback, rowVars
<1>18. ASSUME NEW t \in Slots, CreateUser(t)
      PROVE  Accounts'
  BY <1>18 DEF Accounts, CreateUser, Rollback, rowVars
<1>19. ASSUME NEW t \in Slots, ActivateUser(t)
      PROVE  Accounts'
  BY <1>19 DEF Accounts, ActivateUser, rowVars
<1>20. ASSUME NEW t \in Slots, ConsumeInvite(t)
      PROVE  Accounts'
  BY <1>20 DEF Accounts, ConsumeInvite, Rollback, rowVars
<1>21. ASSUME NEW t \in Slots, Join(t)
      PROVE  Accounts'
  BY <1>21 DEF TypeOK, Accounts, AllServe, Serves, Join, SetPassword, Sign
<1>22. ASSUME NEW t \in Slots, Fail(t)
      PROVE  Accounts'
  BY <1>22 DEF Accounts, Fail, Rollback, rowVars
<1>23. CASE UNCHANGED vars
  BY <1>23 DEF Accounts, vars, rowVars
<1>24. QED
  BY <1>1, <1>2, <1>3, <1>4, <1>5, <1>6, <1>7, <1>8, <1>9, <1>10, <1>11, <1>12,
     <1>13, <1>14, <1>15, <1>16, <1>17, <1>18, <1>19, <1>20, <1>21, <1>22,
     <1>23
     DEF Next, Step

LEMMA ServesStep ==
  ASSUME TypeOK, Accounts, AllServe, LocksExclude, [Next]_vars
  PROVE  AllServe'
<1>1. ASSUME NEW t \in Slots, NEW u \in Users, Login(t, u)
      PROVE  AllServe'
  BY <1>1 DEF TypeOK, AllServe, Serves, InvitePlaces, Login, Goto, rowVars
<1>2. ASSUME NEW t \in Slots, SignLogin(t)
      PROVE  AllServe'
  BY <1>2
     DEF TypeOK, AllServe, Serves, InvitePlaces, SignLogin, End, Goto, rowVars
<1>3. ASSUME NEW u \in Users, ResetPassword(u)
      PROVE  AllServe'
  BY <1>3 DEF AllServe, Serves, ResetPassword, requestVars, slotVars
<1>4. ASSUME NEW u \in Users, RemoveMember(u)
      PROVE  AllServe'
  BY <1>4 DEF AllServe, Serves,
     RemoveMember, ChangeMember, requestVars, slotVars
<1>5. ASSUME NEW u \in Users, UpdateMemberRole(u)
      PROVE  AllServe'
  BY <1>5 DEF AllServe, Serves,
     UpdateMemberRole, ChangeMember, requestVars, slotVars
<1>6. ASSUME NEW t \in Slots, NEW u \in Users, BootstrapOwner(t, u)
      PROVE  AllServe'
  BY <1>6
     DEF TypeOK, AllServe, Serves, InvitePlaces, BootstrapOwner, Begin, Goto,
        rowVars
<1>7. ASSUME NEW t \in Slots, LockGate(t)
      PROVE  AllServe'
  BY <1>7
     DEF AllServe, Serves, InvitePlaces, LockGate, Goto, rowVars, requestVars
<1>8. ASSUME NEW t \in Slots, CountAll(t)
      PROVE  AllServe'
  BY <1>8
     DEF TypeOK, AllServe, Serves, InvitePlaces, CountAll, Goto, Rollback, End,
        rowVars, requestVars
<1>9. ASSUME NEW t \in Slots, CreateOwner(t)
      PROVE  AllServe'
  BY <1>9
     DEF TypeOK, AllServe, Serves, LocksExclude, InGate, InvitePlaces,
        CreateOwner, End, Goto
<1>10. ASSUME NEW t \in Slots, NEW u \in Users, ReadOwner(t, u)
      PROVE  AllServe'
  BY <1>10
     DEF TypeOK, Accounts, AllServe, Serves, InvitePlaces, ReadOwner, Begin,
        Goto, rowVars
<1>11. ASSUME NEW t \in Slots, LockOrganization(t)
      PROVE  AllServe'
  BY <1>11
     DEF TypeOK, AllServe, Serves, InvitePlaces, LockOrganization, Goto,
        Rollback, End, rowVars, requestVars
<1>12. ASSUME NEW t \in Slots, CountOwners(t)
      PROVE  AllServe'
  BY <1>12
     DEF TypeOK, AllServe, Serves, InvitePlaces, CountOwners, Goto, Rollback,
        End, rowVars, requestVars
<1>13. ASSUME NEW t \in Slots, ActivateOwner(t)
      PROVE  AllServe'
  BY <1>13
     DEF TypeOK, AllServe, Serves, InvitePlaces, ActivateOwner, Goto, End,
        rowVars, requestVars
<1>14. ASSUME NEW t \in Slots, CommitRecovery(t)
      PROVE  AllServe'
  BY <1>14
     DEF TypeOK, AllServe, Serves, InvitePlaces, CommitRecovery, End, Goto
<1>15. ASSUME NEW t \in Slots, NEW i \in Invites, AcceptInvite(t, i)
      PROVE  AllServe'
  BY <1>15, AccessAssumption
     DEF TypeOK, Accounts, AllServe, Serves, AcceptInvite, Begin, Goto, rowVars
<1>16. ASSUME NEW t \in Slots, NEW i \in Invites, NEW c \in cookies,
              AcceptInviteWithSession(t, i, c)
      PROVE  AllServe'
  BY <1>16
     DEF TypeOK, Accounts, AllServe, Serves, AcceptInviteWithSession, Begin,
        Goto, rowVars
<1>17. ASSUME NEW t \in Slots, ReadInvite(t)
      PROVE  AllServe'
  BY <1>17
     DEF TypeOK, Accounts, AllServe, Serves, InvitePlaces, Backed, ReadInvite,
        Needed, Goto, Rollback, End, rowVars
<1>18. ASSUME NEW t \in Slots, CreateUser(t)
      PROVE  AllServe'
  BY <1>18
     DEF TypeOK, AllServe, Serves, InvitePlaces, CreateUser, Goto, Rollback,
        End, rowVars, requestVars
<1>19. ASSUME NEW t \in Slots, ActivateUser(t)
      PROVE  AllServe'
  BY <1>19
     DEF TypeOK, AllServe, Serves, InvitePlaces, ActivateUser, Goto, rowVars,
        requestVars
<1>20. ASSUME NEW t \in Slots, ConsumeInvite(t)
      PROVE  AllServe'
  BY <1>20
     DEF TypeOK, AllServe, Serves, InvitePlaces, ConsumeInvite, Goto, Rollback,
        End, rowVars, requestVars
<1>21. ASSUME NEW t \in Slots, Join(t)
      PROVE  AllServe'
  BY <1>21 DEF TypeOK, AllServe, Serves, InvitePlaces, Join, End, Goto
<1>22. ASSUME NEW t \in Slots, Fail(t)
      PROVE  AllServe'
  BY <1>22
     DEF TypeOK, AllServe, Serves, InvitePlaces, Fail, Rollback, End, Goto,
        rowVars
<1>23. CASE UNCHANGED vars
  BY <1>23 DEF AllServe, Serves, vars, rowVars, requestVars, slotVars
<1>24. QED
  BY <1>1, <1>2, <1>3, <1>4, <1>5, <1>6, <1>7, <1>8, <1>9, <1>10, <1>11, <1>12,
     <1>13, <1>14, <1>15, <1>16, <1>17, <1>18, <1>19, <1>20, <1>21, <1>22,
     <1>23
     DEF Next, Step

LEMMA ExcludeStep ==
  ASSUME TypeOK, AllServe, LocksExclude, [Next]_vars
  PROVE  LocksExclude'
<1>1. ASSUME NEW t \in Slots, NEW u \in Users, Login(t, u)
      PROVE  LocksExclude'
  BY <1>1 DEF LocksExclude, InGate, LocksOrganization, LocksUser, Login, Goto
<1>2. ASSUME NEW t \in Slots, SignLogin(t)
      PROVE  LocksExclude'
  BY <1>2
     DEF LocksExclude, InGate, LocksOrganization, LocksUser, SignLogin, End,
        Goto
<1>3. ASSUME NEW u \in Users, ResetPassword(u)
      PROVE  LocksExclude'
  BY <1>3
     DEF LocksExclude, InGate, LocksOrganization, LocksUser, ResetPassword,
        requestVars, slotVars
<1>4. ASSUME NEW u \in Users, RemoveMember(u)
      PROVE  LocksExclude'
  BY <1>4
     DEF LocksExclude, InGate, LocksOrganization, LocksUser,
     RemoveMember, ChangeMember,
        requestVars, slotVars
<1>5. ASSUME NEW u \in Users, UpdateMemberRole(u)
      PROVE  LocksExclude'
  BY <1>5
     DEF LocksExclude, InGate, LocksOrganization, LocksUser,
     UpdateMemberRole, ChangeMember,
        requestVars, slotVars
<1>6. ASSUME NEW t \in Slots, NEW u \in Users, BootstrapOwner(t, u)
      PROVE  LocksExclude'
  BY <1>6
     DEF LocksExclude, InGate, LocksOrganization, LocksUser, BootstrapOwner,
        Begin, Goto
<1>7. ASSUME NEW t \in Slots, LockGate(t)
      PROVE  LocksExclude'
  BY <1>7
     DEF LocksExclude, InGate, LocksOrganization, LocksUser, LockGate, Goto,
        requestVars
<1>8. ASSUME NEW t \in Slots, CountAll(t)
      PROVE  LocksExclude'
  BY <1>8
     DEF TypeOK, LocksExclude, InGate, LocksOrganization, LocksUser, CountAll,
        Goto, Rollback, End, requestVars
<1>9. ASSUME NEW t \in Slots, CreateOwner(t)
      PROVE  LocksExclude'
  BY <1>9
     DEF LocksExclude, InGate, LocksOrganization, LocksUser, CreateOwner, End,
        Goto
<1>10. ASSUME NEW t \in Slots, NEW u \in Users, ReadOwner(t, u)
      PROVE  LocksExclude'
  BY <1>10
     DEF LocksExclude, InGate, LocksOrganization, LocksUser, ReadOwner, Begin,
        Goto
<1>11. ASSUME NEW t \in Slots, LockOrganization(t)
      PROVE  LocksExclude'
  BY <1>11
     DEF TypeOK, LocksExclude, InGate, LocksOrganization, LocksUser,
        LockOrganization, OrganizationLocked, Goto, Rollback, End, requestVars
<1>12. ASSUME NEW t \in Slots, CountOwners(t)
      PROVE  LocksExclude'
  BY <1>12
     DEF TypeOK, LocksExclude, InGate, LocksOrganization, LocksUser,
        CountOwners, Goto, Rollback, End, requestVars
<1>13. ASSUME NEW t \in Slots, ActivateOwner(t)
      PROVE  LocksExclude'
  BY <1>13
     DEF TypeOK, LocksExclude, InGate, LocksOrganization, LocksUser,
        ActivateOwner, UserLockedByOther, Goto, End, requestVars
<1>14. ASSUME NEW t \in Slots, CommitRecovery(t)
      PROVE  LocksExclude'
  BY <1>14
     DEF TypeOK, LocksExclude, InGate, LocksOrganization, LocksUser,
        CommitRecovery, End, Goto
<1>15. ASSUME NEW t \in Slots, NEW i \in Invites, AcceptInvite(t, i)
      PROVE  LocksExclude'
  BY <1>15
     DEF LocksExclude, InGate, LocksOrganization, LocksUser, AcceptInvite,
        Begin, Goto
<1>16. ASSUME NEW t \in Slots, NEW i \in Invites, NEW c \in cookies,
              AcceptInviteWithSession(t, i, c)
      PROVE  LocksExclude'
  BY <1>16
     DEF LocksExclude, InGate, LocksOrganization, LocksUser,
        AcceptInviteWithSession, Begin, Goto
<1>17. ASSUME NEW t \in Slots, ReadInvite(t)
      PROVE  LocksExclude'
  <2>1. /\ ~InGate(t)' /\ ~LocksOrganization(t)' /\ ~LocksUser(t)'
    BY <1>17
       DEF TypeOK, InGate, LocksOrganization, LocksUser, ReadInvite, Needed,
          Backed, Goto, Rollback, End
  <2>2. \A s \in Slots \ {t} : UNCHANGED <<place[s], user[s], seenPassword[s]>>
    BY <1>17 DEF TypeOK, ReadInvite, Goto, Rollback, End
  <2>3. QED
    BY <2>1, <2>2 DEF LocksExclude, InGate, LocksOrganization, LocksUser
<1>18. ASSUME NEW t \in Slots, CreateUser(t)
      PROVE  LocksExclude'
  BY <1>18
     DEF TypeOK, LocksExclude, InGate, LocksOrganization, LocksUser,
        CreateUser, UserLockedByOther, Goto, Rollback, End, requestVars
<1>19. ASSUME NEW t \in Slots, ActivateUser(t)
      PROVE  LocksExclude'
  BY <1>19
     DEF TypeOK, LocksExclude, InGate, LocksOrganization, LocksUser,
        ActivateUser, UserLockedByOther, Goto, requestVars
<1>20. ASSUME NEW t \in Slots, ConsumeInvite(t)
      PROVE  LocksExclude'
  BY <1>20
     DEF TypeOK, LocksExclude, InGate, LocksOrganization, LocksUser,
        ConsumeInvite, Goto, Rollback, End, requestVars
<1>21. ASSUME NEW t \in Slots, Join(t)
      PROVE  LocksExclude'
  BY <1>21
     DEF TypeOK, LocksExclude, InGate, LocksOrganization, LocksUser, Join, End,
        Goto
<1>22. ASSUME NEW t \in Slots, Fail(t)
      PROVE  LocksExclude'
  BY <1>22
     DEF TypeOK, LocksExclude, InGate, LocksOrganization, LocksUser, Fail,
        Rollback, End, Goto
<1>23. CASE UNCHANGED vars
  BY <1>23
     DEF LocksExclude, InGate, LocksOrganization, LocksUser, vars, requestVars,
        slotVars
<1>24. QED
  BY <1>1, <1>2, <1>3, <1>4, <1>5, <1>6, <1>7, <1>8, <1>9, <1>10, <1>11, <1>12,
     <1>13, <1>14, <1>15, <1>16, <1>17, <1>18, <1>19, <1>20, <1>21, <1>22,
     <1>23
     DEF Next, Step

LEMMA ProtectStep ==
  ASSUME TypeOK, Accounts, AllServe, LocksExclude, LocksProtect, [Next]_vars
  PROVE  LocksProtect'
<1>1. ASSUME NEW t \in Slots, NEW u \in Users, Login(t, u)
      PROVE  LocksProtect'
  BY <1>1
     DEF LocksProtect, NoOwnerBacked, LocksUser, Backed, Login, Goto, rowVars
<1>2. ASSUME NEW t \in Slots, SignLogin(t)
      PROVE  LocksProtect'
  BY <1>2
     DEF LocksProtect, NoOwnerBacked, LocksUser, Backed, SignLogin, End, Goto,
        rowVars
<1>3. ASSUME NEW u \in Users, ResetPassword(u)
      PROVE  LocksProtect'
  BY <1>3
     DEF LocksProtect, NoOwnerBacked, LocksUser, Backed, ResetPassword,
        requestVars, slotVars
<1>4. ASSUME NEW u \in Users, RemoveMember(u)
      PROVE  LocksProtect'
  BY <1>4
     DEF LocksProtect, LocksOrganization, LocksUser, Backed,
     RemoveMember, ChangeMember,
        OrganizationLocked, requestVars, slotVars
<1>5. ASSUME NEW u \in Users, UpdateMemberRole(u)
      PROVE  LocksProtect'
  BY <1>5
     DEF LocksProtect, LocksOrganization, LocksUser, Backed,
     UpdateMemberRole, ChangeMember,
        OrganizationLocked, requestVars, slotVars
<1>6. ASSUME NEW t \in Slots, NEW u \in Users, BootstrapOwner(t, u)
      PROVE  LocksProtect'
  BY <1>6
     DEF LocksProtect, NoOwnerBacked, LocksUser, Backed, BootstrapOwner, Begin,
        Goto, rowVars
<1>7. ASSUME NEW t \in Slots, LockGate(t)
      PROVE  LocksProtect'
  BY <1>7
     DEF LocksProtect, NoOwnerBacked, LocksUser, Backed, LockGate, Goto,
        rowVars, requestVars
<1>8. ASSUME NEW t \in Slots, CountAll(t)
      PROVE  LocksProtect'
  BY <1>8
     DEF TypeOK, LocksProtect, NoOwnerBacked, LocksUser, Backed, CountAll,
        Goto, Rollback, End, rowVars, requestVars
<1>9. ASSUME NEW t \in Slots, CreateOwner(t)
      PROVE  LocksProtect'
  BY <1>9
     DEF AllServe, Serves, InvitePlaces, LocksProtect, LocksUser, CreateOwner,
        End, Goto
<1>10. ASSUME NEW t \in Slots, NEW u \in Users, ReadOwner(t, u)
      PROVE  LocksProtect'
  BY <1>10
     DEF LocksProtect, NoOwnerBacked, LocksUser, Backed, ReadOwner, Begin,
        Goto, rowVars
<1>11. ASSUME NEW t \in Slots, LockOrganization(t)
      PROVE  LocksProtect'
  BY <1>11
     DEF TypeOK, LocksProtect, LocksOrganization, LocksUser, Backed,
        LockOrganization, OrganizationLocked, Goto, Rollback, End, rowVars,
        requestVars
<1>12. ASSUME NEW t \in Slots, CountOwners(t)
      PROVE  LocksProtect'
  BY <1>12
     DEF TypeOK, LocksProtect, NoOwnerBacked, LocksUser, Backed, CountOwners,
        Goto, Rollback, End, rowVars, requestVars
<1>13. ASSUME NEW t \in Slots, ActivateOwner(t)
      PROVE  LocksProtect'
  BY <1>13
     DEF TypeOK, LocksProtect, NoOwnerBacked, LocksUser, Backed, ActivateOwner,
        Goto, End, rowVars, requestVars
<1>14. ASSUME NEW t \in Slots, CommitRecovery(t)
      PROVE  LocksProtect'
  BY <1>14
     DEF TypeOK, AllServe, Serves, LocksExclude, LocksProtect,
        LocksOrganization, LocksUser, Backed, CommitRecovery, SetPassword, End,
        Goto
<1>15. ASSUME NEW t \in Slots, NEW i \in Invites, AcceptInvite(t, i)
      PROVE  LocksProtect'
  BY <1>15
     DEF LocksProtect, NoOwnerBacked, LocksUser, Backed, AcceptInvite, Begin,
        Goto, rowVars
<1>16. ASSUME NEW t \in Slots, NEW i \in Invites, NEW c \in cookies,
              AcceptInviteWithSession(t, i, c)
      PROVE  LocksProtect'
  BY <1>16
     DEF LocksProtect, NoOwnerBacked, LocksUser, Backed,
        AcceptInviteWithSession, Begin, Goto, rowVars
<1>17. ASSUME NEW t \in Slots, ReadInvite(t)
      PROVE  LocksProtect'
  BY <1>17
     DEF TypeOK, LocksProtect, NoOwnerBacked, LocksUser, Backed, ReadInvite,
        Needed, Goto, Rollback, End, rowVars
<1>18. ASSUME NEW t \in Slots, CreateUser(t)
      PROVE  LocksProtect'
  BY <1>18
     DEF TypeOK, Accounts, AllServe, Serves, LocksProtect, NoOwnerBacked,
        LocksUser, Backed, CreateUser, Goto, Rollback, End, rowVars,
        requestVars
<1>19. ASSUME NEW t \in Slots, ActivateUser(t)
      PROVE  LocksProtect'
  BY <1>19
     DEF TypeOK, LocksProtect, NoOwnerBacked, LocksUser, Backed, ActivateUser,
        Goto, rowVars, requestVars
<1>20. ASSUME NEW t \in Slots, ConsumeInvite(t)
      PROVE  LocksProtect'
  BY <1>20
     DEF TypeOK, LocksProtect, NoOwnerBacked, LocksUser, Backed, ConsumeInvite,
        Goto, Rollback, End, rowVars, requestVars
<1>21. ASSUME NEW t \in Slots, Join(t)
      PROVE  LocksProtect'
  BY <1>21
     DEF TypeOK, AllServe, Serves, LocksExclude, LocksProtect,
        LocksOrganization, LocksUser, Backed, Join, OrganizationLocked,
        SetPassword, End, Goto
<1>22. ASSUME NEW t \in Slots, Fail(t)
      PROVE  LocksProtect'
  BY <1>22
     DEF TypeOK, LocksProtect, NoOwnerBacked, LocksUser, Backed, Fail,
        Rollback, End, Goto, rowVars
<1>23. CASE UNCHANGED vars
  BY <1>23
     DEF LocksProtect, NoOwnerBacked, LocksUser, Backed, vars, rowVars,
        requestVars, slotVars
<1>24. QED
  BY <1>1, <1>2, <1>3, <1>4, <1>5, <1>6, <1>7, <1>8, <1>9, <1>10, <1>11, <1>12,
     <1>13, <1>14, <1>15, <1>16, <1>17, <1>18, <1>19, <1>20, <1>21, <1>22,
     <1>23
     DEF Next, Step

LEMMA EarnedStep ==
  ASSUME TypeOK, Accounts, AllServe, LocksProtect, Earned, [Next]_vars
  PROVE  Earned'
<1>1. ASSUME NEW t \in Slots, NEW u \in Users, Login(t, u)
      PROVE  Earned'
  BY <1>1 DEF TypeOK, Earned, Fresh, Login, Goto, rowVars
<1>2. ASSUME NEW t \in Slots, SignLogin(t)
      PROVE  Earned'
  BY <1>2 DEF TypeOK, Earned, Fresh, SignLogin, Sign, End, Goto, rowVars
<1>3. ASSUME NEW u \in Users, ResetPassword(u)
      PROVE  Earned'
  BY <1>3
     DEF TypeOK, Earned, Fresh, Cookie, ResetPassword, requestVars, slotVars
<1>4. ASSUME NEW u \in Users, RemoveMember(u)
      PROVE  Earned'
  BY <1>4 DEF Earned, Fresh, RemoveMember, ChangeMember, requestVars, slotVars
<1>5. ASSUME NEW u \in Users, UpdateMemberRole(u)
      PROVE  Earned'
  BY <1>5 DEF Earned, Fresh,
     UpdateMemberRole, ChangeMember, requestVars, slotVars
<1>6. ASSUME NEW t \in Slots, NEW u \in Users, BootstrapOwner(t, u)
      PROVE  Earned'
  BY <1>6 DEF Earned, Fresh, BootstrapOwner, Begin, Goto, rowVars
<1>7. ASSUME NEW t \in Slots, LockGate(t)
      PROVE  Earned'
  BY <1>7 DEF Earned, Fresh, LockGate, Goto, rowVars, requestVars
<1>8. ASSUME NEW t \in Slots, CountAll(t)
      PROVE  Earned'
  BY <1>8
     DEF TypeOK, Earned, Fresh, CountAll, Goto, Rollback, End, rowVars,
        requestVars
<1>9. ASSUME NEW t \in Slots, CreateOwner(t)
      PROVE  Earned'
  BY <1>9
     DEF TypeOK, Accounts, AllServe, Serves, Earned, Fresh, CreateOwner, Sign,
        End, Goto, rowVars
<1>10. ASSUME NEW t \in Slots, NEW u \in Users, ReadOwner(t, u)
      PROVE  Earned'
  BY <1>10 DEF Earned, Fresh, ReadOwner, Begin, Goto, rowVars
<1>11. ASSUME NEW t \in Slots, LockOrganization(t)
      PROVE  Earned'
  BY <1>11
     DEF TypeOK, Earned, Fresh, LockOrganization, Goto, Rollback, End, rowVars,
        requestVars
<1>12. ASSUME NEW t \in Slots, CountOwners(t)
      PROVE  Earned'
  BY <1>12
     DEF TypeOK, Earned, Fresh, CountOwners, Goto, Rollback, End, rowVars,
        requestVars
<1>13. ASSUME NEW t \in Slots, ActivateOwner(t)
      PROVE  Earned'
  BY <1>13
     DEF TypeOK, AllServe, Serves, Earned, Fresh, ActivateOwner, Goto, Sign,
        End, rowVars, requestVars
<1>14. ASSUME NEW t \in Slots, CommitRecovery(t)
      PROVE  Earned'
  BY <1>14
     DEF TypeOK, AllServe, Serves, Earned, Fresh, Cookie, CommitRecovery,
        SetPassword, Sign, End, Goto
<1>15. ASSUME NEW t \in Slots, NEW i \in Invites, AcceptInvite(t, i)
      PROVE  Earned'
  BY <1>15 DEF Earned, Fresh, AcceptInvite, Begin, Goto, rowVars
<1>16. ASSUME NEW t \in Slots, NEW i \in Invites, NEW c \in cookies,
              AcceptInviteWithSession(t, i, c)
      PROVE  Earned'
  BY <1>16 DEF Earned, Fresh, AcceptInviteWithSession, Begin, Goto, rowVars
<1>17. ASSUME NEW t \in Slots, ReadInvite(t)
      PROVE  Earned'
  BY <1>17
     DEF TypeOK, Earned, Fresh, ReadInvite, Needed, Goto, Rollback, End,
        rowVars
<1>18. ASSUME NEW t \in Slots, CreateUser(t)
      PROVE  Earned'
  BY <1>18
     DEF TypeOK, AllServe, Serves, Earned, Fresh, CreateUser, Goto, Rollback,
        End, rowVars, requestVars
<1>19. ASSUME NEW t \in Slots, ActivateUser(t)
      PROVE  Earned'
  BY <1>19
     DEF TypeOK, AllServe, Serves, Earned, Fresh, ActivateUser, Goto, rowVars,
        requestVars
<1>20. ASSUME NEW t \in Slots, ConsumeInvite(t)
      PROVE  Earned'
  BY <1>20
     DEF TypeOK, Earned, Fresh, ConsumeInvite, Goto, Rollback, End, rowVars,
        requestVars
<1>21. ASSUME NEW t \in Slots, Join(t)
      PROVE  Earned'
  BY <1>21
     DEF TypeOK, Accounts, AllServe, Serves, InvitePlaces, Earned, Fresh,
        Cookie, Join, SetPassword, Sign, End, Goto
<1>22. ASSUME NEW t \in Slots, Fail(t)
      PROVE  Earned'
  BY <1>22 DEF TypeOK, Earned, Fresh, Fail, Rollback, End, Goto, rowVars
<1>23. CASE UNCHANGED vars
  BY <1>23 DEF Earned, Fresh, vars, rowVars, requestVars, slotVars
<1>24. QED
  BY <1>1, <1>2, <1>3, <1>4, <1>5, <1>6, <1>7, <1>8, <1>9, <1>10, <1>11, <1>12,
     <1>13, <1>14, <1>15, <1>16, <1>17, <1>18, <1>19, <1>20, <1>21, <1>22,
     <1>23
     DEF Next, Step

LEMMA FirstOwnerStep ==
  ASSUME TypeOK, Accounts, AllServe, OneFirstOwner, [Next]_vars
  PROVE  OneFirstOwner'
<1>1. ASSUME NEW t \in Slots, NEW u \in Users, Login(t, u)
      PROVE  OneFirstOwner'
  BY <1>1 DEF OneFirstOwner, Login
<1>2. ASSUME NEW t \in Slots, SignLogin(t)
      PROVE  OneFirstOwner'
  BY <1>2 DEF OneFirstOwner, SignLogin, Sign
<1>3. ASSUME NEW u \in Users, ResetPassword(u)
      PROVE  OneFirstOwner'
  BY <1>3 DEF OneFirstOwner, ResetPassword
<1>4. ASSUME NEW u \in Users, RemoveMember(u)
      PROVE  OneFirstOwner'
  BY <1>4 DEF OneFirstOwner, RemoveMember, ChangeMember
<1>5. ASSUME NEW u \in Users, UpdateMemberRole(u)
      PROVE  OneFirstOwner'
  BY <1>5 DEF OneFirstOwner, UpdateMemberRole, ChangeMember
<1>6. ASSUME NEW t \in Slots, NEW u \in Users, BootstrapOwner(t, u)
      PROVE  OneFirstOwner'
  BY <1>6 DEF OneFirstOwner, BootstrapOwner
<1>7. ASSUME NEW t \in Slots, LockGate(t)
      PROVE  OneFirstOwner'
  BY <1>7 DEF OneFirstOwner, LockGate
<1>8. ASSUME NEW t \in Slots, CountAll(t)
      PROVE  OneFirstOwner'
  BY <1>8 DEF OneFirstOwner, CountAll, Rollback
<1>9. ASSUME NEW t \in Slots, CreateOwner(t)
      PROVE  OneFirstOwner'
  BY <1>9 DEF Accounts, AllServe, Serves, OneFirstOwner, CreateOwner, Sign
<1>10. ASSUME NEW t \in Slots, NEW u \in Users, ReadOwner(t, u)
      PROVE  OneFirstOwner'
  BY <1>10 DEF OneFirstOwner, ReadOwner
<1>11. ASSUME NEW t \in Slots, LockOrganization(t)
      PROVE  OneFirstOwner'
  BY <1>11 DEF OneFirstOwner, LockOrganization, Rollback
<1>12. ASSUME NEW t \in Slots, CountOwners(t)
      PROVE  OneFirstOwner'
  BY <1>12 DEF OneFirstOwner, CountOwners, Rollback
<1>13. ASSUME NEW t \in Slots, ActivateOwner(t)
      PROVE  OneFirstOwner'
  BY <1>13 DEF OneFirstOwner, ActivateOwner, Sign
<1>14. ASSUME NEW t \in Slots, CommitRecovery(t)
      PROVE  OneFirstOwner'
  BY <1>14 DEF OneFirstOwner, CommitRecovery, Sign
<1>15. ASSUME NEW t \in Slots, NEW i \in Invites, AcceptInvite(t, i)
      PROVE  OneFirstOwner'
  BY <1>15 DEF OneFirstOwner, AcceptInvite
<1>16. ASSUME NEW t \in Slots, NEW i \in Invites, NEW c \in cookies,
              AcceptInviteWithSession(t, i, c)
      PROVE  OneFirstOwner'
  BY <1>16 DEF OneFirstOwner, AcceptInviteWithSession
<1>17. ASSUME NEW t \in Slots, ReadInvite(t)
      PROVE  OneFirstOwner'
  BY <1>17 DEF OneFirstOwner, ReadInvite, Rollback
<1>18. ASSUME NEW t \in Slots, CreateUser(t)
      PROVE  OneFirstOwner'
  BY <1>18 DEF OneFirstOwner, CreateUser, Rollback
<1>19. ASSUME NEW t \in Slots, ActivateUser(t)
      PROVE  OneFirstOwner'
  BY <1>19 DEF OneFirstOwner, ActivateUser
<1>20. ASSUME NEW t \in Slots, ConsumeInvite(t)
      PROVE  OneFirstOwner'
  BY <1>20 DEF OneFirstOwner, ConsumeInvite, Rollback
<1>21. ASSUME NEW t \in Slots, Join(t)
      PROVE  OneFirstOwner'
  BY <1>21 DEF AllServe, Serves, InvitePlaces, OneFirstOwner, Join, Sign
<1>22. ASSUME NEW t \in Slots, Fail(t)
      PROVE  OneFirstOwner'
  BY <1>22 DEF OneFirstOwner, Fail, Rollback
<1>23. CASE UNCHANGED vars
  BY <1>23 DEF OneFirstOwner, vars
<1>24. QED
  BY <1>1, <1>2, <1>3, <1>4, <1>5, <1>6, <1>7, <1>8, <1>9, <1>10, <1>11, <1>12,
     <1>13, <1>14, <1>15, <1>16, <1>17, <1>18, <1>19, <1>20, <1>21, <1>22,
     <1>23
     DEF Next, Step

LEMMA AccessInvariant == Spec => []AccessInv
<1>1. AccessInv /\ [Next]_vars => AccessInv'
  BY TypeStep, AccountsStep, ServesStep, ExcludeStep, ProtectStep, EarnedStep,
     FirstOwnerStep DEF AccessInv
<1>2. QED
  BY <1>1, AccessInit, PTL DEF Spec

(* Every reachable state is well typed.                                     *)
THEOREM TypeCorrect == Spec => []TypeOK
<1>1. AccessInv => TypeOK
  BY DEF AccessInv
<1>2. QED
  BY <1>1, AccessInvariant, PTL

(* No session outlives the password it was opened with, whatever login,      *)
(* acceptance or recovery was under way when the password changed; except    *)
(* those acceptInvite signs for the holder of another session, which it      *)
(* gives the version it reads without looking at that session again.        *)
THEOREM SessionsAreEarned == Spec => []SessionIsEarned
<1>1. AccessInv => SessionIsEarned
  BY DEF AccessInv, Earned, Fresh, SessionIsEarned, Accepted
<1>2. QED
  BY <1>1, AccessInvariant, PTL

(* However many requests bootstrap an empty database at once, one account    *)
(* becomes its first owner.                                                 *)
THEOREM AtMostOneFirstOwner == Spec => []OneFirstOwner
<1>1. AccessInv => OneFirstOwner
  BY DEF AccessInv
<1>2. QED
  BY <1>1, AccessInvariant, PTL

(* Bootstrap, recovery and invitations set a password only where there is    *)
(* none: they never overwrite one another's.                                *)
THEOREM SetPasswordsStay == Spec => OnlyResetsReplace
<1>1. ASSUME AccessInv, [Next]_vars, NEW u \in Users, Backed(u),
             password'[u] # password[u]
      PROVE  UNCHANGED slotVars
  <2>1. \A t \in Slots : ~(CreateOwner(t) \/ CommitRecovery(t) \/ Join(t))
    <3>1. ASSUME NEW t \in Slots, CreateOwner(t)
          PROVE  FALSE
      BY <1>1, <3>1 DEF AccessInv, TypeOK, Accounts, CreateOwner, Backed,
         rowVars
    <3>2. ASSUME NEW t \in Slots, CommitRecovery(t)
          PROVE  FALSE
      BY <1>1, <3>2
         DEF AccessInv, AllServe, Serves, LocksProtect, LocksUser,
            CommitRecovery, SetPassword
    <3>3. ASSUME NEW t \in Slots, Join(t)
          PROVE  FALSE
      BY <1>1, <3>3
         DEF AccessInv, TypeOK, LocksProtect, LocksUser, Join, SetPassword
    <3>4. QED
      BY <3>1, <3>2, <3>3
  <2>2. PICK v \in Users : ResetPassword(v)
    BY <1>1, <2>1 DEF Next, Step, Login, SignLogin, RemoveMember,
       UpdateMemberRole, ChangeMember,
       BootstrapOwner, LockGate, CountAll, ReadOwner, LockOrganization,
       CountOwners, ActivateOwner, AcceptInvite, AcceptInviteWithSession,
       ReadInvite, CreateUser, ActivateUser, ConsumeInvite, Fail, Rollback,
       vars, rowVars
  <2>3. QED
    BY <2>2 DEF ResetPassword
<1>2. AccessInv /\ [Next]_vars =>
        [\A u \in Users :
           (Backed(u) /\ password'[u] # password[u]) => UNCHANGED slotVars]_vars
  BY <1>1
<1>3. QED
  BY <1>2, AccessInvariant, PTL DEF Spec, OnlyResetsReplace

(* An owner's access is recovered only while no owner has a password, at the *)
(* commit as at the count, with invitations and promotions meanwhile.       *)
THEOREM RecoveryStaysLastResort == Spec => RecoveryIsLastResort
<1>1. AccessInv /\ [Next]_vars =>
        [\A t \in Slots :
           (place[t] = "recovered" /\ password'[user[t]] # password[user[t]]) =>
             \A v \in Users : role[v] = "OWNER" => ~Backed(v)]_vars
  BY DEF AccessInv, LocksProtect, NoOwnerBacked
<1>2. QED
  BY <1>1, AccessInvariant, PTL DEF Spec, RecoveryIsLastResort
==============================================================================
