----------------------------- MODULE AccountAccess -----------------------------
(***************************************************************************)
(* Who gets into one organization: login, the session cookies and the       *)
(* guard, bootstrap of the first owner, owner recovery, and acceptance of   *)
(* invitations as far as it creates or activates accounts.                  *)
(*                                                                         *)
(* A statement is an action, as in TeamMembership.  The passwords of a user *)
(* are numbered; 0 is a passwordHash that is null.  A login or acceptance   *)
(* with another password than the one it is compared with changes nothing   *)
(* and is left out.  Verification mode is "soft", the default.              *)
(***************************************************************************)
EXTENDS Naturals

CONSTANTS
  Users,
  InitialRole, \* for the organization that exists before passwords were added
  Invites,     \* its pending invitations
  Invitee, InvitedRole,
  Slots, NoSlot, NoUser, NoInvite,
  MaxPasswords \* bound on the passwords a user sets one after the other

Role == {"OWNER", "AGENT"}

ASSUME AccessAssumption ==
  /\ InitialRole \in [Users -> Role \cup {"none"}]
  /\ \E u \in Users : InitialRole[u] = "OWNER" \* an organization has an owner
  /\ Invitee \in [Invites -> Users]
  /\ InvitedRole \in [Invites -> Role]
  /\ NoSlot \notin Slots /\ NoUser \notin Users /\ NoInvite \notin Invites
  /\ MaxPasswords \in Nat \ {0}

\* How a session came about.
Ways == {"legacy", "login", "bootstrap", "recovery", "invite", "invite+session"}

VARIABLES
  exists,   \* users that have a row
  password, \* their current password
  version,  \* User.sessionVersion
  role,     \* their role in the organization
  invite,   \* "pending", "accepted", or "none" before there is an organization
  cookies,  \* the sessions that were ever signed; they are not stored anywhere
  place, user, inviteOf, way, \* of each slot: its step and its request
  seenPassword, seenVersion,  \* the row its transaction has read
  proof     \* the password the request's caller has shown to know

rowVars == <<exists, password, version, role, invite>>
requestVars == <<user, inviteOf, way, proof>>
slotVars == <<place, requestVars, seenPassword, seenVersion>>
vars == <<rowVars, cookies, slotVars>>

Places == {"idle", "compare", "gate", "count", "create", "lockOrg", "owners",
           "activate", "recovered", "invite", "newcomer", "setPassword",
           "consume", "join"}

Cookie ==
  [user : Users, version : Nat, proof : Nat, way : Ways]

TypeOK ==
  /\ exists \subseteq Users
  /\ password \in [Users -> Nat]
  /\ version \in [Users -> Nat]
  /\ role \in [Users -> Role \cup {"none"}]
  /\ invite \in [Invites -> {"none", "pending", "accepted"}]
  /\ cookies \subseteq Cookie
  /\ place \in [Slots -> Places]
  /\ user \in [Slots -> Users \cup {NoUser}]
  /\ inviteOf \in [Slots -> Invites \cup {NoInvite}]
  /\ way \in [Slots -> Ways]
  /\ seenPassword \in [Slots -> Nat]
  /\ seenVersion \in [Slots -> Nat]
  /\ proof \in [Slots -> Nat]

\* An empty database, or an organization whose accounts have no passwords yet
\* and whose members may still hold sessions of that time.
InitRows ==
  \/ /\ exists = {} /\ cookies = {}
     /\ role = [u \in Users |-> "none"]
     /\ invite = [i \in Invites |-> "none"]
  \/ /\ exists = {u \in Users : InitialRole[u] # "none"}
     /\ role = InitialRole
     /\ invite = [i \in Invites |-> "pending"]
     /\ cookies = {[user |-> u, version |-> 0, proof |-> 0, way |-> "legacy"] :
                     u \in exists}

Init ==
  /\ InitRows
  /\ password = [u \in Users |-> 0]
  /\ version = [u \in Users |-> 0]
  /\ place = [t \in Slots |-> "idle"]
  /\ user = [t \in Slots |-> NoUser]
  /\ inviteOf = [t \in Slots |-> NoInvite]
  /\ way = [t \in Slots |-> "login"]
  /\ seenPassword = [t \in Slots |-> 0]
  /\ seenVersion = [t \in Slots |-> 0]
  /\ proof = [t \in Slots |-> 0]

-----------------------------------------------------------------------------
(* Sessions and transactions.                                              *)

\* getSessionDetails, which SessionAuthGuard calls for every request: the
\* cookie's user is a member and sessionVersion is the cookie's.
Accepted(c) == role[c.user] # "none" /\ version[c.user] = c.version

Sign(u, v, p, w) ==
  cookies' = cookies \cup {[user |-> u, version |-> v, proof |-> p, way |-> w]}

Goto(t, next) == place' = [place EXCEPT ![t] = next]

End(t) ==
  /\ Goto(t, "idle")
  /\ user' = [user EXCEPT ![t] = NoUser]
  /\ inviteOf' = [inviteOf EXCEPT ![t] = NoInvite]
  /\ way' = [way EXCEPT ![t] = "login"]
  /\ seenPassword' = [seenPassword EXCEPT ![t] = 0]
  /\ seenVersion' = [seenVersion EXCEPT ![t] = 0]
  /\ proof' = [proof EXCEPT ![t] = 0]

Rollback(t) == End(t) /\ UNCHANGED <<rowVars, cookies>>

\* A statement fails, the request is refused, or a deadlock is resolved.
Fail(t) == place[t] # "idle" /\ Rollback(t)

\* The row lock of an account whose password a transaction has set.
LocksUser(t) == place[t] \in {"recovered", "consume", "join"} /\ seenPassword[t] = 0

UserLockedByOther(t, u) == \E s \in Slots \ {t} : user[s] = u /\ LocksUser(s)

\* FOR UPDATE of the organization's row, which excludes the FOR KEY SHARE that
\* every insert into audit_logs takes on it.
LocksOrganization(t) == place[t] \in {"owners", "activate", "recovered"}

OrganizationLocked == \E s \in Slots : LocksOrganization(s)

Backed(u) == password[u] # 0

-----------------------------------------------------------------------------
(* login, confirmPasswordReset, and the members who leave.                 *)

Login(t, u) ==
  /\ place[t] = "idle"
  /\ u \in exists /\ Backed(u) /\ role[u] # "none"
  /\ Goto(t, "compare")
  /\ user' = [user EXCEPT ![t] = u]
  /\ proof' = [proof EXCEPT ![t] = password[u]]
  /\ seenPassword' = [seenPassword EXCEPT ![t] = password[u]]
  /\ seenVersion' = [seenVersion EXCEPT ![t] = version[u]]
  /\ UNCHANGED <<rowVars, cookies, inviteOf, way>>

\* Mutation: the session is signed with a sessionVersion that is read again.
LoginWithFreshVersion(t) ==
  /\ place[t] = "compare"
  /\ Sign(user[t], version[user[t]], proof[t], "login")
  /\ End(t)
  /\ UNCHANGED rowVars

\* bcrypt.compare has returned; the session is signed from the row read before.
SignLogin(t) ==
  /\ place[t] = "compare"
  /\ Sign(user[t], seenVersion[t], proof[t], "login")
  /\ End(t)
  /\ UNCHANGED rowVars

\* The user update of a reset link (AuthLinks has the rest of it).
ResetPassword(u) ==
  /\ Backed(u) /\ password[u] < MaxPasswords
  /\ \A t \in Slots : ~(user[t] = u /\ LocksUser(t))
  /\ password' = [password EXCEPT ![u] = @ + 1]
  /\ version' = [version EXCEPT ![u] = @ + 1]
  /\ UNCHANGED <<exists, role, invite, cookies, slotVars>>

\* removeMember and updateMemberRole by another member who is an owner
\* (TeamMembership has their locks); both write an audit entry.
ChangeMember(u, r) ==
  /\ role[u] # "none" /\ ~OrganizationLocked
  /\ \E actor \in Users \ {u} : role[actor] = "OWNER"
  /\ role' = [role EXCEPT ![u] = r]
  /\ UNCHANGED <<exists, password, version, invite, cookies, slotVars>>

RemoveMember(u) == ChangeMember(u, "none")

UpdateMemberRole(u) == \E r \in Role : ChangeMember(u, r)

-----------------------------------------------------------------------------
(* bootstrapOwner.                                                         *)

Begin(t, u, w, first) ==
  /\ place[t] = "idle"
  /\ Goto(t, first)
  /\ user' = [user EXCEPT ![t] = u]
  /\ way' = [way EXCEPT ![t] = w]

BootstrapOwner(t, u) ==
  /\ Begin(t, u, "bootstrap", "gate")
  /\ UNCHANGED <<rowVars, cookies, inviteOf, proof, seenPassword, seenVersion>>

\* Mutation: there is no advisory lock.
OpenGate(t) ==
  /\ place[t] = "gate"
  /\ Goto(t, "count")
  /\ UNCHANGED <<rowVars, cookies, requestVars, seenPassword, seenVersion>>

\* lockBootstrapGate: the advisory lock is held until the transaction ends.
LockGate(t) ==
  /\ place[t] = "gate"
  /\ \A s \in Slots : place[s] \notin {"count", "create"}
  /\ Goto(t, "count")
  /\ UNCHANGED <<rowVars, cookies, requestVars, seenPassword, seenVersion>>

\* isBootstrapAvailable.
CountAll(t) ==
  /\ place[t] = "count"
  /\ IF exists = {}
       THEN Goto(t, "create")
            /\ UNCHANGED <<rowVars, cookies, requestVars, seenPassword, seenVersion>>
       ELSE Rollback(t)

CreateOwner(t) ==
  /\ place[t] = "create"
  /\ IF user[t] \in exists
       THEN UNCHANGED <<rowVars, cookies>>
       ELSE /\ exists' = exists \cup {user[t]}
            /\ password' = [password EXCEPT ![user[t]] = 1]
            /\ role' = [role EXCEPT ![user[t]] = "OWNER"]
            /\ Sign(user[t], 0, 1, "bootstrap")
            /\ UNCHANGED <<version, invite>>
  /\ End(t)

-----------------------------------------------------------------------------
(* recoverOwnerAccess, for a caller who has AUTH_RECOVERY_SECRET.          *)

ReadOwner(t, u) ==
  /\ role[u] = "OWNER"
  /\ Begin(t, u, "recovery", "lockOrg")
  /\ seenPassword' = [seenPassword EXCEPT ![t] = password[u]]
  /\ UNCHANGED <<rowVars, cookies, inviteOf, proof, seenVersion>>

\* Waits for the row; the owner's password is the one read before.
LockOrganization(t) ==
  /\ place[t] = "lockOrg"
  /\ ~OrganizationLocked
  /\ IF seenPassword[t] = 0
       THEN Goto(t, "owners")
            /\ UNCHANGED <<rowVars, cookies, requestVars, seenPassword, seenVersion>>
       ELSE Rollback(t)

\* Mutation: only the account itself is looked at.
CountNothing(t) ==
  /\ place[t] = "owners"
  /\ Goto(t, "activate")
  /\ UNCHANGED <<rowVars, cookies, requestVars, seenPassword, seenVersion>>

CountOwners(t) ==
  /\ place[t] = "owners"
  /\ IF \A v \in Users : role[v] = "OWNER" => ~Backed(v)
       THEN Goto(t, "activate")
            /\ UNCHANGED <<rowVars, cookies, requestVars, seenPassword, seenVersion>>
       ELSE Rollback(t)

\* updateMany where passwordHash is null, and the row read again.  When another
\* request has set the password first, the caller's may still be the same.
ActivateOwner(t) ==
  /\ place[t] = "activate"
  /\ ~UserLockedByOther(t, user[t])
  /\ IF ~Backed(user[t])
       THEN Goto(t, "recovered")
            /\ UNCHANGED <<cookies, requestVars, seenPassword, seenVersion>>
       ELSE /\ Sign(user[t], version[user[t]], password[user[t]], "recovery")
            /\ End(t)
  /\ UNCHANGED rowVars

\* Mutation: sessionVersion counts down.
SetPasswordAndRewind(u) ==
  /\ password' = [password EXCEPT ![u] = @ + 1]
  /\ version' = [version EXCEPT ![u] = @ - 1]

\* The number of the password that replaces the one the row has.
SetPassword(u) ==
  /\ password' = [password EXCEPT ![u] = @ + 1]
  /\ version' = [version EXCEPT ![u] = @ + 1]

CommitRecovery(t) ==
  /\ place[t] = "recovered"
  /\ SetPassword(user[t])
  /\ Sign(user[t], version'[user[t]], password'[user[t]], "recovery")
  /\ End(t)
  /\ UNCHANGED <<exists, role, invite>>

-----------------------------------------------------------------------------
(* acceptInvite.                                                           *)

AcceptInvite(t, i) ==
  /\ invite[i] = "pending"
  /\ Begin(t, Invitee[i], "invite", "invite")
  /\ inviteOf' = [inviteOf EXCEPT ![t] = i]
  /\ UNCHANGED <<rowVars, cookies, proof, seenPassword, seenVersion>>

\* The controller finds a session cookie and has it checked first.
AcceptInviteWithSession(t, i, c) ==
  /\ invite[i] = "pending"
  /\ c.user = Invitee[i] /\ Accepted(c)
  /\ Begin(t, Invitee[i], "invite+session", "invite")
  /\ inviteOf' = [inviteOf EXCEPT ![t] = i]
  /\ proof' = [proof EXCEPT ![t] = c.proof]
  /\ UNCHANGED <<rowVars, cookies, seenPassword, seenVersion>>

\* What the row calls for: an account, a password, or neither.
Needed(t) ==
  IF user[t] \notin exists THEN "newcomer"
  ELSE IF ~Backed(user[t]) THEN "setPassword"
  ELSE "consume"

\* The invitation and the user; a password is compared with the one read here.
ReadInvite(t) ==
  /\ place[t] = "invite"
  /\ IF /\ invite[inviteOf[t]] = "pending"
        /\ way[t] = "invite+session" => role[user[t]] # "none"
       THEN /\ Goto(t, Needed(t))
            /\ seenPassword' = [seenPassword EXCEPT ![t] = password[user[t]]]
            /\ seenVersion' = [seenVersion EXCEPT ![t] = version[user[t]]]
            /\ proof' = [proof EXCEPT ![t] =
                 IF way[t] = "invite" THEN password[user[t]] ELSE @]
            /\ UNCHANGED <<rowVars, cookies, user, inviteOf, way>>
       ELSE Rollback(t)

\* user.create.  A unique violation aborts the transaction, and the query that
\* looks the other row up fails with it.
CreateUser(t) ==
  /\ place[t] = "newcomer"
  /\ ~UserLockedByOther(t, user[t])
  /\ IF user[t] \in exists
       THEN Rollback(t)
       ELSE Goto(t, "consume")
            /\ UNCHANGED <<rowVars, cookies, requestVars, seenPassword, seenVersion>>

\* Mutation: the update does not require passwordHash to be null.
ActivateUserById(t) ==
  /\ place[t] = "setPassword"
  /\ ~UserLockedByOther(t, user[t])
  /\ Goto(t, "consume")
  /\ UNCHANGED <<rowVars, cookies, requestVars, seenPassword, seenVersion>>

\* updateMany where passwordHash is null, and the row read again.
ActivateUser(t) ==
  /\ place[t] = "setPassword"
  /\ ~UserLockedByOther(t, user[t])
  /\ Goto(t, "consume")
  /\ IF Backed(user[t])
       THEN /\ seenPassword' = [seenPassword EXCEPT ![t] = password[user[t]]]
            /\ seenVersion' = [seenVersion EXCEPT ![t] = version[user[t]]]
            /\ proof' = [proof EXCEPT ![t] = password[user[t]]]
            /\ UNCHANGED <<user, inviteOf, way>>
       ELSE UNCHANGED <<requestVars, seenPassword, seenVersion>>
  /\ UNCHANGED <<rowVars, cookies>>

InviteLockedByOther(t, i) ==
  \E s \in Slots \ {t} : place[s] = "join" /\ inviteOf[s] = i

ConsumeInvite(t) ==
  /\ place[t] = "consume"
  /\ ~InviteLockedByOther(t, inviteOf[t])
  /\ IF invite[inviteOf[t]] = "pending"
       THEN Goto(t, "join")
            /\ UNCHANGED <<rowVars, cookies, requestVars, seenPassword, seenVersion>>
       ELSE Rollback(t)

\* The membership is upserted; the audit entry waits for the organization's
\* row; the transaction commits and a session is signed.
Join(t) ==
  LET u == user[t]
      i == inviteOf[t]
  IN
  /\ place[t] = "join"
  /\ ~OrganizationLocked
  /\ IF seenPassword[t] # 0
       THEN /\ Sign(u, seenVersion[t], proof[t], way[t])
            /\ UNCHANGED <<exists, password, version>>
       ELSE IF u \in exists
       THEN /\ SetPassword(u)
            /\ Sign(u, version'[u], password'[u], way[t])
            /\ UNCHANGED exists
       ELSE /\ exists' = exists \cup {u}
            /\ password' = [password EXCEPT ![u] = 1]
            /\ Sign(u, 0, 1, way[t])
            /\ UNCHANGED version
  /\ role' = [role EXCEPT ![u] = IF @ = "none" THEN InvitedRole[i] ELSE @]
  /\ invite' = [invite EXCEPT ![i] = "accepted"]
  /\ End(t)

-----------------------------------------------------------------------------
Step(t) ==
  \/ \E u \in Users : Login(t, u) \/ BootstrapOwner(t, u) \/ ReadOwner(t, u)
  \/ SignLogin(t)
  \/ LockGate(t) \/ CountAll(t) \/ CreateOwner(t)
  \/ LockOrganization(t) \/ CountOwners(t) \/ ActivateOwner(t)
  \/ CommitRecovery(t)
  \/ \E i \in Invites : AcceptInvite(t, i)
  \/ \E i \in Invites, c \in cookies : AcceptInviteWithSession(t, i, c)
  \/ ReadInvite(t) \/ CreateUser(t) \/ ActivateUser(t)
  \/ ConsumeInvite(t) \/ Join(t)

Next ==
  \/ \E t \in Slots : Step(t) \/ Fail(t)
  \/ \E u \in Users : ResetPassword(u) \/ RemoveMember(u) \/ UpdateMemberRole(u)

Spec == Init /\ [][Next]_vars

-----------------------------------------------------------------------------
(* Properties.                                                             *)

\* A session the guard accepts was signed for someone who has shown the
\* password the account has now, or has just set it: no session outlives the
\* password it was opened with, whatever was under way when the password
\* changed.  Sessions that acceptInvite signs for the holder of another session are
\* not held to it: that session is not looked at again.
SessionIsEarned ==
  \A c \in cookies :
    Accepted(c) /\ c.way # "invite+session" => c.proof = password[c.user]

\* A password that is set is replaced by a reset link only: bootstrap, recovery
\* and invitations, which set passwords too, never overwrite one another's.
OnlyResetsReplace ==
  [][\A u \in Users :
       (Backed(u) /\ password'[u] # password[u]) => UNCHANGED slotVars]_vars

\* recoverOwnerAccess "only works when the target org currently has zero
\* password-backed OWNER users" (docs/ARCHITECTURE.md): also at the moment it
\* commits, with invitations and promotions that make such owners meanwhile.
RecoveryIsLastResort ==
  [][\A t \in Slots :
       (place[t] = "recovered" /\ password'[user[t]] # password[user[t]]) =>
         \A v \in Users : role[v] = "OWNER" => ~Backed(v)]_vars

\* One first owner: of several bootstrap requests one at most succeeds.
OneFirstOwner ==
  \A c, d \in {s \in cookies : s.way = "bootstrap"} : c.user = d.user
=============================================================================
