------------------------------- MODULE AuthLinks -------------------------------
(***************************************************************************)
(* Password reset and e-mail verification links: AuthService creates a      *)
(* token, mails its link, withdraws the token when the mail fails, and      *)
(* accepts a link once.  The two kinds are the same code on two tables.     *)
(*                                                                         *)
(* A statement is an action, as in TeamMembership: reads see committed      *)
(* rows, a write waits for the row's lock, and what a transaction writes    *)
(* shows in the action that commits.                                        *)
(***************************************************************************)
EXTENDS Naturals, FiniteSets

CONSTANTS
  Users,
  HasPassword, \* the users whose passwordHash is not null
  Links,       \* token rows, each created once
  Slots,       \* requests served at one time
  NoLink, Nothing,
  Faults       \* what else may happen: "crash" (of a process, or of the
               \* statement that withdraws a token), "mailAck"

Kinds == {"reset", "verify"}

Accounts == Users \X Kinds

ASSUME LinksAssumption ==
  /\ IsFiniteSet(Links) /\ IsFiniteSet(Slots)
  /\ HasPassword \subseteq Users
  /\ NoLink \notin Links /\ Nothing \notin Accounts
  /\ Faults \subseteq {"crash", "mailAck"}

VARIABLES
  owner,    \* the user and the kind a token was created for
  state,    \* usedAt and invalidatedAt of each token
  expired,  \* tokens whose expiresAt is over
  mailed,   \* tokens whose link has reached its user
  resets,   \* how often each user's password was replaced by a link
  verified, \* users whose emailVerifiedAt is not null
  place,    \* the next step of each slot's request
  wants,    \* the account a request for a link is about
  token,    \* the token a slot creates or confirms
  found     \* the active tokens its update statement has found

rowVars == <<owner, state, expired, resets, verified>>
slotVars == <<place, wants, token, found>>
vars == <<rowVars, mailed, slotVars>>

Places == {"idle", "find", "invalidate", "create", "send", "withdraw",
           "consume", "apply"}

TypeOK ==
  /\ owner \in [Links -> Accounts \cup {Nothing}]
  /\ state \in [Links -> {"none", "active", "used", "invalidated"}]
  /\ expired \subseteq Links
  /\ mailed \subseteq Links
  /\ resets \in [Users -> Nat]
  /\ verified \subseteq Users
  /\ place \in [Slots -> Places]
  /\ wants \in [Slots -> Accounts \cup {Nothing}]
  /\ token \in [Slots -> Links \cup {NoLink}]
  /\ found \in [Slots -> SUBSET Links]

Init ==
  /\ owner = [l \in Links |-> Nothing]
  /\ state = [l \in Links |-> "none"]
  /\ expired = {} /\ mailed = {}
  /\ resets = [u \in Users |-> 0]
  /\ verified = {}
  /\ place = [t \in Slots |-> "idle"]
  /\ wants = [t \in Slots |-> Nothing]
  /\ token = [t \in Slots |-> NoLink]
  /\ found = [t \in Slots |-> {}]

-----------------------------------------------------------------------------
Active(l) == state[l] = "active"

ActiveOf(account) == {l \in Links : owner[l] = account /\ Active(l)}

\* The token row a slot's transaction has locked: by its invalidation, or by
\* the conditional update that consumes it.
Holds(t) ==
  CASE place[t] = "create" -> found[t]
    [] place[t] = "apply" -> {token[t]}
    [] OTHER -> {}

HeldByOther(t, l) == \E s \in Slots \ {t} : l \in Holds(s)

Goto(t, next) == place' = [place EXCEPT ![t] = next]

\* The request is answered, or its transaction rolls back.
End(t) ==
  /\ Goto(t, "idle")
  /\ wants' = [wants EXCEPT ![t] = Nothing]
  /\ token' = [token EXCEPT ![t] = NoLink]
  /\ found' = [found EXCEPT ![t] = {}]

\* A statement fails or the process dies, inside a transaction; outside of one,
\* between its commit and the end of the request, only with this fault.
Fail(t) ==
  /\ place[t] # "idle"
  /\ place[t] \in {"send", "withdraw"} => "crash" \in Faults
  /\ End(t)
  /\ UNCHANGED <<rowVars, mailed>>

-----------------------------------------------------------------------------
(* Requests for a link.                                                    *)

\* Bound: a request for a link is only served while there is a row left for it.
RowsLeft ==
  Cardinality({t \in Slots : place[t] \in {"find", "invalidate", "create"}})
    < Cardinality({l \in Links : state[l] = "none"})

RequestPasswordReset(t, u) ==
  /\ place[t] = "idle" /\ RowsLeft
  /\ u \in HasPassword
  /\ Goto(t, "find")
  /\ wants' = [wants EXCEPT ![t] = <<u, "reset">>]
  /\ UNCHANGED <<rowVars, mailed, token, found>>

\* requestEmailVerification, and resendEmailVerification for a session.
RequestEmailVerification(t, u) ==
  /\ place[t] = "idle" /\ RowsLeft
  /\ u \notin verified
  /\ Goto(t, "find")
  /\ wants' = [wants EXCEPT ![t] = <<u, "verify">>]
  /\ UNCHANGED <<rowVars, mailed, token, found>>

\* updateMany finds the rows to invalidate in its snapshot ...
FindActive(t) ==
  /\ place[t] = "find"
  /\ found' = [found EXCEPT ![t] = ActiveOf(wants[t])]
  /\ Goto(t, "invalidate")
  /\ UNCHANGED <<rowVars, mailed, wants, token>>

\* ... waits for those another transaction has locked, and takes the ones that
\* still match.
LockFound(t) ==
  /\ place[t] = "invalidate"
  /\ \A l \in found[t] : ~HeldByOther(t, l)
  /\ found' = [found EXCEPT ![t] = {l \in @ : Active(l)}]
  /\ Goto(t, "create")
  /\ UNCHANGED <<rowVars, mailed, wants, token>>

\* The partial unique index: another active token of the account is there.
\* The violation is swallowed and nothing is sent.
CreateToken(t) ==
  /\ place[t] = "create"
  /\ IF ActiveOf(wants[t]) \subseteq found[t]
       THEN LET l == CHOOSE k \in Links : state[k] = "none" IN
              /\ owner' = [owner EXCEPT ![l] = wants[t]]
              /\ state' = [k \in Links |->
                   IF k = l THEN "active"
                   ELSE IF k \in found[t] THEN "invalidated" ELSE state[k]]
              /\ token' = [token EXCEPT ![t] = l]
              /\ found' = [found EXCEPT ![t] = {}]
              /\ Goto(t, "send")
              /\ UNCHANGED <<expired, resets, verified, wants>>
       ELSE End(t) /\ UNCHANGED rowVars
  /\ UNCHANGED mailed

\* AuthEmailDeliveryService.send: the outbox file is written, or Resend
\* accepts the mail and returns its id.
SendSucceeds(t) ==
  /\ place[t] = "send"
  /\ mailed' = mailed \cup {token[t]}
  /\ End(t)
  /\ UNCHANGED rowVars

\* Mutation: the error of a send is swallowed like that of a create.
SendFailsUnnoticed(t) ==
  /\ place[t] = "send"
  /\ End(t)
  /\ UNCHANGED <<rowVars, mailed>>

SendFails(t) ==
  /\ place[t] = "send"
  /\ Goto(t, "withdraw")
  /\ UNCHANGED <<rowVars, mailed, wants, token, found>>

\* Resend accepts the mail, and its answer is lost or carries no id.
SendAckLost(t) ==
  /\ "mailAck" \in Faults
  /\ place[t] = "send"
  /\ mailed' = mailed \cup {token[t]}
  /\ Goto(t, "withdraw")
  /\ UNCHANGED <<rowVars, wants, token, found>>

\* Mutation: whatever is active for the user is invalidated.
WithdrawAll(t) ==
  /\ place[t] = "withdraw"
  /\ \A l \in ActiveOf(wants[t]) : ~HeldByOther(t, l)
  /\ state' = [l \in Links |->
       IF l \in ActiveOf(wants[t]) THEN "invalidated" ELSE state[l]]
  /\ End(t)
  /\ UNCHANGED <<owner, expired, resets, verified, mailed>>

\* invalidatePasswordResetToken and invalidateEmailVerificationToken.
Withdraw(t) ==
  /\ place[t] = "withdraw"
  /\ ~HeldByOther(t, token[t])
  /\ state' = [state EXCEPT ![token[t]] = IF @ = "active" THEN "invalidated" ELSE @]
  /\ End(t)
  /\ UNCHANGED <<owner, expired, resets, verified, mailed>>

-----------------------------------------------------------------------------
(* Confirmation.                                                           *)

Expire(l) ==
  /\ Active(l)
  /\ l \notin expired
  /\ expired' = expired \cup {l}
  /\ UNCHANGED <<owner, state, resets, verified, mailed, slotVars>>

\* The first read of the transaction, for a link somebody has.
OpenLink(t, l) ==
  /\ place[t] = "idle"
  /\ l \in mailed
  /\ Active(l) /\ l \notin expired
  /\ Goto(t, "consume")
  /\ token' = [token EXCEPT ![t] = l]
  /\ UNCHANGED <<rowVars, mailed, wants, found>>

\* Mutation: the token is consumed by id.
ConsumeById(t) ==
  /\ place[t] = "consume"
  /\ ~HeldByOther(t, token[t])
  /\ Goto(t, "apply")
  /\ UNCHANGED <<rowVars, mailed, wants, token, found>>

\* The conditional update.  Its time is that of the first read, so a link that
\* has expired since still passes.
Consume(t) ==
  /\ place[t] = "consume"
  /\ ~HeldByOther(t, token[t])
  /\ IF Active(token[t])
       THEN Goto(t, "apply") /\ UNCHANGED <<wants, token, found>>
       ELSE End(t)
  /\ UNCHANGED <<rowVars, mailed>>

\* Mutation: the token's id is taken for the user's.
ConfirmById(t) ==
  /\ place[t] = "apply"
  /\ state' = [state EXCEPT ![token[t]] = "used"]
  /\ verified' = verified \cup {token[t]}
  /\ End(t)
  /\ UNCHANGED <<owner, expired, resets, mailed>>

\* The password is hashed and stored and sessionVersion incremented, or
\* emailVerifiedAt set where it is null; the transaction commits.
Confirm(t) ==
  /\ place[t] = "apply"
  /\ state' = [state EXCEPT ![token[t]] = "used"]
  /\ LET u == owner[token[t]][1] IN
       IF owner[token[t]][2] = "reset"
         THEN resets' = [resets EXCEPT ![u] = @ + 1] /\ UNCHANGED verified
         ELSE verified' = verified \cup {u} /\ UNCHANGED resets
  /\ End(t)
  /\ UNCHANGED <<owner, expired, mailed>>

-----------------------------------------------------------------------------
\* createAndSendPasswordResetToken and createAndSendEmailVerificationToken, which
\* take the same steps, as do the two confirmations.
RequestStep(t) ==
  \/ FindActive(t) \/ LockFound(t) \/ CreateToken(t)
  \/ SendSucceeds(t) \/ SendFails(t) \/ Withdraw(t)

ConfirmStep(t) == Consume(t) \/ Confirm(t)

Next ==
  \/ \E t \in Slots, u \in Users :
       RequestPasswordReset(t, u) \/ RequestEmailVerification(t, u)
  \/ \E t \in Slots : RequestStep(t) \/ SendAckLost(t)
  \/ \E t \in Slots, l \in Links : OpenLink(t, l)
  \/ \E t \in Slots : ConfirmStep(t) \/ Fail(t)
  \/ \E l \in Links : Expire(l)

Spec == Init /\ [][Next]_vars

\* Every statement and every send is answered, and locks are granted.  A waiting
\* statement is enabled again and again by new requests, hence strong fairness.
Fairness == \A t \in Slots : SF_vars(RequestStep(t)) /\ WF_vars(ConfirmStep(t))

FairSpec == Spec /\ Fairness

-----------------------------------------------------------------------------
(* Properties.                                                             *)

\* A password changes, or an address becomes verified, only by using up a link
\* of that user which is still active at that moment: links work once, although
\* confirmations of one link overlap, and not after a newer one replaced them.
LinkWorksOnce ==
  [][\A u \in Users, k \in Kinds :
       (IF k = "reset" THEN resets'[u] # resets[u]
                       ELSE u \in verified' \ verified) =>
         \E l \in ActiveOf(<<u, k>>) : l \in mailed /\ state'[l] = "used"]_vars

\* A link that was delivered is invalidated only by a newer one for the same
\* account: another request whose mail fails withdraws its own token alone.  The
\* exception is a mail that was delivered and reported as failed.
DeliveredLinkLasts ==
  [][\A l \in mailed :
       (Active(l) /\ state'[l] = "invalidated") =>
         \/ \E n \in Links : /\ state[n] = "none" /\ state'[n] = "active"
                             /\ owner'[n] = owner[l]
         \/ \E t \in Slots : place[t] = "withdraw" /\ token[t] = l]_vars

\* "no unusable active token remains behind" (docs/ARCHITECTURE.md): a token
\* whose link was not delivered does not stay active, however its request races
\* with others, unless the process dies or the statement fails that withdraws it
\* (Faults: then the token stays, and nothing tries again).
NoUnusableLinkRemains ==
  \A l \in Links : (Active(l) /\ l \notin mailed) ~> (~Active(l) \/ l \in mailed)
=============================================================================
