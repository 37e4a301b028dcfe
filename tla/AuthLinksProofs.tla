--------------------------- MODULE AuthLinksProofs ---------------------------
(* Proofs about AuthLinks, for every choice of its constants.               *)
EXTENDS AuthLinks, FiniteSetTheorems, TLAPS

(* The request is answered without a trace in the tables.                   *)
Rollback(t) == End(t) /\ UNCHANGED <<rowVars, mailed>>

(* A request for a link still needs a row while it is before its insert.    *)
Needing == {t \in Slots : place[t] \in {"find", "invalidate", "create"}}

Unused == {l \in Links : state[l] = "none"}

RowsSuffice == Cardinality(Needing) <= Cardinality(Unused)

(* Who refers to what: a token that exists belongs to an account, a request  *)
(* for a link is about an account and has found tokens of that account, and  *)
(* who sends, withdraws or confirms a token has one that exists.            *)
References ==
  /\ \A l \in Links : state[l] # "none" <=> owner[l] # Nothing
  /\ \A l \in mailed : state[l] # "none"
  /\ \A t \in Slots : place[t] \in {"find", "invalidate", "create"} =>
       wants[t] \in Accounts
  /\ \A t \in Slots : place[t] \in {"invalidate", "create"} =>
       \A l \in found[t] : owner[l] = wants[t]
  /\ \A t \in Slots : place[t] \in {"send", "withdraw"} =>
       token[t] \in Links /\ state[token[t]] # "none"
  /\ \A t \in Slots : place[t] \in {"consume", "apply"} => token[t] \in mailed

(* Row locks: a token that a transaction has locked is still active, and     *)
(* nobody else has locked it.                                               *)
LocksProtect ==
  /\ \A t \in Slots : \A l \in Holds(t) : Active(l)
  /\ \A s, t \in Slots : s # t => Holds(s) \cap Holds(t) = {}

LinkInv == TypeOK /\ RowsSuffice /\ References /\ LocksProtect

LEMMA LinkInit == Init => LinkInv
<1> SUFFICES ASSUME Init PROVE LinkInv
  OBVIOUS
<1>1. TypeOK /\ References /\ LocksProtect
  BY DEF Init, TypeOK, References, LocksProtect, Holds, Places
<1>2. RowsSuffice
  <2>1. Needing = {} /\ Unused \subseteq Links
    BY DEF Init, Needing, Unused
  <2>2. Cardinality(Needing) = 0 /\ Cardinality(Unused) \in Nat
    BY <2>1, LinksAssumption, FS_EmptySet, FS_Subset, FS_CardinalityType
  <2>3. QED
    BY <2>2 DEF RowsSuffice
<1>3. QED
  BY <1>1, <1>2 DEF LinkInv

(* The row a request inserts is there, and was never used.                  *)
LEMMA RowIsLeft ==
  ASSUME RowsSuffice, NEW t \in Slots, place[t] = "create"
  PROVE  (CHOOSE l \in Links : state[l] = "none") \in Unused
<1>1. /\ IsFiniteSet(Needing) /\ Cardinality(Needing) \in Nat
      /\ IsFiniteSet(Unused) /\ Cardinality(Unused) \in Nat
  BY LinksAssumption, FS_Subset, FS_CardinalityType DEF Needing, Unused
<1>2. Cardinality(Needing) # 0
  BY <1>1, FS_EmptySet DEF Needing
<1>3. Unused # {}
  BY <1>1, <1>2, FS_EmptySet DEF RowsSuffice
<1>4. QED
  BY <1>3 DEF Unused

(* What an insert does: it takes such a row, or violates the unique index.  *)
Inserts(t, l) ==
  /\ ActiveOf(wants[t]) \subseteq found[t]
  /\ owner' = [owner EXCEPT ![l] = wants[t]]
  /\ state' = [k \in Links |->
       IF k = l THEN "active"
       ELSE IF k \in found[t] THEN "invalidated" ELSE state[k]]
  /\ token' = [token EXCEPT ![t] = l]
  /\ found' = [found EXCEPT ![t] = {}]
  /\ place' = [place EXCEPT ![t] = "send"]
  /\ UNCHANGED <<expired, resets, verified, wants, mailed>>

LEMMA CreateTokenEffect ==
  ASSUME RowsSuffice, NEW t \in Slots, CreateToken(t)
  PROVE  (\E l \in Unused : Inserts(t, l)) \/ Rollback(t)
<1>1. CASE ActiveOf(wants[t]) \subseteq found[t]
  <2> DEFINE l == CHOOSE k \in Links : state[k] = "none"
  <2>1. l \in Unused
    BY RowIsLeft DEF CreateToken
  <2>2. Inserts(t, l)
    BY <1>1 DEF CreateToken, Goto, Inserts
  <2>3. QED
    BY <2>1, <2>2
<1>2. CASE ~(ActiveOf(wants[t]) \subseteq found[t])
  BY <1>2 DEF CreateToken, Rollback
<1>3. QED
  BY <1>1, <1>2

(* What a transaction holds is only changed by its own steps.               *)
LEMMA OthersHold ==
  ASSUME TypeOK, NEW t \in Slots, NEW s \in Slots \ {t}, NEW p,
         place' = [place EXCEPT ![t] = p],
         found'[s] = found[s], token'[s] = token[s]
  PROVE  Holds(s)' = Holds(s)
BY DEF Holds

LEMMA TypeStep ==
  ASSUME LinkInv, [Next]_vars
  PROVE  TypeOK'
<1>1. ASSUME NEW t \in Slots, NEW u \in Users, RequestPasswordReset(t, u)
      PROVE  TypeOK'
  BY <1>1
     DEF LinkInv, TypeOK, Places, Accounts, Kinds, RequestPasswordReset, Goto,
        rowVars
<1>2. ASSUME NEW t \in Slots, NEW u \in Users, RequestEmailVerification(t, u)
      PROVE  TypeOK'
  BY <1>2
     DEF LinkInv, TypeOK, Places, Accounts, Kinds, RequestEmailVerification,
        Goto, rowVars
<1>3. ASSUME NEW t \in Slots, FindActive(t)
      PROVE  TypeOK'
  BY <1>3 DEF LinkInv, TypeOK, Places, ActiveOf, FindActive, Goto, rowVars
<1>4. ASSUME NEW t \in Slots, LockFound(t)
      PROVE  TypeOK'
  BY <1>4 DEF LinkInv, TypeOK, Places, LockFound, Goto, rowVars
<1>5. ASSUME NEW t \in Slots, CreateToken(t)
      PROVE  TypeOK'
  <2>1. ASSUME NEW l \in Unused, Inserts(t, l)
        PROVE  TypeOK'
    BY <1>5, <2>1 DEF LinkInv, TypeOK, Places, Inserts, Unused
  <2>2. CASE Rollback(t)
    BY <1>5, <2>2 DEF LinkInv, TypeOK, Places, Rollback, End, Goto, rowVars
  <2>3. QED
    BY <1>5, <2>1, <2>2, CreateTokenEffect DEF LinkInv
<1>6. ASSUME NEW t \in Slots, SendSucceeds(t)
      PROVE  TypeOK'
  BY <1>6
     DEF LinkInv, TypeOK, Places, References, SendSucceeds, Goto, End, rowVars
<1>7. ASSUME NEW t \in Slots, SendFails(t)
      PROVE  TypeOK'
  BY <1>7 DEF LinkInv, TypeOK, Places, SendFails, Goto, rowVars
<1>8. ASSUME NEW t \in Slots, SendAckLost(t)
      PROVE  TypeOK'
  BY <1>8 DEF LinkInv, TypeOK, Places, References, SendAckLost, Goto, rowVars
<1>9. ASSUME NEW t \in Slots, Withdraw(t)
      PROVE  TypeOK'
  BY <1>9 DEF LinkInv, TypeOK, Places, Withdraw, Goto, End
<1>10. ASSUME NEW t \in Slots, NEW l \in Links, OpenLink(t, l)
      PROVE  TypeOK'
  BY <1>10 DEF LinkInv, TypeOK, Places, OpenLink, Goto, rowVars
<1>11. ASSUME NEW t \in Slots, Consume(t)
      PROVE  TypeOK'
  BY <1>11 DEF LinkInv, TypeOK, Places, Consume, Goto, End, rowVars
<1>12. ASSUME NEW t \in Slots, Confirm(t)
      PROVE  TypeOK'
  BY <1>12
     DEF LinkInv, TypeOK, Places, References, Accounts, Confirm, Goto, End
<1>13. ASSUME NEW t \in Slots, Fail(t)
      PROVE  TypeOK'
  BY <1>13 DEF LinkInv, TypeOK, Places, Fail, Goto, End, rowVars
<1>14. ASSUME NEW l \in Links, Expire(l)
      PROVE  TypeOK'
  BY <1>14 DEF LinkInv, TypeOK, Expire, slotVars
<1>15. CASE UNCHANGED vars
  BY <1>15 DEF LinkInv, TypeOK, vars, rowVars, slotVars
<1>16. QED
  BY <1>1, <1>2, <1>3, <1>4, <1>5, <1>6, <1>7, <1>8, <1>9, <1>10, <1>11, <1>12,
     <1>13, <1>14, <1>15
     DEF Next, RequestStep, ConfirmStep

LEMMA ReferencesStep ==
  ASSUME LinkInv, [Next]_vars
  PROVE  References'
<1>1. ASSUME NEW t \in Slots, NEW u \in Users, RequestPasswordReset(t, u)
      PROVE  References'
  BY <1>1
     DEF LinkInv, TypeOK, References, Accounts, Kinds, RequestPasswordReset,
        Goto, rowVars
<1>2. ASSUME NEW t \in Slots, NEW u \in Users, RequestEmailVerification(t, u)
      PROVE  References'
  BY <1>2
     DEF LinkInv, TypeOK, References, Accounts, Kinds,
        RequestEmailVerification, Goto, rowVars
<1>3. ASSUME NEW t \in Slots, FindActive(t)
      PROVE  References'
  BY <1>3 DEF LinkInv, TypeOK, References, ActiveOf, FindActive, Goto, rowVars
<1>4. ASSUME NEW t \in Slots, LockFound(t)
      PROVE  References'
  BY <1>4 DEF LinkInv, References, LockFound, Goto, rowVars
<1>5. ASSUME NEW t \in Slots, CreateToken(t)
      PROVE  References'
  <2>1. ASSUME NEW l \in Unused, Inserts(t, l)
        PROVE  References'
    BY <1>5, <2>1, LinksAssumption
       DEF LinkInv, TypeOK, References, CreateToken, Inserts, Unused
  <2>2. CASE Rollback(t)
    BY <1>5, <2>2 DEF LinkInv, TypeOK, References, Rollback, End, Goto, rowVars
  <2>3. QED
    BY <1>5, <2>1, <2>2, CreateTokenEffect DEF LinkInv
<1>6. ASSUME NEW t \in Slots, SendSucceeds(t)
      PROVE  References'
  BY <1>6 DEF LinkInv, TypeOK, References, SendSucceeds, Goto, End, rowVars
<1>7. ASSUME NEW t \in Slots, SendFails(t)
      PROVE  References'
  BY <1>7 DEF LinkInv, References, SendFails, Goto, rowVars
<1>8. ASSUME NEW t \in Slots, SendAckLost(t)
      PROVE  References'
  BY <1>8 DEF LinkInv, References, SendAckLost, Goto, rowVars
<1>9. ASSUME NEW t \in Slots, Withdraw(t)
      PROVE  References'
  BY <1>9 DEF LinkInv, TypeOK, References, Withdraw, Goto, End
<1>10. ASSUME NEW t \in Slots, NEW l \in Links, OpenLink(t, l)
      PROVE  References'
  BY <1>10 DEF LinkInv, TypeOK, References, OpenLink, Goto, rowVars
<1>11. ASSUME NEW t \in Slots, Consume(t)
      PROVE  References'
  BY <1>11 DEF LinkInv, TypeOK, Places, References, Consume, Goto, End, rowVars
<1>12. ASSUME NEW t \in Slots, Confirm(t)
      PROVE  References'
  BY <1>12 DEF LinkInv, TypeOK, References, Confirm, Goto, End
<1>13. ASSUME NEW t \in Slots, Fail(t)
      PROVE  References'
  BY <1>13 DEF LinkInv, TypeOK, References, Fail, Goto, End, rowVars
<1>14. ASSUME NEW l \in Links, Expire(l)
      PROVE  References'
  BY <1>14 DEF LinkInv, References, Expire, slotVars
<1>15. CASE UNCHANGED vars
  BY <1>15 DEF LinkInv, References, vars, rowVars, slotVars
<1>16. QED
  BY <1>1, <1>2, <1>3, <1>4, <1>5, <1>6, <1>7, <1>8, <1>9, <1>10, <1>11, <1>12,
     <1>13, <1>14, <1>15
     DEF Next, RequestStep, ConfirmStep

LEMMA LocksStep ==
  ASSUME LinkInv, [Next]_vars
  PROVE  LocksProtect'
<1>1. ASSUME NEW t \in Slots, NEW u \in Users, RequestPasswordReset(t, u)
      PROVE  LocksProtect'
  BY <1>1
     DEF LinkInv, LocksProtect, Holds, Active, RequestPasswordReset, Goto,
        rowVars
<1>2. ASSUME NEW t \in Slots, NEW u \in Users, RequestEmailVerification(t, u)
      PROVE  LocksProtect'
  BY <1>2
     DEF LinkInv, LocksProtect, Holds, Active, RequestEmailVerification, Goto,
        rowVars
<1>3. ASSUME NEW t \in Slots, FindActive(t)
      PROVE  LocksProtect'
  <2>1. /\ Holds(t)' = {}
        /\ \A s \in Slots \ {t} : Holds(s)' = Holds(s)
    BY <1>3 DEF FindActive, Goto, Holds
  <2>2. UNCHANGED state
    BY <1>3 DEF FindActive, rowVars
  <2>3. QED
    BY <1>3, <2>1, <2>2 DEF LinkInv, LocksProtect, Active
<1>4. ASSUME NEW t \in Slots, LockFound(t)
      PROVE  LocksProtect'
  <2>1. /\ Holds(t)' = {l \in found[t] : Active(l)}
        /\ \A s \in Slots \ {t} : Holds(s)' = Holds(s)
    BY <1>4 DEF LinkInv, TypeOK, LockFound, Goto, Holds
  <2>2. UNCHANGED state
    BY <1>4 DEF LockFound, rowVars
  <2>3. QED
    BY <1>4, <2>1, <2>2 DEF LinkInv, LocksProtect, HeldByOther, Active,
       LockFound
<1>5. ASSUME NEW t \in Slots, CreateToken(t)
      PROVE  LocksProtect'
  <2>1. Holds(t) = found[t]
    BY <1>5 DEF CreateToken, Holds
  <2>2. ASSUME NEW l \in Unused, Inserts(t, l)
        PROVE  LocksProtect'
    <3>1. /\ Holds(t)' = {}
          /\ \A s \in Slots \ {t} : Holds(s)' = Holds(s)
      BY <2>2 DEF LinkInv, TypeOK, Inserts, Holds
    <3>2. \A k \in Links \ found[t] : Active(k) => Active(k)'
      BY <2>2 DEF Inserts, Active
    <3>3. \A s \in Slots : Holds(s) \subseteq Links
      BY DEF LinkInv, TypeOK, References, Holds
    <3>4. QED
      BY <2>1, <3>1, <3>2, <3>3 DEF LinkInv, LocksProtect
  <2>3. CASE Rollback(t)
    <3>1. /\ Holds(t)' = {} /\ UNCHANGED state
          /\ \A s \in Slots \ {t} : Holds(s)' = Holds(s)
      BY <2>3 DEF LinkInv, TypeOK, Rollback, End, Goto, Holds, rowVars
    <3>2. QED
      BY <3>1 DEF LinkInv, LocksProtect, Active
  <2>4. QED
    BY <1>5, <2>2, <2>3, CreateTokenEffect DEF LinkInv
<1>6. ASSUME NEW t \in Slots, SendSucceeds(t)
      PROVE  LocksProtect'
  BY <1>6
     DEF LinkInv, LocksProtect, Holds, Active, SendSucceeds, Goto, End, rowVars
<1>7. ASSUME NEW t \in Slots, SendFails(t)
      PROVE  LocksProtect'
  BY <1>7 DEF LinkInv, LocksProtect, Holds, Active, SendFails, Goto, rowVars
<1>8. ASSUME NEW t \in Slots, SendAckLost(t)
      PROVE  LocksProtect'
  BY <1>8 DEF LinkInv, LocksProtect, Holds, Active, SendAckLost, Goto, rowVars
<1>9. ASSUME NEW t \in Slots, Withdraw(t)
      PROVE  LocksProtect'
  BY <1>9
     DEF LinkInv, TypeOK, References, LocksProtect, Holds, HeldByOther, Active,
        Withdraw, Goto, End
<1>10. ASSUME NEW t \in Slots, NEW l \in Links, OpenLink(t, l)
      PROVE  LocksProtect'
  BY <1>10 DEF LinkInv, LocksProtect, Holds, Active, OpenLink, Goto, rowVars
<1>11. ASSUME NEW t \in Slots, Consume(t)
      PROVE  LocksProtect'
  <2>1. /\ Holds(t)' = (IF Active(token[t]) THEN {token[t]} ELSE {})
        /\ \A s \in Slots \ {t} : Holds(s)' = Holds(s)
    BY <1>11 DEF LinkInv, TypeOK, Consume, Goto, End, Holds
  <2>2. UNCHANGED state
    BY <1>11 DEF Consume, rowVars
  <2>3. QED
    BY <1>11, <2>1, <2>2 DEF LinkInv, LocksProtect, HeldByOther, Active,
       Consume
<1>12. ASSUME NEW t \in Slots, Confirm(t)
      PROVE  LocksProtect'
  <2>1. /\ Holds(t) = {token[t]} /\ Holds(t)' = {}
        /\ \A s \in Slots \ {t} : Holds(s)' = Holds(s)
    BY <1>12 DEF LinkInv, TypeOK, Confirm, Goto, End, Holds
  <2>2. \A l \in Links \ {token[t]} : state'[l] = state[l]
    BY <1>12 DEF Confirm
  <2>3. QED
    BY <1>12, <2>1, <2>2 DEF LinkInv, LocksProtect, Active, Confirm
<1>13. ASSUME NEW t \in Slots, Fail(t)
      PROVE  LocksProtect'
  BY <1>13
     DEF LinkInv, TypeOK, References, LocksProtect, Holds, Active, Fail, Goto,
        End, rowVars
<1>14. ASSUME NEW l \in Links, Expire(l)
      PROVE  LocksProtect'
  BY <1>14 DEF LinkInv, LocksProtect, Holds, Active, Expire, slotVars
<1>15. CASE UNCHANGED vars
  BY <1>15 DEF LinkInv, LocksProtect, Holds, Active, vars, rowVars, slotVars
<1>16. QED
  BY <1>1, <1>2, <1>3, <1>4, <1>5, <1>6, <1>7, <1>8, <1>9, <1>10, <1>11, <1>12,
     <1>13, <1>14, <1>15
     DEF Next, RequestStep, ConfirmStep

LEMMA RowsStep ==
  ASSUME LinkInv, [Next]_vars
  PROVE  RowsSuffice'
<1>1. /\ IsFiniteSet(Needing) /\ Cardinality(Needing) \in Nat
      /\ IsFiniteSet(Unused) /\ Cardinality(Unused) \in Nat
  BY LinksAssumption, FS_Subset, FS_CardinalityType DEF Needing, Unused
<1>2. ASSUME Needing' \subseteq Needing, Unused' = Unused
      PROVE  RowsSuffice'
  <2>1. Cardinality(Needing') \in Nat /\ Cardinality(Needing') <= Cardinality(Needing)
    BY <1>1, <1>2, FS_Subset, FS_CardinalityType
  <2>2. QED
    BY <1>1, <1>2, <2>1 DEF LinkInv, RowsSuffice
<1>3. ASSUME NEW t \in Slots, NEW u \in Users,
             RequestPasswordReset(t, u) \/ RequestEmailVerification(t, u)
      PROVE  RowsSuffice'
  <2>1. /\ t \notin Needing /\ Needing' = Needing \cup {t}
        /\ Unused' = Unused
    BY <1>3 DEF LinkInv, TypeOK, Needing, Unused, RequestPasswordReset,
       RequestEmailVerification, Goto, rowVars
  <2>2. Cardinality(Needing) < Cardinality(Unused)
    BY <1>3 DEF RequestPasswordReset, RequestEmailVerification, RowsLeft,
       Needing, Unused
  <2>3. Cardinality(Needing') = Cardinality(Needing) + 1
    BY <1>1, <2>1, FS_AddElement
  <2>4. QED
    BY <1>1, <2>1, <2>2, <2>3 DEF RowsSuffice
<1>4. ASSUME NEW t \in Slots, CreateToken(t)
      PROVE  RowsSuffice'
  <2>1. ASSUME NEW l \in Unused, Inserts(t, l)
        PROVE  RowsSuffice'
    <3>1. \A k \in found[t] : state[k] # "none"
      BY <1>4 DEF LinkInv, LocksProtect, Holds, Active, CreateToken
    <3>2. Unused' = Unused \ {l}
      BY <2>1, <3>1 DEF Inserts, Unused
    <3>3. t \in Needing /\ Needing' = Needing \ {t}
      BY <1>4, <2>1 DEF LinkInv, TypeOK, Needing, CreateToken, Inserts
    <3>4. /\ Cardinality(Unused') = Cardinality(Unused) - 1
          /\ Cardinality(Needing') = Cardinality(Needing) - 1
      BY <1>1, <3>2, <3>3, FS_RemoveElement
    <3>5. QED
      BY <1>1, <3>4 DEF LinkInv, RowsSuffice
  <2>2. CASE Rollback(t)
    <3>1. Needing' \subseteq Needing /\ Unused' = Unused
      BY <2>2 DEF Rollback, End, Goto, Needing, Unused, rowVars
    <3>2. QED
      BY <1>2, <3>1
  <2>3. QED
    BY <1>4, <2>1, <2>2, CreateTokenEffect DEF LinkInv
<1>5. ASSUME NEW t \in Slots, FindActive(t)
      PROVE  Needing' \subseteq Needing /\ Unused' = Unused
  BY <1>5 DEF Needing, Unused, FindActive, Goto, rowVars
<1>6. ASSUME NEW t \in Slots, LockFound(t)
      PROVE  Needing' \subseteq Needing /\ Unused' = Unused
  BY <1>6 DEF Needing, Unused, LockFound, Goto, rowVars
<1>7. ASSUME NEW t \in Slots, SendSucceeds(t)
      PROVE  Needing' \subseteq Needing /\ Unused' = Unused
  BY <1>7 DEF Needing, Unused, SendSucceeds, Goto, End, rowVars
<1>8. ASSUME NEW t \in Slots, SendFails(t)
      PROVE  Needing' \subseteq Needing /\ Unused' = Unused
  BY <1>8 DEF Needing, Unused, SendFails, Goto, rowVars
<1>9. ASSUME NEW t \in Slots, SendAckLost(t)
      PROVE  Needing' \subseteq Needing /\ Unused' = Unused
  BY <1>9 DEF Needing, Unused, SendAckLost, Goto, rowVars
<1>10. ASSUME NEW t \in Slots, Withdraw(t)
      PROVE  Needing' \subseteq Needing /\ Unused' = Unused
  BY <1>10 DEF Needing, Unused, Withdraw, Goto, End
<1>11. ASSUME NEW t \in Slots, NEW l \in Links, OpenLink(t, l)
      PROVE  Needing' \subseteq Needing /\ Unused' = Unused
  BY <1>11 DEF Needing, Unused, OpenLink, Goto, rowVars
<1>12. ASSUME NEW t \in Slots, Consume(t)
      PROVE  Needing' \subseteq Needing /\ Unused' = Unused
  BY <1>12 DEF LinkInv, TypeOK, Needing, Unused, Consume, Goto, End, rowVars
<1>13. ASSUME NEW t \in Slots, Confirm(t)
      PROVE  Needing' \subseteq Needing /\ Unused' = Unused
  BY <1>13
     DEF LinkInv, Needing, Unused, Confirm, Goto, End, Active, LocksProtect,
        Holds, Active
<1>14. ASSUME NEW t \in Slots, Fail(t)
      PROVE  Needing' \subseteq Needing /\ Unused' = Unused
  BY <1>14 DEF Needing, Unused, Fail, Goto, End, rowVars
<1>15. ASSUME NEW l \in Links, Expire(l)
      PROVE  Needing' \subseteq Needing /\ Unused' = Unused
  BY <1>15 DEF Needing, Unused, Expire, slotVars
<1>16. CASE UNCHANGED vars
  <2>1. Needing' = Needing /\ Unused' = Unused
    BY <1>16 DEF vars, rowVars, slotVars, Needing, Unused
  <2>2. QED
    BY <1>2, <2>1
<1>17. QED
  BY <1>2, <1>3, <1>4, <1>5, <1>6, <1>7, <1>8, <1>9, <1>10, <1>11, <1>12,
     <1>13, <1>14, <1>15, <1>16
     DEF Next, RequestStep, ConfirmStep

LEMMA LinkInvariant == Spec => []LinkInv
<1>1. LinkInv /\ [Next]_vars => LinkInv'
  BY TypeStep, ReferencesStep, LocksStep, RowsStep DEF LinkInv
<1>2. QED
  BY <1>1, LinkInit, PTL DEF Spec

(* Every reachable state is well typed.                                     *)
THEOREM TypeCorrect == Spec => []TypeOK
<1>1. LinkInv => TypeOK
  BY DEF LinkInv
<1>2. QED
  BY <1>1, LinkInvariant, PTL

(* A link works once, and only while it is active: however many requests     *)
(* confirm it, replace it, withdraw it and expire at once.                   *)
THEOREM LinksWorkOnce == Spec => LinkWorksOnce
<1>1. LinkInv /\ [Next]_vars =>
        [\A u \in Users, k \in Kinds :
           (IF k = "reset" THEN resets'[u] # resets[u]
                           ELSE u \in verified' \ verified) =>
             \E l \in ActiveOf(<<u, k>>) : l \in mailed /\ state'[l] = "used"]_vars
  <2> SUFFICES ASSUME LinkInv, [Next]_vars, NEW u \in Users, NEW k \in Kinds,
                      IF k = "reset" THEN resets'[u] # resets[u]
                                     ELSE u \in verified' \ verified
               PROVE  \E l \in ActiveOf(<<u, k>>) : l \in mailed /\ state'[l] = "used"
    OBVIOUS
  <2>1. PICK t \in Slots : Confirm(t)
    <3>1. ~(resets' = resets /\ verified' = verified)
      OBVIOUS
    <3>2. QED
      BY <3>1 DEF Next, RequestStep, ConfirmStep, RequestPasswordReset,
         RequestEmailVerification, FindActive, LockFound, CreateToken,
         SendSucceeds, SendFails, SendAckLost, Withdraw, OpenLink, Consume,
         Fail, Expire, vars, rowVars
  <2> DEFINE l == token[t]
  <2>2. l \in mailed /\ l \in Links /\ Active(l)
    BY <2>1 DEF LinkInv, TypeOK, References, LocksProtect, Holds, Confirm
  <2>3. state'[l] = "used"
    BY <2>1, <2>2 DEF LinkInv, TypeOK, Confirm
  <2>4. PICK a \in Users, b \in Kinds : owner[l] = <<a, b>>
    BY <2>2 DEF LinkInv, TypeOK, References, Accounts
  <2>5. a = u /\ b = k
    BY <2>1, <2>4 DEF LinkInv, TypeOK, Confirm, Kinds
  <2>6. QED
    BY <2>2, <2>3, <2>4, <2>5 DEF ActiveOf
<1>2. QED
  BY <1>1, LinkInvariant, PTL DEF Spec, LinkWorksOnce

(* What invalidates a delivered link is a newer one for the same account, or *)
(* the request that mailed it and was told that the mail had failed.        *)
THEOREM DeliveredLinksLast == Spec => DeliveredLinkLasts
<1>1. LinkInv /\ [Next]_vars =>
        [\A l \in mailed :
           (Active(l) /\ state'[l] = "invalidated") =>
             \/ \E n \in Links : /\ state[n] = "none" /\ state'[n] = "active"
                                 /\ owner'[n] = owner[l]
             \/ \E t \in Slots : place[t] = "withdraw" /\ token[t] = l]_vars
  <2> SUFFICES ASSUME LinkInv, [Next]_vars, NEW l \in mailed, Active(l),
                      state'[l] = "invalidated"
               PROVE  \/ \E n \in Links : /\ state[n] = "none"
                                          /\ state'[n] = "active"
                                          /\ owner'[n] = owner[l]
                      \/ \E t \in Slots : place[t] = "withdraw" /\ token[t] = l
    OBVIOUS
  <2>1. l \in Links /\ state[l] = "active"
    BY DEF LinkInv, TypeOK, Active
  <2>2. PICK t \in Slots : CreateToken(t) \/ Withdraw(t) \/ Confirm(t)
    <3>1. state' # state
      BY <2>1
    <3>2. QED
      BY <3>1 DEF Next, RequestStep, ConfirmStep, RequestPasswordReset,
         RequestEmailVerification, FindActive, LockFound, SendSucceeds,
         SendFails, SendAckLost, OpenLink, Consume, Fail, Expire, vars, rowVars
  <2>3. CASE CreateToken(t)
    <3>1. PICK n \in Unused : Inserts(t, n)
      BY <2>1, <2>3, CreateTokenEffect DEF LinkInv, Rollback, rowVars
    <3>2. n \in Links /\ state[n] = "none"
      BY DEF Unused
    <3>3. state'[n] = "active" /\ owner'[n] = wants[t]
      BY <3>1, <3>2 DEF LinkInv, TypeOK, Inserts
    <3>4. l \in found[t] /\ owner[l] = wants[t]
      BY <2>1, <2>3, <3>1 DEF LinkInv, References, CreateToken, Inserts
    <3>5. QED
      BY <3>2, <3>3, <3>4
  <2>4. CASE Withdraw(t)
    BY <2>1, <2>4 DEF Withdraw
  <2>5. CASE Confirm(t)
    BY <2>1, <2>5 DEF Confirm
  <2>6. QED
    BY <2>2, <2>3, <2>4, <2>5
<1>2. QED
  BY <1>1, LinkInvariant, PTL DEF Spec, DeliveredLinkLasts
=============================================================================
