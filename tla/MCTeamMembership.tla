-------------------------- MODULE MCTeamMembership --------------------------
(***************************************************************************)
(* The small organization TLC checks TeamMembership on.                    *)
(***************************************************************************)
EXTENDS TeamMembership, TLC

CONSTANT i1

\* An owner, and somebody who is only invited,
OneOutsider == [m \in Members |-> IF m = 1 THEN "OWNER" ELSE "absent"]

Second == [i \in Invites |-> 2]

\* by one invitation as an owner and by any other as an agent.
FirstAsOwner == [i \in Invites |-> IF i = i1 THEN "OWNER" ELSE "AGENT"]

SlotSymmetry == Permutations(Slots)
=============================================================================
