--------------------------- MODULE MCEventsFanout ---------------------------
(* EventsFanout for TLC.                                                    *)
EXTENDS EventsFanout, TLC

Failing(kinds) == [kind \in FaultKinds |-> IF kind \in kinds THEN 1 ELSE 0]

\* Redis refuses one command of each kind, each connection fails once; or
EachOnce == Failing(FaultKinds)

\* a subscription nobody waits for fails.
StaleOnce == Failing({"stale"})
=============================================================================
