-------------------------- MODULE MCOutboundDelivery --------------------------
(* OutboundDelivery for TLC: the symmetric sets of the safety runs.         *)
EXTENDS OutboundDelivery, TLC

\* Runs and provider ids are only compared; liveness runs do not use this.
RunAndPidSymmetry == Permutations(Runs) \cup Permutations(Pids)
=============================================================================
