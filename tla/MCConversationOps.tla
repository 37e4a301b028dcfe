--------------------------- MODULE MCConversationOps ---------------------------
(* ConversationOps for TLC.                                                 *)
EXTENDS ConversationOps, TLC

Alike == Permutations(Slots) \cup Permutations(Inbound)
=============================================================================
