----------------------------- MODULE MCInboxPage -----------------------------
(* InboxPage for TLC.                                                       *)
EXTENDS InboxPage, TLC
=============================================================================
