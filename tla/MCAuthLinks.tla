------------------------------ MODULE MCAuthLinks ------------------------------
(* AuthLinks for TLC: one user with a password, who may also verify.        *)
EXTENDS AuthLinks

CONSTANT ayse

OneUser == {ayse}
=============================================================================
