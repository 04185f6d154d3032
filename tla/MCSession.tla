------------------------------ MODULE MCSession ------------------------------
(* Session with small constants for TLC; see the .cfg files.                *)
EXTENDS SessionInv
=============================================================================
