----------------------------- MODULE MCTransfer -----------------------------
(* Transfer with small constants for TLC; see the .cfg files.              *)
EXTENDS Transfer
=============================================================================
