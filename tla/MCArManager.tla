----------------------------- MODULE MCArManager -----------------------------
(* ArManager for TLC; its constants are plain values given in the .cfg files. *)
EXTENDS ArManager
=============================================================================
