------------------------------ MODULE MCClient ------------------------------
(* Small redundancy groups for TLC.                                         *)
EXTENDS Client
=============================================================================
