----------------------------- MODULE MCControl ------------------------------
(* Control for TLC: the values of the constants are in the configurations.  *)
EXTENDS Control
=============================================================================
