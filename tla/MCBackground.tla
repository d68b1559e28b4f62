---------------------------- MODULE MCBackground ----------------------------
(* An instance of Background for TLC. *)
EXTENDS Background, TLC

CONSTANTS s1, s2
=============================================================================
