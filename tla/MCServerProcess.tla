-------------------------- MODULE MCServerProcess --------------------------
(* An instance of ServerProcess for TLC. *)
EXTENDS ServerProcess

CONSTANTS c1, c2, c3, h1, h2
=============================================================================
