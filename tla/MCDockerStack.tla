--------------------------- MODULE MCDockerStack ---------------------------
(* An instance of DockerStack for TLC. *)
EXTENDS DockerStack, TLC

CONSTANTS d1, dbsync, postgres

\* Services are alike.
Symmetry == Permutations(Services)
=============================================================================
