-------------------------- MODULE MCMetadataWorker --------------------------
(* Instances of MetadataWorker for TLC. *)
EXTENDS MetadataWorker, TLC

CONSTANTS a1, a2, j1, j2, j3

\* retryLimit is 365 for the jobs of the follower (bound: none is retried), and 1
\* for update jobs, as pg-boss sets when there is a retryDelay.
NoInitialRetry == [q \in Queues |-> IF q = "initial" THEN 0 ELSE 1]

\* Job identifiers carry no meaning, nor do assets.
Symmetry == Permutations(Jobs) \cup Permutations(Assets)

\* Bound: what follows a repetition is not explored, nor what follows the failure
\* of a served job, of which a repetition is all that can come.
UntilRepeated ==
  /\ repeated = {}
  /\ \A j \in Jobs : jobs[j].state = "retry" => j \notin served
=============================================================================
