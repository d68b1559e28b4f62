-------------------------------- MODULE Sums --------------------------------
(* Sums of a sequence of numbers. *)
EXTENDS Integers

\* w[1] + ... + w[n]
Added(w, n) ==
  LET upto[i \in 0..n] == IF i = 0 THEN 0 ELSE upto[i - 1] + w[i] IN upto[n]
=============================================================================
