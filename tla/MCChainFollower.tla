-------------------------- MODULE MCChainFollower --------------------------
(* Instances of ChainFollower for TLC. *)
EXTENDS ChainFollower, FiniteSets, TLC

CONSTANTS a1, a2, a3

\* Bound: what follows a lapse is not explored; nothing is promised there.
UntilLapse == lapses = {}

\* Bound: nor what follows the loss of a job.
NoneLost == \A a \in Assets : jobs[a] # "lost"

\* Bound: the node and cardano-db-sync do not move while a publish is unanswered.
\* Nothing but the start of a handler and of a session reads what they do, so this
\* only leaves out that they move between two of these during one publish.
InFlight == \E a \in Assets : jobs[a] = "publishing"
NodeWaits == InFlight => UNCHANGED node

\* Bound: the first block of a chain is in the first slot; a later slot may be empty.
FirstSlotFilled == chain = EmptyChain \/ chain[1] # NoBlock

\* A node that never switches forks, inserts that never fail (a failed flush is
\* retried by the next mint only); processes and connections still do.
OneChain == ~SwitchFork /\ ~ \E h \in Sessions : InsertFails(h)
OneChainSpec == Init /\ [][Next /\ OneChain]_vars /\ Fairness

OneOrTwo == {<<a1>>, <<a2, a1>>}
WithEmpty == {<<>>, <<a1, a2>>}
Three == {<<a1, a2, a3>>, <<>>}
=============================================================================
