------------------------------ MODULE Requests ------------------------------
(***************************************************************************)
(* The server under its own complexity plugin: Resolvers, whose progress   *)
(* timer begins a tick only with a query that QueryComplexity admits,      *)
(* besides clients that write queries.                                     *)
(***************************************************************************)
EXTENDS Resolvers, QueryComplexity

CONSTANT MaxQueryComplexity

vars == <<dataVars, queryVars>>

Field(name, fields) ==
  [name |-> name, where |-> <<>>, offset |-> 0, order |-> <<>>, fields |-> fields]

Count == <<Within("aggregate", <<Leaf("count")>>)>>

GetSyncStatus ==
  <<Field("cardanoDbMeta", <<Leaf("initialized"), Leaf("syncPercentage")>>),
    Field("assets_aggregate", Count), Field("tokenMints_aggregate", Count)>>

-----------------------------------------------------------------------------
Init == DataInit /\ QueryInit

Tick == (TickBegins /\ Admitted(GetSyncStatus, MaxQueryComplexity)) \/ TickGoesOn

\* Bound: a query is written before anything else happens, as its cost depends on
\* nothing else.
Untouched == node = 0 /\ ~connected /\ hasura /\ tick = Idle

Beside(A) == query = <<>> /\ A /\ UNCHANGED queryVars

Writing ==
  /\ Untouched
  /\ Write \/ Send
  /\ UNCHANGED dataVars

Next == Writing \/ Beside(Environment \/ FetchPots \/ Tick)

Spec == Init /\ [][Next]_vars

\* setIntervalAsync calls back, both times, and a request is answered or fails.
Fairness == WF_vars(Beside(Tick)) /\ WF_vars(Beside(FetchPots))

FairSpec == Spec /\ Fairness

-----------------------------------------------------------------------------
(* Properties                                                                *)

\* The database is in sync, by the numbers the tick looks at.
Synced ==
  /\ connected /\ hasura /\ Meta(node).initialized
  /\ MintedAt(tip) > 0 /\ 200 * indexed >= 199 * MintedAt(tip)

\* The timer stops once the database stays in sync, whatever the tick in progress had
\* read before: its query is below the limit of the complexity plugin, which it also
\* goes through, and a failed tick is followed by another one (Server.ts:121-158).
Stops == <>[]Synced => <>(timer = "cleared")
=============================================================================
