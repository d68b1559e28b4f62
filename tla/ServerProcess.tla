--------------------------- MODULE ServerProcess ---------------------------
(***************************************************************************)
(* The server process of cardano-graphql: server/src/index.ts brings up    *)
(* the node client, the GraphQL server and the Hasura client in this       *)
(* order, and handles signals; Server.ts polls the progress of the         *)
(* synchronization until it can stop.  docker-compose starts a process     *)
(* that has failed again.                                                  *)
(***************************************************************************)
EXTENDS CardanoNodeClient

MainSteps == {"configure", "introspect", "pots", "listen", "done", "failed"}

VARIABLES
  alive,       \* the process runs
  schema,      \* HasuraClient.schema is set
  server,      \* Server.state
  progress,    \* Server.syncProgress
  ticking,     \* its callback waits for executeOperation
  dying,       \* the onDeath handler waits in Server.shutdown
  settled      \* nothing outside the process fails any more (no code reads it)

serverVars == <<schema, server, progress, ticking, dying>>
vars == <<alive, clientVars, serverVars, settled>>

ServerBlank ==
  /\ schema = FALSE /\ server = "null" /\ progress = "none"
  /\ ticking = FALSE /\ dying = FALSE

Init == alive = TRUE /\ settled = FALSE /\ ClientBlank /\ ServerBlank

\* process.exit, or an unhandled rejection.  Nothing of the process is left.
Exit ==
  /\ alive /\ alive' = FALSE
  /\ client' = "null"
  /\ socket' = [c \in Contexts |-> "closed"] /\ query' = "none" /\ tx' = "none"
  /\ timer' = "none" /\ leaked' = FALSE /\ isFetching' = FALSE /\ inflight' = {}
  /\ value' = FALSE
  /\ task' = [t \in Tasks |-> IF t = "main" THEN "initialize" ELSE "idle"]
  /\ own' = [t \in Tasks |-> "none"]
  /\ schema' = FALSE /\ server' = "null" /\ progress' = "none"
  /\ ticking' = FALSE /\ dying' = FALSE
  /\ UNCHANGED settled

\* restart: on-failure.
Restart ==
  /\ ~alive /\ alive' = TRUE
  /\ UNCHANGED <<clientVars, serverVars, settled>>

Running == alive /\ UNCHANGED <<alive, settled>>
MainOnly == UNCHANGED <<client, socket, query, tx, fetcher, own, ticking, dying>>

-----------------------------------------------------------------------------
(* main *)

\* Mistake: main starts the server before the Hasura client.
ConfigureAndListen ==
  /\ task["main"] = "configure"
  /\ server' = "running" /\ progress' = "live"
  /\ Goes("main", "introspect")
  /\ MainOnly /\ UNCHANGED schema

\* Server.init
Configure ==
  /\ task["main"] = "configure"
  /\ server' = "initialized"
  /\ Goes("main", "introspect")
  /\ MainOnly /\ UNCHANGED <<schema, progress>>

\* Server.init throws for options that exclude each other and an unreadable allow
\* list; listenPromise rejects.  main logs the error, and the process lives on.
MainFails ==
  /\ \/ task["main"] = "configure" /\ server' = "initializing"
     \/ task["main"] = "listen" /\ UNCHANGED server
  /\ Goes("main", "failed")
  /\ MainOnly /\ UNCHANGED <<schema, progress>>

\* HasuraClient.initialize: the schema by introspection, retried; then the fetcher
\* of the ada pots, whose first fetch may fail unnoticed.
Introspect ==
  /\ task["main"] = "introspect"
  /\ schema' = TRUE
  /\ Goes("main", "pots")
  /\ MainOnly /\ UNCHANGED <<server, progress>>

FetchPots ==
  /\ task["main"] = "pots"
  /\ Goes("main", "listen")
  /\ MainOnly /\ UNCHANGED <<schema, server, progress>>

\* Server.start
Listen ==
  /\ task["main"] = "listen" /\ server = "initialized"
  /\ server' = "running" /\ progress' = "live"
  /\ Goes("main", "done")
  /\ MainOnly /\ UNCHANGED schema

Main == Configure \/ Introspect \/ FetchPots \/ Listen

-----------------------------------------------------------------------------
(* The timer of the sync progress *)

Tick ==
  /\ progress = "live" /\ ~ticking
  /\ ticking' = TRUE
  /\ UNCHANGED <<clientVars, schema, server, progress, dying>>

\* Mistake: the callback awaits the clearing of its own timer.
TickAwaits ==
  /\ ticking /\ progress' \in {progress, "cleared"}
  /\ ticking' = (progress' = "cleared")
  /\ UNCHANGED <<clientVars, schema, server, dying>>

\* When the database is ready the callback clears the timer, and does not wait.
TickEnds ==
  /\ ticking
  /\ ticking' = FALSE
  /\ progress' \in {progress, "cleared"}
  /\ UNCHANGED <<clientVars, schema, server, dying>>

-----------------------------------------------------------------------------
(* Signals.  main registers onDeath last; until then a signal kills.         *)
(* Promise.all gets the two shutdown methods and calls neither.              *)

Signal ==
  /\ task["main"] \in {"done", "failed"} /\ server = "running" /\ ~dying
  /\ dying' = TRUE /\ progress' = "cleared"
  /\ UNCHANGED <<clientVars, schema, server, ticking>>

\* clearIntervalAsync waits for the callback; then close and exit.
Die == dying /\ ~ticking /\ Exit

\* A signal that kills, an uncaught exception, an exhausted retry.
Crash == Exit

-----------------------------------------------------------------------------
Poll == BeginPoll \/ EndPoll

Step(t) == Running /\ ClientStep(t) /\ UNCHANGED serverVars
Polling == Running /\ Poll /\ UNCHANGED serverVars
MainStep == Running /\ Main
Ticking == Running /\ (Tick \/ TickEnds)

Fault ==
  \/ Running /\ ClientFault /\ UNCHANGED serverVars
  \/ Running /\ (MainFails \/ Signal)
  \/ Crash

\* Faults end.
Settle ==
  /\ ~settled /\ settled' = TRUE
  /\ UNCHANGED <<alive, clientVars, serverVars>>

Next ==
  \/ Restart
  \/ \E t \in Tasks : Step(t)
  \/ Polling \/ MainStep \/ Ticking \/ Die
  \/ ~settled /\ Fault
  \/ Settle

Spec == Init /\ [][Next]_vars

\* Awaited calls return and timers tick; a fetch of the health that is tried again and
\* again succeeds; docker-compose restarts what has failed.
Fairness ==
  /\ WF_vars(Restart) /\ WF_vars(MainStep) /\ WF_vars(Die)
  /\ \A t \in Tasks : WF_vars(Step(t))
  /\ WF_vars(Running /\ BeginPoll /\ UNCHANGED serverVars)
  /\ SF_vars(Running /\ EndPoll /\ value' = TRUE /\ UNCHANGED serverVars)
  /\ WF_vars(Running /\ TickEnds)

FairSpec == Spec /\ Fairness

-----------------------------------------------------------------------------
(* Properties *)

\* The variables keep the shapes above, and a dead process has none of its state.
TypeOK ==
  /\ alive \in BOOLEAN /\ settled \in BOOLEAN
  /\ client \in {"null", "initializing", "initialized"}
  /\ socket \in [Contexts -> {"open", "closing", "closed"}]
  /\ {query, tx} \subseteq Contexts \cup {"none", "gone"}
  /\ timer \in {"none", "live", "cleared"} /\ leaked \in BOOLEAN
  /\ isFetching \in BOOLEAN /\ inflight \subseteq Tasks \cup {"poll"} /\ value \in BOOLEAN
  /\ task \in [Tasks -> ClientSteps \cup MainSteps]
  /\ own \in [Tasks -> Contexts \cup {"none"}]
  /\ schema \in BOOLEAN /\ server \in {"null", "initializing", "initialized", "running"}
  /\ progress \in {"none", "live", "cleared"}
  /\ ticking \in BOOLEAN /\ dying \in BOOLEAN
  /\ ~alive => ClientBlank /\ ServerBlank

\* OneFetch: the health of the node is never fetched twice at a time ("guard
\* against simultaneous data fetches", CHANGELOG.md:325), though several
\* initializations and timers, also leaked ones, call fetch.
OneFetch ==
  \A p, q \in inflight : p = q

\* NeverCutOff: whenever nobody is at work on the node client, it is initialized,
\* its two clients have open sockets, and its timer runs: no order of closes and
\* of concurrent onClose handlers, which return early from each other's shutdown
\* and initialize, leaves the client without a connection for good.
NeverCutOff == Quiet => Connected

\* ListensWhenReady: the HTTP server listens only over a node client that has been
\* initialized and a Hasura schema that resolvers can delegate to ("The GraphQL
\* server is now delayed until all modules are initialized", CHANGELOG.md:242).
ListensWhenReady ==
  server = "running" => schema /\ query # "none" /\ tx # "none"

\* The parts of the inductive invariant the theorems rest on.

Shutting(t) == task[t] \in {"clearing", "closeQuery", "closeTx"}
Fetching(t) == task[t] \in {"initialize", "fetch", "fetching"}
Connecting(t) == Fetching(t) \/ task[t] = "connect"

\* t waits for the tip on the newest context, or will be cut off.
Awaiting(t) == task[t] = "tip" /\ (own[t] = query \/ socket[own[t]] = "closed")

\* isFetching says who is in fetchFn.
FetchGuard ==
  /\ isFetching <=> inflight # {}
  /\ \A t \in Tasks : task[t] = "fetching" <=> t \in inflight

\* A task has a context exactly while it waits for it; a context closes at the
\* hands of a task.
Owning ==
  /\ \A t \in Tasks : own[t] # "none" <=> task[t] \in {"tip", "closeQuery", "closeTx"}
  /\ \A c \in Contexts : socket[c] = "closing" =>
       \E t \in Tasks : task[t] \in {"closeQuery", "closeTx"} /\ own[t] = c

\* main has passed through the steps before the one it is at.
MainOrder ==
  /\ \A t \in Tasks : task[t] = "tip" => query # "none"
  /\ task["main"] \in MainSteps => query # "none" /\ tx # "none"
  /\ task["main"] \in {"pots", "listen", "done"} => schema
  /\ server = "running" => task["main"] = "done"

\* Somebody initializes a client that is not initialized, and has the last word.
Attempted ==
  /\ client = "null" => task["main"] = "initialize"
  /\ client = "initializing" => \E t \in Tasks : Connecting(t) \/ Awaiting(t)

\* An initialized client that nobody shuts down is connected, or is about to be.
Ready ==
  client = "initialized" /\ (\A t \in Tasks : ~Shutting(t)) =>
    /\ Open(tx)
    /\ Open(query) \/ \E t \in Tasks : Connecting(t) \/ Awaiting(t)

\* The timer runs unless somebody has cleared it, who starts it again.
Timed ==
  (client = "initialized" => \A t \in Tasks : ~Shutting(t)) =>
    Polled \/ \E t \in Tasks : Fetching(t)

ClientInv == OneFetch /\ FetchGuard /\ Owning /\ MainOrder /\ Attempted /\ Ready /\ Timed

\* Serves: once faults end, the process comes to listen over a connected node
\* client whose health is known, unless main has failed and only logged it.
Serves ==
  settled ~> [](task["main"] = "failed" \/ (server = "running" /\ Connected /\ value))

\* Dies: a signal ends a process that listens, also when it comes while the callback
\* clears the timer that shutdown waits for (issue #459 of the repository).
Dies == dying ~> ~alive
=============================================================================
