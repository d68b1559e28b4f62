----------------------------- MODULE Background -----------------------------
(***************************************************************************)
(* The background process of cardano-graphql: how background.ts, Db and    *)
(* the initialize and start methods of HasuraBackgroundClient,             *)
(* MetadataClient, Worker and ChainFollower                                *)
(* (packages/api-cardano-db-hasura/src) bring it up.  The events of a      *)
(* PostgreSQL listener run onDbSetup, also while it is running; a closed   *)
(* Ogmios connection restarts the chain follower beside it.  What throws   *)
(* ends the process, and docker-compose starts it again.                   *)
(*                                                                         *)
(* A task is a chain of awaits: one run of onDbSetup, or of the onClose of *)
(* the chain follower.  Its step is the call it is about to make or is     *)
(* waiting for.                                                            *)
(***************************************************************************)

CONSTANT Setups       \* bound: runs of onDbSetup in progress at the same time

ASSUME SetupsAssumption == "close" \notin Setups

Tasks == Setups \cup {"close"}

\* The commands of the Hasura CLI, in order; all steps but "idle", in order.
Cli == {"down", "up", "clear", "apply"}
Steps == {"idle", "hasura"} \cup Cli \cup
         {"epochs", "metadata", "registry", "follower", "connect", "worker",
          "points", "start", "resume"}

ModuleState == {"null", "initializing", "initialized"}

VARIABLES
  alive,      \* the process runs
  listener,   \* the connection of Db.pgSubscriber
  dbsync,     \* cardano-db-sync: running, or starting and its schema reset
  migrated,   \* the migrations' views are in the database
  tracked,    \* the metadata of the Hasura project is applied
  hasura,     \* HasuraBackgroundClient.state
  applying,   \* HasuraBackgroundClient.applyingSchemaAndMetadata
  metadata,   \* MetadataClient.state
  follower,   \* ChainFollower.state
  working,    \* Worker.start has subscribed to the job queue, once or more
  task,       \* step of each task
  settled     \* nothing outside the process fails any more (no code reads it)

outside == <<dbsync, settled>>
schema == <<migrated, tracked>>
modules == <<hasura, applying, metadata, follower, working>>
vars == <<alive, listener, outside, schema, modules, task>>

\* The queries on Epoch, and on Asset and Block, succeed.
Queryable == migrated /\ tracked

Blank ==
  /\ listener = "new" /\ hasura = "null" /\ applying = FALSE
  /\ metadata = "null" /\ follower = "null" /\ working = FALSE
  /\ task = [t \in Tasks |-> "idle"]

Init ==
  /\ alive = TRUE /\ dbsync = "running" /\ settled = FALSE
  /\ migrated = FALSE /\ tracked = FALSE
  /\ Blank

\* process.exit, or an unhandled rejection.
Exit ==
  /\ alive' = FALSE
  /\ listener' = "new" /\ hasura' = "null" /\ applying' = FALSE
  /\ metadata' = "null" /\ follower' = "null" /\ working' = FALSE
  /\ task' = [t \in Tasks |-> "idle"]
  /\ UNCHANGED <<outside, schema>>

\* restart: on-failure.
Restart ==
  /\ ~alive /\ alive' = TRUE
  /\ UNCHANGED <<listener, outside, schema, modules, task>>

Goes(t, step) == task' = [task EXCEPT ![t] = step]

-----------------------------------------------------------------------------
(* Db: the listener and its notifications *)

BeginSetup == \E t \in Setups : task[t] = "idle" /\ Goes(t, "hasura")

\* connect emits 'connected', and listenTo follows: one statement, done before the
\* first command of the Hasura CLI.
Connected ==
  /\ alive /\ listener = "new"
  /\ listener' = "listening"
  /\ BeginSetup
  /\ UNCHANGED <<alive, outside, schema, modules>>

\* connect rejects, or listenTo does after 'connected': init logs the error, and the
\* process goes on without notifications.
ConnectFails ==
  /\ alive /\ listener = "new"
  /\ listener' = "failed"
  /\ BeginSetup \/ UNCHANGED task
  /\ UNCHANGED <<alive, outside, schema, modules>>

Disconnected ==
  /\ listener = "listening" /\ listener' = "lost"
  /\ UNCHANGED <<alive, outside, schema, modules, task>>

\* The subscriber connects and listens again, and emits 'connected'.
Reconnected ==
  /\ listener = "lost" /\ listener' = "listening"
  /\ BeginSetup
  /\ UNCHANGED <<alive, outside, schema, modules>>

\* cardano-db-sync resets its schema, and with it the views, and notifies 'init'.
\* onDbInit: HasuraBackgroundClient.shutdown.
DbInit ==
  /\ dbsync = "running" /\ dbsync' = "starting"
  /\ migrated' = FALSE
  /\ hasura' = IF listener = "listening" THEN "null" ELSE hasura
  /\ UNCHANGED <<alive, listener, settled, tracked, applying, metadata, follower, working, task>>

\* It notifies 'db-setup', if anybody listens.
DbSetup ==
  /\ dbsync = "starting" /\ dbsync' = "running"
  /\ IF listener = "listening" THEN BeginSetup ELSE UNCHANGED task
  /\ UNCHANGED <<alive, listener, settled, schema, modules>>

-----------------------------------------------------------------------------
(* HasuraBackgroundClient.initialize and applySchemaAndMetadata.  A          *)
(* definition marked "Mistake" is one the properties are sensitive to: no    *)
(* action uses it.                                                           *)

\* Mistake: migrations are applied whoever else applies them.
EnterHasuraAgain(t) ==
  /\ task[t] = "hasura"
  /\ IF hasura # "null" THEN Goes(t, "metadata") /\ UNCHANGED <<hasura, applying>>
     ELSE hasura' = "initializing" /\ applying' = TRUE /\ Goes(t, "down")
  /\ UNCHANGED <<alive, listener, outside, schema, metadata, follower, working>>

EnterHasura(t) ==
  /\ task[t] = "hasura"
  /\ IF hasura # "null" THEN Goes(t, "metadata") /\ UNCHANGED <<hasura, applying>>
     ELSE /\ hasura' = "initializing"
          /\ applying' = TRUE
          /\ Goes(t, IF applying THEN "epochs" ELSE "down")
  /\ UNCHANGED <<alive, listener, outside, schema, metadata, follower, working>>

Migrate(t) ==
  /\ \/ task[t] = "down" /\ migrated' = FALSE /\ Goes(t, "up")
     \/ task[t] = "up" /\ migrated' = TRUE /\ Goes(t, "clear")
  /\ UNCHANGED <<alive, listener, outside, tracked, modules>>

Track(t) ==
  /\ \/ /\ task[t] = "clear" /\ Goes(t, "apply")
        /\ tracked' = FALSE /\ UNCHANGED applying
     \/ /\ task[t] = "apply" /\ Goes(t, "epochs")
        /\ tracked' = TRUE /\ applying' = FALSE
  /\ UNCHANGED <<alive, listener, outside, migrated, hasura, metadata, follower, working>>

\* A command fails: pRetry starts again with the first of its pair.
CliFails(t) ==
  /\ \/ task[t] \in {"down", "up"} /\ Goes(t, "down")
     \/ task[t] \in {"clear", "apply"} /\ Goes(t, "clear")
  /\ UNCHANGED <<alive, listener, outside, schema, modules>>

ReadEpochs(t) ==
  /\ task[t] = "epochs" /\ Queryable
  /\ hasura' = "initialized"
  /\ Goes(t, "metadata")
  /\ UNCHANGED <<alive, listener, outside, schema, applying, metadata, follower, working>>

\* Mistake: the query is retried for ever.
NeverGivesUp(t) == FALSE

\* The retries of a query that fails are used up: onFailedAttemptFor exits.
GivesUp(t) == task[t] \in {"epochs", "points"} /\ ~Queryable /\ Exit

-----------------------------------------------------------------------------
(* MetadataClient.initialize, ChainFollower.initialize, Worker.start and     *)
(* ChainFollower.start                                                       *)

EnterMetadata(t) ==
  /\ task[t] = "metadata"
  /\ IF metadata = "null" THEN metadata' = "initializing" /\ Goes(t, "registry")
     ELSE UNCHANGED metadata /\ Goes(t, "follower")
  /\ UNCHANGED <<alive, listener, outside, schema, hasura, applying, follower, working>>

\* Mistake: the client is said to be running.
RegistryRuns(t) ==
  /\ task[t] = "registry"
  /\ metadata' = "running"
  /\ Goes(t, "follower")
  /\ UNCHANGED <<alive, listener, outside, schema, hasura, applying, follower, working>>

RegistrySynced(t) ==
  /\ task[t] = "registry"
  /\ metadata' = "initialized"
  /\ Goes(t, "follower")
  /\ UNCHANGED <<alive, listener, outside, schema, hasura, applying, follower, working>>

\* onClose does not start the worker.
AfterInitialize(t) == IF t = "close" THEN "points" ELSE "worker"

EnterFollower(t) ==
  /\ task[t] = "follower"
  /\ IF follower = "null" THEN follower' = "initializing" /\ Goes(t, "connect")
     ELSE UNCHANGED follower /\ Goes(t, AfterInitialize(t))
  /\ UNCHANGED <<alive, listener, outside, schema, hasura, applying, metadata, working>>

OgmiosConnects(t) ==
  /\ task[t] = "connect"
  /\ follower' = "initialized"
  /\ Goes(t, AfterInitialize(t))
  /\ UNCHANGED <<alive, listener, outside, schema, hasura, applying, metadata, working>>

\* Worker.state stays 'initialized': each call starts another queue.
StartWorker(t) ==
  /\ task[t] = "worker"
  /\ working' = TRUE
  /\ Goes(t, "points")
  /\ UNCHANGED <<alive, listener, outside, schema, hasura, applying, metadata, follower>>

\* getMostRecentPointWithNewAsset
ReadPoints(t) ==
  /\ task[t] = "points" /\ Queryable
  /\ Goes(t, "start")
  /\ UNCHANGED <<alive, listener, outside, schema, modules>>

\* start throws unless the follower is initialized, and onDbSetup exits; nobody
\* catches the rejection of onClose.
EnterStart(t) ==
  /\ task[t] = "start"
  /\ IF follower = "initialized"
     THEN Goes(t, "resume") /\ UNCHANGED <<alive, listener, outside, schema, modules>>
     ELSE Exit

Resumed(t) ==
  /\ task[t] = "resume"
  /\ follower' = "running"
  /\ Goes(t, "idle")
  /\ UNCHANGED <<alive, listener, outside, schema, hasura, applying, metadata, working>>

\* Mistake: onClose is shutdown only.
OgmiosOnlyCloses ==
  \/ /\ follower = "running" /\ task["close"] = "idle"
     /\ follower' = "null"
     /\ UNCHANGED <<alive, listener, outside, schema, hasura, applying, metadata, working, task>>
  \/ follower \in {"initializing", "initialized"} /\ Exit

\* onClose: shutdown, which throws unless the follower is running.
\* Bound: one onClose at a time.
OgmiosCloses ==
  \/ /\ follower = "running" /\ task["close"] = "idle"
     /\ follower' = "null"
     /\ Goes("close", "follower")
     /\ UNCHANGED <<alive, listener, outside, schema, hasura, applying, metadata, working>>
  \/ follower \in {"initializing", "initialized"} /\ Exit

\* A signal (onDeath), the error event of the listener, an exhausted retry.
Crash == alive /\ Exit

-----------------------------------------------------------------------------
Step(t) ==
  \/ EnterHasura(t) \/ Migrate(t) \/ Track(t) \/ ReadEpochs(t) \/ GivesUp(t)
  \/ EnterMetadata(t) \/ RegistrySynced(t)
  \/ EnterFollower(t) \/ OgmiosConnects(t) \/ StartWorker(t)
  \/ ReadPoints(t) \/ EnterStart(t) \/ Resumed(t)

Listener == Connected \/ Reconnected

Fault ==
  \/ ConnectFails \/ Disconnected \/ DbInit \/ OgmiosCloses \/ Crash
  \/ \E t \in Tasks : CliFails(t)

\* Faults end: from here on the process exits only where its code does.
Settle ==
  /\ ~settled /\ settled' = TRUE
  /\ UNCHANGED <<alive, listener, dbsync, schema, modules, task>>

Next ==
  \/ Restart \/ Listener \/ DbSetup
  \/ \E t \in Tasks : Step(t)
  \/ ~settled /\ Fault
  \/ Settle

Spec == Init /\ [][Next]_vars

\* Calls are answered, a lost connection is made again, and cardano-db-sync comes
\* up; docker-compose restarts what has failed.
Fairness ==
  /\ WF_vars(Restart) /\ WF_vars(Listener) /\ WF_vars(DbSetup)
  /\ \A t \in Tasks : WF_vars(Step(t))

FairSpec == Spec /\ Fairness

-----------------------------------------------------------------------------
(* Properties *)

\* The variables keep the shapes above, and a process that is not alive has none.
TypeOK ==
  /\ alive \in BOOLEAN /\ dbsync \in {"running", "starting"} /\ settled \in BOOLEAN
  /\ listener \in {"new", "listening", "lost", "failed"}
  /\ migrated \in BOOLEAN /\ tracked \in BOOLEAN /\ applying \in BOOLEAN
  /\ hasura \in ModuleState /\ metadata \in ModuleState
  /\ follower \in ModuleState \cup {"running"}
  /\ working \in BOOLEAN /\ task \in [Tasks -> Steps]
  /\ ~alive => Blank

\* MigrationsExclusive: two runs of applySchemaAndMetadata never interleave their
\* Hasura commands, though onDbInit lets the client be initialized anew while one
\* is under way.
MigrationsExclusive ==
  \A s, t \in Tasks : task[s] \in Cli /\ task[t] \in Cli => s = t

\* NeverStranded: once the listener has been set up, the chain follower runs,
\* or some task is on its way to run it: no order of notifications,
\* reconnections and closed connections leaves a live process with nothing to do.
NeverStranded ==
  listener \in {"listening", "lost"} =>
    follower = "running" \/ \E t \in Tasks : task[t] # "idle"

\* Stabilises: the process is "immune to schema being removed should
\* cardano-db-sync restart" (CHANGELOG.md:497): once faults end, it runs with its
\* modules initialized and the schema and metadata in place, also when it
\* missed the notifications or handled them together, unless Db.init failed.
Ready ==
  /\ follower = "running" /\ metadata = "initialized" /\ working
  /\ Queryable

Stabilises ==
  settled ~> [](listener = "failed" \/ Ready)
=============================================================================
