-------------------------- MODULE BackgroundProofs --------------------------
(* Proofs about Background: types, the exclusion of migrations, and that the *)
(* process is never stranded.                                                *)
EXTENDS Background, TLAPS

-----------------------------------------------------------------------------
(* The steps of a task *)

\* Where a task goes, for each task.
LEMMA GoesTo ==
  ASSUME task \in [Tasks -> Steps], NEW t \in Tasks, NEW step, Goes(t, step)
  PROVE  \A s \in Tasks : task'[s] = IF s = t THEN step ELSE task[s]
BY DEF Goes

\* onDbSetup begins in an idle task.
LEMMA BeginsAt ==
  ASSUME TypeOK, BeginSetup
  PROVE  /\ task' \in [Tasks -> Steps]
         /\ \A s \in Tasks : task'[s] = task[s] \/ task'[s] = "hasura"
         /\ \E s \in Tasks : task'[s] # "idle"
<1>1. PICK t \in Setups : task[t] = "idle" /\ Goes(t, "hasura")
  BY DEF BeginSetup
<1>2. t \in Tasks /\ task \in [Tasks -> Steps] /\ "hasura" \in Steps
  BY DEF Tasks, TypeOK, Steps
<1> QED BY <1>1, <1>2 DEF Goes

\* A dead process has none of its state.
LEMMA ExitBlank ==
  ASSUME TypeOK, Exit
  PROVE  /\ TypeOK'
         /\ alive' = FALSE /\ listener' = "new" /\ applying' = FALSE
         /\ \A t \in Tasks : task'[t] = "idle"
<1>1. /\ alive' = FALSE /\ listener' = "new" /\ hasura' = "null" /\ applying' = FALSE
      /\ metadata' = "null" /\ follower' = "null" /\ working' = FALSE
      /\ task' = [t \in Tasks |-> "idle"]
      /\ dbsync' = dbsync /\ settled' = settled
      /\ migrated' = migrated /\ tracked' = tracked
  BY DEF Exit, outside, schema
<1>2. Blank'
  BY <1>1 DEF Blank
<1>3. task' \in [Tasks -> Steps]
  BY <1>1 DEF Steps
<1>4. TypeOK'
  BY <1>1, <1>2, <1>3 DEF TypeOK, ModuleState
<1> QED BY <1>1, <1>4

-----------------------------------------------------------------------------
(* Types *)

LEMMA TypeInit == Init => TypeOK
BY DEF Init, Blank, TypeOK, ModuleState, Steps

LEMMA TypeStep ==
  ASSUME TypeOK, NEW t \in Tasks, Step(t)
  PROVE  TypeOK'
<1>1. alive = TRUE
  <2>1. task[t] # "idle" \/ GivesUp(t)
    BY DEF Step, EnterHasura, Migrate, Track, ReadEpochs, EnterMetadata,
       RegistrySynced, EnterFollower, OgmiosConnects, StartWorker, ReadPoints,
       EnterStart, Resumed
  <2>2. task[t] # "idle"
    BY <2>1 DEF GivesUp
  <2> QED BY <2>2 DEF TypeOK, Blank
<1>2. /\ task \in [Tasks -> Steps]
      /\ \A step \in Steps : [task EXCEPT ![t] = step] \in [Tasks -> Steps]
      /\ AfterInitialize(t) \in Steps
  BY DEF TypeOK, AfterInitialize, Steps
<1>3. CASE EnterHasura(t)
  <2>1. task' \in [Tasks -> Steps]
    BY <1>2, <1>3 DEF EnterHasura, Goes, Steps, Cli
  <2>2. hasura' \in ModuleState /\ applying' \in BOOLEAN
    BY <1>3 DEF EnterHasura, TypeOK, ModuleState
  <2>3. /\ alive' = TRUE
        /\ UNCHANGED <<listener, dbsync, settled, migrated, tracked, metadata, follower, working>>
    BY <1>1, <1>3 DEF EnterHasura, outside, schema
  <2> QED BY <2>1, <2>2, <2>3 DEF TypeOK
<1>4. CASE Migrate(t)
  <2>1. task' \in [Tasks -> Steps] /\ migrated' \in BOOLEAN
    BY <1>2, <1>4 DEF Migrate, Goes, Steps, Cli
  <2> QED BY <1>1, <1>4, <2>1 DEF Migrate, modules, outside, TypeOK
<1>5. CASE Track(t)
  <2>1. task' \in [Tasks -> Steps]
    BY <1>2, <1>5 DEF Track, Goes, Steps, Cli
  <2>2. tracked' \in BOOLEAN /\ applying' \in BOOLEAN
    BY <1>5 DEF Track, TypeOK
  <2>3. alive' = TRUE /\ UNCHANGED <<listener, dbsync, settled, migrated, hasura, metadata, follower, working>>
    BY <1>1, <1>5 DEF Track, outside
  <2> QED BY <2>1, <2>2, <2>3 DEF TypeOK
<1>6. CASE ReadEpochs(t)
  BY <1>1, <1>2, <1>6 DEF ReadEpochs, Goes, schema, outside, TypeOK, ModuleState, Steps
<1>7. CASE GivesUp(t)
  BY <1>7, ExitBlank DEF GivesUp
<1>8. CASE EnterMetadata(t)
  BY <1>1, <1>2, <1>8 DEF EnterMetadata, Goes, schema, outside, TypeOK, ModuleState, Steps
<1>9. CASE RegistrySynced(t)
  BY <1>1, <1>2, <1>9 DEF RegistrySynced, Goes, schema, outside, TypeOK, ModuleState, Steps
<1>10. CASE EnterFollower(t)
  BY <1>1, <1>2, <1>10 DEF EnterFollower, Goes, schema, outside, TypeOK, ModuleState, Steps
<1>11. CASE OgmiosConnects(t)
  BY <1>1, <1>2, <1>11 DEF OgmiosConnects, Goes, schema, outside, TypeOK, ModuleState, Steps
<1>12. CASE StartWorker(t)
  BY <1>1, <1>2, <1>12 DEF StartWorker, Goes, schema, outside, TypeOK, ModuleState, Steps
<1>13. CASE ReadPoints(t)
  BY <1>1, <1>2, <1>13 DEF ReadPoints, Goes, schema, outside, modules, TypeOK, ModuleState, Steps
<1>14. CASE EnterStart(t)
  <2>1. CASE follower = "initialized"
    BY <1>1, <1>2, <1>14, <2>1 DEF EnterStart, Goes, schema, outside, modules, TypeOK, ModuleState, Steps
  <2>2. CASE follower # "initialized"
    BY <1>14, <2>2, ExitBlank DEF EnterStart
  <2> QED BY <2>1, <2>2
<1>15. CASE Resumed(t)
  BY <1>1, <1>2, <1>15 DEF Resumed, Goes, schema, outside, TypeOK, ModuleState, Steps
<1> QED BY <1>3, <1>4, <1>5, <1>6, <1>7, <1>8, <1>9, <1>10, <1>11, <1>12,
           <1>13, <1>14, <1>15 DEF Step

LEMMA TypeEvents ==
  ASSUME TypeOK, Restart \/ Listener \/ DbSetup \/ Fault \/ Settle
  PROVE  TypeOK'
<1> USE DEF TypeOK
<1>1. CASE Restart
  BY <1>1 DEF Restart, schema, outside, modules
<1>2. CASE Connected
  BY <1>2, BeginsAt DEF Connected, schema, outside, modules, Blank
<1>3. CASE Reconnected
  BY <1>3, BeginsAt DEF Reconnected, schema, outside, modules, Blank
<1>4. CASE DbSetup
  BY <1>4, BeginsAt DEF DbSetup, schema, outside, modules, BeginSetup, Goes, Blank
<1>5. CASE ConnectFails
  BY <1>5, BeginsAt DEF ConnectFails, schema, outside, modules, Blank
<1>6. CASE Disconnected
  BY <1>6 DEF Disconnected, schema, outside, modules, Blank
<1>7. CASE DbInit
  BY <1>7 DEF DbInit, Blank, ModuleState
<1>8. CASE OgmiosCloses
  <2>1. CASE Exit
    BY <2>1, ExitBlank
  <2>2. CASE ~Exit
    <3>1. /\ follower = "running" /\ follower' = "null" /\ Goes("close", "follower")
          /\ UNCHANGED <<alive, listener, outside, schema, hasura, applying, metadata, working>>
      BY <1>8, <2>2 DEF OgmiosCloses
    <3>2. alive = TRUE
      BY <3>1 DEF Blank
    <3>3. task' \in [Tasks -> Steps]
      BY <3>1 DEF Goes, Steps, Tasks
    <3> QED BY <3>1, <3>2, <3>3 DEF ModuleState, schema, outside
  <2> QED BY <2>1, <2>2
<1>9. CASE Crash
  BY <1>9, ExitBlank DEF Crash
<1>10. ASSUME NEW t \in Tasks, CliFails(t) PROVE TypeOK'
  <2>1. task[t] # "idle"
    BY <1>10 DEF CliFails
  <2>2. alive = TRUE
    BY <2>1 DEF Blank
  <2> QED BY <1>10, <2>2 DEF CliFails, Goes, Steps, Cli, schema, outside, modules
<1>11. CASE Settle
  BY <1>11 DEF Settle, schema, modules, Blank
<1> QED BY <1>1, <1>2, <1>3, <1>4, <1>5, <1>6, <1>7, <1>8, <1>9, <1>10, <1>11
        DEF Listener, Fault
\* BackgroundTypeCorrect: the process keeps its types whatever happens, for every
\* number of runs of onDbSetup.
THEOREM BackgroundTypeCorrect == Spec => []TypeOK
<1>1. TypeOK /\ [Next]_vars => TypeOK'
  <2> SUFFICES ASSUME TypeOK, [Next]_vars PROVE TypeOK'
    OBVIOUS
  <2>1. CASE Next
    BY <2>1, TypeStep, TypeEvents DEF Next
  <2>2. CASE UNCHANGED vars
    BY <2>2 DEF vars, outside, schema, modules, TypeOK, Blank
  <2> QED BY <2>1, <2>2
<1> QED BY TypeInit, <1>1, PTL DEF Spec

-----------------------------------------------------------------------------
(* The migrations *)

\* While some task runs commands of the Hasura CLI, applying is set: no other
\* task begins with them.
CliApplies == \A t \in Tasks : task[t] \in Cli => applying

ExclusionInv == TypeOK /\ MigrationsExclusive /\ CliApplies

\* A step that lets no task begin with the commands keeps the exclusion, unless it
\* unsets applying.
LEMMA NoneBegins ==
  ASSUME MigrationsExclusive, CliApplies,
         \A s \in Tasks : task'[s] \in Cli => task[s] \in Cli,
         applying => applying'
  PROVE  MigrationsExclusive' /\ CliApplies'
BY DEF MigrationsExclusive, CliApplies

\* Only EnterHasura begins them, and only when none is under way; the last one
\* unsets applying.
LEMMA ExclusionStep ==
  ASSUME ExclusionInv, NEW t \in Tasks, Step(t)
  PROVE  MigrationsExclusive' /\ CliApplies'
<1> USE DEF ExclusionInv
<1>0. task \in [Tasks -> Steps]
  BY DEF TypeOK
<1>1. CASE EnterHasura(t)
  <2>1. CASE task'[t] = "down" /\ ~applying
    <3>1. \A s \in Tasks : task[s] \notin Cli
      BY <2>1 DEF CliApplies
    <3>2. applying' = TRUE
      BY <1>1, <2>1, <1>0 DEF EnterHasura, Goes
    <3>3. \A s \in Tasks : s # t => task'[s] = task[s]
      BY <1>0, <1>1 DEF EnterHasura, Goes
    <3> QED BY <3>1, <3>2, <3>3 DEF MigrationsExclusive, CliApplies
  <2>2. CASE ~(task'[t] = "down" /\ ~applying)
    <3>1. \A s \in Tasks : task'[s] \in Cli => task[s] \in Cli
      BY <1>0, <1>1, <2>2 DEF EnterHasura, Goes, Cli
    <3>2. applying => applying'
      BY <1>1 DEF EnterHasura
    <3> QED BY <3>1, <3>2, NoneBegins
  <2> QED BY <2>1, <2>2
<1>2. CASE Migrate(t)
  <2>1. \A s \in Tasks : task'[s] \in Cli => task[s] \in Cli
    BY <1>0, <1>2 DEF Migrate, Goes, Cli
  <2>2. applying => applying'
    BY <1>2 DEF Migrate, modules
  <2> QED BY <2>1, <2>2, NoneBegins
<1>3. CASE Track(t)
  <2>1. \A s \in Tasks : task'[s] \in Cli => task[s] \in Cli
    BY <1>0, <1>3 DEF Track, Goes, Cli
  <2>2. CASE task[t] = "clear"
    <3>1. applying => applying'
      BY <1>3, <2>2 DEF Track
    <3> QED BY <2>1, <3>1, NoneBegins
  <2>3. CASE task[t] = "apply"
    <3>1. \A s \in Tasks : task[s] \in Cli => s = t
      BY <2>3 DEF MigrationsExclusive, Cli
    <3>2. task'[t] = "epochs"
      BY <1>0, <1>3, <2>3 DEF Track, Goes
    <3>3. \A s \in Tasks : task'[s] \notin Cli
      BY <2>1, <3>1, <3>2 DEF Cli
    <3> QED BY <3>3 DEF MigrationsExclusive, CliApplies
  <2> QED BY <1>3, <2>2, <2>3 DEF Track
<1>4. CASE Exit
  BY <1>4, ExitBlank DEF MigrationsExclusive, CliApplies, Cli
<1>5. CASE ReadEpochs(t) \/ EnterMetadata(t) \/ RegistrySynced(t) \/ EnterFollower(t)
        \/ OgmiosConnects(t) \/ StartWorker(t) \/ ReadPoints(t)
        \/ Resumed(t) \/ (EnterStart(t) /\ follower = "initialized")
  <2>1. \E step \in Steps \ Cli : Goes(t, step)
    BY <1>5 DEF ReadEpochs, EnterMetadata, RegistrySynced, EnterFollower,
       OgmiosConnects, StartWorker, ReadPoints, Resumed, EnterStart,
       AfterInitialize, Steps, Cli
  <2>2. \A s \in Tasks : task'[s] \in Cli => task[s] \in Cli
    BY <1>0, <2>1 DEF Goes
  <2>3. applying' = applying
    BY <1>5 DEF ReadEpochs, EnterMetadata, RegistrySynced, EnterFollower,
       OgmiosConnects, StartWorker, ReadPoints, Resumed, EnterStart, modules
  <2> QED BY <2>2, <2>3, NoneBegins
<1> QED BY <1>1, <1>2, <1>3, <1>4, <1>5 DEF Step, GivesUp, EnterStart

LEMMA ExclusionEvents ==
  ASSUME ExclusionInv, Restart \/ Listener \/ DbSetup \/ Fault \/ Settle
  PROVE  MigrationsExclusive' /\ CliApplies'
<1> USE DEF ExclusionInv
<1>0. task \in [Tasks -> Steps]
  BY DEF TypeOK
<1>1. CASE Exit
  BY <1>1, ExitBlank DEF MigrationsExclusive, CliApplies, Cli
<1>2. CASE ~Exit
  <2>1. applying' = applying
    BY <1>2 DEF Restart, Listener, Connected, Reconnected, DbSetup, Fault, Settle,
       ConnectFails, Disconnected, DbInit, OgmiosCloses, Crash, CliFails, modules
  <2>2. \A s \in Tasks : task'[s] \in Cli => task[s] \in Cli
    <3>1. CASE BeginSetup
      BY <3>1, BeginsAt DEF Cli
    <3>2. CASE UNCHANGED task
      BY <3>2
    <3>3. CASE Goes("close", "follower")
      BY <1>0, <3>3 DEF Goes, Cli
    <3>4. ASSUME NEW t \in Tasks, CliFails(t)
          PROVE \A s \in Tasks : task'[s] \in Cli => task[s] \in Cli
      BY <1>0, <3>4 DEF CliFails, Goes, Cli
    <3> QED BY <1>2, <3>1, <3>2, <3>3, <3>4 DEF Restart, Listener, Connected,
               Reconnected, DbSetup, Fault, Settle, ConnectFails, Disconnected,
               DbInit, OgmiosCloses, Crash
  <2> QED BY <2>1, <2>2, NoneBegins
<1> QED BY <1>1, <1>2

\* OneMigration: for every number of runs of onDbSetup, at most one of the tasks
\* runs commands of the Hasura CLI (MigrationsExclusive), although shutdown lets
\* initialize be entered while another initialize is in them.
THEOREM OneMigration == Spec => []MigrationsExclusive
<1>1. Init => ExclusionInv
  <2>1. Init => \A t \in Tasks : task[t] = "idle"
    BY DEF Init, Blank
  <2> QED BY <2>1, TypeInit DEF ExclusionInv, MigrationsExclusive, CliApplies, Cli
<1>2. ExclusionInv /\ [Next]_vars => ExclusionInv'
  <2> SUFFICES ASSUME ExclusionInv, [Next]_vars PROVE ExclusionInv'
    OBVIOUS
  <2>1. CASE Next
    BY <2>1, TypeStep, TypeEvents, ExclusionStep, ExclusionEvents
       DEF Next, ExclusionInv
  <2>2. CASE UNCHANGED vars
    BY <2>2 DEF vars, outside, schema, modules, TypeOK, Blank, ExclusionInv,
       MigrationsExclusive, CliApplies
  <2> QED BY <2>1, <2>2
<1>3. ExclusionInv => MigrationsExclusive
  BY DEF ExclusionInv
<1> QED BY <1>1, <1>2, <1>3, PTL DEF Spec

-----------------------------------------------------------------------------
(* Something is running, or on its way *)

\* A task goes on until it has the follower running, or the process exits.
LEMMA OnItsWay ==
  ASSUME TypeOK, NeverStranded, NEW t \in Tasks, Step(t)
  PROVE  NeverStranded'
<1>0. task \in [Tasks -> Steps]
  BY DEF TypeOK
<1>1. CASE Exit
  BY <1>1, ExitBlank DEF NeverStranded
<1>2. CASE Resumed(t)
  BY <1>2 DEF Resumed, NeverStranded
<1>3. CASE ~Exit /\ ~Resumed(t)
  <2>1. task'[t] # "idle"
    BY <1>0, <1>3 DEF Step, EnterHasura, Migrate, Track, ReadEpochs, GivesUp,
       EnterMetadata, RegistrySynced, EnterFollower, OgmiosConnects, StartWorker,
       ReadPoints, EnterStart, AfterInitialize, Goes
  <2> QED BY <2>1 DEF NeverStranded
<1> QED BY <1>1, <1>2, <1>3

\* The events of the listener, of cardano-db-sync and of Ogmios leave what runs
\* running, put a task in its place, or end the process.
LEMMA EventsLeaveSomething ==
  ASSUME TypeOK, NeverStranded, Restart \/ Listener \/ DbSetup \/ Fault \/ Settle
  PROVE  NeverStranded'
<1>0. task \in [Tasks -> Steps]
  BY DEF TypeOK
<1>1. CASE Exit
  BY <1>1, ExitBlank DEF NeverStranded
<1>2. CASE BeginSetup
  BY <1>2, BeginsAt DEF NeverStranded
<1>3. CASE Goes("close", "follower")
  <2>1. "close" \in Tasks /\ task'["close"] = "follower"
    BY <1>0, <1>3 DEF Tasks, Goes
  <2> QED BY <2>1 DEF NeverStranded
<1>4. CASE UNCHANGED <<task, follower>> /\ (listener' = listener \/ listener' = "failed")
  BY <1>4 DEF NeverStranded
<1>5. CASE Disconnected
  BY <1>5 DEF Disconnected, NeverStranded, modules
<1>6. ASSUME NEW t \in Tasks, CliFails(t) PROVE NeverStranded'
  <2>1. task'[t] # "idle"
    BY <1>0, <1>6 DEF CliFails, Goes
  <2> QED BY <2>1 DEF NeverStranded
<1>7. CASE Restart \/ Settle \/ DbInit 
        \/ (ConnectFails /\ ~BeginSetup) \/ (DbSetup /\ ~BeginSetup)
  BY <1>4, <1>7 DEF Restart, Settle, DbInit, ConnectFails, DbSetup, modules
<1>8. CASE OgmiosCloses
  BY <1>1, <1>3, <1>8 DEF OgmiosCloses
<1> QED BY <1>1, <1>2, <1>5, <1>6, <1>7, <1>8 DEF Listener, Connected, Reconnected,
           Fault, Crash

\* SomethingRuns: once the listener has been set up, the chain follower runs or a
\* task is on its way to run it, for every number of runs of onDbSetup and in
\* every order of notifications and closed connections (NeverStranded).
THEOREM SomethingRuns == Spec => []NeverStranded
<1>1. Init => NeverStranded
  BY DEF Init, Blank, NeverStranded
<1>2. TypeOK /\ NeverStranded /\ [Next]_vars => NeverStranded'
  <2> SUFFICES ASSUME TypeOK, NeverStranded, [Next]_vars PROVE NeverStranded'
    OBVIOUS
  <2>1. CASE Next
    BY <2>1, OnItsWay, EventsLeaveSomething DEF Next
  <2>2. CASE UNCHANGED vars
    BY <2>2 DEF vars, modules, NeverStranded
  <2> QED BY <2>1, <2>2
<1> QED BY <1>1, <1>2, BackgroundTypeCorrect, PTL DEF Spec
=============================================================================
