------------------------ MODULE MetadataWorkerProofs ------------------------
(***************************************************************************)
(* Theorems about MetadataWorker, for every set of assets and jobs, every  *)
(* retry limit and every bound on the versions: the variables are typed,   *)
(* no row is forgotten, the work is not multiplied, metadata does not go   *)
(* back, and MetadataMirror is implemented.                                *)
(***************************************************************************)
EXTENDS MetadataWorker, TLAPS

(* What the helpers return. *)

LEMMA RunnerNames == /\ Queues \subseteq Runners /\ "late" \in Runners
                     /\ "late" \notin Queues
  BY DEF Runners, Queues

LEMMA Zero == 0 \in Versions /\ Versions \subseteq Nat
  BY WorkerAssumption DEF WorkerAssumption, Versions

LEMMA IdleType == Idle \in RunnerType
  BY Zero DEF Idle, RunnerType

LEMMA JobIsTyped ==
  ASSUME NEW q \in Queues, NEW a \in Assets
  PROVE  Job(q, a) \in JobType
  BY WorkerAssumption DEF WorkerAssumption, Job, JobType

LEMMA NoJobIsDead == NoJob.state = "none" /\ \A job \in JobType : job.state # "none"
  BY DEF NoJob, JobType

LEMMA FailedType ==
  ASSUME NEW job \in JobType \cup {NoJob}
  PROVE  /\ Failed(job) \in JobType \cup {NoJob}
         /\ Failed(job).state # "active"
         /\ Failed(job) # NoJob =>
              /\ job # NoJob /\ Failed(job).asset = job.asset
              /\ Failed(job).queue = job.queue
  BY WorkerAssumption, NoJobIsDead DEF WorkerAssumption, Failed, JobType, NoJob

LEMMA FetchedType ==
  ASSUME NEW job \in JobType, job.state \in {"created", "retry"}
  PROVE  /\ Fetched(job) \in JobType
         /\ Fetched(job).asset = job.asset /\ Fetched(job).queue = job.queue
<1> DEFINE n == IF job.state = "retry" THEN job.retries + 1 ELSE job.retries
<1>1. n \in Nat /\ n <= RetryLimit[job.queue]
  BY WorkerAssumption DEF WorkerAssumption, JobType
<1> QED BY <1>1 DEF Fetched, JobType

LEMMA FailJobsEffect ==
  ASSUME TypeOK, NEW failing \in SUBSET Jobs, FailJobs(failing)
  PROVE  /\ jobs' \in [Jobs -> JobType \cup {NoJob}]
         /\ served' \subseteq Jobs /\ exhausted' \subseteq Assets
         /\ served' \subseteq served
         /\ \A j \in Jobs \ failing : jobs'[j] = jobs[j] /\ (j \in served => j \in served')
         /\ \A j \in failing : jobs'[j].state # "active"
         /\ \A j \in failing : jobs'[j].state # "none" =>
              /\ jobs[j].state # "none" /\ jobs'[j].asset = jobs[j].asset
              /\ jobs'[j].queue = jobs[j].queue /\ (j \in served => j \in served')
<1>1. jobs' = [j \in Jobs |-> IF j \in failing THEN Failed(jobs[j]) ELSE jobs[j]]
  BY DEF FailJobs
<1>2. \A j \in Jobs : jobs[j] \in JobType \cup {NoJob}
  BY DEF TypeOK
<1>3. jobs' \in [Jobs -> JobType \cup {NoJob}]
  BY <1>1, <1>2, FailedType
<1>4. served' \subseteq served /\ served' \subseteq Jobs /\ exhausted' \subseteq Assets
  BY DEF FailJobs, TypeOK
<1>5. \A j \in Jobs \ failing : jobs'[j] = jobs[j] /\ (j \in served => j \in served')
  BY <1>1 DEF FailJobs, Over
<1>6. ASSUME NEW j \in failing
      PROVE  jobs'[j] = Failed(jobs[j]) /\ jobs'[j].state # "active"
  BY <1>1, <1>2, FailedType
<1>7. ASSUME NEW j \in failing, jobs'[j].state # "none"
      PROVE  /\ jobs[j].state # "none" /\ jobs'[j].asset = jobs[j].asset
             /\ jobs'[j].queue = jobs[j].queue /\ (j \in served => j \in served')
  <2>1. Failed(jobs[j]) # NoJob
    BY <1>6, <1>7, NoJobIsDead
  <2>2. jobs[j].state # "none"
    BY <2>1, <1>2, FailedType, NoJobIsDead
  <2>3. j \in served => j \in served'
    BY <2>1 DEF FailJobs, Over
  <2> QED BY <2>1, <2>2, <2>3, <1>2, <1>6, FailedType
<1> QED BY <1>3, <1>4, <1>5, <1>6, <1>7

-----------------------------------------------------------------------------
(* Types *)

LEMMA TypeInit == Init => TypeOK
  BY Zero, IdleType DEF Init, TypeOK

LEMMA TypePoll ==
  ASSUME TypeOK, NEW q \in Queues, NEW due \in SUBSET Jobs, Poll(q, due)
  PROVE  TypeOK'
<1>1. \A j \in due : jobs[j] \in JobType /\ jobs[j].state \in {"created", "retry"}
  BY NoJobIsDead DEF TypeOK, Poll, Waiting
<1>2. \A j \in due : Fetched(jobs[j]) \in JobType /\ jobs[j].asset \in Assets
  BY <1>1, FetchedType DEF JobType
<1>3. jobs' \in [Jobs -> JobType \cup {NoJob}]
  BY <1>2 DEF TypeOK, Poll
<1> DEFINE batch == {[job |-> j, asset |-> jobs[j].asset] : j \in due}
<1>4. batch \subseteq Work
  BY <1>2 DEF Work
<1>5. [Idle EXCEPT !.step = "fetch", !.batch = batch, !.todo = batch] \in RunnerType
  <2> HIDE DEF batch
  <2> QED BY <1>4, Zero DEF Idle, RunnerType
<1>6. runner' = [runner EXCEPT ![q] =
                  [Idle EXCEPT !.step = "fetch", !.batch = batch, !.todo = batch]]
  BY DEF Poll
<1>7. runner' \in [Runners -> RunnerType]
  <2> HIDE DEF batch
  <2> QED BY <1>5, <1>6 DEF TypeOK
<1>8. served' \subseteq Jobs /\ repeated' \subseteq Assets
  BY <1>2 DEF TypeOK, Poll
<1> QED BY <1>3, <1>7, <1>8 DEF TypeOK, Poll, database

LEMMA TypeRows ==
  ASSUME TypeOK, NEW a \in Assets, InsertRow(a) \/ DeleteRow(a)
  PROVE  TypeOK'
<1>1. CASE InsertRow(a)
  <2>1. jobs' \in [Jobs -> JobType \cup {NoJob}] /\ served' \subseteq Jobs
    BY <1>1, JobIsTyped DEF InsertRow, TypeOK, Queues
  <2> QED BY <1>1, <2>1 DEF InsertRow, TypeOK
<1>2. CASE DeleteRow(a)
  BY <1>2, Zero DEF DeleteRow, TypeOK, history
<1> QED BY <1>1, <1>2

LEMMA TypeExternal ==
  ASSUME TypeOK,
         RegistryChanges \/ (\E j \in Jobs : Expire(j)) \/ Crash
           \/ (\E q \in Queues : TimesOut(q)) \/ (\E r \in Runners : Rejects(r))
  PROVE  TypeOK'
<1>1. CASE RegistryChanges
  BY <1>1, WorkerAssumption
  DEF RegistryChanges, TypeOK, Versions, WorkerAssumption, database, history
<1>2. ASSUME NEW j \in Jobs, Expire(j) PROVE TypeOK'
  <2>1. FailJobs({j})
    BY <1>2 DEF Expire
  <2> QED BY <1>2, <2>1, FailJobsEffect DEF Expire, TypeOK, database
<1>3. CASE Crash
  BY <1>3, IdleType DEF Crash, TypeOK, database, history
<1>4. ASSUME NEW r \in Runners
      PROVE  /\ JobsOf(runner[r].batch) \subseteq Jobs
             /\ AssetsOf(runner[r].todo) \subseteq Assets
  BY DEF TypeOK, RunnerType, Work, JobsOf, AssetsOf
<1>5. ASSUME NEW q \in Queues, TimesOut(q) PROVE TypeOK'
  <2>1. FailJobs(JobsOf(runner[q].batch))
    BY <1>5 DEF TimesOut
  <2>2. JobsOf(runner[q].batch) \in SUBSET Jobs
    BY <1>4, RunnerNames
  <2>3. runner' \in [Runners -> RunnerType]
    BY <1>5, IdleType, RunnerNames DEF TimesOut, TypeOK
  <2>4. repeated' \subseteq Assets
    BY <1>4, <1>5, RunnerNames DEF TimesOut, TypeOK
  <2> QED BY <1>5, <2>1, <2>2, <2>3, <2>4, FailJobsEffect DEF TimesOut, TypeOK, database
<1>6. ASSUME NEW r \in Runners, Rejects(r) PROVE TypeOK'
  <2> DEFINE failing == IF r = "late" THEN {} ELSE JobsOf(runner[r].batch)
  <2>1. FailJobs(failing) /\ failing \in SUBSET Jobs
    BY <1>4, <1>6 DEF Rejects
  <2>2. runner' \in [Runners -> RunnerType]
    BY <1>6, IdleType DEF Rejects, TypeOK
  <2> HIDE DEF failing
  <2> QED BY <1>6, <2>1, <2>2, FailJobsEffect DEF Rejects, TypeOK, database
<1> QED BY <1>1, <1>2, <1>3, <1>5, <1>6

LEMMA TypeFetch ==
  ASSUME TypeOK, NEW r \in Runners, NEW missing \in SUBSET Assets, Fetch(r, missing)
  PROVE  TypeOK'
<1> DEFINE f == [a \in Assets |->
       IF a \in AssetsOf(runner[r].batch) \ missing THEN registry[a] ELSE 0]
<1>1. f \in [Assets -> Versions]
  BY Zero DEF TypeOK
<1>2. runner' = [runner EXCEPT ![r] = [runner[r] EXCEPT !.step = "hashes", !.found = f]]
  BY DEF Fetch
<1> HIDE DEF f
<1>3. [runner[r] EXCEPT !.step = "hashes", !.found = f] \in RunnerType
  BY <1>1 DEF TypeOK, RunnerType
<1>4. runner' \in [Runners -> RunnerType]
  BY <1>2, <1>3 DEF TypeOK
<1> QED BY <1>4 DEF Fetch, TypeOK, database, history

LEMMA TypeReadHashes ==
  ASSUME TypeOK, NEW r \in Runners, ReadHashes(r)
  PROVE  TypeOK'
<1> DEFINE hashes == {[assetId |-> Hex(a), hash |-> stored[a]] :
                        a \in rows \cap AssetsOf(runner[r].batch)}
<1>1. hashes \subseteq [assetId : Ids, hash : Versions]
  <2>1. ASSUME NEW a \in rows
        PROVE  [assetId |-> Hex(a), hash |-> stored[a]] \in [assetId : Ids, hash : Versions]
    <3>1. a \in Assets /\ stored[a] \in Versions
      BY DEF TypeOK
    <3>2. Hex(a) \in Ids
      BY <3>1 DEF Hex, Ids
    <3> QED BY <3>1, <3>2
  <2> QED BY <2>1
<1>2. runner' = [runner EXCEPT ![r] =
                   [runner[r] EXCEPT !.step = "loop", !.hashes = hashes]]
  BY DEF ReadHashes
<1> HIDE DEF hashes
<1>3. [runner[r] EXCEPT !.step = "loop", !.hashes = hashes] \in RunnerType
  BY <1>1 DEF TypeOK, RunnerType
<1>4. runner' \in [Runners -> RunnerType]
  BY <1>2, <1>3 DEF TypeOK
<1> QED BY <1>4 DEF ReadHashes, TypeOK, database, history

LEMMA TreatedType ==
  ASSUME TypeOK, NEW r \in Runners, NEW w \in Work, Treated(r, w)
  PROVE  runner' \in [Runners -> RunnerType]
<1>1. [runner[r] EXCEPT !.todo = runner[r].todo \ {w}, !.pending = {}] \in RunnerType
  BY DEF TypeOK, RunnerType
<1> QED BY <1>1 DEF TypeOK, Treated

LEMMA TypeTreat ==
  ASSUME TypeOK, NEW r \in Runners, NEW w \in Work,
         FailMissing(r, w) \/ StoreThenPublish(r, w)
  PROVE  TypeOK'
<1>1. CASE FailMissing(r, w)
  <2>1. FailJobs({w.job}) /\ {w.job} \in SUBSET Jobs
    BY <1>1 DEF FailMissing, Work
  <2> QED BY <1>1, <2>1, FailJobsEffect, TreatedType DEF FailMissing, TypeOK, database
<1>2. CASE Store(r, w) /\ Matches(r, w)
  BY <1>2, TreatedType DEF Store, TypeOK, history
<1>3. CASE Store(r, w) /\ ~Matches(r, w)
  <2>1. w.asset \in Assets /\ Found(r, w) \in Versions
    BY DEF Work, Found, TypeOK, RunnerType
  <2>2. stored' \in [Assets -> Versions]
    BY <1>3, <2>1 DEF Store, Write, TypeOK
  <2>3. [runner[r] EXCEPT !.pending = {w}] \in RunnerType
    BY DEF TypeOK, RunnerType
  <2>4. runner' \in [Runners -> RunnerType]
    BY <1>3, <2>3 DEF Store, TypeOK
  <2> QED BY <1>3, <2>2, <2>4 DEF Store, TypeOK, history
<1>4. CASE Publish(r, w)
  <2>1. w.asset \in Assets /\ w.job \in Jobs
    BY DEF Work
  <2>2. Job("update", w.asset) \in JobType
    BY <2>1, JobIsTyped DEF Queues
  <2>3. jobs' \in [Jobs -> JobType \cup {NoJob}] /\ served' \subseteq Jobs
    BY <1>4, <2>1, <2>2 DEF Publish, Requeue, TypeOK
  <2>4. exhausted' \subseteq Assets
    BY <1>4 DEF Publish, Requeue, TypeOK
  <2> QED BY <1>4, <2>3, <2>4, TreatedType DEF Publish, TypeOK, database
<1> QED BY <1>1, <1>2, <1>3, <1>4 DEF StoreThenPublish

LEMMA TypeFinish ==
  ASSUME TypeOK, NEW r \in Runners, Finish(r)
  PROVE  TypeOK'
<1>1. jobs' \in [Jobs -> JobType \cup {NoJob}] /\ served' \subseteq Jobs
  BY DEF Finish, TypeOK
<1>2. runner' \in [Runners -> RunnerType]
  BY IdleType DEF Finish, TypeOK
<1> QED BY <1>1, <1>2 DEF Finish, TypeOK, database

\* A step of the worker keeps the types, whatever it is.
LEMMA TypeStep == TypeOK /\ [Next]_vars => TypeOK'
<1> SUFFICES ASSUME TypeOK, [Next]_vars PROVE TypeOK'
  OBVIOUS
<1>1. CASE RegistryChanges \/ (\E j \in Jobs : Expire(j)) \/ Faults
  BY <1>1, TypeExternal DEF Faults
<1>2. CASE RowsChange
  BY <1>2, TypeRows DEF RowsChange
<1>3. CASE \E q \in Queues, due \in SUBSET Jobs : Poll(q, due)
  BY <1>3, TypePoll
<1>4. ASSUME NEW r \in Runners, Handle(r) \/ \E m \in SUBSET Assets : Fetch(r, m)
      PROVE  TypeOK'
  BY <1>4, TypeFetch, TypeReadHashes, TypeTreat, TypeFinish DEF Handle, Treat
<1>5. CASE UNCHANGED vars
  BY <1>5 DEF vars, TypeOK
<1> QED BY <1>1, <1>2, <1>3, <1>4, <1>5 DEF Next, Misses

\* Every variable of the worker keeps its shape, and no job is retried beyond the
\* limit it was published with, for any number of assets, jobs and versions.
THEOREM WorkerTypeCorrect == Spec => []TypeOK
<1> QED BY TypeInit, TypeStep, PTL DEF Spec

-----------------------------------------------------------------------------
(* What the handlers hold *)

Consistent(x) ==
  /\ x.todo \subseteq x.batch /\ x.pending \subseteq x.todo
  /\ \A h \in x.hashes : h.assetId.prefix = "\\x"

LEMMA ConsistentIdle == Consistent(Idle)
  BY DEF Consistent, Idle

LEMMA ConsistentRunners ==
  Batches /\ HashesInHex <=> \A r \in Runners : Consistent(runner[r])
  BY DEF Batches, HashesInHex, Consistent

\* The assetId of a job is never that of a row read back.
LEMMA NothingMatches ==
  ASSUME TypeOK, HashesInHex, NEW r \in Runners, NEW w \in Work
  PROVE  ~Matches(r, w)
<1>1. SUFFICES ASSUME Matches(r, w) PROVE FALSE
  OBVIOUS
<1> DEFINE h == [assetId |-> Plain(w.asset), hash |-> Found(r, w)]
<1>2. h \in runner[r].hashes
  BY <1>1 DEF Matches
<1>3. h.assetId.prefix = ""
  BY DEF Plain
<1>4. h.assetId.prefix = "\\x"
  BY <1>2 DEF HashesInHex
<1> QED BY <1>3, <1>4

LEMMA StoreWrites ==
  ASSUME TypeOK, HashesInHex, NEW r \in Runners, NEW w \in Work, Store(r, w)
  PROVE  runner' = [runner EXCEPT ![r] = [runner[r] EXCEPT !.pending = {w}]]
  BY NothingMatches DEF Store

\* What each step of a handler does to what it holds.
LEMMA HandlerEffect ==
  ASSUME TypeOK, Batches, HashesInHex, NEW r \in Runners,
         \/ \E m \in SUBSET Assets : Fetch(r, m)
         \/ ReadHashes(r)
         \/ \E w \in Work : FailMissing(r, w) \/ Store(r, w) \/ Publish(r, w)
  PROVE  /\ runner'[r].batch = runner[r].batch
         /\ Consistent(runner'[r])
         /\ \A s \in Runners \ {r} : runner'[s] = runner[s]
<1> USE DEF TypeOK
<1>0. Consistent(runner[r]) /\ runner[r] \in RunnerType
  BY ConsistentRunners
<1>1. ASSUME NEW m \in SUBSET Assets, Fetch(r, m)
      PROVE  /\ runner'[r].batch = runner[r].batch /\ Consistent(runner'[r])
             /\ \A s \in Runners \ {r} : runner'[s] = runner[s]
  <2> DEFINE f == [a \in Assets |->
         IF a \in AssetsOf(runner[r].batch) \ m THEN registry[a] ELSE 0]
  <2>1. runner' = [runner EXCEPT ![r] = [runner[r] EXCEPT !.step = "hashes", !.found = f]]
    BY <1>1 DEF Fetch
  <2> HIDE DEF f
  <2>2. runner'[r] = [runner[r] EXCEPT !.step = "hashes", !.found = f]
    BY <2>1
  <2>3. /\ runner'[r].batch = runner[r].batch /\ runner'[r].todo = runner[r].todo
        /\ runner'[r].pending = runner[r].pending /\ runner'[r].hashes = runner[r].hashes
    BY <1>0, <2>2 DEF RunnerType
  <2>4. Consistent(runner'[r])
    BY <1>0, <2>3 DEF Consistent
  <2>5. \A s \in Runners \ {r} : runner'[s] = runner[s]
    BY <2>1
  <2> QED BY ZenonT(30), <2>3, <2>4, <2>5
<1>2. CASE ReadHashes(r)
  <2> DEFINE hashes == {[assetId |-> Hex(a), hash |-> stored[a]] :
                          a \in rows \cap AssetsOf(runner[r].batch)}
  <2>1. runner' = [runner EXCEPT ![r] =
                     [runner[r] EXCEPT !.step = "loop", !.hashes = hashes]]
    BY <1>2 DEF ReadHashes
  <2>2. \A h \in hashes : h.assetId.prefix = "\\x"
    BY DEF Hex
  <2> HIDE DEF hashes
  <2> QED BY <1>0, <2>1, <2>2 DEF Consistent, RunnerType
<1>3. ASSUME NEW w \in Work, Treated(r, w), runner[r].pending \subseteq {w}
      PROVE  /\ runner'[r].batch = runner[r].batch /\ Consistent(runner'[r])
             /\ \A s \in Runners \ {r} : runner'[s] = runner[s]
  BY <1>0, <1>3 DEF Treated, Consistent, RunnerType
<1>4. ASSUME NEW w \in Work, Store(r, w)
      PROVE  /\ runner'[r].batch = runner[r].batch /\ Consistent(runner'[r])
             /\ \A s \in Runners \ {r} : runner'[s] = runner[s]
  <2>1. w \in runner[r].todo
    BY <1>4 DEF Store, At
  <2> QED BY <1>0, <1>4, <2>1, StoreWrites DEF Consistent, RunnerType
<1>5. ASSUME NEW w \in Work, FailMissing(r, w)
      PROVE  Treated(r, w) /\ runner[r].pending \subseteq {w}
  BY <1>5 DEF FailMissing, At
<1>6. ASSUME NEW w \in Work, Publish(r, w)
      PROVE  /\ runner'[r].batch = runner[r].batch /\ Consistent(runner'[r])
             /\ \A s \in Runners \ {r} : runner'[s] = runner[s]
  BY <1>0, <1>6 DEF Publish, Treated, Consistent, RunnerType
<1> QED BY <1>1, <1>2, <1>3, <1>4, <1>5, <1>6

LEMMA ConsistentStep ==
  TypeOK /\ Batches /\ HashesInHex /\ [Next]_vars => Batches' /\ HashesInHex'
<1> SUFFICES ASSUME TypeOK, Batches, HashesInHex, [Next]_vars
             PROVE  \A r \in Runners : Consistent(runner'[r])
  BY DEF Batches, HashesInHex, Consistent
<1> USE DEF TypeOK
<1>0. \A r \in Runners : Consistent(runner[r])
  BY ConsistentRunners
<1>1. CASE UNCHANGED runner
  BY <1>0, <1>1
<1>2. ASSUME NEW q \in Queues, NEW due \in SUBSET Jobs, Poll(q, due)
      PROVE  \A r \in Runners : Consistent(runner'[r])
  <2> DEFINE batch == {[job |-> j, asset |-> jobs[j].asset] : j \in due}
  <2>1. runner' = [runner EXCEPT ![q] =
                     [Idle EXCEPT !.step = "fetch", !.batch = batch, !.todo = batch]]
    BY <1>2 DEF Poll
  <2> HIDE DEF batch
  <2>2. Consistent([Idle EXCEPT !.step = "fetch", !.batch = batch, !.todo = batch])
    BY DEF Consistent, Idle
  <2> QED BY <1>0, <2>1, <2>2
<1>3. ASSUME NEW q \in Queues, TimesOut(q)
      PROVE  \A r \in Runners : Consistent(runner'[r])
  <2>1. \A r \in Runners : runner'[r] \in {runner[r], runner[q], Idle}
    BY <1>3, RunnerNames DEF TimesOut
  <2> QED BY <1>0, <2>1, ConsistentIdle, RunnerNames
<1>4. ASSUME NEW r \in Runners, Rejects(r) \/ Finish(r) \/ Crash
      PROVE  \A s \in Runners : Consistent(runner'[s])
  <2>1. \A s \in Runners : runner'[s] \in {runner[s], Idle}
    BY <1>4 DEF Rejects, Finish, Crash
  <2> QED BY <1>0, <2>1, ConsistentIdle
<1>5. ASSUME NEW r \in Runners,
             \/ \E m \in SUBSET Assets : Fetch(r, m)
             \/ ReadHashes(r) \/ Treat(r)
      PROVE  \A s \in Runners : Consistent(runner'[s])
  BY <1>0, <1>5, HandlerEffect DEF Treat, StoreThenPublish
<1>6. RegistryChanges \/ RowsChange \/ (\E j \in Jobs : Expire(j)) => UNCHANGED runner
  BY DEF RegistryChanges, RowsChange, InsertRow, DeleteRow, Expire
<1> QED BY <1>1, <1>2, <1>3, <1>4, <1>5, <1>6, RunnerNames
        DEF Next, Misses, Faults, Handle, vars

-----------------------------------------------------------------------------
(* What the handlers hold and the job table *)

Holds(q, w) ==
  Live(w.job) =>
    /\ jobs[w.job].asset = w.asset /\ jobs[w.job].queue = q
    /\ w \notin runner[q].todo /\ jobs[w.job].state = "active" => w.job \in served

LEMMA HoldsAll ==
  BatchOfQueue <=> \A q \in Queues : \A w \in runner[q].batch : Holds(q, w)
  BY DEF BatchOfQueue, Holds

LEMMA BatchTyped ==
  ASSUME TypeOK, NEW r \in Runners
  PROVE  /\ runner[r].batch \subseteq Work /\ runner[r].todo \subseteq Work
         /\ \A w \in runner[r].batch : w.job \in Jobs /\ w.asset \in Assets
                                        /\ w.job \in JobsOf(runner[r].batch)
         /\ JobsOf(runner[r].batch) \in SUBSET Jobs
  BY DEF TypeOK, RunnerType, Work, JobsOf

\* Jobs fail, and a handler gives up its batch or goes on without what failed.
LEMMA HoldsFail ==
  ASSUME TypeOK, NEW failing \in SUBSET Jobs, FailJobs(failing),
         NEW q \in Queues, NEW w \in runner[q].batch, Holds(q, w),
         w \notin runner'[q].todo => w \notin runner[q].todo \/ w.job \in failing
  PROVE  Holds(q, w)'
<1>1. w.job \in Jobs
  BY BatchTyped, RunnerNames
<1>2. CASE w.job \in failing
  BY <1>1, <1>2, FailJobsEffect DEF Holds, Live
<1>3. CASE w.job \notin failing
  BY <1>1, <1>3, FailJobsEffect DEF Holds, Live
<1> QED BY <1>2, <1>3

\* A step that leaves the job and what was served alone.
LEMMA HoldsKept ==
  ASSUME NEW q \in Queues, NEW w \in runner[q].batch, Holds(q, w),
         jobs'[w.job] = jobs[w.job], w.job \in served => w.job \in served',
         w \in runner[q].todo => w \in runner'[q].todo
  PROVE  Holds(q, w)'
  BY DEF Holds, Live

LEMMA BatchStep ==
  TypeOK /\ Batches /\ HashesInHex /\ BatchOfQueue /\ [Next]_vars => BatchOfQueue'
<1> SUFFICES ASSUME TypeOK, Batches, HashesInHex, BatchOfQueue, [Next]_vars,
                    NEW q \in Queues, NEW w \in runner'[q].batch
             PROVE  Holds(q, w)'
  BY DEF BatchOfQueue, Holds
<1>a. q \in Runners /\ q # "late"
  BY RunnerNames
<1>b. Idle.batch = {} /\ runner \in [Runners -> RunnerType]
  BY DEF Idle, TypeOK
<1>c. \A v \in runner[q].batch : Holds(q, v) /\ v.job \in Jobs
                                   /\ v.job \in JobsOf(runner[q].batch)
  BY <1>a, HoldsAll, BatchTyped
<1>1. CASE UNCHANGED <<jobs, runner, served>>
  BY <1>c, <1>1, HoldsKept
<1>2. ASSUME NEW p \in Queues, NEW due \in SUBSET Jobs, Poll(p, due)
      PROVE  Holds(q, w)'
  <2> DEFINE batch == {[job |-> j, asset |-> jobs[j].asset] : j \in due}
  <2>1. runner' = [runner EXCEPT ![p] =
                     [Idle EXCEPT !.step = "fetch", !.batch = batch, !.todo = batch]]
    BY <1>2 DEF Poll
  <2>2. /\ jobs' = [j \in Jobs |-> IF j \in due THEN Fetched(jobs[j]) ELSE jobs[j]]
        /\ served' = served \ due
        /\ \A j \in due : /\ jobs[j].state \in {"created", "retry"}
                          /\ jobs[j].queue = p
    BY <1>2 DEF Poll, Waiting
  <2>3. \A j \in due : /\ jobs[j] \in JobType
                       /\ jobs'[j].queue = p /\ jobs'[j].asset = jobs[j].asset
    BY <2>2, NoJobIsDead, FetchedType DEF TypeOK
  <2>4. CASE q = p
    <3> HIDE DEF batch
    <3>1. runner'[q].batch = batch /\ runner'[q].todo = batch
      BY <1>a, <1>b, <2>1, <2>4 DEF Idle
    <3>2. w \in batch
      BY <3>1
    <3>3. w.job \in due /\ w.asset = jobs[w.job].asset
      BY <3>2 DEF batch
    <3> QED BY <2>3, <2>4, <3>1, <3>2, <3>3 DEF Holds
  <2>5. CASE q # p
    <3> HIDE DEF batch
    <3>1. runner'[q] = runner[q]
      BY <1>a, <1>b, <2>1, <2>5
    <3>2. Holds(q, w) /\ w.job \in Jobs
      BY <1>c, <3>1
    <3>3. w.job \notin due
      BY <2>2, <2>5, <3>2 DEF Holds, Live
    <3> QED BY <2>2, <3>1, <3>2, <3>3, HoldsKept
  <2> QED BY <2>4, <2>5
<1>3. ASSUME NEW j \in Jobs, Expire(j) PROVE Holds(q, w)'
  <2>1. FailJobs({j}) /\ runner' = runner
    BY <1>3 DEF Expire
  <2> QED BY <1>c, <2>1, HoldsFail
<1>4. ASSUME NEW p \in Queues, TimesOut(p) PROVE Holds(q, w)'
  <2>1. FailJobs(JobsOf(runner[p].batch)) /\ JobsOf(runner[p].batch) \in SUBSET Jobs
    BY <1>4, BatchTyped, RunnerNames DEF TimesOut
  <2>2. runner'[q] = IF q = p THEN Idle ELSE runner[q]
    BY <1>4, <1>a, <1>b, RunnerNames DEF TimesOut
  <2> QED BY <1>b, <1>c, <2>1, <2>2, HoldsFail
<1>5. ASSUME NEW r \in Runners, Rejects(r) PROVE Holds(q, w)'
  <2> DEFINE failing == IF r = "late" THEN {} ELSE JobsOf(runner[r].batch)
  <2>1. FailJobs(failing) /\ failing \in SUBSET Jobs
    BY <1>5, BatchTyped DEF Rejects
  <2>2. runner'[q] = IF q = r THEN Idle ELSE runner[q]
    BY <1>5, <1>a, <1>b DEF Rejects
  <2> HIDE DEF failing
  <2> QED BY <1>b, <1>c, <2>1, <2>2, HoldsFail
<1>6. ASSUME NEW a \in Assets, InsertRow(a) PROVE Holds(q, w)'
  <2>1. PICK j \in Jobs : /\ Free(j) /\ jobs' = [jobs EXCEPT ![j] = Job("initial", a)]
                          /\ served' = served \ {j}
    BY <1>6 DEF InsertRow
  <2>2. runner' = runner
    BY <1>6 DEF InsertRow
  <2>3. w.job # j
    BY <1>a, <1>c, <2>1, <2>2 DEF Free
  <2> QED BY <1>c, <2>1, <2>2, <2>3, HoldsKept DEF TypeOK
<1>7. ASSUME NEW r \in Runners, NEW v \in Work, FailMissing(r, v) PROVE Holds(q, w)'
  <2>1. FailJobs({v.job}) /\ {v.job} \in SUBSET Jobs
    BY <1>7 DEF FailMissing, Work
  <2>2. runner'[q].batch = runner[q].batch
    BY <1>7, <1>a, HandlerEffect
  <2>3. runner'[q].todo \in {runner[q].todo, runner[q].todo \ {v}}
    BY <1>7, <1>a, <1>b DEF FailMissing, Treated, RunnerType
  <2> QED BY <1>c, <2>1, <2>2, <2>3, HoldsFail
<1>8. ASSUME NEW r \in Runners, NEW v \in Work, Publish(r, v) PROVE Holds(q, w)'
  <2>1. PICK j \in Jobs :
          /\ Free(j) /\ jobs' = [jobs EXCEPT ![j] = Job("update", v.asset)]
          /\ served' = (IF Live(v.job) /\ r # "late" THEN served \cup {v.job} ELSE served)
                         \ {j}
    BY <1>8 DEF Publish, Requeue
  <2>2. runner'[q].batch = runner[q].batch
    BY <1>8, <1>a, HandlerEffect
  <2>3. w.job # j
    BY <1>a, <1>c, <2>1, <2>2 DEF Free
  <2>4. jobs'[w.job] = jobs[w.job] /\ (w.job \in served => w.job \in served')
    BY <1>c, <2>1, <2>2, <2>3 DEF TypeOK
  <2>5. CASE q = r /\ w = v
    <3>1. Live(w.job) => w.job \in served'
      BY <1>a, <2>1, <2>3, <2>5
    <3> QED BY <1>c, <2>2, <2>4, <3>1 DEF Holds, Live
  <2>6. CASE ~(q = r /\ w = v)
    <3>1. runner'[q].todo = IF q = r THEN runner[q].todo \ {v} ELSE runner[q].todo
      BY <1>8, <1>a, <1>b DEF Publish, Treated, RunnerType
    <3> QED BY <1>c, <2>2, <2>4, <2>6, <3>1, HoldsKept
  <2> QED BY <2>5, <2>6
<1>9. ASSUME NEW r \in Runners, Finish(r) PROVE Holds(q, w)'
  <2>1. PICK complete \in Outcomes :
          LET over == IF complete THEN Completed(r) ELSE {}
          IN  /\ jobs' = [j \in Jobs |-> IF j \in over THEN NoJob ELSE jobs[j]]
              /\ served' = served \ over
    BY <1>9 DEF Finish
  <2> DEFINE over == IF complete THEN Completed(r) ELSE {}
  <2>2. runner'[q] = IF q = r THEN Idle ELSE runner[q]
    BY <1>9, <1>a, <1>b DEF Finish
  <2>3. runner'[q] = runner[q] /\ Holds(q, w) /\ w.job \in Jobs
    BY <1>b, <1>c, <2>2
  <2>4. CASE w.job \in over
    BY <2>1, <2>3, <2>4, NoJobIsDead DEF Holds, Live
  <2>5. CASE w.job \notin over
    BY <2>1, <2>3, <2>5, HoldsKept
  <2> QED BY <2>4, <2>5
<1>10. CASE Crash
  <2>1. runner'[q] = Idle
    BY <1>10, <1>a DEF Crash
  <2> QED BY <1>b, <2>1
<1>11. ASSUME NEW r \in Runners,
              \/ \E m \in SUBSET Assets : Fetch(r, m)
              \/ ReadHashes(r)
              \/ \E v \in Work : Store(r, v)
       PROVE  Holds(q, w)'
  <2>1. UNCHANGED <<jobs, served>>
    BY <1>11 DEF Fetch, ReadHashes, Store, history
  <2>2. runner'[q].batch = runner[q].batch
    BY <1>11, <1>a, HandlerEffect
  <2>3. (\E m \in SUBSET Assets : Fetch(r, m)) => runner'[q].todo = runner[q].todo
    BY <1>a, <1>b DEF Fetch, RunnerType
  <2>4. ReadHashes(r) => runner'[q].todo = runner[q].todo
    BY <1>a, <1>b DEF ReadHashes, RunnerType
  <2>5. (\E v \in Work : Store(r, v)) => runner'[q].todo = runner[q].todo
    BY <1>a, <1>b, StoreWrites DEF RunnerType
  <2>6. runner'[q].todo = runner[q].todo
    BY <1>11, <2>3, <2>4, <2>5
  <2> QED BY <1>c, <2>1, <2>2, <2>6, HoldsKept
<1>12. RegistryChanges \/ (\E a \in Assets : DeleteRow(a)) \/ UNCHANGED vars
         => UNCHANGED <<jobs, runner, served>>
  BY DEF RegistryChanges, DeleteRow, vars, history
<1> QED
  BY <1>1, <1>2, <1>3, <1>4, <1>5, <1>6, <1>7, <1>8, <1>9, <1>10, <1>11, <1>12
  DEF Next, RowsChange, Misses, Handle, Treat, StoreThenPublish, Faults

-----------------------------------------------------------------------------
(* No row is forgotten *)

\* A step that leaves the outstanding jobs of an asset, or makes it exhausted.
LEMMA OutstandingFail ==
  ASSUME TypeOK, NeverForgotten, NEW failing \in SUBSET Jobs, FailJobs(failing),
         rows' = rows
  PROVE  NeverForgotten'
<1> SUFFICES ASSUME NEW a \in rows, a \notin exhausted'
             PROVE  Outstanding(a)' # {}
  BY DEF NeverForgotten
<1>1. a \in Assets /\ a \notin exhausted
  BY DEF TypeOK, FailJobs
<1>2. PICK j \in Jobs \ served : Live(j) /\ jobs[j].asset = a
  BY <1>1 DEF NeverForgotten, Outstanding
<1>3. CASE j \notin failing
  BY <1>2, <1>3, FailJobsEffect DEF Outstanding, Live
<1>4. CASE j \in failing
  <2>1. j \in Outstanding(a)
    BY <1>2 DEF Outstanding
  <2>2. j \notin Over(failing)
    BY <1>1, <2>1 DEF FailJobs
  <2>3. Failed(jobs[j]) # NoJob
    BY <1>4, <2>2 DEF Over
  <2>4. jobs'[j] = Failed(jobs[j]) /\ jobs[j] \in JobType \cup {NoJob}
    BY <1>4 DEF FailJobs, TypeOK
  <2>5. jobs'[j].state # "none" /\ jobs'[j].asset = a
    BY <1>2, <2>3, <2>4, FailedType, NoJobIsDead
  <2>6. j \in Jobs \ served'
    BY <1>2, FailJobsEffect
  <2> QED BY <2>5, <2>6 DEF Outstanding, Live
<1> QED BY <1>3, <1>4

LEMMA ForgottenStep == WorkerInv /\ [Next]_vars => NeverForgotten'
<1> SUFFICES ASSUME WorkerInv, [Next]_vars PROVE NeverForgotten'
  OBVIOUS
<1>0. /\ TypeOK /\ Batches /\ HashesInHex /\ BatchOfQueue /\ NeverForgotten
      /\ rows \subseteq Assets
  BY DEF WorkerInv, TypeOK
<1>a. \A a \in rows \ exhausted : \E j \in Jobs \ served : Live(j) /\ jobs[j].asset = a
  BY <1>0 DEF NeverForgotten, Outstanding
<1>b. SUFFICES \A a \in rows' \ exhausted' :
                 \E j \in Jobs \ served' : jobs'[j].state # "none" /\ jobs'[j].asset = a
  BY DEF NeverForgotten, Outstanding, Live
<1>1. CASE UNCHANGED <<jobs, served, exhausted>> /\ rows' \subseteq rows
  BY <1>a, <1>1 DEF Live
<1>2. ASSUME NEW p \in Queues, NEW due \in SUBSET Jobs, Poll(p, due)
      PROVE  NeverForgotten'
  <2>1. /\ jobs' = [j \in Jobs |-> IF j \in due THEN Fetched(jobs[j]) ELSE jobs[j]]
        /\ served' = served \ due /\ rows' = rows /\ exhausted' = exhausted
        /\ \A j \in due : jobs[j].state \in {"created", "retry"}
    BY <1>2 DEF Poll, Waiting, database
  <2>2. \A j \in due : /\ jobs[j] \in JobType
                       /\ jobs'[j].state # "none" /\ jobs'[j].asset = jobs[j].asset
    BY <1>0, <2>1, NoJobIsDead, FetchedType DEF TypeOK
  <2>3. ASSUME NEW a \in rows \ exhausted
        PROVE  \E j \in Jobs \ served' : jobs'[j].state # "none" /\ jobs'[j].asset = a
    <3>1. PICK j \in Jobs \ served : jobs[j].state # "none" /\ jobs[j].asset = a
      BY <1>a DEF Live
    <3>2. j \in Jobs \ served' /\ jobs'[j].state # "none" /\ jobs'[j].asset = a
      BY <2>1, <2>2, <3>1
    <3> QED BY <3>2
  <2> QED BY <2>1, <2>3 DEF NeverForgotten, Outstanding, Live
<1>3. ASSUME NEW j \in Jobs, Expire(j) PROVE NeverForgotten'
  <2>1. FailJobs({j}) /\ rows' = rows
    BY <1>3 DEF Expire, database
  <2> QED BY <1>0, <2>1, OutstandingFail
<1>4. ASSUME NEW p \in Queues, TimesOut(p) PROVE NeverForgotten'
  <2>1. /\ FailJobs(JobsOf(runner[p].batch)) /\ rows' = rows
        /\ JobsOf(runner[p].batch) \in SUBSET Jobs
    BY <1>0, <1>4, BatchTyped, RunnerNames DEF TimesOut, database
  <2> QED BY <1>0, <2>1, OutstandingFail
<1>5. ASSUME NEW r \in Runners, Rejects(r) PROVE NeverForgotten'
  <2> DEFINE failing == IF r = "late" THEN {} ELSE JobsOf(runner[r].batch)
  <2>1. FailJobs(failing) /\ failing \in SUBSET Jobs /\ rows' = rows
    BY <1>0, <1>5, BatchTyped DEF Rejects, database
  <2> HIDE DEF failing
  <2> QED BY <1>0, <2>1, OutstandingFail
<1>6. ASSUME NEW a \in Assets, InsertRow(a) PROVE NeverForgotten'
  <2>1. PICK j \in Jobs : /\ Free(j) /\ jobs' = [jobs EXCEPT ![j] = Job("initial", a)]
                          /\ served' = served \ {j}
    BY <1>6 DEF InsertRow
  <2>2. rows' = rows \cup {a} /\ exhausted' = exhausted \ {a}
    BY <1>6 DEF InsertRow
  <2>3. jobs'[j].state # "none" /\ jobs'[j].asset = a /\ j \notin served'
    BY <1>0, <2>1 DEF TypeOK, Job
  <2>4. \A i \in Jobs : Live(i) => i # j /\ jobs'[i] = jobs[i]
    BY <1>0, <2>1 DEF TypeOK, Free
  <2> QED BY <1>a, <2>1, <2>2, <2>3, <2>4 DEF NeverForgotten, Outstanding, Live
<1>7. ASSUME NEW r \in Runners, NEW v \in Work, FailMissing(r, v) PROVE NeverForgotten'
  <2>1. FailJobs({v.job}) /\ {v.job} \in SUBSET Jobs /\ rows' = rows
    BY <1>7 DEF FailMissing, Work, database
  <2> QED BY <1>0, <2>1, OutstandingFail
<1>8. ASSUME NEW r \in Runners, NEW v \in Work, Publish(r, v) PROVE NeverForgotten'
  <2>1. PICK j \in Jobs :
          /\ Free(j) /\ jobs' = [jobs EXCEPT ![j] = Job("update", v.asset)]
          /\ served' = (IF Live(v.job) /\ r # "late" THEN served \cup {v.job} ELSE served)
                         \ {j}
    BY <1>8 DEF Publish, Requeue
  <2>2. exhausted' = exhausted \ {v.asset} /\ rows' = rows
    BY <1>8 DEF Publish, Requeue, database
  <2>3. jobs'[j].state # "none" /\ jobs'[j].asset = v.asset /\ j \notin served'
    BY <1>0, <2>1 DEF TypeOK, Job
  <2>4. \A i \in Jobs : Live(i) => i # j /\ jobs'[i] = jobs[i]
    BY <1>0, <2>1 DEF TypeOK, Free
  <2>5. Live(v.job) /\ r # "late" => jobs[v.job].asset = v.asset
    <3>1. v \in runner[r].batch
      BY <1>0, <1>8 DEF Publish, Batches
    <3> QED BY <1>0, <3>1 DEF BatchOfQueue, Runners
  <2>6. ASSUME NEW a \in rows \ exhausted, a # v.asset
        PROVE  \E i \in Jobs \ served' : jobs'[i].state # "none" /\ jobs'[i].asset = a
    <3>1. PICK i \in Jobs \ served : Live(i) /\ jobs[i].asset = a
      BY <1>a
    <3>2. i \notin served'
      BY <2>1, <2>5, <2>6, <3>1
    <3> QED BY <2>4, <3>1, <3>2 DEF Live
  <2> QED BY <2>1, <2>2, <2>3, <2>6 DEF NeverForgotten, Outstanding, Live
<1>9. ASSUME NEW r \in Runners, Finish(r) PROVE NeverForgotten'
  <2>1. PICK complete \in Outcomes :
          LET over == IF complete THEN Completed(r) ELSE {}
          IN  /\ jobs' = [j \in Jobs |-> IF j \in over THEN NoJob ELSE jobs[j]]
              /\ served' = served \ over
    BY <1>9 DEF Finish
  <2> DEFINE over == IF complete THEN Completed(r) ELSE {}
  <2>2. /\ rows' = rows /\ exhausted' = exhausted /\ runner[r].todo = {}
    BY <1>9 DEF Finish, database
  <2>3. ASSUME NEW j \in over PROVE j \in served
    <3>1. r \in Queues /\ jobs[j].state = "active" /\ j \in JobsOf(runner[r].batch)
      BY <2>3 DEF Completed, Runners
    <3>2. PICK w \in runner[r].batch : w.job = j
      BY <3>1 DEF JobsOf
    <3> QED BY <1>0, <2>2, <3>1, <3>2 DEF BatchOfQueue, Live
  <2> HIDE DEF over
  <2> QED BY <1>a, <2>1, <2>2, <2>3 DEF NeverForgotten, Outstanding, Live, over
<1>10. RegistryChanges \/ (\E a \in Assets : DeleteRow(a)) \/ Crash \/ UNCHANGED vars
         => UNCHANGED <<jobs, served, exhausted>> /\ rows' \subseteq rows
  BY DEF RegistryChanges, DeleteRow, Crash, vars, history, database
<1>12. ASSUME NEW r \in Runners,
              \/ \E m \in SUBSET Assets : Fetch(r, m)
              \/ ReadHashes(r)
              \/ \E v \in Work : Store(r, v)
       PROVE  UNCHANGED <<jobs, served, exhausted>> /\ rows' \subseteq rows
  BY <1>12 DEF Fetch, ReadHashes, Store, history, database
<1>11. NeverForgotten' <=>
         \A a \in rows' \ exhausted' :
           \E j \in Jobs \ served' : jobs'[j].state # "none" /\ jobs'[j].asset = a
  BY DEF NeverForgotten, Outstanding, Live
<1>13. CASE Next
  BY <1>1, <1>2, <1>3, <1>4, <1>5, <1>6, <1>7, <1>8, <1>9, <1>10, <1>11, <1>12, <1>13
  DEF Next, RowsChange, Misses, Handle, Treat, StoreThenPublish, Faults
<1> QED BY <1>1, <1>10, <1>13

\* The invariant that NeverForgotten rests on: handlers hold what the job table says
\* they hold, and have failed or replaced what they have treated.
THEOREM WorkerInvariant == Spec => []WorkerInv
<1>1. Init => WorkerInv
  <2>1. Init => Batches /\ HashesInHex /\ BatchOfQueue /\ NeverForgotten
    BY DEF Init, Batches, HashesInHex, BatchOfQueue, NeverForgotten, Idle, Runners
  <2> QED BY <2>1, TypeInit DEF WorkerInv
<1>2. WorkerInv /\ [Next]_vars => WorkerInv'
  BY TypeStep, ConsistentStep, BatchStep, ForgottenStep DEF WorkerInv
<1> QED BY <1>1, <1>2, PTL DEF Spec

\* Whatever fails, expires, crashes or comes late, a job of every row's asset is left,
\* unless its retries are exhausted: the metadata of no asset is forgotten.
THEOREM NoRowIsForgotten == Spec => []NeverForgotten
<1>1. WorkerInv => NeverForgotten
  BY DEF WorkerInv
<1> QED BY <1>1, WorkerInvariant, PTL

-----------------------------------------------------------------------------
(* One job for an asset *)

\* Job identifiers are not given away while a late handler holds them.
LateBatch == \A w \in runner["late"].batch : Live(w.job) => jobs[w.job].asset = w.asset

\* A handler that is to treat an unrepeated asset is on time, and its job is the
\* asset's: active, and not served.
Tends(r, w) ==
  /\ r # "late" /\ w.job \notin served
  /\ jobs[w.job].state = "active" /\ jobs[w.job].asset = w.asset

Treating ==
  \A r \in Runners : \A w \in runner[r].todo : w.asset \notin repeated => Tends(r, w)

\* OneJobInv: the invariant that OneJob rests on.
OneJobInv == WorkerInv /\ LateBatch /\ Treating /\ OneJob

LEMMA ActiveIsLive ==
  ASSUME NEW j \in Jobs, jobs[j].state = "active"
  PROVE  Live(j)
  BY DEF Live

LEMMA RepeatedGrows == [Next]_vars => repeated \subseteq repeated'
<1>1. RegistryChanges \/ RowsChange \/ (\E j \in Jobs : Expire(j)) \/ UNCHANGED vars
        => repeated \subseteq repeated'
  BY DEF RegistryChanges, RowsChange, InsertRow, DeleteRow, Expire, vars, history
<1>2. Faults \/ (\E q \in Queues, due \in SUBSET Jobs : Poll(q, due))
        => repeated \subseteq repeated'
  BY DEF Faults, Crash, TimesOut, Rejects, Poll, history
<1>3. Misses \/ (\E r \in Runners : Handle(r)) => repeated \subseteq repeated'
  BY DEF Misses, Handle, Fetch, ReadHashes, Treat, FailMissing, StoreThenPublish, Store,
         Publish, Finish, history
<1> QED BY <1>1, <1>2, <1>3 DEF Next

\* Only a poll and a timeout put jobs before a handler.
LEMMA TodoShrinks ==
  ASSUME TypeOK, Batches, HashesInHex, NEW r \in Runners,
         \/ \E m \in SUBSET Assets : Fetch(r, m)
         \/ ReadHashes(r) \/ Finish(r) \/ Rejects(r)
         \/ \E w \in Work : FailMissing(r, w) \/ Store(r, w) \/ Publish(r, w)
  PROVE  /\ \A s \in Runners : runner'[s].todo \subseteq runner[s].todo
         /\ \A s \in Runners : runner'[s].batch \subseteq runner[s].batch
         /\ \A w \in Work : FailMissing(r, w) \/ Publish(r, w) => w \notin runner'[r].todo
<1>0. runner \in [Runners -> RunnerType] /\ Idle.todo = {} /\ Idle.batch = {}
  BY DEF TypeOK, Idle
<1>1. ASSUME NEW v \in Work, FailMissing(r, v) \/ Publish(r, v)
      PROVE  runner'[r].todo = runner[r].todo \ {v}
  BY <1>0, <1>1 DEF FailMissing, Publish, Treated, RunnerType
<1>2. CASE (\E m \in SUBSET Assets : Fetch(r, m)) \/ ReadHashes(r)
  <2>1. runner'[r].todo = runner[r].todo
    BY <1>0, <1>2 DEF Fetch, ReadHashes, RunnerType
  <2> QED BY <1>1, <1>2, <2>1, HandlerEffect
<1>3. CASE Finish(r) \/ Rejects(r)
  <2>1. \A s \in Runners : runner'[s] = IF s = r THEN Idle ELSE runner[s]
    BY <1>0, <1>3 DEF Finish, Rejects
  <2> QED BY <1>0, <2>1
<1>4. ASSUME NEW v \in Work, Store(r, v)
      PROVE  runner'[r].todo = runner[r].todo
  BY <1>0, <1>4, StoreWrites DEF RunnerType
<1>5. CASE \E w \in Work : FailMissing(r, w) \/ Store(r, w) \/ Publish(r, w)
  BY <1>1, <1>4, <1>5, HandlerEffect
<1> QED BY <1>2, <1>3, <1>5

LEMMA TendsKept ==
  ASSUME NEW s \in Runners, NEW w \in runner[s].todo, Tends(s, w),
         jobs'[w.job] = jobs[w.job], w.job \in served' => w.job \in served
  PROVE  Tends(s, w)'
  BY DEF Tends

\* No other handler on time holds the job of an asset that is to be treated, and
\* a late one holds it for the same asset.
LEMMA TendsAlone ==
  ASSUME TypeOK, Batches, BatchOfQueue, LateBatch, NEW r \in Runners, NEW s \in Runners,
         NEW v \in runner[r].batch, NEW w \in runner[s].todo, Tends(s, w), v.job = w.job
  PROVE  v.asset = w.asset /\ (r # "late" => r = s)
<1>1. w \in runner[s].batch /\ w.job \in Jobs /\ Live(w.job) /\ s \in Queues
  <2>1. w \in runner[s].batch BY DEF Batches
  <2>2. w.job \in Jobs BY <2>1, BatchTyped
  <2> QED BY <2>1, <2>2, ActiveIsLive DEF Tends, Runners
<1>2. jobs[w.job].asset = w.asset /\ jobs[w.job].queue = s
  BY <1>1 DEF BatchOfQueue
<1>3. CASE r = "late"
  BY <1>1, <1>2, <1>3 DEF LateBatch
<1>4. CASE r \in Queues
  BY <1>1, <1>2, <1>4 DEF BatchOfQueue
<1> QED BY <1>3, <1>4 DEF Runners

LEMMA LateBatchStep ==
  TypeOK /\ Batches /\ HashesInHex /\ BatchOfQueue /\ LateBatch /\ [Next]_vars => LateBatch'
<1> SUFFICES ASSUME TypeOK, Batches, HashesInHex, BatchOfQueue, LateBatch, [Next]_vars,
                    NEW w \in runner'["late"].batch
             PROVE  jobs'[w.job].state # "none" => jobs'[w.job].asset = w.asset
  BY DEF LateBatch, Live
<1> DEFINE Held == w.job \in Jobs /\ (Live(w.job) => jobs[w.job].asset = w.asset)
           Goal == jobs'[w.job].state # "none" => jobs'[w.job].asset = w.asset
<1>a. w \in runner["late"].batch => Held /\ w.job \in JobsOf(runner["late"].batch)
  BY BatchTyped, RunnerNames DEF LateBatch
<1>b. Idle.batch = {} /\ runner \in [Runners -> RunnerType]
  BY DEF Idle, TypeOK
<1>c. ASSUME NEW failing \in SUBSET Jobs, FailJobs(failing), Held PROVE Goal
  <2>1. CASE w.job \in failing
    BY <1>c, <2>1, FailJobsEffect DEF Live
  <2>2. CASE w.job \notin failing
    BY <1>c, <2>2, FailJobsEffect DEF Live
  <2> QED BY <2>1, <2>2
<1>1. CASE UNCHANGED <<jobs, runner>>
  BY <1>a, <1>1 DEF Live
<1>2. ASSUME NEW p \in Queues, NEW due \in SUBSET Jobs, Poll(p, due) PROVE Goal
  <2>1. runner'["late"] = runner["late"]
    BY <1>2, <1>b, RunnerNames DEF Poll
  <2>2. /\ jobs' = [j \in Jobs |-> IF j \in due THEN Fetched(jobs[j]) ELSE jobs[j]]
        /\ \A j \in due : jobs[j].state \in {"created", "retry"}
    BY <1>2 DEF Poll, Waiting
  <2>3. \A j \in due : jobs[j].state # "none" /\ jobs'[j].asset = jobs[j].asset
    BY <2>2, NoJobIsDead, FetchedType DEF TypeOK
  <2>4. Held BY <1>a, <2>1
  <2>5. CASE w.job \in due
    BY <2>3, <2>4, <2>5 DEF Live
  <2>6. CASE w.job \notin due
    BY <2>2, <2>4, <2>6 DEF Live
  <2> QED BY <2>5, <2>6
<1>3. ASSUME NEW j \in Jobs, Expire(j) PROVE Goal
  <2>1. FailJobs({j}) /\ runner' = runner
    BY <1>3 DEF Expire
  <2> QED BY <1>a, <1>c, <2>1
<1>4. ASSUME NEW p \in Queues, TimesOut(p) PROVE Goal
  <2>1. FailJobs(JobsOf(runner[p].batch)) /\ JobsOf(runner[p].batch) \in SUBSET Jobs
    BY <1>4, BatchTyped, RunnerNames DEF TimesOut
  <2>2. w \in runner[p].batch
    BY <1>4, <1>b, RunnerNames DEF TimesOut
  <2>3. Held
    BY <2>2, BatchTyped, RunnerNames DEF BatchOfQueue
  <2> QED BY <1>c, <2>1, <2>3
<1>5. ASSUME NEW r \in Runners, Rejects(r) PROVE Goal
  <2> DEFINE failing == IF r = "late" THEN {} ELSE JobsOf(runner[r].batch)
  <2>1. FailJobs(failing) /\ failing \in SUBSET Jobs
    BY <1>5, BatchTyped DEF Rejects
  <2>2. Held
    BY <1>a, <1>5, TodoShrinks, RunnerNames
  <2> HIDE DEF failing
  <2> QED BY <1>c, <2>1, <2>2
<1>6. ASSUME NEW job, NEW j \in Jobs, Free(j), jobs' = [jobs EXCEPT ![j] = job],
             runner'["late"].batch \subseteq runner["late"].batch
      PROVE  Goal
  <2>1. w.job # j
    BY <1>a, <1>6, RunnerNames DEF Free
  <2> QED BY <1>a, <1>6, <2>1 DEF Live, TypeOK
<1>7. ASSUME NEW a \in Assets, InsertRow(a) PROVE Goal
  BY <1>6, <1>7 DEF InsertRow
<1>8. ASSUME NEW r \in Runners, NEW v \in Work, Publish(r, v) PROVE Goal
  <2>1. runner'["late"].batch \subseteq runner["late"].batch
    BY <1>8, TodoShrinks, RunnerNames
  <2> QED BY <1>6, <1>8, <2>1 DEF Publish, Requeue
<1>9. ASSUME NEW r \in Runners, NEW v \in Work, FailMissing(r, v) PROVE Goal
  <2>1. FailJobs({v.job}) /\ {v.job} \in SUBSET Jobs
    BY <1>9 DEF FailMissing, Work
  <2>2. Held
    BY <1>a, <1>9, TodoShrinks, RunnerNames
  <2> QED BY <1>c, <2>1, <2>2
<1>10. ASSUME NEW r \in Runners, Finish(r) PROVE Goal
  <2>1. PICK over \in SUBSET Jobs : jobs' = [j \in Jobs |-> IF j \in over THEN NoJob ELSE jobs[j]]
    <3>1. Completed(r) \in SUBSET Jobs
      BY BatchTyped DEF Completed
    <3> QED BY <1>10, <3>1 DEF Finish
  <2>2. Held
    BY <1>a, <1>10, TodoShrinks, RunnerNames
  <2> QED BY <2>1, <2>2, NoJobIsDead DEF Live
<1>11. ASSUME NEW r \in Runners,
              \/ \E m \in SUBSET Assets : Fetch(r, m)
              \/ ReadHashes(r)
              \/ \E v \in Work : Store(r, v)
       PROVE  Goal
  <2>1. Held
    BY <1>a, <1>11, TodoShrinks, RunnerNames
  <2> QED BY <1>11, <2>1 DEF Fetch, ReadHashes, Store, history, Live
<1>12. CASE Crash
  BY <1>12, <1>b, RunnerNames DEF Crash
<1>13. RegistryChanges \/ (\E a \in Assets : DeleteRow(a)) \/ UNCHANGED vars
         => UNCHANGED <<jobs, runner>>
  BY DEF RegistryChanges, DeleteRow, vars, history
<1> QED
  BY <1>1, <1>2, <1>3, <1>4, <1>5, <1>7, <1>8, <1>9, <1>10, <1>11, <1>12, <1>13
  DEF Next, RowsChange, Misses, Handle, Treat, StoreThenPublish, Faults

LEMMA TreatingStep ==
  TypeOK /\ Batches /\ HashesInHex /\ BatchOfQueue /\ LateBatch /\ Treating /\ [Next]_vars
    => Treating'
<1> SUFFICES ASSUME TypeOK, Batches, HashesInHex, BatchOfQueue, LateBatch, Treating, [Next]_vars,
                    NEW s \in Runners, NEW w \in runner'[s].todo, w.asset \notin repeated'
             PROVE  Tends(s, w)'
  BY DEF Treating, Tends
<1>a. w.asset \notin repeated
  BY RepeatedGrows
<1>b. Idle.todo = {} /\ Idle.batch = {} /\ runner \in [Runners -> RunnerType]
  BY DEF Idle, TypeOK
<1>c. w \in runner[s].todo => Tends(s, w)
  BY <1>a DEF Treating
<1>d. ASSUME NEW failing \in SUBSET Jobs, FailJobs(failing), w \in runner[s].todo,
             w.job \notin failing
      PROVE  Tends(s, w)'
  <2>1. w.job \in Jobs
    BY <1>d, BatchTyped DEF Batches
  <2>2. jobs'[w.job] = jobs[w.job] /\ (w.job \in served' => w.job \in served)
    BY <1>d, <2>1, FailJobsEffect
  <2> QED BY <1>c, <1>d, <2>2, TendsKept
<1>1. CASE UNCHANGED <<jobs, served>> /\ runner'[s].todo \subseteq runner[s].todo
  BY <1>c, <1>1, TendsKept
<1>2. ASSUME NEW q \in Queues, NEW due \in SUBSET Jobs, Poll(q, due) PROVE Tends(s, w)'
  <2> DEFINE batch == {[job |-> j, asset |-> jobs[j].asset] : j \in due}
  <2>1. runner' = [runner EXCEPT ![q] =
                     [Idle EXCEPT !.step = "fetch", !.batch = batch, !.todo = batch]]
    BY <1>2 DEF Poll
  <2>2. /\ jobs' = [j \in Jobs |-> IF j \in due THEN Fetched(jobs[j]) ELSE jobs[j]]
        /\ served' = served \ due
        /\ \A j \in due : jobs[j].state \in {"created", "retry"}
    BY <1>2 DEF Poll, Waiting
  <2>3. \A j \in due : jobs'[j].state = "active" /\ jobs'[j].asset = jobs[j].asset
    BY <2>2 DEF Fetched
  <2>4. CASE s = q
    <3> HIDE DEF batch
    <3>1. runner'[s].todo = batch
      BY <1>b, <2>1, <2>4 DEF Idle
    <3>2. w \in batch
      BY <3>1
    <3>3. w.job \in due /\ w.asset = jobs[w.job].asset
      BY <3>2 DEF batch
    <3> QED BY <2>2, <2>3, <2>4, <3>3, RunnerNames DEF Tends
  <2>5. CASE s # q
    <3> HIDE DEF batch
    <3>1. runner'[s] = runner[s]
      BY <1>b, <2>1, <2>5
    <3>2. Tends(s, w) /\ w.job \in Jobs
      BY <1>c, <3>1, BatchTyped DEF Batches
    <3>3. w.job \notin due
      BY <2>2, <3>2 DEF Tends
    <3> QED BY <2>2, <3>1, <3>2, <3>3, TendsKept
  <2> QED BY <2>4, <2>5
<1>3. ASSUME NEW j \in Jobs, Expire(j) PROVE Tends(s, w)'
  <2>1. FailJobs({j}) /\ runner' = runner /\ \A q \in Queues : j \notin JobsOf(runner[q].batch)
    BY <1>3 DEF Expire
  <2>2. s \in Queues /\ w \in runner[s].batch
    BY <1>c, <2>1 DEF Tends, Runners, Batches
  <2>3. w.job # j
    BY <2>1, <2>2 DEF JobsOf
  <2> QED BY <1>d, <2>1, <2>3
<1>4. ASSUME NEW r \in Runners, FailJobs(JobsOf(runner[r].batch)), r # "late",
             w \in runner[s].todo, s # r
      PROVE  Tends(s, w)'
  <2>1. w.job \notin JobsOf(runner[r].batch)
    BY <1>c, <1>4, TendsAlone DEF JobsOf
  <2> QED BY <1>d, <1>4, <2>1, BatchTyped
<1>5. ASSUME NEW q \in Queues, TimesOut(q) PROVE Tends(s, w)'
  <2>1. /\ FailJobs(JobsOf(runner[q].batch))
        /\ repeated' = repeated \cup AssetsOf(runner[q].todo)
    BY <1>5 DEF TimesOut
  <2>2. runner'[s] = IF s = "late" THEN runner[q] ELSE IF s = q THEN Idle ELSE runner[s]
    BY <1>5, <1>b, RunnerNames DEF TimesOut
  <2>3. s # "late"
    BY <2>1, <2>2 DEF AssetsOf
  <2> QED BY <1>4, <1>b, <2>1, <2>2, <2>3, RunnerNames
<1>6. ASSUME NEW r \in Runners, Rejects(r) PROVE Tends(s, w)'
  <2>1. FailJobs(IF r = "late" THEN {} ELSE JobsOf(runner[r].batch))
    BY <1>6 DEF Rejects
  <2>2. runner'[s] = IF s = r THEN Idle ELSE runner[s]
    BY <1>6, <1>b DEF Rejects
  <2>3. CASE r = "late"
    BY <1>b, <1>d, <2>1, <2>2, <2>3
  <2>4. CASE r # "late"
    BY <1>4, <1>b, <2>1, <2>2, <2>4
  <2> QED BY <2>3, <2>4
<1>7. ASSUME NEW job, NEW j \in Jobs, Free(j), jobs' = [jobs EXCEPT ![j] = job],
             w \in runner[s].todo, w.job \in served' => w.job \in served
      PROVE  Tends(s, w)'
  <2>1. w.job # j /\ w.job \in Jobs
    BY <1>7, BatchTyped DEF Free, Batches
  <2>2. jobs'[w.job] = jobs[w.job]
    BY <1>7, <2>1 DEF TypeOK
  <2> QED BY <1>c, <1>7, <2>2, TendsKept
<1>8. ASSUME NEW a \in Assets, InsertRow(a) PROVE Tends(s, w)'
  BY <1>7, <1>8 DEF InsertRow
<1>9. ASSUME NEW r \in Runners, NEW v \in Work, FailMissing(r, v) \/ Publish(r, v),
             w.job = v.job
      PROVE  r = "late"
  <2>1. w \in runner[s].todo /\ v \in runner[r].batch
    BY <1>9, TodoShrinks DEF FailMissing, At, Publish, Batches
  <2>2. v.asset = w.asset /\ (r # "late" => r = s)
    BY <1>c, <1>9, <2>1, TendsAlone
  <2>3. w \in Work /\ w = v
    BY <1>9, <2>1, <2>2, BatchTyped DEF Work
  <2> QED BY <1>9, <2>2, <2>3, TodoShrinks
<1>10. ASSUME NEW r \in Runners, NEW v \in Work, Publish(r, v) PROVE Tends(s, w)'
  <2>1. w \in runner[s].todo
    BY <1>10, TodoShrinks
  <2>2. w.job \in served' => w.job \in served
    BY <1>9, <1>10 DEF Publish, Requeue
  <2> QED BY <1>7, <1>10, <2>1, <2>2 DEF Publish, Requeue
<1>11. ASSUME NEW r \in Runners, NEW v \in Work, FailMissing(r, v) PROVE Tends(s, w)'
  <2>1. FailJobs({v.job}) /\ {v.job} \in SUBSET Jobs
    BY <1>11 DEF FailMissing, Work
  <2>2. w \in runner[s].todo
    BY <1>11, TodoShrinks
  <2>3. w.job # v.job
    <3>1. SUFFICES ASSUME w.job = v.job PROVE FALSE
      OBVIOUS
    <3>2. r = "late" /\ v \in runner[r].todo /\ v \in runner[r].batch
      BY <1>9, <1>11, <3>1 DEF FailMissing, At, Batches
    <3>3. v.asset = w.asset
      BY <1>c, <2>2, <3>1, <3>2, TendsAlone
    <3> QED BY <1>a, <3>2, <3>3 DEF Treating, Tends
  <2> QED BY <1>d, <2>1, <2>2, <2>3
<1>12. ASSUME NEW r \in Runners, Finish(r) PROVE Tends(s, w)'
  <2>1. runner'[s] = IF s = r THEN Idle ELSE runner[s]
    BY <1>12, <1>b DEF Finish
  <2>2. w \in runner[s].todo /\ s # r
    BY <1>b, <2>1
  <2>3. w.job \notin Completed(r)
    BY <1>c, <2>2, TendsAlone DEF Completed, JobsOf
  <2>4. w.job \in Jobs
    BY <2>2, BatchTyped DEF Batches
  <2>5. jobs'[w.job] = jobs[w.job] /\ (w.job \in served' => w.job \in served)
    BY <1>12, <2>3, <2>4 DEF Finish
  <2> QED BY <1>c, <2>2, <2>5, TendsKept
<1>13. ASSUME NEW r \in Runners,
              \/ \E m \in SUBSET Assets : Fetch(r, m)
              \/ ReadHashes(r)
              \/ \E v \in Work : Store(r, v)
       PROVE  Tends(s, w)'
  <2>1. UNCHANGED <<jobs, served>>
    BY <1>13 DEF Fetch, ReadHashes, Store, history
  <2> QED BY <1>1, <1>13, <2>1, TodoShrinks
<1>14. CASE Crash
  BY <1>14, <1>b DEF Crash
<1>15. RegistryChanges \/ (\E a \in Assets : DeleteRow(a)) \/ UNCHANGED vars
         => UNCHANGED <<jobs, served, runner>>
  BY DEF RegistryChanges, DeleteRow, vars, history
<1> QED
  BY <1>1, <1>2, <1>3, <1>5, <1>6, <1>8, <1>10, <1>11, <1>12, <1>13, <1>14, <1>15
  DEF Next, RowsChange, Misses, Handle, Treat, StoreThenPublish, Faults

LEMMA OneJobStep == OneJobInv /\ [Next]_vars => OneJob'
<1> SUFFICES ASSUME OneJobInv, [Next]_vars,
                    NEW a \in Assets, a \notin repeated', NEW i \in Outstanding(a)',
                    NEW k \in Outstanding(a)'
             PROVE  i = k
  BY DEF OneJob
<1> DEFINE Out(j) == j \in Jobs /\ j \notin served /\ jobs[j].state # "none" /\ jobs[j].asset = a
           OutNext(j) == j \in Jobs /\ j \notin served' /\ jobs'[j].state # "none"
                           /\ jobs'[j].asset = a
<1>0. /\ TypeOK /\ Batches /\ HashesInHex /\ BatchOfQueue /\ LateBatch /\ Treating
      /\ \A j, m \in Jobs : Out(j) /\ Out(m) => j = m
  BY RepeatedGrows DEF OneJobInv, WorkerInv, OneJob, Outstanding, Live
<1>a. OutNext(i) /\ OutNext(k) /\ a \notin repeated
  BY RepeatedGrows DEF Outstanding, Live
<1>b. SUFFICES ASSUME \E j \in Jobs : OutNext(j) /\ ~Out(j)
               PROVE  i = k
  BY <1>0, <1>a
<1>c. ASSUME NEW failing \in SUBSET Jobs, FailJobs(failing) PROVE i = k
  BY <1>0, <1>b, <1>c, FailJobsEffect
<1>1. ASSUME NEW q \in Queues, NEW due \in SUBSET Jobs, Poll(q, due) PROVE i = k
  <2>1. /\ jobs' = [j \in Jobs |-> IF j \in due THEN Fetched(jobs[j]) ELSE jobs[j]]
        /\ served' = served \ due
        /\ repeated' = repeated \cup {jobs[j].asset : j \in due \cap served}
        /\ \A j \in due : jobs[j].state \in {"created", "retry"}
    BY <1>1 DEF Poll, Waiting
  <2>2. \A j \in due : jobs[j].state # "none" /\ jobs'[j].asset = jobs[j].asset
    BY <2>1 DEF Fetched
  <2> QED BY <1>a, <1>b, <2>1, <2>2
<1>2. ASSUME NEW b \in Assets, InsertRow(b) PROVE i = k
  <2>1. PICK j \in Jobs : /\ Free(j) /\ jobs' = [jobs EXCEPT ![j] = Job("initial", b)]
                          /\ served' = served \ {j}
    BY <1>2 DEF InsertRow
  <2>2. jobs'[j].asset = b /\ \A m \in Jobs \ {j} : OutNext(m) => Out(m)
    BY <1>0, <2>1 DEF TypeOK, Job
  <2>3. b = a
    BY <1>b, <2>2
  <2>4. \A m \in Jobs : ~Out(m)
    BY <1>2, <1>a, <2>3 DEF InsertRow, Outstanding, Live
  <2> QED BY <1>a, <2>2, <2>4
<1>3. ASSUME NEW r \in Runners, NEW v \in Work, Publish(r, v) PROVE i = k
  <2>1. PICK j \in Jobs :
          /\ Free(j) /\ jobs' = [jobs EXCEPT ![j] = Job("update", v.asset)]
          /\ served' = (IF Live(v.job) /\ r # "late" THEN served \cup {v.job} ELSE served)
                         \ {j}
    BY <1>3 DEF Publish, Requeue
  <2>2. jobs'[j].asset = v.asset /\ \A m \in Jobs \ {j} : OutNext(m) => Out(m)
    BY <1>0, <2>1 DEF TypeOK, Job
  <2>3. v.asset = a
    BY <1>b, <2>2
  <2>4. Tends(r, v)
    BY <1>0, <1>3, <1>a, <2>3 DEF Publish, Batches, Treating
  <2>5. v.job \in Jobs /\ Out(v.job) /\ Live(v.job) /\ v.job # j
    BY <2>1, <2>3, <2>4 DEF Tends, Work, Free, Live
  <2>6. v.job \in served'
    BY <2>1, <2>4, <2>5 DEF Tends
  <2> QED BY <1>0, <1>a, <2>2, <2>5, <2>6
<1>4. ASSUME NEW r \in Runners, Finish(r) PROVE i = k
  <2>1. PICK over \in SUBSET Jobs :
          /\ jobs' = [j \in Jobs |-> IF j \in over THEN NoJob ELSE jobs[j]]
          /\ served' = served \ over
    <3>1. Completed(r) \in SUBSET Jobs
      BY <1>0, BatchTyped DEF Completed
    <3> QED BY <1>4, <3>1 DEF Finish
  <2> QED BY <1>b, <2>1, NoJobIsDead
<1>5. ASSUME NEW r \in Runners, Rejects(r) PROVE i = k
  <2>1. JobsOf(runner[r].batch) \in SUBSET Jobs
    BY <1>0, BatchTyped
  <2> QED BY <1>5, <1>c, <2>1 DEF Rejects
<1>6. ASSUME NEW q \in Queues, TimesOut(q) PROVE i = k
  BY <1>0, <1>6, <1>c, BatchTyped, RunnerNames DEF TimesOut
<1>7. ASSUME NEW r \in Runners, NEW v \in Work, FailMissing(r, v) PROVE i = k
  BY <1>7, <1>c DEF FailMissing, Work
<1>8. ASSUME NEW j \in Jobs, Expire(j) PROVE i = k
  BY <1>8, <1>c DEF Expire
<1>9. UNCHANGED <<jobs, served>> => i = k
  BY <1>b
<1>10. ASSUME NEW r \in Runners,
              \/ \E m \in SUBSET Assets : Fetch(r, m)
              \/ ReadHashes(r)
              \/ \E v \in Work : Store(r, v)
       PROVE  UNCHANGED <<jobs, served>>
  BY <1>10 DEF Fetch, ReadHashes, Store, history
<1>11. RegistryChanges \/ (\E b \in Assets : DeleteRow(b)) \/ Crash \/ UNCHANGED vars
         => UNCHANGED <<jobs, served>>
  BY DEF RegistryChanges, DeleteRow, Crash, vars, history
<1> QED
  BY <1>1, <1>2, <1>3, <1>4, <1>5, <1>6, <1>7, <1>8, <1>9, <1>10, <1>11
  DEF Next, RowsChange, Misses, Handle, Treat, StoreThenPublish, Faults

LEMMA OneJobInit == Init => OneJobInv
<1>1. Init => Batches /\ HashesInHex /\ BatchOfQueue /\ NeverForgotten
  BY DEF Init, Batches, HashesInHex, BatchOfQueue, NeverForgotten, Idle, Runners
<1>2. Init => LateBatch /\ Treating /\ OneJob
  BY DEF Init, LateBatch, Treating, OneJob, Outstanding, Live, NoJob, Idle, Runners
<1> QED BY <1>1, <1>2, TypeInit DEF OneJobInv, WorkerInv

LEMMA OneJobKept == OneJobInv /\ [Next]_vars => OneJobInv'
<1>1. OneJobInv /\ [Next]_vars => WorkerInv'
  BY TypeStep, ConsistentStep, BatchStep, ForgottenStep DEF OneJobInv, WorkerInv
<1>2. OneJobInv /\ [Next]_vars => LateBatch' /\ Treating'
  BY LateBatchStep, TreatingStep DEF OneJobInv, WorkerInv
<1> QED BY <1>1, <1>2, OneJobStep DEF OneJobInv

LEMMA OneJobInvariant == Spec => []OneJobInv
<1> QED BY OneJobInit, OneJobKept, PTL DEF Spec

\* The chain of update jobs does not branch: but for a retry of a served job, a
\* late handler and a row inserted anew, one job looks after each asset.
THEOREM WorkIsNotMultiplied == Spec => []OneJob
<1>1. OneJobInv => OneJob
  BY DEF OneJobInv
<1> QED BY <1>1, OneJobInvariant, PTL

-----------------------------------------------------------------------------
(* Metadata does not go back *)

\* What is stored, and what was found, the registry has had.
Past ==
  \A a \in Assets :
    /\ stored[a] <= registry[a]
    /\ \A r \in Runners : runner[r].found[a] <= registry[a]

\* What a handler is to store of an unrepeated asset is not older than the row.
Fresh ==
  \A r \in Runners : \A w \in runner[r].todo :
    w.asset \notin repeated /\ Found(r, w) # 0 => stored[w.asset] <= Found(r, w)

\* FreshInv: the invariant that NoRegression rests on.
FreshInv == OneJobInv /\ Past /\ Fresh

LEMMA FreshTyped ==
  ASSUME TypeOK
  PROVE  /\ \A a \in Assets : registry[a] \in Nat /\ stored[a] \in Nat
         /\ \A r \in Runners, a \in Assets : runner[r].found[a] \in Nat
         /\ \A a \in Assets : Idle.found[a] = 0
         /\ \A r \in Runners : \A w \in runner[r].batch \cup runner[r].todo :
              w.job \in Jobs /\ w.asset \in Assets
<1>1. \A r \in Runners : runner[r] \in RunnerType
  BY DEF TypeOK
<1> QED BY <1>1, Zero DEF TypeOK, RunnerType, Idle, Work

\* What a handler has found comes from the registry, once.
LEMMA FoundStep ==
  ASSUME TypeOK, Batches, HashesInHex, Next, NEW s \in Runners
  PROVE  \/ runner'[s].found = Idle.found
         \/ \E r \in Runners : /\ runner'[s].found = runner[r].found
                               /\ r = s \/ s = "late"
                               /\ r = s => runner'[s].todo \subseteq runner[s].todo
         \/ \E m \in SUBSET Assets :
              /\ Fetch(s, m) /\ runner'[s].todo \subseteq runner[s].todo
              /\ runner'[s].found = [a \in Assets |->
                   IF a \in AssetsOf(runner[s].batch) \ m THEN registry[a] ELSE 0]
<1> DEFINE Kept == runner'[s].found = runner[s].found /\ runner'[s].todo \subseteq runner[s].todo
           Erased == runner'[s].found = Idle.found
<1>0. runner \in [Runners -> RunnerType]
  BY DEF TypeOK
<1>1. CASE UNCHANGED runner
  BY <1>1
<1>2. ASSUME NEW q \in Queues, NEW due \in SUBSET Jobs, Poll(q, due) PROVE Kept \/ Erased
  <2> DEFINE batch == {[job |-> j, asset |-> jobs[j].asset] : j \in due}
  <2>1. runner' = [runner EXCEPT ![q] =
                     [Idle EXCEPT !.step = "fetch", !.batch = batch, !.todo = batch]]
    BY <1>2 DEF Poll
  <2> HIDE DEF batch
  <2> QED BY <1>0, <2>1 DEF Idle
<1>3. ASSUME NEW q \in Queues, TimesOut(q)
      PROVE  Kept \/ Erased \/ (s = "late" /\ runner'[s].found = runner[q].found)
  <2>1. runner'[s] = IF s = "late" THEN runner[q] ELSE IF s = q THEN Idle ELSE runner[s]
    BY <1>0, <1>3, RunnerNames DEF TimesOut
  <2> QED BY <2>1
<1>4. ASSUME NEW r \in Runners, Rejects(r) \/ Finish(r) \/ Crash PROVE Kept \/ Erased
  BY <1>0, <1>4 DEF Rejects, Finish, Crash
<1>5. ASSUME NEW r \in Runners, NEW m \in SUBSET Assets, Fetch(r, m), r = s
      PROVE  /\ runner'[s].todo \subseteq runner[s].todo
             /\ runner'[s].found = [a \in Assets |->
                  IF a \in AssetsOf(runner[s].batch) \ m THEN registry[a] ELSE 0]
  <2> DEFINE f == [a \in Assets |->
         IF a \in AssetsOf(runner[r].batch) \ m THEN registry[a] ELSE 0]
  <2>1. runner' = [runner EXCEPT ![r] = [runner[r] EXCEPT !.step = "hashes", !.found = f]]
    BY <1>5 DEF Fetch
  <2>2. runner'[s].found = f /\ runner'[s].todo = runner[s].todo
    <3> HIDE DEF f
    <3> QED BY <1>0, <1>5, <2>1 DEF RunnerType
  <2> QED BY <1>5, <2>2
<1>6. ASSUME NEW r \in Runners, NEW m \in SUBSET Assets, Fetch(r, m), r # s PROVE Kept
  BY <1>6, HandlerEffect
<1>7. ASSUME NEW r \in Runners, ReadHashes(r) \/ \E w \in Work : Store(r, w)
      PROVE  Kept
  <2>1. ReadHashes(r) => runner'[r].found = runner[r].found
    BY <1>0 DEF ReadHashes, RunnerType
  <2>2. (\E w \in Work : Store(r, w)) => runner'[r].found = runner[r].found
    BY <1>0, StoreWrites DEF RunnerType
  <2> QED BY <1>7, <2>1, <2>2, HandlerEffect, TodoShrinks
<1>8. ASSUME NEW r \in Runners, NEW w \in Work, FailMissing(r, w) \/ Publish(r, w) PROVE Kept
  <2>1. runner'[r].found = runner[r].found
    BY <1>0, <1>8 DEF FailMissing, Publish, Treated, RunnerType
  <2> QED BY <1>8, <2>1, HandlerEffect, TodoShrinks
<1>9. RegistryChanges \/ RowsChange \/ (\E j \in Jobs : Expire(j)) => UNCHANGED runner
  BY DEF RegistryChanges, RowsChange, InsertRow, DeleteRow, Expire
<1> QED
  BY <1>1, <1>2, <1>3, <1>4, <1>5, <1>6, <1>7, <1>8, <1>9, RunnerNames
  DEF Next, Misses, Handle, Treat, StoreThenPublish, Faults

\* What becomes of a row.
LEMMA StoredStep ==
  ASSUME TypeOK, HashesInHex, Next, NEW a \in Assets
  PROVE  \/ stored'[a] = stored[a]
         \/ stored'[a] = 0 /\ a \notin rows'
         \/ \E r \in Runners, w \in Work :
              Store(r, w) /\ w.asset = a /\ stored'[a] = Found(r, w)
<1>1. ASSUME NEW b \in Assets, InsertRow(b) \/ DeleteRow(b)
      PROVE  stored'[a] = stored[a] \/ (stored'[a] = 0 /\ a \notin rows')
  <2>1. InsertRow(b) => stored' = stored
    BY DEF InsertRow
  <2>2. DeleteRow(b) => stored' = [stored EXCEPT ![b] = 0] /\ rows' = rows \ {b}
    BY DEF DeleteRow
  <2>3. stored \in [Assets -> Versions]
    BY DEF TypeOK
  <2> QED BY <1>1, <2>1, <2>2, <2>3
<1>2. ASSUME NEW r \in Runners, NEW w \in Work, Store(r, w)
      PROVE  stored'[a] = stored[a] \/ (w.asset = a /\ stored'[a] = Found(r, w))
  <2>1. stored' = IF w.asset \in rows THEN [stored EXCEPT ![w.asset] = Found(r, w)] ELSE stored
    BY <1>2, NothingMatches DEF Store, Write
  <2>2. stored \in [Assets -> Versions]
    BY DEF TypeOK
  <2> QED BY <2>1, <2>2
<1>3. RegistryChanges \/ (\E q \in Queues, due \in SUBSET Jobs : Poll(q, due))
        \/ (\E j \in Jobs : Expire(j)) \/ Faults \/ Misses => stored' = stored
  BY DEF RegistryChanges, Poll, Expire, Faults, Crash, TimesOut, Rejects, Misses, Fetch, database
<1>4. ASSUME NEW r \in Runners, Handle(r), \A w \in Work : ~Store(r, w)
      PROVE  stored' = stored
  BY <1>4 DEF Handle, Fetch, ReadHashes, Treat, FailMissing, StoreThenPublish, Publish,
              Finish, database
<1> QED BY <1>1, <1>2, <1>3, <1>4 DEF Next, RowsChange

LEMMA PastStep ==
  ASSUME TypeOK, Batches, HashesInHex, Past, Next
  PROVE  Past'
<1> SUFFICES ASSUME NEW a \in Assets, NEW s \in Runners
             PROVE  stored'[a] <= registry'[a] /\ runner'[s].found[a] <= registry'[a]
  BY RunnerNames DEF Past
<1>1. registry[a] <= registry'[a] /\ registry'[a] \in Nat
  <2>1. RegistryChanges => registry[a] <= registry'[a] /\ registry'[a] \in Nat
    <3>1. RegistryChanges => \E b \in Assets : registry' = [registry EXCEPT ![b] = registry[b] + 1]
      BY DEF RegistryChanges
    <3>2. ASSUME NEW b \in Assets, registry' = [registry EXCEPT ![b] = registry[b] + 1]
          PROVE  registry[a] <= registry'[a] /\ registry'[a] \in Nat
      <4>1. registry'[a] = IF a = b THEN registry[a] + 1 ELSE registry[a]
        BY <3>2 DEF TypeOK
      <4> QED BY <4>1, FreshTyped
    <3> QED BY <3>1, <3>2
  <2>2. ~RegistryChanges => registry' = registry
    BY DEF Next, RowsChange, InsertRow, DeleteRow, Misses, Fetch, Poll, Expire, Handle, ReadHashes,
           Treat, FailMissing, StoreThenPublish, Store, Publish, Finish, Faults, Crash, TimesOut,
           Rejects
  <2> QED BY <2>1, <2>2, FreshTyped
<1>2. \A r \in Runners : runner[r].found[a] <= registry'[a]
  BY <1>1, FreshTyped DEF Past
<1>3. runner'[s].found[a] <= registry'[a]
  <2>1. CASE runner'[s].found = Idle.found
    BY <1>1, <2>1, FreshTyped
  <2>2. ASSUME NEW m \in SUBSET Assets,
               runner'[s].found = [b \in Assets |->
                 IF b \in AssetsOf(runner[s].batch) \ m THEN registry[b] ELSE 0]
        PROVE  runner'[s].found[a] <= registry'[a]
    BY <1>1, <2>2
  <2> QED BY <1>2, <2>1, <2>2, FoundStep
<1>4. stored'[a] <= registry'[a]
  <2>1. stored[a] <= registry'[a]
    BY <1>1, FreshTyped DEF Past
  <2> QED BY <1>1, <1>2, <2>1, StoredStep DEF Found
<1> QED BY <1>3, <1>4

\* Two handlers do not have metadata of the same asset to store.
LEMMA StoresAlone ==
  ASSUME OneJobInv, NEW r \in Runners, NEW s \in Runners, NEW v \in runner[r].todo,
         NEW w \in runner[s].todo, v.asset = w.asset, w.asset \notin repeated
  PROVE  r = s
<1>1. TypeOK /\ Batches /\ BatchOfQueue /\ LateBatch /\ Treating /\ OneJob
  BY DEF OneJobInv, WorkerInv
<1>2. Tends(r, v) /\ Tends(s, w) /\ v \in runner[r].batch
  BY <1>1 DEF Treating, Batches
<1>3. v.job \in Outstanding(w.asset) /\ w.job \in Outstanding(w.asset) /\ w.asset \in Assets
  BY <1>1, <1>2, FreshTyped DEF Tends, Outstanding, Live
<1>4. v.job = w.job
  BY <1>1, <1>3 DEF OneJob
<1>5. r # "late"
  BY <1>2 DEF Tends
<1> QED BY <1>1, <1>2, <1>4, <1>5, TendsAlone

LEMMA FreshStep == FreshInv /\ Treating' /\ [Next]_vars => Fresh'
<1> SUFFICES ASSUME FreshInv, Treating', Next, NEW s \in Runners, NEW w \in runner'[s].todo,
                    w.asset \notin repeated', runner'[s].found[w.asset] # 0
             PROVE  stored'[w.asset] <= runner'[s].found[w.asset]
  BY DEF FreshInv, Fresh, Found, vars
<1>0. TypeOK /\ Batches /\ HashesInHex /\ OneJobInv /\ Past /\ Fresh
  BY DEF FreshInv, OneJobInv, WorkerInv
<1>1. s # "late" /\ w.asset \notin repeated /\ w.asset \in Assets
  <2>1. w \in Work
    BY <1>0, TypeStep DEF TypeOK, RunnerType
  <2> QED BY <2>1, RepeatedGrows DEF Treating, Tends, Work
<1>2. CASE /\ runner'[s].found = runner[s].found /\ runner'[s].todo \subseteq runner[s].todo
  <2>1. w \in runner[s].todo /\ stored[w.asset] <= runner[s].found[w.asset]
    BY <1>0, <1>1, <1>2 DEF Fresh, Found
  <2>2. CASE stored'[w.asset] \in {stored[w.asset], 0}
    BY <1>0, <1>1, <1>2, <2>1, <2>2, FreshTyped
  <2>3. ASSUME NEW r \in Runners, NEW v \in Work, Store(r, v), v.asset = w.asset,
               stored'[w.asset] = Found(r, v)
        PROVE  stored'[w.asset] <= runner'[s].found[w.asset]
    <3>1. v \in runner[r].todo
      BY <2>3 DEF Store, At
    <3>2. r = s
      BY <1>0, <1>1, <2>1, <2>3, <3>1, StoresAlone
    <3> QED BY <1>0, <1>1, <1>2, <2>3, <3>2, FreshTyped DEF Found
  <2> QED BY <1>0, <1>1, <2>2, <2>3, StoredStep
<1>3. ASSUME NEW m \in SUBSET Assets, Fetch(s, m),
             runner'[s].found = [a \in Assets |->
               IF a \in AssetsOf(runner[s].batch) \ m THEN registry[a] ELSE 0]
      PROVE  stored'[w.asset] <= runner'[s].found[w.asset]
  <2>1. runner'[s].found[w.asset] = registry[w.asset]
    BY <1>1, <1>3
  <2>2. stored' = stored
    BY <1>3 DEF Fetch, database
  <2> QED BY <1>0, <1>1, <2>1, <2>2 DEF Past
<1>4. CASE runner'[s].found = Idle.found
  BY <1>0, <1>1, <1>4, FreshTyped
<1> QED BY <1>0, <1>1, <1>2, <1>3, <1>4, FoundStep

LEMMA FreshInvariant == Spec => []FreshInv
<1>1. Init => FreshInv
  <2>1. Init => Past /\ Fresh
    BY DEF Init, Past, Fresh, Idle
  <2>2. Init => OneJobInv
    BY OneJobInit
  <2> QED BY <2>1, <2>2 DEF FreshInv
<1>2. FreshInv /\ [Next]_vars => FreshInv'
  <2>1. FreshInv /\ [Next]_vars => OneJobInv' /\ Treating'
    BY OneJobKept DEF FreshInv, OneJobInv
  <2>2. FreshInv /\ [Next]_vars => Past'
    <3>1. Past /\ UNCHANGED vars => Past'
      BY DEF Past, vars
    <3> QED BY <3>1, PastStep DEF FreshInv, OneJobInv, WorkerInv
  <2> QED BY <2>1, <2>2, FreshStep DEF FreshInv
<1> QED BY <1>1, <1>2, PTL DEF Spec

\* But for the same exceptions, no handler overwrites metadata by older metadata, in
\* whatever order requests are answered, handlers time out and jobs are retried.
THEOREM MetadataNeverRegresses == Spec => NoRegression
<1> DEFINE Step == \A a \in (rows \cap rows') \ repeated' : stored'[a] >= stored[a]
<1>1. FreshInv /\ [Next]_vars => [Step]_vars
  <2> SUFFICES ASSUME FreshInv, Next, NEW a \in (rows \cap rows') \ repeated'
               PROVE  stored'[a] >= stored[a]
    OBVIOUS
  <2>1. TypeOK /\ HashesInHex /\ Batches /\ Fresh /\ a \in Assets /\ a \notin repeated
    BY RepeatedGrows DEF FreshInv, OneJobInv, WorkerInv, TypeOK
  <2>2. ASSUME NEW r \in Runners, NEW v \in Work, Store(r, v), v.asset = a,
               stored'[a] = Found(r, v)
        PROVE  stored'[a] >= stored[a]
    <3>1. v \in runner[r].todo /\ Found(r, v) # 0
      BY <2>2 DEF Store, At
    <3>2. stored[a] <= Found(r, v)
      BY <2>1, <2>2, <3>1 DEF Fresh
    <3> QED BY <2>1, <2>2, <3>2, FreshTyped DEF Found
  <2> QED BY <2>1, <2>2, StoredStep, FreshTyped
<1> QED BY <1>1, FreshInvariant, PTL DEF Spec, NoRegression

-----------------------------------------------------------------------------
(* The worker implements MetadataMirror *)

MirrorStep == [Mirror!Next]_(Mirror!mirrorVars)

\* An asset is watched when one of its jobs is outstanding.
Looks(j, a) == j \notin served /\ jobs[j].state # "none" /\ jobs[j].asset = a

\* Watched are the assets that a job looks after.
LEMMA WatchedMeans ==
  /\ Watched = {a \in Assets : \E j \in Jobs : Looks(j, a)}
  /\ Watched' = {a \in Assets : \E j \in Jobs : Looks(j, a)'}
  BY DEF Watched, Outstanding, Live, Looks

\* What the abstract watch may do, for a step of the worker.
LEMMA Attends ==
  ASSUME UNCHANGED <<registry, database>>, repeated \subseteq repeated',
         Watched \ Watched' \subseteq exhausted', Watched' \ Watched \subseteq repeated',
         exhausted \ exhausted' \subseteq Watched'
  PROVE  MirrorStep
  BY DEF MirrorStep, Mirror!Next, Mirror!Attend, database

\* What leaves rows, jobs and history alone is no step of the mirror.
LEMMA Stutters ==
  ASSUME UNCHANGED <<registry, database, jobs, history>>
  PROVE  MirrorStep
<1>1. Watched' = Watched
  BY WatchedMeans DEF Looks, history
<1> QED BY <1>1 DEF MirrorStep, Mirror!mirrorVars, database, history

\* An asset whose last job fails for good is given up.
LEMMA FailureIsAttended ==
  ASSUME TypeOK, NEW failing \in SUBSET Jobs, FailJobs(failing),
         UNCHANGED <<registry, database>>, repeated \subseteq repeated'
  PROVE  MirrorStep
<1>1. ASSUME NEW a \in Assets, NEW j \in Jobs, Looks(j, a)' PROVE Looks(j, a)
  <2>1. CASE j \in failing
    BY <1>1, <2>1, FailJobsEffect DEF Looks
  <2>2. CASE j \notin failing
    BY <1>1, <2>2, FailJobsEffect DEF Looks
  <2> QED BY <2>1, <2>2
<1>2. ASSUME NEW a \in Assets, NEW j \in Jobs, Looks(j, a), a \notin exhausted'
      PROVE  Looks(j, a)'
  <2>1. CASE j \notin failing
    BY <1>2, <2>1, FailJobsEffect DEF Looks
  <2>2. CASE j \in failing
    <3>1. j \in Outstanding(a)
      BY <1>2 DEF Looks, Outstanding, Live
    <3>2. Failed(jobs[j]) # NoJob
      BY <1>2, <2>2, <3>1 DEF FailJobs, Over
    <3>3. jobs'[j] = Failed(jobs[j]) /\ jobs[j] \in JobType \cup {NoJob}
      BY <2>2 DEF FailJobs, TypeOK
    <3>4. jobs'[j].state # "none" /\ jobs'[j].asset = a
      BY <1>2, <3>2, <3>3, FailedType, NoJobIsDead DEF Looks
    <3> QED BY <1>2, <3>4, FailJobsEffect DEF Looks
  <2> QED BY <2>1, <2>2
<1>3. Watched' \ Watched = {} /\ Watched \ Watched' \subseteq exhausted'
  BY <1>1, <1>2, WatchedMeans
<1>4. exhausted \subseteq exhausted'
  BY DEF FailJobs
<1> QED BY <1>3, <1>4, Attends

\* The jobs fetched are those of assets that were watched, but for the served ones.
LEMMA PollIsAttended ==
  ASSUME TypeOK, NEW q \in Queues, NEW due \in SUBSET Jobs, Poll(q, due)
  PROVE  MirrorStep
<1>1. /\ jobs' = [j \in Jobs |-> IF j \in due THEN Fetched(jobs[j]) ELSE jobs[j]]
      /\ served' = served \ due /\ UNCHANGED <<registry, database, exhausted>>
      /\ repeated' = repeated \cup {jobs[j].asset : j \in due \cap served}
      /\ \A j \in due : jobs[j].state \in {"created", "retry"}
  BY DEF Poll, Waiting
<1>2. \A j \in due : jobs[j].state # "none" /\ jobs'[j].state # "none"
                       /\ jobs'[j].asset = jobs[j].asset
  BY <1>1 DEF Fetched
<1>3. ASSUME NEW a \in Assets, NEW j \in Jobs, Looks(j, a) PROVE Looks(j, a)'
  <2>1. CASE j \in due
    BY <1>1, <1>2, <1>3, <2>1 DEF Looks
  <2>2. CASE j \notin due
    BY <1>1, <1>3, <2>2 DEF Looks
  <2> QED BY <2>1, <2>2
<1>4. ASSUME NEW a \in Assets, NEW j \in Jobs, Looks(j, a)'
      PROVE  Looks(j, a) \/ a \in repeated'
  <2>1. CASE j \in due
    BY <1>1, <1>2, <1>4, <2>1 DEF Looks
  <2>2. CASE j \notin due
    BY <1>1, <1>4, <2>2 DEF Looks
  <2> QED BY <2>1, <2>2
<1>5. Watched \ Watched' = {} /\ Watched' \ Watched \subseteq repeated'
  BY <1>3, <1>4, WatchedMeans
<1> QED BY <1>1, <1>5, Attends

\* A job is published under an identifier that nothing looked after.
LEMMA Published ==
  ASSUME TypeOK, NEW q \in Queues, NEW a \in Assets, NEW j \in Jobs, Free(j),
         jobs' = [jobs EXCEPT ![j] = Job(q, a)], NEW gone \in SUBSET Jobs,
         served' = (served \cup gone) \ {j}, \A i \in gone : jobs[i].asset = a
  PROVE  Watched' = Watched \cup {a}
<1>1. Looks(j, a)'
  BY DEF TypeOK, Job, Looks
<1>2. ASSUME NEW b \in Assets, NEW i \in Jobs, Looks(i, b)' PROVE Looks(i, b) \/ b = a
  <2>1. CASE i = j
    BY <1>2, <2>1 DEF TypeOK, Job, Looks
  <2>2. CASE i # j
    BY <1>2, <2>2 DEF TypeOK, Looks
  <2> QED BY <2>1, <2>2
<1>3. ASSUME NEW b \in Assets, NEW i \in Jobs, Looks(i, b), b # a PROVE Looks(i, b)'
  <2>1. i # j /\ i \notin gone
    BY <1>3 DEF Free, Live, Looks
  <2> QED BY <1>3, <2>1 DEF TypeOK, Looks
<1> QED BY <1>1, <1>2, <1>3, WatchedMeans

\* A new asset gets a job, and is watched.
LEMMA InsertIsMirrored ==
  ASSUME TypeOK, NEW a \in Assets, InsertRow(a)
  PROVE  MirrorStep
<1>1. PICK j \in Jobs : /\ Free(j) /\ jobs' = [jobs EXCEPT ![j] = Job("initial", a)]
                        /\ served' = served \ {j}
  BY DEF InsertRow
<1> DEFINE gone == {}
<1>2. /\ gone \in SUBSET Jobs /\ served' = (served \cup gone) \ {j}
      /\ \A i \in gone : jobs[i].asset = a
  BY <1>1
<1>3. Watched' = Watched \cup {a}
  <2> HIDE DEF gone
  <2> QED BY <1>1, <1>2, Published DEF Queues
<1>4. repeated' = repeated \cup ({a} \cap Watched)
  BY DEF InsertRow, Watched
<1>5. Mirror!Insert(a)
  BY <1>3, <1>4 DEF InsertRow, Mirror!Insert
<1> QED BY <1>5 DEF MirrorStep, Mirror!Next

\* An asset that is treated keeps a job: the one that is published for it.
LEMMA PublishIsAttended ==
  ASSUME OneJobInv, NEW r \in Runners, NEW w \in Work, Publish(r, w)
  PROVE  MirrorStep
<1>0. TypeOK /\ Batches /\ BatchOfQueue /\ Treating /\ w.asset \in Assets /\ w.job \in Jobs
  BY DEF OneJobInv, WorkerInv, Work
<1>1. PICK j \in Jobs :
        /\ Free(j) /\ jobs' = [jobs EXCEPT ![j] = Job("update", w.asset)]
        /\ served' = (IF Live(w.job) /\ r # "late" THEN served \cup {w.job} ELSE served)
                       \ {j}
  BY DEF Publish, Requeue
<1>2. w \in runner[r].todo /\ w \in runner[r].batch
  BY <1>0 DEF Publish, Batches
<1> DEFINE gone == IF Live(w.job) /\ r # "late" THEN {w.job} ELSE {}
<1>3. gone \in SUBSET Jobs /\ served' = (served \cup gone) \ {j}
  BY <1>0, <1>1
<1>4. \A i \in gone : jobs[i].asset = w.asset
  BY <1>0, <1>2 DEF BatchOfQueue, Runners
<1>5. Watched' = Watched \cup {w.asset}
  <2> HIDE DEF gone
  <2> QED BY <1>0, <1>1, <1>3, <1>4, Published DEF Queues
<1>6. w.asset \in Watched \cup repeated
  <2>1. CASE Tends(r, w)
    BY <1>0, <2>1, WatchedMeans DEF Tends, Looks
  <2> QED BY <1>0, <1>2, <2>1 DEF Treating
<1>7. /\ UNCHANGED <<registry, database>> /\ repeated' = repeated
      /\ exhausted' = exhausted \ {w.asset}
  BY DEF Publish, Requeue
<1>8. exhausted \ exhausted' \subseteq Watched'
  BY <1>5, <1>7
<1>9. Watched \ Watched' = {} /\ Watched' \ Watched \subseteq repeated'
  BY <1>5, <1>6, <1>7
<1> QED BY <1>7, <1>8, <1>9, Attends

\* What is completed has been served: nothing that was looked after is lost.
LEMMA FinishIsAttended ==
  ASSUME WorkerInv, NEW r \in Runners, Finish(r)
  PROVE  MirrorStep
<1>0. TypeOK /\ BatchOfQueue
  BY DEF WorkerInv
<1>1. Completed(r) \in SUBSET Jobs
  BY <1>0, BatchTyped DEF Completed
<1>2. PICK over \in SUBSET Completed(r) :
        /\ jobs' = [j \in Jobs |-> IF j \in over THEN NoJob ELSE jobs[j]]
        /\ served' = served \ over
  BY DEF Finish
<1>3. over \subseteq served
  <2> SUFFICES ASSUME NEW j \in over PROVE j \in served
    OBVIOUS
  <2>1. r \in Queues /\ jobs[j].state = "active" /\ j \in JobsOf(runner[r].batch)
    BY <1>2 DEF Completed, Runners
  <2>2. PICK w \in runner[r].batch : w.job = j
    BY <2>1 DEF JobsOf
  <2> QED BY <1>0, <2>1, <2>2 DEF BatchOfQueue, Live, Finish
<1>4. ASSUME NEW a \in Assets, NEW j \in Jobs PROVE Looks(j, a) <=> Looks(j, a)'
  <2>1. CASE j \in over
    BY <1>2, <1>3, <2>1, NoJobIsDead DEF Looks
  <2>2. CASE j \notin over
    BY <1>2, <2>2 DEF Looks
  <2> QED BY <2>1, <2>2
<1>5. Watched' = Watched
  BY <1>4, WatchedMeans
<1> QED BY <1>5, Attends DEF Finish

\* A handler stores metadata of the registry, of an asset that its job looks after, in
\* the place of metadata that is not newer; or the row is gone.
LEMMA StoreIsMirrored ==
  ASSUME FreshInv, NEW r \in Runners, NEW w \in Work, Store(r, w)
  PROVE  MirrorStep
<1>0. /\ TypeOK /\ HashesInHex /\ Treating /\ Past /\ Fresh
      /\ w.asset \in Assets /\ w.job \in Jobs /\ w \in runner[r].todo
  BY DEF FreshInv, OneJobInv, WorkerInv, Work, Store, At
<1>1. /\ stored' = IF w.asset \in rows THEN [stored EXCEPT ![w.asset] = Found(r, w)]
                   ELSE stored
      /\ Found(r, w) # 0 /\ UNCHANGED <<registry, rows, jobs, history>>
  BY <1>0, NothingMatches DEF Store, Write
<1>2. CASE w.asset \notin rows
  BY <1>1, <1>2, Stutters DEF database
<1>3. CASE w.asset \in rows
  <2>1. w.asset \in Watched \cup repeated
    <3>1. CASE Tends(r, w)
      BY <1>0, <3>1, WatchedMeans DEF Tends, Looks
    <3> QED BY <1>0, <3>1 DEF Treating
  <2>2. Found(r, w) \in 1..registry[w.asset]
    BY <1>0, <1>1, FreshTyped DEF Past, Found
  <2>3. w.asset \in repeated \/ stored[w.asset] <= Found(r, w)
    BY <1>0, <1>1 DEF Fresh
  <2>4. Watched' = Watched
    BY <1>1, WatchedMeans DEF Looks, history
  <2>5. Mirror!Update(w.asset)
    BY <1>1, <1>3, <2>1, <2>2, <2>3, <2>4 DEF Mirror!Update, history
  <2> QED BY <1>0, <2>5 DEF MirrorStep, Mirror!Next
<1> QED BY <1>2, <1>3

\* Every step is one of the mirror, or none.
LEMMA MirrorStepped == FreshInv /\ [Next]_vars => MirrorStep
<1> SUFFICES ASSUME FreshInv, [Next]_vars PROVE MirrorStep
  OBVIOUS
<1>0. OneJobInv /\ WorkerInv /\ TypeOK /\ repeated \subseteq repeated'
  BY RepeatedGrows DEF FreshInv, OneJobInv, WorkerInv
<1>1. CASE RegistryChanges
  <2>1. PICK a \in Assets : registry[a] < MaxVersion
                              /\ registry' = [registry EXCEPT ![a] = registry[a] + 1]
    BY <1>1 DEF RegistryChanges
  <2>2. UNCHANGED <<database, jobs, history>> /\ Watched' = Watched
    BY <1>1, WatchedMeans DEF RegistryChanges, Looks, history
  <2>3. Mirror!Renew(a)
    BY <2>1, <2>2 DEF Mirror!Renew, database, history
  <2> QED BY <2>3 DEF MirrorStep, Mirror!Next
<1>2. ASSUME NEW a \in Assets, DeleteRow(a) PROVE MirrorStep
  <2>1. Watched' = Watched
    BY <1>2, WatchedMeans DEF DeleteRow, Looks, history
  <2>2. Mirror!Delete(a)
    BY <1>2, <2>1 DEF DeleteRow, Mirror!Delete, history
  <2> QED BY <2>2 DEF MirrorStep, Mirror!Next
<1>3. ASSUME NEW j \in Jobs, Expire(j) PROVE MirrorStep
  BY <1>0, <1>3, FailureIsAttended DEF Expire
<1>4. ASSUME NEW q \in Queues, TimesOut(q) PROVE MirrorStep
  BY <1>0, <1>4, FailureIsAttended, BatchTyped, RunnerNames DEF TimesOut
<1>5. ASSUME NEW r \in Runners, Rejects(r) PROVE MirrorStep
  <2> DEFINE failing == IF r = "late" THEN {} ELSE JobsOf(runner[r].batch)
  <2>1. FailJobs(failing) /\ failing \in SUBSET Jobs
    BY <1>0, <1>5, BatchTyped DEF Rejects
  <2> HIDE DEF failing
  <2> QED BY <1>0, <1>5, <2>1, FailureIsAttended DEF Rejects
<1>6. ASSUME NEW r \in Runners, NEW w \in Work, FailMissing(r, w) PROVE MirrorStep
  BY <1>0, <1>6, FailureIsAttended DEF FailMissing, Work
<1>7. ASSUME NEW r \in Runners,
             (\E m \in SUBSET Assets : Fetch(r, m)) \/ ReadHashes(r)
      PROVE  MirrorStep
  BY <1>7, Stutters DEF Fetch, ReadHashes
<1>8. CASE Crash \/ UNCHANGED vars
  BY <1>8, Stutters DEF Crash, vars, database, history
<1> QED
  BY <1>0, <1>1, <1>2, <1>3, <1>4, <1>5, <1>6, <1>7, <1>8, PollIsAttended, InsertIsMirrored,
     PublishIsAttended, FinishIsAttended, StoreIsMirrored
  DEF Next, RowsChange, Misses, Handle, Treat, StoreThenPublish, Faults

\* The worker implements the mirror: through every failure, retry, crash and late
\* handler, an asset is watched until it is given up, and only who watches it writes
\* its metadata, of the registry and never older, for any number of jobs and assets.
THEOREM WorkerMirrorsRegistry == Spec => ImplementsMirror
<1>1. Init => Mirror!Init
  <2>1. Init => Watched = {}
    BY DEF Init, Watched, Outstanding, Live, NoJob
  <2> QED BY <2>1 DEF Init, Mirror!Init
<1>2. FreshInv /\ [Next]_vars => [Mirror!Next]_(Mirror!mirrorVars)
  BY MirrorStepped DEF MirrorStep
<1> QED BY <1>1, <1>2, FreshInvariant, PTL DEF Spec, ImplementsMirror, Mirror!Spec
=============================================================================
