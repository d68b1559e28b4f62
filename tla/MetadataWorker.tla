--------------------------- MODULE MetadataWorker ---------------------------
(***************************************************************************)
(* The asset metadata worker of cardano-graphql: the Worker class          *)
(* (packages/api-cardano-db-hasura/src/Worker.ts) with MetadataClient.fetch *)
(* and the parts of HasuraBackgroundClient it calls.  Two subscriptions of *)
(* a pg-boss queue run the same handler on batches of jobs: it fetches the *)
(* metadata of their assets from the registry, writes to the Asset table   *)
(* what it found, and publishes for each of them an update job that will   *)
(* do it again.  A job whose metadata is not found is failed, and retried. *)
(*                                                                         *)
(* An asset's metadata is a version; 0 is none.                            *)
(***************************************************************************)
EXTENDS Naturals

CONSTANTS Assets,
          MaxVersion,   \* bound: versions the registry goes through
          Jobs,         \* bound: job identifiers in use at the same time
          RetryLimit,   \* retryLimit of the jobs of each queue
          Outcomes      \* what pg-boss may do with the jobs of a batch that the
                        \* handler neither fails nor completes: TRUE, complete
                        \* them with the batch; FALSE, leave them to expire

Queues == {"initial", "update"}
Versions == 0..MaxVersion

ASSUME WorkerAssumption ==
  /\ MaxVersion \in Nat
  /\ RetryLimit \in [Queues -> Nat]
  /\ Outcomes \subseteq BOOLEAN /\ Outcomes # {}

\* A runner executes the handler for a subscription.  "late" is one whose batch
\* pg-boss has given up waiting for.  Bound: one of those at a time.
Runners == Queues \cup {"late"}

VARIABLES
  registry,   \* version of each asset's metadata in the registry
  rows,       \* assets with a row in the Asset table
  stored,     \* version of the metadata in the row, and so its metadataHash
  jobs,       \* the job table of pg-boss
  runner,     \* the subscriptionHandler in progress for each runner
  served,     \* history: jobs whose handler has published their successor, since
              \* they were last fetched from the queue
  exhausted,  \* history: assets whose last job ended without a successor
  repeated    \* history: assets that two jobs or handlers worked on at once

vars == <<registry, rows, stored, jobs, runner, served, exhausted, repeated>>
database == <<rows, stored>>
history == <<served, exhausted, repeated>>

NoJob == [state |-> "none"]

JobType ==
  {job \in [state : {"created", "retry", "active"}, queue : Queues,
            asset : Assets, retries : Nat] :
     /\ job.retries <= RetryLimit[job.queue]
     /\ job.state = "retry" => job.retries < RetryLimit[job.queue]}

Job(q, a) == [state |-> "created", queue |-> q, asset |-> a, retries |-> 0]

\* A handler holds its batch as pairs of a job and the asset in its data.
Work == [job : Jobs, asset : Assets]
AssetsOf(batch) == {w.asset : w \in batch}
JobsOf(batch) == {w.job : w \in batch}

\* The payload of a job holds the assetId in plain hexadecimal; a query returns
\* the bytea in Postgres notation, after the prefix \x.
Plain(a) == [prefix |-> "", id |-> a]
Hex(a) == [prefix |-> "\\x", id |-> a]
Ids == [prefix : {"", "\\x"}, id : Assets]

\* todo: the jobs of the batch not treated yet; pending: the one whose metadata is
\* stored and whose successor is not published.
Idle == [step |-> "idle", batch |-> {}, todo |-> {}, pending |-> {},
         found |-> [a \in Assets |-> 0], hashes |-> {}]

RunnerType ==
  [step : {"idle", "fetch", "hashes", "loop"},
   batch : SUBSET Work, todo : SUBSET Work, pending : SUBSET Work,
   found : [Assets -> Versions], hashes : SUBSET [assetId : Ids, hash : Versions]]

Live(j) == jobs[j].state # "none"
Free(j) == ~Live(j) /\ \A r \in Runners : j \notin JobsOf(runner[r].batch)

\* The jobs that will still do something for the asset.
Outstanding(a) == {j \in Jobs \ served : Live(j) /\ jobs[j].asset = a}

Init ==
  /\ registry = [a \in Assets |-> 0]
  /\ rows = {} /\ stored = [a \in Assets |-> 0]
  /\ jobs = [j \in Jobs |-> NoJob]
  /\ runner = [r \in Runners |-> Idle]
  /\ served = {} /\ exhausted = {} /\ repeated = {}

-----------------------------------------------------------------------------
(* pg-boss (external).  A definition marked "Mistake" is one the properties  *)
(* are sensitive to: no action uses it.                                      *)

\* Mistake: one retry too many.
FailedOnceMore(job) ==
  IF job.state # "none" /\ job.retries <= RetryLimit[job.queue]
  THEN [job EXCEPT !.state = "retry"] ELSE NoJob

\* A job is retried while its retryLimit allows, then it is over.
Failed(job) ==
  IF job.state # "none" /\ job.retries < RetryLimit[job.queue]
  THEN [job EXCEPT !.state = "retry"] ELSE NoJob

Over(failing) == {j \in failing : Failed(jobs[j]) = NoJob}

\* failing jobs end as Failed; an asset is exhausted when a job that has not been
\* served is over.
FailJobs(failing) ==
  /\ jobs' = [j \in Jobs |-> IF j \in failing THEN Failed(jobs[j]) ELSE jobs[j]]
  /\ served' = served \ Over(failing)
  /\ exhausted' =
       exhausted \cup {a \in Assets : Over(failing) \cap Outstanding(a) # {}}

Fetched(job) ==
  [state |-> "active", queue |-> job.queue, asset |-> job.asset,
   retries |-> IF job.state = "retry" THEN job.retries + 1 ELSE job.retries]

Waiting(q) == {j \in Jobs : jobs[j].state \in {"created", "retry"} /\ jobs[j].queue = q}

\* A subscription gives its handler the jobs of its queue that are due; which of
\* those waiting are due (retryDelay, startAfter) is left open.
Poll(q, due) ==
  /\ runner[q] = Idle
  /\ due # {} /\ due \subseteq Waiting(q)
  /\ jobs' = [j \in Jobs |-> IF j \in due THEN Fetched(jobs[j]) ELSE jobs[j]]
  /\ LET batch == {[job |-> j, asset |-> jobs[j].asset] : j \in due}
     IN  runner' = [runner EXCEPT ![q] =
                      [Idle EXCEPT !.step = "fetch", !.batch = batch, !.todo = batch]]
  /\ served' = served \ due
  /\ repeated' = repeated \cup {jobs[j].asset : j \in due \cap served}
  /\ UNCHANGED <<registry, database, exhausted>>

\* An active job that no runner works on any more expires.
Expire(j) ==
  /\ jobs[j].state = "active"
  /\ \A q \in Queues : j \notin JobsOf(runner[q].batch)
  /\ FailJobs({j})
  /\ UNCHANGED <<registry, database, runner, repeated>>

\* The handler exceeds the expiry of its jobs: they fail, but it goes on.
TimesOut(q) ==
  /\ runner[q] # Idle /\ runner["late"] = Idle
  /\ FailJobs(JobsOf(runner[q].batch))
  /\ runner' = [runner EXCEPT !["late"] = runner[q], ![q] = Idle]
  /\ repeated' = repeated \cup AssetsOf(runner[q].todo)
  /\ UNCHANGED <<registry, database>>

-----------------------------------------------------------------------------
(* The registry and the chain follower *)

RegistryChanges ==
  /\ \E a \in Assets :
       /\ registry[a] < MaxVersion
       /\ registry' = [registry EXCEPT ![a] = @ + 1]
  /\ UNCHANGED <<database, jobs, runner, history>>

\* ChainFollower.saveAsset inserts a row, and its initial job is published: one that is
\* lost on the way is ChainFollower's (JobForRow there).
InsertRow(a) ==
  /\ a \notin rows
  /\ rows' = rows \cup {a}
  /\ \E j \in Jobs :
       /\ Free(j)
       /\ jobs' = [jobs EXCEPT ![j] = Job("initial", a)]
       /\ served' = served \ {j}
  /\ exhausted' = exhausted \ {a}
  /\ repeated' = IF Outstanding(a) = {} THEN repeated ELSE repeated \cup {a}
  /\ UNCHANGED <<registry, stored, runner>>

\* A rollback deletes the row with its metadata.
DeleteRow(a) ==
  /\ a \in rows
  /\ rows' = rows \ {a}
  /\ stored' = [stored EXCEPT ![a] = 0]
  /\ UNCHANGED <<registry, jobs, runner, history>>

-----------------------------------------------------------------------------
(* subscriptionHandler *)

\* MetadataClient.fetch: one request for the whole batch; the registry may miss
\* some of its assets.
Fetch(r, missing) ==
  /\ runner[r].step = "fetch"
  /\ missing \subseteq AssetsOf(runner[r].batch)
  /\ LET found == [a \in Assets |->
               IF a \in AssetsOf(runner[r].batch) \ missing THEN registry[a] ELSE 0]
     IN  runner' = [runner EXCEPT ![r] = [@ EXCEPT !.step = "hashes", !.found = found]]
  /\ UNCHANGED <<registry, database, jobs, history>>

\* getAssetMetadataHashesById
ReadHashes(r) ==
  /\ runner[r].step = "hashes"
  /\ LET hashes == {[assetId |-> Hex(a), hash |-> stored[a]] :
                      a \in rows \cap AssetsOf(runner[r].batch)}
     IN  runner' = [runner EXCEPT ![r] = [@ EXCEPT !.step = "loop", !.hashes = hashes]]
  /\ UNCHANGED <<registry, database, jobs, history>>

\* The loop is at a job of which it knows the metadata, or knows there is none.
At(r, w) ==
  runner[r].step = "loop" /\ runner[r].pending = {} /\ w \in runner[r].todo

Found(r, w) == runner[r].found[w.asset]

\* The metadataHash read for the asset is that of the metadata found.
Matches(r, w) ==
  [assetId |-> Plain(w.asset), hash |-> Found(r, w)] \in runner[r].hashes

Treated(r, w) ==
  runner' = [runner EXCEPT ![r] = [@ EXCEPT !.todo = runner[r].todo \ {w}, !.pending = {}]]

\* Mistake: a job whose metadata is not found is passed over.
PassOverMissing(r, w) ==
  /\ At(r, w) /\ Found(r, w) = 0
  /\ Treated(r, w)
  /\ UNCHANGED <<registry, database, jobs, history>>

\* Mistake: and looked up again by an update job.
RequeueMissing(r, w) ==
  /\ At(r, w) /\ Found(r, w) = 0
  /\ Treated(r, w)
  /\ \E j \in Jobs : Free(j) /\ jobs' = [jobs EXCEPT ![j] = Job("update", w.asset)]
  /\ UNCHANGED <<registry, database, history>>

\* No metadata in the answer: job.done(error).
FailMissing(r, w) ==
  /\ At(r, w) /\ Found(r, w) = 0
  /\ Treated(r, w)
  /\ FailJobs({w.job})
  /\ UNCHANGED <<registry, database, repeated>>

\* Mistake: a row that is gone is written as well.
Upsert(r, w) == stored' = [stored EXCEPT ![w.asset] = Found(r, w)]

\* addAssetMetadata: an update of the row, if there is one.
Write(r, w) ==
  stored' = IF w.asset \in rows THEN [stored EXCEPT ![w.asset] = Found(r, w)]
            ELSE stored

\* The metadata is stored, unless the row has its hash already: then nothing is left
\* to do.
Store(r, w) ==
  /\ At(r, w) /\ Found(r, w) # 0
  /\ IF Matches(r, w) THEN Treated(r, w) /\ UNCHANGED stored
     ELSE /\ Write(r, w)
          /\ runner' = [runner EXCEPT ![r] = [@ EXCEPT !.pending = {w}]]
  /\ UNCHANGED <<registry, rows, jobs, history>>

\* publishAfter: the update job of the asset, due six hours later.  A late handler
\* does not speak for its job: it has failed, or is in other hands.
Requeue(r, w) ==
  /\ \E j \in Jobs :
       /\ Free(j)
       /\ jobs' = [jobs EXCEPT ![j] = Job("update", w.asset)]
       /\ served' = (IF Live(w.job) /\ r # "late" THEN served \cup {w.job} ELSE served)
                      \ {j}
  /\ exhausted' = exhausted \ {w.asset}

Publish(r, w) ==
  /\ w \in runner[r].pending
  /\ Requeue(r, w)
  /\ Treated(r, w)
  /\ UNCHANGED <<registry, database, repeated>>

\* Mistake: publishAfter comes before addAssetMetadata.
PublishThenStore(r, w) ==
  \/ /\ At(r, w) /\ Found(r, w) # 0 /\ ~Matches(r, w)
     /\ Requeue(r, w)
     /\ runner' = [runner EXCEPT ![r] = [@ EXCEPT !.pending = {w}]]
     /\ UNCHANGED <<registry, database, repeated>>
  \/ /\ w \in runner[r].pending
     /\ Write(r, w)
     /\ Treated(r, w)
     /\ UNCHANGED <<registry, rows, jobs, history>>

StoreThenPublish(r, w) == Store(r, w) \/ Publish(r, w)

\* The promise of the handler is fulfilled.  Nobody waits for a late one.
Completed(r) ==
  IF r = "late" THEN {}
  ELSE {j \in JobsOf(runner[r].batch) : jobs[j].state = "active"}

Finish(r) ==
  /\ runner[r].step = "loop" /\ runner[r].todo = {}
  /\ runner' = [runner EXCEPT ![r] = Idle]
  /\ \E complete \in Outcomes :
       LET over == IF complete THEN Completed(r) ELSE {}
       IN  /\ jobs' = [j \in Jobs |-> IF j \in over THEN NoJob ELSE jobs[j]]
           /\ served' = served \ over
  /\ UNCHANGED <<registry, database, exhausted, repeated>>

\* One of the calls rejects, its effect done or not, or the registry's name is not
\* resolved and there is no answer to look into: the whole batch fails.
Rejects(r) ==
  /\ runner[r] # Idle
  /\ runner' = [runner EXCEPT ![r] = Idle]
  /\ FailJobs(IF r = "late" THEN {} ELSE JobsOf(runner[r].batch))
  /\ UNCHANGED <<registry, database, repeated>>

\* The process exits and is restarted.
Crash ==
  /\ \E r \in Runners : runner[r] # Idle
  /\ runner' = [r \in Runners |-> Idle]
  /\ UNCHANGED <<registry, database, jobs, history>>

-----------------------------------------------------------------------------
Treat(r) ==
  \E w \in Work : FailMissing(r, w) \/ StoreThenPublish(r, w)

Handle(r) == Fetch(r, {}) \/ ReadHashes(r) \/ Treat(r) \/ Finish(r)

Misses == \E r \in Runners : \E missing \in SUBSET Assets \ {{}} : Fetch(r, missing)
RowsChange == \E a \in Assets : InsertRow(a) \/ DeleteRow(a)
Faults == Crash \/ (\E q \in Queues : TimesOut(q)) \/ (\E r \in Runners : Rejects(r))

Next ==
  \/ RegistryChanges \/ RowsChange \/ Misses
  \/ \E q \in Queues, due \in SUBSET Jobs : Poll(q, due)
  \/ \E j \in Jobs : Expire(j)
  \/ \E r \in Runners : Handle(r)
  \/ Faults

Spec == Init /\ [][Next]_vars

\* Calls are answered and active jobs expire in the end.  A job waiting in its
\* queue is due in the end, and then in the batch of the next poll.
Fairness ==
  /\ \A r \in Runners : WF_vars(Handle(r))
  /\ \A j \in Jobs : WF_vars(Expire(j))
  /\ \A j \in Jobs : SF_vars(\E q \in Queues, due \in SUBSET Jobs :
                               j \in due /\ Poll(q, due))

FairSpec == Spec /\ Fairness

-----------------------------------------------------------------------------
(* Properties *)

\* The variables keep the shapes above; no job is retried beyond its limit.
TypeOK ==
  /\ registry \in [Assets -> Versions]
  /\ rows \subseteq Assets /\ stored \in [Assets -> Versions]
  /\ jobs \in [Jobs -> JobType \cup {NoJob}]
  /\ runner \in [Runners -> RunnerType]
  /\ served \subseteq Jobs
  /\ exhausted \subseteq Assets /\ repeated \subseteq Assets

\* NeverForgotten: a job of each row's asset is in a queue or in a handler, unless
\* its retries were exhausted: whatever is rejected, expires, crashes or comes
\* late, the chain of update jobs of the asset is not broken.
NeverForgotten == \A a \in rows \ exhausted : Outstanding(a) # {}

\* OneJob: the work is not multiplied: two jobs look after the same asset only
\* when one was retried after it was served, when its handler was late, or when
\* its row was inserted anew.
OneJob == \A a \in Assets \ repeated : \A i, j \in Outstanding(a) : i = j

\* NoRegression: no handler overwrites the metadata of a row by older metadata,
\* with the same exceptions.
NoRegression ==
  [][\A a \in (rows \cap rows') \ repeated' : stored'[a] >= stored[a]]_vars

Watched == {a \in Assets : Outstanding(a) # {}}
Mirror == INSTANCE MetadataMirror WITH watched <- Watched, givenUp <- exhausted

\* ImplementsMirror: through expiries, retries, rejections, crashes and late handlers,
\* what is written to a row is metadata the registry has had, by a handler whose job
\* is still the asset's; an asset is never left without a job unless it is exhausted,
\* nor taken up again after that, but for the same exceptions (subscriptionHandler).
ImplementsMirror == Mirror!Spec

-----------------------------------------------------------------------------
(* The inductive invariant *)

\* A handler treats jobs of its batch.
Batches ==
  \A r \in Runners :
    /\ runner[r].todo \subseteq runner[r].batch
    /\ runner[r].pending \subseteq runner[r].todo

\* The hash of a row is never found under the assetId of a job: the prefix \x is
\* not taken off.
HashesInHex == \A r \in Runners : \A h \in runner[r].hashes : h.assetId.prefix = "\\x"

\* While a job is in the table, the subscription that fetched it holds it as its
\* own; and if it has treated it, the job has failed or has a successor.
BatchOfQueue ==
  \A q \in Queues : \A w \in runner[q].batch :
    Live(w.job) =>
      /\ jobs[w.job].asset = w.asset /\ jobs[w.job].queue = q
      /\ w \notin runner[q].todo /\ jobs[w.job].state = "active" => w.job \in served

\* WorkerInv: the invariant that NeverForgotten rests on.
WorkerInv == TypeOK /\ Batches /\ HashesInHex /\ BatchOfQueue /\ NeverForgotten

\* RewritesOnlyChanges: "Metadata from registry matches local" (Worker.ts:67): a
\* row that holds the metadata found already is not written again.
Pending == UNION {runner[r].pending : r \in Runners}
RewritesOnlyChanges ==
  [][\A w \in Pending' \ Pending :
       w.asset \in rows \ repeated => stored'[w.asset] # stored[w.asset]]_vars

\* Converges: once the registry, the rows and the faults come to rest, every row
\* whose retries are not exhausted holds the metadata of the registry.
Converges ==
  (<>[][~RegistryChanges /\ ~RowsChange /\ ~Misses /\ ~Faults]_vars) =>
    <>[](repeated = {} =>
           \A a \in rows \ exhausted : registry[a] # 0 => stored[a] = registry[a])
=============================================================================
