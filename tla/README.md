# Formal models of cardano-graphql

TLA+ modules of the parts of cardano-graphql that keep state, TLC
configurations that check them on small instances, and theorems about them
checked by TLAPS. Paths below are relative to `packages/` unless they start with
`src/`; `A/` stands for `packages/api-cardano-db-hasura/src/`.

    tlc -config MCChainFollower.cfg MCChainFollower.tla      # likewise the others
    tlapm ChainFollowerProofs.tla

## 1. The system

cardano-graphql serves the data of a Cardano node as GraphQL. Two processes do
it, beside cardano-node, Ogmios (a WebSocket bridge to the node),
cardano-db-sync (which fills a PostgreSQL database from the node), Hasura (which
serves that database) and a metadata registry.

* The **background process** (`A/background.ts`) owns the one table that
  cardano-db-sync does not: `Asset`. It fills it from the chain and decorates it
  with metadata of the registry.
* The **server** (`server/src/index.ts`) answers queries by delegating them to
  Hasura and to the node.

The processes share the database only. Within the background process the
components share `HasuraBackgroundClient`, and two of them share a job queue
(pg-boss, in the same database).

| Component | State | Operations | What makes it hard | What makes it correct |
|---|---|---|---|---|
| `ChainFollower` (`A/ChainFollower.ts`) | `state`, `cacheAssets`, `cacheTimer`, the chain-sync session; the Asset table | `initialize`, `rollForward` → `saveAsset`, `rollBackward`, `start`, `shutdown`, `onClose` | a cache between the chain and the table; awaits in the middle of a block; forks; restarts that resume at a point read back from the table joined with somebody else's table; failing requests | no mint is lost; a row names the first appearance; the resume point skips nothing; every row gets its metadata job; the index catches up |
| `Worker` (`A/Worker.ts`) | the job queue, its subscriptions; the metadata columns | `start`, the subscription handler, `shutdown` | batches that fail as a whole; retries and expiry beside a handler that goes on; a job that republishes itself; crashes between the store and the publication | no asset is forgotten; work is not multiplied; metadata does not go back; it converges |
| `HasuraBackgroundClient` (`A/HasuraBackgroundClient.ts`) | `state`, `applyingSchemaAndMetadata`, `schema` | `initialize`, `applySchemaAndMetadata`, `shutdown` and six requests | concurrent initializations, migrations retried | the schema is applied before it is used |
| `MetadataClient` (`A/MetadataClient.ts`) | `state` | `initialize`, `fetch` | waits for a registry; an error that becomes `undefined` | `fetch` fails or answers |
| `background.ts`, `Db` (`A/Db.ts`) | `Db.state`, a LISTEN connection | `init`, `shutdown`, `onDbInit`, `onDbSetup`, `onDeath` | `onDbSetup` is run by every `connected` and `db-setup` event, also while it is running | components start once and in order, also after a restart of cardano-db-sync |
| `CardanoNodeClient` (`A/CardanoNodeClient.ts`), `DataFetcher` (`util/src/data_fetching/`) | `state`, two Ogmios clients, a polled value, a timer | `initialize`, `shutdown`, `onClose`, `getTipSlotNo`, `submitTransaction`, polling | reconnection while calls are in progress; a swallowed first failure | no order of closes cuts the client off; one fetch at a time |
| `HasuraClient`, `executableSchema` (`A/`) | `state`, the ada pots fetcher | `initialize`, `shutdown`, queries | values polled on the side; requests that fail one by one | `ada` keeps its answer and catches up; balances add up; the progress is not reported too early |
| Query complexity (`A/queryComplexity.ts`, `server/src/apollo_server_plugins/`) | none | a cost for each query | recursion over filters and orderings; arguments of either sign, and at any depth | the cost is what the query's parts weigh, and asking for more is not cheaper, but for two gaps that are named |
| `Server` (`server/src/`) | `state`, a timer, the HTTP server | `init`, `start`, `shutdown`, the sync-progress poll | a timer that clears itself; start-up in an order over failing parts | it listens only after its schema works |
| CLI (`cli/src/Docker/`) | files, containers, volumes | `init`, `up`, `down`, `snapshot`, `rebuildService`, `cleanup` | sequences of destructive steps that may fail | no volume is lost without a snapshot, or mixed; the stack comes back |

`PROJECT.json` lists the components with what is modelled of each, and the
hazards of the code at their lines.

## 2. Plan

1. `ChainFollower`: the asset index. *Done, with proofs of all its invariants.*
2. `MetadataWorker`: the job queue and the handler. *Done, with proofs of all its
   invariants and of `NoRegression`.*
3. `Background`: `onDbSetup` and `onDbInit` run by the events of the listener,
   with the `initialize` and `start` of the modules as the steps they await.
   *Done, with proofs of its invariants.*
4. `CardanoNodeClient` with its `DataFetcher` and reconnection, composed with
   `ServerProcess`: start-up, signals, restarts. *Done, with proofs of its
   invariants.*
5. `DockerStore` and `DockerStack`: the commands of the CLI, cut at each call.
   *Done, with proofs of all its properties.*
6. `Resolvers`: what the server answers; `QueryComplexity`: what a query costs;
   `Requests`, which composes them. *Done, with proofs of their invariants and action
   properties.*
7. Abstract specifications: `AssetIndex`, which `ChainFollower` implements, and
   `MetadataMirror`, which `MetadataWorker` implements; the step simulations by
   proof. *Done.*
8. Left: liveness stays with TLC (section 9). A promise of the background process
   and of the server process as abstract specifications of their own.

## 3. The asset index: `ChainFollower.tla`

### Correspondence

| Model | Code |
|---|---|
| `chain` | the node's chain. `ForgeBlock` adds a block, `SwitchFork` abandons some (external) |
| `dbChain` | the Block table: `DbSyncForward`, `DbSyncBackward` (external) |
| `view` | what the chain-sync session has handed over; `resume` is the progress of `start` |
| `state` | `ChainFollower.state`; `initializing` is not told from `null`, as nothing reads the difference |
| `cache` | `cacheAssets`: the first slot of each asset in it |
| `table` | the Asset table: `firstAppearedInSlot` |
| `handler["current"]` | the handler in progress, cut at its awaits: `RollForward` up to the first asset, `SaveAsset` up to `await insertAssets`, `InsertAssets` the commit at Hasura, `InsertReturns` the rest of `saveAsset` (line 133); `RollBackward` and `DeleteAssets` likewise |
| `handler["previous"]` | the handler of the connection that was closed (`ConnectionCloses`), which still runs |
| `jobs` | of each asset, what became of its `asset-metadata-fetch-initial` job. `InsertReturns` calls `queue.publish` (line 136), which nothing awaits or catches: the handler goes on at once, and `PublishSucceeds`, `PublishFails` or a `Crash` decides on the request later. The call does not ask whether the follower is running |
| `InsertFails`, `DeleteFails` | the requests reject; `InsertFails` also when the rows were committed |
| `Crash` | every exit of the process: signals, unhandled rejections, the exit of `onFailedAttemptFor` |

Ogmios serialises the messages of a session, so a session has one handler at a
time. A failing connection attempt only delays `initialize`. A duplicate entry
in the cache is shadowed by the first, as in the insert with its `on_conflict`.
Whether the cache holds more than 1000 assets or 60 seconds have passed is left
open (`due`). A block hash commits to all that is below it, so two points are equal
when the chains agree up to them.

### What the code does not repair

The state keeps a history variable `lapses`. It names the steps after which the
code gives no guarantee any more, and does not influence any action:

* `skipped` — an insert failed, and the rest of the block is skipped (line 93);
* `undeleted` — the delete of a rollback failed (lines 58 and 62);
* `stale` — a rollback left entries of abandoned blocks in the cache;
* `forked` — the session resumed below rows of another chain (line 171 of the
  client takes any row; a rollback is never delivered for blocks the session has
  not handed over);
* `overlap` — a handler of the closed connection still ran when the resume
  point was read.

The invariants say what holds until then: they are about the order of saves, the
cache, the conflict rule, the resume point and ordinary crashes. In the runs
`UntilLapse` does not explore past a lapse; the theorems have no such bound.

Nor does the code repair a lost job: the row is there, a replayed block returns no
row for it, and nothing asks again. `jobs[a] = "lost"` records it. There are two
windows: the process exits, or the insert rejects, when Hasura has committed the rows and
`saveAsset` has not gone on; and the publish is rejected (as one on a queue that is
stopped or not yet started is) or cut by an exit before pg-boss has stored the job. `JobForRow` says that there is
no third one, and is stated without regard to lapses.

### Properties and runs

| Run | Bounds | Properties |
|---|---|---|
| `index` (2.3 million states) | 2 assets, 3 slots, of which the first is not empty, blocks of one or two mints | `TypeOK`; `NothingMissed`: what a block handed over mints is in the table, in the cache, or about to be saved; `FirstAppearance`: a row's slot mints its asset and nothing below it is missing; `ResumeSkipsNothing`; `JobForRow`: each row's job is asked for, or a handler is about to; `ImplementsIndex`: it implements `AssetIndex`, below |
| `index_live` | 2 slots, no fork and no failed insert | `JobForRow`, also past the loss of jobs; `CatchesUp`: if faults stop and the tip mints, the table becomes that of the chain |
| `partial_block` (violated) | blocks of three mints | `PartialBlockNotSkipped` |
| `flush` (violated) | blocks may mint nothing | `SavedEveryMinute` |
| `race` (violated) | a switch of forks | `RaceIsTransient` |

Three slots are what a fork needs: a common block, an abandoned one and its
replacement above or at the same slot. The run `index` does not explore what follows the
loss of a job (`NoneLost`), and lets the node and cardano-db-sync wait while a
publish is unanswered (`NodeWaits`); `index_live` and the theorems have neither
bound. Two assets tell the first row from the second,
and an asset minted again from one that is new. Two mints in a block are a partial
block; three are the case in which the offset fails.

Fairness (`FairSpec`): the steps of the follower and of cardano-db-sync are
weakly fair, as each is an awaited request that is answered or a message that
Ogmios delivers. Nothing obliges the chain to grow or faults to happen.
`index_live` uses `OneChainSpec`, which leaves out `SwitchFork` and
`InsertFails`: with them there are lapses, in which the property claims nothing.

### What the violations show

* `partial_block`: at the tip each asset of a block is inserted by itself. When a
  block of three mints is interrupted after two, the second row by slot is the
  block's own: the session resumes after the block, and the third asset has no row. With at most two mints in a block the offset is enough, and that is
  `ResumeSkipsNothing`, proved.
* `flush`: the sixty seconds are looked at when an asset is pushed. Assets of a
  block below the tip stay in memory while later blocks mint nothing.
* `race`: rows of blocks that were abandoned while the follower was not
  connected join no block. PostgreSQL sorts nulls first in a descending order, so
  the query of the resume point gets such a row, throws, and is retried until
  `onFailedAttemptFor` exits the process; the next one finds the same.

### Proofs: `ChainFollowerProofs.tla`

For every set of assets and blocks and every `MaxSlot`, from
`ChainAssumption` only: `Spec => []P` for each invariant of the run `index`
(`TypeCorrect`, `NoMintIsLost`, `RowsAreFirstAppearances`,
`OffsetOfOneSuffices`, `EveryRowHasItsJob`).

`NothingMissed` is not inductive. A flush moves the cache to the table, which is
only complete if the batch under way is the cache (`BatchIsCache`); the cache may
only be trusted if its entries are of the view (`CacheInView`); a handler must save
the newest block of the view, for rows to be behind no missing mint (`AtHead`);
and a resume point above a missing row would break it at the next `Start`
(`ResumeSkipsNothing`, which in turn rests on `FirstAppearance`: below the
second row at most one row is of the same block, so all earlier blocks are
complete). `Control` says which control points can be combined. `IndexInv` is
their conjunction; there is one lemma for each action, and the lemmas about
`Upto`, `Agree`, `InsertRows`, `DeleteAfterSlot` and `SecondRow` are stated once.
`JobForRow` is inductive with `TypeOK` and `Control`, without `Intact`: rows are only
made by an insert, whose handler knows of them until it publishes, fails or is cut.

### What the index promises: `AssetIndex.tla`

The abstract specification knows the chain the follower has been handed
(`followed`), the rows, and whether its promise still stands (`reliable`). Its
steps are those a reader of the Asset table can see: a block is followed, a batch of
mints is saved, the rows above a point are deleted, blocks are unfollowed. There
is no cache, no handler, no session and no crash in it. It promises that a row is
never for a block that is not followed, that it names a mint of its asset, and
that following a block never deletes rows.

`Promise` in `ChainFollower` is the mapping: `followed` is `view`, `rows` is
`table`, and `reliable` holds while no lapse has happened and no block
mints more than two assets. A crash, a lost connection, a failing request, the
handlers' awaits and the jobs are stutters. The run `index`
checks the refinement as a property; `AssetIndexProofs` proves it (`FollowerImplementsIndex`):
initial states map to initial states, and each action of `ChainFollower`, in a
state that satisfies `IndexInv`, maps to a step of `AssetIndex` or leaves its
variables unchanged. The invariant is needed because a flush is a step of
`AssetIndex` only if what it inserts are mints of followed blocks.

## 4. The metadata worker: `MetadataWorker.tla`

### Correspondence

| Model | Code |
|---|---|
| `registry` | the version of the metadata the registry has for each asset (external); version 0 is none |
| `rows`, `stored` | the Asset table and its metadata columns; `metadataHash` is a function of the metadata, so the version stands for both |
| `jobs` | the job table of pg-boss (external): `created`, `retry`, `active`; a job that is completed or has failed is gone |
| `runner["initial"]`, `runner["update"]` | the two subscriptions of `start`, which run the same handler |
| `runner["late"]` | a handler pg-boss no longer waits for (`TimesOut`), while it goes on |
| `Poll` | a subscription fetches a batch |
| `Fetch`, `ReadHashes` | the handler's first two awaits (lines 49, 50) |
| `FailMissing`, `Store`, `Publish` | the loop: `job.done(error)`, `addAssetMetadata`, `publishAfter` |
| `Finish`, `Rejects` | the handler's promise is fulfilled or rejected |
| `InsertRow`, `DeleteRow` | `ChainFollower.saveAsset` with a publication that succeeds, and the delete of a rollback; jobs that are lost on the way are `ChainFollower`'s |

The handler calls `done` for jobs that fail only. Whether pg-boss then completes
the jobs of a fulfilled batch or leaves them to expire is its own matter; the
safety run explores both (`Outcomes`), and the liveness run assumes what the code
assumes, that they are completed. pg-boss sets `retryLimit` to 1 for a job that
has a `retryDelay` only, as update jobs have. When a waiting job is due is left
open. `Matches` compares the plain assetId of a job with the assetIds of the query,
which have the prefix `\x`: it never holds.

Bounds: three job identifiers (reused when nothing refers to them), one late
handler, two versions, initial jobs without retries (`NoInitialRetry`: with three
hundred and sixty-five the counter only multiplies states; update jobs have
their one retry). `repeated` records the assets that two jobs or handlers worked
on at once: a job retried after it was served, a late handler, a row inserted
anew while a job of its predecessor lives. `UntilRepeated` stops the runs there.
`exhausted` records the assets whose last job ended without a successor.

### Properties and runs

| Run | Bounds | Properties |
|---|---|---|
| `worker` (1.2 million states, symmetric) | 2 assets, 3 jobs, 2 versions | `TypeOK`; `NeverForgotten`: each row has a job outstanding unless its retries are exhausted; `OneJob`: and no second one; `NoRegression`: no step overwrites a row with older metadata; `ImplementsMirror`: it implements `MetadataMirror`, below |
| `worker_live` | 1 asset | `Converges`: if the registry, the rows and the faults rest, rows get the registry's version |
| `rewrites` (violated) | 1 asset | `RewritesOnlyChanges` |

Two assets make a batch that is half done when it fails. Three jobs are one for each
asset and a successor; with all three in use a handler waits, which is the
bound's doing and cannot violate a safety property.

Fairness: handlers make progress, since their requests are answered; active jobs
nobody works on expire; a waiting job is polled again and again until it is
fetched (strong fairness: its subscription may be busy at times).

`rewrites` shows that the comparison meant for unchanged metadata never
succeeds, so each update job writes the row. It also hides a flaw: were the
comparison to succeed, the branch publishes no successor, and the asset would never
be updated again. This is the mutant of `Converges`.

### Proofs: `MetadataWorkerProofs.tla`

From `WorkerAssumption`: `WorkerTypeCorrect` and `NoRowIsForgotten`, for every
number of assets, jobs, versions and retries, and without the bound
`UntilRepeated`. `NeverForgotten` is preserved by a failing batch only because what
the handler has treated has a successor or has failed already, and by `Publish` only
because the job and its asset belong together: `BatchOfQueue` says both, as long as the
job is in the table; `Batches` ties the loop to its batch; `HashesInHex` keeps the
branch without successor unreachable. `WorkerInv` is their conjunction, with one
lemma for each action.

`WorkIsNotMultiplied` proves `OneJob`. It needs `Treating`: what a handler still has to
treat of an unrepeated asset is an active, unserved job of that asset, so that
the job it publishes takes the place of the only other one; and `LateBatch`, since a
late handler may fail a job that is in other hands: the identifier is still that of
the same asset. `MetadataNeverRegresses` proves `NoRegression`, from `Fresh`: what was found
and is still to be stored is not older than the row. A fetch makes it true
because the registry only goes forward (`Past`); another handler's write cannot make it
false because, by `OneJob` and `Treating`, there is no other handler with that asset.
`OneJobInv` and `FreshInv` add these to `WorkerInv`.

### What the worker promises: `MetadataMirror.tla`

The abstract specification has no queue. Each asset with a row is watched, or has
been given up; only who watches an asset writes its metadata, a version that the
registry has had and none older than the row's; `Attend` ends a watch only by giving
it up, and takes up a new one only of an asset in `repeated`. `Mirror` is the mapping:
an asset is watched while a job of it is outstanding, and given up when it is
`exhausted`. Expiries, retries, rejected batches, crashes and handlers that are late
all are stutters or steps of `Attend`.

The run `worker` checks the refinement; `WorkerMirrorsRegistry` proves it, for any
number of assets, jobs, versions and retries and without the bound
`UntilRepeated`. Its step simulation has one lemma for each action and rests on `FreshInv`:
a handler's write is an `Update` because the job it holds is outstanding
(`Treating`) and what it found is not older than the row (`Fresh`), and a job is
published in place of the one that was served.

## 5. The background process: `Background.tla`

`ChainFollower` and `MetadataWorker` take for granted that somebody starts
them. This module is about that: what `background.ts` does with the events of
`Db`, and what happens to the modules' `state` fields when several runs of
`onDbSetup` interleave. It abstracts the two others to the calls that start and
stop them.

### Correspondence

| Model | Code |
|---|---|
| `task[t]` | a run of `onDbSetup` (`Setups`), or of the chain follower's `onClose` (`"close"`), as the call it is about to make or awaits |
| `hasura`, `metadata`, `follower` | the `state` of the three modules |
| `applying` | `applyingSchemaAndMetadata` |
| `working` | `Worker.start` has been reached; its `state` never leaves `initialized` |
| `listener` | `Db`: not connected yet, listening, connection lost, `init` failed |
| `dbsync`, `migrated`, `tracked` | cardano-db-sync and its schema, and what the Hasura commands have done to the database |
| `alive`, `Exit`, `Restart` | `process.exit` or an unhandled rejection, and docker-compose's `restart: on-failure` |
| `Connected`, `Reconnected`, `DbInit`, `DbSetup` | the events of the listener and what they call |
| `EnterHasura` to `ReadEpochs` | `HasuraBackgroundClient.initialize`, whose migrations are four commands of the Hasura CLI that may fail and are retried (`CliFails`) |
| `EnterMetadata` to `Resumed` | the other awaits of `onDbSetup`, each with the early return or the error of its `state` |
| `OgmiosCloses` | `onClose`: `shutdown`, which throws when the follower is not running, then a task that initializes and starts it again |
| `GivesUp`, `Crash` | an exhausted retry of a query that cannot succeed; any exit |
| `settled` | a history variable: faults have ended (`Settle`) |

The query of the epochs and that of the resume point succeed when the
migrations and the metadata are in place (`Queryable`); whether there is a
block for the resume point is the subject of `ChainFollower`. `shutdown` of the
follower is one step. A notification is lost unless the listener is listening.
A listener that has lost its connection may get it back at any time and
then emits `connected`.

### Properties, run and bounds

The run `background` (78,052 states) checks `TypeOK`; `MigrationsExclusive`: no
two tasks are in the commands of the Hasura CLI, although `onDbInit` resets the
state that guards `initialize`, so that the second flag is what excludes them;
`NeverStranded`: when the follower does not run, some task is on its way to run
it, because every early return of an `initialize` is made by a task that goes on
to `start`; and `Stabilises`: once faults end, the process comes to run with all
modules initialized and the schema in place.

`Stabilises` is the changelog's promise that the service is immune to the schema
being removed when cardano-db-sync restarts. What keeps it is drastic: a `db-setup` over a
running follower reaches `start`, which throws, and the process exits and comes
up anew. The run shows that this ends: there is no loop of exits that goes on
without faults. The exits by the code itself (`GivesUp`, `EnterStart`) are
therefore not faults, and may happen after `Settle`.

Neither property claims anything when `Db.init` failed (`listener = "failed"`):
it logs the error and leaves a process that lives and hears nothing.

Bounds: two runs of `onDbSetup` at a time and one of `onClose`. Two are what it takes for one to pass
the other in an early return, with `onClose` as the third; the same
properties hold with three (1.2 million states, two minutes), which
the run leaves out for its length. An event that finds no free run waits.

Fairness (`FairSpec`): an awaited call returns or is retried, a lost connection
is made again, cardano-db-sync comes up, docker-compose restarts the process.

### Proofs: `BackgroundProofs.tla`

For every set `Setups`: `BackgroundTypeCorrect`, `OneMigration` and
`SomethingRuns`, of `Spec`. `MigrationsExclusive` is not inductive: `EnterHasura` must
know that no task is in the commands when `applying` is unset (`CliApplies`),
and `Track` that the task that unsets it was the only one. `NeverStranded` is
inductive with the types: each step of a task leaves it with a next one, runs the follower, or
ends the process; only `OgmiosCloses` stops the follower, and it starts a task.

## 6. The server process: `CardanoNodeClient.tla`, `ServerProcess.tla`

`ServerProcess` extends `CardanoNodeClient`: the node client with its
`DataFetcher` is one module, and `main`, the sync progress timer, signals and
restarts are the other.

### Correspondence

| Model | Code |
|---|---|
| `task["main"]`, `task[h]` | `main` of `server/src/index.ts`, and a run of `onClose`, as the call each is about to make or awaits |
| `client`, `query`, `tx` | `CardanoNodeClient.state`, and the interaction contexts of its two clients |
| `socket[c]` | the WebSocket of a context: open, closing at somebody's request, closed |
| `timer`, `leaked`, `isFetching`, `inflight`, `value` | `DataFetcher`: the timer, one that was overwritten while it ran, the guard of `fetch`, who waits for `fetchFn`, and whether it ever answered |
| `BeginFetch`, `EndFetch` | `DataFetcher.initialize`: the first fetch, whose error is swallowed, and `setIntervalAsync` |
| `Connect`, `TipAnswered`, `TipCutOff`, `TipUnavailable` | the function `pRetry` repeats: a new context, the state query client, the tip, the submission client on the same context |
| `SocketCloses`, `Cleared`, `QueryShut`, `TxShut` | `onClose`: `shutdown` cut at its awaits, then `initialize` |
| `Configure` to `Listen`, `MainFails` | `main`: `Server.init`, `HasuraClient.initialize`, `Server.start`; an error is logged and the process lives on |
| `Tick`, `TickEnds`, `Signal`, `Die` | the progress timer; `onDeath`, which waits in `Server.shutdown` for the timer's callback |
| `Exit`, `Restart` | any exit, and docker-compose |
| `settled` | a history variable: faults have ended |

When the code closes a socket itself it does so with code 1000, and `onClose`
returns at once; a socket the other side closes runs it. Every handler calls
`shutdown` and `initialize` of the same object, and both return early when
somebody else is in them, so the question of this module is what several closes
in a row leave behind.

### Properties, run and bounds

The run `server` (494,908 states) has three contexts and two handlers, and all
faults. Two handlers are one that passes the other; three contexts are one that
each of them and the newest client may hold. The attempt that fails with its
context left open (`TipUnavailable`) may leave one behind at a time.

* `OneFetch`: no two fetches of the node's health at a time, although timers leak.
* `NeverCutOff`: when no task is at work on the client, it is initialized, over
  two open sockets, with a timer that polls.
* `ListensWhenReady`: HTTP is served only with a Hasura schema and an
  initialized node client. It says nothing of an initialization under way again.
* `Serves` and `Dies`: once faults end, the process listens over a connected
  client with a known health, unless `main` failed and only logged it; and a
  signal ends it, also one that comes while the callback clears the timer that
  `shutdown` waits for.

Fairness: awaited calls return, timers tick, docker-compose restarts a process
that has exited; a health fetch that is repeated for ever succeeds at some time
(strong fairness on `EndPoll` with a value).

What the code does not do, and the properties therefore do not say: a timer that
`initialize` overwrites while it runs is never cleared (`leaked`), so the health
is polled more often than configured; a first fetch that fails leaves the health
undefined until the next tick; a `main` that fails stays as a process that serves
nothing, which docker-compose does not restart.

### Proofs: `ServerProcessProofs.tla`

For every set of contexts and handlers: `ServerTypes`, `ServerFetchesOnce`,
`ServerListensWhenReady` and `ServerNeverCutOff`, all from
`ServerInvariant == Spec => [](TypeOK /\ ClientInv)`. `NeverCutOff` alone is far
from inductive. A socket that is closing is in the hands of a task (`Owning`), which is
why a handler that finds it closing may ignore it; a client in
"initializing" has some task that will connect, or waits for the tip on the
newest context (`Attempted`) — early returns rely on this; an initialized client
that nobody shuts down has an open submission socket, and an open query socket
or somebody who replaces it (`Ready`); and a timer is only cleared by a handler that
will start it again (`Timed`). `FetchGuard` ties `isFetching` to who fetches,
and `MainOrder` says how far `main` must be. There is one lemma for each action.

## 7. What the server answers: `Resolvers.tla`, `QueryComplexity.tla`, `Requests.tla`

`Resolvers` has the resolvers of `executableSchema.ts`, the requests of
`HasuraClient.ts` they rest on and the progress timer of `Server`, over a database
that cardano-db-sync and the background process write meanwhile, and through a Hasura
that does not always answer.
`QueryComplexity` has the estimators of `queryComplexity.ts` as operators, and a
client who writes a query part by part. `Requests` composes the two: the timer's
query goes through the complexity plugin, as do those of clients.

What recurses in the code (the conditions of a `where`, the terms of an order, the
fields of a selection, the outputs of an address) is defined by recursive functions.
Those of `QueryComplexity` are indexed by the depth of nesting, which `MaxParts`
bounds: a query of that many parts is nested no deeper. `Sums` has the sum of a
sequence.

### Correspondence

A resolver changes nothing, so it is an operator on the state (`AdaSupply`, `Meta`,
`PaymentAddressSummary`, and `Delegated` for the fields that are handed to Hasura as
they are: of these the timer's two counts are in use). What takes several requests is a sequence
of actions: a tick of the timer asks for the node's tip, the meta data and two
counts, each at a state of its own (`TickBegins`, `AskTip`, `AskMeta`,
`AskAssets`, `AskMints`, `TickEnds`). One request of Hasura is answered from one
snapshot of PostgreSQL; this is an assumption about Hasura.
`FetchPots` is a poll of the ada pots that is answered; one that fails changes nothing.
`hasura` says whether Hasura answers (`HasuraTurns`): it may be down, or have its
metadata cleared, between any two requests, of which some then fail. `connected` abstracts the node
client of section 6, and `timer` is the `progress` of that module.

A sum over no rows is null. `new BigNumber(null)` is NaN, and so is what is added
to it (`NaN`). An `atBlock` of 0 is falsy in the code, and bounds nothing.
`tick.mostIndexed` and `tick.fewestMinted` are history variables; so is
`weights`, which counts the parts of a query as they are written.

### Properties, run and bounds

The run `requests` (518,804 states):

* `CostIsTheWeight`: the recursive cost of a query is what its parts weigh,
  however they are nested: each condition, term and field once, and the pages of a root
  field's offset. What weighs nothing is stated in the property: the arguments of fields
  below the root (`Asset.tokenMints` has a `where`, an `offset` and an `order_by` of its
  own), for which the code has no estimator. The client of the model gives them
  (`GiveArgument`).
* `NeverCheaper`: no part added makes a query cheaper, unless the root field it is
  added to has an offset of -100 or less. `offset` is an `Int`, and
  `calculateOffsetComplexity` gives -5 for -500, so that the root field's cost is
  negative and lowers the sum; the run has such an offset, one that still costs
  nothing (-99) and one of two pages. (The model adds comparisons whole: an `_in` that is emptied of
  its values does get cheaper, as its cost is its length.)
* `AdaStaysReady`: `ada` is never again not ready once it was. `AdaFollows`: once the
  database rests, with pots to read, it comes to be the supply of that database and stays
  so, whatever polls failed or read a chain that was rolled back. Whether that supply is
  right is the database's matter; a sum over no rows makes it NaN until a later poll.
* `SummaryAdds`: the summary of an address credits each unspent output once, in
  ada and in each token, unless there are more than Hasura's limit of rows.
  The count of outputs comes from an aggregate, which the limit does not cut.
* `ReadyHonest`: the timer is not cleared too early. The obvious form, that the
  index is complete when it is cleared, does not hold: the counts are of
  different states. What holds is that at some moment of the tick it had 99.5 % of the
  assets of some moment of it.
* `Stops`: it is cleared once the database stays in sync. This includes that its
  query passes the complexity plugin, which also sees it: the query costs ten, so
  with a smaller `MAX_QUERY_COMPLEXITY` the timer would ask for ever.

Bounds: three blocks, each of an epoch of its own, the first without ada pots and the
last two with rewards, of which some are withdrawn in the last, so that pots are
read before their epoch, in it and after a rollback; two to four hundred assets, as
99 % has to be told from 100 %; outputs of one address that are spent, that
share assets and that exceed a limit of two rows; queries of five parts,
written before anything else happens (`Untouched`), since the cost depends on
nothing else. A rollback never removes the first block.

Fairness: both timers call back, and a request is answered or fails. A poll of the pots
is weakly fair while they can be read, which is when its request is answered.

### Proofs: `ResolversProofs.tla`, `RequestsProofs.tla`

All safety properties of the run are proved, of every chain, address and query:

* `AnswersTypes`, `SummaryIsExact`, `AdaNeverUnready` and `TimerIsHonest`, of
  `DataSpec`, the resolvers by themselves. `DataInv` is their inductive
  invariant. `ReadyHonest` needs `Witnessed`: what a tick has read lies between the
  history variables, and so does what it would read at any later state of the tick. The
  rest of that proof is arithmetic: a share that rounds to 100 per cent is at least 99.5.
* `SummaryIsExact` goes by induction over the outputs and, within, over the tokens of
  one: what the map holds of an asset after each is the sum of the quantities so far
  (`CreditedHolds`, `CreditedAllHolds`, `BalancesHold`); and the rows of the query are the
  unspent outputs, none twice.
* `CostIsExact` and `MoreIsNeverCheaper`, of `Spec`. `QueryInv` is inductive: a root
  field is nested no deeper than its parts are many, and `weights` is what its
  conditions, terms, fields and offset cost, for offsets of either sign and fields with
  any number of arguments. It needs that nesting deeper changes no
  cost (`WhereCostsNest`, `PricedCostsNest`) and what each edit adds (`FilterGrows`,
  `WhereGrows`, `PriceGrows`, `PriceOfArguments`).
* `RequestsAreAnswers`: `Requests` implements `Resolvers` (`Spec => DataSpec`), so that
  `RequestsAreSafe` (`TypeOK`, `SummaryAdds`) and `RequestsAreHonest` (`AdaStaysReady`,
  `ReadyHonest`) carry the properties over.

The assumptions are on the data: `ChainAssumption` (epochs and mints only grow along a
chain), `SupplyAssumption` (the sums are natural numbers),
`OutputsAssumption` (no assetId is "ada", as one is hexadecimal and has a policy of 56
digits) and `QueryAssumption` (a price list of the comparisons in use, which the weights count
by). TLC evaluates them on the run's instance.

The library's induction takes a predicate as a parameter. `ResolversProofs` has the two
facts it needs instead: `SetInduction`, where the predicate is the set of the
numbers that have it, and `Recursion`, that a function defined by recursion over
0..n exists, which is what a proof about a recursive function must know first.

Met on the way, and left to a reader of the code: the `catch` of the ada pots' fetch function
never runs, since the promise in its `try` is returned and not awaited;
`cardanoDbMeta` likewise returns `getMeta` from a `try` without waiting for it
(`A/executableSchema.ts:250`), so its error reaches the client untranslated; `where: { x: null }`
makes the estimator throw (`A/queryComplexity.ts:82`).

## 8. The CLI: `DockerStore.tla`, `DockerStack.tla`

`DockerStore` has what the CLI keeps on the host and the commands `init` and
`cleanup`; `DockerStack` extends it with `snapshot` (make and restore) and
`rebuild-service`, which stop and start the stack around them. The user
may run docker-compose between commands, Docker may refuse a call, tar may fail,
and the process may be killed at each await.

### Correspondence

| Model | Code |
|---|---|
| `pc`, `removing` | the call the process waits for; `cleanup` waits for two at a time (`Promise.all`) |
| `workdir`, `compose`, `managed` | the `conf` file |
| `composeIn`, `secretsIn`, `snapshots`, `image` | files of the working directory, of the snapshots directory, and the utility image |
| `stack`, `volumes`, `data` | Docker: the state of the containers, the volumes and what is in them |
| `job`, `before`, `backup`, `services`, `picked`, `todo` | the command, its `beforeState` and arguments, and how far its loop has come |
| `EnsureImage`, `SetManaged` | `ensureUtilityImageAvailable` |
| `Stop` to `UpAfterSnapshot` | `makeSnapshot`, with its `finally` |
| `Down` to `UpAtEnd` | `restoreSnapshot` and `rebuildService` |
| `TarFails`, `UntarFails` | the utility container exits with a code that is not read |
| `RemoveCutShort` | the removal of volumes stops at its first error, which is logged |

What is in a volume is the set of moments its files were written at: one,
unless files of two moments were mixed, with 0 when some are missing. `spoilt`,
`torn`, `broken`, `lapse`, `cut` and `wanted` are history variables.

### Properties, run and bounds

The run `stack` (4.3 million states; two services that are alike, one directory,
one snapshot at a time, two moments) checks:

* `AtRest`: volumes are archived and extracted only while nothing runs;
* `Restored`: a restore whose removals succeeded leaves exactly the archived files, or
  tar has failed;
* `NeverMixed`: files of two moments come together only after a removal was cut short;
* `BackedUp`: a rebuild with backup removes nothing that no snapshot has, unless
  the backup failed;
* `Initialized`: a `conf` that says the compose file exists is right, unless a
  `cleanup` was torn;
* `ComesBack`: a command that found the stack up leaves it up, unless it was
  killed or Docker refused a call outside its `try`.

Two services are a loop that is interrupted half way. Two moments are data before and
after. `snapshots` may hold one archive at a time in the run, since a second one
is read by no command that reads the first.

Each "unless" is something the code does not repair: a rebuild goes on after a
failed backup; the exit code of tar is unread; the removal stops at the first volume
that is missing and swallows the error, so a restore repeated after a killed one
extracts over the files of the other volumes; restore has no `try`/`finally`; a
killed command leaves the stack down, and its repetition finds "down" to be the
state before; `restore --last` may pick a snapshot that a killed command left
incomplete; `init` in a second directory answers "Already initialized" and copies
nothing; the first rejection in `cleanup` ends the process while the other branch is
under way.

### Proofs: `DockerStackProofs.tla`

For any sets of services and directories and any bounds, all seven hold. The
properties are not inductive: that the volumes are at rest when tar runs is a
fact about what the command did several awaits before. `StackInv` adds

* `Jobs`: which steps each command passes, and what it knows on the way;
* `Resting`: from the call that stopped the stack to the one that starts it the
  stack is not up, so that no service writes in between;
* `Restoring`: a removal loop that was not cut short has emptied the volumes it
  passed, so that the extraction starts on empty volumes, and what it has passed
  holds the archive alone;
* `Past`: no file is of a later moment than now, so that what the services write
  next replaces what was wanted by something later;
* `Backing`: how much of what was wanted is still in the volumes and how much in
  the archive, step by step; `HasDirectory`: the archive is there;
* `Created`: `init` records a compose file after it wrote one.

There is one lemma per conjunct, with a step for each action that can disturb it.
`ComesBack` is an action property: it follows from `Jobs`, which says that a command
that found the stack up can end well only by way of `UpAgain`.

## 9. What is only model-checked

Liveness (`CatchesUp`, `Converges`, `Stabilises`, `Serves`, `Dies`, `Stops`, `AdaFollows`) is out of the
prover's reach, and so are the violations. Every other property of a run is also a theorem.

## 10. What is not modelled

`submitTransaction` reads the health of the node, which may be undefined or from before a
reconnection (`A/CardanoNodeClient.ts:123`), and submits; it changes no state
of the client. What a delegated field selects, and whether the tables of the Hasura metadata are all
that the schema needs, is between the SQL and Hasura. The scalars and the fingerprint are conversions of strings;
`client-ts`, `util-dev`, the Hasura project's SQL, nix, docs and configuration are data or
generated. `Worker.shutdown` only throws; `Db.shutdown`, `hasAsset`,
`getCurrentProtocolVersion` and `HasuraClient.shutdown` have no caller. The additional
queues of a `Worker.start` that is called twice are left out.
