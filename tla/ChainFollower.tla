---------------------------- MODULE ChainFollower ----------------------------
(***************************************************************************)
(* The asset indexer of cardano-graphql: the ChainFollower class           *)
(* (packages/api-cardano-db-hasura/src/ChainFollower.ts) with the parts of *)
(* HasuraBackgroundClient it calls.  It follows the chain of a             *)
(* cardano-node through an Ogmios chain-sync session, buffers the assets   *)
(* minted by each block, inserts them in the Asset table, and on           *)
(* a rollback deletes the rows above the rollback point.  After            *)
(* a restart, or when the connection closes, it resumes at a point it      *)
(* reads back from the Asset table joined with the Block table, which      *)
(* cardano-db-sync, another follower of the node, maintains.               *)
(*                                                                         *)
(* A chain maps each slot to the block in it, or to NoBlock; a block is    *)
(* the sequence of the assets its transactions mint.  A block hash commits *)
(* to the whole chain below the block, so two points match exactly when    *)
(* the chains agree up to their slot.  Slot 0 is the origin.               *)
(***************************************************************************)
EXTENDS Naturals, Sequences

CONSTANTS Assets,    \* assetIds (policy and name)
          Blocks,    \* block bodies: sequences of the assets they mint
          NoBlock,   \* what an empty slot holds
          MaxSlot    \* bound: the last slot of the modelled chain

ASSUME ChainAssumption ==
  /\ MaxSlot \in Nat
  /\ Blocks \subseteq Seq(Assets)
  /\ NoBlock \notin Blocks

Slots == 1..MaxSlot
Points == 0..MaxSlot
Chains == [Slots -> Blocks \cup {NoBlock}]
EmptyChain == [s \in Slots |-> NoBlock]

\* The connection in use, and the one before it, whose last handler may still
\* be waiting for Hasura when the new connection is made.
Sessions == {"current", "previous"}

\* Where the first appearance of each asset is recorded: 0 is "not recorded".
Records == [Assets -> Points]
NoRecord == [a \in Assets |-> 0]

\* What can break the index, and the code does not repair (see README):
\*   skipped     an insert fails and the rest of the block is not saved
\*   undeleted   the delete of a rollback fails and the session goes on
\*   stale       a rollback leaves entries above its point in the cache
\*   forked      the resume point is on a chain the rows do not come from
\*   overlap     a handler of the closed connection runs beside the new one
Causes == {"skipped", "undeleted", "stale", "forked", "overlap"}

\* What became of the asset-metadata-fetch-initial job of an asset.  Nothing awaits
\* its publication; "lost" is history: the row is there, and nothing asks again.
JobStates == {"none", "publishing", "published", "lost"}

VARIABLES
  chain,      \* the node's selected chain
  dbChain,    \* the Block table, maintained by cardano-db-sync
  view,       \* the blocks the chain-sync session has handed to the follower
  state,      \* RunnableModuleState of the ChainFollower
  resume,     \* progress of start(): the point asked for, then the intersection
  handler,    \* the chain-sync handler of each session
  cache,      \* cacheAssets: first slot of each asset in it
  table,      \* the Asset table: firstAppearedInSlot of each asset
  jobs,       \* of each asset, its JobStates
  lapses      \* history: the causes met so far

vars == <<chain, dbChain, view, state, resume, handler, cache, table,
          jobs, lapses>>
node == <<chain, dbChain>>
memory == <<state, resume, handler, cache>>

-----------------------------------------------------------------------------
(* Chains *)

Minted(block) == IF block = NoBlock THEN {} ELSE {block[i] : i \in DOMAIN block}
Upto(c, p) == [s \in Slots |-> IF s <= p THEN c[s] ELSE NoBlock]
Agree(c, d, p) == \A s \in Slots : s <= p => c[s] = d[s]
IsPoint(c, p) == p = 0 \/ (p \in Slots /\ c[p] # NoBlock)

\* s is the slot of the first block of d that c lacks; c is a prefix of d.
IsNext(c, d, s) == d[s] # NoBlock /\ c = Upto(d, s - 1)

\* p is the last point of c that is also on d.
IsFork(c, d, p) ==
  /\ IsPoint(c, p) /\ Agree(c, d, p)
  /\ \A q \in Points : IsPoint(c, q) /\ Agree(c, d, q) => q <= p

-----------------------------------------------------------------------------
(* The Asset table and the Block table.  Here and below, a definition marked *)
(* "Mistake" is one the properties are sensitive to: no action uses it.      *)

\* Mistake: a conflict overwrites the row.
UpsertRows(rows, batch) ==
  [a \in Assets |-> IF batch[a] # 0 THEN batch[a] ELSE rows[a]]

\* insertAssets: on a conflict on Asset_pkey no column is updated.
InsertRows(rows, batch) ==
  [a \in Assets |-> IF rows[a] # 0 THEN rows[a] ELSE batch[a]]

\* The rows insert_assets returns: those it created.
Returned(rows, batch) == {a \in Assets : rows[a] = 0 /\ batch[a] # 0}

\* Mistake: the rows of the point itself go too.
DeleteFromSlot(rows, p) == [a \in Assets |-> IF rows[a] >= p THEN 0 ELSE rows[a]]

\* deleteAssetsAfterSlot: firstAppearedInSlot _gt slotNo.
DeleteAfterSlot(rows, p) == [a \in Assets |-> IF rows[a] > p THEN 0 ELSE rows[a]]

\* getMostRecentPointWithNewAsset orders the rows by the slot of the block they
\* join with, descending: rows without a block (null) come first.
Rows == {a \in Assets : table[a] # 0}
Lagging(a) == dbChain[table[a]] = NoBlock
Before(a, b) == Lagging(a) \/ (~Lagging(b) /\ table[a] >= table[b])

\* Mistake: an offset of 0.
FirstRow(b) == b \in Rows /\ \A c \in Rows : Before(b, c)

\* limit 1, offset 1.
SecondRow(b) ==
  \E a \in Rows : /\ b \in Rows \ {a}
                  /\ Before(a, b)
                  /\ \A c \in Rows \ {a} : Before(b, c)

-----------------------------------------------------------------------------
(* Types and the initial state *)

\* Mistake: the loop over the mints starts one too early.
IdleAtZero == [step |-> "idle", slot |-> 0, block |-> <<>>, next |-> 0,
               atTip |-> FALSE, batch |-> NoRecord, returned |-> {}]

Idle == [step |-> "idle", slot |-> 0, block |-> <<>>, next |-> 1,
         atTip |-> FALSE, batch |-> NoRecord, returned |-> {}]

NoResume == [step |-> "none", slot |-> 0, on |-> EmptyChain]

Handlers ==
  [step : {"idle", "mint", "insert", "inserted", "delete"},
   slot : Points, block : Blocks \cup {<<>>}, next : Nat \ {0},
   atTip : BOOLEAN, batch : Records, returned : SUBSET Assets]

Init ==
  /\ chain = EmptyChain /\ dbChain = EmptyChain /\ view = EmptyChain
  /\ state = "null" /\ resume = NoResume
  /\ handler = [h \in Sessions |-> Idle]
  /\ cache = NoRecord /\ table = NoRecord
  /\ jobs = [a \in Assets |-> "none"] /\ lapses = {}

-----------------------------------------------------------------------------
(* The cardano-node and cardano-db-sync (external) *)

ForgeBlock ==
  \E s \in Slots, b \in Blocks :
    /\ \A r \in Slots : r >= s => chain[r] = NoBlock
    /\ chain' = [chain EXCEPT ![s] = b]
    /\ UNCHANGED <<dbChain, view, memory, table, jobs, lapses>>

SwitchFork ==
  \E p \in Points :
    /\ IsPoint(chain, p)
    /\ chain # Upto(chain, p)
    /\ chain' = Upto(chain, p)
    /\ UNCHANGED <<dbChain, view, memory, table, jobs, lapses>>

DbSyncForward ==
  \E s \in Slots :
    /\ IsNext(dbChain, chain, s)
    /\ dbChain' = Upto(chain, s)
    /\ UNCHANGED <<chain, view, memory, table, jobs, lapses>>

DbSyncBackward ==
  \E p \in Points :
    /\ IsFork(dbChain, chain, p)
    /\ dbChain # Upto(dbChain, p)
    /\ dbChain' = Upto(dbChain, p)
    /\ UNCHANGED <<chain, view, memory, table, jobs, lapses>>

-----------------------------------------------------------------------------
(* Starting and resuming *)

\* The part of initialize that is not the connection attempt of pRetry, whose
\* failures only delay it.
Initialize ==
  /\ state = "null"
  /\ state' = "initialized"
  /\ UNCHANGED <<node, view, resume, handler, cache, table, jobs, lapses>>

\* getChainSyncPoints: the point of the second row, or the origin when there is
\* none; while the second row joins no block the query is retried.
AskPoint ==
  /\ state = "initialized" /\ resume.step = "none"
  /\ \/ /\ ~ \E b \in Rows : SecondRow(b)
        /\ resume' = [step |-> "asked", slot |-> 0, on |-> EmptyChain]
     \/ \E b \in Rows :
          /\ SecondRow(b) /\ ~Lagging(b)
          /\ resume' = [step |-> "asked", slot |-> table[b],
                        on |-> Upto(dbChain, table[b])]
  /\ lapses' = IF handler["previous"].step = "idle" THEN lapses
               ELSE lapses \cup {"overlap"}
  /\ UNCHANGED <<node, view, state, handler, cache, table, jobs>>

\* start: resume([point, 'origin']).  The session continues from the point if it
\* is on the node's chain, from the origin otherwise.
Start ==
  /\ state = "initialized" /\ resume.step = "asked"
  /\ LET onChain == Agree(resume.on, chain, resume.slot)
         p == IF onChain THEN resume.slot ELSE 0
     IN  /\ resume' = [step |-> "agreed", slot |-> p, on |-> EmptyChain]
         /\ view' = [s \in Slots |-> IF s <= p THEN chain[s] ELSE view[s]]
         /\ lapses' = IF Agree(view, chain, p) THEN lapses
                      ELSE lapses \cup {"forked"}
  /\ state' = "running"
  /\ UNCHANGED <<node, handler, cache, table, jobs>>

\* onClose with a code other than 1000: shutdown.  initialize and start follow.
\* Bound: at most one handler of a closed connection is still running.
ConnectionCloses ==
  /\ state = "running"
  /\ handler["previous"].step = "idle"
  /\ handler' = [h \in Sessions |->
                    IF h = "previous" THEN handler["current"] ELSE Idle]
  /\ state' = "null"
  /\ resume' = NoResume
  /\ UNCHANGED <<node, view, cache, table, jobs, lapses>>

\* The assets whose rows a handler was told of, and no job was asked for.
Unasked(r) == {a \in r.returned : jobs[a] = "none"}
Lost(assets) == [a \in Assets |-> IF a \in assets THEN "lost" ELSE jobs[a]]

\* The process exits (a signal, exhausted retries, a rejection nothing handles such
\* as that of a shutdown that is not 'running', or of a publish) and is restarted:
\* memory is lost, and so are the requests to publish that were not answered.
Crash ==
  /\ state' = "null"
  /\ resume' = NoResume
  /\ handler' = [h \in Sessions |-> Idle]
  /\ cache' = NoRecord
  /\ jobs' = Lost({a \in Assets : jobs[a] = "publishing"}
                     \cup UNION {Unasked(handler[h]) : h \in Sessions})
  /\ UNCHANGED <<node, view, table, lapses>>

-----------------------------------------------------------------------------
(* rollForward and saveAsset *)

\* What the server of the session believes the follower has.
Cursor == IF resume.step = "agreed" THEN Upto(view, resume.slot) ELSE view

SessionIdle == state = "running" /\ handler["current"].step = "idle"

\* The handler after it has saved its current asset.
Advance(r) == IF r.next < Len(r.block)
              THEN [r EXCEPT !.step = "mint", !.next = @ + 1,
                             !.batch = NoRecord, !.returned = {}]
              ELSE Idle

RollForward ==
  /\ SessionIdle /\ resume.step = "none"
  /\ \E s \in Slots :
       /\ IsNext(view, chain, s)
       /\ view' = Upto(chain, s)
       /\ handler' = [handler EXCEPT !["current"] =
            IF chain[s] = <<>> THEN Idle
            ELSE [Idle EXCEPT !.step = "mint", !.slot = s, !.block = chain[s],
                              !.atTip = (chain = Upto(chain, s))]]
  /\ UNCHANGED <<node, state, resume, cache, table, jobs, lapses>>

\* Assets pushed after the first entry of the same asset are shadowed by it: one
\* insert keeps the first of several rows with the same key.
Push(c, a, s) == IF c[a] = 0 THEN [c EXCEPT ![a] = s] ELSE c

\* Mistake: the cache is emptied before the insert is answered.
SaveAssetClearing(h) ==
  LET r == handler[h]
      pushed == Push(cache, r.block[r.next], r.slot)
  IN  /\ r.step = "mint"
      /\ \E due \in BOOLEAN :
           /\ cache' = IF r.atTip \/ due THEN NoRecord ELSE pushed
           /\ handler' = [handler EXCEPT ![h] =
                IF r.atTip \/ due
                THEN [r EXCEPT !.step = "insert", !.batch = pushed]
                ELSE Advance(r)]
      /\ UNCHANGED <<node, view, state, resume, table, jobs, lapses>>

\* Mistake: the tip is not recognised.
SaveAssetWhenDue(h) ==
  LET r == handler[h]
      pushed == Push(cache, r.block[r.next], r.slot)
  IN  /\ r.step = "mint"
      /\ cache' = pushed
      /\ \E due \in BOOLEAN :
           handler' = [handler EXCEPT ![h] =
             IF due THEN [r EXCEPT !.step = "insert", !.batch = pushed]
             ELSE Advance(r)]
      /\ UNCHANGED <<node, view, state, resume, table, jobs, lapses>>

\* saveAsset up to the await: push, and flush at the tip or when it is due.
\* due stands for "more than 1000 assets in the cache or 60 s since the last
\* flush".
SaveAsset(h) ==
  LET r == handler[h]
      pushed == Push(cache, r.block[r.next], r.slot)
  IN  /\ r.step = "mint"
      /\ cache' = pushed
      /\ \E due \in BOOLEAN :
           handler' = [handler EXCEPT ![h] =
             IF r.atTip \/ due
             THEN [r EXCEPT !.step = "insert", !.batch = pushed]
             ELSE Advance(r)]
      /\ UNCHANGED <<node, view, state, resume, table, jobs, lapses>>

\* Hasura commits the insert.
InsertAssets(h) ==
  LET r == handler[h]
  IN  /\ r.step = "insert"
      /\ table' = InsertRows(table, r.batch)
      /\ handler' = [handler EXCEPT ![h] =
           [r EXCEPT !.step = "inserted", !.returned = Returned(table, r.batch)]]
      /\ UNCHANGED <<node, view, state, resume, cache, jobs, lapses>>

Published(assets) ==
  [a \in Assets |-> IF a \in assets /\ jobs[a] # "published" THEN "publishing" ELSE jobs[a]]

\* Mistake: a job for the asset that is saved, not for each row that was created.
InsertReturnsPublishingOne(h) ==
  LET r == handler[h]
  IN  /\ r.step = "inserted"
      /\ cache' = NoRecord
      /\ jobs' = Published(r.returned \cap {r.block[r.next]})
      /\ handler' = [handler EXCEPT ![h] = Advance(r)]
      /\ UNCHANGED <<node, view, state, resume, table, lapses>>

\* saveAsset after the await: publish is called for each row created, whether the
\* queue is started or not, and not awaited.
InsertReturns(h) ==
  LET r == handler[h]
  IN  /\ r.step = "inserted"
      /\ cache' = NoRecord
      /\ jobs' = Published(r.returned)
      /\ handler' = [handler EXCEPT ![h] = Advance(r)]
      /\ UNCHANGED <<node, view, state, resume, table, lapses>>

\* pg-boss stores the job (external).
PublishSucceeds(a) ==
  /\ jobs[a] = "publishing"
  /\ jobs' = [jobs EXCEPT ![a] = "published"]
  /\ UNCHANGED <<node, view, memory, table, lapses>>

\* It rejects, as a queue that is stopped or not started yet does: nothing catches
\* it.  Node.js goes on before version 15; later ones exit, which is a Crash.
PublishFails(a) ==
  /\ jobs[a] = "publishing"
  /\ jobs' = Lost({a})
  /\ UNCHANGED <<node, view, memory, table, lapses>>

\* The assets of its block that a handler has yet to save.
Unsaved(r) ==
  {r.block[i] : i \in {j \in DOMAIN r.block :
      \/ r.step = "mint" /\ j >= r.next
      \/ r.step \in {"insert", "inserted"} /\ j > r.next}}

\* insertAssets rejects, its rows committed or not: the catch of rollForward
\* ends the block and requestNext asks for the next one.
InsertFails(h) ==
  LET r == handler[h]
  IN  /\ r.step \in {"insert", "inserted"}
      /\ handler' = [handler EXCEPT ![h] = Idle]
      /\ lapses' = lapses \cup (IF Unsaved(r) = {} THEN {} ELSE {"skipped"})
      /\ jobs' = Lost(Unasked(r))
      /\ UNCHANGED <<node, view, state, resume, cache, table>>

-----------------------------------------------------------------------------
(* rollBackward *)

RollBackward ==
  /\ SessionIdle
  /\ \E p \in Points :
       /\ IsFork(Cursor, chain, p)
       /\ resume.step = "agreed" \/ view # Upto(view, p)
       /\ handler' = [handler EXCEPT !["current"] =
                        [Idle EXCEPT !.step = "delete", !.slot = p]]
  /\ UNCHANGED <<node, view, state, resume, cache, table, jobs, lapses>>

\* The session, or the one it replaces until start resumes, is at slot p.
Rewind(h, p) ==
  /\ view' = IF h = "current" \/ state # "running" THEN Upto(view, p) ELSE view
  /\ resume' = IF h = "current" THEN NoResume ELSE resume
  /\ handler' = [handler EXCEPT ![h] = Idle]

Cached(p) == \E a \in Assets : cache[a] > p
Present(p) == \E a \in Assets : table[a] > p

DeleteAssets(h) ==
  LET p == handler[h].slot
  IN  /\ handler[h].step = "delete"
      /\ table' = DeleteAfterSlot(table, p)
      /\ Rewind(h, p)
      /\ lapses' = lapses \cup (IF Cached(p) THEN {"stale"} ELSE {})
      /\ UNCHANGED <<node, state, cache, jobs>>

\* deleteAssetsAfterSlot rejects: nothing catches it and requestNext is not
\* called, but the other requests of the session are in flight.
DeleteFails(h) ==
  LET p == handler[h].slot
  IN  /\ handler[h].step = "delete"
      /\ Rewind(h, p)
      /\ lapses' = lapses \cup (IF Cached(p) THEN {"stale"} ELSE {})
                          \cup (IF Present(p) THEN {"undeleted"} ELSE {})
      /\ UNCHANGED <<node, state, cache, table, jobs>>

-----------------------------------------------------------------------------
Handle(h) ==
  SaveAsset(h) \/ InsertAssets(h) \/ InsertReturns(h) \/ DeleteAssets(h)

Faults ==
  \/ Crash
  \/ ConnectionCloses
  \/ \E h \in Sessions : InsertFails(h) \/ DeleteFails(h)
  \/ \E a \in Assets : PublishFails(a)

Next ==
  \/ ForgeBlock \/ SwitchFork \/ DbSyncForward \/ DbSyncBackward
  \/ Initialize \/ AskPoint \/ Start
  \/ RollForward \/ RollBackward
  \/ \E h \in Sessions : Handle(h)
  \/ \E a \in Assets : PublishSucceeds(a)
  \/ Faults

Spec == Init /\ [][Next]_vars

\* Every call the follower awaits is answered in the end, messages are delivered, and
\* cardano-db-sync catches up; faults, forging and switching forks may stop.
Fairness ==
  /\ WF_vars(DbSyncForward) /\ WF_vars(DbSyncBackward)
  /\ WF_vars(Initialize) /\ WF_vars(AskPoint) /\ WF_vars(Start)
  /\ WF_vars(RollForward) /\ WF_vars(RollBackward)
  /\ \A h \in Sessions : WF_vars(Handle(h))

FairSpec == Spec /\ Fairness

-----------------------------------------------------------------------------
(* Properties *)

\* The variables keep the shapes above.
TypeOK ==
  /\ chain \in Chains /\ dbChain \in Chains /\ view \in Chains
  /\ state \in {"null", "initialized", "running"}
  /\ resume \in [step : {"none", "asked", "agreed"}, slot : Points, on : Chains]
  /\ handler \in [Sessions -> Handlers]
  /\ cache \in Records /\ table \in Records
  /\ jobs \in [Assets -> JobStates]
  /\ lapses \subseteq Causes

\* None of the causes has occurred.
Intact == lapses = {}

\* No block mints more than two assets: then an offset of one row suffices.
SmallBlocks == \A b \in Blocks : Len(b) <= 2

Recorded(rec, a, s) == 0 < rec[a] /\ rec[a] <= s

\* Asset a, minted in slot s, is still to be saved by the handler of that block.
Awaited(a, s) ==
  \E h \in Sessions : handler[h].slot = s /\ a \in Unsaved(handler[h])

\* The follower is between its first rollback and a crash: its memory and the
\* table together hold what it was given.
Tracking ==
  \/ state = "running" /\ resume.step = "none"
  \/ \E h \in Sessions : handler[h].step \in {"mint", "insert", "inserted"}

\* NothingMissed: every asset minted by a block the follower has been given is in
\* the table or in the cache, under a slot not later than that block's, or is
\* about to be saved by the running handler.  It relies on rollForward,
\* saveAsset, rollBackward and on the resume point of
\* getMostRecentPointWithNewAsset.
NothingMissed ==
  (Intact /\ SmallBlocks /\ Tracking) =>
    \A s \in Slots : \A a \in Minted(view[s]) :
      Recorded(table, a, s) \/ Recorded(cache, a, s) \/ Awaited(a, s)

\* FirstAppearance: a row's slot holds a block that mints the asset (rollBackward
\* leaves no row of an abandoned block behind), and every asset minted in an
\* earlier slot has a row at least as old: no row is ahead of a missing one, and
\* firstAppearedInSlot is really the first.
FirstAppearance ==
  (Intact /\ SmallBlocks) =>
    \A a \in Rows :
      /\ a \in Minted(view[table[a]])
      /\ \A s \in Slots : s < table[a] =>
           \A b \in Minted(view[s]) : Recorded(table, b, s)

\* ResumeSkipsNothing: at the point read for start, while it is on the chain the
\* rows come from, no asset of the blocks up to it lacks its row, so following
\* the chain from there misses nothing.
ResumeSkipsNothing ==
  (Intact /\ SmallBlocks
     /\ (resume.step = "asked" => Agree(resume.on, view, resume.slot))) =>
    \A s \in Slots : s <= resume.slot =>
      \A a \in Minted(view[s]) : Recorded(table, a, s)

\* JobForRow: a row is without its metadata job only in the two windows of saveAsset
\* that the code leaves open: the handler that was told of the row has yet to publish,
\* or was cut there; or publish was called, not awaited, and has yet to be answered,
\* was rejected or was cut.  Whatever is inserted, deleted and inserted again, by
\* which handler and in which batch, no other row is passed over.
JobForRow ==
  \A a \in Rows : \/ jobs[a] \in {"publishing", "published", "lost"}
                  \/ \E h \in Sessions : a \in handler[h].returned

\* The abstract specification: the chain followed is what the session has handed
\* over, and the promise holds until a lapse.
Promise == INSTANCE AssetIndex WITH
           followed <- view, rows <- table, reliable <- Intact /\ SmallBlocks

\* ImplementsIndex: through restarts, closed connections and failing requests the
\* Asset table changes only by first appearances in the order of the chain, added
\* behind a block handed over, and by rollbacks that take exactly the rows of the
\* blocks they abandon (saveAsset, insertAssets, rollBackward).
ImplementsIndex == Promise!Spec

-----------------------------------------------------------------------------
(* The inductive invariant *)

Saving == {"mint", "insert", "inserted"}

\* What the control points of the code imply about each other.
Control ==
  /\ \A h \in Sessions : LET r == handler[h] IN
       /\ r.step = "idle" => r = Idle
       /\ r.step \in Saving => r.next <= Len(r.block) /\ r.slot \in Slots
       /\ r.step # "inserted" => r.returned = {}
  /\ handler["current"].step # "idle" => state = "running"
  /\ handler["current"].step \in Saving => resume.step = "none"
  /\ state = "null" => resume.step = "none"
  /\ resume.step = "asked" => state = "initialized"
  /\ resume.step = "agreed" => state = "running"
  /\ resume.step = "none" => resume = NoResume
  /\ resume.step = "agreed" /\ handler["current"].step = "delete"
       => handler["current"].slot <= resume.slot
  /\ Intact /\ (state = "running" \/ resume.step # "none")
       => handler["previous"].step = "idle"

\* A handler saves the last block of the view.
AtHead ==
  Intact => \A h \in Sessions : handler[h].step \in Saving =>
    /\ view[handler[h].slot] = handler[h].block
    /\ view = Upto(view, handler[h].slot)

\* The batch under way is the cache, and once committed it is in the table.
BatchIsCache ==
  Intact => \A h \in Sessions :
    /\ handler[h].step \in {"insert", "inserted"} => handler[h].batch = cache
    /\ handler[h].step = "inserted" /\ SmallBlocks =>
         \A a \in Assets : cache[a] # 0 => Recorded(table, a, cache[a])

\* A cached entry names a slot of the view that mints the asset.
CacheInView ==
  Intact => \A a \in Assets : cache[a] # 0 => a \in Minted(view[cache[a]])

\* IndexInv: the invariant the theorems about the asset index rest on.
IndexInv ==
  /\ TypeOK /\ Control /\ AtHead /\ BatchIsCache /\ CacheInView
  /\ NothingMissed /\ FirstAppearance /\ ResumeSkipsNothing

\* The comment of getMostRecentPointWithNewAsset (HasuraBackgroundClient.ts:167),
\* "An offset of 1 is applied to ensure a partial block extraction is not
\* skipped": no partly recorded block is at or below the resume point.
PartialBlockNotSkipped ==
  (Intact /\ resume.step = "asked" /\ Agree(resume.on, view, resume.slot)) =>
    \A s \in Slots : s <= resume.slot =>
      \A a \in Minted(view[s]) : Recorded(table, a, s)

-----------------------------------------------------------------------------
(* Liveness *)

\* The rows are those of the chain: each minted asset under its first slot.
Indexed ==
  \A a \in Assets, s \in Slots :
    table[a] = s <=> /\ a \in Minted(chain[s])
                     /\ \A r \in Slots : r < s => a \notin Minted(chain[r])

\* The last block of the chain mints an asset, so that it is flushed at the tip.
MintingTip ==
  \E s \in Slots : chain[s] \notin {NoBlock, <<>>} /\ chain = Upto(chain, s)

\* CatchesUp: once faults stop, and if the last block of the chain mints (which
\* flushes the cache), the table becomes that of the chain.
CatchesUp ==
  (<>[][~Faults]_vars) => <>[](lapses = {} /\ MintingTip => Indexed)

\* The comment of saveAsset (ChainFollower.ts:123), "Saving when > 1000 assets in
\* the cache or every minute": the cache is always flushed in the end.
SavedEveryMinute ==
  (<>[][~Faults]_vars /\ <>[][~SwitchFork]_vars) => []<>(cache = NoRecord)

\* The comment of getMostRecentPointWithNewAsset (HasuraBackgroundClient.ts:164),
\* which takes a row without block for a race with cardano-db-sync, and so
\* something that passes: the query ends in the end.
RaceIsTransient ==
  (<>[][~Faults]_vars /\ <>[][~SwitchFork]_vars /\ <>[](chain # EmptyChain)) =>
    [](state = "initialized" => <>(state = "running"))
=============================================================================
