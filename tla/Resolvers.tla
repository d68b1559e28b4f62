----------------------------- MODULE Resolvers ------------------------------
(***************************************************************************)
(* How the server answers: the resolvers of executableSchema.ts, the       *)
(* requests of HasuraClient.ts they rest on, and the sync progress timer   *)
(* of Server.ts, over a database that cardano-db-sync and the background   *)
(* process write meanwhile, and through a Hasura that does not always      *)
(* answer.                                                                 *)
(*                                                                         *)
(* A resolver reads and changes nothing: it is an operator on the state.   *)
(* What takes several requests, each of them at a state of its own, is a   *)
(* sequence of actions: the timer's query of three root fields.  Requests  *)
(* adds what that query costs.                                             *)
(***************************************************************************)
EXTENDS Integers, Sequences, FiniteSets, Sums

CONSTANTS
  Slots,               \* bound: the chain is 1..Slots, a block in each
  EpochOf,             \* of a slot
  Minted,              \* distinct assets minted up to a slot
  Utxos, Rewards, Withdrawals,   \* their sums at a slot; a sum of no rows is null: the
                                 \* slot is not in the function's domain
  Reserves,            \* of the epochs that have ada pots
  MaxLovelaceSupply,
  Outputs,             \* of one address: a sequence of [created, spent, value, tokens]
  AssetIds,            \* in those outputs
  RowLimit,            \* Hasura's limit on the rows of a role
  IndexedCounts        \* bound: sizes of the Asset table

\* A chain: epochs follow one another, and an asset that was minted stays so.
ASSUME ChainAssumption ==
  /\ Slots \in Nat /\ IndexedCounts \subseteq Nat
  /\ EpochOf \in [1..Slots -> Nat \ {0}] /\ Minted \in [1..Slots -> Nat]
  /\ \A s, t \in 1..Slots : s <= t => EpochOf[s] <= EpochOf[t] /\ Minted[s] <= Minted[t]

\* The rows that a supply is computed from.
ASSUME SupplyAssumption ==
  /\ MaxLovelaceSupply \in Nat
  /\ Utxos \in [1..Slots -> Nat]
  /\ Rewards \in [DOMAIN Rewards -> Nat] /\ Withdrawals \in [DOMAIN Withdrawals -> Nat]
  /\ Reserves \in [DOMAIN Reserves -> Nat]

\* An assetId is hexadecimal.
TokenType == [asset : AssetIds, quantity : Nat]
OutputType == [created : Nat, spent : Nat, value : Nat, tokens : Seq(TokenType)]
ASSUME OutputsAssumption ==
  Outputs \in Seq(OutputType) /\ RowLimit \in Nat /\ "ada" \notin AssetIds

VARIABLES
  node,        \* the node's tip
  tip,         \* the Block table's
  epochRow,    \* the last row of the Epoch table: written when its epoch ends, while
               \* cardano-db-sync is far behind
  indexed,     \* rows of the Asset table
  connected,   \* CardanoNodeClient.state is "initialized"
  hasura,      \* Hasura answers: it is up, and its metadata tracks the tables
  pots,        \* adaPotsToCalculateSupplyFetcher.value: no element, or one
  timer,       \* Server.syncProgress
  tick         \* the timer's query in progress

dataVars == <<node, tip, epochRow, indexed, connected, hasura, pots, timer, tick>>

MintedAt(slot) == IF slot = 0 THEN 0 ELSE Minted[slot]
Epoch(slot) == IF slot = 0 THEN 0 ELSE EpochOf[slot]

-----------------------------------------------------------------------------
(* HasuraClient                                                              *)

NaN == -1      \* new BigNumber(null), and what is added to it

\* Otherwise an error: no answer, no epochs, or the last one has no pots.
PotsAvailable == hasura /\ tip > 0 /\ epochRow \in DOMAIN Reserves

Circulating(slot) ==
  IF slot \in DOMAIN Rewards \cap DOMAIN Withdrawals
  THEN Utxos[slot] + Rewards[slot] - Withdrawals[slot] ELSE NaN

\* getAdaPotsToCalculateSupply
PotsRead == <<[circulating |-> Circulating(tip), reserves |-> Reserves[epochRow]]>>

\* The condition of getPaymentAddressSummary's query: no block, and block 0, are no
\* bound.
Wanted(o, atBlock) ==
  /\ o.created <= tip /\ tip < o.spent
  /\ atBlock = 0 \/ o.created <= atBlock

\* Its rows.
Matching(atBlock) ==
  LET rows[i \in 0..Len(Outputs)] ==
        IF i = 0 THEN <<>>
        ELSE IF Wanted(Outputs[i], atBlock) THEN Append(rows[i - 1], Outputs[i])
        ELSE rows[i - 1]
  IN  rows[Len(Outputs)]

Answered(rows) == SubSeq(rows, 1, IF Len(rows) < RowLimit THEN Len(rows) ELSE RowLimit)

Holding(map, asset) == IF asset \in DOMAIN map THEN map[asset] ELSE 0

\* Mistake: an entry that is there is replaced.
CreditedLast(map, asset, quantity) ==
  [key \in DOMAIN map \cup {asset} |-> IF key = asset THEN quantity ELSE map[key]]

\* map.set: adds to the entry of an asset, or makes one.
Credited(map, asset, quantity) ==
  [key \in DOMAIN map \cup {asset} |->
     IF key = asset THEN Holding(map, asset) + quantity ELSE map[key]]

CreditedAll(map, tokens) ==
  LET after[i \in 0..Len(tokens)] ==
        IF i = 0 THEN map
        ELSE Credited(after[i - 1], tokens[i].asset, tokens[i].quantity)
  IN  after[Len(tokens)]

NewMap == [key \in {} |-> 0]

Balances(rows) ==
  LET after[i \in 0..Len(rows)] ==
        IF i = 0 THEN NewMap
        ELSE CreditedAll(Credited(after[i - 1], "ada", rows[i].value), rows[i].tokens)
  IN  after[Len(rows)]

PaymentAddressSummary(atBlock) ==
  [assetBalances |-> Balances(Answered(Matching(atBlock))),
   utxosCount |-> Len(Matching(atBlock))]

MetaFails == ~hasura \/ tip = 0 \/ epochRow = 0

\* Mistake: the database is never ahead of the node's tip that was read.
SyncPercentageUnclamped(nodeTip) ==
  IF nodeTip = 0 THEN 100 ELSE (tip * 100) \div nodeTip

\* The node's tip was read before: the database may be ahead of it.
SyncPercentage(nodeTip) ==
  IF tip >= nodeTip THEN 100 ELSE (tip * 100) \div nodeTip

Meta(nodeTip) ==
  [fails |-> MetaFails, initialized |-> ~MetaFails /\ epochRow = Epoch(tip),
   syncPercentage |-> SyncPercentage(nodeTip)]

-----------------------------------------------------------------------------
(* The resolvers                                                             *)

Unanswered == <<-1>>

\* A field that is delegated to Hasura, and the count it is answered with.
Delegated(count) == IF hasura THEN <<count>> ELSE Unanswered

\* ada: of the fetched value, whatever became of the database since.
AdaSupply ==
  [circulating |-> pots[1].circulating, max |-> MaxLovelaceSupply,
   total |-> MaxLovelaceSupply - pots[1].reserves]

-----------------------------------------------------------------------------
(* Cardano-node, cardano-db-sync, the background process, and the clients    *)

NodeForward ==
  /\ node < Slots /\ node' = node + 1
  /\ UNCHANGED <<tip, epochRow, indexed, connected, hasura, pots, timer, tick>>

Least(a, b) == IF a < b THEN a ELSE b
Most(a, b) == IF a > b THEN a ELSE b

DbSyncForward ==
  /\ tip < node /\ tip' = tip + 1
  /\ UNCHANGED <<node, epochRow, indexed, connected, hasura, pots, timer, tick>>

\* An epoch's row is written during the epoch, or when it has ended.
WriteEpoch ==
  /\ epochRow < Epoch(tip) /\ epochRow' = epochRow + 1
  /\ UNCHANGED <<node, tip, indexed, connected, hasura, pots, timer, tick>>

\* A rollback; it removes the rows of later epochs.
DbSyncBackward ==
  /\ tip > 1 /\ tip' = tip - 1
  /\ epochRow' = Least(epochRow, Epoch(tip'))
  /\ tick' = [tick EXCEPT !.fewestMinted = Least(@, MintedAt(tip'))]
  /\ UNCHANGED <<node, indexed, connected, hasura, pots, timer>>

\* The background process saves assets, or deletes them after a rollback.
IndexAssets ==
  /\ indexed' \in {c \in IndexedCounts : indexed < c /\ c <= MintedAt(tip)}
  /\ tick' = [tick EXCEPT !.mostIndexed = Most(@, indexed')]
  /\ UNCHANGED <<node, tip, epochRow, connected, hasura, pots, timer>>

DeleteAssets ==
  /\ indexed > MintedAt(tip) /\ indexed' = MintedAt(tip)
  /\ UNCHANGED <<node, tip, epochRow, connected, hasura, pots, timer, tick>>

\* CardanoNodeClient connects and loses its connection: see CardanoNodeClient.tla.
Connection ==
  /\ connected' = ~connected
  /\ UNCHANGED <<node, tip, epochRow, indexed, hasura, pots, timer, tick>>

\* Hasura goes down or comes up; the background process clears and applies its metadata.
HasuraTurns ==
  /\ hasura' = ~hasura
  /\ UNCHANGED <<node, tip, epochRow, indexed, connected, pots, timer, tick>>

\* Mistake: a value that is there is never fetched again.
FetchPotsOnce ==
  /\ PotsAvailable /\ pots = <<>>
  /\ pots' = PotsRead
  /\ UNCHANGED <<node, tip, epochRow, indexed, connected, hasura, timer, tick>>

\* Mistake: the fetch function catches the error, and its answer is undefined.
FetchPotsOrUndefined ==
  /\ pots' = IF PotsAvailable THEN PotsRead ELSE <<>>
  /\ UNCHANGED <<node, tip, epochRow, indexed, connected, hasura, timer, tick>>

\* The poll of the pots: the catch of the fetch function sees no rejection, as it
\* does not await its request, and the one of DataFetcher keeps the value.
FetchPots ==
  /\ PotsAvailable
  /\ pots' = PotsRead
  /\ UNCHANGED <<node, tip, epochRow, indexed, connected, hasura, timer, tick>>

-----------------------------------------------------------------------------
(* The sync progress timer                                                   *)

\* What a tick has read, and of the states meanwhile the most rows of the Asset
\* table and the fewest mints.
Idle == [at |-> "idle", slot |-> 0, initialized |-> FALSE, syncPercentage |-> 0,
         assets |-> <<>>, mints |-> <<>>, mostIndexed |-> 0, fewestMinted |-> 0]

TickBegins ==
  /\ timer = "running" /\ tick.at = "idle"
  /\ tick' = [Idle EXCEPT !.at = "tip", !.mostIndexed = indexed,
                          !.fewestMinted = MintedAt(tip)]
  /\ UNCHANGED <<node, tip, epochRow, indexed, connected, hasura, pots, timer>>

\* cardanoDbMeta: getTipSlotNo, which fails without a connection, then getMeta.
AskTip ==
  /\ tick.at = "tip"
  /\ tick' = IF connected THEN [tick EXCEPT !.at = "meta", !.slot = node]
                          ELSE [tick EXCEPT !.at = "failed"]
  /\ UNCHANGED <<node, tip, epochRow, indexed, connected, hasura, pots, timer>>

AskMeta ==
  /\ tick.at = "meta"
  /\ LET meta == Meta(tick.slot) IN
       tick' = IF meta.fails
               THEN [tick EXCEPT !.at = "failed", !.slot = 0]
               ELSE [tick EXCEPT !.at = "answered", !.slot = 0,
                                 !.initialized = meta.initialized,
                                 !.syncPercentage = meta.syncPercentage]
  /\ UNCHANGED <<node, tip, epochRow, indexed, connected, hasura, pots, timer>>

\* The other two root fields are resolved beside it, each by a request of its own.
AskAssets ==
  /\ tick.at # "idle" /\ tick.assets = <<>>
  /\ tick' = [tick EXCEPT !.assets = Delegated(indexed)]
  /\ UNCHANGED <<node, tip, epochRow, indexed, connected, hasura, pots, timer>>

AskMints ==
  /\ tick.at # "idle" /\ tick.mints = <<>>
  /\ tick' = [tick EXCEPT !.mints = Delegated(MintedAt(tip))]
  /\ UNCHANGED <<node, tip, epochRow, indexed, connected, hasura, pots, timer>>

\* Mistake: rounded up.
AssetSyncPercentageUp(assets, mints) ==
  IF mints = 0 THEN 0 ELSE Least((100 * assets + mints - 1) \div mints, 100)

\* Math.round of the share in per cent, between 0 and 100.
AssetSyncPercentage(assets, mints) ==
  IF mints = 0 THEN 0 ELSE Least((200 * assets + mints) \div (2 * mints), 100)

\* No field has an error, and the progress would do.
DbReady ==
  /\ tick.at = "answered" /\ Unanswered \notin {tick.assets, tick.mints} /\ tick.initialized
  /\ AssetSyncPercentage(tick.assets[1], tick.mints[1]) > 99

\* An error, or no progress that would do: the next tick asks again.
TickEnds ==
  /\ tick.at \in {"answered", "failed"} /\ tick.assets # <<>> /\ tick.mints # <<>>
  /\ timer' = IF DbReady THEN "cleared" ELSE timer
  /\ tick' = Idle
  /\ UNCHANGED <<node, tip, epochRow, indexed, connected, hasura, pots>>

-----------------------------------------------------------------------------
DataInit ==
  /\ node = 0 /\ tip = 0 /\ epochRow = 0 /\ indexed = 0
  /\ connected = FALSE /\ hasura = TRUE /\ pots = <<>> /\ timer = "running" /\ tick = Idle

Environment ==
  \/ NodeForward \/ DbSyncForward \/ WriteEpoch \/ DbSyncBackward
  \/ IndexAssets \/ DeleteAssets \/ Connection \/ HasuraTurns

TickGoesOn == AskTip \/ AskMeta \/ AskAssets \/ AskMints \/ TickEnds

DataNext == Environment \/ FetchPots \/ TickBegins \/ TickGoesOn

DataSpec == DataInit /\ [][DataNext]_dataVars

-----------------------------------------------------------------------------
(* Properties                                                                *)

OneOrNone(S) == {s \in Seq(S) : Len(s) <= 1}

PotsType == [circulating : Int, reserves : Nat]

TickType ==
  [at : {"idle", "tip", "meta", "answered", "failed"}, slot : 0..Slots,
   initialized : BOOLEAN, syncPercentage : 0..100, assets : OneOrNone(Nat) \cup {Unanswered},
   mints : OneOrNone(Nat) \cup {Unanswered}, mostIndexed : Nat, fewestMinted : Nat]

\* The variables have their types; a percentage is one, although the database is
\* read after the node's tip and may be ahead of it (getMeta).
TypeOK ==
  /\ node \in 0..Slots /\ tip \in 0..node /\ epochRow \in 0..Epoch(Slots)
  /\ indexed \in Nat /\ connected \in BOOLEAN /\ hasura \in BOOLEAN
  /\ timer \in {"running", "cleared"}
  /\ pots \in OneOrNone(PotsType)
  /\ tick \in TickType

\* ada, once it has been answered, is never again not ready: neither an error of the
\* poll nor a database rolled back to before the ada pots loses the value.
AdaStaysReady == [][pots # <<>> => pots' # <<>>]_dataVars

SupplyNow ==
  [circulating |-> Circulating(tip), max |-> MaxLovelaceSupply,
   total |-> MaxLovelaceSupply - Reserves[epochRow]]

\* What ada answers is never out of date for good: once the database rests, with ada
\* pots to read, it comes to be the supply of that database and stays so, however many
\* polls had failed, or had read a chain that was rolled back
\* (adaPotsToCalculateSupplyFetcher).
AdaFollows ==
  (<>[]PotsAvailable /\ <>[][UNCHANGED <<tip, epochRow>>]_dataVars) =>
    <>[](PotsAvailable /\ pots # <<>> /\ AdaSupply = SupplyNow)

Quantity(o, asset) ==
  IF asset = "ada" THEN o.value
  ELSE Added([i \in DOMAIN o.tokens |->
                IF o.tokens[i].asset = asset THEN o.tokens[i].quantity ELSE 0],
             Len(o.tokens))

Unspent(bound) == {i \in DOMAIN Outputs : Outputs[i].created <= bound /\ tip < Outputs[i].spent}

Owned(unspent, asset) ==
  Added([i \in DOMAIN Outputs |-> IF i \in unspent THEN Quantity(Outputs[i], asset) ELSE 0],
        Len(Outputs))

\* The summary of an address credits every unspent output up to the block exactly
\* once, in ada and in each of its tokens, unless the outputs it counts are more than
\* Hasura gives rows of (getPaymentAddressSummary).
SummaryAdds ==
  \A atBlock \in 0..tip :
    LET summary == PaymentAddressSummary(atBlock)
        unspent == Unspent(IF atBlock = 0 THEN tip ELSE atBlock)
    IN  /\ summary.utxosCount = Cardinality(unspent)
        /\ Cardinality(unspent) <= RowLimit =>
             \A asset \in AssetIds \cup {"ada"} :
               Holding(summary.assetBalances, asset) = Owned(unspent, asset)

\* The timer is cleared for good, so it must not be too early: at some moment of its
\* last tick the index had 99.5 % of the assets minted at some moment of it, although
\* the tick reads the two counts and the meta data at different states.
ReadyHonest ==
  [][timer' # timer => 200 * tick.mostIndexed >= 199 * tick.fewestMinted]_dataVars
-----------------------------------------------------------------------------
(* The inductive invariant                                                   *)

\* What a tick has read lies within what its history variables span, and so does
\* what it would read now: ReadyHonest rests on this.
Witnessed ==
  tick.at # "idle" =>
    /\ indexed <= tick.mostIndexed /\ tick.fewestMinted <= MintedAt(tip)
    /\ tick.assets # <<>> => tick.assets[1] <= tick.mostIndexed
    /\ tick.mints \notin {<<>>, Unanswered} => tick.fewestMinted <= tick.mints[1]

DataInv == TypeOK /\ Witnessed
=============================================================================
