----------------------------- MODULE AssetIndex -----------------------------
(***************************************************************************)
(* What an index of the assets promises to those who read the Asset table: *)
(* it is that of the chain followed, up to some point.  ChainFollower      *)
(* implements it, with a cache, a table behind requests that fail,         *)
(* sessions that are lost, and restarts in between.                        *)
(***************************************************************************)
EXTENDS Naturals, Sequences

CONSTANTS Assets, Blocks, NoBlock, MaxSlot

Slots == 1..MaxSlot

VARIABLES
  followed,    \* the chain: the block of each slot
  rows,        \* firstAppearedInSlot of each asset, 0 without a row
  reliable     \* nothing has happened yet that the code does not repair

indexVars == <<followed, rows, reliable>>

Mints(s, a) == followed[s] # NoBlock /\ \E i \in DOMAIN followed[s] : followed[s][i] = a

\* Slot s is the first one to mint a.
First(a, s) == s \in Slots /\ Mints(s, a) /\ \A r \in Slots : r < s => ~Mints(r, a)

\* Every asset minted before slot s has a row, of a slot not later than that.
CompleteBelow(table, s) ==
  \A r \in Slots : r < s => \A a \in Assets : Mints(r, a) => 0 < table[a] /\ table[a] <= r

Init ==
  /\ followed = [s \in Slots |-> NoBlock]
  /\ rows = [a \in Assets |-> 0]
  /\ reliable \in BOOLEAN

\* A block on top of the others.
Follow(s, b) ==
  /\ \A r \in Slots : r >= s => followed[r] = NoBlock
  /\ followed' = [followed EXCEPT ![s] = b]
  /\ UNCHANGED <<rows, reliable>>

\* More rows, in the order of the chain; those that were there stay.
Save ==
  /\ UNCHANGED <<followed, reliable>>
  /\ \A a \in Assets : rows'[a] # rows[a] =>
       rows[a] = 0 /\ First(a, rows'[a]) /\ CompleteBelow(rows', rows'[a])

\* A rollback takes the blocks above a point, and exactly their rows.
Unfollow(p) ==
  /\ followed' = [s \in Slots |-> IF s <= p THEN followed[s] ELSE NoBlock]
  /\ rows' = [a \in Assets |-> IF rows[a] <= p THEN rows[a] ELSE 0]
  /\ UNCHANGED reliable

\* The end of the promise.
Lapse == ~reliable'

Next ==
  \/ Save
  \/ \E s \in Slots, b \in Blocks : Follow(s, b)
  \/ \E p \in 0..MaxSlot : Unfollow(p)
  \/ Lapse

Spec == Init /\ [][Next]_indexVars
=============================================================================
