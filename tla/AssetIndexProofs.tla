-------------------------- MODULE AssetIndexProofs --------------------------
(***************************************************************************)
(* ChainFollower implements AssetIndex: a step simulation under the        *)
(* inductive invariant of ChainFollowerProofs.                             *)
(***************************************************************************)
EXTENDS ChainFollowerProofs

Reliable == Intact /\ SmallBlocks

LEMMA MintsIsMinted == \A s \in Slots, a \in Assets : Promise!Mints(s, a) <=> a \in Minted(view[s])
BY DEF Promise!Mints, Minted

LEMMA ReliableBefore == [Next]_vars /\ Reliable' => Reliable
BY IntactBefore, SmallBlocksRigid DEF Reliable

\* The rewind of a rollback whose rows are gone is an Unfollow.
LEMMA RewindUnfollows ==
  ASSUME TypeOK, Control, Reliable, Reliable', NEW h \in Sessions,
         handler[h].step = "delete", NEW p \in Points, Rewind(h, p),
         table' = DeleteAfterSlot(table, p)
  PROVE  Promise!Unfollow(p)
<1>1. h = "current" \/ state # "running"
  BY DEF Control, Reliable, Sessions
<1>2. view' = [s \in Slots |-> IF s <= p THEN view[s] ELSE NoBlock]
  BY <1>1 DEF Rewind, Upto
<1>3. table' = [a \in Assets |-> IF table[a] <= p THEN table[a] ELSE 0]
  <2>1. \A a \in Assets : table[a] \in Nat /\ p \in Nat
    BY PointZero DEF TypeOK, Records
  <2>2. \A a \in Assets : table[a] > p <=> ~(table[a] <= p)
    BY <2>1
  <2> QED BY <2>2 DEF DeleteAfterSlot
<1> QED BY <1>2, <1>3 DEF Promise!Unfollow, Promise!Slots, Slots, Reliable

\* Rows that are first appearances, and new ones that leave the old as they are.
LEMMA InsertSaves ==
  ASSUME TypeOK, TypeOK', FirstAppearance', Reliable, Reliable', view' = view,
         NEW batch \in Records, table' = InsertRows(table, batch)
  PROVE  Promise!Save
<1> SUFFICES ASSUME NEW a \in Assets, table'[a] # table[a]
             PROVE  /\ table[a] = 0 /\ Promise!First(a, table'[a])
                    /\ Promise!CompleteBelow(table', table'[a])
  BY DEF Promise!Save, Reliable
<1>1. table[a] = 0 /\ table'[a] # 0
  BY DEF InsertRows
<1>2. table'[a] \in Slots
  BY <1>1, PointZero DEF TypeOK, Records, Slots, Points
<1>3. /\ a \in Minted(view[table'[a]])
      /\ \A s \in Slots : s < table'[a] =>
           \A b \in Minted(view[s]) : 0 < table'[b] /\ table'[b] <= s
  BY <1>1 DEF FirstAppearance, Reliable, Rows, Recorded
<1>4. \A s \in Slots : s < table'[a] => a \notin Minted(view[s])
  BY <1>2, <1>3 DEF Slots
<1>5. Promise!First(a, table'[a])
  BY <1>2, <1>3, <1>4, MintsIsMinted DEF Promise!First, Promise!Slots, Slots
<1>6. Promise!CompleteBelow(table', table'[a])
  BY <1>3, MintsIsMinted DEF Promise!CompleteBelow, Promise!Slots, Slots
<1> QED BY <1>1, <1>5, <1>6

LEMMA FollowsBlock ==
  ASSUME TypeOK, Reliable, Reliable', RollForward
  PROVE  \E s \in Promise!Slots, b \in Blocks : Promise!Follow(s, b)
<1>1. PICK s \in Slots : IsNext(view, chain, s) /\ view' = Upto(chain, s)
  BY DEF RollForward
<1>2. chain[s] \in Blocks
  BY <1>1 DEF IsNext, TypeOK, Chains
<1>3. \A r \in Slots : r >= s => view[r] = NoBlock
  BY <1>1 DEF IsNext, Upto, Slots
<1>4. view' = [view EXCEPT ![s] = chain[s]]
  <2>1. \A r \in Slots : view'[r] = IF r = s THEN chain[s] ELSE view[r]
    BY <1>1 DEF IsNext, Upto, Slots
  <2> QED BY <1>1, <2>1 DEF TypeOK, Chains, Upto
<1>5. UNCHANGED table
  BY DEF RollForward
<1> QED BY <1>2, <1>3, <1>4, <1>5 DEF Promise!Follow, Promise!Slots, Slots, Reliable

LEMMA StartKeepsView ==
  ASSUME TypeOK, Reliable', Start
  PROVE  UNCHANGED <<view, table>>
<1>1. PICK p \in Points : /\ view' = [s \in Slots |-> IF s <= p THEN chain[s] ELSE view[s]]
                          /\ lapses' = IF Agree(view, chain, p) THEN lapses
                                       ELSE lapses \cup {"forked"}
  BY PointZero DEF Start, TypeOK
<1>2. Agree(view, chain, p)
  BY <1>1 DEF Reliable, Intact
<1>3. view' = view
  BY <1>1, <1>2 DEF Agree, TypeOK, Chains
<1> QED BY <1>3 DEF Start

LEMMA IndexStep ==
  ASSUME IndexInv, IndexInv', [Next]_vars
  PROVE  [Promise!Next]_(Promise!indexVars)
<1>1. CASE ~Reliable'
  BY <1>1 DEF Promise!Next, Promise!Lapse, Reliable
<1>2. CASE Reliable'
  <2> USE <1>2
  <2>1. Reliable /\ TypeOK /\ TypeOK' /\ Control /\ FirstAppearance'
    BY ReliableBefore DEF IndexInv
  <2>2. CASE UNCHANGED <<view, table>>
    BY <2>1, <2>2 DEF Promise!indexVars, Reliable
  <2>3. CASE RollForward
    BY <2>1, <2>3, FollowsBlock DEF Promise!Next
  <2>4. CASE Start
    BY <2>1, <2>2, <2>4, StartKeepsView
  <2>5. ASSUME NEW h \in Sessions, InsertAssets(h)
        PROVE  Promise!Next
    <3>1. handler[h].batch \in Records
      BY <2>1 DEF TypeOK, Handlers
    <3>2. view' = view /\ table' = InsertRows(table, handler[h].batch)
      BY <2>5 DEF InsertAssets
    <3> QED BY <2>1, <3>1, <3>2, InsertSaves DEF Promise!Next
  <2>6. ASSUME NEW h \in Sessions, DeleteAssets(h) \/ DeleteFails(h)
        PROVE  Promise!Next
    <3> DEFINE p == handler[h].slot
    <3>1. handler[h].step = "delete" /\ Rewind(h, p) /\ p \in Points
      BY <2>1, <2>6 DEF DeleteAssets, DeleteFails, TypeOK, Handlers
    <3>2. ASSUME DeleteFails(h) PROVE table' = DeleteAfterSlot(table, p)
      <4>1. ~Present(p) /\ UNCHANGED table
        BY <3>2 DEF DeleteFails, Reliable, Intact
      <4>2. \A a \in Assets : ~(table[a] > p)
        BY <4>1 DEF Present
      <4> QED BY <2>1, <4>1, <4>2 DEF DeleteAfterSlot, TypeOK, Records
    <3>3. table' = DeleteAfterSlot(table, p)
      BY <2>6, <3>2 DEF DeleteAssets
    <3>4. Promise!Unfollow(p)
      BY <2>1, <3>1, <3>3, RewindUnfollows
    <3> HIDE DEF p
    <3> QED BY <3>1, <3>4 DEF Promise!Next, Points
  <2> QED
    BY <2>2, <2>3, <2>4, <2>5, <2>6
    DEF Next, Handle, Faults, vars, ForgeBlock, SwitchFork, DbSyncForward, DbSyncBackward,
        Initialize, AskPoint, RollBackward, SaveAsset, InsertReturns, InsertFails, Crash,
        ConnectionCloses, PublishSucceeds, PublishFails
<1> QED BY <1>1, <1>2

\* FollowerImplementsIndex: whatever fails and restarts, as long as no lapse has
\* occurred the Asset table is an index of the chain followed, and each step of the
\* code is a block, more first appearances, a rollback, or nothing to its readers.
THEOREM FollowerImplementsIndex == Spec => ImplementsIndex
<1>1. Init => Promise!Init
  BY DEF Init, Promise!Init, Promise!Slots, Slots, EmptyChain, NoRecord, Intact, SmallBlocks
<1>2. IndexInv /\ IndexInv' /\ [Next]_vars => [Promise!Next]_(Promise!indexVars)
  BY IndexStep
<1> QED BY <1>1, <1>2, IndexInvariant, PTL DEF Spec, Promise!Spec, ImplementsIndex
=============================================================================
