------------------------ MODULE ChainFollowerProofs ------------------------
(***************************************************************************)
(* Theorems about ChainFollower, for every set of assets and blocks and    *)
(* every length of the chain: the variables are typed, and the invariant   *)
(* IndexInv holds, from which the properties of the index follow.          *)
(***************************************************************************)
EXTENDS ChainFollower, SequenceTheorems, TLAPS

(* What the helpers return. *)

LEMMA PointZero == 0 \in Points /\ Slots \subseteq Points /\ Points \subseteq Nat
  BY ChainAssumption DEF ChainAssumption, Points, Slots

LEMMA UptoType == \A c \in Chains, p \in Points : Upto(c, p) \in Chains
  BY DEF Upto, Chains

LEMMA EmptyChainType == EmptyChain \in Chains
  BY DEF EmptyChain, Chains

LEMMA NoRecordType == NoRecord \in Records
  BY PointZero DEF NoRecord, Records

LEMMA IdleType == Idle \in Handlers
  BY NoRecordType, PointZero DEF Idle, Handlers

LEMMA NoResumeType ==
  NoResume \in [step : {"none", "asked", "agreed"}, slot : Points, on : Chains]
  BY EmptyChainType, PointZero DEF NoResume

LEMMA BlockType == \A b \in Blocks \cup {<<>>} : b \in Seq(Assets)
  BY ChainAssumption, EmptySeq DEF ChainAssumption

LEMMA RecordOps ==
  ASSUME NEW r \in Records, NEW b \in Records, NEW p \in Points,
         NEW a \in Assets, NEW s \in Points
  PROVE  /\ InsertRows(r, b) \in Records
         /\ DeleteAfterSlot(r, p) \in Records
         /\ Push(r, a, s) \in Records
         /\ Returned(r, b) \subseteq Assets
  BY PointZero DEF Records, InsertRows, DeleteAfterSlot, Push, Returned

LEMMA JobOps ==
  ASSUME jobs \in [Assets -> JobStates], NEW S
  PROVE  Lost(S) \in [Assets -> JobStates] /\ Published(S) \in [Assets -> JobStates]
  BY DEF Lost, Published, JobStates

LEMMA AdvanceType ==
  ASSUME NEW r \in Handlers
  PROVE  Advance(r) \in Handlers
<1>1. CASE r.next < Len(r.block)
  <2>1. Advance(r) = [r EXCEPT !.step = "mint", !.next = r.next + 1,
                               !.batch = NoRecord, !.returned = {}]
    BY <1>1 DEF Advance
  <2>2. r.next + 1 \in Nat \ {0}
    BY DEF Handlers
  <2> QED BY <2>1, <2>2, NoRecordType DEF Handlers
<1>2. CASE ~(r.next < Len(r.block))
  BY <1>2, IdleType DEF Advance
<1> QED BY <1>1, <1>2

-----------------------------------------------------------------------------
(* Types *)

LEMMA TypeInit == Init => TypeOK
  BY EmptyChainType, NoRecordType, IdleType, NoResumeType
  DEF Init, TypeOK, JobStates

LEMMA TypeNext == TypeOK /\ Control /\ [Next]_vars => TypeOK'
<1> SUFFICES ASSUME TypeOK, Control, [Next]_vars PROVE TypeOK'
  OBVIOUS
<1> USE DEF node, memory
<1>1. ASSUME ForgeBlock PROVE TypeOK'
  BY <1>1 DEF ForgeBlock, TypeOK, Chains
<1>2. ASSUME SwitchFork PROVE TypeOK'
  BY <1>2, UptoType DEF SwitchFork, TypeOK
<1>3. ASSUME DbSyncForward PROVE TypeOK'
  BY <1>3, UptoType, PointZero DEF DbSyncForward, TypeOK
<1>4. ASSUME DbSyncBackward PROVE TypeOK'
  BY <1>4, UptoType DEF DbSyncBackward, TypeOK
<1>5. ASSUME Initialize PROVE TypeOK'
  BY <1>5 DEF Initialize, TypeOK
<1>6. ASSUME AskPoint PROVE TypeOK'
  <2>1. resume' \in [step : {"none", "asked", "agreed"}, slot : Points, on : Chains]
    <3>1. CASE resume' = [step |-> "asked", slot |-> 0, on |-> EmptyChain]
      BY <3>1, EmptyChainType, PointZero
    <3>2. ASSUME NEW b \in Rows,
                 resume' = [step |-> "asked", slot |-> table[b],
                            on |-> Upto(dbChain, table[b])]
          PROVE  resume' \in [step : {"none", "asked", "agreed"},
                              slot : Points, on : Chains]
      <4>1. table[b] \in Points
        BY DEF TypeOK, Rows, Records
      <4>2. Upto(dbChain, table[b]) \in Chains
        BY <4>1, UptoType DEF TypeOK
      <4> QED BY <3>2, <4>1, <4>2
    <3> QED BY <1>6, <3>1, <3>2 DEF AskPoint
  <2>2. lapses' \subseteq Causes
    BY <1>6 DEF AskPoint, TypeOK, Causes
  <2> QED BY <1>6, <2>1, <2>2 DEF AskPoint, TypeOK
<1>7. ASSUME Start PROVE TypeOK'
  <2> DEFINE p == IF Agree(resume.on, chain, resume.slot) THEN resume.slot ELSE 0
  <2>1. p \in Points
    BY PointZero DEF TypeOK
  <2>2. resume' = [step |-> "agreed", slot |-> p, on |-> EmptyChain]
    BY <1>7 DEF Start
  <2>3. view' \in Chains
    BY <1>7 DEF Start, TypeOK, Chains
  <2>4. lapses' \subseteq Causes
    BY <1>7 DEF Start, TypeOK, Causes
  <2> QED BY <1>7, <2>1, <2>2, <2>3, <2>4, EmptyChainType DEF Start, TypeOK
<1>8. ASSUME RollForward PROVE TypeOK'
  <2> PICK s \in Slots :
        /\ chain[s] # NoBlock
        /\ view' = Upto(chain, s)
        /\ handler' = [handler EXCEPT !["current"] =
             IF chain[s] = <<>> THEN Idle
             ELSE [Idle EXCEPT !.step = "mint", !.slot = s, !.block = chain[s],
                               !.atTip = (chain = Upto(chain, s))]]
    BY <1>8 DEF RollForward, IsNext
  <2>1. chain[s] \in Blocks
    BY DEF TypeOK, Chains
  <2>2. [Idle EXCEPT !.step = "mint", !.slot = s, !.block = chain[s],
                     !.atTip = (chain = Upto(chain, s))] \in Handlers
    <3>1. (chain = Upto(chain, s)) \in BOOLEAN
      OBVIOUS
    <3> HIDE DEF Idle
    <3> QED BY <2>1, <3>1, IdleType, PointZero DEF Handlers
  <2>3. handler' \in [Sessions -> Handlers]
    BY <2>2, IdleType DEF TypeOK
  <2> QED BY <1>8, <2>3, UptoType, PointZero DEF RollForward, TypeOK
<1>9. ASSUME RollBackward PROVE TypeOK'
  <2> PICK p \in Points : handler' = [handler EXCEPT !["current"] =
                        [Idle EXCEPT !.step = "delete", !.slot = p]]
    BY <1>9 DEF RollBackward
  <2>1. [Idle EXCEPT !.step = "delete", !.slot = p] \in Handlers
    BY IdleType DEF Handlers
  <2> QED BY <1>9, <2>1 DEF RollBackward, TypeOK
<1>10. ASSUME NEW h \in Sessions, Handle(h) PROVE TypeOK'
  <2>1. CASE SaveAsset(h)
    <3> DEFINE r == handler[h]
               pushed == Push(cache, r.block[r.next], r.slot)
    <3>1. r \in Handlers
      BY DEF TypeOK
    <3>2. r.block[r.next] \in Assets
      <4>1. r.next \in 1..Len(r.block) /\ r.block \in Seq(Assets)
        BY <2>1, <3>1, BlockType DEF SaveAsset, Control, Saving, Handlers
      <4> QED BY <4>1, ElementOfSeq
    <3>3. pushed \in Records
      BY <3>1, <3>2, RecordOps, PointZero DEF TypeOK, Handlers, Push, Records
    <3>4. [r EXCEPT !.step = "insert", !.batch = pushed] \in Handlers
      BY <3>1, <3>3 DEF Handlers
    <3>5. handler' \in [Sessions -> Handlers]
      BY <2>1, <3>1, <3>4, AdvanceType DEF SaveAsset, TypeOK
    <3> QED BY <2>1, <3>3, <3>5 DEF SaveAsset, TypeOK
  <2>2. CASE InsertAssets(h)
    <3>1. [handler[h] EXCEPT !.step = "inserted",
                             !.returned = Returned(table, handler[h].batch)] \in Handlers
      <4>1. handler[h] \in Handlers /\ Returned(table, handler[h].batch) \in SUBSET Assets
        BY RecordOps DEF TypeOK, Handlers, Returned
      <4> QED BY <4>1 DEF Handlers
    <3>2. table' \in Records
      BY <2>2, RecordOps, PointZero DEF InsertAssets, TypeOK, Handlers, InsertRows, Records
    <3> QED BY <2>2, <3>1, <3>2 DEF InsertAssets, TypeOK
  <2>3. CASE InsertReturns(h)
    BY <2>3, AdvanceType, NoRecordType, JobOps DEF InsertReturns, TypeOK, Handlers
  <2>4. CASE DeleteAssets(h)
    <3>1. handler[h].slot \in Points
      BY DEF TypeOK, Handlers
    <3>2. table' \in Records
      BY <2>4, <3>1, PointZero DEF DeleteAssets, TypeOK, Records, DeleteAfterSlot
    <3> QED BY <2>4, <3>1, <3>2, UptoType, IdleType, NoResumeType
            DEF DeleteAssets, Rewind, TypeOK, Causes
  <2> QED BY <1>10, <2>1, <2>2, <2>3, <2>4 DEF Handle
<1>11. ASSUME Crash PROVE TypeOK'
  BY <1>11, IdleType, NoRecordType, NoResumeType, JobOps DEF Crash, TypeOK, Causes
<1>12. ASSUME ConnectionCloses PROVE TypeOK'
  BY <1>12, IdleType, NoResumeType DEF ConnectionCloses, TypeOK, Sessions
<1>13. ASSUME NEW h \in Sessions, InsertFails(h) PROVE TypeOK'
  BY <1>13, IdleType, JobOps DEF InsertFails, TypeOK, Causes
<1>14. ASSUME NEW h \in Sessions, DeleteFails(h) PROVE TypeOK'
  BY SMTT(30), <1>14, UptoType, IdleType, NoResumeType
  DEF DeleteFails, Rewind, TypeOK, Handlers, Causes
<1>15. ASSUME NEW a \in Assets, PublishSucceeds(a) \/ PublishFails(a) PROVE TypeOK'
  BY <1>15, JobOps DEF PublishSucceeds, PublishFails, TypeOK, JobStates
<1>16. CASE UNCHANGED vars
  BY <1>16 DEF vars, TypeOK
<1> QED
  BY <1>1, <1>2, <1>3, <1>4, <1>5, <1>6, <1>7, <1>8, <1>9, <1>10, <1>11,
     <1>12, <1>13, <1>14, <1>15, <1>16 DEF Next, Faults
-----------------------------------------------------------------------------
(* Control points *)

LEMMA ControlInit == Init => Control
  BY SMTT(30) DEF Init, Control, Idle, NoResume, Saving, Sessions

LEMMA LapsesGrow == [Next]_vars => lapses \subseteq lapses'
  BY DEF Next, vars, node, memory, ForgeBlock, SwitchFork, DbSyncForward, DbSyncBackward,
     Initialize, AskPoint, Start, RollForward, RollBackward, Handle, SaveAsset,
     InsertAssets, InsertReturns, DeleteAssets, Faults, Crash,
     ConnectionCloses, InsertFails, DeleteFails, PublishSucceeds, PublishFails

\* A handler that goes on to its next mint is well formed.
LEMMA AdvanceControl ==
  ASSUME NEW r \in Handlers, r.step \in Saving, r.slot \in Slots
  PROVE  /\ Advance(r) = Idle \/ Advance(r).step = "mint"
         /\ Advance(r) # Idle =>
              /\ Advance(r).step = "mint" /\ Advance(r).returned = {}
              /\ Advance(r).slot = r.slot /\ Advance(r).block = r.block
              /\ Advance(r).next = r.next + 1
              /\ r.next + 1 <= Len(r.block)
         /\ Advance(r) = Idle => ~(r.next < Len(r.block))
<1>1. Len(r.block) \in Nat /\ r.next \in Nat
  BY BlockType, LenProperties DEF Handlers
<1>2. CASE r.next < Len(r.block)
  <2>1. Advance(r) = [r EXCEPT !.step = "mint", !.next = r.next + 1,
                               !.batch = NoRecord, !.returned = {}]
    BY <1>2 DEF Advance
  <2>2. Advance(r).step = "mint"
    BY <2>1 DEF Handlers
  <2>3. /\ Advance(r).returned = {} /\ Advance(r).slot = r.slot
        /\ Advance(r).block = r.block /\ Advance(r).next = r.next + 1
    BY <2>1 DEF Handlers
  <2>4. Advance(r) # Idle
    BY <2>2 DEF Idle
  <2>5. r.next + 1 <= Len(r.block)
    BY <1>1, <1>2
  <2> QED BY <1>2, <2>2, <2>3, <2>4, <2>5
<1>3. CASE ~(r.next < Len(r.block))
  BY <1>3 DEF Advance
<1> QED BY <1>2, <1>3

\* A saving handler that stays one, or ends, leaves the control points in order.
LEMMA ControlMove ==
  ASSUME TypeOK, Control, NEW h \in Sessions, handler[h].step \in Saving, NEW n,
         handler' = [handler EXCEPT ![h] = n],
         \/ n = Idle
         \/ /\ n.step \in Saving /\ n.next <= Len(n.block) /\ n.slot \in Slots
            /\ n.step # "inserted" => n.returned = {},
         state' = state, resume' = resume, lapses \subseteq lapses'
  PROVE  Control'
<1>1. handler'[h] = n /\ \A g \in Sessions : g # h => handler'[g] = handler[g]
  BY DEF TypeOK
<1>2. n.step # "idle" => n.step \in Saving
  BY DEF Idle
<1>3. n.step # "delete"
  BY DEF Idle, Saving
<1>4. "current" \in Sessions /\ "previous" \in Sessions
  BY DEF Sessions
<1>5. handler[h].step # "idle"
  BY DEF Saving
<1>6. n.step = "idle" => n = Idle
  BY DEF Saving
<1>7. Intact' => Intact
  BY DEF Intact
<1>8. (n = Idle) => n.returned = {} /\ n.step = "idle"
  BY DEF Idle
<1>9. "idle" \notin Saving
  BY DEF Saving
<1>10. \A g \in Sessions : LET r == handler'[g] IN
       /\ r.step = "idle" => r = Idle
       /\ r.step \in Saving => r.next <= Len(r.block) /\ r.slot \in Slots
       /\ r.step # "inserted" => r.returned = {}
  BY <1>1, <1>6, <1>8, <1>9 DEF Control
<1>11. /\ handler'["current"].step # "idle" => state = "running"
       /\ handler'["current"].step \in Saving => resume.step = "none"
       /\ resume.step = "agreed" /\ handler'["current"].step = "delete"
            => handler'["current"].slot <= resume.slot
       /\ Intact' /\ (state = "running" \/ resume.step # "none")
            => handler'["previous"].step = "idle"
  BY <1>1, <1>2, <1>3, <1>4, <1>5, <1>7 DEF Control
<1> QED BY <1>10, <1>11 DEF Control

LEMMA ControlNext == TypeOK /\ Control /\ [Next]_vars => Control'
<1> SUFFICES ASSUME TypeOK, Control, [Next]_vars PROVE Control'
  OBVIOUS
<1> USE DEF node, memory
<1>0. lapses \subseteq lapses'
  BY LapsesGrow
<1>1. ASSUME ForgeBlock \/ SwitchFork \/ DbSyncForward \/ DbSyncBackward PROVE Control'
  BY <1>1 DEF ForgeBlock, SwitchFork, DbSyncForward, DbSyncBackward, Control, Intact
<1>5. ASSUME Initialize PROVE Control'
  BY <1>5 DEF Initialize, Control, Intact
<1>6. ASSUME AskPoint PROVE Control'
  <2>1. Intact' => handler["previous"].step = "idle"
    BY <1>6 DEF AskPoint, Intact
  <2>2. /\ state' = state /\ handler' = handler /\ state = "initialized"
        /\ resume'.step = "asked" /\ handler["current"].step = "idle"
    BY <1>6 DEF AskPoint, Control
  <2>3. "idle" \notin Saving
    BY DEF Saving
  <2> QED BY <2>1, <2>2, <2>3 DEF Control
<1>7. ASSUME Start PROVE Control'
  BY <1>0, <1>7 DEF Start, Control, Intact, Saving, Sessions
<1>8. ASSUME RollForward PROVE Control'
  <2> PICK s \in Slots :
        /\ chain[s] # NoBlock
        /\ view' = Upto(chain, s)
        /\ handler' = [handler EXCEPT !["current"] =
             IF chain[s] = <<>> THEN Idle
             ELSE [Idle EXCEPT !.step = "mint", !.slot = s, !.block = chain[s],
                               !.atTip = (chain = Upto(chain, s))]]
    BY <1>8 DEF RollForward, IsNext
  <2>1. chain[s] \in Seq(Assets)
    BY BlockType DEF TypeOK, Chains
  <2>2. chain[s] # <<>> => 1 <= Len(chain[s])
    BY <2>1, EmptySeq, LenProperties
  <2> QED BY <1>8, <2>2 DEF RollForward, SessionIdle, Control, Intact, Idle, Saving, Sessions, TypeOK
<1>9. ASSUME RollBackward PROVE Control'
  BY <1>9, PointZero DEF RollBackward, SessionIdle, Control, Intact, Idle, Saving, Sessions, TypeOK, IsFork, IsPoint, Cursor, Upto
<1>10. ASSUME NEW h \in Sessions, Handle(h) PROVE Control'
  <2> DEFINE r == handler[h]
  <2>0. r \in Handlers
    BY DEF TypeOK
  <2>1. CASE SaveAsset(h)
    <3>1. r.step \in Saving /\ r.slot \in Slots /\ r.next <= Len(r.block)
             /\ r.returned = {}
      BY <2>1 DEF SaveAsset, Control, Saving
    <3>2. \/ handler' = [handler EXCEPT ![h] = Advance(r)]
          \/ \E b \in {Push(cache, r.block[r.next], r.slot)} :
               handler' = [handler EXCEPT ![h] =
                             [r EXCEPT !.step = "insert", !.batch = b]]
      BY <2>1 DEF SaveAsset
    <3>3. state' = state /\ resume' = resume
      BY <2>1 DEF SaveAsset
    <3>4. CASE handler' = [handler EXCEPT ![h] = Advance(r)]
      <4> HIDE DEF r
      <4>1. \/ Advance(r) = Idle
            \/ /\ Advance(r).step \in Saving /\ Advance(r).slot \in Slots
               /\ Advance(r).next <= Len(Advance(r).block)
               /\ Advance(r).returned = {}
        BY <2>0, <3>1, AdvanceControl DEF Saving
      <4> QED BY <1>0, <3>1, <3>3, <3>4, <4>1, ControlMove DEF r
    <3>5. ASSUME NEW b, handler' = [handler EXCEPT ![h] =
                                      [r EXCEPT !.step = "insert", !.batch = b]]
          PROVE  Control'
      <4> DEFINE n == [r EXCEPT !.step = "insert", !.batch = b]
      <4>1. n.step \in Saving /\ n.next <= Len(n.block) /\ n.slot \in Slots
              /\ n.returned = {}
        BY <2>0, <3>1 DEF Handlers, Saving
      <4> HIDE DEF n
      <4> QED BY <1>0, <3>1, <3>3, <3>5, <4>1, ControlMove DEF n
    <3> QED BY <3>2, <3>4, <3>5
  <2>2. CASE InsertAssets(h)
    BY <2>2 DEF InsertAssets, Control, Intact, Idle, Saving, Sessions, TypeOK, Handlers
  <2>3. CASE InsertReturns(h)
    <3>1. r.step \in Saving /\ r.slot \in Slots
      BY <2>3 DEF InsertReturns, Control, Saving
    <3>2. \/ Advance(r) = Idle
          \/ /\ Advance(r).step \in Saving /\ Advance(r).slot \in Slots
             /\ Advance(r).next <= Len(Advance(r).block)
             /\ Advance(r).returned = {}
      <4> HIDE DEF r
      <4> QED BY <2>0, <3>1, AdvanceControl DEF Saving
    <3>3. /\ handler' = [handler EXCEPT ![h] = Advance(r)]
          /\ state' = state /\ resume' = resume
      BY <2>3 DEF InsertReturns
    <3> HIDE DEF r
    <3> QED BY <1>0, <3>1, <3>2, <3>3, ControlMove DEF r
  <2>4. CASE DeleteAssets(h)
    BY <1>0, <2>4 DEF DeleteAssets, Rewind, Control, Intact, Idle, NoResume, Saving, Sessions, TypeOK
  <2> QED BY <1>10, <2>1, <2>2, <2>3, <2>4 DEF Handle
<1>11. ASSUME Crash PROVE Control'
  BY <1>11 DEF Crash, Control, Idle, NoResume, Saving, Sessions, Intact
<1>12. ASSUME ConnectionCloses PROVE Control'
  BY <1>12 DEF ConnectionCloses, Control, Intact, Idle, NoResume, Saving, Sessions, TypeOK
<1>13. ASSUME NEW h \in Sessions, InsertFails(h) PROVE Control'
  BY <1>0, <1>13 DEF InsertFails, Control, Intact, Idle, Saving, Sessions, TypeOK
<1>14. ASSUME NEW h \in Sessions, DeleteFails(h) PROVE Control'
  BY <1>0, <1>14 DEF DeleteFails, Rewind, Control, Intact, Idle, NoResume, Saving, Sessions, TypeOK
<1>15. ASSUME NEW a \in Assets, PublishSucceeds(a) \/ PublishFails(a) PROVE Control'
  BY <1>15 DEF PublishSucceeds, PublishFails, Control, Intact
<1>16. CASE UNCHANGED vars
  BY <1>16 DEF vars, Control, Intact
<1> QED
  BY <1>1, <1>5, <1>6, <1>7, <1>8, <1>9, <1>10, <1>11,
     <1>12, <1>13, <1>14, <1>15, <1>16 DEF Next, Faults
-----------------------------------------------------------------------------
(* The index, action by action *)

Index == /\ AtHead /\ BatchIsCache /\ CacheInView
         /\ NothingMissed /\ FirstAppearance /\ ResumeSkipsNothing

\* No lapse is forgotten.
LEMMA IntactBefore == [Next]_vars /\ Intact' => Intact
  BY LapsesGrow DEF Intact

LEMMA SmallBlocksRigid == SmallBlocks' <=> SmallBlocks
  BY DEF SmallBlocks

\* One handler runs at a time.
LEMMA OneHandler ==
  ASSUME Control, Intact, NEW h \in Sessions, handler[h].step # "idle",
         NEW g \in Sessions, g # h
  PROVE  handler[g] = Idle
  BY DEF Control, Sessions

LEMMA NothingUnsaved ==
  ASSUME NEW r, r.step \notin Saving
  PROVE  Unsaved(r) = {}
  BY DEF Unsaved, Saving

LEMMA IdleNotSaving == Idle.step \notin Saving /\ Idle.step = "idle"
  BY DEF Idle, Saving

\* Before start asks for a point there is nothing to skip.
LEMMA NoResumeSkipsNothing ==
  ASSUME Control, resume.step = "none"
  PROVE  ResumeSkipsNothing
  BY PointZero DEF Control, NoResume, ResumeSkipsNothing, Slots

\* A view cut at p is unchanged up to p and empty above.
LEMMA CutView ==
  ASSUME NEW c, NEW p \in Points, NEW s \in Slots
  PROVE  /\ s <= p => Upto(c, p)[s] = c[s]
         /\ ~(s <= p) => Minted(Upto(c, p)[s]) = {}
  BY DEF Upto, Minted

LEMMA MintedAssets ==
  ASSUME NEW c \in Chains, NEW s \in Slots
  PROVE  Minted(c[s]) \subseteq Assets
<1>1. CASE c[s] = NoBlock
  BY <1>1 DEF Minted
<1>2. CASE c[s] # NoBlock
  <2>1. c[s] \in Seq(Assets)
    BY <1>2, BlockType DEF Chains
  <2>2. \A i \in DOMAIN c[s] : c[s][i] \in Assets
    BY <2>1, LenProperties, ElementOfSeq
  <2> QED BY <1>2, <2>2 DEF Minted
<1> QED BY <1>1, <1>2

\* The actions of the node, of cardano-db-sync, and initialize.
LEMMA IndexOutside ==
  ASSUME IndexInv,
         \/ ForgeBlock \/ SwitchFork \/ DbSyncForward \/ DbSyncBackward
         \/ Initialize \/ UNCHANGED vars
         \/ \E a \in Assets : PublishSucceeds(a) \/ PublishFails(a)
  PROVE  Index'
<1>1. /\ view' = view /\ resume' = resume /\ handler' = handler
      /\ cache' = cache /\ table' = table /\ lapses' = lapses
      /\ state' = state \/ state' = "initialized"
  BY DEF ForgeBlock, SwitchFork, DbSyncForward, DbSyncBackward, Initialize,
         PublishSucceeds, PublishFails, vars, node, memory
<1>2. Tracking' => Tracking
  BY <1>1 DEF Tracking
<1>3. Rows' = Rows
  BY <1>1 DEF Rows
<1>4. \A a, s : Awaited(a, s)' <=> Awaited(a, s)
  BY <1>1 DEF Awaited
<1>5. Intact' <=> Intact
  BY <1>1 DEF Intact
<1>6. AtHead' /\ BatchIsCache' /\ CacheInView'
  BY <1>1, <1>5, SmallBlocksRigid DEF IndexInv, AtHead, BatchIsCache, CacheInView
<1>7. NothingMissed'
  BY <1>1, <1>2, <1>4, <1>5, SmallBlocksRigid DEF IndexInv, NothingMissed
<1>8. FirstAppearance'
  BY <1>1, <1>3, <1>5, SmallBlocksRigid DEF IndexInv, FirstAppearance
<1>9. ResumeSkipsNothing'
  BY <1>1, <1>5, SmallBlocksRigid DEF IndexInv, ResumeSkipsNothing
<1> QED BY <1>6, <1>7, <1>8, <1>9 DEF Index

\* A process that dies leaves the table in order.
LEMMA IndexCrash ==
  ASSUME IndexInv, Crash
  PROVE  Index'
<1>1. /\ view' = view /\ table' = table /\ cache' = NoRecord
      /\ state' = "null" /\ resume' = NoResume
      /\ handler' = [h \in Sessions |-> Idle]
      /\ lapses \subseteq lapses'
  BY DEF Crash, node
<1>2. Intact' => Intact
  BY <1>1 DEF Intact
<1>3. ~Tracking'
  BY <1>1, IdleNotSaving DEF Tracking, Saving
<1>4. AtHead' /\ BatchIsCache'
  BY <1>1, IdleNotSaving DEF AtHead, BatchIsCache, Saving
<1>5. CacheInView'
  BY <1>1 DEF CacheInView, NoRecord
<1>6. NothingMissed'
  BY <1>3 DEF NothingMissed
<1>7. FirstAppearance'
  BY <1>1, <1>2, SmallBlocksRigid DEF IndexInv, FirstAppearance, Rows
<1>8. ResumeSkipsNothing'
  BY <1>1, PointZero DEF ResumeSkipsNothing, NoResume, Slots
<1> QED BY <1>4, <1>5, <1>6, <1>7, <1>8 DEF Index

\* The handler of a closed connection goes on where it was.
LEMMA IndexCloses ==
  ASSUME IndexInv, ConnectionCloses
  PROVE  Index'
<1>1. /\ view' = view /\ table' = table /\ cache' = cache /\ lapses' = lapses
      /\ state' = "null" /\ resume' = NoResume
      /\ handler["previous"].step = "idle"
      /\ handler'["current"] = Idle /\ handler'["previous"] = handler["current"]
  BY DEF ConnectionCloses, node, Sessions
<1>2. Intact' <=> Intact
  BY <1>1 DEF Intact
<1>3. Tracking' => Tracking
  BY <1>1, IdleNotSaving DEF Tracking, Sessions, Saving
<1>4. \A a, s : Awaited(a, s) => Awaited(a, s)'
  <2>1. Unsaved(handler["previous"]) = {}
    BY <1>1, NothingUnsaved DEF Saving
  <2> QED BY <1>1, <2>1 DEF Awaited, Sessions, Unsaved
<1>5. AtHead' /\ BatchIsCache'
  <2>1. \A h \in Sessions : handler'[h].step \in Saving =>
          \E g \in Sessions : handler'[h] = handler[g]
    BY <1>1, IdleNotSaving DEF Sessions
  <2>2. AtHead'
    BY <1>1, <1>2, <2>1 DEF IndexInv, AtHead
  <2>3. BatchIsCache'
    BY <1>1, <1>2, <2>1, SmallBlocksRigid DEF IndexInv, BatchIsCache, Saving
  <2> QED BY <2>2, <2>3
<1>6. CacheInView'
  BY <1>1, <1>2 DEF IndexInv, CacheInView
<1>7. NothingMissed'
  BY <1>1, <1>2, <1>3, <1>4, SmallBlocksRigid DEF IndexInv, NothingMissed
<1>8. FirstAppearance'
  BY <1>1, <1>2, SmallBlocksRigid DEF IndexInv, FirstAppearance, Rows
<1>9. ResumeSkipsNothing'
  BY <1>1, PointZero DEF ResumeSkipsNothing, NoResume, Slots
<1> QED BY <1>5, <1>6, <1>7, <1>8, <1>9 DEF Index

\* The delete of a rollback, or its failure, ends the handler.  kept are the rows
\* left in the table.
LEMMA IndexRewind ==
  ASSUME IndexInv, NEW h \in Sessions, handler[h].step = "delete",
         Rewind(h, handler[h].slot), state' = state, cache' = cache,
         Intact' => Intact,
         Intact' => \A a \in Assets : cache[a] <= handler[h].slot,
         Intact' => \A a \in Assets :
           table'[a] = IF table[a] <= handler[h].slot THEN table[a] ELSE 0
  PROVE  Index'
<1> DEFINE p == handler[h].slot
<1>1. p \in Points /\ cache \in Records /\ table \in Records
  BY DEF IndexInv, TypeOK, Handlers
<1>2. /\ view' = IF h = "current" \/ state # "running" THEN Upto(view, p) ELSE view
      /\ resume' = IF h = "current" THEN NoResume ELSE resume
      /\ handler' = [handler EXCEPT ![h] = Idle]
  BY DEF Rewind
<1>3. handler'[h] = Idle
  BY <1>2 DEF IndexInv, TypeOK
<1> SUFFICES ASSUME Intact' PROVE Index'
  <2>1. CASE ~Intact'
    BY <2>1 DEF Index, AtHead, BatchIsCache, CacheInView, NothingMissed,
       FirstAppearance, ResumeSkipsNothing
  <2> QED BY <2>1
<1>4. Intact /\ Control /\ handler[h].step # "idle"
  BY DEF IndexInv
<1>5. \A g \in Sessions : handler'[g] = Idle
  <2>1. \A g \in Sessions : g # h => handler'[g] = handler[g] /\ handler[g] = Idle
    BY <1>2, <1>4, OneHandler DEF IndexInv, TypeOK
  <2> QED BY <1>3, <2>1
<1>6. view' = Upto(view, p)
  BY <1>2, <1>4 DEF Control, Sessions
<1>7. h = "current" \/ resume.step = "none"
  BY <1>4 DEF Control, Sessions
<1>8. AtHead' /\ BatchIsCache'
  BY <1>5, IdleNotSaving DEF AtHead, BatchIsCache, Saving
<1>9. CacheInView'
  <2> SUFFICES ASSUME NEW a \in Assets, cache[a] # 0
               PROVE  a \in Minted(view'[cache[a]])
    BY DEF CacheInView
  <2>1. cache[a] \in Slots /\ cache[a] <= p
    BY <1>1 DEF Records, Points, Slots
  <2>2. a \in Minted(view[cache[a]])
    BY <1>4 DEF IndexInv, CacheInView
  <2> QED BY <1>1, <1>6, <2>1, <2>2, CutView
<1>10. NothingMissed'
  <2> SUFFICES ASSUME SmallBlocks, Tracking', NEW s \in Slots, NEW a \in Minted(view'[s])
               PROVE  Recorded(table', a, s) \/ Recorded(cache', a, s)
    BY SmallBlocksRigid DEF NothingMissed, Recorded
  <2>1. state = "running" /\ h = "current"
    <3>1. state = "running"
      BY <1>5, IdleNotSaving DEF Tracking
    <3> QED BY <1>4, <3>1 DEF Control, Sessions
  <2>2. s <= p /\ a \in Minted(view[s])
    BY <1>1, <1>6, CutView
  <2>3. a \in Assets
    BY <2>2, MintedAssets DEF IndexInv, TypeOK
  <2>4. Recorded(table, a, s) \/ Recorded(cache, a, s)
    <3>1. CASE resume.step = "none"
      <4>1. \A g \in Sessions : Unsaved(handler[g]) = {}
        <5>1. \A g \in Sessions : handler[g].step \notin Saving
          <6>1. handler[h].step \notin Saving
            BY DEF Saving
          <6>2. \A g \in Sessions : g # h => handler[g] = Idle
            BY <1>4, OneHandler
          <6> QED BY <6>1, <6>2, IdleNotSaving
        <5> QED BY <5>1, NothingUnsaved
      <4>2. ~Awaited(a, s)
        BY <4>1 DEF Awaited
      <4>3. Tracking
        BY <2>1, <3>1 DEF Tracking
      <4> QED BY <1>4, <2>2, <4>2, <4>3 DEF IndexInv, NothingMissed
    <3>2. CASE resume.step = "agreed"
      <4>1. s <= resume.slot
        <5>1. p <= resume.slot
          BY <1>4, <2>1, <3>2 DEF Control
        <5>2. resume.slot \in Nat /\ p \in Nat /\ s \in Nat
          BY <1>1, PointZero DEF IndexInv, TypeOK
        <5> QED BY <2>2, <5>1, <5>2
      <4> QED BY <1>4, <2>2, <3>2, <4>1 DEF IndexInv, ResumeSkipsNothing
    <3> QED BY <1>4, <2>1, <3>1, <3>2 DEF Control, IndexInv, TypeOK
  <2> QED BY <1>1, <2>2, <2>3, <2>4, PointZero DEF Recorded, Records, Points, Slots
<1>11. FirstAppearance'
  <2> SUFFICES ASSUME SmallBlocks, NEW a \in Assets, table'[a] # 0
               PROVE  /\ a \in Minted(view'[table'[a]])
                      /\ \A s \in Slots : s < table'[a] =>
                           \A b \in Minted(view'[s]) : Recorded(table', b, s)
    BY SmallBlocksRigid DEF FirstAppearance, Rows, Recorded
  <2>1. table'[a] = table[a] /\ table[a] <= p /\ table[a] \in Slots
    BY <1>1 DEF Records, Points, Slots
  <2>2. a \in Rows
    BY <2>1 DEF Rows
  <2>3. a \in Minted(view'[table'[a]])
    BY <1>1, <1>4, <1>6, <2>1, <2>2, CutView DEF IndexInv, FirstAppearance
  <2>4. ASSUME NEW s \in Slots, s < table'[a], NEW b \in Minted(view'[s])
        PROVE  Recorded(table', b, s)
    <3>1. s <= p
      BY <1>1, <2>1, <2>4 DEF Points, Slots
    <3>2. b \in Minted(view[s]) /\ b \in Assets
      BY <1>1, <1>6, <2>4, <3>1, CutView, MintedAssets DEF IndexInv, TypeOK
    <3>3. Recorded(table, b, s)
      BY <1>4, <2>1, <2>2, <2>4, <3>2 DEF IndexInv, FirstAppearance
    <3> QED BY <1>1, <3>1, <3>2, <3>3, PointZero DEF Recorded, Records, Points, Slots
  <2> QED BY <2>3, <2>4
<1>12. ResumeSkipsNothing'
  <2>1. resume'.slot = 0
    BY <1>2, <1>4, <1>7 DEF Control, NoResume
  <2> QED BY <2>1, PointZero DEF ResumeSkipsNothing, Slots
<1> QED BY <1>8, <1>9, <1>10, <1>11, <1>12 DEF Index

LEMMA IndexDelete ==
  ASSUME IndexInv, NEW h \in Sessions, DeleteAssets(h) \/ DeleteFails(h),
         Intact' => Intact
  PROVE  Index'
<1>1. handler[h].slot \in Nat /\ cache \in [Assets -> Nat] /\ table \in [Assets -> Nat]
  BY PointZero DEF IndexInv, TypeOK, Handlers, Records
<1>2. /\ handler[h].step = "delete" /\ Rewind(h, handler[h].slot)
      /\ state' = state /\ cache' = cache
  BY DEF DeleteAssets, DeleteFails
<1>3. Intact' => ~Cached(handler[h].slot)
  BY DEF DeleteAssets, DeleteFails, Intact
<1>4. Intact' => \/ table' = DeleteAfterSlot(table, handler[h].slot)
                 \/ table' = table /\ ~Present(handler[h].slot)
  BY DEF DeleteAssets, DeleteFails, Intact
<1>5. Intact' => \A a \in Assets : cache[a] <= handler[h].slot
  BY <1>1, <1>3 DEF Cached
<1>6. Intact' => \A a \in Assets :
        table'[a] = IF table[a] <= handler[h].slot THEN table[a] ELSE 0
  BY <1>1, <1>4 DEF Present, DeleteAfterSlot
<1> QED BY <1>2, <1>5, <1>6, IndexRewind

LEMMA IndexInsertFails ==
  ASSUME IndexInv, NEW h \in Sessions, InsertFails(h), Intact' => Intact
  PROVE  Index'
<1>1. /\ handler[h].step \in Saving
      /\ handler' = [handler EXCEPT ![h] = Idle]
      /\ view' = view /\ state' = state /\ resume' = resume
      /\ cache' = cache /\ table' = table
  BY DEF InsertFails, node, Saving
<1> SUFFICES ASSUME Intact' PROVE Index'
  <2>1. CASE ~Intact'
    BY <2>1 DEF Index, AtHead, BatchIsCache, CacheInView, NothingMissed,
       FirstAppearance, ResumeSkipsNothing
  <2> QED BY <2>1
<1>2. Intact /\ Control /\ handler[h].step # "idle"
  BY <1>1 DEF IndexInv, Saving
<1>3. Unsaved(handler[h]) = {}
  BY DEF InsertFails, Intact
<1>4. \A g \in Sessions : handler'[g] = Idle
  BY <1>1, <1>2, OneHandler DEF IndexInv, TypeOK
<1>5. \A g \in Sessions : Unsaved(handler[g]) = {}
  <2>1. \A g \in Sessions : g # h => Unsaved(handler[g]) = {}
    BY <1>2, OneHandler, IdleNotSaving, NothingUnsaved
  <2> QED BY <1>3, <2>1
<1>6. AtHead' /\ BatchIsCache'
  BY <1>4, IdleNotSaving DEF AtHead, BatchIsCache, Saving
<1>7. CacheInView'
  BY <1>1, <1>2 DEF IndexInv, CacheInView
<1>8. NothingMissed'
  <2>1. Tracking
    BY <1>1 DEF Tracking, Saving
  <2>2. \A a, s : ~Awaited(a, s)
    BY <1>5 DEF Awaited
  <2> QED BY <1>1, <1>2, <2>1, <2>2, SmallBlocksRigid DEF IndexInv, NothingMissed
<1>9. FirstAppearance'
  BY <1>1, <1>2, SmallBlocksRigid DEF IndexInv, FirstAppearance, Rows
<1>10. ResumeSkipsNothing'
  BY <1>1, <1>2, SmallBlocksRigid DEF IndexInv, ResumeSkipsNothing
<1> QED BY <1>6, <1>7, <1>8, <1>9, <1>10 DEF Index

LEMMA IndexRollBackward ==
  ASSUME IndexInv, RollBackward
  PROVE  Index'
<1>1. /\ view' = view /\ state' = state /\ resume' = resume
      /\ cache' = cache /\ table' = table /\ lapses' = lapses
      /\ state = "running" /\ handler["current"].step = "idle"
      /\ handler'["previous"] = handler["previous"]
  BY DEF RollBackward, SessionIdle, node, IndexInv, TypeOK, Sessions
<1>2. handler'["current"].step = "delete"
  <2> PICK p \in Points : handler' = [handler EXCEPT !["current"] =
                            [Idle EXCEPT !.step = "delete", !.slot = p]]
    BY DEF RollBackward
  <2> QED BY DEF Idle, IndexInv, TypeOK, Sessions
<1>3. \A h \in Sessions : handler'[h].step \in Saving => handler'[h] = handler[h]
  BY <1>1, <1>2 DEF Sessions, Saving
<1>4. Tracking' => Tracking
  BY <1>1, <1>3 DEF Tracking, Saving
<1>5. \A a, s : Awaited(a, s) => Awaited(a, s)'
  <2>1. Unsaved(handler["current"]) = {}
    BY <1>1, NothingUnsaved DEF Saving
  <2> QED BY <1>1, <2>1 DEF Awaited, Sessions, Unsaved
<1>6. Intact' <=> Intact
  BY <1>1 DEF Intact
<1>7. AtHead'
  BY <1>1, <1>3, <1>6 DEF IndexInv, AtHead
<1>8. BatchIsCache'
  BY <1>1, <1>3, <1>6, SmallBlocksRigid DEF IndexInv, BatchIsCache, Saving
<1>9. CacheInView'
  BY <1>1, <1>6 DEF IndexInv, CacheInView
<1>10. NothingMissed'
  BY <1>1, <1>4, <1>5, <1>6, SmallBlocksRigid DEF IndexInv, NothingMissed
<1>11. FirstAppearance'
  BY <1>1, <1>6, SmallBlocksRigid DEF IndexInv, FirstAppearance, Rows
<1>12. ResumeSkipsNothing'
  BY <1>1, <1>6, SmallBlocksRigid DEF IndexInv, ResumeSkipsNothing
<1> QED BY <1>7, <1>8, <1>9, <1>10, <1>11, <1>12 DEF Index

\* A new block: all it mints awaits the handler.
LEMMA IndexRollForward ==
  ASSUME IndexInv, RollForward
  PROVE  Index'
<1> PICK s \in Slots :
      /\ chain[s] # NoBlock /\ view = Upto(chain, s - 1)
      /\ view' = Upto(chain, s)
      /\ handler' = [handler EXCEPT !["current"] =
           IF chain[s] = <<>> THEN Idle
           ELSE [Idle EXCEPT !.step = "mint", !.slot = s, !.block = chain[s],
                             !.atTip = (chain = Upto(chain, s))]]
  BY DEF RollForward, IsNext
<1>1. /\ state' = state /\ resume' = resume /\ cache' = cache
      /\ table' = table /\ lapses' = lapses
      /\ state = "running" /\ resume.step = "none"
      /\ handler["current"].step = "idle"
  BY DEF RollForward, SessionIdle, node
<1>2. Intact' <=> Intact
  BY <1>1 DEF Intact
<1> SUFFICES ASSUME Intact' PROVE Index'
  <2>1. CASE ~Intact'
    BY <2>1 DEF Index, AtHead, BatchIsCache, CacheInView, NothingMissed,
       FirstAppearance, ResumeSkipsNothing
  <2> QED BY <2>1
<1>3. /\ Intact /\ Control /\ handler["previous"].step = "idle"
      /\ handler'["previous"] = handler["previous"]
  BY <1>1, <1>2 DEF IndexInv, Control, TypeOK, Sessions
<1>4. /\ chain[s] = <<>> => handler'["current"] = Idle
      /\ chain[s] # <<>> =>
           /\ handler'["current"].step = "mint" /\ handler'["current"].slot = s
           /\ handler'["current"].block = chain[s] /\ handler'["current"].next = 1
  BY DEF Idle, IndexInv, TypeOK, Sessions
<1>5. s \in Nat /\ s # 0 /\ MaxSlot \in Nat /\ Slots \subseteq Nat
  BY ChainAssumption DEF Slots, ChainAssumption
<1>6. \A r \in Slots : /\ r < s => view'[r] = view[r]
                       /\ r > s => view'[r] = NoBlock
                       /\ r >= s => view[r] = NoBlock
  BY <1>5 DEF Upto
<1>7. view'[s] = chain[s]
  BY <1>5 DEF Upto
<1>8. \A r \in Slots : \A a \in Minted(view[r]) : r < s /\ a \in Minted(view'[r])
  BY <1>5, <1>6 DEF Minted
<1>9. AtHead'
  <2>1. view' = Upto(view', s)
    BY <1>5, <1>6, <1>7 DEF Upto
  <2>2. \A h \in Sessions : handler'[h].step \in Saving =>
          handler'[h].slot = s /\ handler'[h].block = chain[s]
    BY <1>3, <1>4, IdleNotSaving DEF Sessions, Saving
  <2> QED BY <1>7, <2>1, <2>2 DEF AtHead
<1>10. BatchIsCache'
  BY <1>3, <1>4, IdleNotSaving DEF BatchIsCache, Sessions
<1>11. CacheInView'
  <2> SUFFICES ASSUME NEW a \in Assets, cache[a] # 0
               PROVE  a \in Minted(view'[cache[a]])
    BY <1>1 DEF CacheInView
  <2>1. cache[a] \in Slots /\ a \in Minted(view[cache[a]])
    BY <1>3, <1>5 DEF IndexInv, CacheInView, TypeOK, Records, Points, Slots
  <2> QED BY <2>1, <1>8
<1>12. NothingMissed'
  <2> SUFFICES ASSUME SmallBlocks, NEW r \in Slots, NEW a \in Minted(view'[r])
               PROVE  \/ Recorded(table, a, r) \/ Recorded(cache, a, r)
                      \/ Awaited(a, r)'
    BY <1>1, SmallBlocksRigid DEF NothingMissed, Recorded
  <2>1. CASE r = s
    <3>1. chain[s] # <<>> /\ a \in {chain[s][i] : i \in DOMAIN chain[s]}
      <4>1. a \in {chain[s][i] : i \in DOMAIN chain[s]}
        BY <1>7, <2>1 DEF Minted
      <4> QED BY <4>1
    <3>2. chain[s] \in Seq(Assets)
      BY BlockType DEF IndexInv, TypeOK, Chains
    <3>3. DOMAIN chain[s] = 1..Len(chain[s])
      BY <3>2, LenProperties
    <3>4. a \in Unsaved(handler'["current"])
      BY <1>4, <3>1, <3>3 DEF Unsaved
    <3> QED BY <1>4, <2>1, <3>1, <3>4 DEF Awaited, Sessions, Unsaved
  <2>2. CASE r # s
    <3>1. r < s /\ a \in Minted(view[r])
      BY <1>5, <1>6, <2>2 DEF Minted
    <3>2. ~Awaited(a, r)
      BY <1>1, <1>3, NothingUnsaved DEF Awaited, Sessions, Saving
    <3> QED BY <1>1, <1>3, <3>1, <3>2 DEF IndexInv, NothingMissed, Tracking
  <2> QED BY <2>1, <2>2
<1>13. FirstAppearance'
  <2> SUFFICES ASSUME SmallBlocks, NEW a \in Assets, table[a] # 0
               PROVE  /\ a \in Minted(view'[table[a]])
                      /\ \A r \in Slots : r < table[a] =>
                           \A b \in Minted(view'[r]) : Recorded(table, b, r)
    BY <1>1, SmallBlocksRigid DEF FirstAppearance, Rows, Recorded
  <2>1. table[a] \in Slots /\ a \in Rows
    BY <1>5 DEF IndexInv, TypeOK, Records, Points, Slots, Rows
  <2>2. a \in Minted(view[table[a]])
    BY <1>3, <2>1 DEF IndexInv, FirstAppearance
  <2>3. table[a] < s /\ a \in Minted(view'[table[a]])
    BY <1>8, <2>1, <2>2
  <2>4. \A r \in Slots : r < table[a] => view'[r] = view[r]
    BY <1>5, <1>6, <2>1, <2>3
  <2> QED BY <1>3, <2>1, <2>3, <2>4 DEF IndexInv, FirstAppearance
<1>14. ResumeSkipsNothing'
  BY <1>1, <1>3, PointZero DEF Control, NoResume, ResumeSkipsNothing, Slots
<1> QED BY <1>9, <1>10, <1>11, <1>12, <1>13, <1>14 DEF Index

\* The row order of the query: below the point of the second row, the first row
\* or the second row leaves nothing unrecorded.
LEMMA IndexAskPoint ==
  ASSUME IndexInv, AskPoint
  PROVE  Index'
<1>1. /\ view' = view /\ state' = state /\ handler' = handler
      /\ cache' = cache /\ table' = table /\ lapses \subseteq lapses'
      /\ resume.step = "none" /\ resume'.step = "asked"
      /\ state = "initialized"
  BY DEF AskPoint, node
<1>2. Intact' => Intact
  BY <1>1 DEF Intact
<1>3. Tracking' => Tracking
  BY <1>1 DEF Tracking
<1>4. \A a, s : Awaited(a, s)' <=> Awaited(a, s)
  BY <1>1 DEF Awaited
<1>5. AtHead' /\ BatchIsCache' /\ CacheInView'
  BY <1>1, <1>2, SmallBlocksRigid DEF IndexInv, AtHead, BatchIsCache, CacheInView
<1>6. NothingMissed'
  BY <1>1, <1>2, <1>3, <1>4, SmallBlocksRigid DEF IndexInv, NothingMissed
<1>7. FirstAppearance'
  BY <1>1, <1>2, SmallBlocksRigid DEF IndexInv, FirstAppearance, Rows
<1>8. ResumeSkipsNothing'
  <2>1. CASE resume' = [step |-> "asked", slot |-> 0, on |-> EmptyChain]
    BY <2>1, PointZero DEF ResumeSkipsNothing, Slots
  <2>2. ASSUME NEW b \in Rows, SecondRow(b), ~Lagging(b),
               resume' = [step |-> "asked", slot |-> table[b],
                          on |-> Upto(dbChain, table[b])]
        PROVE  ResumeSkipsNothing'
    <3> DEFINE q == table[b]
    <3> SUFFICES ASSUME Intact', SmallBlocks, Agree(Upto(dbChain, q), view, q),
                        NEW s \in Slots, s <= q, NEW a \in Minted(view[s])
                 PROVE  Recorded(table, a, s)
      BY <1>1, <2>2, SmallBlocksRigid DEF ResumeSkipsNothing, Agree, Recorded
    <3>1. Intact /\ FirstAppearance
      BY <1>2 DEF IndexInv
    <3>2. table \in [Assets -> Points] /\ Rows \subseteq Assets
      BY DEF IndexInv, TypeOK, Records, Rows
    <3>3. \A c \in Rows : table[c] \in Slots /\ c \in Minted(view[table[c]])
      BY <3>1, <3>2 DEF FirstAppearance, Rows, Points, Slots
    <3>4. PICK f \in Rows : f # b /\ Before(f, b)
      BY <2>2 DEF SecondRow
    <3>5. table[f] >= q
      <4>1. ASSUME Lagging(f), table[f] < q PROVE FALSE
        <5>1. view[table[f]] = dbChain[table[f]]
          BY <3>2, <3>3, <4>1, PointZero DEF Agree, Upto, Points
        <5> QED BY <3>3, <4>1, <5>1 DEF Lagging, Minted
      <4> QED BY <3>2, <3>4, <4>1, PointZero DEF Before, Points
    <3>6. CASE s < q
      BY <2>2, <3>1, <3>6 DEF FirstAppearance
    <3>7. CASE s = q
      <4>1. CASE table[f] > q
        BY <3>1, <3>4, <3>7, <4>1 DEF FirstAppearance
      <4>2. CASE table[f] = q
        <5>1. f \in Minted(view[q]) /\ b \in Minted(view[q]) /\ a \in Minted(view[q])
          BY <3>3, <3>4, <3>7, <4>2
        <5>2. view[q] # NoBlock /\ view[q] \in Blocks
          BY <5>1, <3>3 DEF Minted, IndexInv, TypeOK, Chains
        <5>3. view[q] \in Seq(Assets) /\ Len(view[q]) <= 2
          BY <5>2, BlockType DEF SmallBlocks
        <5>4. DOMAIN view[q] \subseteq {1, 2}
          BY <5>3, LenProperties
        <5>5. \A c \in Minted(view[q]) : c = view[q][1] \/ c = view[q][2]
          BY <5>2, <5>4 DEF Minted
        <5>6. a = f \/ a = b
          BY <3>4, <5>1, <5>5
        <5> QED BY <3>2, <3>3, <3>7, <4>2, <5>6, PointZero DEF Recorded, Slots
      <4> QED BY <3>2, <3>5, <4>1, <4>2, PointZero DEF Points
    <3> QED BY <3>2, <3>6, <3>7, PointZero DEF Points, Slots
  <2> QED BY <2>1, <2>2 DEF AskPoint
<1> QED BY <1>5, <1>6, <1>7, <1>8 DEF Index

LEMMA IndexStart ==
  ASSUME IndexInv, Start
  PROVE  Index'
<1> DEFINE p == IF Agree(resume.on, chain, resume.slot) THEN resume.slot ELSE 0
<1>1. /\ handler' = handler /\ cache' = cache /\ table' = table
      /\ resume' = [step |-> "agreed", slot |-> p, on |-> EmptyChain]
      /\ view' = [s \in Slots |-> IF s <= p THEN chain[s] ELSE view[s]]
      /\ lapses \subseteq lapses'
      /\ Intact' => Agree(view, chain, p)
      /\ state' = "running" /\ resume.step = "asked" /\ state = "initialized"
  BY DEF Start, node, Intact
<1> SUFFICES ASSUME Intact' PROVE Index'
  <2>1. CASE ~Intact'
    BY <2>1 DEF Index, AtHead, BatchIsCache, CacheInView, NothingMissed,
       FirstAppearance, ResumeSkipsNothing
  <2> QED BY <2>1
<1>2. Intact /\ Control
  BY <1>1 DEF IndexInv, Intact
<1>3. view' = view
  <2>1. \A s \in Slots : view'[s] = view[s]
    BY <1>1 DEF Agree
  <2>2. view \in Chains /\ view' = [s \in Slots |-> view'[s]]
    BY <1>1 DEF IndexInv, TypeOK
  <2> QED BY <2>1, <2>2 DEF Chains
<1>4. \A h \in Sessions : handler[h].step = "idle"
  BY <1>1, <1>2 DEF Control, Sessions
<1>5. ~Tracking'
  BY <1>1, <1>4 DEF Tracking
<1>6. AtHead' /\ BatchIsCache'
  BY <1>1, <1>4 DEF AtHead, BatchIsCache, Saving
<1>7. CacheInView'
  BY <1>1, <1>2, <1>3 DEF IndexInv, CacheInView
<1>8. NothingMissed'
  BY <1>5 DEF NothingMissed
<1>9. FirstAppearance'
  BY <1>1, <1>2, <1>3, SmallBlocksRigid DEF IndexInv, FirstAppearance, Rows
<1>10. ResumeSkipsNothing'
  <2>1. CASE Agree(resume.on, chain, resume.slot)
    <3>1. Agree(resume.on, view, resume.slot)
      BY <1>1, <2>1 DEF Agree
    <3> QED BY <1>1, <1>2, <1>3, <2>1, <3>1, SmallBlocksRigid
            DEF IndexInv, ResumeSkipsNothing
  <2>2. CASE ~Agree(resume.on, chain, resume.slot)
    BY <1>1, <2>2, PointZero DEF ResumeSkipsNothing, Slots
  <2> QED BY <2>1, <2>2
<1> QED BY <1>6, <1>7, <1>8, <1>9, <1>10 DEF Index

(* What the three steps of saveAsset have in common: handler h saves, no other   *)
(* does, and the view and the resumption stay.                                    *)

LEMMA SavingAlone ==
  ASSUME IndexInv, Intact, NEW h \in Sessions, handler[h].step \in Saving
  PROVE  /\ \A g \in Sessions : g # h => handler[g] = Idle
         /\ \A a, s : Awaited(a, s) => s = handler[h].slot /\ a \in Unsaved(handler[h])
         /\ handler[h].slot \in Slots
         /\ \A s \in Slots : s > handler[h].slot => view[s] = NoBlock
         /\ view[handler[h].slot] = handler[h].block
         /\ resume.step = "none" /\ Tracking
<1>1. \A g \in Sessions : g # h => handler[g] = Idle
  BY OneHandler DEF IndexInv, Saving
<1>2. \A a, s : Awaited(a, s) => s = handler[h].slot /\ a \in Unsaved(handler[h])
  BY <1>1, IdleNotSaving, NothingUnsaved DEF Awaited
<1>3. handler[h].slot \in Slots
  BY DEF IndexInv, Control
<1>4. view[handler[h].slot] = handler[h].block /\ view = Upto(view, handler[h].slot)
  BY DEF IndexInv, AtHead
<1>5. \A s \in Slots : s > handler[h].slot => view[s] = NoBlock
  BY <1>3, <1>4, PointZero DEF Upto
<1>6. resume.step = "none" /\ Tracking
  BY DEF IndexInv, Control, Sessions, Tracking, Saving
<1> QED BY <1>1, <1>2, <1>3, <1>4, <1>5, <1>6

\* The handler after its current mint still awaits the later ones.
LEMMA AdvanceUnsaved ==
  ASSUME NEW r \in Handlers, r.step \in Saving, r.slot \in Slots,
         r.next <= Len(r.block)
  PROVE  \A a : a \in Unsaved(r) /\ ~(r.step = "mint" /\ a = r.block[r.next]) =>
           Advance(r).slot = r.slot /\ a \in Unsaved(Advance(r))
<1> SUFFICES ASSUME NEW a, a \in Unsaved(r),
                    ~(r.step = "mint" /\ a = r.block[r.next])
             PROVE  Advance(r).slot = r.slot /\ a \in Unsaved(Advance(r))
  OBVIOUS
<1>1. Len(r.block) \in Nat /\ DOMAIN r.block = 1..Len(r.block) /\ r.next \in Nat
  BY BlockType, LenProperties DEF Handlers
<1>2. PICK j \in 1..Len(r.block) : a = r.block[j] /\ j > r.next
  <2>1. PICK j \in 1..Len(r.block) :
          /\ a = r.block[j]
          /\ \/ r.step = "mint" /\ j >= r.next
             \/ r.step \in {"insert", "inserted"} /\ j > r.next
    BY <1>1 DEF Unsaved
  <2>2. j > r.next
    BY <1>1, <2>1
  <2> QED BY <2>1, <2>2
<1>3. r.next < Len(r.block)
  BY <1>1, <1>2
<1>4. /\ Advance(r).step = "mint" /\ Advance(r).slot = r.slot
      /\ Advance(r).block = r.block /\ Advance(r).next = r.next + 1
  BY <1>3, AdvanceControl
<1>5. j >= r.next + 1
  BY <1>1, <1>2
<1>6. j \in DOMAIN r.block
  BY <1>1
<1> QED BY <1>2, <1>4, <1>5, <1>6 DEF Unsaved

\* The batch is committed: what it holds is in the table, at the right slots.
LEMMA IndexInsert ==
  ASSUME IndexInv, NEW h \in Sessions, InsertAssets(h)
  PROVE  Index'
<1> DEFINE r == handler[h]
<1>1. /\ view' = view /\ state' = state /\ resume' = resume
      /\ cache' = cache /\ lapses' = lapses /\ r.step = "insert"
      /\ table' = InsertRows(table, r.batch)
      /\ handler' = [handler EXCEPT ![h] =
           [r EXCEPT !.step = "inserted", !.returned = Returned(table, r.batch)]]
  BY DEF InsertAssets, node
<1>2. Intact' <=> Intact
  BY <1>1 DEF Intact
<1> SUFFICES ASSUME Intact' PROVE Index'
  <2>1. CASE ~Intact'
    BY <2>1 DEF Index, AtHead, BatchIsCache, CacheInView, NothingMissed,
       FirstAppearance, ResumeSkipsNothing
  <2> QED BY <2>1
<1>3. Intact /\ r.step \in Saving /\ r \in Handlers /\ r.batch = cache
  BY <1>1, <1>2 DEF Saving, IndexInv, TypeOK, BatchIsCache
<1>16. r.slot \in Nat /\ Slots \subseteq Nat
  BY <1>3, PointZero DEF Handlers
<1>17. /\ \A s \in Slots : s > r.slot => view[s] = NoBlock
       /\ \A a, s : Awaited(a, s) => s = r.slot /\ a \in Unsaved(r)
  BY <1>3, SavingAlone
<1>4. cache \in [Assets -> Points] /\ table \in [Assets -> Points]
  BY DEF IndexInv, TypeOK, Records
<1>5. \A a \in Assets : table'[a] = IF table[a] # 0 THEN table[a] ELSE cache[a]
  BY <1>1, <1>3, <1>4 DEF InsertRows
<1>6. /\ handler'[h].step = "inserted" /\ handler'[h].slot = r.slot
      /\ handler'[h].block = r.block /\ handler'[h].next = r.next
      /\ handler'[h].batch = r.batch
  BY <1>1, <1>3 DEF Handlers, IndexInv, TypeOK
<1>7. \A g \in Sessions : g # h => handler'[g] = Idle
  BY <1>1, <1>3, SavingAlone DEF IndexInv, TypeOK
<1>8. \A a \in Assets : cache[a] # 0 => cache[a] \in Slots /\ a \in Minted(view[cache[a]])
  BY <1>3, <1>4 DEF IndexInv, CacheInView, Points, Slots
<1>9. SmallBlocks => \A a \in Assets, s \in Slots :
        a \in Minted(view[s]) /\ (Recorded(table, a, s) \/ Recorded(cache, a, s))
          => Recorded(table', a, s)
  <2> SUFFICES ASSUME SmallBlocks, NEW a \in Assets, NEW s \in Slots,
                      a \in Minted(view[s]),
                      Recorded(table, a, s) \/ Recorded(cache, a, s)
               PROVE  Recorded(table', a, s)
    OBVIOUS
  <2>1. CASE table[a] = 0
    BY <1>4, <1>5, <2>1, PointZero DEF Recorded
  <2>2. CASE table[a] # 0
    <3>1. table[a] > s => Recorded(table, a, s)
      BY <1>3, <2>2, <1>4, PointZero DEF IndexInv, FirstAppearance, Rows
    <3>2. table[a] \in Nat /\ s \in Nat
      BY <1>4, PointZero
    <3> QED BY <1>5, <2>2, <3>1, <3>2 DEF Recorded
  <2> QED BY <2>1, <2>2
<1>10. AtHead'
  BY <1>1, <1>3, <1>6, <1>7, IdleNotSaving DEF IndexInv, AtHead
<1>11. BatchIsCache'
  <2> SUFFICES ASSUME SmallBlocks, NEW a \in Assets, cache[a] # 0
               PROVE  Recorded(table', a, cache[a])
    BY <1>1, <1>3, <1>6, <1>7, IdleNotSaving, SmallBlocksRigid DEF BatchIsCache, Recorded, Saving
  <2>1. Recorded(cache, a, cache[a])
    BY <1>8, PointZero DEF Recorded, Slots
  <2> QED BY <1>8, <1>9, <2>1
<1>12. CacheInView'
  BY <1>1, <1>8 DEF CacheInView
<1>13. NothingMissed'
  <2> SUFFICES ASSUME SmallBlocks, NEW s \in Slots, NEW a \in Minted(view[s])
               PROVE  Recorded(table', a, s) \/ Awaited(a, s)'
    BY <1>1, SmallBlocksRigid DEF NothingMissed, Recorded
  <2>1. a \in Assets
    BY MintedAssets DEF IndexInv, TypeOK
  <2>2. Recorded(table, a, s) \/ Recorded(cache, a, s) \/ Awaited(a, s)
    BY <1>3, SavingAlone DEF IndexInv, NothingMissed
  <2>3. Unsaved(r) = Unsaved(handler'[h])
    BY <1>1, <1>6 DEF Unsaved
  <2>4. Awaited(a, s) => Awaited(a, s)'
    <3> SUFFICES ASSUME Awaited(a, s)
                 PROVE  \E g \in Sessions : handler'[g].slot = s /\ a \in Unsaved(handler'[g])
      BY DEF Awaited, Unsaved
    <3> QED BY <1>6, <1>17, <2>3
  <2> QED BY <1>9, <2>1, <2>2, <2>4
<1>14. FirstAppearance'
  <2> SUFFICES ASSUME SmallBlocks, NEW a \in Assets, table'[a] # 0
               PROVE  /\ a \in Minted(view[table'[a]])
                      /\ \A s \in Slots : s < table'[a] =>
                           \A b \in Minted(view[s]) : Recorded(table', b, s)
    BY <1>1, SmallBlocksRigid DEF FirstAppearance, Rows, Recorded
  <2>1. CASE table[a] # 0
    <3>1. a \in Rows /\ table'[a] = table[a]
      BY <1>5, <2>1 DEF Rows
    <3>2. \A s \in Slots : Minted(view[s]) \subseteq Assets
      BY MintedAssets DEF IndexInv, TypeOK
    <3> QED BY <1>3, <1>9, <3>1, <3>2 DEF IndexInv, FirstAppearance
  <2>2. CASE table[a] = 0
    <3>1. table'[a] = cache[a] /\ cache[a] \in Slots /\ a \in Minted(view[cache[a]])
      BY <1>5, <1>8, <2>2
    <3>2. cache[a] <= r.slot
      <4>1. view[cache[a]] # NoBlock
        BY <3>1 DEF Minted
      <4>2. ~(cache[a] > r.slot)
        BY <1>17, <3>1, <4>1
      <4>3. cache[a] \in Nat
        BY <1>16, <3>1
      <4> QED BY <1>16, <4>2, <4>3
    <3>3. ASSUME NEW s \in Slots, s < cache[a], NEW b \in Minted(view[s])
          PROVE  Recorded(table', b, s)
      <4>5. s \in Nat /\ cache[a] \in Nat /\ r.slot \in Nat
        BY <1>16, <3>1
      <4>1. s # r.slot
        BY <3>2, <3>3, <4>5
      <4>2. ~Awaited(b, s)
        BY <1>17, <4>1
      <4>3. Recorded(table, b, s) \/ Recorded(cache, b, s)
        BY <1>3, <4>2, SavingAlone DEF IndexInv, NothingMissed
      <4>4. b \in Assets
        BY MintedAssets DEF IndexInv, TypeOK
      <4> QED BY <1>9, <4>3, <4>4
    <3> QED BY <3>1, <3>3
  <2> QED BY <2>1, <2>2
<1>15. ResumeSkipsNothing'
  <2>1. resume'.slot = 0
    BY <1>1, <1>3, SavingAlone DEF IndexInv, Control, NoResume
  <2> QED BY <2>1, PointZero DEF ResumeSkipsNothing, Slots
<1> QED BY <1>10, <1>11, <1>12, <1>13, <1>14, <1>15 DEF Index

\* The answer empties the cache, whose entries are all in the table, and the
\* handler goes on.
LEMMA IndexInsertReturns ==
  ASSUME IndexInv, NEW h \in Sessions, InsertReturns(h)
  PROVE  Index'
<1> DEFINE r == handler[h]
<1>1. /\ view' = view /\ state' = state /\ resume' = resume
      /\ cache' = NoRecord /\ table' = table /\ lapses' = lapses
      /\ r.step = "inserted"
      /\ handler' = [handler EXCEPT ![h] = Advance(r)]
  BY DEF InsertReturns, node
<1>2. Intact' <=> Intact
  BY <1>1 DEF Intact
<1> SUFFICES ASSUME Intact' PROVE Index'
  <2>1. CASE ~Intact'
    BY <2>1 DEF Index, AtHead, BatchIsCache, CacheInView, NothingMissed,
       FirstAppearance, ResumeSkipsNothing
  <2> QED BY <2>1
<1>3. /\ Intact /\ r.step \in Saving /\ r \in Handlers /\ r.slot \in Slots
      /\ r.next <= Len(r.block)
  BY <1>1, <1>2 DEF Saving, IndexInv, TypeOK, Control
<1>4. \A a, s : Awaited(a, s) => s = r.slot /\ a \in Unsaved(r)
  BY <1>3, SavingAlone
<1>5. handler'[h] = Advance(r) /\ \A g \in Sessions : g # h => handler'[g] = Idle
  BY <1>1, <1>3, SavingAlone DEF IndexInv, TypeOK
<1>6. Advance(r).step \notin {"insert", "inserted"}
  BY <1>3, AdvanceControl, IdleNotSaving DEF Saving
<1>7. Advance(r).step \in Saving =>
        Advance(r).slot = r.slot /\ Advance(r).block = r.block
  BY <1>3, AdvanceControl, IdleNotSaving
<1>8. AtHead'
  BY <1>1, <1>3, <1>5, <1>7, IdleNotSaving DEF IndexInv, AtHead
<1>9. BatchIsCache'
  BY <1>5, <1>6, IdleNotSaving DEF BatchIsCache, Saving
<1>10. CacheInView'
  BY <1>1 DEF CacheInView, NoRecord
<1>11. NothingMissed'
  <2> SUFFICES ASSUME SmallBlocks, NEW s \in Slots, NEW a \in Minted(view[s])
               PROVE  Recorded(table, a, s) \/ Awaited(a, s)'
    BY <1>1, SmallBlocksRigid DEF NothingMissed, Recorded
  <2>1. a \in Assets /\ cache \in [Assets -> Points] /\ table \in [Assets -> Points]
    BY MintedAssets DEF IndexInv, TypeOK, Records
  <2>2. Recorded(table, a, s) \/ Recorded(cache, a, s) \/ Awaited(a, s)
    BY <1>3, SavingAlone DEF IndexInv, NothingMissed
  <2>3. Recorded(cache, a, s) => Recorded(table, a, s)
    <3>1. cache[a] # 0 => Recorded(table, a, cache[a])
      BY <1>1, <1>3, <2>1 DEF IndexInv, BatchIsCache
    <3> QED BY <2>1, <3>1, PointZero DEF Recorded, Points, Slots
  <2>4. Awaited(a, s) => Awaited(a, s)'
    <3> SUFFICES ASSUME Awaited(a, s)
                 PROVE  \E g \in Sessions : handler'[g].slot = s /\ a \in Unsaved(handler'[g])
      BY DEF Awaited, Unsaved
    <3>1. s = r.slot /\ a \in Unsaved(r)
      BY <1>4
    <3>2. Advance(r).slot = r.slot /\ a \in Unsaved(Advance(r))
      BY <1>1, <1>3, <3>1, AdvanceUnsaved
    <3> QED BY <1>5, <3>1, <3>2
  <2> QED BY <2>2, <2>3, <2>4
<1>12. FirstAppearance'
  BY <1>1, <1>3, SmallBlocksRigid DEF IndexInv, FirstAppearance, Rows
<1>13. ResumeSkipsNothing'
  BY <1>1, <1>3, SmallBlocksRigid DEF IndexInv, ResumeSkipsNothing
<1> QED BY <1>8, <1>9, <1>10, <1>11, <1>12, <1>13 DEF Index

\* A mint goes to the cache before anything else can happen.
LEMMA IndexSaveAsset ==
  ASSUME IndexInv, NEW h \in Sessions, SaveAsset(h)
  PROVE  Index'
<1> DEFINE r == handler[h]
           new == r.block[r.next]
           pushed == Push(cache, new, r.slot)
           flushing == [r EXCEPT !.step = "insert", !.batch = pushed]
<1>1. /\ view' = view /\ state' = state /\ resume' = resume
      /\ cache' = pushed /\ table' = table /\ lapses' = lapses
      /\ r.step = "mint"
      /\ \/ handler' = [handler EXCEPT ![h] = Advance(r)]
         \/ handler' = [handler EXCEPT ![h] = flushing]
  BY DEF SaveAsset, node
<1>2. Intact' <=> Intact
  BY <1>1 DEF Intact
<1> SUFFICES ASSUME Intact' PROVE Index'
  <2>1. CASE ~Intact'
    BY <2>1 DEF Index, AtHead, BatchIsCache, CacheInView, NothingMissed,
       FirstAppearance, ResumeSkipsNothing
  <2> QED BY <2>1
<1>3. /\ Intact /\ r.step \in Saving /\ r \in Handlers /\ r.slot \in Slots
      /\ r.next <= Len(r.block) /\ Control
  BY <1>1, <1>2 DEF Saving, IndexInv, TypeOK, Control
<1>4. /\ \A a, s : Awaited(a, s) => s = r.slot /\ a \in Unsaved(r)
      /\ \A s \in Slots : s > r.slot => view[s] = NoBlock
      /\ view[r.slot] = r.block /\ resume.step = "none" /\ Tracking
      /\ \A g \in Sessions : g # h => handler[g] = Idle
  BY <1>3, SavingAlone
<1>5. /\ flushing.step = "insert" /\ flushing.batch = pushed
      /\ flushing.slot = r.slot /\ flushing.block = r.block /\ flushing.next = r.next
  BY <1>3 DEF Handlers
<1>6. /\ handler'[h] = Advance(r) \/ handler'[h] = flushing
      /\ \A g \in Sessions : g # h => handler'[g] = Idle
  BY <1>1, <1>4 DEF IndexInv, TypeOK
<1>7. cache \in [Assets -> Points] /\ Slots \subseteq Nat /\ Points \subseteq Nat
         /\ \A s \in Slots : s # 0
  BY PointZero DEF IndexInv, TypeOK, Records, Slots
<1>8. new \in Assets /\ new \in Minted(view[r.slot])
  <2>1. r.block \in Seq(Assets) /\ r.next \in Nat \ {0} /\ Len(r.block) \in Nat
    BY <1>3, BlockType, LenProperties DEF Handlers
  <2>2. r.next \in 1..Len(r.block) /\ DOMAIN r.block = 1..Len(r.block)
    BY <1>3, <2>1, LenProperties
  <2>3. new \in Assets
    BY <2>1, <2>2, ElementOfSeq
  <2>4. view[r.slot] # NoBlock
    <3>1. r.block # <<>>
      BY <2>1, <2>2, EmptySeq
    <3> QED BY <1>3, <1>4, <3>1, ChainAssumption DEF Handlers, ChainAssumption
  <2> QED BY <1>4, <2>2, <2>3, <2>4 DEF Minted
<1>9. \A a \in Assets : cache[a] # 0 =>
        cache[a] \in Slots /\ a \in Minted(view[cache[a]]) /\ cache[a] <= r.slot
  <2> SUFFICES ASSUME NEW a \in Assets, cache[a] # 0
               PROVE  cache[a] \in Slots /\ a \in Minted(view[cache[a]]) /\ cache[a] <= r.slot
    OBVIOUS
  <2>1. cache[a] \in Slots /\ a \in Minted(view[cache[a]])
    BY <1>3, <1>7 DEF IndexInv, CacheInView, Points, Slots
  <2>2. view[cache[a]] # NoBlock
    BY <2>1 DEF Minted
  <2>3. ~(cache[a] > r.slot)
    BY <1>4, <2>1, <2>2
  <2>4. cache[a] \in Nat /\ r.slot \in Nat
    BY <1>3, <1>7, <2>1
  <2> QED BY <2>1, <2>3, <2>4
<1>10. /\ \A a \in Assets : cache[a] # 0 => pushed[a] = cache[a]
       /\ \A a \in Assets : pushed[a] # 0 => \/ pushed[a] = cache[a]
                                             \/ a = new /\ pushed[a] = r.slot
       /\ pushed[new] # 0 /\ pushed[new] <= r.slot /\ pushed[new] \in Nat
  <2>1. r.slot \in Nat /\ r.slot # 0
    BY <1>3, <1>7
  <2>2. cache[new] \in Nat
    BY <1>7, <1>8
  <2>3. cache[new] # 0 => cache[new] <= r.slot
    BY <1>8, <1>9
  <2>4. CASE cache[new] = 0
    <3>1. pushed = [cache EXCEPT ![new] = r.slot]
      BY <2>4 DEF Push
    <3> QED BY <1>7, <1>8, <2>1, <2>4, <3>1
  <2>5. CASE cache[new] # 0
    <3>1. pushed = cache
      BY <2>5 DEF Push
    <3> QED BY <2>2, <2>3, <2>5, <3>1
  <2> QED BY <2>4, <2>5
<1>11. AtHead'
  <2>1. handler'[h].step \in Saving => handler'[h].slot = r.slot /\ handler'[h].block = r.block
    BY <1>3, <1>5, <1>6, AdvanceControl, IdleNotSaving
  <2> QED BY <1>1, <1>3, <1>6, <2>1, IdleNotSaving DEF IndexInv, AtHead
<1>12. BatchIsCache'
  <2>1. Advance(r).step \notin {"insert", "inserted"}
    BY SMTT(30), <1>3, AdvanceControl, IdleNotSaving DEF Saving
  <2> QED BY <1>1, <1>5, <1>6, <2>1, IdleNotSaving DEF BatchIsCache, Saving
<1>13. CacheInView'
  BY <1>1, <1>8, <1>9, <1>10 DEF CacheInView
<1>14. NothingMissed'
  <2> SUFFICES ASSUME SmallBlocks, NEW s \in Slots, NEW a \in Minted(view[s])
               PROVE  \/ Recorded(table, a, s) \/ Recorded(pushed, a, s)
                      \/ Awaited(a, s)'
    BY <1>1, SmallBlocksRigid DEF NothingMissed, Recorded
  <2>1. a \in Assets
    BY MintedAssets DEF IndexInv, TypeOK
  <2>2. Recorded(table, a, s) \/ Recorded(cache, a, s) \/ Awaited(a, s)
    BY <1>3, <1>4 DEF IndexInv, NothingMissed
  <2>3. CASE Recorded(cache, a, s)
    BY <1>7, <1>10, <2>1, <2>3 DEF Recorded
  <2>4. CASE Awaited(a, s)
    <3>1. s = r.slot /\ a \in Unsaved(r)
      BY SMTT(30), <1>4, <2>4
    <3>2. CASE a = new
      BY <1>3, <1>7, <1>10, <3>1, <3>2 DEF Recorded
    <3>3. CASE a # new
      <4>1. handler'[h].slot = s /\ a \in Unsaved(handler'[h])
        <5>1. Advance(r).slot = r.slot /\ a \in Unsaved(Advance(r))
          BY <1>3, <3>1, <3>3, AdvanceUnsaved
        <5>2. a \in Unsaved(flushing)
          <6>1. r.next \in Nat /\ DOMAIN r.block = 1..Len(r.block) /\ Len(r.block) \in Nat
            BY <1>3, BlockType, LenProperties DEF Handlers
          <6>2. PICK j \in DOMAIN r.block : a = r.block[j] /\ j >= r.next
            BY <1>1, <3>1 DEF Unsaved
          <6>3. j > r.next
            BY <3>3, <6>1, <6>2
          <6> HIDE DEF flushing
          <6> QED BY <1>5, <6>2, <6>3 DEF Unsaved
        <5> HIDE DEF flushing
        <5> QED BY <1>5, <1>6, <3>1, <5>1, <5>2
      <4> QED BY <4>1 DEF Awaited, Unsaved
    <3> QED BY <3>2, <3>3
  <2> QED BY <2>2, <2>3, <2>4
<1>15. FirstAppearance'
  BY <1>1, <1>3, SmallBlocksRigid DEF IndexInv, FirstAppearance, Rows
<1>16. ResumeSkipsNothing'
  BY <1>1, <1>3, SmallBlocksRigid DEF IndexInv, ResumeSkipsNothing
<1> QED BY <1>11, <1>12, <1>13, <1>14, <1>15, <1>16 DEF Index

-----------------------------------------------------------------------------
(* The theorems *)

LEMMA IndexInvInit == Init => IndexInv
<1> SUFFICES ASSUME Init PROVE IndexInv
  OBVIOUS
<1>1. TypeOK /\ Control
  BY TypeInit, ControlInit
<1>2. \A h \in Sessions : handler[h] = Idle
  BY DEF Init
<1>3. AtHead /\ BatchIsCache
  BY <1>2, IdleNotSaving DEF AtHead, BatchIsCache, Saving
<1>4. CacheInView /\ FirstAppearance
  BY DEF Init, CacheInView, NoRecord, FirstAppearance, Rows
<1>5. NothingMissed
  <2>1. \A s \in Slots : Minted(view[s]) = {}
    BY DEF Init, EmptyChain, Minted
  <2> QED BY <2>1 DEF NothingMissed
<1>6. ResumeSkipsNothing
  BY <1>1, NoResumeSkipsNothing DEF Init, NoResume
<1> QED BY <1>1, <1>3, <1>4, <1>5, <1>6 DEF IndexInv

LEMMA IndexInvNext == IndexInv /\ [Next]_vars => IndexInv'
<1> SUFFICES ASSUME IndexInv, [Next]_vars PROVE IndexInv'
  OBVIOUS
<1>1. TypeOK' /\ Control'
  BY TypeNext, ControlNext DEF IndexInv
<1>2. Intact' => Intact
  BY IntactBefore
<1>3. Index'
  <2>1. CASE ForgeBlock \/ SwitchFork \/ DbSyncForward \/ DbSyncBackward
               \/ Initialize \/ UNCHANGED vars
               \/ \E a \in Assets : PublishSucceeds(a) \/ PublishFails(a)
    BY <2>1, IndexOutside
  <2>2. CASE AskPoint
    BY <2>2, IndexAskPoint
  <2>3. CASE Start
    BY <2>3, IndexStart
  <2>4. CASE RollForward
    BY <2>4, IndexRollForward
  <2>5. CASE RollBackward
    BY <2>5, IndexRollBackward
  <2>6. ASSUME NEW h \in Sessions, Handle(h) PROVE Index'
    BY <1>2, <2>6, IndexSaveAsset, IndexInsert, IndexInsertReturns, IndexDelete
    DEF Handle
  <2>7. CASE Crash
    BY <2>7, IndexCrash
  <2>8. CASE ConnectionCloses
    BY <2>8, IndexCloses
  <2>9. ASSUME NEW h \in Sessions, InsertFails(h) \/ DeleteFails(h) PROVE Index'
    BY <1>2, <2>9, IndexInsertFails, IndexDelete
  <2> QED BY <2>1, <2>2, <2>3, <2>4, <2>5, <2>6, <2>7, <2>8, <2>9 DEF Next, Faults
<1> QED BY <1>1, <1>3 DEF IndexInv, Index

\* TypeCorrect: every reachable state has the declared shapes, for any number of
\* assets, blocks and slots (the mint loop of rollForward never leaves its block).
THEOREM TypeCorrect == Spec => []TypeOK
<1>1. Init => TypeOK /\ Control
  BY TypeInit, ControlInit
<1>2. TypeOK /\ Control /\ [Next]_vars => (TypeOK /\ Control)'
  BY TypeNext, ControlNext
<1> QED BY <1>1, <1>2, PTL DEF Spec

\* IndexInvariant: the strengthened invariant from which the next three follow.
THEOREM IndexInvariant == Spec => []IndexInv
  BY IndexInvInit, IndexInvNext, PTL DEF Spec

\* NoMintIsLost: while no cause of a lapse has occurred and no block mints more
\* than two assets, what the follower was given is in the table or the cache.
THEOREM NoMintIsLost == Spec => []NothingMissed
<1>1. IndexInv => NothingMissed
  BY DEF IndexInv
<1> QED BY <1>1, IndexInvariant, PTL

\* RowsAreFirstAppearances: under the same condition every row records the first
\* slot that mints its asset, and no earlier mint lacks its row.
THEOREM RowsAreFirstAppearances == Spec => []FirstAppearance
<1>1. IndexInv => FirstAppearance
  BY DEF IndexInv
<1> QED BY <1>1, IndexInvariant, PTL

\* OffsetOfOneSuffices: under the same condition resuming at the second most
\* recent row skips no mint, rows without a block included.
THEOREM OffsetOfOneSuffices == Spec => []ResumeSkipsNothing
<1>1. IndexInv => ResumeSkipsNothing
  BY DEF IndexInv
<1> QED BY <1>1, IndexInvariant, PTL

Asked == {"publishing", "published", "lost"}

LEMMA JobForRowNext ==
  TypeOK /\ Control /\ JobForRow /\ [Next]_vars => JobForRow'
<1> SUFFICES ASSUME TypeOK, Control, JobForRow, [Next]_vars,
                    NEW a \in Assets, table'[a] # 0
             PROVE  \/ jobs'[a] \in Asked
                    \/ \E g \in Sessions : a \in handler'[g].returned
  BY DEF JobForRow, Rows, Asked
<1> USE DEF node, memory
<1>1. jobs[a] \in Asked <=> jobs[a] # "none"
  BY DEF TypeOK, JobStates, Asked
<1>2. table[a] # 0 => \/ jobs[a] \in Asked
                      \/ \E g \in Sessions : a \in handler[g].returned
  BY DEF JobForRow, Rows, Asked
<1>3. ASSUME NEW h \in Sessions, InsertAssets(h)
      PROVE  \/ jobs'[a] \in Asked
             \/ \E g \in Sessions : a \in handler'[g].returned
  <2>1. handler'[h].returned = Returned(table, handler[h].batch)
    BY <1>3 DEF InsertAssets, TypeOK, Handlers
  <2>2. handler[h].returned = {} /\ jobs' = jobs
    BY <1>3 DEF InsertAssets, Control
  <2>3. \A g \in Sessions : g # h => handler'[g] = handler[g]
    BY <1>3 DEF InsertAssets, TypeOK
  <2>4. CASE table[a] # 0
    BY <1>2, <2>2, <2>3, <2>4
  <2>5. CASE table[a] = 0
    BY SMTT(30), <1>3, <2>1, <2>5 DEF InsertAssets, InsertRows, Returned
  <2> QED BY <2>4, <2>5
<1>4. ASSUME ~ \E h \in Sessions : InsertAssets(h)
      PROVE  table[a] # 0
  BY <1>4 DEF Next, vars, ForgeBlock, SwitchFork, DbSyncForward, DbSyncBackward,
     Initialize, AskPoint, Start, RollForward, RollBackward, Handle, SaveAsset,
     InsertReturns, DeleteAssets, DeleteAfterSlot, Faults, Crash,
     ConnectionCloses, InsertFails, DeleteFails, PublishSucceeds, PublishFails
<1>5. ASSUME NEW g \in Sessions, a \in handler[g].returned,
             ~ \E h \in Sessions : InsertAssets(h)
      PROVE  \/ jobs'[a] \in Asked
             \/ \E h \in Sessions : a \in handler'[h].returned
  <2>1. handler[g].step = "inserted" /\ handler[g].returned # {}
    BY <1>5 DEF Control
  <2>2. CASE handler'[g] = handler[g]
    BY <1>5, <2>2
  <2>3. CASE InsertReturns(g)
    BY <1>5, <2>3 DEF InsertReturns, Published, Asked
  <2>4. CASE ConnectionCloses
    BY <1>5, <2>1, <2>4 DEF ConnectionCloses, Sessions
  <2>5. CASE InsertFails(g) \/ Crash
    <3>1. a \in Unasked(handler[g]) \/ jobs[a] \in Asked
      BY <1>1, <1>5 DEF Unasked
    <3>2. jobs'[a] = "lost" \/ jobs'[a] = jobs[a]
      BY <2>5 DEF InsertFails, Crash, Lost
    <3>3. a \in Unasked(handler[g]) => jobs'[a] = "lost"
      BY <2>5 DEF InsertFails, Crash, Lost
    <3> QED BY <3>1, <3>2, <3>3 DEF Asked
  <2>6. CASE ForgeBlock \/ SwitchFork \/ DbSyncForward \/ DbSyncBackward
               \/ Initialize \/ AskPoint \/ Start \/ UNCHANGED vars
               \/ \E b \in Assets : PublishSucceeds(b) \/ PublishFails(b)
    BY <2>2, <2>6 DEF ForgeBlock, SwitchFork, DbSyncForward, DbSyncBackward,
       Initialize, AskPoint, Start, PublishSucceeds, PublishFails, vars
  <2>7. CASE RollForward \/ RollBackward
    <3>1. handler["current"].step = "idle" /\ handler'["previous"] = handler["previous"]
      BY <2>7 DEF RollForward, RollBackward, SessionIdle, TypeOK, Sessions
    <3> QED BY <2>1, <2>2, <3>1 DEF Sessions
  <2>8. ASSUME NEW h \in Sessions,
               Handle(h) \/ InsertFails(h) \/ DeleteFails(h)
        PROVE  handler'[g] = handler[g] \/ InsertReturns(g) \/ InsertFails(g)
    <3>1. CASE h = g
      BY <1>5, <2>1, <2>8, <3>1
      DEF Handle, SaveAsset, DeleteAssets, DeleteFails
    <3>2. CASE h # g
      BY SMTT(30), <1>5, <2>8, <3>2
      DEF Handle, SaveAsset, InsertReturns, DeleteAssets, DeleteFails, InsertFails,
          Rewind, TypeOK
    <3> QED BY <3>1, <3>2
  <2> QED BY <2>2, <2>3, <2>4, <2>5, <2>6, <2>7, <2>8 DEF Next, Faults
<1>6. jobs[a] \in Asked => jobs'[a] \in Asked
  <2>1. ASSUME NEW b \in Assets, PublishSucceeds(b) \/ PublishFails(b)
        PROVE  jobs'[a] \in Asked \/ jobs'[a] = jobs[a]
    BY <2>1 DEF PublishSucceeds, PublishFails, Lost, TypeOK, Asked
  <2>2. ASSUME NEW h \in Sessions, InsertReturns(h) \/ InsertFails(h)
        PROVE  jobs'[a] \in Asked \/ jobs'[a] = jobs[a]
    BY <2>2 DEF InsertReturns, InsertFails, Published, Lost, Asked
  <2>3. CASE Crash
    BY <2>3 DEF Crash, Lost, Asked
  <2> QED
    BY <2>1, <2>2, <2>3
    DEF Next, vars, ForgeBlock, SwitchFork, DbSyncForward, DbSyncBackward, Initialize,
        AskPoint, Start, RollForward, RollBackward, Handle, SaveAsset, InsertAssets,
        DeleteAssets, Faults, ConnectionCloses, DeleteFails
<1> QED BY <1>2, <1>3, <1>4, <1>5, <1>6

\* EveryRowHasItsJob: for every row a publish was called, unless the handler that was
\* told of the row has yet to call it or was cut there; that a job asked for may still
\* be lost, as nothing awaits it, is part of the statement ("lost").
THEOREM EveryRowHasItsJob == Spec => []JobForRow
<1>1. Init => TypeOK /\ Control /\ JobForRow
  BY TypeInit, ControlInit DEF Init, JobForRow, Rows, NoRecord
<1>2. TypeOK /\ Control /\ JobForRow /\ [Next]_vars
        => (TypeOK /\ Control /\ JobForRow)'
  BY TypeNext, ControlNext, JobForRowNext
<1> QED BY <1>1, <1>2, PTL DEF Spec
=============================================================================
