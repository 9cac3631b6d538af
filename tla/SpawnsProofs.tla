---------------------------- MODULE SpawnsProofs ----------------------------
(***************************************************************************)
(* Theorems about Spawns, for any number of calls, roots and keys, and any *)
(* limits on depth, children, slots, minting and restarts, and in the      *)
(* second part about Streams, for any messages and sub-agents, nested as   *)
(* they may be: who is sent what a turn and what is spawned in it say.     *)
(***************************************************************************)
EXTENDS Spawns, Answers, WellFoundedInduction, TLAPS

\* A call whose key is reserved, one whose key has no row yet, one whose child
\* has its depth but no row, and one whose child has a row.
HoldingSteps  == CallingSteps \ {"admitted"}
RowlessSteps  == HoldingSteps \ {"proposed"}
BuiltSteps    == {"built", "stored", "listed"}
RecordedSteps == WorkingSteps \cup {"done", "lost"}

\* The parent of a call in progress keeps the depth it has on record, below
\* the cap; this is what bounds the depth of the child that is being built.
ParentHasDepth(c) ==
  /\ parentOf[c] \in Sessions /\ Known(parentOf[c])
  /\ depth[parentOf[c]] = DepthOnRecord(parentOf[c])
  /\ depth[parentOf[c]] < MaxSpawnDepth

CallInv(c) ==
  /\ step[c] \in CallingSteps => ParentHasDepth(c)
  /\ step[c] \in HoldingSteps => keyOf[c] \in Keys /\ keyOf[c] \in reserved
  /\ step[c] \in RowlessSteps => recordedDepth[keyOf[c]] = 0
  /\ step[c] \in BuiltSteps => depth[keyOf[c]] = DepthOnRecord(parentOf[c]) + 1
  /\ step[c] \in RecordedSteps =>
       /\ keyOf[c] \in Keys /\ parentOf[c] \in Sessions /\ Known(parentOf[c])
       /\ recordedDepth[keyOf[c]] = DepthOnRecord(parentOf[c]) + 1

KeysApart(c, d) ==
  /\ step[c] \in HoldingSteps /\ step[d] \in HoldingSteps => keyOf[c] # keyOf[d]
  /\ step[c] \in RecordedSteps /\ step[d] \in RecordedSteps => keyOf[c] # keyOf[d]

\* A turn that has ended has a verdict until its result is reported.
VerdictInv ==
  \A c \in Calls : step[c] \in {"ended", "settled", "committed"} => outcome[c] \in Verdicts

\* A session in the map that has a depth on record has that depth.
LiveInv == \A s \in live : Known(s) => depth[s] = DepthOnRecord(s)

\* The inductive invariant: keys are apart because a reservation is held from
\* the proposal to the row, and depths are right because a parent's never moves.
SpawnInv ==
  /\ TypeOK
  /\ \A c \in Calls : CallInv(c)
  /\ \A c, d \in Calls : c # d => KeysApart(c, d)
  /\ VerdictInv
  /\ LiveInv

USE DEF Sessions, Steps, CallingSteps, WorkingSteps, SlotSteps, FailureSteps,
        FinalSteps, Verdicts, Rows, HoldingSteps, RowlessSteps, BuiltSteps, RecordedSteps

-----------------------------------------------------------------------------
(* Types.                                                                  *)

\* Before the first call the types hold.
LEMMA TypeInit == Init => TypeOK
  BY SpawnsAssumption DEF Init, TypeOK

\* The steps of Spawn up to its reply keep the types; Build keeps the depth
\* below the cap because the parent's is.
LEMMA SpawnStepKeepsTypes ==
  ASSUME SpawnInv, NEW c \in Calls, SpawnStep(c)
  PROVE  TypeOK'
<1> USE SpawnsAssumption
    DEF SpawnInv, TypeOK, Move, spawnVars, treeVars, workVars, resultVars, sweepVars
<1>1. ASSUME NEW p \in Sessions, Admit(c, p) PROVE TypeOK'  BY <1>1 DEF Admit
<1>2. CASE Refuse(c)  BY <1>2 DEF Refuse
<1>3. ASSUME NEW k \in Keys, Reserve(c, k) PROVE TypeOK'  BY <1>3 DEF Reserve
<1>4. CASE MintGivesUp(c)  BY <1>4 DEF MintGivesUp
<1>5. CASE CheckKey(c)  BY <1>5 DEF CheckKey
<1>6. CASE CheckFails(c)  BY <1>6 DEF CheckFails
<1>7. CASE WorkInSourceRepository(c)  BY <1>7 DEF WorkInSourceRepository
<1>8. CASE OpenWorkspace(c)  BY <1>8 DEF OpenWorkspace
<1>9. CASE RefuseWorkspace(c)  BY <1>9 DEF RefuseWorkspace, RefuseHolding
<1>10. CASE Build(c)
  <2>1. CallInv(c) /\ step[c] = "furnished"  BY <1>10 DEF Build
  <2>2. depth[parentOf[c]] + 1 \in 0..MaxSpawnDepth
    BY <2>1 DEF CallInv, ParentHasDepth
  <2> QED BY <1>10, <2>2 DEF Build
<1>11. CASE BuildFails(c)  BY <1>11 DEF BuildFails, RefuseHolding
<1>12. CASE StoreChild(c)
  <2>1. CallInv(c) /\ step[c] = "built"  BY <1>12 DEF StoreChild
  <2>2. keyOf[c] \in Keys  BY <2>1 DEF CallInv
  <2> QED BY <1>12, <2>2 DEF StoreChild
<1>13. CASE ListChild(c)
  <2>1. CallInv(c) /\ step[c] = "stored"  BY <1>13 DEF ListChild
  <2>2. keyOf[c] \in Keys  BY <2>1 DEF CallInv
  <2> QED BY <1>13, <2>2 DEF ListChild
<1>14. CASE Accept(c)
  <2>1. CallInv(c) /\ step[c] = "listed"  BY <1>14 DEF Accept
  <2>2. keyOf[c] \in Keys  BY <2>1 DEF CallInv
  <2> QED BY <1>14, <2>2 DEF Accept
<1> QED
  BY <1>1, <1>2, <1>3, <1>4, <1>5, <1>6, <1>7, <1>8, <1>9, <1>10, <1>11, <1>12,
     <1>13, <1>14 DEF SpawnStep

\* One call's sequence of reports grows by one.
LEMMA AppendAt ==
  ASSUME NEW S, NEW T, NEW f \in [S -> Seq(T)], NEW x \in S, NEW m \in T
  PROVE  [f EXCEPT ![x] = Append(f[x], m)] \in [S -> Seq(T)]
  OBVIOUS

\* The steps of the goroutine keep the types.
LEMMA WorkStepKeepsTypes ==
  ASSUME SpawnInv, NEW c \in Calls, WorkStep(c)
  PROVE  TypeOK'
<1> USE DEF SpawnInv, TypeOK, Move, treeVars, workVars, resultVars, sweepVars, Delivered
<1>1. CASE OpenRow(c)  BY <1>1 DEF OpenRow
<1>2. CASE TakeSlot(c)  BY <1>2 DEF TakeSlot
<1>3. CASE EnqueueFails(c)  BY <1>3 DEF EnqueueFails
<1>4. CASE BeginTurn(c)  BY <1>4 DEF BeginTurn
<1>5. ASSUME NEW err \in BOOLEAN, TurnEnds(c, err) PROVE TypeOK'  BY <1>5 DEF TurnEnds
<1>6. CASE SettleRow(c)  BY <1>6 DEF SettleRow
<1>7. CASE Commit(c)  BY <1>7 DEF Commit
<1>8. CASE Report(c)
  <2>1. outcome[c] \in Verdicts  BY <1>8 DEF Report, VerdictInv
  <2>2. (IF parentOf[c] \in live THEN outcome[c] ELSE "undeliverable")
          \in Verdicts \cup {"undeliverable"}
    BY <2>1
  <2> QED BY <1>8, <2>2, AppendAt DEF Report
<1>9. CASE Return(c)  BY <1>9 DEF Return
<1>10. CASE CleanUp(c)  BY <1>10 DEF CleanUp
<1>11. CASE RewriteRow(c)  BY <1>11 DEF RewriteRow
<1>12. CASE ReportFailure(c)
  BY <1>12, AppendAt DEF ReportFailure
<1> QED
  BY <1>1, <1>2, <1>3, <1>4, <1>5, <1>6, <1>7, <1>8, <1>9, <1>10, <1>11, <1>12
     DEF WorkStep

\* The frames of a walk are sessions with the children still to visit.
LEMMA FramesKeepTypes ==
  ASSUME TypeOK, sweep # <<>>
  PROVE  /\ Top \in [at : Sessions, todo : SUBSET Keys]
         /\ Outer \in Seq([at : Sessions, todo : SUBSET Keys])
<1> DEFINE Frames == [at : Sessions, todo : SUBSET Keys]
<1>1. sweep \in Seq(Frames)  BY DEF TypeOK
<1> HIDE DEF Frames
<1>2. Len(sweep) \in Nat /\ Len(sweep) > 0  BY <1>1
<1>3. Top \in Frames  BY <1>1, <1>2 DEF Top
<1>4. Outer \in Seq(Frames)
  <2>1. \A i \in 1..(Len(sweep) - 1) : sweep[i] \in Frames  BY <1>1, <1>2
  <2> QED BY <1>1, <1>2, <2>1 DEF Outer
<1> QED BY <1>3, <1>4 DEF Frames

\* What others do keeps the types.
LEMMA EnvironmentKeepsTypes ==
  ASSUME SpawnInv, Environment
  PROVE  TypeOK'
<1> USE SpawnsAssumption
    DEF SpawnInv, TypeOK, spawnVars, treeVars, workVars, resultVars, sweepVars
<1> DEFINE Frames == [at : Sessions, todo : SUBSET Keys]
<1>1. ASSUME NEW c \in Calls, NEW how \in {"canceled", "expired"}, ContextEnds(c, how)
      PROVE  TypeOK'
  BY <1>1 DEF ContextEnds
<1>2. ASSUME NEW c \in Calls, Resolve(c) PROVE TypeOK'  BY <1>2 DEF Resolve
<1>3. ASSUME NEW s \in Sessions, Release(s) PROVE TypeOK'  BY <1>3 DEF Release
<1>4. ASSUME NEW s \in Sessions, Open(s) PROVE TypeOK'
  <2>1. s \in Roots => RootDepth[s] \in 0..MaxSpawnDepth  OBVIOUS
  <2>2. s \notin Roots => recordedDepth[s] \in 0..MaxSpawnDepth  OBVIOUS
  <2> QED BY <1>4, <2>1, <2>2 DEF Open
<1>5. ASSUME NEW s \in Sessions, BeginSweep(s) PROVE TypeOK'
  BY <1>5 DEF BeginSweep, Frame
<1>6. ASSUME NEW k \in Keys, Visit(k) PROVE TypeOK'
  <2>1. Top \in Frames /\ Outer \in Seq(Frames)
    BY <1>6, FramesKeepTypes DEF Visit
  <2>2. [Top EXCEPT !.todo = @ \ {k}] \in Frames  BY <2>1
  <2>3. Append(Outer, [Top EXCEPT !.todo = @ \ {k}]) \in Seq(Frames)  BY <2>1, <2>2
  <2>4. Frame(k) \in Frames  BY DEF Frame
  <2>5. sweep' \in Seq(Frames)
    <3>1. CASE k \in live
      <4>1. <<Frame(k)>> \in Seq(Frames)  BY <2>4
      <4> HIDE DEF Frames
      <4> QED BY <1>6, <2>3, <3>1, <4>1 DEF Visit
    <3>2. CASE k \notin live
      <4>1. <<>> \in Seq(Frames)  OBVIOUS
      <4> HIDE DEF Frames
      <4> QED BY <1>6, <2>3, <3>2, <4>1 DEF Visit
    <3> QED BY <3>1, <3>2
  <2> QED BY <1>6, <2>5 DEF Visit
<1>7. CASE StopSelf
  <2>1. Outer \in Seq(Frames)  BY <1>7, FramesKeepTypes DEF StopSelf
  <2> QED BY <1>7, <2>1 DEF StopSelf
<1>8. CASE Restart  BY <1>8 DEF Restart, ForgetMemory
<1> HIDE DEF SpawnInv, TypeOK
<1> QED
  BY <1>1, <1>2, <1>3, <1>4, <1>5, <1>6, <1>7, <1>8 DEF Environment

-----------------------------------------------------------------------------
(* Keys and depths.                                                        *)

\* Nothing has been called: the invariant holds of no call.
LEMMA InvInit == Init => SpawnInv
<1> SUFFICES ASSUME Init PROVE SpawnInv
  OBVIOUS
<1>1. TypeOK  BY TypeInit
<1>2. \A c \in Calls : step[c] = "new"  BY DEF Init
<1>3. LiveInv  BY DEF Init, LiveInv, Known, DepthOnRecord
<1> QED BY <1>1, <1>2, <1>3 DEF SpawnInv, CallInv, KeysApart, VerdictInv

\* A step that hands out no key and sets no depth: calls only move on or give
\* up, and a reservation is dropped only by the call that ends with it.
LEMMA QuietStep ==
  ASSUME SpawnInv,
         UNCHANGED <<parentOf, keyOf, depth, recordedDepth>>,
         \A c \in Calls :
           /\ step'[c] \in CallingSteps => step[c] \in CallingSteps
           /\ step'[c] \in HoldingSteps => step[c] \in HoldingSteps /\ keyOf[c] \in reserved'
           /\ step'[c] \in RowlessSteps => step[c] \in RowlessSteps
           /\ step'[c] \in BuiltSteps => step[c] \in BuiltSteps
           /\ step'[c] \in RecordedSteps => step[c] \in RecordedSteps
  PROVE  /\ \A c \in Calls : CallInv(c)'
         /\ \A c, d \in Calls : c # d => KeysApart(c, d)'
<1>1. ASSUME NEW c \in Calls PROVE CallInv(c)'
  <2>1. CallInv(c)  BY DEF SpawnInv
  <2>2. ParentHasDepth(c) => ParentHasDepth(c)'
    BY DEF ParentHasDepth, Known, DepthOnRecord
  <2>3. DepthOnRecord(parentOf[c])' = DepthOnRecord(parentOf[c])
    BY DEF DepthOnRecord
  <2>4. Known(parentOf[c])' = Known(parentOf[c])
    BY DEF Known
  <2> HIDE DEF CallingSteps, HoldingSteps, RowlessSteps, BuiltSteps, RecordedSteps
  <2> QED BY <2>1, <2>2, <2>3, <2>4 DEF CallInv
<1>2. ASSUME NEW c \in Calls, NEW d \in Calls, c # d PROVE KeysApart(c, d)'
  <2> HIDE DEF CallingSteps, HoldingSteps, RowlessSteps, BuiltSteps, RecordedSteps
  <2> QED BY <1>2 DEF SpawnInv, KeysApart
<1> QED BY <1>1, <1>2

\* One call moves on within its class of steps, and no key is released.
LEMMA QuietMove ==
  ASSUME SpawnInv, NEW c \in Calls, NEW from, NEW to, Move(c, from, to),
         UNCHANGED <<parentOf, keyOf, depth, recordedDepth, reserved>>,
         /\ to \in CallingSteps => from \in CallingSteps
         /\ to \in HoldingSteps => from \in HoldingSteps
         /\ to \in RowlessSteps => from \in RowlessSteps
         /\ to \in BuiltSteps => from \in BuiltSteps
         /\ to \in RecordedSteps => from \in RecordedSteps
  PROVE  /\ \A d \in Calls : CallInv(d)'
         /\ \A d, e \in Calls : d # e => KeysApart(d, e)'
<1>1. \A d \in Calls : step'[d] = IF d = c THEN to ELSE step[d]
  BY DEF Move, SpawnInv, TypeOK
<1>2. step[c] = from  BY DEF Move
<1>3. \A d \in Calls : step[d] \in HoldingSteps => keyOf[d] \in reserved'
  BY DEF SpawnInv, CallInv
<1> HIDE DEF CallingSteps, HoldingSteps, RowlessSteps, BuiltSteps, RecordedSteps
<1>4. \A d \in Calls :
           /\ step'[d] \in CallingSteps => step[d] \in CallingSteps
           /\ step'[d] \in HoldingSteps => step[d] \in HoldingSteps /\ keyOf[d] \in reserved'
           /\ step'[d] \in RowlessSteps => step[d] \in RowlessSteps
           /\ step'[d] \in BuiltSteps => step[d] \in BuiltSteps
           /\ step'[d] \in RecordedSteps => step[d] \in RecordedSteps
  BY <1>1, <1>2, <1>3
<1> QED BY <1>4, QuietStep

\* A call that is refused releases its own key and nobody else's.
LEMMA RefusalReleasesOneKey ==
  ASSUME SpawnInv, NEW c \in Calls, step[c] \in HoldingSteps,
         step' = [step EXCEPT ![c] = "refused"],
         reserved' = reserved \ {keyOf[c]},
         UNCHANGED <<parentOf, keyOf, depth, recordedDepth>>
  PROVE  /\ \A d \in Calls : CallInv(d)'
         /\ \A d, e \in Calls : d # e => KeysApart(d, e)'
<1>1. \A d \in Calls : step'[d] = IF d = c THEN "refused" ELSE step[d]
  BY DEF SpawnInv, TypeOK
<1>2. \A d \in Calls : d # c /\ step[d] \in HoldingSteps => keyOf[d] \in reserved'
  <2> HIDE DEF HoldingSteps
  <2> QED BY DEF SpawnInv, CallInv, KeysApart
<1>3. /\ "refused" \notin CallingSteps /\ "refused" \notin HoldingSteps
      /\ "refused" \notin RowlessSteps /\ "refused" \notin BuiltSteps
      /\ "refused" \notin RecordedSteps
  OBVIOUS
<1> HIDE DEF CallingSteps, HoldingSteps, RowlessSteps, BuiltSteps, RecordedSteps
<1>4. \A d \in Calls :
           /\ step'[d] \in CallingSteps => step[d] \in CallingSteps
           /\ step'[d] \in HoldingSteps => step[d] \in HoldingSteps /\ keyOf[d] \in reserved'
           /\ step'[d] \in RowlessSteps => step[d] \in RowlessSteps
           /\ step'[d] \in BuiltSteps => step[d] \in BuiltSteps
           /\ step'[d] \in RecordedSteps => step[d] \in RecordedSteps
  BY <1>1, <1>2, <1>3
<1> QED BY <1>4, QuietStep

\* The admission of a call finds the parent's depth below the cap.
LEMMA AdmitKeepsInv ==
  ASSUME SpawnInv, NEW c \in Calls, NEW p \in Sessions, Admit(c, p)
  PROVE  /\ \A d \in Calls : CallInv(d)'
         /\ \A d, e \in Calls : d # e => KeysApart(d, e)'
<1> USE DEF Admit, Move, treeVars, SpawnInv, TypeOK
<1>0. depth[p] = DepthOnRecord(p)  BY DEF LiveInv
<1>1. ASSUME NEW d \in Calls PROVE CallInv(d)'
  <2>1. CASE d = c
    BY <1>0, <2>1 DEF CallInv, ParentHasDepth, DepthOnRecord, Known
  <2>2. CASE d # c
    <3>1. UNCHANGED <<step[d], parentOf[d], keyOf, depth, recordedDepth, reserved>>
      BY <2>2
    <3>2. CallInv(d)  OBVIOUS
    <3> HIDE DEF SpawnInv, TypeOK, CallingSteps, HoldingSteps, RowlessSteps, BuiltSteps, RecordedSteps, Admit
    <3> QED BY <3>1, <3>2 DEF CallInv, ParentHasDepth, DepthOnRecord, Known
  <2> QED BY <2>1, <2>2
<1>2. ASSUME NEW d \in Calls, NEW e \in Calls, d # e PROVE KeysApart(d, e)'
  BY <1>2 DEF KeysApart
<1> QED BY <1>1, <1>2

\* A key that was not reserved is nobody else's reservation.
LEMMA ReserveKeepsInv ==
  ASSUME SpawnInv, NEW c \in Calls, NEW k \in Keys, Reserve(c, k)
  PROVE  /\ \A d \in Calls : CallInv(d)'
         /\ \A d, e \in Calls : d # e => KeysApart(d, e)'
<1> USE DEF Reserve, treeVars, SpawnInv, TypeOK
<1>1. ASSUME NEW d \in Calls PROVE CallInv(d)'
  <2>1. CASE d = c
    BY <2>1 DEF CallInv, ParentHasDepth, DepthOnRecord, Known
  <2>2. CASE d # c
    <3>1. UNCHANGED <<step[d], parentOf, keyOf[d], depth, recordedDepth>> /\ reserved \subseteq reserved'
      BY <2>2
    <3>2. CallInv(d)  OBVIOUS
    <3> HIDE DEF SpawnInv, TypeOK, CallingSteps, HoldingSteps, RowlessSteps, BuiltSteps, RecordedSteps, Reserve
    <3> QED BY <3>1, <3>2 DEF CallInv, ParentHasDepth, DepthOnRecord, Known
  <2> QED BY <2>1, <2>2
<1>2. ASSUME NEW d \in Calls, NEW e \in Calls, d # e PROVE KeysApart(d, e)'
  <2>1. KeysApart(d, e) /\ CallInv(d) /\ CallInv(e)  BY <1>2
  <2>2. CASE d = c
    <3>1. UNCHANGED <<step[e], keyOf[e]>>  BY <1>2, <2>2
    <3> QED BY <2>1, <2>2, <3>1 DEF KeysApart, CallInv
  <2>3. CASE e = c
    <3>1. UNCHANGED <<step[d], keyOf[d]>>  BY <1>2, <2>3
    <3> QED BY <2>1, <2>3, <3>1 DEF KeysApart, CallInv
  <2>4. CASE d # c /\ e # c
    <3>1. UNCHANGED <<step[e], keyOf[e], step[d], keyOf[d]>>  BY <2>4
    <3> QED BY <2>1, <3>1 DEF KeysApart
  <2> QED BY <2>2, <2>3, <2>4
<1> QED BY <1>1, <1>2

\* A key that passes the check has no row; one that fails it is released.
LEMMA CheckKeyKeepsInv ==
  ASSUME SpawnInv, NEW c \in Calls, CheckKey(c)
  PROVE  /\ \A d \in Calls : CallInv(d)'
         /\ \A d, e \in Calls : d # e => KeysApart(d, e)'
<1> USE DEF CheckKey, treeVars, SpawnInv, TypeOK
<1>1. ASSUME NEW d \in Calls PROVE CallInv(d)'
  <2>1. CASE d = c
    BY <2>1 DEF CallInv, ParentHasDepth, DepthOnRecord, Known, InUse
  <2>2. CASE d # c
    <3>1. UNCHANGED <<step[d], parentOf, keyOf, depth, recordedDepth>>
      BY <2>2
    <3>2. CallInv(d) /\ CallInv(c) /\ KeysApart(c, d) /\ step[c] = "proposed"  BY <2>2
    <3>3. step[d] \in HoldingSteps => keyOf[d] \in reserved'
      BY <3>2 DEF CallInv, KeysApart
    <3> HIDE DEF SpawnInv, TypeOK, CallingSteps, HoldingSteps, RowlessSteps, BuiltSteps, RecordedSteps, CheckKey
    <3> QED BY <3>1, <3>2, <3>3 DEF CallInv, ParentHasDepth, DepthOnRecord, Known
  <2> QED BY <2>1, <2>2
<1>2. ASSUME NEW d \in Calls, NEW e \in Calls, d # e PROVE KeysApart(d, e)'
  BY <1>2 DEF KeysApart
<1> QED BY <1>1, <1>2

\* The child under construction gets a depth; no parent of anyone changes its
\* own, since a child without a row is not known.
LEMMA BuildKeepsInv ==
  ASSUME SpawnInv, NEW c \in Calls, Build(c)
  PROVE  /\ \A d \in Calls : CallInv(d)'
         /\ \A d, e \in Calls : d # e => KeysApart(d, e)'
<1> USE SpawnsAssumption DEF Build, Move, SpawnInv, TypeOK
<1> DEFINE k == keyOf[c]
<1>1. CallInv(c) /\ step[c] = "furnished"  OBVIOUS
<1>2. k \in Keys /\ recordedDepth[k] = 0  BY <1>1 DEF CallInv
<1>3. \A s \in Sessions : Known(s) => depth'[s] = depth[s]
  BY <1>2 DEF Known
<1>4. depth'[k] = DepthOnRecord(parentOf[c]) + 1
  BY <1>1, <1>2 DEF CallInv, ParentHasDepth
<1>5. ASSUME NEW d \in Calls PROVE CallInv(d)'
  <2>1. CASE d = c
    <3>1. step'[d] = "built"  BY <2>1
    <3> QED BY <1>1, <1>3, <1>4, <2>1, <3>1 DEF CallInv, ParentHasDepth, DepthOnRecord, Known
  <2>2. CASE d # c
    <3>1. UNCHANGED <<step[d], parentOf, keyOf, recordedDepth, reserved>>  BY <2>2
    <3>2. CallInv(d) /\ KeysApart(c, d)  BY <2>2
    <3>3. step[d] \in BuiltSteps => depth'[keyOf[d]] = depth[keyOf[d]]
      BY <1>1, <1>2, <3>2 DEF CallInv, KeysApart
    <3> HIDE DEF SpawnInv, TypeOK, CallingSteps, HoldingSteps, RowlessSteps, BuiltSteps, RecordedSteps, Build
    <3> QED BY <1>3, <3>1, <3>2, <3>3 DEF CallInv, ParentHasDepth, DepthOnRecord, Known
  <2> QED BY <2>1, <2>2
<1>6. ASSUME NEW d \in Calls, NEW e \in Calls, d # e PROVE KeysApart(d, e)'
  BY <1>6 DEF KeysApart
<1> QED BY <1>5, <1>6

\* The child's row records the depth it was built with.
LEMMA AcceptKeepsInv ==
  ASSUME SpawnInv, NEW c \in Calls, Accept(c)
  PROVE  /\ \A d \in Calls : CallInv(d)'
         /\ \A d, e \in Calls : d # e => KeysApart(d, e)'
<1> USE SpawnsAssumption DEF Accept, Move, SpawnInv, TypeOK
<1> DEFINE k == keyOf[c]
<1>1. CallInv(c) /\ step[c] = "listed"  OBVIOUS
<1>2. k \in Keys /\ recordedDepth[k] = 0  BY <1>1 DEF CallInv
<1>3. \A s \in Sessions : Known(s) => Known(s)' /\ DepthOnRecord(s)' = DepthOnRecord(s)
  BY <1>2 DEF Known, DepthOnRecord
<1>4. recordedDepth'[k] = DepthOnRecord(parentOf[c])' + 1
  BY <1>1, <1>2, <1>3 DEF CallInv, ParentHasDepth
<1>5. ASSUME NEW d \in Calls PROVE CallInv(d)'
  <2>1. CASE d = c
    <3>1. step'[d] = "accepted"  BY <2>1
    <3>2. parentOf[c] \in Sessions /\ Known(parentOf[c])
      BY <1>1 DEF CallInv, ParentHasDepth
    <3> QED BY <1>2, <1>3, <1>4, <2>1, <3>1, <3>2 DEF CallInv
  <2>2. CASE d # c
    <3>1. UNCHANGED <<step[d], parentOf, keyOf, depth>>  BY <2>2
    <3>2. CallInv(d) /\ KeysApart(c, d)  BY <2>2
    <3>3. step[d] \in HoldingSteps => keyOf[d] \in reserved' /\ keyOf[d] # k
      BY <1>1, <3>2 DEF CallInv, KeysApart
    <3>4. step[d] \in RecordedSteps => recordedDepth'[keyOf[d]] = recordedDepth[keyOf[d]]
      <4>1. step[d] \in RecordedSteps => parentOf[d] \in Sessions /\ recordedDepth[keyOf[d]] # 0
        <5>1. step[d] \in RecordedSteps => DepthOnRecord(parentOf[d]) \in Nat
          BY <3>2 DEF CallInv, DepthOnRecord
        <5> QED BY <3>2, <5>1 DEF CallInv
      <4> QED BY <1>2, <3>2, <4>1
    <3>5. step[d] \in RowlessSteps => recordedDepth'[keyOf[d]] = recordedDepth[keyOf[d]]
      BY <3>2, <3>3 DEF CallInv
    <3>6. step[d] \in BuiltSteps => step[d] \in CallingSteps
      OBVIOUS
    <3> HIDE DEF SpawnInv, TypeOK, CallingSteps, HoldingSteps, RowlessSteps, BuiltSteps, RecordedSteps, Accept
    <3> QED BY <1>3, <3>1, <3>2, <3>3, <3>4, <3>5, <3>6 DEF CallInv, ParentHasDepth
  <2> QED BY <2>1, <2>2
<1>6. ASSUME NEW d \in Calls, NEW e \in Calls, d # e PROVE KeysApart(d, e)'
  <2>1. KeysApart(d, e) /\ CallInv(d) /\ CallInv(e)  BY <1>6
  <2>2. \A x \in Calls : step[x] \in RecordedSteps => keyOf[x] # k
    <3> SUFFICES ASSUME NEW x \in Calls, step[x] \in RecordedSteps PROVE keyOf[x] # k
      OBVIOUS
    <3>1. CallInv(x)  OBVIOUS
    <3>2. DepthOnRecord(parentOf[x]) \in Nat  BY <3>1 DEF CallInv, DepthOnRecord
    <3> QED BY <1>2, <3>1, <3>2 DEF CallInv
  <2> QED BY <1>6, <2>1, <2>2 DEF KeysApart
<1> QED BY <1>5, <1>6

\* The steps of Spawn up to its reply keep the keys apart and the depths right.
LEMMA SpawnStepKeepsCalls ==
  ASSUME SpawnInv, NEW c \in Calls, SpawnStep(c)
  PROVE  /\ \A d \in Calls : CallInv(d)'
         /\ \A d, e \in Calls : d # e => KeysApart(d, e)'
<1> USE DEF treeVars, RefuseHolding
<1>1. ASSUME NEW p \in Sessions, Admit(c, p)
      PROVE  /\ \A d \in Calls : CallInv(d)'
             /\ \A d, e \in Calls : d # e => KeysApart(d, e)'
  BY <1>1, AdmitKeepsInv
<1>2. ASSUME NEW k \in Keys, Reserve(c, k)
      PROVE  /\ \A d \in Calls : CallInv(d)'
             /\ \A d, e \in Calls : d # e => KeysApart(d, e)'
  BY <1>2, ReserveKeepsInv
<1>3. CASE CheckKey(c)  BY <1>3, CheckKeyKeepsInv
<1>4. CASE Build(c)     BY <1>4, BuildKeepsInv
<1>5. CASE Accept(c)    BY <1>5, AcceptKeepsInv
<1>6. CASE Refuse(c)
  BY <1>6, QuietMove DEF Refuse
<1>7. CASE MintGivesUp(c)
  BY <1>7, QuietMove DEF MintGivesUp
<1>8. CASE WorkInSourceRepository(c)
  BY <1>8, QuietMove DEF WorkInSourceRepository
<1>9. CASE OpenWorkspace(c)
  BY <1>9, QuietMove DEF OpenWorkspace
<1>10. CASE StoreChild(c)
  BY <1>10, QuietMove DEF StoreChild
<1>11. CASE ListChild(c)
  BY <1>11, QuietMove DEF ListChild
<1>12. CASE CheckFails(c) \/ RefuseWorkspace(c) \/ BuildFails(c)
  BY <1>12, RefusalReleasesOneKey DEF CheckFails, RefuseWorkspace, BuildFails, Move
<1> QED
  BY <1>1, <1>2, <1>3, <1>4, <1>5, <1>6, <1>7, <1>8, <1>9, <1>10, <1>11, <1>12
     DEF SpawnStep

\* The goroutine touches no key, no depth and no row of lineage.
LEMMA WorkStepKeepsCalls ==
  ASSUME SpawnInv, NEW c \in Calls, WorkStep(c)
  PROVE  /\ \A d \in Calls : CallInv(d)'
         /\ \A d, e \in Calls : d # e => KeysApart(d, e)'
<1> DEFINE Quiet == /\ \A d \in Calls : CallInv(d)'
                    /\ \A d, e \in Calls : d # e => KeysApart(d, e)'
<1> USE DEF treeVars
<1>1. CASE OpenRow(c)       BY <1>1, QuietMove DEF OpenRow
<1>2. CASE TakeSlot(c)      BY <1>2, QuietMove DEF TakeSlot
<1>3. CASE EnqueueFails(c)  BY <1>3, QuietMove DEF EnqueueFails
<1>4. CASE BeginTurn(c)     BY <1>4, QuietMove DEF BeginTurn
<1>5. ASSUME NEW err \in BOOLEAN, TurnEnds(c, err) PROVE Quiet
  BY <1>5, QuietMove DEF TurnEnds
<1>6. CASE SettleRow(c)     BY <1>6, QuietMove DEF SettleRow
<1>7. CASE Commit(c)        BY <1>7, QuietMove DEF Commit
<1>8. CASE Report(c)        BY <1>8, QuietMove DEF Report
<1>9. CASE Return(c)
  <2>1. CASE c \in erred    BY <1>9, <2>1, QuietMove DEF Return
  <2>2. CASE c \notin erred BY <1>9, <2>2, QuietMove DEF Return
  <2> QED BY <2>1, <2>2
<1>10. CASE CleanUp(c)      BY <1>10, QuietMove DEF CleanUp
<1>11. CASE RewriteRow(c)   BY <1>11, QuietMove DEF RewriteRow
<1>12. CASE ReportFailure(c)  BY <1>12, QuietMove DEF ReportFailure
<1> QED
  BY <1>1, <1>2, <1>3, <1>4, <1>5, <1>6, <1>7, <1>8, <1>9, <1>10, <1>11, <1>12
     DEF WorkStep

\* Rebuilding a session puts the depth on record back; a restart abandons every
\* call that has no row yet.
LEMMA EnvironmentKeepsCalls ==
  ASSUME SpawnInv, Environment
  PROVE  /\ \A d \in Calls : CallInv(d)'
         /\ \A d, e \in Calls : d # e => KeysApart(d, e)'
<1> DEFINE Kept == /\ \A d \in Calls : CallInv(d)'
                   /\ \A d, e \in Calls : d # e => KeysApart(d, e)'
<1> SUFFICES Kept  OBVIOUS
<1>0. \A d \in Calls : step[d] \in HoldingSteps => keyOf[d] \in reserved
  BY DEF SpawnInv, CallInv
<1>1. ASSUME UNCHANGED <<spawnVars, depth, recordedDepth>> PROVE Kept
  BY <1>0, <1>1, QuietStep DEF spawnVars
<1>2. ASSUME NEW s \in Sessions, Open(s) PROVE Kept
  <2> USE DEF SpawnInv, TypeOK, Open, spawnVars
  <2>1. depth' = [depth EXCEPT ![s] = DepthOnRecord(s)] /\ Known(s)
    BY <1>2 DEF DepthOnRecord
  <2>2. UNCHANGED <<step, parentOf, keyOf, reserved, recordedDepth>>
    BY <1>2
  <2>3. ASSUME NEW d \in Calls PROVE CallInv(d)'
    <3>1. CallInv(d)  OBVIOUS
    <3>2. ParentHasDepth(d) => ParentHasDepth(d)'
      BY <2>1, <2>2 DEF ParentHasDepth, Known, DepthOnRecord
    <3>3. step[d] \in BuiltSteps => depth'[keyOf[d]] = depth[keyOf[d]]
      BY <2>1, <3>1, SpawnsAssumption DEF CallInv, Known
    <3>4. DepthOnRecord(parentOf[d])' = DepthOnRecord(parentOf[d]) /\ Known(parentOf[d])' = Known(parentOf[d])
      BY <2>2 DEF DepthOnRecord, Known
    <3> HIDE DEF SpawnInv, TypeOK, Open, CallingSteps, HoldingSteps, RowlessSteps, BuiltSteps, RecordedSteps
    <3> QED BY <2>2, <3>1, <3>2, <3>3, <3>4 DEF CallInv
  <2>4. ASSUME NEW d \in Calls, NEW e \in Calls, d # e PROVE KeysApart(d, e)'
    BY <2>2, <2>4 DEF KeysApart
  <2> QED BY <2>3, <2>4
<1>3. CASE Restart
  <2> USE DEF SpawnInv, TypeOK
  <2>1. /\ UNCHANGED <<parentOf, keyOf, recordedDepth>>
        /\ \A d \in Calls : step'[d] = IF step[d] \in CallingSteps THEN "abandoned"
                                       ELSE IF step[d] \in WorkingSteps THEN "lost" ELSE step[d]
    BY <1>3 DEF Restart, ForgetMemory
  <2>2. \A d \in Calls : /\ step'[d] \notin CallingSteps
                         /\ step'[d] \in RecordedSteps => step[d] \in RecordedSteps
    BY <2>1
  <2>3. ASSUME NEW d \in Calls PROVE CallInv(d)'
    <3>1. CallInv(d)  OBVIOUS
    <3>2. DepthOnRecord(parentOf[d])' = DepthOnRecord(parentOf[d]) /\ Known(parentOf[d])' = Known(parentOf[d])
      BY <2>1 DEF DepthOnRecord, Known
    <3>3. HoldingSteps \subseteq CallingSteps /\ RowlessSteps \subseteq CallingSteps /\ BuiltSteps \subseteq CallingSteps
      OBVIOUS
    <3> HIDE DEF SpawnInv, TypeOK, CallingSteps, HoldingSteps, RowlessSteps, BuiltSteps, RecordedSteps
    <3> QED BY <2>1, <2>2, <3>1, <3>2, <3>3 DEF CallInv
  <2>4. ASSUME NEW d \in Calls, NEW e \in Calls, d # e PROVE KeysApart(d, e)'
    <3>1. KeysApart(d, e)  BY <2>4
    <3>2. HoldingSteps \subseteq CallingSteps  OBVIOUS
    <3> HIDE DEF SpawnInv, TypeOK, CallingSteps, HoldingSteps, RecordedSteps
    <3> QED BY <2>1, <2>2, <3>1, <3>2 DEF KeysApart
  <2> QED BY <2>3, <2>4
<1>4. ASSUME NEW c \in Calls, NEW how \in {"canceled", "expired"}, ContextEnds(c, how) PROVE Kept
  BY <1>1, <1>4 DEF ContextEnds, treeVars
<1>5. ASSUME NEW c \in Calls, Resolve(c) PROVE Kept  BY <1>1, <1>5 DEF Resolve, treeVars
<1>6. ASSUME NEW s \in Sessions, Release(s) PROVE Kept  BY <1>1, <1>6 DEF Release
<1>7. ASSUME NEW s \in Sessions, BeginSweep(s) PROVE Kept  BY <1>1, <1>7 DEF BeginSweep, treeVars
<1>8. ASSUME NEW k \in Keys, Visit(k) PROVE Kept  BY <1>1, <1>8 DEF Visit, treeVars
<1>9. CASE StopSelf  BY <1>1, <1>9 DEF StopSelf, treeVars
<1> HIDE DEF Kept
<1> QED
  BY <1>2, <1>3, <1>4, <1>5, <1>6, <1>7, <1>8, <1>9 DEF Environment

\* A turn's verdict is set when it ends and forgotten only by a restart.
LEMMA VerdictStep == SpawnInv /\ [Next]_vars => VerdictInv'
<1> SUFFICES ASSUME SpawnInv, [Next]_vars PROVE VerdictInv'
  OBVIOUS
<1> USE DEF SpawnInv, TypeOK, VerdictInv, Move, spawnVars, workVars
<1>1. ASSUME NEW c \in Calls, SpawnStep(c) PROVE VerdictInv'
  <2>1. outcome' = outcome /\ \E to \in Steps : step' = [step EXCEPT ![c] = to]
                           /\ to \notin {"ended", "settled", "committed"}
    BY <1>1 DEF SpawnStep, Admit, Refuse, Reserve, MintGivesUp, CheckKey, CheckFails,
       RefuseHolding, WorkInSourceRepository, OpenWorkspace, RefuseWorkspace, Build,
       BuildFails, StoreChild, ListChild, Accept
  <2> QED BY <2>1
<1>2. ASSUME NEW c \in Calls, WorkStep(c) PROVE VerdictInv'
  <2>1. ASSUME NEW err \in BOOLEAN, TurnEnds(c, err) PROVE VerdictInv'
    BY <2>1 DEF TurnEnds
  <2>2. CASE SettleRow(c)  BY <2>2 DEF SettleRow
  <2>3. CASE Commit(c)     BY <2>3 DEF Commit
  <2>4. CASE OpenRow(c) \/ TakeSlot(c) \/ EnqueueFails(c) \/ BeginTurn(c)
    BY <2>4 DEF OpenRow, TakeSlot, EnqueueFails, BeginTurn
  <2>5. CASE Report(c) \/ CleanUp(c) \/ RewriteRow(c) \/ ReportFailure(c)
    BY <2>5 DEF Report, CleanUp, RewriteRow, ReportFailure
  <2>6. CASE Return(c)     BY <2>6 DEF Return
  <2> QED BY <1>2, <2>1, <2>2, <2>3, <2>4, <2>5, <2>6 DEF WorkStep
<1>3. CASE Environment
  <2>1. CASE Restart  BY <2>1 DEF Restart, ForgetMemory
  <2>2. CASE ~Restart
    <3>1. UNCHANGED <<step, outcome>>
      BY <1>3, <2>2 DEF Environment, ContextEnds, Resolve, Release, Open, BeginSweep,
         Visit, StopSelf
    <3> QED BY <3>1
  <2> QED BY <2>1, <2>2
<1>4. CASE UNCHANGED vars  BY <1>4 DEF vars
<1> QED BY <1>1, <1>2, <1>3, <1>4 DEF Next

\* A session enters the map before its depth is on record, or with the depth
\* that is; Accept puts on record the depth the session has.
LEMMA LiveStep == SpawnInv /\ [Next]_vars => LiveInv'
<1> SUFFICES ASSUME SpawnInv, [Next]_vars PROVE LiveInv'
  OBVIOUS
<1> USE SpawnsAssumption DEF SpawnInv, TypeOK, LiveInv, Known, DepthOnRecord
<1>1. ASSUME UNCHANGED <<depth, recordedDepth>>, live' \subseteq live PROVE LiveInv'
  BY <1>1
<1>2. ASSUME NEW c \in Calls, SpawnStep(c) PROVE LiveInv'
  <2> USE DEF Move
  <2>1. CASE Build(c)
    <3>1. keyOf[c] \in Keys /\ recordedDepth[keyOf[c]] = 0
      BY <2>1 DEF Build, CallInv
    <3> QED BY <2>1, <3>1 DEF Build
  <2>2. CASE StoreChild(c)
    <3>1. keyOf[c] \in Keys /\ recordedDepth[keyOf[c]] = 0
      BY <2>2 DEF StoreChild, CallInv
    <3> QED BY <2>2, <3>1 DEF StoreChild
  <2>3. CASE Accept(c)
    <3>1. keyOf[c] \in Keys /\ recordedDepth[keyOf[c]] = 0
      BY <2>3 DEF Accept, CallInv
    <3> QED BY <2>3, <3>1 DEF Accept
  <2>4. CASE ~Build(c) /\ ~StoreChild(c) /\ ~Accept(c)
    <3>1. UNCHANGED <<depth, recordedDepth, live>>
      BY <1>2, <2>4 DEF SpawnStep, Admit, Refuse, Reserve, MintGivesUp, CheckKey,
         CheckFails, RefuseHolding, WorkInSourceRepository, OpenWorkspace,
         RefuseWorkspace, BuildFails, ListChild, treeVars
    <3> QED BY <1>1, <3>1
  <2> QED BY <2>1, <2>2, <2>3, <2>4
<1>3. ASSUME NEW c \in Calls, WorkStep(c) PROVE LiveInv'
  <2>1. UNCHANGED treeVars
    BY <1>3 DEF WorkStep, OpenRow, TakeSlot, EnqueueFails, BeginTurn, TurnEnds, SettleRow,
       Commit, Report, Return, CleanUp, RewriteRow, ReportFailure
  <2> QED BY <1>1, <2>1 DEF treeVars
<1>4. CASE Environment
  <2>1. CASE Restart  BY <2>1 DEF Restart, ForgetMemory
  <2>2. ASSUME NEW s \in Sessions, Open(s) PROVE LiveInv'
    BY <2>2 DEF Open
  <2>3. CASE ~Restart /\ \A s \in Sessions : ~Open(s)
    <3>1. UNCHANGED <<depth, recordedDepth>> /\ live' \subseteq live
      BY <1>4, <2>3 DEF Environment, ContextEnds, Resolve, Release, BeginSweep,
         Visit, StopSelf, treeVars
    <3> QED BY <1>1, <3>1
  <2> QED BY <2>1, <2>2, <2>3
<1>5. CASE UNCHANGED vars  BY <1>1, <1>5 DEF vars
<1> QED BY <1>2, <1>3, <1>4, <1>5 DEF Next

\* SpawnInv is inductive.
LEMMA InvStep == SpawnInv /\ [Next]_vars => SpawnInv'
<1> SUFFICES ASSUME SpawnInv, [Next]_vars PROVE SpawnInv'
  OBVIOUS
<1>1. VerdictInv' /\ LiveInv'  BY VerdictStep, LiveStep
<1>2. ASSUME NEW c \in Calls, SpawnStep(c) PROVE SpawnInv'
  BY <1>1, <1>2, SpawnStepKeepsTypes, SpawnStepKeepsCalls DEF SpawnInv
<1>3. ASSUME NEW c \in Calls, WorkStep(c) PROVE SpawnInv'
  BY <1>1, <1>3, WorkStepKeepsTypes, WorkStepKeepsCalls DEF SpawnInv
<1>4. CASE Environment
  BY <1>1, <1>4, EnvironmentKeepsTypes, EnvironmentKeepsCalls DEF SpawnInv
<1>5. CASE UNCHANGED vars
  <2>1. TypeOK'  BY <1>5 DEF vars, SpawnInv, TypeOK
  <2>2. \A c \in Calls : CallInv(c)'
    BY <1>5 DEF vars, SpawnInv, CallInv, ParentHasDepth, Known, DepthOnRecord
  <2>3. \A c, d \in Calls : c # d => KeysApart(c, d)'
    BY <1>5 DEF vars, SpawnInv, KeysApart
  <2> QED BY <1>1, <2>1, <2>2, <2>3 DEF SpawnInv
<1> QED BY <1>2, <1>3, <1>4, <1>5 DEF Next

\* The reservation of a key and the depth of its parent are held from the
\* proposal to the row, whatever runs between: the invariant behind the rest.
THEOREM SpawnInvariant == Spec => []SpawnInv
  BY InvInit, InvStep, PTL DEF Spec

\* Every variable of the spawn tree keeps its type; in particular no session
\* is built by Spawn deeper than MaxSpawnDepth, in any number of processes.
THEOREM TypeCorrect == Spec => []TypeOK
<1>1. SpawnInv => TypeOK  BY DEF SpawnInv
<1> QED BY <1>1, SpawnInvariant, PTL

\* mintUnusedSessionKey never hands one key to two children.
THEOREM UniqueKeys == Spec => []KeysAreUnique
<1>1. SpawnInv => KeysAreUnique
  <2> SUFFICES ASSUME SpawnInv, NEW c \in Calls, NEW d \in Calls, c # d,
                      step[c] \in OwningSteps, step[d] \in OwningSteps
               PROVE  keyOf[c] # keyOf[d]
    BY DEF KeysAreUnique
  <2>1. CallInv(c) /\ CallInv(d) /\ KeysApart(c, d)  BY DEF SpawnInv
  <2>2. \A x \in Calls : CallInv(x) /\ step[x] \in RecordedSteps => recordedDepth[keyOf[x]] # 0
    BY SpawnsAssumption DEF CallInv, DepthOnRecord, SpawnInv, TypeOK
  <2>3. OwningSteps = RowlessSteps \cup RecordedSteps  BY DEF OwningSteps
  <2>4. RowlessSteps \subseteq HoldingSteps  OBVIOUS
  <2> HIDE DEF RowlessSteps, RecordedSteps, HoldingSteps
  <2> QED BY <2>1, <2>2, <2>3, <2>4 DEF CallInv, KeysApart
<1> QED BY <1>1, SpawnInvariant, PTL

\* The depth on record is the number of ancestors, across restarts.
THEOREM DepthsCountAncestors == Spec => []DepthCountsAncestors
<1>1. SpawnInv => DepthCountsAncestors
  BY SpawnsAssumption DEF SpawnInv, CallInv, DepthCountsAncestors, DepthOnRecord
<1> QED BY <1>1, SpawnInvariant, PTL

\* A child has a place of its own in the tree: a key nobody else has and a depth
\* that counts its ancestors (mintUnusedSessionKey, recordChildSession).
THEOREM PlacesAreKept == Spec => []ChildrenHaveTheirPlace
<1>1. KeysAreUnique /\ DepthCountsAncestors => ChildrenHaveTheirPlace
  BY DEF ChildrenHaveTheirPlace
<1> QED BY <1>1, UniqueKeys, DepthsCountAncestors, PTL

-----------------------------------------------------------------------------
(* How a call ends.                                                        *)

\* Nothing is reported before there is a workspace to name in a report, and the
\* steps whose row is not open yet or never will be.
UnreportedSteps == {"new", "admitted", "proposed", "minted", "furnished"}
RowOpenSteps    == WorkingSteps \ {"accepted"}

\* The last report is the row's verdict, or could not be delivered.
ReportAgrees(c) ==
  reports[c] # <<>> /\ reports[c][Len(reports[c])] \in {row[c], "undeliverable"}

\* What a call has left behind at each of its steps: a workspace only from
\* OpenWorkspace to the cleanup of a failure, a row that reads running only under
\* the goroutine, and, from the end of the turn on, a row, a report and an error
\* that say the same.
SettledInv(c) ==
  /\ step[c] \in UnreportedSteps => reports[c] = <<>>
  /\ step[c] \in UnreportedSteps \ {"furnished"} => workspace[c] = "none"
  /\ step[c] = "furnished" => workspace[c] \in {"none", "open"}
  /\ step[c] \in {"refused", "cleaned", "rewritten"} => workspace[c] \in {"none", "cleaned"}
  /\ row[c] = "running" => step[c] \in RowOpenSteps
  /\ step[c] \in {"ended", "settled", "committed", "reported"} /\ outcome[c] = "error" =>
       c \in erred
  /\ step[c] \in {"settled", "committed", "reported"} =>
       row[c] = outcome[c] /\ row[c] \in Verdicts
  /\ step[c] = "rewritten" => row[c] = "error"
  /\ step[c] \in {"reported", "done"} => ReportAgrees(c)
  /\ step[c] = "done" =>
       /\ row[c] \in Verdicts
       /\ row[c] = "error" => workspace[c] \in {"none", "cleaned"}
AllSettled == \A c \in Calls : SettledInv(c)

\* A call nothing happened to is as settled as it was.
LEMMA SettledFrame ==
  ASSUME NEW d \in Calls, SettledInv(d),
         step'[d] = step[d], workspace'[d] = workspace[d], row'[d] = row[d],
         reports'[d] = reports[d], outcome'[d] = outcome[d], d \in erred => d \in erred'
  PROVE  SettledInv(d)'
<1> HIDE DEF UnreportedSteps, RowOpenSteps, Verdicts
<1> QED BY DEF SettledInv, ReportAgrees

\* A step of one call settles every call if it settles that one.
LEMMA SettledMove ==
  ASSUME AllSettled, NEW c \in Calls,
         \A d \in Calls \ {c} :
           /\ step'[d] = step[d] /\ workspace'[d] = workspace[d] /\ row'[d] = row[d]
           /\ reports'[d] = reports[d] /\ outcome'[d] = outcome[d]
           /\ d \in erred => d \in erred',
         SettledInv(c)'
  PROVE  AllSettled'
<1>1. ASSUME NEW d \in Calls PROVE SettledInv(d)'
  <2>1. CASE d = c  BY <2>1
  <2>2. CASE d # c  BY <2>2, SettledFrame DEF AllSettled
  <2> QED BY <2>1, <2>2
<1> QED BY <1>1 DEF AllSettled

\* The report that was added last is the last one.
LEMMA LastOfAppend ==
  ASSUME NEW T, NEW s \in Seq(T), NEW x \in T
  PROVE  Append(s, x) # <<>> /\ Append(s, x)[Len(Append(s, x))] = x
  OBVIOUS

\* Nothing has been called, opened or reported.
LEMMA SettledInit == Init => AllSettled
  BY DEF Init, AllSettled, SettledInv

\* Spawn, up to its reply, opens a workspace only on its way to a furnished
\* child, and every return with an error has cleaned it up.
LEMMA SpawnStepSettles ==
  ASSUME SpawnInv, AllSettled, NEW c \in Calls, SpawnStep(c)
  PROVE  AllSettled'
<1> USE DEF SpawnInv, TypeOK, Move, workVars, resultVars, UnreportedSteps, RowOpenSteps
<1>0. SettledInv(c)  BY DEF AllSettled
<1>1. ASSUME UNCHANGED <<workspace, row, reports, outcome, erred>>,
             NEW to, step' = [step EXCEPT ![c] = to],
             \/ step[c] \in UnreportedSteps \ {"furnished"} /\ to \in UnreportedSteps \cup {"refused"}
             \/ step[c] \in CallingSteps /\ to \in {"built", "stored", "listed", "accepted"}
      PROVE  AllSettled'
  <2>1. SettledInv(c)'  BY <1>0, <1>1 DEF SettledInv
  <2> QED BY <1>1, <2>1, SettledMove
<1>2. ASSUME NEW p \in Sessions, Admit(c, p) PROVE AllSettled'  BY <1>1, <1>2 DEF Admit
<1>3. ASSUME NEW k \in Keys, Reserve(c, k) PROVE AllSettled'  BY <1>1, <1>3 DEF Reserve
<1>4. CASE Refuse(c)  BY <1>1, <1>4 DEF Refuse
<1>5. CASE MintGivesUp(c)  BY <1>1, <1>5 DEF MintGivesUp
<1>6. CASE CheckKey(c)  BY <1>1, <1>6 DEF CheckKey
<1>7. CASE CheckFails(c)  BY <1>1, <1>7 DEF CheckFails
<1>8. CASE WorkInSourceRepository(c)  BY <1>1, <1>8 DEF WorkInSourceRepository
<1>9. CASE OpenWorkspace(c)
  <2>1. SettledInv(c)'  BY <1>0, <1>9 DEF OpenWorkspace, SettledInv
  <2> QED BY <1>9, <2>1, SettledMove DEF OpenWorkspace
<1>10. CASE RefuseWorkspace(c)
  <2>1. SettledInv(c)'  BY <1>0, <1>10 DEF RefuseWorkspace, RefuseHolding, SettledInv
  <2> QED BY <1>10, <2>1, SettledMove DEF RefuseWorkspace, RefuseHolding
<1>11. CASE BuildFails(c)
  <2>1. SettledInv(c)'  BY <1>0, <1>11 DEF BuildFails, RefuseHolding, SettledInv
  <2> QED BY <1>11, <2>1, SettledMove DEF BuildFails, RefuseHolding
<1>12. CASE Build(c)  BY <1>1, <1>12 DEF Build
<1>13. CASE StoreChild(c)  BY <1>1, <1>13 DEF StoreChild
<1>14. CASE ListChild(c)  BY <1>1, <1>14 DEF ListChild
<1>15. CASE Accept(c)  BY <1>1, <1>15 DEF Accept
<1> QED
  BY <1>2, <1>3, <1>4, <1>5, <1>6, <1>7, <1>8, <1>9, <1>10, <1>11, <1>12, <1>13,
     <1>14, <1>15 DEF SpawnStep

\* The goroutine writes the verdict in the row before it reports it, and rewrites
\* the row before it reports a failure.
LEMMA WorkStepSettles ==
  ASSUME SpawnInv, AllSettled, NEW c \in Calls, WorkStep(c)
  PROVE  AllSettled'
<1> USE DEF SpawnInv, TypeOK, Move, workVars, resultVars, UnreportedSteps, RowOpenSteps
<1>0. SettledInv(c)  BY DEF AllSettled
<1>1. CASE OpenRow(c)
  <2>1. SettledInv(c)'  BY <1>0, <1>1 DEF OpenRow, SettledInv
  <2> QED BY <1>1, <2>1, SettledMove DEF OpenRow
<1>2. CASE TakeSlot(c)
  <2>1. SettledInv(c)'  BY <1>0, <1>2 DEF TakeSlot, SettledInv
  <2> QED BY <1>2, <2>1, SettledMove DEF TakeSlot
<1>3. CASE EnqueueFails(c)
  <2>1. SettledInv(c)'  BY <1>0, <1>3 DEF EnqueueFails, SettledInv
  <2> QED BY <1>3, <2>1, SettledMove DEF EnqueueFails
<1>4. CASE BeginTurn(c)
  <2>1. SettledInv(c)'  BY <1>0, <1>4 DEF BeginTurn, SettledInv
  <2> QED BY <1>4, <2>1, SettledMove DEF BeginTurn
<1>5. ASSUME NEW err \in BOOLEAN, TurnEnds(c, err) PROVE AllSettled'
  <2>1. SettledInv(c)'  BY <1>0, <1>5 DEF TurnEnds, SettledInv
  <2> QED BY <1>5, <2>1, SettledMove DEF TurnEnds
<1>6. CASE SettleRow(c)
  <2>1. outcome[c] \in Verdicts  BY <1>6 DEF SettleRow, VerdictInv
  <2>2. SettledInv(c)'  BY <1>0, <1>6, <2>1 DEF SettleRow, SettledInv
  <2> QED BY <1>6, <2>2, SettledMove DEF SettleRow
<1>7. CASE Commit(c)
  <2>1. SettledInv(c)'  BY <1>0, <1>7 DEF Commit, SettledInv
  <2> QED BY <1>7, <2>1, SettledMove DEF Commit
<1>8. CASE Report(c)
  <2>1. row[c] = outcome[c] /\ outcome[c] \in Verdicts
    BY <1>0, <1>8 DEF Report, SettledInv
  <2>2. ReportAgrees(c)'
    BY <1>8, <2>1, LastOfAppend DEF Report, Delivered, ReportAgrees
  <2>3. SettledInv(c)'  BY <1>0, <1>8, <2>1, <2>2 DEF Report, SettledInv
  <2> QED BY <1>8, <2>3, SettledMove DEF Report, Delivered
<1>9. CASE Return(c)
  <2>1. ReportAgrees(c)'  BY <1>0, <1>9 DEF Return, SettledInv, ReportAgrees
  <2>2. SettledInv(c)'  BY <1>0, <1>9, <2>1 DEF Return, SettledInv
  <2> QED BY <1>9, <2>2, SettledMove DEF Return
<1>10. CASE CleanUp(c)
  <2>1. SettledInv(c)'  BY <1>0, <1>10 DEF CleanUp, SettledInv
  <2> QED BY <1>10, <2>1, SettledMove DEF CleanUp
<1>11. CASE RewriteRow(c)
  <2>1. SettledInv(c)'  BY <1>0, <1>11 DEF RewriteRow, SettledInv
  <2> QED BY <1>11, <2>1, SettledMove DEF RewriteRow
<1>12. CASE ReportFailure(c)
  <2>1. ReportAgrees(c)'
    BY <1>0, <1>12, LastOfAppend DEF ReportFailure, Delivered, ReportAgrees, SettledInv
  <2>2. SettledInv(c)'  BY <1>0, <1>12, <2>1 DEF ReportFailure, SettledInv
  <2> QED BY <1>12, <2>2, SettledMove DEF ReportFailure, Delivered
<1> QED
  BY <1>1, <1>2, <1>3, <1>4, <1>5, <1>6, <1>7, <1>8, <1>9, <1>10, <1>11, <1>12
     DEF WorkStep

\* The orchestrator resolves a workspace only after its report; a restart settles
\* the rows that read running and leaves no call at work.
LEMMA EnvironmentSettles ==
  ASSUME SpawnInv, AllSettled, Environment
  PROVE  AllSettled'
<1> USE DEF SpawnInv, TypeOK, spawnVars, workVars, resultVars
<1>1. ASSUME UNCHANGED <<step, workspace, row, reports, outcome, erred>>
      PROVE  AllSettled'
  BY <1>1, SettledFrame DEF AllSettled
<1>2. ASSUME NEW c \in Calls, Resolve(c) PROVE AllSettled'
  <2>1. SettledInv(c)  BY DEF AllSettled
  <2>2. SettledInv(c)'
    BY <1>2, <2>1 DEF Resolve, SettledInv, ReportAgrees, UnreportedSteps
  <2> QED BY <1>2, <2>2, SettledMove DEF Resolve
<1>3. CASE Restart
  <2> SUFFICES ASSUME NEW c \in Calls PROVE SettledInv(c)'
    BY DEF AllSettled
  <2>1. SettledInv(c)  BY DEF AllSettled
  <2>2. /\ workspace'[c] = workspace[c] /\ reports'[c] = reports[c]
        /\ row'[c] = IF row[c] = "running" THEN "interrupted" ELSE row[c]
        /\ step'[c] = IF step[c] \in CallingSteps THEN "abandoned"
                      ELSE IF step[c] \in WorkingSteps THEN "lost" ELSE step[c]
    BY <1>3 DEF Restart, ForgetMemory
  <2>3. step[c] \in Steps /\ row'[c] # "running"  BY <2>2
  <2>4. \/ step'[c] \in {"abandoned", "lost"}
        \/ step'[c] = step[c] /\ row'[c] = row[c] /\ step[c] \in {"new"} \cup FinalSteps
    BY <2>1, <2>2, <2>3 DEF SettledInv, RowOpenSteps
  <2>5. CASE step'[c] \in {"abandoned", "lost"}
    BY <2>3, <2>5 DEF SettledInv, UnreportedSteps
  <2>6. CASE step'[c] = step[c] /\ row'[c] = row[c] /\ step[c] \in {"new"} \cup FinalSteps
    <3>1. ReportAgrees(c) => ReportAgrees(c)'  BY <2>2, <2>6 DEF ReportAgrees
    <3> QED BY <2>1, <2>2, <2>3, <2>6, <3>1 DEF SettledInv, UnreportedSteps
  <2> QED BY <2>4, <2>5, <2>6
<1>4. CASE ~Restart /\ \A c \in Calls : ~Resolve(c)
  <2>1. UNCHANGED <<step, workspace, row, reports, outcome, erred>>
    BY <1>4 DEF Environment, ContextEnds, Release, Open, BeginSweep, Visit, StopSelf
  <2> QED BY <1>1, <2>1
<1> QED BY <1>2, <1>3, <1>4

\* AllSettled is inductive, given the types and the verdicts.
LEMMA SettledStep == SpawnInv /\ AllSettled /\ [Next]_vars => AllSettled'
<1> SUFFICES ASSUME SpawnInv, AllSettled, [Next]_vars PROVE AllSettled'
  OBVIOUS
<1>1. CASE UNCHANGED vars
  <2>1. UNCHANGED <<step, workspace, row, reports, outcome, erred>>  BY <1>1 DEF vars
  <2> QED BY <2>1, SettledFrame DEF AllSettled
<1> QED
  BY <1>1, SpawnStepSettles, WorkStepSettles, EnvironmentSettles DEF Next

\* However a call of Spawn ends, its workspace, its row and the report its parent
\* had agree with how it ended: nothing is left on disk by a spawn that was
\* refused or failed, no finished call reads running, and the store and the
\* parent were told the same (spawn.go, the branch after Enqueue).
THEOREM CallsEndSettled == Spec => []EndedCallsAreSettled
<1>1. SpawnInv /\ AllSettled => EndedCallsAreSettled
  <2> SUFFICES ASSUME SpawnInv, AllSettled, NEW c \in Calls
               PROVE  /\ step[c] = "refused" \/ (step[c] = "done" /\ row[c] = "error") =>
                           workspace[c] \in {"none", "cleaned"}
                      /\ row[c] = "running" => step[c] \in WorkingSteps
                      /\ step[c] = "done" => row[c] \in Verdicts /\ ReportAgrees(c)
    BY DEF EndedCallsAreSettled, NoWorkspaceLeaks, RowsFollowTheWork, ReportAgrees
  <2> QED BY DEF AllSettled, SettledInv, RowOpenSteps
<1> QED BY <1>1, SpawnInvariant, SettledInit, SettledStep, PTL DEF Spec

-----------------------------------------------------------------------------
(* The walk of a stop or an interrupt.                                     *)

\* A child is listed only while it is in the map, and a key leaves the map only
\* with the whole of it.
ListedInv ==
  /\ \A s \in Sessions : children[s] \subseteq live
  /\ \A c \in Calls : step[c] = "stored" => keyOf[c] \in live
  /\ \A i \in 1..Len(sweep) : sweep[i].todo \subseteq live

\* What frame i of the walk still has to cancel: its own session, and whatever
\* is below the children it has not visited.
Ahead(i) == {sweep[i].at} \cup Below(sweep[i].todo)

\* A turn that is owed its cancellation runs in a session that some frame of the
\* walk has ahead of it.
OwedInv ==
  \A c \in owed : step[c] = "running" /\ \E i \in 1..Len(sweep) : keyOf[c] \in Ahead(i)

WalkInv == ListedInv /\ OwedInv

\* What is below X along the lists f.
Reach(f, X) == {k \in Sessions : \A C \in SUBSET Sessions :
                  X \subseteq C /\ (\A x \in C : f[x] \subseteq C) => k \in C}

\* Below is what the lists of children reach.
LEMMA BelowIsReached == ASSUME NEW X PROVE Below(X) = Reach(children, X)
  BY DEF Below, Reach, ClosedUnderChildren

\* A list that grows hides nobody, and the list of a root that is released is on
\* nobody's way, because no root is a child.
LEMMA ReachGrows ==
  ASSUME NEW f \in [Sessions -> SUBSET Keys], NEW g \in [Sessions -> SUBSET Keys],
         NEW X \in SUBSET Keys, \A k \in Keys : f[k] \subseteq g[k]
  PROVE  Reach(f, X) \subseteq Reach(g, X)
<1> SUFFICES ASSUME NEW k \in Reach(f, X), NEW C \in SUBSET Sessions, X \subseteq C,
                    \A x \in C : g[x] \subseteq C
             PROVE  k \in C
  BY DEF Reach
<1> DEFINE D == C \cap Keys
<1>1. D \in SUBSET Sessions /\ X \subseteq D  OBVIOUS
<1>2. \A x \in D : f[x] \subseteq D  OBVIOUS
<1>3. k \in D
  <2> HIDE DEF D
  <2> QED BY <1>1, <1>2 DEF Reach
<1> QED BY <1>3

\* Visiting one child splits what is ahead: the child, what is below it, and what
\* is below the other children.
LEMMA ReachSplits ==
  ASSUME NEW f \in [Sessions -> SUBSET Keys], NEW X \in SUBSET Keys, NEW k \in X
  PROVE  Reach(f, X) \subseteq Reach(f, X \ {k}) \cup {k} \cup Reach(f, f[k])
<1> SUFFICES ASSUME NEW y \in Reach(f, X), y \notin Reach(f, X \ {k}), y # k,
                    y \notin Reach(f, f[k])
             PROVE  FALSE
  OBVIOUS
<1>1. y \in Sessions  BY DEF Reach
<1>2. PICK A \in SUBSET Sessions :
        X \ {k} \subseteq A /\ (\A x \in A : f[x] \subseteq A) /\ y \notin A
  BY <1>1 DEF Reach
<1>3. PICK B \in SUBSET Sessions :
        f[k] \subseteq B /\ (\A x \in B : f[x] \subseteq B) /\ y \notin B
  BY <1>1 DEF Reach
<1> DEFINE C == A \cup B \cup {k}
<1>4. C \in SUBSET Sessions /\ X \subseteq C /\ y \notin C  BY <1>2, <1>3
<1>5. \A x \in C : f[x] \subseteq C  BY <1>2, <1>3
<1> HIDE DEF C
<1> QED BY <1>4, <1>5 DEF Reach

\* Below a session is the session and what is below its children.
LEMMA ReachFromOne ==
  ASSUME NEW f \in [Sessions -> SUBSET Keys], NEW s \in Sessions
  PROVE  Reach(f, {s}) \subseteq {s} \cup Reach(f, f[s])
<1> SUFFICES ASSUME NEW y \in Reach(f, {s}), y # s, y \notin Reach(f, f[s])
             PROVE  FALSE
  OBVIOUS
<1>1. y \in Sessions  BY DEF Reach
<1>2. PICK B \in SUBSET Sessions :
        f[s] \subseteq B /\ (\A x \in B : f[x] \subseteq B) /\ y \notin B
  BY <1>1 DEF Reach
<1> DEFINE C == B \cup {s}
<1>3. C \in SUBSET Sessions /\ {s} \subseteq C /\ y \notin C  BY <1>2
<1>4. \A x \in C : f[x] \subseteq C  BY <1>2
<1> HIDE DEF C
<1> QED BY <1>3, <1>4 DEF Reach

\* Nothing is below no session.
LEMMA ReachFromNone ==
  ASSUME NEW f \in [Sessions -> SUBSET Keys]
  PROVE  Reach(f, {}) = {}
<1>1. {} \in SUBSET Sessions /\ \A x \in {} : f[x] \subseteq {}  OBVIOUS
<1> QED BY <1>1 DEF Reach

\* A frame of the walk is a session and children of its.
LEMMA FrameAt ==
  ASSUME TypeOK, NEW i \in 1..Len(sweep)
  PROVE  sweep[i].at \in Sessions /\ sweep[i].todo \in SUBSET Keys
<1> DEFINE Frames == [at : Sessions, todo : SUBSET Keys]
<1>1. sweep \in Seq(Frames)  BY DEF TypeOK
<1>2. sweep[i] \in Frames
  <2> HIDE DEF Frames
  <2> QED BY <1>1
<1> QED BY <1>2

\* What is ahead of a frame, in terms of the lists of children.
LEMMA AheadIsReached ==
  /\ \A i : Ahead(i) = {sweep[i].at} \cup Reach(children, sweep[i].todo)
  /\ \A i : Ahead(i)' = {sweep'[i].at} \cup Reach(children', sweep'[i].todo)
  BY DEF Ahead, Below, Reach, ClosedUnderChildren

\* A sequence that grows by one sequence of one grows by one.
LEMMA ConcatOne ==
  ASSUME NEW T, NEW s \in Seq(T), NEW x \in T
  PROVE  s \o <<x>> = Append(s, x)
  OBVIOUS

\* Before the first call nobody has children and no walk is in progress.
LEMMA WalkInit == Init => WalkInv
  BY DEF Init, WalkInv, ListedInv, OwedInv

\* A step that is no part of the walk: children are only added to keys, and a
\* turn that is owed runs on.
LEMMA WalkGoesOn ==
  ASSUME TypeOK, TypeOK', OwedInv, sweep' = sweep, owed' \subseteq owed,
         \A c \in owed' : step'[c] = step[c] /\ keyOf'[c] = keyOf[c],
         \A k \in Keys : children[k] \subseteq children'[k]
  PROVE  OwedInv'
<1> SUFFICES ASSUME NEW c \in owed' 
             PROVE  step'[c] = "running" /\ \E i \in 1..Len(sweep') : keyOf'[c] \in Ahead(i)'
  BY DEF OwedInv
<1>1. step[c] = "running" /\ step'[c] = step[c] /\ keyOf'[c] = keyOf[c]
  BY DEF OwedInv
<1>2. PICK i \in 1..Len(sweep) : keyOf[c] \in Ahead(i)  BY DEF OwedInv
<1>3. sweep[i].todo \in SUBSET Keys  BY <1>2, FrameAt
<1>4. children \in [Sessions -> SUBSET Keys] /\ children' \in [Sessions -> SUBSET Keys]
  BY DEF TypeOK
<1>5. Reach(children, sweep[i].todo) \subseteq Reach(children', sweep[i].todo)
  BY <1>3, <1>4, ReachGrows
<1>6. /\ Ahead(i) = {sweep[i].at} \cup Reach(children, sweep[i].todo)
      /\ Ahead(i)' = {sweep[i].at} \cup Reach(children', sweep[i].todo)
  BY AheadIsReached
<1> QED BY <1>1, <1>2, <1>5, <1>6

\* The steps of Spawn: a child is in the map when it is listed.
LEMMA SpawnStepKeepsWalk ==
  ASSUME SpawnInv, TypeOK', WalkInv, NEW c \in Calls, SpawnStep(c)
  PROVE  WalkInv'
<1> USE DEF SpawnInv, TypeOK, Move, treeVars, sweepVars, WalkInv
<1>0. c \notin owed \/ step[c] = "running"  BY DEF OwedInv
<1>1. /\ sweep' = sweep /\ owed' = owed /\ live \subseteq live'
      /\ \A d \in Calls \ {c} : step'[d] = step[d] /\ keyOf'[d] = keyOf[d]
      /\ step[c] # "running"
      /\ step'[c] = "stored" => keyOf'[c] \in live'
      /\ \A s \in Sessions : children[s] \subseteq children'[s] /\ children'[s] \subseteq live'
  <2>1. CASE StoreChild(c)  BY <2>1 DEF StoreChild, ListedInv
  <2>2. CASE ListChild(c)   BY <2>2 DEF ListChild, ListedInv
  <2>3. CASE ~StoreChild(c) /\ ~ListChild(c)
    <3>1. \E to \in Steps \ {"stored"} : step' = [step EXCEPT ![c] = to]
      BY <2>3 DEF SpawnStep, Admit, Refuse, Reserve, MintGivesUp, CheckKey, CheckFails,
         RefuseHolding, WorkInSourceRepository, OpenWorkspace, RefuseWorkspace, Build,
         BuildFails, Accept
    <3>2. /\ UNCHANGED <<live, children, sweep, owed>> /\ step[c] # "running"
          /\ \A d \in Calls \ {c} : keyOf'[d] = keyOf[d]
      BY <2>3 DEF SpawnStep, Admit, Refuse, Reserve, MintGivesUp, CheckKey, CheckFails,
         RefuseHolding, WorkInSourceRepository, OpenWorkspace, RefuseWorkspace, Build,
         BuildFails, Accept
    <3> QED BY <3>1, <3>2 DEF ListedInv
  <2> QED BY <2>1, <2>2, <2>3
<1>2. ListedInv'  BY <1>1 DEF ListedInv
<1>3. \A d \in owed' : step'[d] = step[d] /\ keyOf'[d] = keyOf[d]  BY <1>0, <1>1
<1>4. \A k \in Keys : children[k] \subseteq children'[k]  BY <1>1
<1>5. TypeOK /\ OwedInv /\ sweep' = sweep /\ owed' \subseteq owed  BY <1>1
<1> HIDE DEF SpawnInv, TypeOK, WalkInv
<1>6. OwedInv'  BY <1>3, <1>4, <1>5, WalkGoesOn
<1> QED BY <1>2, <1>6 DEF WalkInv

\* The goroutine changes the tree in nothing, and a turn leaves the debt when it
\* ends.
LEMMA WorkStepKeepsWalk ==
  ASSUME SpawnInv, TypeOK', WalkInv, NEW c \in Calls, WorkStep(c)
  PROVE  WalkInv'
<1> USE DEF SpawnInv, TypeOK, Move, treeVars, sweepVars, WalkInv
<1>1. /\ UNCHANGED <<keyOf, live, children, sweep>> /\ owed' \subseteq owed
      /\ \E to \in Steps \ {"stored"} : step' = [step EXCEPT ![c] = to]
      /\ step[c] = "running" => c \notin owed'
  BY DEF WorkStep, OpenRow, TakeSlot, EnqueueFails, BeginTurn, TurnEnds, SettleRow,
     Commit, Report, Return, CleanUp, RewriteRow, ReportFailure
<1>2. ListedInv'  BY <1>1 DEF ListedInv
<1>3. \A d \in owed' : step'[d] = step[d] /\ keyOf'[d] = keyOf[d]
  BY <1>1 DEF OwedInv
<1>4. \A k \in Keys : children[k] \subseteq children'[k]  BY <1>1
<1>5. TypeOK /\ OwedInv /\ sweep' = sweep /\ owed' \subseteq owed  BY <1>1
<1> HIDE DEF SpawnInv, TypeOK, WalkInv
<1>6. OwedInv'  BY <1>3, <1>4, <1>5, WalkGoesOn
<1> QED BY <1>2, <1>6 DEF WalkInv

\* The walk begins with everything below its session ahead of it.
LEMMA BeginSweepOwes ==
  ASSUME SpawnInv, WalkInv, NEW s \in Sessions, BeginSweep(s)
  PROVE  WalkInv'
<1> USE DEF BeginSweep, spawnVars, treeVars, SpawnInv, TypeOK
<1>1. sweep' = <<Frame(s)>> /\ Len(sweep') = 1 /\ sweep'[1] = [at |-> s, todo |-> children[s]]
  BY DEF Frame
<1>2. UNCHANGED <<step, keyOf, live, children>>  OBVIOUS
<1>3. ListedInv'  BY <1>1, <1>2 DEF ListedInv, WalkInv
<1>4. Ahead(1)' = {s} \cup Reach(children, children[s])
  <2>1. sweep'[1].at = s /\ sweep'[1].todo = children[s] /\ children' = children
    BY <1>1, <1>2
  <2> HIDE DEF BeginSweep, SpawnInv, TypeOK
  <2> QED BY <2>1, AheadIsReached
<1>5. Below({s}) \subseteq Ahead(1)'
  BY <1>4, BelowIsReached, ReachFromOne
<1>6. \A c \in owed' : step[c] = "running" /\ keyOf[c] \in Below({s})  OBVIOUS
<1> HIDE DEF BeginSweep, SpawnInv, TypeOK
<1>7. OwedInv'
  <2>1. 1 \in 1..Len(sweep')  BY <1>1
  <2>2. \A c \in owed' : keyOf'[c] \in Ahead(1)' /\ step'[c] = "running"  BY <1>2, <1>5, <1>6
  <2> HIDE DEF Below, Ahead
  <2> QED BY <2>1, <2>2 DEF OwedInv
<1> QED BY <1>3, <1>7 DEF WalkInv

\* A visit takes one child from the frame on top and puts a frame for it above:
\* the child is in the map, so nothing below it is skipped.
LEMMA VisitKeepsWalk ==
  ASSUME SpawnInv, WalkInv, NEW k \in Keys, Visit(k)
  PROVE  WalkInv'
<1> USE DEF Visit, spawnVars, treeVars, SpawnInv, WalkInv
<1> DEFINE Frames == [at : Sessions, todo : SUBSET Keys]
           Rest == [Top EXCEPT !.todo = Top.todo \ {k}]
<1>0. TypeOK /\ sweep \in Seq(Frames) /\ children \in [Sessions -> SUBSET Keys]
  BY DEF TypeOK
<1> PICK n \in Nat : n = Len(sweep)  BY <1>0
<1>1. Top \in Frames /\ Outer \in Seq(Frames) /\ k \in Top.todo
  BY <1>0, FramesKeepTypes
<1>2. n \in Nat \ {0} /\ Top = sweep[n] /\ Len(Outer) = n - 1
      /\ \A i \in 1..(n - 1) : Outer[i] = sweep[i]
  BY <1>0 DEF Outer, Top
<1>3. Top.todo \subseteq live /\ k \in live  BY <1>1, <1>2 DEF ListedInv
<1>4. Rest \in Frames /\ Rest.at = Top.at /\ Rest.todo = Top.todo \ {k}  BY <1>1
<1>5. Frame(k) = [at |-> k, todo |-> children[k]] /\ Frame(k) \in Frames
  BY <1>0 DEF Frame
<1>6. sweep' = Append(Append(Outer, Rest), Frame(k))
  <2>1. sweep' = Append(Outer, Rest) \o <<Frame(k)>>  BY <1>3
  <2> HIDE DEF Frames, Rest
  <2>2. Append(Outer, Rest) \in Seq(Frames)  BY <1>1, <1>4
  <2>3. Append(Outer, Rest) \o <<Frame(k)>> = Append(Append(Outer, Rest), Frame(k))
    BY <1>5, <2>2, ConcatOne
  <2> QED BY <2>1, <2>3
<1>7. /\ Len(sweep') = n + 1 /\ sweep'[n] = Rest /\ sweep'[n + 1] = Frame(k)
      /\ \A i \in 1..(n - 1) : sweep'[i] = sweep[i]
  <2>1. /\ Outer \in Seq(Frames) /\ Rest \in Frames /\ Frame(k) \in Frames
        /\ n \in Nat \ {0} /\ Len(Outer) = n - 1
    BY <1>1, <1>2, <1>4, <1>5
  <2> HIDE DEF Frames, Rest, Visit, SpawnInv, WalkInv, TypeOK, Outer, Frame
  <2>2. /\ Append(Outer, Rest) \in Seq(Frames) /\ Len(Append(Outer, Rest)) = n
        /\ Append(Outer, Rest)[n] = Rest
        /\ \A i \in 1..(n - 1) : Append(Outer, Rest)[i] = Outer[i]
    BY <2>1
  <2>3. /\ Len(sweep') = n + 1 /\ sweep'[n + 1] = Frame(k)
        /\ \A i \in 1..n : sweep'[i] = Append(Outer, Rest)[i]
    BY <1>6, <2>1, <2>2
  <2> QED BY <1>2, <2>1, <2>2, <2>3
<1>8. UNCHANGED <<step, keyOf, live, children, owed>>  OBVIOUS
<1> HIDE DEF Visit, SpawnInv, Frames, Rest
<1>9. ListedInv'
  <2>1. \A i \in 1..Len(sweep') : sweep'[i].todo \subseteq live
    <3> SUFFICES ASSUME NEW i \in 1..Len(sweep') PROVE sweep'[i].todo \subseteq live
      OBVIOUS
    <3>1. CASE i \in 1..(n - 1)
      BY <1>2, <1>7, <3>1 DEF ListedInv
    <3>2. CASE i = n      BY <1>3, <1>4, <1>7, <3>2
    <3>3. CASE i = n + 1  BY <1>5, <1>7, <3>3 DEF ListedInv
    <3> QED BY <1>2, <1>7, <3>1, <3>2, <3>3
  <2> QED BY <1>8, <2>1 DEF ListedInv
<1>10. /\ \A i \in 1..(n - 1) : Ahead(i)' = Ahead(i)
       /\ Ahead(n) = {Top.at} \cup Reach(children, Top.todo)
       /\ Ahead(n)' = {Top.at} \cup Reach(children, Top.todo \ {k})
       /\ Ahead(n + 1)' = {k} \cup Reach(children, children[k])
  <2>1. \A i \in 1..(n - 1) : Ahead(i)' = Ahead(i)  BY <1>7, <1>8, AheadIsReached
  <2>2. Ahead(n) = {Top.at} \cup Reach(children, Top.todo)  BY <1>2, AheadIsReached
  <2>3. Ahead(n)' = {Top.at} \cup Reach(children, Top.todo \ {k})
    BY <1>4, <1>7, <1>8, AheadIsReached
  <2>4. Ahead(n + 1)' = {k} \cup Reach(children, children[k])
    BY <1>5, <1>7, <1>8, AheadIsReached
  <2> QED BY <2>1, <2>2, <2>3, <2>4
<1>11. Ahead(n) \subseteq Ahead(n)' \cup Ahead(n + 1)'
  <2>1. Top.todo \in SUBSET Keys  BY <1>1 DEF Frames
  <2>2. Reach(children, Top.todo) \subseteq
          Reach(children, Top.todo \ {k}) \cup {k} \cup Reach(children, children[k])
    BY <1>0, <1>1, <2>1, ReachSplits
  <2> QED BY <1>10, <2>2
<1>12. OwedInv'
  <2> SUFFICES ASSUME NEW c \in owed
               PROVE  step[c] = "running" /\ \E i \in 1..(n + 1) : keyOf[c] \in Ahead(i)'
    BY <1>7, <1>8 DEF OwedInv
  <2>1. step[c] = "running"  BY DEF OwedInv
  <2>2. PICK i \in 1..n : keyOf[c] \in Ahead(i)  BY DEF OwedInv
  <2>3. CASE i \in 1..(n - 1)
    <3>1. i \in 1..(n + 1)  BY <1>2, <2>3
    <3> QED BY <1>10, <2>1, <2>2, <2>3, <3>1
  <2>4. CASE i = n
    <3>1. n \in 1..(n + 1) /\ n + 1 \in 1..(n + 1)  BY <1>2
    <3> QED BY <1>11, <2>1, <2>2, <2>4, <3>1
  <2> QED BY <1>2, <2>3, <2>4
<1> QED BY <1>9, <1>12 DEF WalkInv

\* A frame is left when its children are visited, and its session is cancelled.
LEMMA StopSelfKeepsWalk ==
  ASSUME SpawnInv, WalkInv, StopSelf
  PROVE  WalkInv'
<1> USE DEF StopSelf, spawnVars, treeVars, SpawnInv, WalkInv
<1> DEFINE Frames == [at : Sessions, todo : SUBSET Keys]
<1>0. TypeOK /\ sweep \in Seq(Frames) /\ children \in [Sessions -> SUBSET Keys]
  BY DEF TypeOK
<1> PICK n \in Nat : n = Len(sweep)  BY <1>0
<1>1. n \in Nat \ {0} /\ Top = sweep[n] /\ Top.todo = {} /\ Len(sweep') = n - 1
      /\ \A i \in 1..(n - 1) : sweep'[i] = sweep[i]
  <2>1. n \in Nat \ {0}  BY <1>0
  <2> HIDE DEF Frames
  <2>2. sweep' = SubSeq(sweep, 1, n - 1) /\ Top = sweep[n] /\ Top.todo = {}
    BY DEF Outer, Top
  <2>3. Len(sweep') = n - 1 /\ \A i \in 1..(n - 1) : sweep'[i] = sweep[i]
    BY <1>0, <2>1, <2>2
  <2> QED BY <2>1, <2>2, <2>3
<1>2. UNCHANGED <<step, keyOf, live, children>> /\ owed' = {c \in owed : keyOf[c] # Top.at}
  OBVIOUS
<1> HIDE DEF StopSelf, SpawnInv, Frames
<1>3. ListedInv'
  <2>1. 1..Len(sweep') \subseteq 1..Len(sweep) /\ \A i \in 1..Len(sweep') : sweep'[i] = sweep[i]
    BY <1>1
  <2> QED BY <1>2, <2>1 DEF ListedInv
<1>4. /\ \A i \in 1..(n - 1) : Ahead(i)' = Ahead(i)
      /\ Ahead(n) = {Top.at}
  <2>1. \A i \in 1..(n - 1) : Ahead(i)' = Ahead(i)  BY <1>1, <1>2, AheadIsReached
  <2>2. Reach(children, {}) = {}  BY <1>0, ReachFromNone
  <2>3. Ahead(n) = {Top.at}  BY <1>1, <2>2, AheadIsReached
  <2> QED BY <2>1, <2>3
<1>5. OwedInv'
  <2> SUFFICES ASSUME NEW c \in owed, keyOf[c] # Top.at
               PROVE  step[c] = "running" /\ \E i \in 1..(n - 1) : keyOf[c] \in Ahead(i)'
    BY <1>1, <1>2 DEF OwedInv
  <2>1. step[c] = "running"  BY DEF OwedInv
  <2>2. PICK i \in 1..n : keyOf[c] \in Ahead(i)  BY DEF OwedInv
  <2>3. i \in 1..(n - 1)  BY <1>1, <1>4, <2>2
  <2> QED BY <1>4, <2>1, <2>2, <2>3
<1> QED BY <1>3, <1>5 DEF WalkInv

\* A release takes a root out of the map, never a child; a restart ends the walk.
LEMMA EnvironmentKeepsWalk ==
  ASSUME SpawnInv, TypeOK', WalkInv, Environment
  PROVE  WalkInv'
<1> USE DEF spawnVars, treeVars
<1>1. ASSUME NEW s \in Sessions, Release(s) PROVE WalkInv'
  <2> USE SpawnsAssumption DEF SpawnInv, TypeOK, WalkInv
  <2>1. s \in Roots /\ s \notin Keys  BY <1>1 DEF Release
  <2>2. /\ UNCHANGED <<step, keyOf>> /\ sweep' = sweep /\ owed' = owed /\ live' = live \ {s}
        /\ \A x \in Sessions : children'[x] = IF x = s THEN {} ELSE children[x]
    BY <1>1 DEF Release, sweepVars
  <2>3. ListedInv'
    <3>1. \A x \in Sessions : children'[x] \subseteq live'
      <4>1. \A x \in Sessions : children[x] \subseteq live /\ children[x] \subseteq Keys
        BY DEF ListedInv
      <4> HIDE DEF SpawnInv, TypeOK
      <4> QED BY <2>1, <2>2, <4>1
    <3>2. \A c \in Calls : step[c] = "stored" => keyOf[c] \in Keys
      BY DEF CallInv
    <3>3. \A i \in 1..Len(sweep) : sweep[i].todo \subseteq Keys  BY FrameAt
    <3> QED BY <2>1, <2>2, <3>1, <3>2, <3>3 DEF ListedInv
  <2>4. \A k \in Keys : children[k] \subseteq children'[k]
    <3>1. Keys \subseteq Sessions  BY DEF Sessions
    <3> HIDE SpawnsAssumption DEF SpawnInv, TypeOK, WalkInv, Sessions
    <3> QED BY <2>1, <2>2, <3>1
  <2>5. TypeOK /\ OwedInv  OBVIOUS
  <2> HIDE DEF SpawnInv, TypeOK, WalkInv
  <2>6. OwedInv'  BY <2>2, <2>4, <2>5, WalkGoesOn
  <2> QED BY <2>3, <2>6 DEF WalkInv
<1>2. ASSUME UNCHANGED <<step, keyOf, children, sweep, owed>>, live \subseteq live' PROVE WalkInv'
  <2>1. ListedInv'  BY <1>2 DEF WalkInv, ListedInv
  <2>2. OwedInv'  BY <1>2, WalkGoesOn DEF SpawnInv, WalkInv
  <2> QED BY <2>1, <2>2 DEF WalkInv
<1>3. ASSUME NEW s \in Sessions, Open(s) PROVE WalkInv'
  BY <1>2, <1>3 DEF Open, sweepVars
<1>4. ASSUME NEW c \in Calls, NEW how \in {"canceled", "expired"}, ContextEnds(c, how)
      PROVE  WalkInv'
  BY <1>2, <1>4 DEF ContextEnds, sweepVars
<1>5. ASSUME NEW c \in Calls, Resolve(c) PROVE WalkInv'
  BY <1>2, <1>5 DEF Resolve, sweepVars
<1>6. CASE Restart
  <2>1. /\ children' = [s \in Sessions |-> {}] /\ sweep' = <<>> /\ owed' = {}
        /\ \A c \in Calls : step'[c] # "stored"
    BY <1>6 DEF Restart, ForgetMemory
  <2> QED BY <2>1 DEF WalkInv, ListedInv, OwedInv
<1> QED
  BY <1>1, <1>3, <1>4, <1>5, <1>6, BeginSweepOwes, VisitKeepsWalk, StopSelfKeepsWalk
     DEF Environment

\* WalkInv is inductive, given the types and the keys.
LEMMA WalkStep == SpawnInv /\ WalkInv /\ [Next]_vars => WalkInv'
<1> SUFFICES ASSUME SpawnInv, WalkInv, [Next]_vars PROVE WalkInv'
  OBVIOUS
<1>0. TypeOK'  BY InvStep DEF SpawnInv
<1>1. CASE UNCHANGED vars
  <2>1. UNCHANGED <<step, keyOf, live, children, sweep, owed>>  BY <1>1 DEF vars
  <2>2. ListedInv'  BY <2>1 DEF WalkInv, ListedInv
  <2>3. OwedInv'  BY <1>0, <2>1, WalkGoesOn DEF SpawnInv, WalkInv
  <2> QED BY <2>2, <2>3 DEF WalkInv
<1> QED
  BY <1>0, <1>1, SpawnStepKeepsWalk, WorkStepKeepsWalk, EnvironmentKeepsWalk DEF Next

\* When StopSession or InterruptSession has walked the tree, every turn that ran
\* below its session when the walk began was cancelled or has ended, in a tree of
\* any depth and width and whatever was spawned, released or finished meanwhile.
THEOREM StopsReachEverybody == Spec => []StopReachesRunningDescendants
<1>1. WalkInv => StopReachesRunningDescendants
  BY DEF WalkInv, OwedInv, StopReachesRunningDescendants
<1> QED BY <1>1, SpawnInvariant, WalkInit, WalkStep, PTL DEF Spec

-----------------------------------------------------------------------------
(* Sequences of sequences, put in a row *)

\* What holds at 0 and of the next number whenever of a number is true of all.
LEMMA NatSetInduction ==
  ASSUME NEW S, 0 \in S, \A n \in Nat : n \in S => n + 1 \in S
  PROVE  \A n \in Nat : n \in S
<1> DEFINE T == Nat \ S
           R == OpToRel(<, Nat)
<1>1. \A x, y \in Nat : y < x => <<y, x>> \in R
  BY DEF OpToRel
<1>2. SUFFICES ASSUME T # {} PROVE FALSE  OBVIOUS
<1>3. IsWellFoundedOn(R, Nat)  BY NatLessThanWellFounded
<1> HIDE DEF R
<1>4. PICK x \in T : \A y \in T : <<y, x>> \notin R
  <2> HIDE DEF T
  <2>1. T \subseteq Nat BY DEF T
  <2> QED BY <1>2, <1>3, <2>1, WFMin
<1>5. x # 0 /\ x - 1 \in Nat /\ x - 1 < x  BY <1>4
<1>6. x - 1 \in S BY <1>1, <1>4, <1>5
<1>7. (x - 1) + 1 \in S BY <1>5, <1>6
<1> QED BY <1>4, <1>7

\* The equation flattening is defined by, with f[i] the first i parts in a row.
Flattens(f, ss) ==
  f = [i \in 1 .. Len(ss) |-> IF i = 1 THEN ss[i] ELSE f[i - 1] \o ss[i]]

\* The equation has a solution, and the solution for one part more goes on
\* from it.
LEMMA FlatteningExists ==
  ASSUME NEW T
  PROVE  \A n \in Nat : \A ss \in Seq(Seq(T)) : Len(ss) = n =>
           \E f \in [1 .. n -> Seq(T)] : Flattens(f, ss)
<1> DEFINE S == {n \in Nat : \A ss \in Seq(Seq(T)) : Len(ss) = n =>
                    \E f \in [1 .. n -> Seq(T)] : Flattens(f, ss)}
<1>1. 0 \in S
  <2> SUFFICES ASSUME NEW ss \in Seq(Seq(T)), Len(ss) = 0
               PROVE  \E f \in [1 .. 0 -> Seq(T)] : Flattens(f, ss)
    OBVIOUS
  <2> DEFINE f == [i \in 1 .. 0 |-> <<>>]
  <2>1. f \in [1 .. 0 -> Seq(T)] /\ f = [i \in 1 .. Len(ss) |-> IF i = 1 THEN ss[i] ELSE f[i - 1] \o ss[i]]
    OBVIOUS
  <2> QED BY <2>1 DEF Flattens
<1>2. ASSUME NEW n \in Nat, n \in S PROVE n + 1 \in S
  <2> SUFFICES ASSUME NEW ss \in Seq(Seq(T)), Len(ss) = n + 1
               PROVE  \E f \in [1 .. n + 1 -> Seq(T)] : Flattens(f, ss)
    OBVIOUS
  <2> DEFINE tt == [i \in 1 .. n |-> ss[i]]
  <2>1. tt \in Seq(Seq(T)) /\ Len(tt) = n  OBVIOUS
  <2>2. PICK g \in [1 .. n -> Seq(T)] : Flattens(g, tt)
    BY <1>2, <2>1
  <2> DEFINE f == [i \in 1 .. n + 1 |-> IF i = n + 1 THEN IF n = 0 THEN ss[1] ELSE g[n] \o ss[n + 1]
                                        ELSE g[i]]
  <2>3. f \in [1 .. n + 1 -> Seq(T)]
    <3>1. \A i \in 1 .. n + 1 : ss[i] \in Seq(T)  OBVIOUS
    <3>2. n # 0 => g[n] \o ss[n + 1] \in Seq(T)  BY <3>1
    <3> QED BY <3>1, <3>2
  <2>4. ASSUME NEW i \in 1 .. n + 1
        PROVE  f[i] = IF i = 1 THEN ss[i] ELSE f[i - 1] \o ss[i]
    <3>1. CASE i = n + 1 /\ n = 0  BY <3>1
    <3>2. CASE i = n + 1 /\ n # 0
      <4>1. i # 1 /\ i - 1 = n /\ n \in 1 .. n + 1 /\ n # n + 1  BY <3>2
      <4> QED BY <3>2, <4>1
    <3>3. CASE i # n + 1
      <4>1. i \in 1 .. n /\ f[i] = g[i] /\ tt[i] = ss[i]  BY <3>3
      <4>2. g[i] = IF i = 1 THEN tt[i] ELSE g[i - 1] \o tt[i]
        BY <2>1, <2>2, <4>1 DEF Flattens
      <4>3. i # 1 => i - 1 \in 1 .. n /\ f[i - 1] = g[i - 1]  BY <4>1
      <4> QED BY <4>1, <4>2, <4>3
    <3> QED BY <3>1, <3>2, <3>3
  <2>5. Flattens(f, ss)
    <3> HIDE DEF f
    <3> DEFINE h == [i \in 1 .. Len(ss) |-> IF i = 1 THEN ss[i] ELSE f[i - 1] \o ss[i]]
    <3>1. DOMAIN f = 1 .. n + 1 /\ f = [i \in 1 .. n + 1 |-> f[i]]  BY <2>3
    <3>2. \A i \in 1 .. n + 1 : f[i] = h[i]  BY <2>4
    <3>3. f = h  BY <3>1, <3>2
    <3> QED BY <3>3 DEF Flattens
  <2> HIDE DEF f
  <2> QED BY <2>3, <2>5
<1> HIDE DEF S
<1>3. \A n \in Nat : n \in S  BY <1>1, <1>2, NatSetInduction
<1> QED BY <1>3 DEF S

Agree(f, g, n) == \A i \in 1 .. n : f[i] = g[i]

\* Two solutions agree as far as their sequences do.
LEMMA FlatteningIsUnique ==
  ASSUME NEW T, NEW ss \in Seq(Seq(T)), NEW tt \in Seq(Seq(T)), NEW n \in Nat,
         n <= Len(ss), n <= Len(tt), Agree(ss, tt, n)
  PROVE  \A f, g : Flattens(f, ss) /\ Flattens(g, tt) => Agree(f, g, n)
<1> USE DEF Agree
<1> SUFFICES ASSUME NEW f, Flattens(f, ss), NEW g, Flattens(g, tt)
             PROVE  \A i \in 1 .. n : f[i] = g[i]
  OBVIOUS
<1> DEFINE S == {m \in Nat : m \in 1 .. n => f[m] = g[m]}
<1>1. 0 \in S  OBVIOUS
<1>2. ASSUME NEW m \in Nat, m \in S PROVE m + 1 \in S
  <2> SUFFICES ASSUME m + 1 \in 1 .. n PROVE f[m + 1] = g[m + 1]  OBVIOUS
  <2>1. /\ f[m + 1] = IF m + 1 = 1 THEN ss[m + 1] ELSE f[(m + 1) - 1] \o ss[m + 1]
        /\ g[m + 1] = IF m + 1 = 1 THEN tt[m + 1] ELSE g[(m + 1) - 1] \o tt[m + 1]
    <3>1. m + 1 \in 1 .. Len(ss) /\ m + 1 \in 1 .. Len(tt)  OBVIOUS
    <3> QED BY <3>1 DEF Flattens
  <2>2. (m + 1) - 1 = m /\ (m + 1 # 1 => m \in 1 .. n)  OBVIOUS
  <2>3. m + 1 # 1 => f[m] = g[m]  BY <1>2, <2>2
  <2> QED BY <2>1, <2>2, <2>3
<1> HIDE DEF S
<1>3. \A m \in Nat : m \in S  BY <1>1, <1>2, NatSetInduction
<1> QED BY <1>3 DEF S

\* Flattening is a solution, read at its end.
LEMMA FlattenIs ==
  ASSUME NEW T, NEW ss \in Seq(Seq(T)), ss # <<>>
  PROVE  \E f \in [1 .. Len(ss) -> Seq(T)] : Flattens(f, ss) /\ FlattenSeq(ss) = f[Len(ss)]
<1> DEFINE F == CHOOSE f : Flattens(f, ss)
<1>1. Len(ss) \in Nat /\ Len(ss) # 0  OBVIOUS
<1>2. \E f : Flattens(f, ss)  BY <1>1, FlatteningExists
<1>3. Flattens(F, ss)  BY <1>2
<1>4. FlattenSeq(ss) = F[Len(ss)]  BY <1>1 DEF FlattenSeq, Flattens
<1>5. PICK g \in [1 .. Len(ss) -> Seq(T)] : Flattens(g, ss)  BY <1>1, FlatteningExists
<1> HIDE DEF F
<1>6. \A i \in 1 .. Len(ss) : F[i] = g[i]
  <2>1. Agree(ss, ss, Len(ss))  BY DEF Agree
  <2>2. Len(ss) \in Nat /\ Len(ss) <= Len(ss)  BY <1>1
  <2>3. Agree(F, g, Len(ss))
    <3>1. \A f, h : Flattens(f, ss) /\ Flattens(h, ss) => Agree(f, h, Len(ss))
      BY ONLY ss \in Seq(Seq(T)), <2>1, <2>2, FlatteningIsUnique
    <3> QED BY <1>3, <1>5, <3>1
  <2> QED BY <2>3 DEF Agree
<1>7. FlattenSeq(ss) = g[Len(ss)]  BY <1>1, <1>4, <1>6
<1> QED BY <1>5, <1>7

LEMMA FlattenEmpty == FlattenSeq(<<>>) = <<>>
BY DEF FlattenSeq

LEMMA FlattenType ==
  ASSUME NEW T, NEW ss \in Seq(Seq(T))
  PROVE  FlattenSeq(ss) \in Seq(T)
<1>1. CASE ss = <<>>
  <2>1. <<>> \in Seq(T)  OBVIOUS
  <2> QED BY <1>1, <2>1, FlattenEmpty
<1>2. CASE ss # <<>>
  <2>1. PICK f \in [1 .. Len(ss) -> Seq(T)] : FlattenSeq(ss) = f[Len(ss)]  BY <1>2, FlattenIs
  <2>2. Len(ss) \in 1 .. Len(ss)  BY <1>2
  <2> QED BY <2>1, <2>2
<1> QED BY <1>1, <1>2

\* One part more comes behind what there was.
LEMMA FlattenExtends ==
  ASSUME NEW T, NEW ss \in Seq(Seq(T)), NEW tt \in Seq(Seq(T)), NEW n \in Nat,
         n # 0, Len(ss) = n, Len(tt) = n + 1, \A i \in 1 .. n : ss[i] = tt[i]
  PROVE  FlattenSeq(tt) = FlattenSeq(ss) \o tt[n + 1]
<1>1. PICK g \in [1 .. Len(tt) -> Seq(T)] : Flattens(g, tt) /\ FlattenSeq(tt) = g[Len(tt)]
  <2>1. tt # <<>>  OBVIOUS
  <2> QED BY <2>1, FlattenIs
<1>2. PICK f \in [1 .. Len(ss) -> Seq(T)] : Flattens(f, ss) /\ FlattenSeq(ss) = f[Len(ss)]
  <2>1. ss # <<>>  OBVIOUS
  <2> QED BY <2>1, FlattenIs
<1>3. \A i \in 1 .. n : f[i] = g[i]
  <2>1. n <= Len(ss) /\ n <= Len(tt) /\ Agree(ss, tt, n)  BY DEF Agree
  <2>2. Agree(f, g, n)  BY <1>1, <1>2, <2>1, FlatteningIsUnique
  <2> QED BY <2>2 DEF Agree
<1>4. g[n + 1] = g[n] \o tt[n + 1]
  <2>1. n + 1 \in 1 .. Len(tt) /\ n + 1 # 1 /\ (n + 1) - 1 = n  OBVIOUS
  <2> QED BY <1>1, <2>1 DEF Flattens
<1>5. n \in 1 .. n  OBVIOUS
<1> QED BY <1>1, <1>2, <1>3, <1>4, <1>5

LEMMA FlattenAppend ==
  ASSUME NEW T, NEW ss \in Seq(Seq(T)), NEW x \in Seq(T)
  PROVE  FlattenSeq(Append(ss, x)) = FlattenSeq(ss) \o x
<1> DEFINE U == Seq(T)
<1>1. ss \in Seq(U) /\ x \in U  OBVIOUS
<1>2. /\ Append(ss, x) \in Seq(U) /\ Len(Append(ss, x)) = Len(ss) + 1 /\ Len(ss) \in Nat
      /\ Append(ss, x)[Len(ss) + 1] = x /\ \A i \in 1 .. Len(ss) : ss[i] = Append(ss, x)[i]
  <2> HIDE DEF U
  <2> QED BY <1>1
<1>3. CASE ss = <<>>
  <2>1. PICK g \in [1 .. Len(<<x>>) -> Seq(T)] : Flattens(g, <<x>>) /\ FlattenSeq(<<x>>) = g[Len(<<x>>)]
    <3>1. <<x>> # <<>>  OBVIOUS
    <3>2. <<x>> \in Seq(Seq(T))  OBVIOUS
    <3> QED BY <3>1, <3>2, FlattenIs
  <2>2. Len(<<x>>) = 1 /\ g[1] = x  BY <2>1 DEF Flattens
  <2>3. <<>> \o x = x /\ Append(<<>>, x) = <<x>>  OBVIOUS
  <2> QED BY <1>3, <2>1, <2>2, <2>3, FlattenEmpty
<1>4. CASE ss # <<>>
  <2>1. Len(ss) # 0  BY <1>4
  <2>2. Append(ss, x) \in Seq(Seq(T))  BY <1>2
  <2> HIDE DEF U
  <2> QED BY <1>2, <2>1, <2>2, FlattenExtends
<1> QED BY <1>3, <1>4

\* Nothing comes of parts that hold nothing.
LEMMA FlattenNothing ==
  ASSUME NEW T, NEW ss \in Seq(Seq(T)), \A i \in 1 .. Len(ss) : ss[i] = <<>>
  PROVE  FlattenSeq(ss) = <<>>
<1>1. CASE ss = <<>>  BY <1>1, FlattenEmpty
<1>2. CASE ss # <<>>
  <2>1. PICK f \in [1 .. Len(ss) -> Seq(T)] : Flattens(f, ss) /\ FlattenSeq(ss) = f[Len(ss)]
    BY <1>2, FlattenIs
  <2> DEFINE S == {m \in Nat : m \in 1 .. Len(ss) => f[m] = <<>>}
  <2>2. 0 \in S  OBVIOUS
  <2>3. ASSUME NEW m \in Nat, m \in S PROVE m + 1 \in S
    <3> SUFFICES ASSUME m + 1 \in 1 .. Len(ss) PROVE f[m + 1] = <<>>  OBVIOUS
    <3>1. f[m + 1] = IF m + 1 = 1 THEN ss[m + 1] ELSE f[(m + 1) - 1] \o ss[m + 1]
      BY <2>1 DEF Flattens
    <3>2. m + 1 # 1 => (m + 1) - 1 = m /\ f[m] = <<>>  BY <2>3
    <3> QED BY <3>1, <3>2
  <2> HIDE DEF S
  <2>4. \A m \in Nat : m \in S  BY <2>2, <2>3, NatSetInduction
  <2>5. Len(ss) \in S /\ Len(ss) \in 1 .. Len(ss)  BY <1>2, <2>4
  <2> QED BY <2>1, <2>5 DEF S
<1> QED BY <1>1, <1>2

-----------------------------------------------------------------------------
(* Streams: what sub-agents and turns say, and who hears it *)

CONSTANTS NoCallback, Forward, InboxCap
VARIABLES inbox, locks, running, onEvent, hooks, aim, made, events, full, starts

St == INSTANCE Streams WITH None <- NoCallback

Sessions_ == {Main} \cup Jobs

Kinds == {"text", "thinking", "tool", "status", "agent", "system", "done", "result", "error"}
Events == [kind : Kinds, from : Sessions_, n : Nat, at : Nat]
Closing == {"done", "result", "error"}

\* Where a job stands: before its turn, in it and after, and the task of a
\* sub-agent, which comes first.
PlacedOrLater == {"placed", "turn", "finishing", "returned", "ended"}
AtTask == {"working", "forwarding", "worked", "reporting"}
Unplaced == {"away", "inbox", "dropped", "asking", "queued", "told", "ready", "joined"} \cup AtTask

StreamTypes ==
  /\ situation \in Situations
  /\ pc \in [Jobs -> PlacedOrLater \cup Unplaced]
  /\ locks \in [Sessions_ -> Jobs \cup {NoCallback}]
  /\ onEvent \in [Sessions_ -> Jobs \cup {NoCallback, Forward}]
  /\ hooks \in [Sessions_ -> Jobs \cup {NoCallback, Forward}]
  /\ aim \in [Jobs -> Jobs \cup {NoCallback}] /\ made \in [Jobs -> Nat]
  /\ starts \in [Sessions_ -> Nat] /\ turnOf \in [Jobs -> Nat] /\ events \in [Jobs -> Nat]
  /\ verdict \in [Jobs -> {"none", "ok", "fail", "panic"}]
  /\ spoken \in [Jobs -> Seq(Nat)] /\ full \in [Jobs -> Seq(Nat)]
  /\ outbound \in [Jobs -> Seq(Seq(Nat))]
  /\ heard \in [Jobs -> Seq(Events)]
  /\ overtook \subseteq Jobs

\* The channel holds messages that nobody has taken yet, each of them once.
InboxInv ==
  /\ inbox \in Seq(Jobs)
  /\ \A i, k \in DOMAIN inbox : pc[inbox[i]] = "inbox" /\ (inbox[i] = inbox[k] => i = k)

\* The callback a job's request has, and the one its session keeps.
CallbackOf(j) == IF Kind(j) = "run" THEN NoCallback ELSE j

\* A sub-agent's line of ancestors ends at the top and does not come back to it.
LineInv ==
  \A j \in Jobs : (Kind(j) = "spawn" /\ pc[j] # "away") =>
    \E X \in SUBSET Sessions_ :
      /\ To(j) \in X /\ j \notin X
      /\ \A t \in X : t # Main => pc[t] # "away" /\ To(t) \in X

AddressInv == \A j \in Jobs : (pc[j] # "away" /\ To(j) # Main) => pc[To(j)] # "away"

\* A job has the lock of the session its turn or its task is on, and in its
\* turn its callback is that session's and the engine's.
TurnInv ==
  \A j \in Jobs :
    /\ pc[j] \in {"placed", "turn", "finishing"} => locks[To(j)] = j
    /\ pc[j] \in AtTask => locks[j] = j
    /\ pc[j] \in {"told", "ready"} \cup AtTask => Kind(j) = "spawn"
    /\ pc[j] = "placed" => onEvent[To(j)] = CallbackOf(j)
    /\ pc[j] = "turn" => hooks[To(j)] = CallbackOf(j)
    /\ pc[j] \in {"told", "ready"} => onEvent[j] \in {Forward, NoCallback} \cup overtook
    /\ pc[j] \in {"working", "forwarding"} => hooks[j] \in {Forward, NoCallback} \cup overtook
    /\ pc[j] \in Unplaced \ AtTask \/ pc[j] = "placed" => turnOf[j] = 0
    /\ pc[j] \in Unplaced \/ pc[j] \in {"placed", "turn"} => verdict[j] \in {"none"}

\* How far what is said by way of a job's callback may reach: the turns its
\* session has begun, up to its own.
Bound(k) == IF pc[k] = "placed" THEN starts[To(k)] ELSE turnOf[k]

\* A callback is that of a job of the session, which has been in its place.
CallbackInv ==
  \A s \in Sessions_ :
    /\ onEvent[s] = Forward => s # Main
    /\ onEvent[s] \in Jobs =>
         /\ To(onEvent[s]) = s /\ pc[onEvent[s]] \in PlacedOrLater
         /\ onEvent[s] \notin overtook => Bound(onEvent[s]) = starts[s]
    /\ hooks[s] \in Jobs => To(hooks[s]) = s /\ pc[hooks[s]] \in PlacedOrLater

AimInv ==
  \A j \in Jobs : aim[j] \in Jobs =>
    /\ pc[aim[j]] \in PlacedOrLater /\ To(aim[j]) # j
    /\ aim[j] \notin overtook => made[j] <= Bound(aim[j])

HeardInv ==
  \A k \in Jobs : \A i \in DOMAIN heard[k] : heard[k][i].at # 0 =>
    /\ pc[k] \in PlacedOrLater
    /\ k \notin overtook => heard[k][i].at <= Bound(k)

StreamInv ==
  /\ StreamTypes /\ InboxInv /\ LineInv /\ AddressInv /\ TurnInv
  /\ CallbackInv /\ AimInv /\ HeardInv

-----------------------------------------------------------------------------
(* Whole answers *)

TextIn(h, s) ==
  FlattenSeq([i \in DOMAIN h |-> IF h[i].from = s /\ h[i].kind = "text" THEN <<h[i].n>> ELSE <<>>])

ClosesIn(h) == {i \in DOMAIN h : h[i].kind \in Closing}

ClosedIn(h, s) ==
  \E i \in DOMAIN h :
    ClosesIn(h) = {i} /\ h[i].from = s /\ \A m \in DOMAIN h : h[m].from = s => m <= i

DoneLast(h) == h # <<>> /\ \A i \in DOMAIN h : h[i].kind = "done" <=> i = Len(h)

\* Over HTTP a turn that went well is closed when it is over, one that failed
\* when the request returns, and the others never.
Concluded(k) ==
  \/ verdict[k] = "ok" /\ pc[k] \in {"returned", "ended"}
  \/ verdict[k] = "fail" /\ pc[k] = "ended"

\* Before its place nothing but that it was taken in has been said to it.
WaitsInSilence(k) ==
  pc[k] \in Unplaced =>
    /\ \A i \in DOMAIN heard[k] : heard[k][i].kind = "status"
    /\ full[k] = <<>>
    /\ pc[k] \notin AtTask => spoken[k] = <<>>

Unanswered(k) == pc[k] # "ended" => outbound[k] = <<>>

Asked(k) == pc[k] \in PlacedOrLater /\ k \notin overtook /\ (OnBus(k) \/ OnHttp(k))

\* From then on it has been sent what its turn has spoken, and how it ended
\* once, and as the last of it.
HasHeard(k) ==
  Asked(k) =>
    /\ TextIn(heard[k], To(k)) = spoken[k]
    /\ OnBus(k) => full[k] = spoken[k]
    /\ OnBus(k) /\ pc[k] # "ended" => ClosesIn(heard[k]) = {}
    /\ OnHttp(k) => IF Concluded(k) THEN ClosedIn(heard[k], To(k)) ELSE ClosesIn(heard[k]) = {}
    /\ OnBus(k) /\ pc[k] = "ended" =>
         /\ DoneLast(heard[k])
         /\ outbound[k] = IF spoken[k] = <<>> \/ verdict[k] = "panic" THEN <<>> ELSE <<spoken[k]>>

AnswerOK(k) == WaitsInSilence(k) /\ Unanswered(k) /\ HasHeard(k)

AnswerInv == \A k \in Jobs : AnswerOK(k)

-----------------------------------------------------------------------------
(* One event more *)

USE DEF Kind, To, St!Kind, St!To, OnBus, OnHttp, St!OnBus, St!Sessions, Sessions_, Events, Kinds

\* What a callback does with an event: it sends it on, possibly by another
\* name, or leaves out what is no text on the bus.
Hears(l, e) ==
  /\ outbound' = outbound
  /\ full' \in [Jobs -> Seq(Nat)] /\ heard' \in [Jobs -> Seq(Events)]
  /\ \A k \in Jobs : k # l => heard'[k] = heard[k] /\ full'[k] = full[k]
  /\ l \in Jobs =>
       /\ full'[l] = IF OnBus(l) /\ e.kind = "text" THEN Append(full[l], e.n) ELSE full[l]
       /\ \/ heard'[l] = heard[l] /\ OnBus(l) /\ e.kind # "text"
          \/ \E d \in Events :
               /\ heard'[l] = Append(heard[l], d)
               /\ d.from = e.from /\ d.n = e.n /\ d.at = e.at
               /\ d.kind = "text" <=> e.kind = "text"
               /\ d.kind \in Closing <=> e.kind \in Closing
               /\ OnBus(l) => d.kind = e.kind /\ d.kind \in {"text", "thinking", "tool"}

LEMMA CallIsHeard ==
  ASSUME StreamTypes, NEW l, NEW e \in Events, St!Call(l, e)
  PROVE  Hears(l, e)
<1>1. CASE l \notin Jobs
  <2>1. UNCHANGED <<full, heard, outbound>>  BY <1>1 DEF St!Call, St!sideVars
  <2> QED BY <1>1, <2>1 DEF Hears, StreamTypes
<1>2. CASE l \in Jobs
  <2>1. /\ heard' = [heard EXCEPT ![l] = @ \o St!Sent(l, e)]
        /\ full' = IF OnBus(l) /\ e.kind = "text" THEN [full EXCEPT ![l] = Append(@, e.n)] ELSE full
        /\ outbound' = outbound
    BY <1>2 DEF St!Call
  <2>2. \/ St!Sent(l, e) = <<>> /\ OnBus(l) /\ e.kind # "text"
        \/ \E d \in Events :
             /\ St!Sent(l, e) = <<d>>
             /\ d.from = e.from /\ d.n = e.n /\ d.at = e.at
             /\ d.kind = "text" <=> e.kind = "text"
             /\ d.kind \in Closing <=> e.kind \in Closing
             /\ OnBus(l) => d.kind = e.kind /\ d.kind \in {"text", "thinking", "tool"}
    <3>1. CASE OnBus(l)
      <4>1. St!Sent(l, e) = St!BusDelta(l, e)  BY <3>1 DEF St!Sent
      <4>2. St!BusDelta(l, e) = <<e>> \/ St!BusDelta(l, e) = <<>>  BY DEF St!BusDelta
      <4> QED BY <3>1, <4>1, <4>2 DEF St!BusDelta, Closing
    <3>2. CASE Kind(l) = "bridge"
      <4>1. St!Sent(l, e) = <<St!BridgeEvent(e)>>  BY <3>2 DEF St!Sent
      <4>2. \/ e.kind = "done" /\ St!BridgeEvent(e) = [e EXCEPT !.kind = "result"]
            \/ e.kind \in {"status", "agent"} /\ St!BridgeEvent(e) = [e EXCEPT !.kind = "system"]
            \/ e.kind \notin {"done", "status", "agent"} /\ St!BridgeEvent(e) = [e EXCEPT !.kind = e.kind]
        <5>1. CASE e.kind = "done"  BY <5>1 DEF St!BridgeEvent
        <5>2. CASE e.kind \in {"status", "agent"}  BY <5>2 DEF St!BridgeEvent
        <5>3. CASE e.kind \notin {"done", "status", "agent"}  BY <5>3 DEF St!BridgeEvent
        <5> QED BY <5>1, <5>2, <5>3
      <4> DEFINE d == St!BridgeEvent(e)
      <4>3. d \in Events /\ d.from = e.from /\ d.n = e.n /\ d.at = e.at
        <5>1. \A x \in Kinds : /\ [e EXCEPT !.kind = x] \in Events
                                /\ [e EXCEPT !.kind = x].from = e.from
                                /\ [e EXCEPT !.kind = x].n = e.n /\ [e EXCEPT !.kind = x].at = e.at
          OBVIOUS
        <5>2. \E x \in Kinds : d = [e EXCEPT !.kind = x]
          <6> HIDE DEF St!BridgeEvent
          <6>1. e.kind \in Kinds /\ "result" \in Kinds /\ "system" \in Kinds  OBVIOUS
          <6>2. CASE d = [e EXCEPT !.kind = "result"]  BY <6>1, <6>2
          <6>3. CASE d = [e EXCEPT !.kind = "system"]  BY <6>1, <6>3
          <6>4. CASE d = [e EXCEPT !.kind = e.kind]  BY <6>1, <6>4
          <6> QED BY <4>2, <6>2, <6>3, <6>4
        <5> HIDE DEF d
        <5> QED BY <5>1, <5>2
      <4>4. /\ d.kind = "text" <=> e.kind = "text"
            /\ d.kind \in Closing <=> e.kind \in Closing
        BY <4>2 DEF Closing
      <4>5. St!Sent(l, e) = <<d>> /\ ~OnBus(l)  BY <3>2, <4>1
      <4> HIDE DEF d
      <4> QED BY <4>3, <4>4, <4>5
    <3>3. CASE ~OnBus(l) /\ Kind(l) # "bridge"
      <4>1. St!Sent(l, e) = <<e>>  BY <3>3 DEF St!Sent
      <4> QED BY <3>3, <4>1
    <3> QED BY <3>1, <3>2, <3>3
  <2>3. heard \in [Jobs -> Seq(Events)] /\ full \in [Jobs -> Seq(Nat)] /\ e.n \in Nat
    BY DEF StreamTypes
  <2>4. full' \in [Jobs -> Seq(Nat)]
    BY <1>2, <2>1, <2>3
  <2>5. heard'[l] = heard[l] \o St!Sent(l, e)  BY <1>2, <2>1, <2>3
  <2>6. \A d \in Events : heard[l] \o <<d>> = Append(heard[l], d) /\ Append(heard[l], d) \in Seq(Events)
    <3>1. heard[l] \in Seq(Events)  BY <1>2, <2>3
    <3> HIDE DEF Events
    <3> QED BY <3>1
  <2>7. heard[l] \o <<>> = heard[l]  BY <1>2, <2>3
  <2>8. heard'[l] \in Seq(Events)
    <3>1. CASE St!Sent(l, e) = <<>>  BY <1>2, <2>3, <2>5, <2>7, <3>1
    <3>2. ASSUME NEW d \in Events, St!Sent(l, e) = <<d>> PROVE heard'[l] \in Seq(Events)
      BY <2>5, <2>6, <3>2
    <3> QED BY <2>2, <3>1, <3>2
  <2>9. heard' \in [Jobs -> Seq(Events)]  BY <1>2, <2>1, <2>3, <2>5, <2>8
  <2> QED BY <1>2, <2>1, <2>2, <2>3, <2>4, <2>5, <2>6, <2>7, <2>9 DEF Hears
<1> QED BY <1>1, <1>2

-----------------------------------------------------------------------------
(* Steps of the streams *)

LEMMA Places ==
  ASSUME St!StreamsAssumption, StreamTypes
  PROVE  /\ Main \notin Jobs /\ NoCallback \notin Jobs /\ Forward \notin Jobs /\ Forward # NoCallback
         /\ Main # Forward /\ Main # NoCallback
         /\ \A j \in Jobs : /\ To(j) \in Sessions_
                            /\ To(j) # Main => To(j) \in Jobs /\ Kind(To(j)) = "spawn"
                            /\ Kind(j) \in {"bus", "stream", "bridge", "run", "spawn", "none"}
         /\ situation.says \subseteq {"text", "thinking", "tool", "status"}
         /\ situation.faults \subseteq {"fail", "panic", "deadline", "full"}
BY DEF St!StreamsAssumption, StreamTypes

LEMMA InboxStep ==
  ASSUME St!StreamsAssumption, StreamTypes, InboxInv, [St!Next]_St!vars
  PROVE  InboxInv'
<1> USE DEF St!Move, InboxInv
<1>0. pc \in [Jobs -> PlacedOrLater \cup Unplaced]  BY DEF StreamTypes
<1>1. CASE UNCHANGED St!vars  BY <1>1, <1>0 DEF St!vars, St!aims, St!turnVars, St!sideVars
<1>2. CASE St!HandleBusMessage  BY <1>2, <1>0 DEF St!HandleBusMessage, St!aims, St!turnVars, St!Event
<1>3. ASSUME NEW j \in Jobs, St!Deliver(j) PROVE InboxInv'
  <2>1. /\ pc[j] = "away"
        /\ \/ pc' = [pc EXCEPT ![j] = "inbox"] /\ inbox' = Append(inbox, j)
           \/ pc' = [pc EXCEPT ![j] = "dropped"] /\ inbox' = inbox
    BY <1>3 DEF St!Deliver
  <2>2. /\ Append(inbox, j) \in Seq(Jobs) /\ Len(Append(inbox, j)) = Len(inbox) + 1
        /\ Append(inbox, j)[Len(inbox) + 1] = j
        /\ \A i \in DOMAIN inbox : Append(inbox, j)[i] = inbox[i] /\ inbox[i] \in Jobs
    OBVIOUS
  <2>3. \A i \in DOMAIN inbox : inbox[i] # j  BY <2>1
  <2>4. CASE inbox' = inbox  BY <1>0, <2>1, <2>3, <2>4
  <2>5. CASE inbox' = Append(inbox, j) /\ pc' = [pc EXCEPT ![j] = "inbox"]
    <3>1. \A k \in Jobs : pc'[k] = IF k = j THEN "inbox" ELSE pc[k]  BY <1>0, <2>5
    <3>2. \A i \in DOMAIN inbox' : i = Len(inbox) + 1 \/ i \in DOMAIN inbox  BY <2>2, <2>5
    <3> QED BY <2>2, <2>3, <2>5, <3>1, <3>2
  <2> QED BY <2>1, <2>4, <2>5
<1>4. ASSUME NEW j \in Jobs, St!Request(j) PROVE InboxInv'
  BY <1>4, <1>0 DEF St!Request, St!Addressable, St!aims, St!turnVars, St!sideVars
<1>5. ASSUME NEW j \in Jobs, St!Spawn(j) PROVE InboxInv'
  BY <1>5, <1>0 DEF St!Spawn, St!Aim, St!Aims, St!Above, St!aims, St!turnVars, St!sideVars
<1>6. ASSUME NEW j \in Jobs, St!Emit(j) PROVE InboxInv'
  BY <1>6, <1>0 DEF St!Emit, St!Aim, St!Aims, St!Above, St!InTurn, St!Session, St!aims, St!turnVars, St!sideVars
<1>7. ASSUME NEW j \in Jobs, St!Join(j) PROVE InboxInv'
  BY <1>7, <1>0 DEF St!Join, St!aims, St!turnVars, St!sideVars
<1>8. ASSUME NEW j \in Jobs, St!TakeOver(j) PROVE InboxInv'
  BY <1>8, <1>0 DEF St!TakeOver, St!Overtakes, St!aims, St!turnVars, St!sideVars
<1>9. ASSUME NEW j \in Jobs, St!Expire(j) PROVE InboxInv'
  BY <1>9, <1>0 DEF St!Expire, St!aims, St!turnVars, St!sideVars
<1>10. ASSUME NEW j \in Jobs, St!StartTurn(j) PROVE InboxInv'
  BY <1>10, <1>0 DEF St!StartTurn, St!Begins, St!aims, St!turnVars, St!sideVars
<1>11. ASSUME NEW j \in Jobs, St!Finish(j) PROVE InboxInv'
  BY <1>11, <1>0 DEF St!Finish, St!aims, St!turnVars, St!sideVars
<1>12. ASSUME NEW j \in Jobs, St!Return(j) PROVE InboxInv'
  BY <1>12, <1>0 DEF St!Return, St!aims, St!turnVars, St!sideVars
<1>13. ASSUME NEW j \in Jobs, St!CallAbove(j) PROVE InboxInv'
  BY <1>13, <1>0 DEF St!CallAbove, St!aims, St!turnVars, St!sideVars
<1>14. ASSUME NEW j \in Jobs, St!StartWork(j) PROVE InboxInv'
  BY <1>14, <1>0 DEF St!StartWork, St!Begins, St!aims, St!turnVars, St!sideVars
<1>15. ASSUME NEW j \in Jobs, St!Report(j) PROVE InboxInv'
  BY <1>15, <1>0 DEF St!Report, St!aims, St!turnVars, St!sideVars
<1>16. ASSUME NEW j \in Jobs, St!EndTurn(j) PROVE InboxInv'
  BY <1>16, <1>0 DEF St!EndTurn, St!aims, St!turnVars, St!sideVars
<1>17. ASSUME NEW j \in Jobs, St!EndWork(j) PROVE InboxInv'
  BY <1>17, <1>0 DEF St!EndWork, St!Aim, St!Aims, St!Above, St!aims, St!turnVars, St!sideVars
<1> QED BY <1>1, <1>2, <1>3, <1>4, <1>5, <1>6, <1>7, <1>8, <1>9, <1>10, <1>11, <1>12, <1>13, <1>14, <1>15, <1>16, <1>17 DEF St!Next, St!Step, St!End

\* The steps that leave callbacks, locks and turns alone: one job goes on.
Quiet(j) ==
  /\ UNCHANGED <<situation, locks, onEvent, hooks, starts, turnOf, overtook>>
  /\ \A k \in Jobs : k # j => pc'[k] = pc[k] /\ verdict'[k] = verdict[k]
  /\ \/ pc'[j] = pc[j] /\ verdict'[j] = verdict[j]
     \/ /\ pc[j] \in {"away", "inbox", "asking"} /\ verdict'[j] = verdict[j]
        /\ pc'[j] \in {"inbox", "dropped", "asking", "queued", "returned"}
        /\ pc[j] = "away" => Kind(j) # "spawn" /\ (To(j) # Main => pc[To(j)] # "away")
     \/ pc[j] = "queued" /\ pc'[j] = "returned" /\ verdict'[j] = "fail"
     \/ pc[j] = "turn" /\ pc'[j] = "finishing" /\ verdict'[j] \in {"ok", "fail", "panic"}
     \/ /\ verdict'[j] = verdict[j]
        /\ \/ pc[j] = "returned" /\ pc'[j] = "ended"
           \/ pc[j] = "told" /\ pc'[j] = "ready"
           \/ pc[j] = "working" /\ pc'[j] \in {"forwarding", "worked"}
           \/ pc[j] = "forwarding" /\ pc'[j] = "working"
           \/ pc[j] = "worked" /\ pc'[j] = "reporting"

QuietAction(j) ==
  \/ St!Deliver(j) \/ St!Request(j) \/ St!Emit(j) \/ St!Join(j) \/ St!Expire(j) \/ St!Return(j)
  \/ St!CallAbove(j) \/ St!EndTurn(j) \/ St!EndWork(j)

LEMMA QuietActions ==
  ASSUME St!StreamsAssumption, StreamTypes, InboxInv, NEW j \in Jobs, QuietAction(j)
  PROVE  Quiet(j)
<1> USE DEF St!Move, St!aims, St!turnVars, St!sideVars
<1>0. /\ pc \in [Jobs -> PlacedOrLater \cup Unplaced]
      /\ verdict \in [Jobs -> {"none", "ok", "fail", "panic"}]
  BY DEF StreamTypes
<1>1. CASE St!Deliver(j)  BY <1>0, <1>1 DEF Quiet, St!Deliver, St!Addressable
<1>2. CASE St!Request(j)  BY <1>0, <1>2 DEF Quiet, St!Request, St!Addressable
<1>3. CASE St!Emit(j)
  <2>1. UNCHANGED <<situation, locks, onEvent, hooks, starts, turnOf, overtook, verdict>>
    BY <1>3 DEF St!Emit
  <2>2. pc' = pc \/ (pc[j] = "working" /\ pc' = [pc EXCEPT ![j] = "forwarding"])
    BY <1>3 DEF St!Emit
  <2> QED BY <1>0, <2>1, <2>2 DEF Quiet
<1>4. CASE St!Join(j)  BY <1>0, <1>4 DEF Quiet, St!Join
<1>5. CASE St!Expire(j)  BY <1>0, <1>5 DEF Quiet, St!Expire
<1>6. CASE St!Return(j)
  <2>1. UNCHANGED <<situation, locks, onEvent, hooks, starts, turnOf, overtook, verdict>>
    BY <1>6 DEF St!Return
  <2>2. pc[j] = "returned" /\ pc' = [pc EXCEPT ![j] = "ended"]
    BY <1>6 DEF St!Return
  <2> QED BY <1>0, <2>1, <2>2 DEF Quiet
<1>7. CASE St!CallAbove(j)
  <2>1. UNCHANGED <<situation, locks, onEvent, hooks, starts, turnOf, overtook, verdict>>
    BY <1>7 DEF St!CallAbove
  <2>2. \/ pc[j] = "told" /\ pc' = [pc EXCEPT ![j] = "ready"]
        \/ pc[j] = "forwarding" /\ pc' = [pc EXCEPT ![j] = "working"]
        \/ pc[j] = "worked" /\ pc' = [pc EXCEPT ![j] = "reporting"]
    BY <1>7 DEF St!CallAbove
  <2> QED BY <1>0, <2>1, <2>2 DEF Quiet
<1>8. CASE St!EndTurn(j)
  <2>1. UNCHANGED <<situation, locks, onEvent, hooks, starts, turnOf, overtook>>
    BY <1>8 DEF St!EndTurn
  <2>2. PICK how \in {"ok"} \cup ({"fail", "panic"} \cap situation.faults) :
          pc[j] = "turn" /\ pc' = [pc EXCEPT ![j] = "finishing"] /\ verdict' = [verdict EXCEPT ![j] = how]
    BY <1>8 DEF St!EndTurn
  <2> QED BY <1>0, <2>1, <2>2 DEF Quiet
<1>9. CASE St!EndWork(j)
  <2>1. UNCHANGED <<situation, locks, onEvent, hooks, starts, turnOf, overtook, verdict>>
    BY <1>9 DEF St!EndWork
  <2>2. pc[j] = "working" /\ pc' = [pc EXCEPT ![j] = "worked"]
    BY <1>9 DEF St!EndWork
  <2> QED BY <1>0, <2>1, <2>2 DEF Quiet
<1> QED BY <1>1, <1>2, <1>3, <1>4, <1>5, <1>6, <1>7, <1>8, <1>9 DEF QuietAction

LEMMA QuietBus ==
  ASSUME StreamTypes, InboxInv, St!HandleBusMessage
  PROVE  \E j \in Jobs : Quiet(j)
<1>0. /\ pc \in [Jobs -> PlacedOrLater \cup Unplaced]
      /\ inbox[1] \in Jobs /\ pc[inbox[1]] = "inbox" /\ Head(inbox) = inbox[1]
  <2>1. pc \in [Jobs -> PlacedOrLater \cup Unplaced]  BY DEF StreamTypes
  <2>2. inbox \in Seq(Jobs) /\ inbox # <<>>  BY DEF InboxInv, St!HandleBusMessage
  <2>3. 1 \in DOMAIN inbox /\ Head(inbox) = inbox[1] /\ inbox[1] \in Jobs  BY <2>2
  <2> QED BY <2>1, <2>3 DEF InboxInv
<1>1. /\ UNCHANGED <<situation, locks, onEvent, hooks, starts, turnOf, overtook, verdict>>
      /\ pc' = [pc EXCEPT ![inbox[1]] = "asking"]
  BY <1>0 DEF St!HandleBusMessage, St!turnVars
<1> QED BY <1>0, <1>1 DEF Quiet

\* The other steps, point by point.
Only(j, from, to) ==
  /\ pc[j] = from /\ pc'[j] = to
  /\ \A k \in Jobs : k # j => pc'[k] = pc[k]

Placing(j) ==
  /\ Only(j, "queued", "placed") /\ UNCHANGED <<situation, hooks, starts, turnOf, verdict, heard>>
  /\ locks[To(j)] = NoCallback /\ locks'[To(j)] = j
  /\ onEvent'[To(j)] = CallbackOf(j)
  /\ \A s \in Sessions_ : s # To(j) => locks'[s] = locks[s] /\ onEvent'[s] = onEvent[s]
  /\ overtook \subseteq overtook'
  /\ (To(j) # Main /\ pc[To(j)] \in {"told", "ready"}) => j \in overtook'

\* A turn of job j begins, on session s.
Beginning(j, s) ==
  /\ UNCHANGED <<situation, onEvent, verdict, overtook, heard>>
  /\ hooks'[s] = onEvent[s] /\ starts'[s] = starts[s] + 1 /\ turnOf'[j] = starts[s] + 1
  /\ \A t \in Sessions_ : t # s => hooks'[t] = hooks[t] /\ starts'[t] = starts[t]
  /\ \A k \in Jobs : k # j => turnOf'[k] = turnOf[k]

Working(j) ==
  /\ Only(j, "ready", "working") /\ Beginning(j, j)
  /\ locks[j] = NoCallback /\ locks'[j] = j
  /\ \A s \in Sessions_ : s # j => locks'[s] = locks[s]

Spawning(j) ==
  /\ Only(j, "away", "told") /\ Kind(j) = "spawn"
  /\ UNCHANGED <<situation, locks, hooks, starts, turnOf, verdict, overtook, heard>>
  /\ onEvent'[j] = Forward
  /\ \A s \in Sessions_ : s # j => onEvent'[s] = onEvent[s]
  /\ \E k \in Jobs : (pc[k] = "working" /\ k = To(j)) \/ (pc[k] = "turn" /\ To(k) = To(j))

Finishing(j) ==
  /\ Only(j, "finishing", "returned")
  /\ UNCHANGED <<situation, onEvent, hooks, starts, turnOf, verdict, overtook>>
  /\ locks'[To(j)] = NoCallback
  /\ \A s \in Sessions_ : s # To(j) => locks'[s] = locks[s]

Reporting(j) ==
  /\ pc[j] = "reporting" /\ pc'[j] \in {"joined", "asking"}
  /\ \A k \in Jobs : k # j => pc'[k] = pc[k] /\ turnOf'[k] = turnOf[k]
  /\ UNCHANGED <<situation, onEvent, hooks, starts, verdict, overtook, heard>>
  /\ locks'[j] = NoCallback /\ turnOf'[j] = 0
  /\ \A s \in Sessions_ : s # j => locks'[s] = locks[s]

Loud(j) ==
  \/ Placing(j) \/ (Only(j, "placed", "turn") /\ Beginning(j, To(j)) /\ locks' = locks)
  \/ Working(j) \/ Spawning(j) \/ Finishing(j) \/ Reporting(j)

LEMMA LoudActions ==
  ASSUME St!StreamsAssumption, StreamTypes, NEW j \in Jobs,
         St!TakeOver(j) \/ St!StartTurn(j) \/ St!StartWork(j) \/ St!Spawn(j) \/ St!Finish(j)
           \/ St!Report(j)
  PROVE  Loud(j)
<1> USE DEF St!Move, St!aims, St!turnVars, St!sideVars, Only
<1>0. /\ pc \in [Jobs -> PlacedOrLater \cup Unplaced]
      /\ locks \in [Sessions_ -> Jobs \cup {NoCallback}]
      /\ onEvent \in [Sessions_ -> Jobs \cup {NoCallback, Forward}]
      /\ hooks \in [Sessions_ -> Jobs \cup {NoCallback, Forward}]
      /\ starts \in [Sessions_ -> Nat] /\ turnOf \in [Jobs -> Nat]
      /\ To(j) \in Sessions_
  BY Places DEF StreamTypes
<1>1. CASE St!TakeOver(j)
  <2>1. Placing(j)  BY <1>0, <1>1 DEF St!TakeOver, St!Overtakes, Placing, CallbackOf
  <2> QED BY <2>1 DEF Loud
<1>2. CASE St!StartTurn(j)
  <2>1. Only(j, "placed", "turn") /\ locks' = locks  BY <1>0, <1>2 DEF St!StartTurn
  <2>2. Beginning(j, To(j))  BY <1>0, <1>2 DEF St!StartTurn, St!Begins, Beginning
  <2> QED BY <2>1, <2>2 DEF Loud
<1>3. CASE St!StartWork(j)
  <2>1. Only(j, "ready", "working")  BY <1>0, <1>3 DEF St!StartWork
  <2>2. Beginning(j, j)  BY <1>0, <1>3 DEF St!StartWork, St!Begins, Beginning
  <2>3. Working(j)  BY <1>0, <1>3, <2>1, <2>2 DEF St!StartWork, Working
  <2> QED BY <2>3 DEF Loud
<1>4. CASE St!Spawn(j)
  <2>1. Only(j, "away", "told")  BY <1>0, <1>4 DEF St!Spawn
  <2>2. /\ Kind(j) = "spawn"
        /\ UNCHANGED <<situation, locks, hooks, starts, turnOf, verdict, overtook, heard>>
        /\ onEvent' = [onEvent EXCEPT ![j] = Forward]
        /\ \E k \in Jobs : St!InTurn(k) /\ St!Session(k) = To(j)
    BY <1>4 DEF St!Spawn
  <2>3. \E k \in Jobs : (pc[k] = "working" /\ k = To(j)) \/ (pc[k] = "turn" /\ To(k) = To(j))
    BY <2>2 DEF St!InTurn, St!Session
  <2>4. Spawning(j)  BY <1>0, <2>1, <2>2, <2>3 DEF Spawning
  <2> QED BY <2>4 DEF Loud
<1>5. CASE St!Finish(j)
  <2>1. /\ Only(j, "finishing", "returned") /\ locks' = [locks EXCEPT ![To(j)] = NoCallback]
        /\ UNCHANGED <<situation, onEvent, hooks, starts, turnOf, verdict, overtook>>
    BY <1>0, <1>5 DEF St!Finish
  <2>2. Finishing(j)  BY <1>0, <2>1 DEF Finishing
  <2> QED BY <2>2 DEF Loud
<1>6. CASE St!Report(j)
  <2>1. Reporting(j)  BY <1>0, <1>6 DEF St!Report, Reporting
  <2> QED BY <2>1 DEF Loud
<1> QED BY <1>1, <1>2, <1>3, <1>4, <1>5, <1>6

LEMMA EveryStep ==
  ASSUME St!StreamsAssumption, StreamTypes, InboxInv, [St!Next]_St!vars
  PROVE  \/ UNCHANGED St!vars
         \/ \E j \in Jobs : Quiet(j) \/ Loud(j)
BY QuietActions, QuietBus, LoudActions DEF St!Next, St!Step, St!End, QuietAction

-----------------------------------------------------------------------------
(* Locks, callbacks and lines *)

TurnOK(j) ==
  /\ pc[j] \in {"placed", "turn", "finishing"} => locks[To(j)] = j
  /\ pc[j] \in AtTask => locks[j] = j
  /\ pc[j] \in {"told", "ready"} \cup AtTask => Kind(j) = "spawn"
  /\ pc[j] = "placed" => onEvent[To(j)] = CallbackOf(j)
  /\ pc[j] = "turn" => hooks[To(j)] = CallbackOf(j)
  /\ pc[j] \in {"told", "ready"} => onEvent[j] \in {Forward, NoCallback} \cup overtook
  /\ pc[j] \in {"working", "forwarding"} => hooks[j] \in {Forward, NoCallback} \cup overtook
  /\ pc[j] \in Unplaced \ AtTask \/ pc[j] = "placed" => turnOf[j] = 0
  /\ pc[j] \in Unplaced \/ pc[j] \in {"placed", "turn"} => verdict[j] = "none"

LEMMA TurnStep ==
  ASSUME St!StreamsAssumption, StreamTypes, InboxInv, AddressInv, TurnInv, [St!Next]_St!vars
  PROVE  TurnInv'
<1> SUFFICES ASSUME NEW k \in Jobs PROVE TurnOK(k)'
  BY DEF TurnInv, TurnOK
<1>0. /\ To(k) \in Sessions_ /\ k \in Sessions_ /\ TurnOK(k)
      /\ Forward \notin Jobs /\ NoCallback \notin Jobs /\ Main \notin Jobs
  BY Places DEF TurnInv, TurnOK
<1>1. CASE UNCHANGED St!vars  BY <1>0, <1>1 DEF St!vars, St!turnVars, TurnOK, CallbackOf
<1>2. ASSUME NEW j \in Jobs, Quiet(j) PROVE TurnOK(k)'
  BY <1>0, <1>2 DEF Quiet, TurnOK, CallbackOf, Unplaced, AtTask
<1>3. ASSUME NEW j \in Jobs, Loud(j) PROVE TurnOK(k)'
  <2>0. To(j) \in Sessions_ /\ TurnOK(j)  BY Places DEF TurnInv, TurnOK
  <2> USE DEF Only, CallbackOf, Unplaced, AtTask
  <2>1. CASE Placing(j)  BY <1>0, <2>0, <2>1 DEF Placing, TurnOK
  <2>2. CASE Only(j, "placed", "turn") /\ Beginning(j, To(j)) /\ locks' = locks
    BY <1>0, <2>0, <2>2 DEF Beginning, TurnOK
  <2>3. CASE Working(j)  BY <1>0, <2>0, <2>3 DEF Working, Beginning, TurnOK
  <2>4. CASE Spawning(j)
    BY <1>0, <2>0, <2>4 DEF Spawning, TurnOK, AddressInv
  <2>5. CASE Finishing(j)  BY <1>0, <2>0, <2>5 DEF Finishing, TurnOK
  <2>6. CASE Reporting(j)  BY <1>0, <2>0, <2>6 DEF Reporting, TurnOK
  <2> QED BY <1>3, <2>1, <2>2, <2>3, <2>4, <2>5, <2>6 DEF Loud
<1> QED BY <1>1, <1>2, <1>3, EveryStep

\* Nobody goes away again, and who comes is announced by somebody who is there.
LEMMA Present ==
  ASSUME St!StreamsAssumption, StreamTypes, InboxInv, AddressInv, [St!Next]_St!vars
  PROVE  /\ situation' = situation
         /\ \A k \in Jobs : pc[k] # "away" => pc'[k] # "away"
         /\ \A k \in Jobs : (pc[k] = "away" /\ pc'[k] # "away" /\ To(k) # Main) => pc[To(k)] # "away"
<1>1. CASE UNCHANGED St!vars  BY <1>1 DEF St!vars
<1>2. ASSUME NEW j \in Jobs, Quiet(j)
      PROVE  /\ situation' = situation
             /\ \A k \in Jobs : pc[k] # "away" => pc'[k] # "away"
             /\ \A k \in Jobs : (pc[k] = "away" /\ pc'[k] # "away" /\ To(k) # Main) => pc[To(k)] # "away"
  BY <1>2 DEF Quiet
<1>3. ASSUME NEW j \in Jobs, Loud(j)
      PROVE  /\ situation' = situation
             /\ \A k \in Jobs : pc[k] # "away" => pc'[k] # "away"
             /\ \A k \in Jobs : (pc[k] = "away" /\ pc'[k] # "away" /\ To(k) # Main) => pc[To(k)] # "away"
  <2> USE DEF Only
  <2>1. CASE Placing(j)  BY <2>1 DEF Placing
  <2>2. CASE Only(j, "placed", "turn") /\ Beginning(j, To(j)) /\ locks' = locks
    BY <2>2 DEF Beginning
  <2>3. CASE Working(j)  BY <2>3 DEF Working, Beginning
  <2>4. CASE Spawning(j)  BY <2>4 DEF Spawning, AddressInv
  <2>5. CASE Finishing(j)  BY <2>5 DEF Finishing
  <2>6. CASE Reporting(j)  BY <2>6 DEF Reporting
  <2> QED BY <1>3, <2>1, <2>2, <2>3, <2>4, <2>5, <2>6 DEF Loud
<1> QED BY <1>1, <1>2, <1>3, EveryStep

LEMMA AddressStep ==
  ASSUME St!StreamsAssumption, StreamTypes, InboxInv, AddressInv, [St!Next]_St!vars
  PROVE  AddressInv'
<1>1. \A j \in Jobs : To(j) # Main => To(j) \in Jobs  BY Places
<1> QED BY <1>1, Present DEF AddressInv

\* An ancestry: closed upwards, and everybody in it is there.
Ancestry(X, j) ==
  /\ To(j) \in X /\ j \notin X
  /\ \A t \in X : t # Main => pc[t] # "away" /\ To(t) \in X

LEMMA LineStep ==
  ASSUME St!StreamsAssumption, StreamTypes, InboxInv, AddressInv, LineInv, [St!Next]_St!vars
  PROVE  LineInv'
<1> SUFFICES ASSUME NEW j \in Jobs, Kind(j)' = "spawn", pc'[j] # "away"
             PROVE  \E X \in SUBSET Sessions_ : Ancestry(X, j)'
  BY DEF LineInv, Ancestry
<1>1. /\ situation' = situation /\ Kind(j) = "spawn"
      /\ \A k \in Jobs : pc[k] # "away" => pc'[k] # "away"
      /\ Main \notin Jobs /\ To(j) \in Sessions_
      /\ To(j) # Main => To(j) \in Jobs /\ Kind(To(j)) = "spawn"
  BY Present, Places
<1>2. CASE pc[j] # "away"
  <2>1. PICK X \in SUBSET Sessions_ : Ancestry(X, j)  BY <1>1, <1>2 DEF LineInv, Ancestry
  <2>2. Ancestry(X, j)'  BY <1>1, <2>1 DEF Ancestry
  <2> QED BY <2>2
<1>3. CASE pc[j] = "away" /\ To(j) = Main
  <2>1. Ancestry({Main}, j)'  BY <1>1, <1>3 DEF Ancestry
  <2> QED BY <2>1
<1>4. CASE pc[j] = "away" /\ To(j) # Main
  <2>1. pc[To(j)] # "away"  BY <1>4, Present
  <2>2. PICK X \in SUBSET Sessions_ : Ancestry(X, To(j))
    BY <1>1, <1>4, <2>1 DEF LineInv, Ancestry
  <2>3. j \notin X \cup {To(j)}  BY <1>1, <1>4, <2>1, <2>2 DEF Ancestry
  <2>4. Ancestry(X \cup {To(j)}, j)'  BY <1>1, <1>4, <2>1, <2>2, <2>3 DEF Ancestry
  <2> QED BY <1>1, <2>4
<1> QED BY <1>2, <1>3, <1>4

\* Whatever is found above a sub-agent is none of its own session's.
LEMMA AboveIsElsewhere ==
  ASSUME St!StreamsAssumption, StreamTypes, LineInv, CallbackInv, NEW j \in Jobs,
         Kind(j) = "spawn", pc[j] # "away" \/ (To(j) # Main => pc[To(j)] # "away"),
         NEW l \in Jobs, l \in St!Above(j)
  PROVE  /\ To(l) # j /\ pc[l] \in PlacedOrLater
         /\ l \notin overtook => Bound(l) = starts[To(l)]
<1>1. PICK s \in Sessions_ : s \in St!Passed(j) /\ l = onEvent[s]
  BY DEF St!Above, St!Passed
<1>2. To(l) = s /\ pc[l] \in PlacedOrLater /\ (l \notin overtook => Bound(l) = starts[s])
  BY <1>1 DEF CallbackInv
<1>3. PICK X \in SUBSET Sessions_ :
        To(j) \in X /\ j \notin X /\ \A t \in X : t # Main => To(t) \in X
  <2>1. CASE pc[j] # "away"  BY <2>1 DEF LineInv
  <2>2. CASE pc[j] = "away" /\ To(j) = Main
    <3>1. {Main} \in SUBSET Sessions_ /\ j \notin {Main}  BY Places
    <3> QED BY <2>2, <3>1
  <2>3. CASE pc[j] = "away" /\ To(j) # Main
    <3>1. To(j) \in Jobs /\ Kind(To(j)) = "spawn" /\ pc[To(j)] # "away"  BY <2>3, Places
    <3>2. PICK X \in SUBSET Sessions_ : Ancestry(X, To(j))  BY <3>1 DEF LineInv, Ancestry
    <3>3. j \notin X \cup {To(j)}  BY <2>3, <3>1, <3>2, Places DEF Ancestry
    <3>4. X \cup {To(j)} \in SUBSET Sessions_  BY <3>1
    <3> QED BY <3>2, <3>3, <3>4 DEF Ancestry
  <2> QED BY <2>1, <2>2, <2>3
<1>4. s # j
  <2>1. onEvent[Main] # Forward  BY DEF CallbackInv
  <2>2. s \in X  BY <1>1, <1>3, <2>1 DEF St!Passed
  <2> QED BY <1>3, <2>2
<1> QED BY <1>2, <1>4

\* What a job may hear of only ever grows.
LEMMA BoundGrows ==
  ASSUME St!StreamsAssumption, StreamTypes, InboxInv, AddressInv, TurnInv, [St!Next]_St!vars
  PROVE  /\ situation' = situation /\ overtook \subseteq overtook'
         /\ \A k \in Jobs : pc[k] \in PlacedOrLater =>
              pc'[k] \in PlacedOrLater /\ Bound(k) \in Nat /\ Bound(k)' \in Nat /\ Bound(k) <= Bound(k)'
<1> DEFINE Grows == \A k \in Jobs : pc[k] \in PlacedOrLater =>
              pc'[k] \in PlacedOrLater /\ Bound(k) \in Nat /\ Bound(k)' \in Nat /\ Bound(k) <= Bound(k)'
<1>0. /\ \A j \in Jobs : To(j) \in Sessions_ /\ turnOf[j] \in Nat
      /\ \A s \in Sessions_ : starts[s] \in Nat
  BY Places DEF StreamTypes
<1> USE DEF Bound, PlacedOrLater, Unplaced, AtTask
<1>1. CASE UNCHANGED St!vars
  <2>1. UNCHANGED <<situation, overtook, pc, starts, turnOf>>  BY <1>1 DEF St!vars
  <2> QED BY <1>0, <2>1
<1>2. ASSUME NEW j \in Jobs, Quiet(j)
      PROVE  situation' = situation /\ overtook \subseteq overtook' /\ Grows
  BY <1>0, <1>2 DEF Quiet
<1>3. ASSUME NEW j \in Jobs, Loud(j)
      PROVE  situation' = situation /\ overtook \subseteq overtook' /\ Grows
  <2> USE DEF Only
  <2>1. CASE Placing(j)  BY <1>0, <2>1 DEF Placing
  <2>2. CASE Only(j, "placed", "turn") /\ Beginning(j, To(j)) /\ locks' = locks
    BY <1>0, <2>2 DEF Beginning
  <2>3. CASE Working(j)  BY <1>0, <2>3 DEF Working, Beginning
  <2>4. CASE Spawning(j)  BY <1>0, <2>4 DEF Spawning
  <2>5. CASE Finishing(j)  BY <1>0, <2>5 DEF Finishing
  <2>6. CASE Reporting(j)  BY <1>0, <2>6 DEF Reporting
  <2> QED BY <1>3, <2>1, <2>2, <2>3, <2>4, <2>5, <2>6 DEF Loud
<1> QED BY <1>1, <1>2, <1>3, EveryStep

CallbackOK(s) ==
  /\ onEvent[s] = Forward => s # Main
  /\ onEvent[s] \in Jobs =>
       /\ To(onEvent[s]) = s /\ pc[onEvent[s]] \in PlacedOrLater
       /\ onEvent[s] \notin overtook => Bound(onEvent[s]) = starts[s]
  /\ hooks[s] \in Jobs => To(hooks[s]) = s /\ pc[hooks[s]] \in PlacedOrLater

LEMMA CallbackStep ==
  ASSUME St!StreamsAssumption, StreamTypes, InboxInv, AddressInv, TurnInv, CallbackInv, [St!Next]_St!vars
  PROVE  CallbackInv'
<1> SUFFICES ASSUME NEW s \in Sessions_ PROVE CallbackOK(s)'
  BY DEF CallbackInv, CallbackOK
<1>0. /\ \A j \in Jobs : To(j) \in Sessions_ /\ turnOf[j] \in Nat
      /\ \A t \in Sessions_ : starts[t] \in Nat /\ CallbackOK(t)
      /\ Forward \notin Jobs /\ NoCallback \notin Jobs /\ Main \notin Jobs /\ Forward # NoCallback
  <2>1. \A t \in Sessions_ : CallbackOK(t)  BY DEF CallbackInv, CallbackOK
  <2>2. starts \in [Sessions_ -> Nat] /\ turnOf \in [Jobs -> Nat]  BY DEF StreamTypes
  <2>3. /\ \A j \in Jobs : To(j) \in Sessions_
        /\ Forward \notin Jobs /\ NoCallback \notin Jobs /\ Main \notin Jobs /\ Forward # NoCallback
    BY Places
  <2> QED BY <2>1, <2>2, <2>3
<1> USE DEF Bound, PlacedOrLater, Unplaced, AtTask
<1>1. CASE UNCHANGED St!vars
  <2>1. UNCHANGED <<situation, overtook, pc, starts, turnOf, onEvent, hooks>>  BY <1>1 DEF St!vars
  <2> QED BY <1>0, <2>1 DEF CallbackOK
<1>2. ASSUME NEW j \in Jobs, Quiet(j) PROVE CallbackOK(s)'
  BY <1>0, <1>2 DEF Quiet, CallbackOK
<1>3. ASSUME NEW j \in Jobs, Loud(j) PROVE CallbackOK(s)'
  <2>0. TurnOK(j)  BY DEF TurnInv, TurnOK
  <2> USE DEF Only, CallbackOf
  <2>1. CASE Placing(j)
    <3>1. CASE s = To(j)  BY <1>0, <2>0, <2>1, <3>1 DEF Placing, CallbackOK, TurnOK
    <3>2. CASE s # To(j)  BY <1>0, <2>1, <3>2 DEF Placing, CallbackOK
    <3> QED BY <3>1, <3>2
  <2>2. CASE Only(j, "placed", "turn") /\ Beginning(j, To(j)) /\ locks' = locks
    <3>1. CASE s = To(j)  BY <1>0, <2>0, <2>2, <3>1 DEF Beginning, CallbackOK, TurnOK
    <3>2. CASE s # To(j)
      <4>1. onEvent[s] \in Jobs => onEvent[s] # j  BY <1>0, <3>2 DEF CallbackOK
      <4> QED BY <1>0, <2>2, <3>2, <4>1 DEF Beginning, CallbackOK
    <3> QED BY <3>1, <3>2
  <2>3. CASE Working(j)
    <3>1. CASE s = j  BY <1>0, <2>0, <2>3, <3>1 DEF Working, Beginning, CallbackOK, TurnOK
    <3>2. CASE s # j  BY <1>0, <2>3, <3>2 DEF Working, Beginning, CallbackOK
    <3> QED BY <3>1, <3>2
  <2>4. CASE Spawning(j)  BY <1>0, <2>4 DEF Spawning, CallbackOK
  <2>5. CASE Finishing(j)  BY <1>0, <2>5 DEF Finishing, CallbackOK
  <2>6. CASE Reporting(j)  BY <1>0, <2>6 DEF Reporting, CallbackOK
  <2> QED BY <1>3, <2>1, <2>2, <2>3, <2>4, <2>5, <2>6 DEF Loud
<1> QED BY <1>1, <1>2, <1>3, EveryStep

\* What a sub-agent found above it is kept, or looked up anew.
AimsAnew(j) ==
  /\ aim'[j] \in St!Above(j)
  /\ (Kind(j) = "spawn" /\ pc[j] = "away" /\ (To(j) # Main => pc[To(j)] # "away")) \/ pc[j] = "working"
  /\ made'[j] = IF aim'[j] \in Jobs THEN starts[To(aim'[j])] ELSE 0

LEMMA AimsAbove ==
  ASSUME St!StreamsAssumption, StreamTypes, AddressInv, [St!Next]_St!vars, NEW j \in Jobs
  PROVE  (aim'[j] = aim[j] /\ made'[j] = made[j]) \/ AimsAnew(j)
<1> SUFFICES ASSUME ~(aim'[j] = aim[j] /\ made'[j] = made[j]) PROVE AimsAnew(j)
  OBVIOUS
<1>0. aim \in [Jobs -> Jobs \cup {NoCallback}] /\ made \in [Jobs -> Nat]
  BY DEF StreamTypes
<1>1. ASSUME UNCHANGED <<aim, made>> PROVE AimsAnew(j)  BY <1>1
<1>2. ASSUME NEW i \in Jobs, St!Aim(i),
             (Kind(i) = "spawn" /\ pc[i] = "away" /\ (To(i) # Main => pc[To(i)] # "away"))
               \/ pc[i] = "working"
      PROVE  AimsAnew(j)
  <2>1. PICK l \in St!Above(i) : /\ aim' = [aim EXCEPT ![i] = l]
                                 /\ made' = [made EXCEPT ![i] = IF l \in Jobs THEN starts[To(l)] ELSE 0]
    BY <1>2 DEF St!Aim, St!Aims
  <2>2. CASE i = j  BY <1>0, <1>2, <2>1, <2>2 DEF AimsAnew
  <2>3. CASE i # j  BY <1>0, <2>1, <2>3
  <2> QED BY <2>2, <2>3
<1> USE DEF St!aims
<1>3. ASSUME NEW i \in Jobs, St!Emit(i) PROVE AimsAnew(j)
  BY <1>1, <1>2, <1>3 DEF St!Emit, St!Move
<1>4. ASSUME NEW i \in Jobs, St!EndWork(i) PROVE AimsAnew(j)
  BY <1>2, <1>4 DEF St!EndWork, St!Move
<1>5. ASSUME NEW i \in Jobs, St!Spawn(i) PROVE AimsAnew(j)
  <2>1. Spawning(i)
    <3>1. Loud(i) /\ pc[i] = "away"  BY <1>5, LoudActions DEF St!Spawn, St!Move
    <3> QED BY <3>1 DEF Loud, Placing, Working, Finishing, Reporting, Only
  <2>2. To(i) # Main => pc[To(i)] # "away"  BY <2>1 DEF Spawning, AddressInv
  <2> QED BY <1>2, <1>5, <2>1, <2>2 DEF St!Spawn, Spawning, Only
<1>6. CASE UNCHANGED St!vars  BY <1>1, <1>6 DEF St!vars
<1>7. CASE St!HandleBusMessage  BY <1>1, <1>7 DEF St!HandleBusMessage
<1>8. ASSUME NEW i \in Jobs,
             St!Deliver(i) \/ St!Request(i) \/ St!Join(i) \/ St!Expire(i) \/ St!Return(i)
               \/ St!CallAbove(i) \/ St!EndTurn(i)
      PROVE  AimsAnew(j)
  <2>1. UNCHANGED <<aim, made>>
    BY <1>8 DEF St!Deliver, St!Request, St!Join, St!Expire, St!Return, St!CallAbove, St!EndTurn
  <2> QED BY <1>1, <2>1
<1>9. ASSUME NEW i \in Jobs,
             St!TakeOver(i) \/ St!StartTurn(i) \/ St!StartWork(i) \/ St!Finish(i) \/ St!Report(i)
      PROVE  AimsAnew(j)
  <2>1. UNCHANGED <<aim, made>>
    BY <1>9 DEF St!TakeOver, St!StartTurn, St!StartWork, St!Finish, St!Report
  <2> QED BY <1>1, <2>1
<1>10. AimsAnew(j)
  BY <1>3, <1>4, <1>5, <1>6, <1>7, <1>8, <1>9 DEF St!Next, St!Step, St!End
<1> QED BY <1>10

LEMMA AimStep ==
  ASSUME St!StreamsAssumption, StreamInv, [St!Next]_St!vars
  PROVE  AimInv'
<1> USE DEF StreamInv
<1> SUFFICES ASSUME NEW j \in Jobs, NEW l \in Jobs, aim'[j] = l
             PROVE  /\ pc'[l] \in PlacedOrLater /\ To(l)' # j
                    /\ l \notin overtook' => made'[j] <= Bound(l)'
  BY DEF AimInv, Bound
<1>0. made[j] \in Nat /\ To(l) \in Sessions_ /\ starts[To(l)] \in Nat
  BY Places DEF StreamTypes
<1>1. /\ To(l)' = To(l) /\ overtook \subseteq overtook'
      /\ pc[l] \in PlacedOrLater =>
           pc'[l] \in PlacedOrLater /\ Bound(l) \in Nat /\ Bound(l)' \in Nat /\ Bound(l) <= Bound(l)'
  BY BoundGrows
<1>2. CASE aim'[j] = aim[j] /\ made'[j] = made[j]
  <2>1. /\ pc[l] \in PlacedOrLater /\ To(l) # j
        /\ l \notin overtook => made[j] <= Bound(l)
    BY <1>2 DEF AimInv
  <2> HIDE DEF Bound, To
  <2> QED BY <1>0, <1>1, <1>2, <2>1
<1>3. CASE AimsAnew(j)
  <2>1. Kind(j) = "spawn" /\ (pc[j] # "away" \/ (To(j) # Main => pc[To(j)] # "away"))
    BY <1>3 DEF AimsAnew, TurnInv, AtTask
  <2>2. /\ To(l) # j /\ pc[l] \in PlacedOrLater
        /\ l \notin overtook => Bound(l) = starts[To(l)]
    BY <1>3, <2>1, AboveIsElsewhere DEF AimsAnew
  <2>3. made'[j] = starts[To(l)]  BY <1>3 DEF AimsAnew
  <2> HIDE DEF Bound, To
  <2> QED BY <1>0, <1>1, <2>2, <2>3
<1> QED BY <1>2, <1>3, AimsAbove

\* What a request is told when it returns.
LEMMA ReturnTells ==
  ASSUME StreamTypes, Main \in Sessions_, NEW j \in Jobs, To(j) \in Sessions_, St!Return(j)
  PROVE  LET err == /\ verdict[j] = "fail" \/ (verdict[j] = "panic" /\ OnBus(j))
                    /\ Kind(j) \in {"bus", "stream", "bridge"}
             E == [kind |-> "error", from |-> To(j), n |-> 0, at |-> 0]
             D == [kind |-> "done", from |-> To(j), n |-> 0, at |-> 0]
             first == IF err THEN Append(heard[j], E) ELSE heard[j]
         IN /\ E \in Events /\ D \in Events
            /\ heard'[j] = IF OnBus(j) THEN Append(first, D) ELSE first
            /\ \A k \in Jobs : k # j => heard'[k] = heard[k]
<1> DEFINE err == /\ verdict[j] = "fail" \/ (verdict[j] = "panic" /\ OnBus(j))
                  /\ Kind(j) \in {"bus", "stream", "bridge"}
           E == [kind |-> "error", from |-> To(j), n |-> 0, at |-> 0]
           D == [kind |-> "done", from |-> To(j), n |-> 0, at |-> 0]
           first == IF err THEN Append(heard[j], E) ELSE heard[j]
           last == (IF err THEN <<E>> ELSE <<>>) \o IF OnBus(j) THEN <<D>> ELSE <<>>
<1>1. heard' = [heard EXCEPT ![j] = @ \o last]
  BY DEF St!Return, St!Event
<1>2. E \in Events /\ D \in Events  OBVIOUS
<1> HIDE DEF E, D, Events, err, OnBus
<1>3. heard[j] \in Seq(Events) /\ heard'[j] = heard[j] \o last /\ \A k \in Jobs : k # j => heard'[k] = heard[k]
  BY <1>1 DEF StreamTypes
<1>4. heard[j] \o last = IF OnBus(j) THEN Append(first, D) ELSE first
  <2>1. CASE err /\ OnBus(j)
    <3>1. last = <<E>> \o <<D>>  BY <2>1
    <3>2. heard[j] \o (<<E>> \o <<D>>) = Append(Append(heard[j], E), D)
      <4> HIDE DEF last
      <4> QED BY <1>2, <1>3
    <3> QED BY <2>1, <3>1, <3>2
  <2>2. CASE err /\ ~OnBus(j)
    <3>1. last = <<E>>  BY <2>2
    <3>2. heard[j] \o <<E>> = Append(heard[j], E)  BY <1>2, <1>3
    <3> QED BY <2>2, <3>1, <3>2
  <2>3. CASE ~err /\ OnBus(j)
    <3>1. last = <<>> \o <<D>> /\ <<>> \o <<D>> = <<D>>  BY <1>2, <2>3
    <3>2. heard[j] \o <<D>> = Append(heard[j], D)  BY <1>2, <1>3
    <3> QED BY <2>3, <3>1, <3>2
  <2>4. CASE ~err /\ ~OnBus(j)
    <3>1. last = <<>>  BY <2>4
    <3>2. heard[j] \o <<>> = heard[j]  BY <1>3
    <3> QED BY <2>4, <3>1, <3>2
  <2> QED BY <2>1, <2>2, <2>3, <2>4
<1> HIDE DEF last, first
<1> QED BY <1>2, <1>3, <1>4 DEF E, D, err, first, OnBus

\* An event nobody has heard yet is from below only where a sub-agent calls.
LEMMA HeardStep ==
  ASSUME St!StreamsAssumption, StreamInv, [St!Next]_St!vars
  PROVE  HeardInv'
<1> USE DEF StreamInv
<1>0. /\ \A k \in Jobs : heard[k] \in Seq(Events) /\ made[k] \in Nat /\ events[k] \in Nat
      /\ pc \in [Jobs -> PlacedOrLater \cup Unplaced]
      /\ heard \in [Jobs -> Seq(Events)] /\ Main \in Sessions_
      /\ \A k \in Jobs : To(k) \in Sessions_ /\ St!Session(k) \in Sessions_
  <2>1. \A k \in Jobs : To(k) \in Sessions_ /\ St!Session(k) \in Sessions_  BY Places DEF St!Session
  <2> HIDE DEF Events
  <2>2. /\ heard \in [Jobs -> Seq(Events)] /\ made \in [Jobs -> Nat] /\ events \in [Jobs -> Nat]
        /\ pc \in [Jobs -> PlacedOrLater \cup Unplaced]
    BY DEF StreamTypes
  <2> QED BY <2>1, <2>2
<1> HIDE DEF Events
<1>1. ASSUME NEW k \in Jobs, NEW i \in DOMAIN heard'[k], heard'[k][i].at # 0,
             i \in DOMAIN heard[k] /\ heard'[k][i] = heard[k][i]
      PROVE  /\ pc'[k] \in PlacedOrLater
             /\ k \notin overtook' => heard'[k][i].at <= Bound(k)'
  <2>1. /\ pc[k] \in PlacedOrLater
        /\ k \notin overtook => heard[k][i].at <= Bound(k)
    BY <1>1 DEF HeardInv
  <2>2. heard[k][i] \in Events  BY <1>0, <1>1
  <2>3. heard[k][i].at \in Nat  BY <2>2 DEF Events
  <2>4. /\ overtook \subseteq overtook'
        /\ pc'[k] \in PlacedOrLater /\ Bound(k) \in Nat /\ Bound(k)' \in Nat /\ Bound(k) <= Bound(k)'
    BY <2>1, BoundGrows
  <2> HIDE DEF Bound
  <2> QED BY <1>1, <2>1, <2>3, <2>4
<1>2. ASSUME \A k \in Jobs : \A i \in DOMAIN heard'[k] :
               heard'[k][i].at = 0 \/ (i \in DOMAIN heard[k] /\ heard'[k][i] = heard[k][i])
      PROVE  HeardInv'
  BY <1>1, <1>2 DEF HeardInv
<1>3. ASSUME NEW l, NEW e \in Events, Hears(l, e), NEW k \in Jobs, NEW i \in DOMAIN heard'[k]
      PROVE  \/ k = l /\ heard'[k][i].at = e.at
             \/ i \in DOMAIN heard[k] /\ heard'[k][i] = heard[k][i]
  <2>1. CASE heard'[k] = heard[k]  BY <1>3, <2>1
  <2>2. CASE heard'[k] # heard[k]
    <3>1. k = l  BY <1>3, <2>2 DEF Hears
    <3>2. PICK d \in Events : heard'[k] = Append(heard[k], d) /\ d.at = e.at
      BY <1>3, <2>2, <3>1 DEF Hears
    <3>3. \/ i = Len(heard[k]) + 1 /\ heard'[k][i] = d
          \/ i \in DOMAIN heard[k] /\ heard'[k][i] = heard[k][i]
      BY <1>0, <3>2
    <3> QED BY <3>1, <3>2, <3>3
  <2> QED BY <2>1, <2>2
<1>4. ASSUME NEW kind \in Kinds, NEW s \in Sessions_, NEW n \in Nat, NEW at \in Nat
      PROVE  St!Event(kind, s, n, at) \in Events /\ St!Event(kind, s, n, at).at = at
  BY DEF Events, St!Event
<1>5. CASE UNCHANGED heard
  BY <1>2, <1>5
<1>6. CASE St!HandleBusMessage
  <2>1. Head(inbox) \in Jobs  BY <1>6 DEF InboxInv, St!HandleBusMessage
  <2>2. heard' = [heard EXCEPT ![Head(inbox)] = Append(@, St!Event("status", Main, 0, 0))]
    BY <1>6 DEF St!HandleBusMessage
  <2> DEFINE e == St!Event("status", Main, 0, 0)
  <2>3. e \in Events /\ e.at = 0  BY <1>0, <1>4
  <2> HIDE DEF e
  <2>4. ASSUME NEW k \in Jobs, NEW i \in DOMAIN heard'[k]
        PROVE  heard'[k][i].at = 0 \/ (i \in DOMAIN heard[k] /\ heard'[k][i] = heard[k][i])
    <3>1. CASE k # Head(inbox)  BY <1>0, <2>1, <2>2, <3>1, <2>4
    <3>2. CASE k = Head(inbox)
      <4>1. heard'[k] = Append(heard[k], e)  BY <1>0, <2>1, <2>2, <3>2 DEF e
      <4>2. \/ i = Len(heard[k]) + 1 /\ heard'[k][i] = e
            \/ i \in DOMAIN heard[k] /\ heard'[k][i] = heard[k][i]
        BY <1>0, <2>3, <2>4, <4>1
      <4> QED BY <2>3, <4>2
    <3> QED BY <3>1, <3>2
  <2> QED BY <1>2, <2>4
<1>7. ASSUME NEW j \in Jobs, St!Emit(j) PROVE HeardInv'
  <2>1. PICK kind \in situation.says :
          St!Call(hooks[St!Session(j)], St!Event(kind, St!Session(j), events[j], 0))
    BY <1>7 DEF St!Emit
  <2>2. kind \in Kinds  BY Places
  <2> DEFINE e == St!Event(kind, St!Session(j), events[j], 0)
  <2>3. e \in Events /\ e.at = 0  BY <1>0, <2>2 DEF St!Event, Events
  <2>4. Hears(hooks[St!Session(j)], e)  BY <2>1, <2>3, CallIsHeard
  <2> HIDE DEF e
  <2> QED BY <1>2, <1>3, <2>3, <2>4
<1>8. ASSUME NEW j \in Jobs, St!Finish(j) PROVE HeardInv'
  <2> DEFINE e == St!Event("done", To(j), 0, 0)
  <2>1. UNCHANGED heard \/ St!Call(j, e)
    BY <1>8 DEF St!Finish, St!sideVars
  <2>2. e \in Events /\ e.at = 0  BY <1>0 DEF St!Event, Events
  <2>3. UNCHANGED heard \/ Hears(j, e)  BY <2>1, <2>2, CallIsHeard
  <2> HIDE DEF e
  <2> QED BY <1>2, <1>3, <1>5, <2>2, <2>3
<1>9. ASSUME NEW j \in Jobs, St!CallAbove(j) PROVE HeardInv'
  <2> DEFINE e == St!Event("agent", j, events[j], made[j])
  <2>1. St!Call(aim[j], e)  BY <1>9 DEF St!CallAbove
  <2>2. e \in Events /\ e.at = made[j]  BY <1>0, <1>4
  <2>3. Hears(aim[j], e)  BY <2>1, <2>2, CallIsHeard
  <2> HIDE DEF e
  <2>4. ASSUME NEW k \in Jobs, NEW i \in DOMAIN heard'[k], heard'[k][i].at # 0
        PROVE  /\ pc'[k] \in PlacedOrLater
               /\ k \notin overtook' => heard'[k][i].at <= Bound(k)'
    <3>1. CASE i \in DOMAIN heard[k] /\ heard'[k][i] = heard[k][i]  BY <1>1, <2>4, <3>1
    <3>2. CASE k = aim[j] /\ heard'[k][i].at = made[j]
      <4>1. pc[k] \in PlacedOrLater /\ (k \notin overtook => made[j] <= Bound(k))
        BY <3>2 DEF AimInv
      <4> QED BY <1>0, <3>2, <4>1, BoundGrows
    <3> QED BY <1>3, <2>2, <2>3, <3>1, <3>2
  <2> QED BY <2>4 DEF HeardInv
<1>10. ASSUME NEW j \in Jobs, St!Return(j) PROVE HeardInv'
  <2>1. PICK E \in Events, D \in Events :
          /\ E.at = 0 /\ D.at = 0
          /\ heard'[j] \in {heard[j], Append(heard[j], E), Append(heard[j], D), Append(Append(heard[j], E), D)}
          /\ \A k \in Jobs : k # j => heard'[k] = heard[k]
    <3> DEFINE E == [kind |-> "error", from |-> To(j), n |-> 0, at |-> 0]
               D == [kind |-> "done", from |-> To(j), n |-> 0, at |-> 0]
    <3>1. E \in Events /\ D \in Events /\ E.at = 0 /\ D.at = 0  BY <1>0 DEF Events
    <3>2. /\ heard'[j] \in {heard[j], Append(heard[j], E), Append(heard[j], D), Append(Append(heard[j], E), D)}
          /\ \A k \in Jobs : k # j => heard'[k] = heard[k]
      BY <1>0, <1>10, ReturnTells
    <3> HIDE DEF E, D
    <3> QED BY <3>1, <3>2
  <2>2. \A i \in DOMAIN Append(heard[j], E) :
          Append(heard[j], E)[i].at = 0 \/ (i \in DOMAIN heard[j] /\ Append(heard[j], E)[i] = heard[j][i])
    BY <1>0, <2>1
  <2>3. \A first \in Seq(Events) : \A i \in DOMAIN Append(first, D) :
          Append(first, D)[i].at = 0 \/ (i \in DOMAIN first /\ Append(first, D)[i] = first[i])
    BY <2>1
  <2>5. Append(heard[j], E) \in Seq(Events) /\ heard[j] \in Seq(Events)  BY <1>0, <2>1
  <2>6. \A i \in DOMAIN heard'[j] :
          heard'[j][i].at = 0 \/ (i \in DOMAIN heard[j] /\ heard'[j][i] = heard[j][i])
    <3>1. CASE heard'[j] = heard[j]  BY <3>1
    <3>2. CASE heard'[j] = Append(heard[j], E)  BY <2>2, <3>2
    <3>3. CASE heard'[j] = Append(heard[j], D)  BY <2>3, <2>5, <3>3
    <3>4. CASE heard'[j] = Append(Append(heard[j], E), D)
      <4> SUFFICES ASSUME NEW i \in DOMAIN heard'[j], heard'[j][i].at # 0
                   PROVE  i \in DOMAIN heard[j] /\ heard'[j][i] = heard[j][i]
        OBVIOUS
      <4> DEFINE first == Append(heard[j], E)
      <4>1. i \in DOMAIN first /\ heard'[j][i] = first[i]
        <5>1. first \in Seq(Events) /\ heard'[j] = Append(first, D)  BY <2>5, <3>4
        <5> HIDE DEF first
        <5>2. \A k \in DOMAIN Append(first, D) :
                Append(first, D)[k].at = 0 \/ (k \in DOMAIN first /\ Append(first, D)[k] = first[k])
          BY <2>3, <5>1
        <5> QED BY <5>1, <5>2
      <4> QED BY <2>2, <4>1
    <3> QED BY <2>1, <3>1, <3>2, <3>3, <3>4
  <2>4. \A k \in Jobs : \A i \in DOMAIN heard'[k] :
          heard'[k][i].at = 0 \/ (i \in DOMAIN heard[k] /\ heard'[k][i] = heard[k][i])
    BY <2>1, <2>6
  <2> QED BY <1>2, <2>4
<1>11. ASSUME NEW j \in Jobs,
              St!Deliver(j) \/ St!Request(j) \/ St!Join(j) \/ St!Expire(j) \/ St!EndTurn(j)
                \/ St!EndWork(j) \/ St!Spawn(j) \/ St!TakeOver(j) \/ St!StartTurn(j)
                \/ St!StartWork(j) \/ St!Report(j)
      PROVE  UNCHANGED heard
  BY <1>11 DEF St!sideVars, St!Deliver, St!Request, St!Join, St!Expire, St!EndTurn, St!EndWork, St!Spawn,
       St!TakeOver, St!StartTurn, St!StartWork, St!Report
<1>12. CASE UNCHANGED St!vars  BY <1>5, <1>12 DEF St!vars, St!sideVars
<1> QED BY <1>5, <1>6, <1>7, <1>8, <1>9, <1>10, <1>11, <1>12 DEF St!Next, St!Step, St!End

-----------------------------------------------------------------------------
(* Types of the streams, and what sub-agents forward *)

Steering ==
  /\ pc \in [Jobs -> PlacedOrLater \cup Unplaced]
  /\ locks \in [Sessions_ -> Jobs \cup {NoCallback}]
  /\ onEvent \in [Sessions_ -> Jobs \cup {NoCallback, Forward}]
  /\ hooks \in [Sessions_ -> Jobs \cup {NoCallback, Forward}]
  /\ aim \in [Jobs -> Jobs \cup {NoCallback}] /\ made \in [Jobs -> Nat]
  /\ starts \in [Sessions_ -> Nat] /\ turnOf \in [Jobs -> Nat] /\ events \in [Jobs -> Nat]
  /\ verdict \in [Jobs -> {"none", "ok", "fail", "panic"}]
  /\ overtook \subseteq Jobs /\ situation \in Situations

LEMMA SteeringStep ==
  ASSUME St!StreamsAssumption, StreamTypes, InboxInv, [St!Next]_St!vars
  PROVE  Steering'
<1>0. Steering /\ \A j \in Jobs : To(j) \in Sessions_ /\ j \in Sessions_
  BY Places DEF StreamTypes, Steering
<1> USE DEF St!Move, St!aims, St!turnVars, St!sideVars, PlacedOrLater, Unplaced, AtTask, Steering
<1>1. CASE UNCHANGED St!vars  BY <1>0, <1>1 DEF St!vars
<1>2. CASE St!HandleBusMessage
  <2>1. Head(inbox) \in Jobs  BY <1>2 DEF InboxInv, St!HandleBusMessage
  <2> QED BY <1>0, <1>2, <2>1 DEF St!HandleBusMessage
<1>3. ASSUME NEW j \in Jobs, NEW l \in St!Above(j), St!Aims(j, l)
      PROVE  aim' \in [Jobs -> Jobs \cup {NoCallback}] /\ made' \in [Jobs -> Nat]
  <2>1. PICK s \in Sessions_ : l = onEvent[s] /\ l # Forward  BY <1>3 DEF St!Above, St!Passed
  <2>2. l \in Jobs \cup {NoCallback}  BY <1>0, <2>1
  <2>3. l \in Jobs => starts[To(l)] \in Nat  BY <1>0
  <2> QED BY <1>0, <1>3, <2>2, <2>3 DEF St!Aims
<1>4. ASSUME NEW j \in Jobs, St!Emit(j) PROVE Steering'
  <2>1. aim' \in [Jobs -> Jobs \cup {NoCallback}] /\ made' \in [Jobs -> Nat]
    BY <1>0, <1>3, <1>4 DEF St!Emit, St!Aim
  <2>2. pc' \in [Jobs -> PlacedOrLater \cup Unplaced]  BY <1>0, <1>4 DEF St!Emit
  <2>3. events' \in [Jobs -> Nat]  BY <1>0, <1>4 DEF St!Emit
  <2> QED BY <1>0, <1>4, <2>1, <2>2, <2>3 DEF St!Emit
<1>5. ASSUME NEW j \in Jobs, St!EndWork(j) PROVE Steering'
  <2>1. aim' \in [Jobs -> Jobs \cup {NoCallback}] /\ made' \in [Jobs -> Nat]
    BY <1>3, <1>5 DEF St!EndWork, St!Aim
  <2> QED BY <1>0, <1>5, <2>1 DEF St!EndWork
<1>6. ASSUME NEW j \in Jobs, St!Spawn(j) PROVE Steering'
  <2>1. aim' \in [Jobs -> Jobs \cup {NoCallback}] /\ made' \in [Jobs -> Nat]
    BY <1>3, <1>6 DEF St!Spawn, St!Aim
  <2> QED BY <1>0, <1>6, <2>1 DEF St!Spawn
<1>7. ASSUME NEW j \in Jobs, St!EndTurn(j) PROVE Steering'
  BY <1>0, <1>7 DEF St!EndTurn
<1>8. ASSUME NEW j \in Jobs, St!Deliver(j) PROVE Steering'
  <2>1. pc' = [pc EXCEPT ![j] = "inbox"] \/ pc' = [pc EXCEPT ![j] = "dropped"]  BY <1>8 DEF St!Deliver
  <2> QED BY <1>0, <1>8, <2>1 DEF St!Deliver
<1>9. ASSUME NEW j \in Jobs, St!Request(j) PROVE Steering'
  BY <1>0, <1>9 DEF St!Request
<1>10. ASSUME NEW j \in Jobs, St!Join(j) PROVE Steering'
  BY <1>0, <1>10 DEF St!Join
<1>11. ASSUME NEW j \in Jobs, St!TakeOver(j) PROVE Steering'
  BY <1>0, <1>11 DEF St!TakeOver, St!Overtakes
<1>12. ASSUME NEW j \in Jobs, St!Expire(j) PROVE Steering'
  BY <1>0, <1>12 DEF St!Expire
<1>13. ASSUME NEW j \in Jobs, St!StartTurn(j) PROVE Steering'
  BY <1>0, <1>13 DEF St!StartTurn, St!Begins
<1>14. ASSUME NEW j \in Jobs, St!Finish(j) PROVE Steering'
  BY <1>0, <1>14 DEF St!Finish
<1>15. ASSUME NEW j \in Jobs, St!Return(j) PROVE Steering'
  BY <1>0, <1>15 DEF St!Return
<1>16. ASSUME NEW j \in Jobs, St!CallAbove(j) PROVE Steering'
  BY <1>0, <1>16 DEF St!CallAbove
<1>17. ASSUME NEW j \in Jobs, St!StartWork(j) PROVE Steering'
  BY <1>0, <1>17 DEF St!StartWork, St!Begins
<1>18. ASSUME NEW j \in Jobs, St!Report(j) PROVE Steering'
  <2>1. PICK to \in {"joined", "asking"} : pc' = [pc EXCEPT ![j] = to]  BY <1>18 DEF St!Report
  <2>2. pc' \in [Jobs -> PlacedOrLater \cup Unplaced]  BY <1>0, <2>1
  <2>3. locks' \in [Sessions_ -> Jobs \cup {NoCallback}] /\ turnOf' \in [Jobs -> Nat] /\ events' \in [Jobs -> Nat]
    BY <1>0, <1>18 DEF St!Report
  <2> QED BY <1>0, <1>18, <2>2, <2>3 DEF St!Report
<1> HIDE DEF Steering
<1> QED BY <1>1, <1>2, <1>4, <1>5, <1>6, <1>7, <1>8, <1>9, <1>10, <1>11, <1>12, <1>13, <1>14, <1>15, <1>16, <1>17, <1>18 DEF St!Next, St!Step, St!End

Sayings ==
  /\ spoken \in [Jobs -> Seq(Nat)] /\ full \in [Jobs -> Seq(Nat)]
  /\ outbound \in [Jobs -> Seq(Seq(Nat))] /\ heard \in [Jobs -> Seq(Events)]

LEMMA SayingsStep ==
  ASSUME St!StreamsAssumption, StreamTypes, InboxInv, [St!Next]_St!vars
  PROVE  Sayings'
<1> USE DEF Sayings
<1>0. /\ Sayings /\ Main \in Sessions_ /\ events \in [Jobs -> Nat] /\ made \in [Jobs -> Nat]
      /\ \A k \in Jobs : To(k) \in Sessions_ /\ k \in Sessions_ /\ St!Session(k) \in Sessions_
  <2>1. \A k \in Jobs : To(k) \in Sessions_ /\ k \in Sessions_ /\ St!Session(k) \in Sessions_
    BY Places DEF St!Session
  <2> HIDE DEF Events
  <2> QED BY <2>1 DEF StreamTypes
<1>4. ASSUME NEW kind \in Kinds, NEW s \in Sessions_, NEW n \in Nat, NEW at \in Nat
      PROVE  St!Event(kind, s, n, at) \in Events
  BY DEF Events, St!Event
<1> HIDE DEF Events
<1>5. ASSUME UNCHANGED <<spoken, full, outbound, heard>> PROVE Sayings'
  BY <1>0, <1>5
<1>6. CASE St!HandleBusMessage
  <2>1. Head(inbox) \in Jobs  BY <1>6 DEF InboxInv, St!HandleBusMessage
  <2>2. heard' = [heard EXCEPT ![Head(inbox)] = Append(@, St!Event("status", Main, 0, 0))]
    BY <1>6 DEF St!HandleBusMessage
  <2>3. St!Event("status", Main, 0, 0) \in Events  BY <1>0, <1>4
  <2>4. UNCHANGED <<spoken, full, outbound>>  BY <1>6 DEF St!HandleBusMessage, St!turnVars
  <2> QED BY <1>0, <2>1, <2>2, <2>3, <2>4
<1>7. ASSUME NEW j \in Jobs, St!Emit(j) PROVE Sayings'
  <2>1. PICK kind \in situation.says :
          /\ spoken' = IF kind = "text" THEN [spoken EXCEPT ![j] = Append(@, events[j])] ELSE spoken
          /\ St!Call(hooks[St!Session(j)], St!Event(kind, St!Session(j), events[j], 0))
    BY <1>7 DEF St!Emit
  <2>2. kind \in Kinds  BY Places
  <2>3. St!Event(kind, St!Session(j), events[j], 0) \in Events  BY <1>0, <2>2 DEF St!Event, Events
  <2>4. Hears(hooks[St!Session(j)], St!Event(kind, St!Session(j), events[j], 0))
    BY <2>1, <2>3, CallIsHeard
  <2> QED BY <1>0, <2>1, <2>4 DEF Hears
<1>8. ASSUME NEW j \in Jobs, St!Finish(j) PROVE Sayings'
  <2> DEFINE e == St!Event("done", To(j), 0, 0)
  <2>1. UNCHANGED <<full, heard, outbound>> \/ St!Call(j, e)
    BY <1>8 DEF St!Finish, St!sideVars
  <2>2. e \in Events  BY <1>0 DEF St!Event, Events
  <2>3. UNCHANGED <<full, heard, outbound>> \/ Hears(j, e)  BY <2>1, <2>2, CallIsHeard
  <2>4. UNCHANGED spoken  BY <1>8 DEF St!Finish, St!turnVars
  <2> HIDE DEF e
  <2> QED BY <1>0, <2>3, <2>4 DEF Hears
<1>9. ASSUME NEW j \in Jobs, St!CallAbove(j) PROVE Sayings'
  <2> DEFINE e == St!Event("agent", j, events[j], made[j])
  <2>1. St!Call(aim[j], e)  BY <1>9 DEF St!CallAbove
  <2>2. e \in Events  BY <1>0 DEF St!Event, Events
  <2>3. Hears(aim[j], e)  BY <2>1, <2>2, CallIsHeard
  <2>4. UNCHANGED spoken  BY <1>9 DEF St!CallAbove, St!turnVars
  <2> HIDE DEF e
  <2> QED BY <1>0, <2>3, <2>4 DEF Hears
<1>10. ASSUME NEW j \in Jobs, St!Return(j) PROVE Sayings'
  <2>1. PICK last \in Seq(Events) : heard' = [heard EXCEPT ![j] = @ \o last]
    <3> DEFINE E == St!Event("error", To(j), 0, 0)
               D == St!Event("done", To(j), 0, 0)
    <3>1. E \in Events /\ D \in Events  BY <1>0 DEF St!Event, Events
    <3>2. PICK a \in {<<E>>, <<>>}, b \in {<<D>>, <<>>} : heard' = [heard EXCEPT ![j] = @ \o (a \o b)]
      BY <1>10 DEF St!Return
    <3> HIDE DEF E, D
    <3>3. a \in Seq(Events) /\ b \in Seq(Events)
      <4>1. <<E>> \in Seq(Events) /\ <<D>> \in Seq(Events) /\ <<>> \in Seq(Events)  BY <3>1
      <4>2. (a = <<E>> \/ a = <<>>) /\ (b = <<D>> \/ b = <<>>)  BY <3>2
      <4> QED BY <4>1, <4>2
    <3>4. a \o b \in Seq(Events)  BY ONLY <3>3
    <3> QED BY <3>2, <3>4
  <2>2. heard' \in [Jobs -> Seq(Events)]  BY <1>0, <2>1
  <2>3. outbound' = outbound \/ outbound' = [outbound EXCEPT ![j] = Append(@, full[j])]
    BY <1>10 DEF St!Return
  <2>4. outbound' \in [Jobs -> Seq(Seq(Nat))]
    <3> DEFINE U == Seq(Nat)
    <3>1. outbound \in [Jobs -> Seq(U)] /\ full[j] \in U  BY <1>0
    <3> HIDE DEF U
    <3>2. Append(outbound[j], full[j]) \in Seq(U)  BY <3>1
    <3>3. outbound' = outbound \/ outbound' = [outbound EXCEPT ![j] = Append(outbound[j], full[j])]
      BY <2>3
    <3>4. CASE outbound' = outbound
      <4>1. outbound' \in [Jobs -> Seq(U)]  BY <3>1, <3>4
      <4> QED BY <4>1 DEF U
    <3>5. CASE outbound' = [outbound EXCEPT ![j] = Append(outbound[j], full[j])]
      <4>1. outbound' \in [Jobs -> Seq(U)]  BY <3>1, <3>2, <3>5
      <4> QED BY <4>1 DEF U
    <3> QED BY <3>3, <3>4, <3>5
  <2>5. UNCHANGED <<spoken, full>>  BY <1>10 DEF St!Return, St!turnVars
  <2> QED BY <1>0, <2>2, <2>4, <2>5
<1>11. ASSUME NEW j \in Jobs, St!Report(j) PROVE Sayings'
  <2>1. spoken' = [spoken EXCEPT ![j] = <<>>] /\ UNCHANGED <<full, heard, outbound>>
    BY <1>11 DEF St!Report, St!sideVars
  <2>2. <<>> \in Seq(Nat)  OBVIOUS
  <2> QED BY <1>0, <2>1, <2>2
<1>12. ASSUME NEW j \in Jobs,
              St!Deliver(j) \/ St!Request(j) \/ St!Join(j) \/ St!Expire(j) \/ St!EndTurn(j)
                \/ St!EndWork(j) \/ St!Spawn(j) \/ St!TakeOver(j) \/ St!StartTurn(j) \/ St!StartWork(j)
      PROVE  UNCHANGED <<spoken, full, outbound, heard>>
  BY <1>12 DEF St!sideVars, St!turnVars, St!Deliver, St!Request, St!Join, St!Expire, St!EndTurn, St!EndWork,
       St!Spawn, St!TakeOver, St!StartTurn, St!StartWork
<1>13. CASE UNCHANGED St!vars  BY <1>5, <1>13 DEF St!vars, St!sideVars, St!turnVars
<1> HIDE DEF Sayings
<1> QED BY <1>5, <1>6, <1>7, <1>8, <1>9, <1>10, <1>11, <1>12, <1>13 DEF St!Next, St!Step, St!End

LEMMA StreamInit ==
  ASSUME St!StreamsAssumption, St!Init
  PROVE  StreamInv
<1> USE DEF St!Init
<1>1. StreamTypes
  <2>1. <<>> \in Seq(Nat) /\ <<>> \in Seq(Events) /\ <<>> \in Seq(Seq(Nat))  OBVIOUS
  <2> HIDE DEF Events
  <2> QED BY <2>1 DEF StreamTypes, PlacedOrLater, Unplaced
<1>2. InboxInv  BY DEF InboxInv
<1>3. LineInv /\ AddressInv  BY DEF LineInv, AddressInv
<1>4. TurnInv  BY DEF TurnInv, Unplaced, AtTask
<1>5. CallbackInv /\ AimInv  BY <1>1, Places DEF CallbackInv, AimInv
<1>6. HeardInv  BY DEF HeardInv
<1> QED BY <1>1, <1>2, <1>3, <1>4, <1>5, <1>6 DEF StreamInv

LEMMA StreamStep ==
  ASSUME St!StreamsAssumption, StreamInv, [St!Next]_St!vars
  PROVE  StreamInv'
<1>1. StreamTypes'  BY SteeringStep, SayingsStep DEF StreamInv, StreamTypes, Steering, Sayings
<1> QED BY <1>1, InboxStep, LineStep, AddressStep, TurnStep, CallbackStep, AimStep, HeardStep DEF StreamInv

\* What a sub-agent has to say is never for a request whose session had begun a
\* later turn when it was said, however deep sub-agents nest and however their
\* calls of the callbacks overlap (server/spawn.go emitToParentStream).
THEOREM ForwardsFollow ==
  ASSUME St!StreamsAssumption
  PROVE  St!Spec => []ForwardsFollowTheStream
<1>1. St!Init => StreamInv  BY StreamInit
<1>2. StreamInv /\ [St!Next]_St!vars => StreamInv'  BY StreamStep
<1>3. StreamInv => ForwardsFollowTheStream
  <2> SUFFICES ASSUME StreamInv, NEW j \in Jobs \ overtook, turnOf[j] # 0, NEW i \in DOMAIN heard[j]
               PROVE  heard[j][i].at <= turnOf[j]
    BY DEF ForwardsFollowTheStream, ToSet
  <2>1. heard[j][i].at \in Nat /\ turnOf[j] \in Nat
    <3>1. heard[j] \in Seq(Events) /\ turnOf[j] \in Nat  BY DEF StreamInv, StreamTypes
    <3> HIDE DEF Events
    <3>2. heard[j][i] \in Events  BY <3>1
    <3> QED BY <3>1, <3>2 DEF Events
  <2>2. CASE heard[j][i].at = 0  BY <2>1, <2>2
  <2>3. CASE heard[j][i].at # 0
    <3>1. heard[j][i].at <= Bound(j)  BY <2>3 DEF StreamInv, HeardInv
    <3>2. pc[j] # "placed"  BY DEF StreamInv, TurnInv
    <3> QED BY <3>1, <3>2 DEF Bound
  <2> QED BY <2>2, <2>3
<1> QED BY <1>1, <1>2, <1>3, PTL DEF St!Spec

-----------------------------------------------------------------------------
(* What is heard, one event at a time *)

LEMMA Parts ==
  ASSUME NEW h \in Seq(Events), NEW s
  PROVE  [i \in DOMAIN h |-> IF h[i].from = s /\ h[i].kind = "text" THEN <<h[i].n>> ELSE <<>>]
           \in Seq(Seq(Nat))
<1> DEFINE P(i) == IF h[i].from = s /\ h[i].kind = "text" THEN <<h[i].n>> ELSE <<>>
<1>1. ASSUME NEW i \in 1 .. Len(h) PROVE P(i) \in Seq(Nat)
  <2>1. h[i] \in Events
    <3> HIDE DEF Events
    <3> QED OBVIOUS
  <2>2. h[i].n \in Nat  BY <2>1
  <2> QED BY <2>2
<1>2. DOMAIN h = 1 .. Len(h) /\ Len(h) \in Nat
  <2> HIDE DEF Events
  <2> QED OBVIOUS
<1> DEFINE U == Seq(Nat)
<1> HIDE DEF P, U
<1>3. [i \in 1 .. Len(h) |-> P(i)] \in Seq(U)  BY <1>1, <1>2 DEF U
<1> QED BY <1>2, <1>3 DEF P, U

LEMMA SilenceHasNoText ==
  ASSUME NEW h \in Seq(Events), NEW s, \A i \in DOMAIN h : h[i].kind = "status"
  PROVE  TextIn(h, s) = <<>> /\ ClosesIn(h) = {}
<1> DEFINE pp == [i \in DOMAIN h |-> IF h[i].from = s /\ h[i].kind = "text" THEN <<h[i].n>> ELSE <<>>]
<1>1. pp \in Seq(Seq(Nat))  BY Parts
<1>2. \A i \in DOMAIN h : pp[i] = <<>>  OBVIOUS
<1>3. Len(pp) = Len(h) /\ DOMAIN h = 1 .. Len(h)
  <2>1. DOMAIN pp = DOMAIN h  OBVIOUS
  <2>2. DOMAIN h = 1 .. Len(h) /\ Len(h) \in Nat
    <3> HIDE DEF Events
    <3> QED OBVIOUS
  <2> HIDE DEF pp
  <2> QED BY <1>1, <2>1, <2>2
<1> HIDE DEF pp
<1>4. FlattenSeq(pp) = <<>>  BY <1>1, <1>2, <1>3, FlattenNothing
<1> QED BY <1>4 DEF TextIn, ClosesIn, Closing, pp

LEMMA OneMore ==
  ASSUME NEW h \in Seq(Events), NEW d \in Events
  PROVE  /\ Append(h, d) # <<>> /\ Len(Append(h, d)) = Len(h) + 1 /\ Len(h) \in Nat
         /\ DOMAIN Append(h, d) = 1 .. Len(h) + 1 /\ DOMAIN h = 1 .. Len(h)
         /\ Append(h, d)[Len(h) + 1] = d /\ \A i \in DOMAIN h : Append(h, d)[i] = h[i]
         /\ Append(h, d) \in Seq(Events)
         /\ ClosesIn(Append(h, d)) =
              IF d.kind \in Closing THEN ClosesIn(h) \cup {Len(h) + 1} ELSE ClosesIn(h)
<1> HIDE DEF Events
<1>1. /\ Append(h, d) # <<>> /\ Len(Append(h, d)) = Len(h) + 1 /\ Len(h) \in Nat
      /\ DOMAIN Append(h, d) = 1 .. Len(h) + 1 /\ DOMAIN h = 1 .. Len(h)
      /\ Append(h, d)[Len(h) + 1] = d /\ \A i \in DOMAIN h : Append(h, d)[i] = h[i]
      /\ Append(h, d) \in Seq(Events)
  OBVIOUS
<1>2. ClosesIn(Append(h, d)) =
        IF d.kind \in Closing THEN ClosesIn(h) \cup {Len(h) + 1} ELSE ClosesIn(h)
  BY <1>1 DEF ClosesIn
<1> QED BY <1>1, <1>2

LEMMA OneMoreText ==
  ASSUME NEW h \in Seq(Events), NEW d \in Events, NEW s
  PROVE  TextIn(Append(h, d), s) =
           IF d.from = s /\ d.kind = "text" THEN Append(TextIn(h, s), d.n) ELSE TextIn(h, s)
<1>1. /\ Len(h) \in Nat /\ DOMAIN Append(h, d) = 1 .. Len(h) + 1 /\ DOMAIN h = 1 .. Len(h)
      /\ Append(h, d)[Len(h) + 1] = d /\ \A i \in DOMAIN h : Append(h, d)[i] = h[i]
      /\ Append(h, d) \in Seq(Events)
  BY OneMore
<1> DEFINE P(g) == [i \in DOMAIN g |-> IF g[i].from = s /\ g[i].kind = "text" THEN <<g[i].n>> ELSE <<>>]
           x == IF d.from = s /\ d.kind = "text" THEN <<d.n>> ELSE <<>>
<1>2. P(h) \in Seq(Seq(Nat)) /\ P(Append(h, d)) \in Seq(Seq(Nat))  BY <1>1, Parts
<1>3. x \in Seq(Nat) /\ d.n \in Nat  OBVIOUS
<1>4. P(Append(h, d)) = Append(P(h), x)
  <2>1. DOMAIN P(h) = 1 .. Len(h) /\ DOMAIN P(Append(h, d)) = 1 .. Len(h) + 1  BY <1>1
  <2>2. /\ \A i \in 1 .. Len(h) : P(Append(h, d))[i] = P(h)[i]
        /\ P(Append(h, d))[Len(h) + 1] = x
    BY <1>1
  <2> DEFINE a == P(h)  b == P(Append(h, d))  U == Seq(Nat)
  <2>3. /\ a \in Seq(U) /\ b \in Seq(U) /\ x \in U
        /\ DOMAIN a = 1 .. Len(h) /\ DOMAIN b = 1 .. Len(h) + 1 /\ Len(h) \in Nat
        /\ \A i \in 1 .. Len(h) : b[i] = a[i]
        /\ b[Len(h) + 1] = x
    BY <1>1, <1>2, <1>3, <2>1, <2>2
  <2> HIDE DEF a, b, x, U, P
  <2>4. b = Append(a, x)  BY ONLY <2>3
  <2> QED BY <2>4 DEF a, b
<1>5. TextIn(h, s) = FlattenSeq(P(h)) /\ TextIn(Append(h, d), s) = FlattenSeq(P(Append(h, d)))
  BY DEF TextIn
<1> HIDE DEF P
<1>6. TextIn(Append(h, d), s) = TextIn(h, s) \o x
  BY <1>2, <1>3, <1>4, <1>5, FlattenAppend
<1>7. TextIn(h, s) \in Seq(Nat)  BY <1>2, <1>5, FlattenType
<1>8. CASE d.from = s /\ d.kind = "text"
  <2>1. TextIn(h, s) \o <<d.n>> = Append(TextIn(h, s), d.n)  BY <1>3, <1>7
  <2> QED BY <1>6, <1>8, <2>1
<1>9. CASE ~(d.from = s /\ d.kind = "text")
  <2>1. TextIn(h, s) \o <<>> = TextIn(h, s)  BY <1>7
  <2> QED BY <1>6, <1>9, <2>1
<1> QED BY <1>8, <1>9

\* An event of another session, that closes nothing, leaves a closed turn closed.
LEMMA ClosedStays ==
  ASSUME NEW h \in Seq(Events), NEW d \in Events, NEW s, d.from # s, d.kind \notin Closing,
         ClosedIn(h, s)
  PROVE  ClosedIn(Append(h, d), s)
<1> HIDE DEF Events
<1>1. /\ DOMAIN Append(h, d) = 1 .. Len(h) + 1 /\ DOMAIN h = 1 .. Len(h) /\ Len(h) \in Nat
      /\ Append(h, d)[Len(h) + 1] = d /\ \A i \in DOMAIN h : Append(h, d)[i] = h[i]
  BY OneMore
<1>2. ClosesIn(Append(h, d)) = ClosesIn(h)  BY OneMore
<1>3. PICK i \in DOMAIN h :
        ClosesIn(h) = {i} /\ h[i].from = s /\ \A m \in DOMAIN h : h[m].from = s => m <= i
  BY DEF ClosedIn
<1>4. \A m \in DOMAIN Append(h, d) : Append(h, d)[m].from = s => m <= i
  <2> SUFFICES ASSUME NEW m \in DOMAIN Append(h, d), Append(h, d)[m].from = s PROVE m <= i
    OBVIOUS
  <2>1. m \in DOMAIN h  BY <1>1
  <2> QED BY <1>1, <1>3, <2>1
<1>5. i \in DOMAIN Append(h, d) /\ Append(h, d)[i].from = s  BY <1>1, <1>3
<1> QED BY <1>2, <1>3, <1>4, <1>5 DEF ClosedIn

\* A closing event of the session closes what nothing has closed.
LEMMA ClosesNow ==
  ASSUME NEW h \in Seq(Events), NEW d \in Events, NEW s, d.from = s, d.kind \in Closing,
         ClosesIn(h) = {}
  PROVE  ClosedIn(Append(h, d), s)
<1> HIDE DEF Events
<1>1. Len(h) + 1 \in DOMAIN Append(h, d) /\ Append(h, d)[Len(h) + 1].from = s  BY OneMore
<1>2. ClosesIn(Append(h, d)) = {Len(h) + 1}  BY OneMore
<1>3. \A m \in DOMAIN Append(h, d) : m <= Len(h) + 1  BY OneMore
<1> QED BY <1>1, <1>2, <1>3 DEF ClosedIn

\* Done comes last where nothing has closed the turn but an error.
LEMMA DoneIsLast ==
  ASSUME NEW h \in Seq(Events), NEW d \in Events, d.kind = "done",
         \A i \in DOMAIN h : h[i].kind # "done"
  PROVE  DoneLast(Append(h, d))
<1> HIDE DEF Events
<1>1. /\ Append(h, d) # <<>> /\ Len(Append(h, d)) = Len(h) + 1 /\ Len(h) \in Nat
      /\ DOMAIN Append(h, d) = 1 .. Len(h) + 1 /\ DOMAIN h = 1 .. Len(h)
      /\ Append(h, d)[Len(h) + 1] = d /\ \A i \in DOMAIN h : Append(h, d)[i] = h[i]
  BY OneMore
<1>2. ASSUME NEW i \in DOMAIN Append(h, d)
      PROVE  Append(h, d)[i].kind = "done" <=> i = Len(Append(h, d))
  <2>1. CASE i = Len(h) + 1  BY <1>1, <2>1
  <2>2. CASE i # Len(h) + 1
    <3>1. i \in DOMAIN h  BY <1>1, <2>2
    <3> QED BY <1>1, <2>2, <3>1
  <2> QED BY <2>1, <2>2
<1> QED BY <1>1, <1>2 DEF DoneLast

-----------------------------------------------------------------------------
(* Whole answers, step by step *)

\* What has been said to a job stays, and it waits or goes on in its turn.
GoesOn(k) ==
  \/ pc'[k] = pc[k] /\ verdict'[k] = verdict[k]
  \/ pc[k] \in Unplaced /\ pc'[k] \in Unplaced /\ (pc[k] \in AtTask => pc'[k] \in AtTask)
  \/ pc[k] \in Unplaced \ AtTask /\ pc'[k] \in {"placed", "returned"} /\ verdict'[k] \in {"none", "fail"}
  \/ pc[k] \in {"placed", "turn"} /\ pc'[k] \in {"turn", "finishing"}
  \/ /\ pc[k] = "finishing" /\ pc'[k] = "returned"
     /\ verdict'[k] = verdict[k] /\ (verdict[k] # "ok" \/ ~OnHttp(k))

LEMMA StillAnswered ==
  ASSUME StreamTypes, NEW k \in Jobs, AnswerOK(k), situation' = situation, overtook \subseteq overtook',
         heard'[k] = heard[k], full'[k] = full[k], spoken'[k] = spoken[k], outbound'[k] = outbound[k],
         GoesOn(k)
  PROVE  AnswerOK(k)'
<1> USE DEF PlacedOrLater, Unplaced, AtTask
<1>0. heard[k] \in Seq(Events)  BY DEF StreamTypes
<1> HIDE DEF Events
<1>1. WaitsInSilence(k)'  BY DEF GoesOn, AnswerOK, WaitsInSilence
<1>2. Unanswered(k)'  BY DEF GoesOn, AnswerOK, Unanswered
<1>3. HasHeard(k)'
  <2> SUFFICES ASSUME Asked(k)' PROVE HasHeard(k)'  BY DEF HasHeard
  <2>1. k \notin overtook /\ (OnBus(k) \/ OnHttp(k))  BY DEF Asked
  <2>2. To(k)' = To(k) /\ OnBus(k)' = OnBus(k) /\ OnHttp(k)' = OnHttp(k)  OBVIOUS
  <2>3. CASE pc[k] \in Unplaced \ AtTask /\ pc'[k] \in {"placed", "returned"} /\ verdict'[k] \in {"none", "fail"}
    <3>1. spoken[k] = <<>> /\ full[k] = <<>> /\ TextIn(heard[k], To(k)) = <<>> /\ ClosesIn(heard[k]) = {}
      BY <1>0, <2>3, SilenceHasNoText DEF AnswerOK, WaitsInSilence
    <3>2. ~Concluded(k)' /\ pc'[k] # "ended"  BY <2>3 DEF Concluded
    <3> QED BY <2>2, <3>1, <3>2 DEF HasHeard
  <2>4. CASE pc'[k] = pc[k] /\ verdict'[k] = verdict[k]
    <3>1. Asked(k) /\ Concluded(k)' = Concluded(k)  BY <2>1, <2>4 DEF Asked, Concluded
    <3> QED BY <2>2, <2>4, <3>1 DEF HasHeard, AnswerOK
  <2>5. CASE pc[k] \in {"placed", "turn"} /\ pc'[k] \in {"turn", "finishing"}
    <3>1. Asked(k) /\ ~Concluded(k)' /\ ~Concluded(k)  BY <2>1, <2>5 DEF Asked, Concluded
    <3> QED BY <2>2, <2>5, <3>1 DEF HasHeard, AnswerOK
  <2>6. CASE /\ pc[k] = "finishing" /\ pc'[k] = "returned"
             /\ verdict'[k] = verdict[k] /\ (verdict[k] # "ok" \/ ~OnHttp(k))
    <3>1. Asked(k) /\ ~Concluded(k) /\ (OnHttp(k) => ~Concluded(k)')  BY <2>1, <2>6 DEF Asked, Concluded
    <3> QED BY <2>2, <2>6, <3>1 DEF HasHeard, AnswerOK
  <2>7. CASE pc[k] \in Unplaced /\ pc'[k] \in Unplaced  BY <2>7 DEF Asked
  <2> QED BY <2>3, <2>4, <2>5, <2>6, <2>7 DEF GoesOn
<1> QED BY <1>1, <1>2, <1>3 DEF AnswerOK

\* An event of a sub-agent, or of a request that overtook one, is beside the answer.
LEMMA HearsBeside ==
  ASSUME StreamTypes, NEW k \in Jobs, AnswerOK(k), pc[k] \in PlacedOrLater,
         situation' = situation, overtook' = overtook, spoken'[k] = spoken[k],
         pc'[k] = pc[k], verdict'[k] = verdict[k],
         NEW e \in Events, Hears(k, e),
         k \in overtook \/ (e.from # To(k) /\ e.kind = "agent")
  PROVE  AnswerOK(k)'
<1>0. heard[k] \in Seq(Events) /\ outbound'[k] = outbound[k]  BY DEF StreamTypes, Hears
<1> HIDE DEF Events
<1>1. pc'[k] \notin Unplaced  BY DEF PlacedOrLater, Unplaced, AtTask
<1>2. WaitsInSilence(k)' /\ Unanswered(k)'
  BY <1>0, <1>1 DEF AnswerOK, WaitsInSilence, Unanswered
<1>3. HasHeard(k)'
  <2> SUFFICES ASSUME Asked(k)' PROVE HasHeard(k)'  BY DEF HasHeard
  <2>1. Asked(k) /\ e.from # To(k) /\ e.kind = "agent"  BY DEF Asked
  <2>2. /\ To(k)' = To(k) /\ OnBus(k)' = OnBus(k) /\ OnHttp(k)' = OnHttp(k)
        /\ Concluded(k)' = Concluded(k)
    BY DEF Concluded
  <2>3. full'[k] = full[k]  BY <2>1 DEF Hears
  <2>4. CASE heard'[k] = heard[k]
    BY <1>0, <2>1, <2>2, <2>3, <2>4 DEF HasHeard, AnswerOK
  <2>5. CASE heard'[k] # heard[k]
    <3>1. PICK d \in Events : /\ heard'[k] = Append(heard[k], d)
                              /\ d.from = e.from /\ d.kind # "text" /\ d.kind \notin Closing
                              /\ OnBus(k) => d.kind = e.kind /\ d.kind \in {"text", "thinking", "tool"}
      BY <2>1, <2>5 DEF Hears, Closing
    <3>2. ~OnBus(k) /\ OnHttp(k)  BY <2>1, <3>1 DEF Asked
    <3>3. /\ TextIn(heard'[k], To(k)) = TextIn(heard[k], To(k))
          /\ ClosesIn(heard'[k]) = ClosesIn(heard[k])
      <4>1. TextIn(heard'[k], To(k)) = TextIn(heard[k], To(k))  BY <1>0, <3>1, OneMoreText
      <4>2. ClosesIn(heard'[k]) = ClosesIn(heard[k])  BY <1>0, <3>1, OneMore
      <4> QED BY <4>1, <4>2
    <3>4. ClosedIn(heard[k], To(k)) => ClosedIn(heard'[k], To(k))
      BY <1>0, <2>1, <3>1, ClosedStays
    <3> QED BY <2>1, <2>2, <2>3, <3>2, <3>3, <3>4 DEF HasHeard, AnswerOK
  <2> QED BY <2>4, <2>5
<1> QED BY <1>2, <1>3 DEF AnswerOK

\* What its own turn says is heard as it is spoken.
LEMMA HearsItself ==
  ASSUME StreamTypes, NEW k \in Jobs, AnswerOK(k), pc[k] = "turn", pc'[k] = pc[k],
         verdict'[k] = verdict[k], situation' = situation, overtook' = overtook,
         NEW e \in Events, Hears(k, e), e.from = To(k), e.kind \notin Closing,
         spoken'[k] = IF e.kind = "text" THEN Append(spoken[k], e.n) ELSE spoken[k]
  PROVE  AnswerOK(k)'
<1>0. heard[k] \in Seq(Events) /\ outbound'[k] = outbound[k]  BY DEF StreamTypes, Hears
<1> HIDE DEF Events
<1>1. pc'[k] \notin Unplaced /\ pc[k] \in PlacedOrLater /\ pc'[k] # "ended"
  BY DEF PlacedOrLater, Unplaced, AtTask
<1>2. WaitsInSilence(k)' /\ Unanswered(k)'
  BY <1>0, <1>1 DEF AnswerOK, WaitsInSilence, Unanswered
<1>3. HasHeard(k)'
  <2> SUFFICES ASSUME Asked(k)' PROVE HasHeard(k)'  BY DEF HasHeard
  <2>1. Asked(k)  BY DEF Asked
  <2>2. /\ To(k)' = To(k) /\ OnBus(k)' = OnBus(k) /\ OnHttp(k)' = OnHttp(k)
        /\ ~Concluded(k)' /\ ~Concluded(k)
    BY DEF Concluded
  <2>3. OnBus(k) => full'[k] = spoken'[k]
    BY <2>1 DEF Hears, HasHeard, AnswerOK
  <2>4. TextIn(heard'[k], To(k)) = spoken'[k] /\ ClosesIn(heard'[k]) = ClosesIn(heard[k])
    <3>1. TextIn(heard[k], To(k)) = spoken[k]  BY <2>1 DEF HasHeard, AnswerOK
    <3>2. CASE heard'[k] = heard[k] /\ e.kind # "text"  BY <3>1, <3>2
    <3>3. ASSUME NEW d \in Events, heard'[k] = Append(heard[k], d), d.from = e.from, d.n = e.n,
                 d.kind = "text" <=> e.kind = "text", d.kind \notin Closing
          PROVE  TextIn(heard'[k], To(k)) = spoken'[k] /\ ClosesIn(heard'[k]) = ClosesIn(heard[k])
      <4>1. TextIn(heard'[k], To(k)) =
              IF d.from = To(k) /\ d.kind = "text" THEN Append(TextIn(heard[k], To(k)), d.n)
              ELSE TextIn(heard[k], To(k))
        BY <1>0, <3>3, OneMoreText
      <4>2. ClosesIn(heard'[k]) = ClosesIn(heard[k])  BY <1>0, <3>3, OneMore
      <4> QED BY <3>1, <3>3, <4>1, <4>2
    <3> QED BY <3>2, <3>3 DEF Hears
  <2> QED BY <1>1, <2>1, <2>2, <2>3, <2>4 DEF HasHeard, AnswerOK
<1> QED BY <1>2, <1>3 DEF AnswerOK

\* A turn that went well is done.
LEMMA HearsDone ==
  ASSUME StreamTypes, NEW k \in Jobs, AnswerOK(k), pc[k] = "finishing", pc'[k] = "returned",
         verdict'[k] = verdict[k], verdict[k] = "ok", situation' = situation, overtook' = overtook,
         spoken'[k] = spoken[k],
         NEW e \in Events, Hears(k, e), e.from = To(k), e.kind = "done"
  PROVE  AnswerOK(k)'
<1>0. heard[k] \in Seq(Events) /\ outbound'[k] = outbound[k]  BY DEF StreamTypes, Hears
<1> HIDE DEF Events
<1>1. pc'[k] \notin Unplaced /\ pc[k] \in PlacedOrLater /\ pc'[k] # "ended"
  BY DEF PlacedOrLater, Unplaced, AtTask
<1>2. WaitsInSilence(k)' /\ Unanswered(k)'
  BY <1>0, <1>1 DEF AnswerOK, WaitsInSilence, Unanswered
<1>3. HasHeard(k)'
  <2> SUFFICES ASSUME Asked(k)' PROVE HasHeard(k)'  BY DEF HasHeard
  <2>1. Asked(k) /\ ~Concluded(k) /\ Concluded(k)'  BY <1>1 DEF Asked, Concluded
  <2>2. To(k)' = To(k) /\ OnBus(k)' = OnBus(k) /\ OnHttp(k)' = OnHttp(k)  OBVIOUS
  <2>3. full'[k] = full[k] /\ ClosesIn(heard[k]) = {}
    BY <1>1, <2>1 DEF Hears, HasHeard, AnswerOK, Asked
  <2>4. CASE OnBus(k)
    <3>1. heard'[k] = heard[k]  BY <2>4 DEF Hears
    <3> QED BY <1>1, <2>1, <2>2, <2>3, <2>4, <3>1 DEF HasHeard, AnswerOK
  <2>5. CASE ~OnBus(k)
    <3>1. PICK d \in Events : /\ heard'[k] = Append(heard[k], d)
                              /\ d.from = e.from /\ d.kind # "text" /\ d.kind \in Closing
      BY <2>5 DEF Hears, Closing
    <3>2. TextIn(heard'[k], To(k)) = TextIn(heard[k], To(k))  BY <1>0, <3>1, OneMoreText
    <3>3. ClosedIn(heard'[k], To(k))  BY <1>0, <2>3, <3>1, ClosesNow
    <3> QED BY <1>1, <2>1, <2>2, <2>3, <2>5, <3>2, <3>3 DEF HasHeard, AnswerOK
  <2> QED BY <2>4, <2>5
<1> QED BY <1>2, <1>3 DEF AnswerOK

\* A request returns: an error is said where it failed, and on the bus that it
\* is done, and its text is published.
LEMMA ReturnsWhole ==
  ASSUME St!StreamsAssumption, StreamTypes, NEW k \in Jobs, AnswerOK(k), St!Return(k)
  PROVE  AnswerOK(k)'
<1>0. /\ heard[k] \in Seq(Events) /\ full[k] \in Seq(Nat) /\ To(k) \in Sessions_ /\ Main \in Sessions_
      /\ outbound \in [Jobs -> Seq(Seq(Nat))] /\ pc \in [Jobs -> PlacedOrLater \cup Unplaced]
  BY Places DEF StreamTypes
<1>1. /\ pc[k] = "returned" /\ pc'[k] = "ended"
      /\ UNCHANGED <<situation, spoken, full, verdict, overtook>>
      /\ outbound' = IF OnBus(k) /\ full[k] # <<>> /\ verdict[k] # "panic"
                     THEN [outbound EXCEPT ![k] = Append(@, full[k])] ELSE outbound
  BY <1>0 DEF St!Return, St!Move, St!turnVars
<1>2. WaitsInSilence(k)' /\ Unanswered(k)'
  BY <1>1 DEF WaitsInSilence, Unanswered, Unplaced, AtTask
<1>3. outbound'[k] = IF OnBus(k) /\ full[k] # <<>> /\ verdict[k] # "panic" THEN <<full[k]>> ELSE <<>>
  <2>1. outbound[k] = <<>>  BY <1>1 DEF AnswerOK, Unanswered
  <2>2. outbound'[k] = IF OnBus(k) /\ full[k] # <<>> /\ verdict[k] # "panic"
                       THEN Append(outbound[k], full[k]) ELSE outbound[k]
    BY <1>0, <1>1
  <2>3. Append(<<>>, full[k]) = <<full[k]>>  OBVIOUS
  <2> QED BY <2>1, <2>2, <2>3
<1>4. PICK E \in Events, D \in Events :
        /\ E.kind = "error" /\ E.from = To(k) /\ D.kind = "done" /\ D.from = To(k)
        /\ LET err == /\ verdict[k] = "fail" \/ (verdict[k] = "panic" /\ OnBus(k))
                      /\ Kind(k) \in {"bus", "stream", "bridge"}
               first == IF err THEN Append(heard[k], E) ELSE heard[k]
           IN heard'[k] = IF OnBus(k) THEN Append(first, D) ELSE first
  <2> DEFINE E == [kind |-> "error", from |-> To(k), n |-> 0, at |-> 0]
             D == [kind |-> "done", from |-> To(k), n |-> 0, at |-> 0]
             err == /\ verdict[k] = "fail" \/ (verdict[k] = "panic" /\ OnBus(k))
                    /\ Kind(k) \in {"bus", "stream", "bridge"}
  <2>1. /\ E.kind = "error" /\ E.from = To(k) /\ D.kind = "done" /\ D.from = To(k)
        /\ E \in Events /\ D \in Events
    BY <1>0
  <2>2. heard'[k] = IF OnBus(k) THEN Append(IF err THEN Append(heard[k], E) ELSE heard[k], D)
                    ELSE IF err THEN Append(heard[k], E) ELSE heard[k]
    BY <1>0, ReturnTells
  <2> HIDE DEF E, D, Events
  <2> QED BY <2>1, <2>2
<1> HIDE DEF Events
<1> DEFINE s == To(k)
<1>6. /\ E \in Events /\ D \in Events /\ E.kind = "error" /\ E.from = s
      /\ D.kind = "done" /\ D.kind # "text" /\ E.kind \in Closing
  BY <1>4 DEF Closing
<1>5. HasHeard(k)'
  <2> SUFFICES ASSUME Asked(k)' PROVE HasHeard(k)'  BY DEF HasHeard
  <2>1. Asked(k) /\ (OnBus(k) \/ OnHttp(k))  BY <1>1 DEF Asked, PlacedOrLater
  <2>2. To(k)' = To(k) /\ OnBus(k)' = OnBus(k) /\ OnHttp(k)' = OnHttp(k)  BY <1>1
  <2>3. TextIn(heard[k], To(k)) = spoken[k]  BY <2>1 DEF HasHeard, AnswerOK
  <2>4. Append(heard[k], E) \in Seq(Events) /\ TextIn(Append(heard[k], E), To(k)) = spoken[k]
    BY <1>0, <1>4, <2>3, OneMore, OneMoreText
  <2>5. CASE OnBus(k)
    <3>1. ClosesIn(heard[k]) = {} /\ full[k] = spoken[k]
      BY <1>1, <2>1, <2>5 DEF HasHeard, AnswerOK
    <3>2. \A i \in DOMAIN heard[k] : heard[k][i].kind # "done"
      BY <3>1 DEF ClosesIn, Closing
    <3>3. \A i \in DOMAIN Append(heard[k], E) : Append(heard[k], E)[i].kind # "done"
      <4>1. /\ DOMAIN Append(heard[k], E) = 1 .. Len(heard[k]) + 1 /\ DOMAIN heard[k] = 1 .. Len(heard[k])
            /\ Len(heard[k]) \in Nat /\ Append(heard[k], E)[Len(heard[k]) + 1] = E
            /\ \A i \in DOMAIN heard[k] : Append(heard[k], E)[i] = heard[k][i]
        BY <1>0, OneMore
      <4>2. \A i \in DOMAIN Append(heard[k], E) : i = Len(heard[k]) + 1 \/ i \in DOMAIN heard[k]
        BY <4>1
      <4> QED BY <1>4, <3>2, <4>1, <4>2
    <3>4. PICK first \in {heard[k], Append(heard[k], E)} : heard'[k] = Append(first, D)
      BY <1>4, <2>5
    <3>5. /\ first \in Seq(Events) /\ TextIn(first, To(k)) = spoken[k]
          /\ \A i \in DOMAIN first : first[i].kind # "done"
      BY <1>0, <2>3, <2>4, <3>2, <3>3, <3>4
    <3>6. DoneLast(heard'[k])  BY <1>6, <3>4, <3>5, DoneIsLast
    <3>7. TextIn(heard'[k], To(k)) = spoken[k]
      <4> HIDE DEF s
      <4>1. TextIn(Append(first, D), s) = TextIn(first, s)  BY <1>6, <3>5, OneMoreText
      <4> QED BY <3>4, <3>5, <4>1 DEF s
    <3>8. outbound'[k] = IF spoken[k] = <<>> \/ verdict[k] = "panic" THEN <<>> ELSE <<spoken[k]>>
      BY <1>3, <2>5, <3>1
    <3>9. ~OnHttp(k)  BY <2>5
    <3> QED BY <1>1, <2>2, <2>5, <3>1, <3>6, <3>7, <3>8, <3>9 DEF HasHeard
  <2>6. CASE ~OnBus(k)
    <3>0. Kind(k) \in {"stream", "bridge"}  BY <2>1, <2>6
    <3>1. CASE verdict[k] = "fail"
      <4>1. heard'[k] = Append(heard[k], E)  BY <1>4, <2>6, <3>0, <3>1
      <4>2. ClosesIn(heard[k]) = {}
        <5>1. ~Concluded(k)  BY <1>1, <3>1 DEF Concluded
        <5> QED BY <2>1, <2>6, <5>1 DEF HasHeard, AnswerOK
      <4>3. ClosedIn(heard'[k], To(k))
        <5> HIDE DEF s
        <5>1. ClosedIn(Append(heard[k], E), s)  BY <1>0, <1>6, <4>2, ClosesNow
        <5> QED BY <4>1, <5>1 DEF s
      <4>4. Concluded(k)'  BY <1>1, <3>1 DEF Concluded
      <4> QED BY <1>1, <2>2, <2>4, <2>6, <4>1, <4>3, <4>4 DEF HasHeard
    <3>2. CASE verdict[k] # "fail"
      <4>1. heard'[k] = heard[k]  BY <1>4, <2>6, <3>2
      <4>2. Concluded(k)' = Concluded(k)  BY <1>1, <3>2 DEF Concluded
      <4> QED BY <1>1, <2>1, <2>2, <2>3, <2>6, <4>1, <4>2 DEF HasHeard, AnswerOK
    <3> QED BY <3>1, <3>2
  <2> QED BY <2>5, <2>6
<1> QED BY <1>2, <1>5 DEF AnswerOK

LEMMA SaysNothing ==
  ASSUME StreamTypes, NEW j \in Jobs,
         St!Deliver(j) \/ St!Request(j) \/ St!Join(j) \/ St!Expire(j) \/ St!EndTurn(j)
           \/ St!EndWork(j) \/ St!Spawn(j) \/ St!TakeOver(j) \/ St!StartTurn(j) \/ St!StartWork(j)
  PROVE  UNCHANGED <<situation, spoken, full, outbound, heard>> /\ overtook \subseteq overtook'
<1> USE DEF St!sideVars, St!turnVars
<1>1. CASE St!Deliver(j)  BY <1>1 DEF St!Deliver
<1>2. CASE St!Request(j)  BY <1>2 DEF St!Request
<1>3. CASE St!Join(j)  BY <1>3 DEF St!Join
<1>4. CASE St!Expire(j)  BY <1>4 DEF St!Expire
<1>5. CASE St!EndTurn(j)  BY <1>5 DEF St!EndTurn
<1>6. CASE St!EndWork(j)  BY <1>6 DEF St!EndWork
<1>7. CASE St!Spawn(j)  BY <1>7 DEF St!Spawn
<1>8. CASE St!TakeOver(j)  BY <1>8 DEF St!TakeOver, St!Overtakes
<1>9. CASE St!StartTurn(j)  BY <1>9 DEF St!StartTurn
<1>10. CASE St!StartWork(j)  BY <1>10 DEF St!StartWork
<1> QED BY <1>1, <1>2, <1>3, <1>4, <1>5, <1>6, <1>7, <1>8, <1>9, <1>10

LEMMA SilentlyGoesOn ==
  ASSUME StreamTypes, TurnInv, NEW j \in Jobs, NEW k \in Jobs,
         St!Deliver(j) \/ St!Request(j) \/ St!Join(j) \/ St!Expire(j) \/ St!EndTurn(j)
           \/ St!EndWork(j) \/ St!Spawn(j) \/ St!TakeOver(j) \/ St!StartTurn(j) \/ St!StartWork(j)
  PROVE  GoesOn(k)
<1>0. /\ pc \in [Jobs -> PlacedOrLater \cup Unplaced]
      /\ verdict \in [Jobs -> {"none", "ok", "fail", "panic"}]
      /\ pc[k] \in Unplaced => verdict[k] = "none"
  BY DEF StreamTypes, TurnInv
<1> USE DEF St!Move, St!turnVars, GoesOn, Unplaced, AtTask
<1>1. CASE St!Deliver(j)
  <2>1. pc' = [pc EXCEPT ![j] = "inbox"] \/ pc' = [pc EXCEPT ![j] = "dropped"]  BY <1>1 DEF St!Deliver
  <2>2. pc[j] = "away" /\ verdict' = verdict  BY <1>1 DEF St!Deliver
  <2> QED BY <1>0, <2>1, <2>2
<1>2. CASE St!Request(j)  BY <1>0, <1>2 DEF St!Request
<1>3. CASE St!Join(j)
  <2>1. pc' = [pc EXCEPT ![j] = "returned"] \/ pc' = [pc EXCEPT ![j] = "queued"]  BY <1>3 DEF St!Join
  <2>2. pc[j] = "asking" /\ verdict' = verdict  BY <1>3 DEF St!Join
  <2> QED BY <1>0, <2>1, <2>2
<1>4. CASE St!Expire(j)  BY <1>0, <1>4 DEF St!Expire
<1>5. CASE St!EndTurn(j)
  <2>1. pc[j] = "turn" /\ pc' = [pc EXCEPT ![j] = "finishing"] /\ \E how : verdict' = [verdict EXCEPT ![j] = how]
    BY <1>5 DEF St!EndTurn
  <2> QED BY <1>0, <2>1
<1>6. CASE St!EndWork(j)  BY <1>0, <1>6 DEF St!EndWork
<1>7. CASE St!Spawn(j)  BY <1>0, <1>7 DEF St!Spawn
<1>8. CASE St!TakeOver(j)  BY <1>0, <1>8 DEF St!TakeOver
<1>9. CASE St!StartTurn(j)  BY <1>0, <1>9 DEF St!StartTurn
<1>10. CASE St!StartWork(j)  BY <1>0, <1>10 DEF St!StartWork
<1> QED BY <1>1, <1>2, <1>3, <1>4, <1>5, <1>6, <1>7, <1>8, <1>9, <1>10

LEMMA AnswerStep ==
  ASSUME St!StreamsAssumption, StreamInv, AnswerInv, [St!Next]_St!vars
  PROVE  AnswerInv'
<1> USE DEF StreamInv
<1> SUFFICES ASSUME NEW k \in Jobs PROVE AnswerOK(k)'  BY DEF AnswerInv
<1>0. /\ AnswerOK(k) /\ Main \in Sessions_ /\ heard[k] \in Seq(Events)
      /\ \A i \in Jobs : events[i] \in Nat /\ made[i] \in Nat /\ To(i) \in Sessions_ /\ i \in Sessions_
      /\ pc \in [Jobs -> PlacedOrLater \cup Unplaced] /\ heard \in [Jobs -> Seq(Events)]
      /\ spoken \in [Jobs -> Seq(Nat)]
      /\ NoCallback \notin Jobs /\ Forward \notin Jobs
      /\ \A p \in PlacedOrLater : p \notin Unplaced
  <2>1. \A p \in PlacedOrLater : p \notin Unplaced  BY DEF PlacedOrLater, Unplaced, AtTask
  <2>2. /\ NoCallback \notin Jobs /\ Forward \notin Jobs /\ Main \in Sessions_
        /\ \A i \in Jobs : To(i) \in Sessions_ /\ i \in Sessions_
    BY Places
  <2> HIDE DEF Events
  <2>3. /\ heard \in [Jobs -> Seq(Events)] /\ made \in [Jobs -> Nat] /\ events \in [Jobs -> Nat]
        /\ pc \in [Jobs -> PlacedOrLater \cup Unplaced] /\ spoken \in [Jobs -> Seq(Nat)]
    BY DEF StreamTypes
  <2>4. AnswerOK(k)  BY DEF AnswerInv
  <2> QED BY <2>1, <2>2, <2>3, <2>4
<1>1. CASE UNCHANGED St!vars
  <2>1. UNCHANGED <<situation, pc, verdict, spoken, heard, full, outbound, overtook>>
    BY <1>1 DEF St!vars, St!turnVars, St!sideVars
  <2> QED BY <1>0, <2>1, StillAnswered DEF GoesOn
<1>2. ASSUME NEW j \in Jobs,
             St!Deliver(j) \/ St!Request(j) \/ St!Join(j) \/ St!Expire(j) \/ St!EndTurn(j)
               \/ St!EndWork(j) \/ St!Spawn(j) \/ St!TakeOver(j) \/ St!StartTurn(j) \/ St!StartWork(j)
      PROVE  AnswerOK(k)'
  <2>1. UNCHANGED <<situation, spoken, full, outbound, heard>> /\ overtook \subseteq overtook'
    BY <1>2, SaysNothing
  <2>2. GoesOn(k)  BY <1>2, SilentlyGoesOn
  <2> QED BY <1>0, <2>1, <2>2, StillAnswered
<1>3. CASE St!HandleBusMessage
  <2> DEFINE j == Head(inbox)  e == St!Event("status", Main, 0, 0)
  <2>1. j \in Jobs /\ pc[j] = "inbox"  BY <1>3 DEF InboxInv, St!HandleBusMessage
  <2>2. /\ heard' = [heard EXCEPT ![j] = Append(@, e)] /\ pc' = [pc EXCEPT ![j] = "asking"]
        /\ UNCHANGED <<situation, verdict, spoken, full, outbound, overtook>>
    BY <1>3 DEF St!HandleBusMessage, St!turnVars
  <2>3. e \in Events /\ e.kind = "status"  BY <1>0 DEF St!Event
  <2> HIDE DEF j, e, Events
  <2>4. CASE k # j
    <3>1. heard'[k] = heard[k] /\ pc'[k] = pc[k]  BY <1>0, <2>1, <2>2, <2>4
    <3> QED BY <1>0, <2>2, <3>1, StillAnswered DEF GoesOn
  <2>5. CASE k = j
    <3>1. heard'[k] = Append(heard[k], e) /\ pc'[k] = "asking"  BY <1>0, <2>1, <2>2, <2>5
    <3>2. /\ DOMAIN heard'[k] = 1 .. Len(heard[k]) + 1 /\ DOMAIN heard[k] = 1 .. Len(heard[k])
          /\ heard'[k][Len(heard[k]) + 1] = e /\ Len(heard[k]) \in Nat
          /\ \A i \in DOMAIN heard[k] : heard'[k][i] = heard[k][i]
      BY <1>0, <2>3, <3>1, OneMore
    <3>3. /\ \A i \in DOMAIN heard[k] : heard[k][i].kind = "status"
          /\ full[k] = <<>> /\ spoken[k] = <<>> /\ outbound[k] = <<>>
      BY <1>0, <2>1, <2>5 DEF AnswerOK, WaitsInSilence, Unanswered, Unplaced, AtTask
    <3>4. \A i \in DOMAIN heard'[k] : i = Len(heard[k]) + 1 \/ i \in DOMAIN heard[k]  BY <3>2
    <3>5. \A i \in DOMAIN heard'[k] : heard'[k][i].kind = "status"  BY <2>3, <3>2, <3>3, <3>4
    <3>6. WaitsInSilence(k)' /\ Unanswered(k)'
      BY <2>2, <3>3, <3>5 DEF WaitsInSilence, Unanswered
    <3>7. HasHeard(k)'  BY <3>1 DEF HasHeard, Asked, PlacedOrLater
    <3> QED BY <3>6, <3>7 DEF AnswerOK
  <2> QED BY <2>4, <2>5
<1>4. ASSUME NEW j \in Jobs, St!Emit(j) PROVE AnswerOK(k)'
  <2> DEFINE l == hooks[St!Session(j)]
  <2>1. PICK kind \in situation.says :
          /\ spoken' = IF kind = "text" THEN [spoken EXCEPT ![j] = Append(@, events[j])] ELSE spoken
          /\ pc' = pc \/ (pc[j] = "working" /\ pc' = [pc EXCEPT ![j] = "forwarding"])
          /\ St!Call(l, St!Event(kind, St!Session(j), events[j], 0))
    BY <1>4 DEF St!Emit, St!Move
  <2>2. /\ UNCHANGED <<situation, verdict, overtook>>
        /\ pc[j] \in {"turn", "working"}
    BY <1>4 DEF St!Emit, St!InTurn
  <2> DEFINE e == St!Event(kind, St!Session(j), events[j], 0)
  <2>3. /\ e \in Events /\ e.kind = kind /\ e.from = St!Session(j) /\ e.n = events[j]
        /\ kind \in {"text", "thinking", "tool", "status"} /\ kind \notin Closing
    <3>1. kind \in {"text", "thinking", "tool", "status"}  BY Places
    <3>2. St!Session(j) \in Sessions_  BY <1>0 DEF St!Session
    <3> QED BY <1>0, <3>1, <3>2 DEF St!Event, Closing
  <2>4. Hears(l, e)  BY <2>1, <2>3, CallIsHeard
  <2>5. k # j => spoken'[k] = spoken[k] /\ pc'[k] = pc[k]  BY <1>0, <2>1
  <2>6. outbound' = outbound /\ (k # l => heard'[k] = heard[k] /\ full'[k] = full[k])
    BY <2>4 DEF Hears
  <2>7. pc[j] = "turn" => St!Session(j) = To(j) /\ l = CallbackOf(j)
    BY DEF St!Session, TurnInv
  <2>8. pc[j] = "working" => St!Session(j) = j /\ l \in {Forward, NoCallback} \cup overtook
    BY DEF St!Session, TurnInv
  <2>9. l \in Jobs => pc[l] \in PlacedOrLater
    <3>1. St!Session(j) \in Sessions_  BY <1>0 DEF St!Session
    <3> QED BY <3>1 DEF CallbackInv
  <2> HIDE DEF l, e, Events
  <2>10. CASE k # j /\ k # l
    BY <1>0, <2>2, <2>5, <2>6, <2>10, StillAnswered DEF GoesOn
  <2>11. CASE k # j /\ k = l
    <3>1. k \in overtook  BY <1>0, <2>2, <2>7, <2>8, <2>11 DEF CallbackOf
    <3>2. pc[k] \in PlacedOrLater  BY <2>9, <2>11
    <3> QED BY <1>0, <2>2, <2>3, <2>4, <2>5, <2>11, <3>1, <3>2, HearsBeside
  <2>12. CASE k = j /\ pc[j] = "working"
    <3>1. k # l /\ pc[k] \in AtTask /\ pc[k] \in Unplaced /\ pc'[k] \in AtTask /\ pc'[k] \in Unplaced
      BY <1>0, <2>1, <2>9, <2>12 DEF AtTask, Unplaced
    <3>2. WaitsInSilence(k)'
      BY <1>0, <2>6, <3>1 DEF AnswerOK, WaitsInSilence
    <3>3. Unanswered(k)' /\ HasHeard(k)'
      <4>1. pc[k] # "ended" /\ pc'[k] \notin PlacedOrLater
        BY <3>1 DEF AtTask, Unplaced, PlacedOrLater
      <4>2. Unanswered(k)'  BY <1>0, <2>6, <4>1 DEF AnswerOK, Unanswered
      <4>3. HasHeard(k)'  BY <4>1 DEF HasHeard, Asked
      <4> QED BY <4>2, <4>3
    <3> QED BY <3>2, <3>3 DEF AnswerOK
  <2>13. CASE k = j /\ pc[j] = "turn"
    <3>1. pc'[k] = pc[k] /\ e.from = To(k)  BY <2>1, <2>3, <2>7, <2>13
    <3>2. spoken'[k] = IF e.kind = "text" THEN Append(spoken[k], e.n) ELSE spoken[k]
      BY <1>0, <2>1, <2>3, <2>13
    <3>3. CASE l = k
      BY <1>0, <2>2, <2>3, <2>4, <2>13, <3>1, <3>2, <3>3, HearsItself
    <3>4. CASE l # k
      <4>1. ~OnBus(k) /\ ~OnHttp(k)  BY <2>7, <2>13, <3>4 DEF CallbackOf
      <4>2. HasHeard(k)'  BY <2>2, <4>1 DEF HasHeard, Asked
      <4>3. WaitsInSilence(k)' /\ Unanswered(k)'
        BY <1>0, <2>6, <2>13, <3>1, <3>4 DEF AnswerOK, WaitsInSilence, Unanswered, Unplaced, AtTask
      <4> QED BY <4>2, <4>3 DEF AnswerOK
    <3> QED BY <3>3, <3>4
  <2> QED BY <2>2, <2>10, <2>11, <2>12, <2>13
<1>5. ASSUME NEW j \in Jobs, St!CallAbove(j) PROVE AnswerOK(k)'
  <2> DEFINE l == aim[j]  e == St!Event("agent", j, events[j], made[j])
  <2>1. St!Call(l, e)  BY <1>5 DEF St!CallAbove
  <2>2. e \in Events /\ e.kind = "agent" /\ e.from = j  BY <1>0 DEF St!Event
  <2>3. UNCHANGED <<situation, verdict, overtook, spoken>>  BY <1>5 DEF St!CallAbove, St!turnVars
  <2>4. \/ pc[j] = "told" /\ pc' = [pc EXCEPT ![j] = "ready"]
        \/ pc[j] = "forwarding" /\ pc' = [pc EXCEPT ![j] = "working"]
        \/ pc[j] = "worked" /\ pc' = [pc EXCEPT ![j] = "reporting"]
    BY <1>5 DEF St!CallAbove, St!Move
  <2>5. Hears(l, e)  BY <2>1, <2>2, CallIsHeard
  <2>6. outbound' = outbound /\ (k # l => heard'[k] = heard[k] /\ full'[k] = full[k])
    BY <2>5 DEF Hears
  <2>7. l \in Jobs => pc[l] \in PlacedOrLater /\ To(l) # j  BY DEF AimInv
  <2>8. GoesOn(k)
    BY <1>0, <2>3, <2>4 DEF GoesOn, Unplaced, AtTask
  <2> HIDE DEF l, e, Events
  <2>9. CASE k # l
    BY <1>0, <2>3, <2>6, <2>8, <2>9, StillAnswered
  <2>10. CASE k = l
    <3>1. pc[k] \in PlacedOrLater /\ To(k) # j  BY <2>7, <2>10
    <3>2. k # j  BY <2>4, <3>1 DEF PlacedOrLater
    <3>3. pc'[k] = pc[k]  BY <1>0, <2>4, <3>2
    <3> QED BY <1>0, <2>2, <2>3, <2>5, <2>10, <3>1, <3>3, HearsBeside
  <2> QED BY <2>9, <2>10
<1>6. ASSUME NEW j \in Jobs, St!Finish(j) PROVE AnswerOK(k)'
  <2> DEFINE e == St!Event("done", To(j), 0, 0)
  <2>1. IF verdict[j] = "ok" /\ Kind(j) # "run" THEN St!Call(j, e)
        ELSE UNCHANGED <<full, heard, outbound>>
    BY <1>6 DEF St!Finish, St!sideVars
  <2>2. /\ UNCHANGED <<situation, verdict, spoken, overtook>>
        /\ pc[j] = "finishing" /\ pc' = [pc EXCEPT ![j] = "returned"]
    BY <1>6 DEF St!Finish, St!Move, St!turnVars
  <2>3. e \in Events /\ e.kind = "done" /\ e.from = To(j)  BY <1>0 DEF St!Event
  <2>4. IF verdict[j] = "ok" /\ Kind(j) # "run" THEN Hears(j, e)
        ELSE UNCHANGED <<full, heard, outbound>>
    BY <2>1, <2>3, CallIsHeard
  <2> HIDE DEF e, Events
  <2>5. CASE k # j
    <3>1. heard'[k] = heard[k] /\ full'[k] = full[k] /\ outbound'[k] = outbound[k]
      BY <2>4, <2>5 DEF Hears
    <3>2. pc'[k] = pc[k]  BY <1>0, <2>2, <2>5
    <3> QED BY <1>0, <2>2, <3>1, <3>2, StillAnswered DEF GoesOn
  <2>6. CASE k = j /\ verdict[j] = "ok" /\ Kind(j) # "run"
    <3>1. pc'[k] = "returned"  BY <1>0, <2>2, <2>6
    <3> QED BY <1>0, <2>2, <2>3, <2>4, <2>6, <3>1, HearsDone
  <2>7. CASE k = j /\ ~(verdict[j] = "ok" /\ Kind(j) # "run")
    <3>1. pc'[k] = "returned" /\ pc[k] = "finishing"  BY <1>0, <2>2, <2>7
    <3>2. GoesOn(k)  BY <2>2, <2>7, <3>1 DEF GoesOn
    <3> QED BY <1>0, <2>2, <2>4, <2>7, <3>2, StillAnswered
  <2> QED BY <2>5, <2>6, <2>7
<1>7. ASSUME NEW j \in Jobs, St!Return(j) PROVE AnswerOK(k)'
  <2>1. CASE k = j  BY <1>0, <1>7, <2>1, ReturnsWhole
  <2>2. CASE k # j
    <3>1. heard'[k] = heard[k]
      <4>1. Main \in Sessions_ /\ To(j) \in Sessions_  BY <1>0
      <4>2. \A i \in Jobs : i # j => heard'[i] = heard[i]
        <5> HIDE DEF Kind, To, OnBus, Events
        <5> QED BY <1>7, <4>1, ReturnTells
      <4> QED BY <2>2, <4>2
    <3>2. outbound' = outbound \/ outbound' = [outbound EXCEPT ![j] = Append(@, full[j])]
      BY <1>7 DEF St!Return
    <3>3. outbound'[k] = outbound[k]  BY <2>2, <3>2 DEF StreamTypes
    <3>4. /\ UNCHANGED <<situation, verdict, spoken, full, overtook>>
          /\ pc' = [pc EXCEPT ![j] = "ended"]
      BY <1>7 DEF St!Return, St!Move, St!turnVars
    <3>5. pc'[k] = pc[k]  BY <1>0, <2>2, <3>4
    <3> QED BY <1>0, <3>1, <3>3, <3>4, <3>5, StillAnswered DEF GoesOn
  <2> QED BY <2>1, <2>2
<1>8. ASSUME NEW j \in Jobs, St!Report(j) PROVE AnswerOK(k)'
  <2>1. /\ spoken' = [spoken EXCEPT ![j] = <<>>] /\ UNCHANGED <<situation, full, heard, outbound, verdict, overtook>>
        /\ pc[j] = "reporting"
        /\ pc' = [pc EXCEPT ![j] = "joined"] \/ pc' = [pc EXCEPT ![j] = "asking"]
    BY <1>8 DEF St!Report, St!sideVars, St!Move
  <2>2. CASE k # j
    <3>1. spoken'[k] = spoken[k] /\ pc'[k] = pc[k]  BY <1>0, <2>1, <2>2
    <3> QED BY <1>0, <2>1, <3>1, StillAnswered DEF GoesOn
  <2>3. CASE k = j
    <3>1. spoken'[k] = <<>> /\ pc[k] = "reporting" /\ pc'[k] \in {"joined", "asking"}  BY <1>0, <2>1, <2>3
    <3>2. WaitsInSilence(k)'
      BY <1>0, <2>1, <3>1 DEF AnswerOK, WaitsInSilence, Unplaced, AtTask
    <3>3. Unanswered(k)' /\ HasHeard(k)'
      BY <1>0, <2>1, <3>1 DEF AnswerOK, Unanswered, HasHeard, Asked, PlacedOrLater
    <3> QED BY <3>2, <3>3 DEF AnswerOK
  <2> QED BY <2>2, <2>3
<1> QED BY <1>1, <1>2, <1>3, <1>4, <1>5, <1>6, <1>7, <1>8 DEF St!Next, St!Step, St!End

LEMMA AnswerInit ==
  ASSUME St!Init
  PROVE  AnswerInv
<1> SUFFICES ASSUME NEW k \in Jobs PROVE AnswerOK(k)  BY DEF AnswerInv
<1>1. pc[k] = "away" /\ heard[k] = <<>> /\ full[k] = <<>> /\ spoken[k] = <<>> /\ outbound[k] = <<>>
  BY DEF St!Init
<1>2. WaitsInSilence(k) /\ Unanswered(k)  BY <1>1 DEF WaitsInSilence, Unanswered
<1>3. HasHeard(k)  BY <1>1 DEF HasHeard, Asked, PlacedOrLater
<1> QED BY <1>2, <1>3 DEF AnswerOK

\* Whoever asked, and did not come to a sub-agent before its task had begun, has
\* been sent the text of the turn that answered, whole and in order; on the bus
\* done is the last of it and what is published is what was streamed, and over
\* HTTP a turn is closed once, behind everything else of its own
\* (server/bus.go handleBusMessage; server/server.go run; server/api_run.go
\* handleRunStream).
THEOREM AnswersWhole ==
  ASSUME St!StreamsAssumption
  PROVE  St!Spec => []AnswersAreWhole
<1>1. St!Init => StreamInv /\ AnswerInv  BY StreamInit, AnswerInit
<1>2. StreamInv /\ AnswerInv /\ [St!Next]_St!vars => StreamInv' /\ AnswerInv'
  BY StreamStep, AnswerStep
<1>3. StreamInv /\ AnswerInv => AnswersAreWhole
  <2> SUFFICES ASSUME StreamTypes, AnswerInv, NEW j \in Jobs \ overtook, pc[j] = "ended", OnBus(j) \/ OnHttp(j)
               PROVE  /\ TextOf(j) = spoken[j]
                      /\ OnBus(j) =>
                           /\ heard[j] # <<>>
                           /\ \A i \in DOMAIN heard[j] : heard[j][i].kind = "done" <=> i = Len(heard[j])
                           /\ outbound[j] = IF spoken[j] = <<>> \/ verdict[j] = "panic" THEN <<>> ELSE <<spoken[j]>>
                      /\ OnHttp(j) =>
                           IF verdict[j] \in {"ok", "fail"} THEN ClosedOnce(j) ELSE Closes(j) = {}
    BY DEF AnswersAreWhole, StreamInv
  <2>1. HasHeard(j) /\ Asked(j)  BY DEF AnswerInv, AnswerOK, Asked, PlacedOrLater
  <2>2. /\ TextOf(j) = TextIn(heard[j], To(j)) /\ Closes(j) = ClosesIn(heard[j])
        /\ ClosedOnce(j) <=> ClosedIn(heard[j], To(j))
    BY DEF TextOf, TextIn, Closes, ClosesIn, ClosedOnce, ClosedIn, Closing
  <2>3. Concluded(j) <=> verdict[j] \in {"ok", "fail"}  BY DEF Concluded
  <2> QED BY <2>1, <2>2, <2>3 DEF HasHeard, DoneLast
<1> QED BY <1>1, <1>2, <1>3, PTL DEF St!Spec
=============================================================================
