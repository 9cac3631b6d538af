------------------------- MODULE SessionTurnsProofs -------------------------
(***************************************************************************)
(* Theorems about SessionTurns, for any sets of sessions, requests and     *)
(* notes, any lane and channel capacities and any cap on API calls.  First *)
(* the queue, the slots and the turn bracket; then where the messages are  *)
(* and in which order: a session holds each of its messages once, each     *)
(* route into it is first in, first out, and the queue, the channel, the   *)
(* turn bracket and the compaction implement the abstract Mailbox.         *)
(***************************************************************************)
EXTENDS SessionTurns, FiniteSetTheorems, TLAPS

USE DEF Lanes, Statuses, Pcs, LockPcs, SlotPcs, LivePcs, WritingPcs, Requeued

-----------------------------------------------------------------------------
(* Sequence-valued functions, updated at one point.                        *)

\* A queue of one session grows by one message (Session.pendingMessages, the
\* injection channel): the function of all queues keeps its type.
LEMMA AppendAt ==
  ASSUME NEW S, NEW T, NEW f \in [S -> Seq(T)], NEW x \in S, NEW m \in T
  PROVE  [f EXCEPT ![x] = Append(f[x], m)] \in [S -> Seq(T)]
  OBVIOUS

\* A queue of one session is replaced, as a drain does.
LEMMA AssignAt ==
  ASSUME NEW S, NEW T, NEW f \in [S -> Seq(T)], NEW x \in S, NEW s \in Seq(T)
  PROVE  [f EXCEPT ![x] = s] \in [S -> Seq(T)]
  OBVIOUS

\* A queue of one session is extended by another, as a requeue does.
LEMMA ConcatAt ==
  ASSUME NEW S, NEW T, NEW f \in [S -> Seq(T)], NEW x \in S, NEW s \in Seq(T)
  PROVE  [f EXCEPT ![x] = f[x] \o s] \in [S -> Seq(T)]
  OBVIOUS

\* What a queue of messages holds are messages.
LEMMA RangeIsSubset ==
  ASSUME NEW T, NEW s \in Seq(T)
  PROVE  Range(s) \subseteq T
  BY DEF Range

\* An emptied queue (pendingMessages = nil) holds nothing.
LEMMA RangeOfEmpty == Range(<<>>) = {}
  BY DEF Range

\* A queue after one more message holds what it held and that message.
LEMMA RangeOfAppend ==
  ASSUME NEW T, NEW s \in Seq(T), NEW m \in T
  PROVE  Range(Append(s, m)) = Range(s) \cup {m}
<1>1. \A i \in 1..Len(s) : Append(s, m)[i] = s[i]
  OBVIOUS
<1>2. Append(s, m)[Len(s) + 1] = m /\ DOMAIN Append(s, m) = 1..(Len(s) + 1)
  OBVIOUS
<1>3. DOMAIN s = 1..Len(s) /\ Len(s) \in Nat
  OBVIOUS
<1>4. 1..(Len(s) + 1) = 1..Len(s) \cup {Len(s) + 1}
  BY <1>3
<1> QED BY <1>1, <1>2, <1>3, <1>4 DEF Range

\* A queue after a requeue or a prepend holds what both parts held.
LEMMA RangeOfConcat ==
  ASSUME NEW T, NEW s \in Seq(T), NEW t \in Seq(T)
  PROVE  Range(s \o t) = Range(s) \cup Range(t)
<1> DEFINE n == Len(s)
<1> DEFINE p == Len(t)
<1>1. /\ n \in Nat /\ p \in Nat /\ DOMAIN s = 1..n /\ DOMAIN t = 1..p
      /\ DOMAIN (s \o t) = 1..(n + p)
  OBVIOUS
<1>2. \A i \in 1..n : (s \o t)[i] = s[i]
  OBVIOUS
<1>3. \A i \in 1..p : (s \o t)[n + i] = t[i]
  OBVIOUS
<1>4. ASSUME NEW i \in 1..(n + p) PROVE (s \o t)[i] \in Range(s) \cup Range(t)
  <2>1. CASE i \in 1..n  BY <1>1, <1>2, <2>1 DEF Range
  <2>2. CASE i \notin 1..n
    <3>1. i - n \in 1..p /\ n + (i - n) = i  BY <1>1, <2>2
    <3>2. (s \o t)[i] = t[i - n]  BY <1>3, <3>1
    <3> QED BY <1>1, <3>1, <3>2 DEF Range
  <2> QED BY <2>1, <2>2
<1>5. ASSUME NEW i \in 1..n PROVE s[i] \in Range(s \o t)
  <2>1. i \in 1..(n + p)  BY <1>1
  <2> QED BY <1>1, <1>2, <2>1 DEF Range
<1>6. ASSUME NEW i \in 1..p PROVE t[i] \in Range(s \o t)
  <2>1. n + i \in 1..(n + p)  BY <1>1
  <2> QED BY <1>1, <1>3, <2>1 DEF Range
<1> QED BY <1>1, <1>4, <1>5, <1>6 DEF Range

\* Requests and notes are messages for one session each, and a request has a
\* lane.
LEMMA Addressed ==
  /\ \A r \in Requests : r \in Messages /\ To[r] \in Sessions /\ LaneOf[r] \in Lanes
  /\ \A m \in Notes : m \in Messages /\ To[m] \in Sessions
  BY TurnsAssumption DEF Messages

-----------------------------------------------------------------------------
(* Types.                                                                  *)

\* A session as createSession leaves it, and requests that have not begun, have
\* the types.
LEMMA TypeInit == Init => TypeOK
  BY TurnsAssumption DEF Init, TypeOK

\* Every step of a request's goroutine, from injectIfBusy to the unlock in
\* Enqueue, keeps the types.
LEMMA RequestStepKeepsTypes ==
  ASSUME TypeOK, NEW r \in Requests, RequestStep(r)
  PROVE  TypeOK'
<1> USE Addressed DEF TypeOK, queueVars, turnVars, mailVars, compactVars, history, Move
<1> DEFINE k == To[r]
<1>1. CASE InjectIfBusy(r)
  <2>1. channel' \in [Sessions -> Seq(Messages)] /\ midTurn' \in [Sessions -> Seq(Messages)]
    BY <1>1, AppendAt DEF InjectIfBusy, Offer
  <2> QED BY <1>1, <2>1 DEF InjectIfBusy
<1>2. CASE GoToQueue(r)     BY <1>2 DEF GoToQueue
<1>3. CASE GiveUp(r)        BY <1>3 DEF GiveUp
<1>4. CASE TimeOut(r)       BY <1>4 DEF TimeOut
<1>5. CASE AcquireLock(r)   BY <1>5 DEF AcquireLock
<1>6. CASE AcquireSlot(r)   BY <1>6 DEF AcquireSlot
<1>7. CASE BeginTurn(r)
  <2>1. input' \in [Requests -> Seq(Messages)]
    BY <1>7, AssignAt DEF BeginTurn
  <2>2. pending' \in [Sessions -> Seq(Messages)]
    BY <1>7, AssignAt DEF BeginTurn
  <2> QED BY <1>7, <2>1, <2>2 DEF BeginTurn
<1>8. CASE GuardRefuses(r)
  <2>1. input' \in [Requests -> Seq(Messages)]
    BY <1>8, AssignAt DEF GuardRefuses
  <2>2. dropped' \in SUBSET Messages
    BY <1>8, RangeIsSubset DEF GuardRefuses
  <2> QED BY <1>8, <2>1, <2>2 DEF GuardRefuses
<1>9. CASE PrepareInput(r)
  <2>1. input' \in [Requests -> Seq(Messages)]
    BY <1>9, AssignAt DEF PrepareInput
  <2>2. transcript' \in [Sessions -> Seq(Messages)]
    BY <1>9, ConcatAt DEF PrepareInput
  <2> QED BY <1>9, <2>1, <2>2 DEF PrepareInput
<1>10. CASE StopTurn(r)     BY <1>10 DEF StopTurn
<1>11. CASE PromptFails(r)  BY <1>11 DEF PromptFails
<1>12. CASE CallModel(r)
  <2>1. calls' \in [Requests -> 0..MaxCalls]
    <3>1. MaxCalls \in Nat  BY TurnsAssumption
    <3>2. calls[r] \in 0..MaxCalls /\ calls[r] < MaxCalls  BY <1>12 DEF CallModel
    <3>3. calls[r] + 1 \in 0..MaxCalls  BY <3>1, <3>2
    <3> QED BY <1>12, <3>3 DEF CallModel
  <2>2. /\ transcript' \in [Sessions -> Seq(Messages)]
        /\ channel' \in [Sessions -> Seq(Messages)]
    <3>1. CASE calls[r] > 0 /\ r \in Readers
      <4>1. /\ transcript' = [transcript EXCEPT ![k] = transcript[k] \o channel[k]]
            /\ channel' = [channel EXCEPT ![k] = <<>>]
        BY <1>12, <3>1 DEF CallModel
      <4>2. transcript' \in [Sessions -> Seq(Messages)]  BY <4>1, ConcatAt
      <4>3. channel' \in [Sessions -> Seq(Messages)]  BY <4>1, AssignAt
      <4> QED BY <4>2, <4>3
    <3>2. CASE ~(calls[r] > 0 /\ r \in Readers)
      BY <1>12, <3>2 DEF CallModel
    <3> QED BY <3>1, <3>2
  <2> QED BY <1>12, <2>1, <2>2 DEF CallModel
<1>13. CASE ModelAnswers(r) BY <1>13 DEF ModelAnswers
<1>14. CASE MarkError(r)    BY <1>14 DEF MarkError
<1>15. CASE EndTurn(r)
  <2>1. pending' \in [Sessions -> Seq(Messages)]
    BY <1>15, ConcatAt DEF EndTurn
  <2>2. channel' \in [Sessions -> Seq(Messages)]
    BY <1>15, AssignAt DEF EndTurn
  <2> QED BY <1>15, <2>1, <2>2 DEF EndTurn
<1>16. CASE ReleaseSlot(r)  BY <1>16 DEF ReleaseSlot
<1>17. CASE ReleaseLock(r)  BY <1>17 DEF ReleaseLock
<1>18. CASE NoSession(r)    BY <1>18 DEF NoSession
<1> QED
  BY <1>1, <1>2, <1>3, <1>4, <1>5, <1>6, <1>7, <1>8, <1>9, <1>10, <1>11,
     <1>12, <1>13, <1>14, <1>15, <1>16, <1>17, <1>18 DEF RequestStep, Progress

\* Session.deliver and queuePending keep the types.
LEMMA NoteStepKeepsTypes ==
  ASSUME TypeOK, NEW m \in Notes, Deliver(m) \/ QueuePending(m)
  PROVE  TypeOK'
<1> USE Addressed DEF TypeOK
<1> DEFINE k == To[m]
<1>1. CASE Offer(k, m) /\ UNCHANGED <<pending, nextTurn>>
  <2>1. channel' \in [Sessions -> Seq(Messages)] /\ midTurn' \in [Sessions -> Seq(Messages)]
    BY <1>1, AppendAt DEF Offer
  <2> QED BY <1>1, <2>1 DEF Deliver, QueuePending, queueVars, turnVars, compactVars
<1>2. CASE Queue(k, m) /\ UNCHANGED <<channel, midTurn>>
  <2>1. pending' \in [Sessions -> Seq(Messages)] /\ nextTurn' \in [Sessions -> Seq(Messages)]
    BY <1>2, AppendAt DEF Queue
  <2> QED BY <1>2, <2>1 DEF Deliver, QueuePending, queueVars, turnVars, compactVars
<1> QED
  BY <1>1, <1>2 DEF Deliver, QueuePending

\* interrupt, stop and a compaction keep the types.
LEMMA ControlKeepsTypes ==
  ASSUME TypeOK, NEW k \in Sessions, Control(k)
  PROVE  TypeOK'
<1> USE TurnsAssumption DEF TypeOK, queueVars, turnVars, mailVars, compactVars, history
<1>1. CASE Interrupt(k)    BY <1>1 DEF Interrupt, CancelTurnOf
<1>2. CASE Stop(k)         BY <1>2 DEF Stop, CancelTurnOf
<1>3. CASE CompactBegin(k) BY <1>3, AssignAt DEF CompactBegin
<1>4. CASE CompactEnd(k)
  <2>1. PICK written \in {snapshot[k], transcript[k]} :
          /\ transcript' = [transcript EXCEPT ![k] = written]
          /\ dropped' = dropped \cup (Range(transcript[k]) \ Range(written))
    BY <1>4 DEF CompactEnd
  <2>2. transcript' \in [Sessions -> Seq(Messages)]
    BY <2>1, AssignAt
  <2>3. dropped' \in SUBSET Messages
    BY <2>1, RangeIsSubset
  <2>4. snapshot' \in [Sessions -> Seq(Messages)]
    BY <1>4, AssignAt DEF CompactEnd
  <2> QED BY <1>4, <2>2, <2>3, <2>4 DEF CompactEnd
<1> QED BY <1>1, <1>2, <1>3, <1>4 DEF Control

\* TypeOK is inductive.
LEMMA TypeStep == TypeOK /\ [Next]_vars => TypeOK'
<1> SUFFICES ASSUME TypeOK, [Next]_vars PROVE TypeOK'
  OBVIOUS
<1>1. CASE UNCHANGED vars
  BY <1>1 DEF vars, TypeOK
<1> QED
  BY <1>1, RequestStepKeepsTypes, NoteStepKeepsTypes, ControlKeepsTypes DEF Next

\* Every variable of the queue, the mailbox and the turn keeps its type.
THEOREM TypeCorrect == Spec => []TypeOK
  BY TypeInit, TypeStep, PTL DEF Spec

-----------------------------------------------------------------------------
(* The queue: locks and slots.                                             *)

\* Before the first Enqueue no lock is held and no slot is taken.
LEMMA QueueInit == Init => QueueInv
  BY TurnsAssumption, FS_EmptySet DEF Init, QueueInv

\* A lane that had a slot free is not overfull after the send on its semaphore.
LEMMA AddedWithin ==
  ASSUME NEW S, NEW x, IsFiniteSet(S), NEW n \in Nat, Cardinality(S) < n
  PROVE  Cardinality(S \cup {x}) <= n
<1>1. Cardinality(S) \in Nat  BY FS_CardinalityType
<1>2. Cardinality(S \cup {x}) = IF x \in S THEN Cardinality(S) ELSE Cardinality(S) + 1
  BY FS_AddElement
<1> QED BY <1>1, <1>2

\* A lane that gives a slot back is not overfull.
LEMMA RemovedWithin ==
  ASSUME NEW S, NEW x, IsFiniteSet(S), NEW n \in Nat, Cardinality(S) <= n
  PROVE  Cardinality(S \ {x}) <= n
<1>1. Cardinality(S) \in Nat  BY FS_CardinalityType
<1>2. Cardinality(S \ {x}) = IF x \in S THEN Cardinality(S) - 1 ELSE Cardinality(S)
  BY FS_RemoveElement
<1> QED BY <1>1, <1>2

\* The slots of a lane are finitely many, at most the capacity of its channel.
LEMMA LaneFacts ==
  ASSUME TypeOK, QueueInv, NEW l \in Lanes
  PROVE  IsFiniteSet(slots[l]) /\ LaneCap[l] \in Nat /\ Cardinality(slots[l]) <= LaneCap[l]
<1>1. slots[l] \in SUBSET Requests /\ IsFiniteSet(Requests)
  BY TurnsAssumption DEF TypeOK
<1>2. IsFiniteSet(slots[l])  BY <1>1, FS_Subset
<1> QED BY <1>2, TurnsAssumption DEF QueueInv

\* A move of one goroutine that leaves locks and slots alone and enters neither
\* the stretch under the mutex nor the one under the slot.
LEMMA MoveKeepsQueue ==
  ASSUME TypeOK, QueueInv, NEW r \in Requests, NEW to \in Pcs,
         pc' = [pc EXCEPT ![r] = to], UNCHANGED <<lockHolder, slots>>,
         to \in LockPcs => pc[r] \in LockPcs, to \in SlotPcs => pc[r] \in SlotPcs
  PROVE  QueueInv'
<1>1. \A q \in Requests : pc'[q] \in LockPcs => pc[q] \in LockPcs
  BY DEF TypeOK
<1>2. \A q \in Requests : pc'[q] \in SlotPcs => pc[q] \in SlotPcs
  BY DEF TypeOK
<1> HIDE DEF LockPcs, SlotPcs
<1> QED BY <1>1, <1>2 DEF QueueInv

\* While r holds the mutex of its session, or nobody does, every other request
\* past Lock has another session.
LEMMA OthersElsewhere ==
  ASSUME QueueInv, NEW r \in Requests, lockHolder[To[r]] \in {None, r}
  PROVE  \A q \in Requests \ {r} : pc[q] \in LockPcs => To[q] # To[r]
<1> HIDE DEF LockPcs
<1>1. \A q \in Requests : q # None
  BY TurnsAssumption DEF Messages
<1> QED BY <1>1 DEF QueueInv

\* The mutex of one session changes hands: r takes it, or gives it back.
LEMMA LockStep ==
  ASSUME TypeOK, QueueInv, NEW r \in Requests, NEW to \in Pcs, NEW h \in {None, r},
         lockHolder[To[r]] \in {None, r}, pc[r] \notin SlotPcs, to \notin SlotPcs,
         to \in LockPcs => h = r,
         pc' = [pc EXCEPT ![r] = to], lockHolder' = [lockHolder EXCEPT ![To[r]] = h],
         slots' = slots
  PROVE  QueueInv'
<1>1. ASSUME NEW q \in Requests, pc'[q] \in LockPcs PROVE lockHolder'[To[q]] = q
  <2> HIDE DEF LockPcs, SlotPcs
  <2>1. CASE q = r
    BY <1>1, <2>1, Addressed DEF TypeOK
  <2>2. CASE q # r
    <3>1. pc[q] \in LockPcs  BY <1>1, <2>2 DEF TypeOK
    <3>2. To[q] # To[r]  BY <2>2, <3>1, OthersElsewhere
    <3> QED BY <3>1, <3>2, Addressed DEF TypeOK, QueueInv
  <2> QED BY <2>1, <2>2
<1>2. \A q \in Requests : pc'[q] \in SlotPcs => q \in slots[LaneOf[q]]
  <2> HIDE DEF LockPcs, SlotPcs
  <2> QED BY DEF TypeOK, QueueInv
<1> HIDE DEF LockPcs, SlotPcs
<1> QED BY <1>1, <1>2 DEF QueueInv

\* The slots of one lane change: every request at its slot keeps it, and the
\* lane stays within its capacity.
LEMMA SlotStep ==
  ASSUME TypeOK, QueueInv, NEW r \in Requests, NEW to \in LockPcs, NEW S \in SUBSET Requests,
         pc[r] \in LockPcs, to \in SlotPcs => r \in S, slots[LaneOf[r]] \ {r} \subseteq S,
         Cardinality(S) <= LaneCap[LaneOf[r]],
         pc' = [pc EXCEPT ![r] = to], lockHolder' = lockHolder,
         slots' = [slots EXCEPT ![LaneOf[r]] = S]
  PROVE  QueueInv'
<1> HIDE DEF LockPcs, SlotPcs
<1>1. LaneOf[r] \in Lanes  BY TurnsAssumption
<1>2. \A q \in Requests : pc'[q] \in LockPcs => lockHolder[To[q]] = q
  BY DEF TypeOK, QueueInv
<1>3. ASSUME NEW q \in Requests, pc'[q] \in SlotPcs PROVE q \in slots'[LaneOf[q]]
  <2>1. CASE q = r
    BY <1>1, <1>3, <2>1 DEF TypeOK
  <2>2. CASE q # r
    <3>1. q \in slots[LaneOf[q]]  BY <1>3, <2>2 DEF TypeOK, QueueInv
    <3> QED BY <1>1, <2>2, <3>1 DEF TypeOK
  <2> QED BY <2>1, <2>2
<1>4. \A l \in Lanes : Cardinality(slots'[l]) <= LaneCap[l]
  BY <1>1 DEF TypeOK, QueueInv
<1> QED BY <1>2, <1>3, <1>4 DEF QueueInv

\* Every step of a request's goroutine keeps the invariant of Queue.Enqueue.
LEMMA RequestStepKeepsQueue ==
  ASSUME TypeOK, QueueInv, NEW r \in Requests, RequestStep(r)
  PROVE  QueueInv'
<1> USE DEF Move
<1>1. CASE InjectIfBusy(r)  BY <1>1, MoveKeepsQueue DEF InjectIfBusy
<1>2. CASE GoToQueue(r)     BY <1>2, MoveKeepsQueue DEF GoToQueue
<1>3. CASE GiveUp(r)
  <2>1. lockHolder[To[r]] = r  BY <1>3 DEF GiveUp, QueueInv
  <2> QED BY <1>3, <2>1, LockStep DEF GiveUp
<1>4. CASE TimeOut(r)
  BY <1>4 DEF TimeOut, queueVars, QueueInv
<1>5. CASE AcquireLock(r)
  <2>1. /\ pc[r] = "wantLock" /\ pc' = [pc EXCEPT ![r] = "wantSlot"]
        /\ lockHolder[To[r]] = None /\ lockHolder' = [lockHolder EXCEPT ![To[r]] = r]
        /\ slots' = slots
    BY <1>5 DEF AcquireLock
  <2>2. "wantSlot" \in Pcs /\ "wantSlot" \notin SlotPcs /\ pc[r] \notin SlotPcs
    BY <2>1
  <2> HIDE DEF Pcs, LockPcs, SlotPcs
  <2> QED BY <2>1, <2>2, LockStep
<1>6. CASE AcquireSlot(r)
  <2> DEFINE l == LaneOf[r]
             S == slots[l] \cup {r}
  <2>1. slots' = [slots EXCEPT ![l] = S] /\ Cardinality(slots[l]) < LaneCap[l]
    BY <1>6 DEF AcquireSlot
  <2>2. l \in Lanes  BY TurnsAssumption
  <2>3. Cardinality(S) <= LaneCap[l]
    BY <2>1, <2>2, LaneFacts, AddedWithin
  <2>4. S \in SUBSET Requests /\ r \in S /\ slots[l] \ {r} \subseteq S
    BY <2>2 DEF TypeOK
  <2>5. pc[r] = "wantSlot" /\ pc' = [pc EXCEPT ![r] = "working"] /\ lockHolder' = lockHolder
    BY <1>6 DEF AcquireSlot
  <2> HIDE DEF S
  <2> QED BY <2>1, <2>3, <2>4, <2>5, SlotStep
<1>7. CASE BeginTurn(r)     BY <1>7, MoveKeepsQueue DEF BeginTurn
<1>8. CASE GuardRefuses(r)  BY <1>8, MoveKeepsQueue DEF GuardRefuses
<1>9. CASE PrepareInput(r)  BY <1>9, MoveKeepsQueue DEF PrepareInput
<1>10. CASE StopTurn(r)     BY <1>10, MoveKeepsQueue DEF StopTurn
<1>11. CASE PromptFails(r)  BY <1>11, MoveKeepsQueue DEF PromptFails
<1>12. CASE CallModel(r)    BY <1>12, MoveKeepsQueue DEF CallModel
<1>13. CASE ModelAnswers(r)
  <2>1. PICK to \in {"looping", "finished", "failed"} : Move(r, "calling", to)
    BY <1>13 DEF ModelAnswers
  <2>2. UNCHANGED <<lockHolder, slots>>  BY <1>13 DEF ModelAnswers
  <2> QED BY <2>1, <2>2, MoveKeepsQueue
<1>14. CASE MarkError(r)    BY <1>14, MoveKeepsQueue DEF MarkError
<1>15. CASE EndTurn(r)      BY <1>15, MoveKeepsQueue DEF EndTurn
<1>16. CASE ReleaseSlot(r)
  <2> DEFINE l == LaneOf[r]
             S == slots[l] \ {r}
  <2>1. slots' = [slots EXCEPT ![l] = S]
    BY <1>16 DEF ReleaseSlot
  <2>2. l \in Lanes  BY TurnsAssumption
  <2>3. Cardinality(S) <= LaneCap[l]
    BY <2>2, LaneFacts, RemovedWithin
  <2>4. S \in SUBSET Requests  BY <2>2 DEF TypeOK
  <2>5. pc[r] = "settling" /\ pc' = [pc EXCEPT ![r] = "unlocking"] /\ lockHolder' = lockHolder
    BY <1>16 DEF ReleaseSlot
  <2> QED BY <2>1, <2>3, <2>4, <2>5, SlotStep
<1>17. CASE ReleaseLock(r)
  <2>1. lockHolder[To[r]] = r  BY <1>17 DEF ReleaseLock, QueueInv
  <2>2. /\ pc[r] = "unlocking" /\ pc' = [pc EXCEPT ![r] = "done"]
        /\ lockHolder' = [lockHolder EXCEPT ![To[r]] = None] /\ slots' = slots
    BY <1>17 DEF ReleaseLock
  <2>3. "done" \in Pcs /\ "done" \notin LockPcs /\ "done" \notin SlotPcs /\ pc[r] \notin SlotPcs
    BY <2>2
  <2> HIDE DEF Pcs, LockPcs, SlotPcs
  <2> QED BY <2>1, <2>2, <2>3, LockStep
<1>18. CASE NoSession(r)    BY <1>18, MoveKeepsQueue DEF NoSession
<1> QED
  BY <1>1, <1>2, <1>3, <1>4, <1>5, <1>6, <1>7, <1>8, <1>9, <1>10, <1>11,
     <1>12, <1>13, <1>14, <1>15, <1>16, <1>17, <1>18 DEF RequestStep, Progress

\* QueueInv is inductive relative to TypeOK: nothing outside Enqueue touches
\* locks and slots.
LEMMA QueueStep == TypeOK /\ QueueInv /\ [Next]_vars => QueueInv'
<1> SUFFICES ASSUME TypeOK, QueueInv, [Next]_vars PROVE QueueInv'
  OBVIOUS
<1>1. CASE UNCHANGED queueVars
  BY <1>1 DEF queueVars, QueueInv
<1>2. ASSUME NEW m \in Notes, Deliver(m) \/ QueuePending(m) PROVE UNCHANGED queueVars
  BY <1>2 DEF Deliver, QueuePending
<1>3. ASSUME NEW k \in Sessions, Control(k) PROVE UNCHANGED queueVars
  BY <1>3 DEF Control, Interrupt, Stop, CompactBegin, CompactEnd
<1>4. CASE UNCHANGED vars
  BY <1>1, <1>4 DEF vars, queueVars
<1> QED
  BY <1>1, <1>2, <1>3, <1>4, RequestStepKeepsQueue DEF Next

\* Whoever is past smu.Lock() in Enqueue holds the mutex of its session, and
\* whoever is past the select occupies a slot of its lane; no lane is overfull.
THEOREM QueueCorrect == Spec => []QueueInv
  BY QueueInit, QueueStep, TypeCorrect, PTL DEF Spec

\* The lock held and the slot occupied give serialization and the lane's cap.
LEMMA QueueInvSerializes == TypeOK /\ QueueInv => OneTurnPerSession
<1> SUFFICES ASSUME TypeOK, QueueInv PROVE OneTurnPerSession
  OBVIOUS
<1>1. \A q, r \in Requests : Live(q) /\ Live(r) /\ To[q] = To[r] => q = r
  BY DEF QueueInv, Live
<1>2. ASSUME NEW l \in Lanes
      PROVE  Cardinality({r \in Requests : LaneOf[r] = l /\ Live(r)}) <= LaneCap[l]
  <2> DEFINE inLane == {r \in Requests : LaneOf[r] = l /\ Live(r)}
  <2>1. inLane \subseteq slots[l]
    BY DEF QueueInv, Live
  <2>2. IsFiniteSet(slots[l])
    BY TurnsAssumption, FS_Subset DEF TypeOK
  <2>3. /\ Cardinality(inLane) <= Cardinality(slots[l])
        /\ Cardinality(inLane) \in Nat /\ Cardinality(slots[l]) \in Nat
    BY <2>1, <2>2, FS_Subset, FS_CardinalityType
  <2>4. Cardinality(slots[l]) <= LaneCap[l] /\ LaneCap[l] \in Nat
    BY TurnsAssumption DEF QueueInv
  <2> QED BY <2>3, <2>4
<1> QED BY <1>1, <1>2 DEF OneTurnPerSession

\* Never two turns on one session, and never more turns in a lane than the
\* lane has slots, however many requests and sessions there are.
THEOREM SerializedTurns == Spec => []OneTurnPerSession
  BY QueueInvSerializes, QueueCorrect, TypeCorrect, PTL

-----------------------------------------------------------------------------
(* The turn bracket: Running, the cancel function and the channel.         *)

\* Only the holds of Session.mu at both ends of a turn touch its bracket.
LEMMA InsideTheBracket ==
  ASSUME TypeOK, NEW r \in Requests, RequestStep(r),
         ~BeginTurn(r), ~MarkError(r), ~EndTurn(r)
  PROVE  /\ status' = status /\ canceler' = canceler
         /\ \A q \in Requests : Live(q) => Live(q)'
         /\ \A q \in Requests : pc'[q] \in WritingPcs => pc[q] \in WritingPcs
<1> USE DEF TypeOK, Live, Move, turnVars, queueVars
<1>1. CASE InjectIfBusy(r)  BY <1>1 DEF InjectIfBusy
<1>2. CASE GoToQueue(r)     BY <1>2 DEF GoToQueue
<1>3. CASE GiveUp(r)        BY <1>3 DEF GiveUp
<1>4. CASE TimeOut(r)       BY <1>4 DEF TimeOut
<1>5. CASE AcquireLock(r)   BY <1>5 DEF AcquireLock
<1>6. CASE AcquireSlot(r)   BY <1>6 DEF AcquireSlot
<1>7. CASE GuardRefuses(r)  BY <1>7 DEF GuardRefuses
<1>8. CASE PrepareInput(r)  BY <1>8 DEF PrepareInput
<1>9. CASE StopTurn(r)      BY <1>9 DEF StopTurn
<1>10. CASE PromptFails(r)  BY <1>10 DEF PromptFails
<1>11. CASE CallModel(r)    BY <1>11 DEF CallModel
<1>12. CASE ModelAnswers(r) BY <1>12 DEF ModelAnswers
<1>13. CASE ReleaseSlot(r)  BY <1>13 DEF ReleaseSlot
<1>14. CASE ReleaseLock(r)  BY <1>14 DEF ReleaseLock
<1>15. CASE NoSession(r)    BY <1>15 DEF NoSession
<1> QED
  BY <1>1, <1>2, <1>3, <1>4, <1>5, <1>6, <1>7, <1>8, <1>9, <1>10, <1>11,
     <1>12, <1>13, <1>14, <1>15 DEF RequestStep, Progress

\* Deliveries and control calls move no request and take no lock of the queue.
LEMMA OtherStepsKeepPc ==
  /\ \A m \in Notes : Deliver(m) \/ QueuePending(m) => UNCHANGED <<queueVars, turnVars>>
  /\ \A k \in Sessions : Control(k) => UNCHANGED queueVars
  BY DEF Deliver, QueuePending, Control, Interrupt, Stop, CompactBegin, CompactEnd

\* An idle session has no cancel function.
LEMMA CancelInit == Init => RunningCanBeCancelled
  BY DEF Init, RunningCanBeCancelled

\* The bracket of Session.turn keeps status and cancel function together.
LEMMA CancelStep == TypeOK /\ RunningCanBeCancelled /\ [Next]_vars => RunningCanBeCancelled'
<1> SUFFICES ASSUME TypeOK, RunningCanBeCancelled, [Next]_vars
             PROVE  RunningCanBeCancelled'
  OBVIOUS
<1> USE TurnsAssumption, Addressed
    DEF TypeOK, RunningCanBeCancelled, LiveOn, Live
<1>1. ASSUME NEW r \in Requests, BeginTurn(r) PROVE RunningCanBeCancelled'
  <2>1. /\ status' = [status EXCEPT ![To[r]] = "running"]
        /\ canceler' = [canceler EXCEPT ![To[r]] = r]
        /\ pc' = [pc EXCEPT ![r] = "entered"] /\ r # None
    BY <1>1 DEF BeginTurn, Move, Messages
  <2>2. /\ pc'[r] \in LivePcs
        /\ \A q \in Requests : pc[q] \in LivePcs => pc'[q] \in LivePcs
    BY <2>1
  <2> HIDE DEF LivePcs
  <2> QED BY <2>1, <2>2
<1>2. ASSUME NEW r \in Requests, MarkError(r) PROVE RunningCanBeCancelled'
  BY <1>2 DEF MarkError, Move
<1>3. ASSUME NEW r \in Requests, EndTurn(r) PROVE RunningCanBeCancelled'
  <2>1. /\ status' = [status EXCEPT ![To[r]] = "idle"]
        /\ canceler' = [canceler EXCEPT ![To[r]] = None]
        /\ pc' = [pc EXCEPT ![r] = "settling"]
    BY <1>3 DEF EndTurn, Move
  <2>2. \A k \in Sessions \ {To[r]} : \A q \in Requests :
          To[q] = k /\ pc[q] \in LivePcs => pc'[q] \in LivePcs
    BY <2>1
  <2> HIDE DEF LivePcs
  <2> QED BY <2>1, <2>2
<1>4. ASSUME NEW r \in Requests, RequestStep(r), ~BeginTurn(r), ~MarkError(r), ~EndTurn(r)
      PROVE  RunningCanBeCancelled'
  <2>1. /\ status' = status /\ canceler' = canceler
        /\ \A q \in Requests : pc[q] \in LivePcs => pc'[q] \in LivePcs
    BY <1>4, InsideTheBracket
  <2> HIDE DEF LivePcs
  <2> QED BY <2>1
<1>5. ASSUME NEW m \in Notes, Deliver(m) \/ QueuePending(m) PROVE RunningCanBeCancelled'
  BY <1>5, OtherStepsKeepPc DEF queueVars, turnVars
<1>6. ASSUME NEW k \in Sessions, Control(k) PROVE RunningCanBeCancelled'
  <2>1. CASE Interrupt(k)    BY <2>1 DEF Interrupt, queueVars
  <2>2. CASE Stop(k)         BY <2>2 DEF Stop, queueVars
  <2>3. CASE CompactBegin(k) BY <2>3 DEF CompactBegin, queueVars, turnVars
  <2>4. CASE CompactEnd(k)
    <3>1. UNCHANGED <<pc, status, canceler>>
      BY <2>4 DEF CompactEnd, queueVars, turnVars
    <3> QED BY <3>1
  <2> QED BY <1>6, <2>1, <2>2, <2>3, <2>4 DEF Control
<1>7. CASE UNCHANGED vars  BY <1>7 DEF vars
<1> QED BY <1>1, <1>2, <1>3, <1>4, <1>5, <1>6, <1>7 DEF Next

\* An interrupt or a stop of a session that reads running always has the cancel
\* function of the turn in flight, and never one left over from an earlier turn.
THEOREM CancelReachesTheTurn == Spec => []RunningCanBeCancelled
  BY CancelInit, CancelStep, TypeCorrect, PTL DEF Spec

\* The injection channel of a new session is empty.
LEMMA ChannelInit == Init => ChannelHasReader
  BY DEF Init, ChannelHasReader

\* The channel grows only through an offer to a running session.
LEMMA OnlyOffersFill ==
  ASSUME TypeOK, RunningCanBeCancelled, NEW k \in Sessions, TurnTakes(k)
  PROVE  LiveOn(k) # {}
  BY TurnsAssumption DEF TypeOK, RunningCanBeCancelled, TurnTakes, LiveOn

\* No step leaves a message in the channel without a turn: EndTurn, the only one
\* that takes the turn away, empties the channel in the same hold of the mutex.
LEMMA ChannelStep ==
  TypeOK /\ RunningCanBeCancelled /\ ChannelHasReader /\ [Next]_vars => ChannelHasReader'
<1> SUFFICES ASSUME TypeOK, RunningCanBeCancelled, ChannelHasReader, [Next]_vars,
                    NEW j \in Sessions, channel'[j] # <<>>
             PROVE  LiveOn(j)' # {}
  BY DEF ChannelHasReader
<1> USE Addressed DEF TypeOK
<1>1. ASSUME NEW r \in Requests, EndTurn(r) PROVE LiveOn(j)' # {}
  <2>1. j # To[r] /\ channel'[j] = channel[j]
    BY <1>1 DEF EndTurn
  <2> QED BY <1>1, <2>1 DEF EndTurn, Move, ChannelHasReader, LiveOn, Live
<1>2. ASSUME NEW r \in Requests, InjectIfBusy(r) PROVE LiveOn(j)' # {}
  <2>1. j # To[r] => channel'[j] = channel[j]
    BY <1>2 DEF InjectIfBusy, Offer
  <2>2. LiveOn(j) # {}
    BY <1>2, <2>1, OnlyOffersFill DEF InjectIfBusy, Offer, ChannelHasReader
  <2> QED BY <1>2, <2>2 DEF InjectIfBusy, Move, LiveOn, Live
<1>3. ASSUME NEW r \in Requests, RequestStep(r), ~EndTurn(r), ~InjectIfBusy(r)
      PROVE  LiveOn(j)' # {}
  <2>1. channel[j] # <<>>
    <3>1. channel' = channel \/ CallModel(r)
      BY <1>3 DEF RequestStep, Progress, GoToQueue, GiveUp, TimeOut, AcquireLock,
         AcquireSlot, NoSession, BeginTurn, GuardRefuses, PrepareInput, StopTurn, PromptFails,
         ModelAnswers, MarkError, ReleaseSlot, ReleaseLock, mailVars
    <3>2. CallModel(r) => channel'[j] = channel[j] \/ channel'[j] = <<>>
      BY DEF CallModel
    <3> QED BY <3>1, <3>2
  <2>2. \A q \in Requests : Live(q) => Live(q)'
    <3>1. CASE BeginTurn(r)  BY <3>1 DEF BeginTurn, Move, Live
    <3>2. CASE MarkError(r)  BY <3>2 DEF MarkError, Move, Live
    <3> QED BY <1>3, <3>1, <3>2, InsideTheBracket
  <2> QED BY <2>1, <2>2 DEF ChannelHasReader, LiveOn
<1>4. ASSUME NEW m \in Notes, Deliver(m) \/ QueuePending(m) PROVE LiveOn(j)' # {}
  <2>1. channel'[j] = channel[j] \/ TurnTakes(j)
    BY <1>4 DEF Deliver, QueuePending, Offer
  <2>2. LiveOn(j) # {}
    BY <2>1, OnlyOffersFill DEF ChannelHasReader
  <2> QED BY <1>4, <2>2, OtherStepsKeepPc DEF queueVars, LiveOn, Live
<1>5. ASSUME NEW k \in Sessions, Control(k) PROVE LiveOn(j)' # {}
  <2>1. channel' = channel
    BY <1>5 DEF Control, Interrupt, Stop, CompactBegin, CompactEnd, mailVars
  <2> QED BY <1>5, <2>1, OtherStepsKeepPc DEF queueVars, ChannelHasReader, LiveOn, Live
<1>6. CASE UNCHANGED vars
  BY <1>6 DEF vars, ChannelHasReader, LiveOn, Live
<1> QED BY <1>1, <1>2, <1>3, <1>4, <1>5, <1>6 DEF Next

\* A message the channel accepted always has a turn in flight to read it or to
\* hand it on: the loss requeueInjectionsTheTurnNeverReadLocked was written for
\* cannot happen.
THEOREM NoStrandedMessage == Spec => []ChannelHasReader
  BY ChannelInit, ChannelStep, CancelReachesTheTurn, TypeCorrect, PTL DEF Spec

\* What a session shows of its turn is of use to who wants to cancel it or to
\* speak to it.
THEOREM ReachableTurns == Spec => []TurnsCanBeReached
<1>1. RunningCanBeCancelled /\ ChannelHasReader => TurnsCanBeReached
  BY DEF TurnsCanBeReached
<1> QED BY <1>1, CancelReachesTheTurn, NoStrandedMessage, PTL

-----------------------------------------------------------------------------
(* Turns and compactions.                                                  *)

\* Before the first turn nobody writes a conversation.
LEMMA WriterInit == Init => WriterInv
  BY DEF Init, WriterInv, WritersOf

\* Only PrepareInput and CallModel write the conversation, while RunTurn runs.
LEMMA OnlyWritersWrite ==
  ASSUME TypeOK, NEW r \in Requests, RequestStep(r), NEW k \in Sessions
  PROVE  /\ compacting' = compacting /\ snapshot' = snapshot
         /\ transcript'[k] = transcript[k] \/ r \in WritersOf(k)
<1> USE DEF TypeOK, Move, mailVars, compactVars, WritersOf
<1>1. CASE PrepareInput(r)
  <2>1. transcript'[k] = transcript[k] \/ k = To[r]
    BY <1>1, Addressed DEF PrepareInput
  <2> QED BY <1>1, <2>1 DEF PrepareInput
<1>2. CASE CallModel(r)
  <2>1. transcript'[k] = transcript[k] \/ k = To[r]
    <3>1. CASE calls[r] > 0 /\ r \in Readers
      BY <1>2, <3>1, Addressed DEF CallModel
    <3>2. CASE ~(calls[r] > 0 /\ r \in Readers)
      BY <1>2, <3>2 DEF CallModel
    <3> QED BY <3>1, <3>2
  <2> QED BY <1>2, <2>1 DEF CallModel
<1>3. CASE ~PrepareInput(r) /\ ~CallModel(r)
  BY <1>3 DEF RequestStep, Progress, InjectIfBusy, GoToQueue, GiveUp, TimeOut,
     AcquireLock, AcquireSlot, NoSession, BeginTurn, GuardRefuses, StopTurn,
     PromptFails, ModelAnswers, MarkError, EndTurn, ReleaseSlot, ReleaseLock
<1> QED BY <1>1, <1>2, <1>3

\* WriterInv is inductive: a turn begins only with the mutex free, and a
\* compaction only on a session that does not read running.
LEMMA WriterStep ==
  TypeOK /\ QueueInv /\ WriterInv /\ [Next]_vars => WriterInv'
<1> SUFFICES ASSUME TypeOK, QueueInv, WriterInv, [Next]_vars,
                    NEW k \in Sessions, k \notin Interruptible
             PROVE  /\ WritersOf(k)' # {} => status'[k] = "running"
                    /\ compacting'[k] => WritersOf(k)' = {} /\ snapshot'[k] = transcript'[k]
  BY DEF WriterInv
<1> DEFINE Goal == /\ WritersOf(k)' # {} => status'[k] = "running"
                   /\ compacting'[k] => WritersOf(k)' = {} /\ snapshot'[k] = transcript'[k]
<1>0. /\ WritersOf(k) # {} => status[k] = "running"
      /\ compacting[k] => WritersOf(k) = {} /\ snapshot[k] = transcript[k]
  BY DEF WriterInv
<1>1. ASSUME NEW r \in Requests, BeginTurn(r) PROVE Goal
  <2>1. /\ status' = [status EXCEPT ![To[r]] = "running"] /\ MuFree(To[r])
        /\ pc' = [pc EXCEPT ![r] = "entered"]
        /\ UNCHANGED <<compacting, snapshot, transcript>>
    BY <1>1 DEF BeginTurn, Move, compactVars
  <2>2. CASE k = To[r]
    BY <2>1, <2>2 DEF MuFree, TypeOK
  <2>3. CASE k # To[r]
    <3>1. WritersOf(k)' = WritersOf(k) /\ status'[k] = status[k]
      BY <2>1, <2>3, Addressed DEF TypeOK, WritersOf
    <3> QED BY <1>0, <2>1, <3>1
  <2> QED BY <2>2, <2>3
<1>2. ASSUME NEW r \in Requests, MarkError(r) \/ EndTurn(r) PROVE Goal
  <2>1. /\ Live(r) /\ r \notin WritersOf(k)
        /\ WritersOf(k)' \subseteq WritersOf(k)
        /\ \A j \in Sessions : j # To[r] => status'[j] = status[j]
        /\ UNCHANGED <<compacting, snapshot, transcript>>
    BY <1>2 DEF MarkError, EndTurn, Move, TypeOK, Live, WritersOf, mailVars, compactVars
  <2>2. k = To[r] => WritersOf(k) = {}
    BY <2>1 DEF QueueInv, Live, WritersOf
  <2> QED BY <1>0, <2>1, <2>2
<1>3. ASSUME NEW r \in Requests, RequestStep(r), ~BeginTurn(r), ~MarkError(r), ~EndTurn(r)
      PROVE  Goal
  <2>1. status' = status /\ WritersOf(k)' \subseteq WritersOf(k)
    BY <1>3, InsideTheBracket DEF WritersOf
  <2>2. /\ compacting' = compacting /\ snapshot' = snapshot
        /\ transcript'[k] = transcript[k] \/ WritersOf(k) # {}
    BY <1>3, OnlyWritersWrite
  <2> QED BY <1>0, <2>1, <2>2
<1>4. ASSUME NEW m \in Notes, Deliver(m) \/ QueuePending(m) PROVE Goal
  <2>1. UNCHANGED <<pc, status, compacting, snapshot, transcript>>
    BY <1>4 DEF Deliver, QueuePending, queueVars, turnVars, compactVars
  <2>2. WritersOf(k)' = WritersOf(k)  BY <2>1 DEF WritersOf
  <2> QED BY <1>0, <2>1, <2>2
<1>5. ASSUME NEW j \in Sessions, Control(j) PROVE Goal
  <2>1. pc' = pc
    BY <1>5, OtherStepsKeepPc DEF queueVars
  <2>2. WritersOf(k)' = WritersOf(k)  BY <2>1 DEF WritersOf
  <2>3. CASE Interrupt(j)
    <3>1. j # k /\ UNCHANGED <<compacting, snapshot, transcript>> /\ status'[k] = status[k]
      BY <2>3 DEF Interrupt, mailVars, compactVars, TypeOK
    <3> QED BY <1>0, <2>2, <3>1
  <2>4. CASE Stop(j)
    <3>1. j # k /\ UNCHANGED <<compacting, snapshot, transcript>> /\ status'[k] = status[k]
      BY <2>4 DEF Stop, mailVars, compactVars, TypeOK
    <3> QED BY <1>0, <2>2, <3>1
  <2>5. CASE CompactBegin(j)
    <3>1. UNCHANGED <<status, transcript>>
      BY <2>5 DEF CompactBegin, turnVars, mailVars
    <3>2. CASE j = k
      <4>1. status[k] # "running" /\ snapshot'[k] = transcript[k]
        BY <2>5, <3>2 DEF CompactBegin, TypeOK
      <4> QED BY <1>0, <2>2, <3>1, <4>1
    <3>3. CASE j # k
      <4>1. compacting'[k] = compacting[k] /\ snapshot'[k] = snapshot[k]
        BY <2>5, <3>3 DEF CompactBegin, TypeOK
      <4> QED BY <1>0, <2>2, <3>1, <4>1
    <3> QED BY <3>2, <3>3
  <2>6. CASE CompactEnd(j)
    <3>1. UNCHANGED status
      BY <2>6 DEF CompactEnd, turnVars
    <3>2. CASE j = k
      <4>1. ~compacting'[k]
        BY <2>6, <3>2 DEF CompactEnd, TypeOK
      <4> QED BY <1>0, <2>2, <3>1, <4>1
    <3>3. CASE j # k
      <4>1. /\ compacting'[k] = compacting[k] /\ snapshot'[k] = snapshot[k]
            /\ transcript'[k] = transcript[k]
        BY <2>6, <3>3 DEF CompactEnd, TypeOK
      <4> QED BY <1>0, <2>2, <3>1, <4>1
    <3> QED BY <3>2, <3>3
  <2> QED BY <1>5, <2>3, <2>4, <2>5, <2>6 DEF Control
<1>6. CASE UNCHANGED vars
  BY <1>0, <1>6 DEF vars, WritersOf
<1> QED BY <1>1, <1>2, <1>3, <1>4, <1>5, <1>6 DEF Next

\* While RunTurn writes the conversation of a session nobody interrupts, the
\* session reads running, and the conversation a compaction of it is working on
\* is the one it started from.
THEOREM WritersAreAlone == Spec => []WriterInv
  BY WriterInit, WriterStep, QueueCorrect, TypeCorrect, PTL DEF Spec

\* The refusal in handleBridgeCompact is enough as long as nobody interrupts.
THEOREM CompactionIsExclusive == Spec => []CompactionExcludesUninterruptedTurn
<1>1. WriterInv => CompactionExcludesUninterruptedTurn
  BY DEF WriterInv, CompactionExcludesUninterruptedTurn
<1> QED BY <1>1, WritersAreAlone, PTL

\* One turn at a time writes a conversation, and no compaction beside it unless
\* somebody interrupts: Queue.Enqueue and the refusal in handleBridgeCompact.
THEOREM OneWriterAtATime == Spec => []TurnsAreSerialized
<1>1. OneTurnPerSession /\ CompactionExcludesUninterruptedTurn => TurnsAreSerialized
  BY DEF TurnsAreSerialized
<1> QED BY <1>1, SerializedTurns, CompactionIsExclusive, PTL

-----------------------------------------------------------------------------
(* Messages stay with the session they were sent to.                       *)

\* No queue holds a message before the first one is sent.
LEMMA AddressInit == Init => AddressInv
  BY RangeOfEmpty DEF Init, AddressInv

\* A request moves messages of its own session only.
LEMMA RequestStepKeepsAddresses ==
  ASSUME TypeOK, AddressInv, NEW r \in Requests, RequestStep(r)
  PROVE  AddressInv'
<1> USE Addressed, RangeOfEmpty
    DEF TypeOK, AddressInv, mailVars, compactVars
<1> DEFINE k == To[r]
<1>1. CASE InjectIfBusy(r)
  <2>1. channel' = [channel EXCEPT ![k] = Append(channel[k], r)]
    BY <1>1 DEF InjectIfBusy, Offer
  <2>2. Range(Append(channel[k], r)) = Range(channel[k]) \cup {r}
    BY RangeOfAppend
  <2> QED BY <1>1, <2>1, <2>2 DEF InjectIfBusy
<1>2. CASE BeginTurn(r)
  <2>1. /\ input' = [input EXCEPT ![r] = Append(pending[k], r)]
        /\ pending' = [pending EXCEPT ![k] = <<>>]
    BY <1>2 DEF BeginTurn
  <2>2. Range(Append(pending[k], r)) = Range(pending[k]) \cup {r}
    BY RangeOfAppend
  <2>3. UNCHANGED <<channel, transcript, compacting, snapshot>>
    BY <1>2 DEF BeginTurn
  <2>4. \A q \in Requests : \A m \in Range(input'[q]) : To[m] = To[q]
    BY <2>1, <2>2
  <2>5. \A j \in Sessions : \A m \in Range(pending'[j]) : To[m] = j
    BY <2>1
  <2> QED BY <2>3, <2>4, <2>5
<1>3. CASE GuardRefuses(r)  BY <1>3 DEF GuardRefuses
<1>4. CASE PrepareInput(r)
  <2>1. /\ transcript' = [transcript EXCEPT ![k] = transcript[k] \o input[r]]
        /\ input' = [input EXCEPT ![r] = <<>>]
    BY <1>4 DEF PrepareInput
  <2>2. Range(transcript[k] \o input[r]) = Range(transcript[k]) \cup Range(input[r])
    BY RangeOfConcat
  <2>3. UNCHANGED <<channel, pending, compacting, snapshot>>
    BY <1>4 DEF PrepareInput
  <2>4. \A q \in Requests : \A m \in Range(input'[q]) : To[m] = To[q]
    BY <2>1
  <2>5. \A j \in Sessions : \A m \in Range(transcript'[j]) : To[m] = j
    BY <2>1, <2>2
  <2> QED BY <2>3, <2>4, <2>5
<1>5. CASE CallModel(r)
  <2>1. CASE calls[r] > 0 /\ r \in Readers
    <3>1. /\ transcript' = [transcript EXCEPT ![k] = transcript[k] \o channel[k]]
          /\ channel' = [channel EXCEPT ![k] = <<>>]
      BY <1>5, <2>1 DEF CallModel
    <3>2. Range(transcript[k] \o channel[k]) = Range(transcript[k]) \cup Range(channel[k])
      BY RangeOfConcat
    <3>3. UNCHANGED <<input, pending, compacting, snapshot>>
      BY <1>5 DEF CallModel
    <3>4. \A j \in Sessions : \A m \in Range(transcript'[j]) \cup Range(channel'[j]) : To[m] = j
      BY <3>1, <3>2
    <3> QED BY <3>3, <3>4
  <2>2. CASE ~(calls[r] > 0 /\ r \in Readers)
    BY <1>5, <2>2 DEF CallModel
  <2> QED BY <2>1, <2>2
<1>6. CASE EndTurn(r)
  <2>1. /\ pending' = [pending EXCEPT ![k] = pending[k] \o channel[k]]
        /\ channel' = [channel EXCEPT ![k] = <<>>]
    BY <1>6 DEF EndTurn
  <2>2. Range(pending[k] \o channel[k]) = Range(pending[k]) \cup Range(channel[k])
    BY RangeOfConcat
  <2>3. UNCHANGED <<input, transcript, compacting, snapshot>>
    BY <1>6 DEF EndTurn, compactVars
  <2>4. \A j \in Sessions : \A m \in Range(pending'[j]) \cup Range(channel'[j]) : To[m] = j
    BY <2>1, <2>2
  <2> QED BY <2>3, <2>4
<1>7. CASE UNCHANGED <<mailVars, compactVars>>  BY <1>7
<1> QED
  BY <1>1, <1>2, <1>3, <1>4, <1>5, <1>6, <1>7 DEF RequestStep, Progress,
     GoToQueue, GiveUp, TimeOut, AcquireLock, AcquireSlot, NoSession, StopTurn,
     PromptFails, ModelAnswers, MarkError, ReleaseSlot, ReleaseLock

\* A delivery puts a message into the queues of the session it is for.
LEMMA NoteStepKeepsAddresses ==
  ASSUME TypeOK, AddressInv, NEW m \in Notes, Deliver(m) \/ QueuePending(m)
  PROVE  AddressInv'
<1> USE Addressed DEF TypeOK, AddressInv
<1> DEFINE k == To[m]
<1>1. UNCHANGED <<input, transcript, compacting, snapshot>>
  BY DEF Deliver, QueuePending, compactVars
<1>2. CASE Offer(k, m) /\ UNCHANGED pending
  <2>1. channel' = [channel EXCEPT ![k] = Append(channel[k], m)]
    BY <1>2 DEF Offer
  <2>2. Range(Append(channel[k], m)) = Range(channel[k]) \cup {m}
    BY RangeOfAppend
  <2> QED BY <1>1, <1>2, <2>1, <2>2
<1>3. CASE Queue(k, m) /\ UNCHANGED channel
  <2>1. pending' = [pending EXCEPT ![k] = Append(pending[k], m)]
    BY <1>3 DEF Queue
  <2>2. Range(Append(pending[k], m)) = Range(pending[k]) \cup {m}
    BY RangeOfAppend
  <2> QED BY <1>1, <1>3, <2>1, <2>2
<1> QED BY <1>2, <1>3 DEF Deliver, QueuePending

\* interrupt and stop move no message; a compaction moves its own session's.
LEMMA ControlKeepsAddresses ==
  ASSUME TypeOK, AddressInv, NEW k \in Sessions, Control(k)
  PROVE  AddressInv'
<1> USE RangeOfEmpty DEF TypeOK, AddressInv, mailVars, compactVars
<1>1. CASE Interrupt(k)    BY <1>1 DEF Interrupt
<1>2. CASE Stop(k)         BY <1>2 DEF Stop
<1>3. CASE CompactBegin(k) BY <1>3 DEF CompactBegin
<1>4. CASE CompactEnd(k)
  <2>1. PICK written \in {snapshot[k], transcript[k]} :
          transcript' = [transcript EXCEPT ![k] = written]
    BY <1>4 DEF CompactEnd
  <2> QED BY <1>4, <2>1 DEF CompactEnd
<1> QED BY <1>1, <1>2, <1>3, <1>4 DEF Control

\* AddressInv is inductive relative to TypeOK.
LEMMA AddressStep == TypeOK /\ AddressInv /\ [Next]_vars => AddressInv'
<1> SUFFICES ASSUME TypeOK, AddressInv, [Next]_vars PROVE AddressInv'
  OBVIOUS
<1>1. CASE UNCHANGED vars
  BY <1>1 DEF vars, AddressInv
<1> QED
  BY <1>1, RequestStepKeepsAddresses, NoteStepKeepsAddresses, ControlKeepsAddresses DEF Next

\* A message never reaches the conversation, the queues or a turn of a session
\* it was not sent to.
THEOREM MessagesKeepTheirAddress == Spec => []AddressInv
  BY AddressInit, AddressStep, TypeCorrect, PTL DEF Spec

\* A step that loses a message is a guard's refusal on a capped session or the
\* end of a compaction an interrupt let in.
LEMMA LossStep ==
  TypeOK /\ WriterInv /\ AddressInv /\ LossNeedsACause /\ [Next]_vars => LossNeedsACause'
<1> SUFFICES ASSUME TypeOK, WriterInv, AddressInv, LossNeedsACause, [Next]_vars,
                    NEW m \in dropped', m \notin dropped
             PROVE  To[m] \in Capped \/ To[m] \in Interruptible \cap Compactable
  BY DEF LossNeedsACause
<1>1. ASSUME NEW r \in Requests, RequestStep(r)
      PROVE  To[m] \in Capped
  <2>1. GuardRefuses(r)
    BY <1>1 DEF RequestStep, Progress, InjectIfBusy, GoToQueue, GiveUp, TimeOut,
       AcquireLock, AcquireSlot, NoSession, BeginTurn, PrepareInput, StopTurn,
       PromptFails, CallModel, ModelAnswers, MarkError, EndTurn, ReleaseSlot,
       ReleaseLock, history
  <2>2. m \in Range(input[r]) /\ To[r] \in Capped
    BY <2>1 DEF GuardRefuses
  <2> QED BY <2>2 DEF AddressInv
<1>2. ASSUME NEW n \in Notes, Deliver(n) \/ QueuePending(n) PROVE FALSE
  BY <1>2 DEF Deliver, QueuePending
<1>3. ASSUME NEW k \in Sessions, Control(k)
      PROVE  To[m] \in Interruptible \cap Compactable
  <2>1. CompactEnd(k)
    BY <1>3 DEF Control, Interrupt, Stop, CompactBegin, history
  <2>2. PICK written \in {snapshot[k], transcript[k]} :
          dropped' = dropped \cup (Range(transcript[k]) \ Range(written))
    BY <2>1 DEF CompactEnd
  <2>3. m \in Range(transcript[k]) /\ snapshot[k] # transcript[k]
    BY <2>2
  <2>4. compacting[k] /\ k \in Interruptible
    BY <2>1, <2>3 DEF CompactEnd, WriterInv
  <2> QED BY <2>3, <2>4 DEF AddressInv
<1>4. CASE UNCHANGED vars  BY <1>4 DEF vars
<1> QED BY <1>1, <1>2, <1>3, <1>4 DEF Next

\* Whatever turns, deliveries, overflows, failures and cancellations happen, a
\* message the session took is lost only to a guard's refusal, or where an
\* interrupt let a compaction in beside a turn.
THEOREM LossesHaveACause == Spec => []LossNeedsACause
<1>1. Init => LossNeedsACause
  BY DEF Init, LossNeedsACause
<1> QED BY <1>1, LossStep, TypeCorrect, WritersAreAlone, MessagesKeepTheirAddress, PTL DEF Spec

-----------------------------------------------------------------------------
(* Sequences without repetition, prefixes and order.                       *)

\* The shape of a queue after one more message.
LEMMA AppendFacts ==
  ASSUME NEW T, NEW s \in Seq(T), NEW m \in T
  PROVE  /\ Append(s, m) \in Seq(T) /\ Len(s) \in Nat
         /\ DOMAIN s = 1..Len(s) /\ DOMAIN Append(s, m) = 1..(Len(s) + 1)
         /\ \A i \in 1..Len(s) : Append(s, m)[i] = s[i]
         /\ Append(s, m)[Len(s) + 1] = m
  OBVIOUS

\* The shape of a queue with another one behind it.
LEMMA ConcatFacts ==
  ASSUME NEW T, NEW s \in Seq(T), NEW t \in Seq(T)
  PROVE  /\ s \o t \in Seq(T) /\ Len(s) \in Nat /\ Len(t) \in Nat
         /\ DOMAIN s = 1..Len(s) /\ DOMAIN t = 1..Len(t)
         /\ DOMAIN (s \o t) = 1..(Len(s) + Len(t))
         /\ \A i \in 1..Len(s) : (s \o t)[i] = s[i]
         /\ \A i \in 1..Len(t) : (s \o t)[Len(s) + i] = t[i]
  OBVIOUS

\* A new message makes no repetition.
LEMMA InjectiveAppend ==
  ASSUME NEW T, NEW s \in Seq(T), NEW m \in T, IsInjective(s), m \notin Range(s)
  PROVE  IsInjective(Append(s, m))
<1>1. /\ Len(s) \in Nat
      /\ DOMAIN s = 1..Len(s) /\ DOMAIN Append(s, m) = 1..(Len(s) + 1)
      /\ \A i \in 1..Len(s) : Append(s, m)[i] = s[i] /\ s[i] # m
      /\ Append(s, m)[Len(s) + 1] = m
  BY AppendFacts DEF Range
<1>2. \A i \in 1..(Len(s) + 1) : i \in 1..Len(s) \/ i = Len(s) + 1
  BY <1>1
<1>3. \A i, j \in 1..Len(s) : s[i] = s[j] => i = j
  BY <1>1 DEF IsInjective
<1> QED BY <1>1, <1>2, <1>3 DEF IsInjective

\* Two queues that share no message make one without repetition.
LEMMA InjectiveConcat ==
  ASSUME NEW T, NEW s \in Seq(T), NEW t \in Seq(T), IsInjective(s), IsInjective(t),
         Range(s) \cap Range(t) = {}
  PROVE  IsInjective(s \o t)
<1> DEFINE n == Len(s)
           p == Len(t)
<1>1. /\ n \in Nat /\ p \in Nat /\ DOMAIN s = 1..n /\ DOMAIN t = 1..p
      /\ DOMAIN (s \o t) = 1..(n + p)
      /\ \A i \in 1..n : (s \o t)[i] = s[i]
      /\ \A i \in 1..p : (s \o t)[n + i] = t[i]
  BY ConcatFacts
<1>2. \A i \in 1..(n + p) : i \in 1..n \/ (i - n \in 1..p /\ n + (i - n) = i)
  BY <1>1
<1>3. \A i \in 1..n, j \in 1..p : s[i] # t[j]
  BY <1>1 DEF Range
<1> HIDE DEF n, p
<1>4. SUFFICES ASSUME NEW i \in 1..(n + p), NEW j \in 1..(n + p), (s \o t)[i] = (s \o t)[j]
               PROVE  i = j
  BY <1>1 DEF IsInjective
<1>5. CASE i \in 1..n /\ j \in 1..n
  BY <1>1, <1>4, <1>5 DEF IsInjective
<1>6. CASE i \in 1..n /\ j \notin 1..n
  <2>1. j - n \in 1..p /\ (s \o t)[j] = t[j - n]  BY <1>1, <1>2, <1>6
  <2> QED BY <1>1, <1>3, <1>4, <1>6, <2>1
<1>7. CASE i \notin 1..n /\ j \in 1..n
  <2>1. i - n \in 1..p /\ (s \o t)[i] = t[i - n]  BY <1>1, <1>2, <1>7
  <2> QED BY <1>1, <1>3, <1>4, <1>7, <2>1
<1>8. CASE i \notin 1..n /\ j \notin 1..n
  <2>1. /\ i - n \in 1..p /\ (s \o t)[i] = t[i - n]
        /\ j - n \in 1..p /\ (s \o t)[j] = t[j - n]
    BY <1>1, <1>2, <1>8
  <2>2. i - n = j - n  BY <1>1, <1>4, <2>1 DEF IsInjective
  <2> QED BY <1>1, <2>2
<1> QED BY <1>5, <1>6, <1>7, <1>8

\* What a compaction read and wrote back has no repetition, and nothing new.
LEMMA PrefixFacts ==
  ASSUME NEW T, NEW s \in Seq(T), NEW t \in Seq(T), IsPrefixOf(s, t), IsInjective(t)
  PROVE  IsInjective(s) /\ Range(s) \subseteq Range(t)
<1>1. Len(s) \in Nat /\ Len(t) \in Nat /\ DOMAIN s = 1..Len(s) /\ DOMAIN t = 1..Len(t)
  OBVIOUS
<1>2. \A i \in 1..Len(s) : i \in 1..Len(t) /\ s[i] = t[i]
  BY <1>1 DEF IsPrefixOf
<1> QED BY <1>1, <1>2 DEF IsInjective, Range

\* A conversation only gains a tail.
LEMMA PrefixOfConcat ==
  ASSUME NEW T, NEW s \in Seq(T), NEW t \in Seq(T), NEW u \in Seq(T), IsPrefixOf(s, t)
  PROVE  IsPrefixOf(s, t \o u)
<1>1. /\ Len(s) \in Nat /\ Len(t) \in Nat /\ Len(u) \in Nat
      /\ DOMAIN s = 1..Len(s) /\ DOMAIN t = 1..Len(t)
      /\ \A i \in 1..Len(t) : (t \o u)[i] = t[i]
      /\ Len(t \o u) = Len(t) + Len(u)
  BY ConcatFacts
<1> QED BY <1>1 DEF IsPrefixOf

\* An empty queue, and a conversation beside itself.
LEMMA EmptyAndSelf ==
  /\ IsInjective(<<>>)
  /\ \A T : \A s \in Seq(T) : IsPrefixOf(s, s)
  BY DEF IsInjective, IsPrefixOf

\* Two messages in order in a queue are in it.
LEMMA BeforeIsIn ==
  ASSUME NEW s, NEW a, NEW b, Before(s, a, b)
  PROVE  a \in Range(s) /\ b \in Range(s)
  BY DEF Before, Range

\* One more message comes after all others.
LEMMA BeforeInAppend ==
  ASSUME NEW T, NEW s \in Seq(T), NEW m \in T, NEW a, NEW b,
         Before(s, a, b) \/ (a \in Range(s) /\ b = m)
  PROVE  Before(Append(s, m), a, b)
<1>1. /\ Len(s) \in Nat
      /\ DOMAIN s = 1..Len(s) /\ DOMAIN Append(s, m) = 1..(Len(s) + 1)
      /\ \A i \in 1..Len(s) : Append(s, m)[i] = s[i]
      /\ Append(s, m)[Len(s) + 1] = m
  BY AppendFacts
<1>2. CASE Before(s, a, b)
  BY <1>1, <1>2 DEF Before
<1>3. CASE a \in Range(s) /\ b = m
  <2>1. PICK i \in 1..Len(s) : s[i] = a  BY <1>1, <1>3 DEF Range
  <2>2. i < Len(s) + 1 /\ i \in 1..(Len(s) + 1) /\ Len(s) + 1 \in 1..(Len(s) + 1)
    BY <1>1, <2>1
  <2> QED BY <1>1, <1>3, <2>1, <2>2 DEF Before
<1> QED BY <1>2, <1>3

\* The queue in front keeps its order, the one behind it too, and all of the
\* first comes before all of the second.
LEMMA BeforeInConcat ==
  ASSUME NEW T, NEW s \in Seq(T), NEW t \in Seq(T), NEW a, NEW b,
         \/ Before(s, a, b) \/ Before(t, a, b)
         \/ a \in Range(s) /\ b \in Range(t)
  PROVE  Before(s \o t, a, b)
<1> DEFINE n == Len(s)
           p == Len(t)
<1>1. /\ n \in Nat /\ p \in Nat /\ DOMAIN s = 1..n /\ DOMAIN t = 1..p
      /\ DOMAIN (s \o t) = 1..(n + p)
      /\ \A i \in 1..n : (s \o t)[i] = s[i]
      /\ \A i \in 1..p : (s \o t)[n + i] = t[i]
  BY ConcatFacts
<1> HIDE DEF n, p
<1>2. (\A i \in 1..n : i \in 1..(n + p)) /\ (\A i \in 1..p : n + i \in 1..(n + p))
  BY <1>1
<1>3. CASE Before(s, a, b)
  BY <1>1, <1>2, <1>3 DEF Before
<1>4. CASE Before(t, a, b)
  <2>1. PICK i, j \in 1..p : i < j /\ t[i] = a /\ t[j] = b
    BY <1>1, <1>4 DEF Before
  <2>2. n + i < n + j  BY <1>1, <2>1
  <2> QED BY <1>1, <1>2, <2>1, <2>2 DEF Before
<1>5. CASE a \in Range(s) /\ b \in Range(t)
  <2>1. PICK i \in 1..n : s[i] = a  BY <1>1, <1>5 DEF Range
  <2>2. PICK j \in 1..p : t[j] = b  BY <1>1, <1>5 DEF Range
  <2>3. i < n + j  BY <1>1, <2>1, <2>2
  <2> QED BY <1>1, <1>2, <2>1, <2>2, <2>3 DEF Before
<1> QED BY <1>3, <1>4, <1>5

\* What is left of a conversation keeps its order.
LEMMA BeforeInPrefix ==
  ASSUME NEW T, NEW s \in Seq(T), NEW t \in Seq(T), IsPrefixOf(s, t), IsInjective(t),
         NEW a, NEW b, Before(t, a, b), b \in Range(s)
  PROVE  Before(s, a, b)
<1>1. Len(s) \in Nat /\ Len(t) \in Nat /\ DOMAIN s = 1..Len(s) /\ DOMAIN t = 1..Len(t)
  OBVIOUS
<1>2. PICK i, j \in 1..Len(t) : i < j /\ t[i] = a /\ t[j] = b
  BY <1>1 DEF Before
<1>3. PICK l \in 1..Len(s) : s[l] = b
  BY <1>1 DEF Range
<1>4. \A x \in 1..Len(s) : x \in 1..Len(t) /\ s[x] = t[x]
  BY <1>1 DEF IsPrefixOf
<1>5. l = j
  BY <1>1, <1>2, <1>3, <1>4 DEF IsInjective
<1>6. i \in 1..Len(s) /\ s[i] = a
  BY <1>1, <1>2, <1>3, <1>4, <1>5
<1> QED BY <1>1, <1>2, <1>3, <1>5, <1>6 DEF Before

-----------------------------------------------------------------------------
(* Where the mail of a session changes.                                    *)

\* The messages a turn took and has not stored are in its own session only.
LEMMA InputsFacts ==
  /\ \A r \in Requests : Range(input[r]) \subseteq InputsOf(To[r])
  /\ \A k \in Sessions : \A m \in InputsOf(k) :
       \E r \in Requests : To[r] = k /\ m \in Range(input[r])
  BY DEF InputsOf

\* Whoever is past smu.Lock() in Enqueue is alone on its session: no other turn
\* of the session is in flight or has messages in hand.
LEMMA AloneOnSession ==
  ASSUME TypeOK, QueueInv, MailInv, NEW r \in Requests, pc[r] \in LockPcs
  PROVE  /\ LiveOn(To[r]) \subseteq {r}
         /\ \A q \in Requests \ {r} : To[q] = To[r] => input[q] = <<>>
         /\ InputsOf(To[r]) = Range(input[r])
<1>1. \A q \in Requests : pc[q] \in LockPcs /\ To[q] = To[r] => q = r
  <2> HIDE DEF LockPcs
  <2> QED BY DEF QueueInv
<1>2. LiveOn(To[r]) \subseteq {r}
  BY <1>1 DEF LiveOn, Live
<1>3. \A q \in Requests \ {r} : To[q] = To[r] => input[q] = <<>>
  BY <1>1 DEF MailInv
<1>4. InputsOf(To[r]) = Range(input[r])
  BY <1>3, RangeOfEmpty DEF InputsOf
<1> QED BY <1>2, <1>3, <1>4

\* A turn that is not between its begin and prepareInput has nothing in hand.
LEMMA EmptyHanded ==
  ASSUME MailInv, NEW r \in Requests, pc[r] # "entered"
  PROVE  input[r] = <<>> /\ Range(input[r]) = {}
  BY RangeOfEmpty DEF MailInv

\* What a session holds and nobody sent is nowhere.
LEMMA UnsentIsNowhere ==
  ASSUME MailInv, NEW k \in Sessions, NEW m, ~Sent(m)
  PROVE  m \notin Held(k) /\ m \notin dropped
  BY DEF MailInv

\* Once sent, always sent: goroutines never go back before their turn, and the
\* routes only grow.
LEMMA SentForRequests ==
  ASSUME TypeOK, NEW r \in Requests, RequestStep(r)
  PROVE  \A q \in Requests : Sent(q) => Sent(q)'
<1> USE DEF TypeOK, Move, Sent
<1>1. CASE InjectIfBusy(r)  BY <1>1 DEF InjectIfBusy
<1>2. CASE GoToQueue(r)     BY <1>2 DEF GoToQueue
<1>3. CASE GiveUp(r)        BY <1>3 DEF GiveUp
<1>4. CASE TimeOut(r)       BY <1>4 DEF TimeOut, queueVars
<1>5. CASE AcquireLock(r)   BY <1>5 DEF AcquireLock
<1>6. CASE AcquireSlot(r)   BY <1>6 DEF AcquireSlot
<1>7. CASE BeginTurn(r)     BY <1>7 DEF BeginTurn
<1>8. CASE GuardRefuses(r)  BY <1>8 DEF GuardRefuses
<1>9. CASE PrepareInput(r)  BY <1>9 DEF PrepareInput
<1>10. CASE StopTurn(r)     BY <1>10 DEF StopTurn
<1>11. CASE PromptFails(r)  BY <1>11 DEF PromptFails
<1>12. CASE CallModel(r)    BY <1>12 DEF CallModel
<1>13. CASE ModelAnswers(r) BY <1>13 DEF ModelAnswers
<1>14. CASE MarkError(r)    BY <1>14 DEF MarkError
<1>15. CASE EndTurn(r)      BY <1>15 DEF EndTurn
<1>16. CASE ReleaseSlot(r)  BY <1>16 DEF ReleaseSlot
<1>17. CASE ReleaseLock(r)  BY <1>17 DEF ReleaseLock
<1>18. CASE NoSession(r)    BY <1>18 DEF NoSession
<1> QED
  BY <1>1, <1>2, <1>3, <1>4, <1>5, <1>6, <1>7, <1>8, <1>9, <1>10, <1>11,
     <1>12, <1>13, <1>14, <1>15, <1>16, <1>17, <1>18 DEF RequestStep, Progress

\* A route that took one more message remembers it and all it took before.
LEMMA RoutesGrow ==
  ASSUME TypeOK, NEW k \in Sessions, NEW m \in Messages,
         \/ /\ midTurn' = [midTurn EXCEPT ![k] = Append(midTurn[k], m)]
            /\ nextTurn' = nextTurn
         \/ /\ nextTurn' = [nextTurn EXCEPT ![k] = Append(nextTurn[k], m)]
            /\ midTurn' = midTurn
  PROVE  /\ Accepted(k)' = Accepted(k) \cup {m}
         /\ \A j \in Sessions \ {k} : Accepted(j)' = Accepted(j)
<1>1. /\ Range(Append(midTurn[k], m)) = Range(midTurn[k]) \cup {m}
      /\ Range(Append(nextTurn[k], m)) = Range(nextTurn[k]) \cup {m}
  BY RangeOfAppend DEF TypeOK
<1> QED BY <1>1 DEF TypeOK, Accepted

\* Only the two deliveries and injectIfBusy add to a route.
LEMMA OthersLeaveRoutes ==
  /\ \A r \in Requests : RequestStep(r) /\ ~InjectIfBusy(r) => UNCHANGED <<midTurn, nextTurn>>
  /\ \A k \in Sessions : Control(k) => UNCHANGED <<midTurn, nextTurn>>
  BY DEF RequestStep, Progress, GoToQueue, GiveUp, TimeOut, AcquireLock,
     AcquireSlot, NoSession, BeginTurn, GuardRefuses, PrepareInput, StopTurn,
     PromptFails, CallModel, ModelAnswers, MarkError, EndTurn, ReleaseSlot,
     ReleaseLock, Control, Interrupt, Stop, CompactBegin, CompactEnd, history

\* A message that was sent stays sent.
LEMMA SentStays ==
  ASSUME TypeOK, Next, NEW m \in Messages, Sent(m)
  PROVE  Sent(m)'
<1> USE TurnsAssumption, Addressed
<1>1. CASE m \in Requests
  <2>1. ASSUME NEW r \in Requests, RequestStep(r) PROVE Sent(m)'
    BY <1>1, <2>1, SentForRequests
  <2>2. ASSUME pc' = pc PROVE Sent(m)'
    BY <1>1, <2>2 DEF Sent
  <2> QED BY <2>1, <2>2, OtherStepsKeepPc DEF Next, queueVars
<1>2. CASE m \notin Requests
  <2>0. m \in Accepted(To[m]) /\ To[m] \in Sessions
    BY <1>2 DEF Sent, Messages
  <2>1. SUFFICES m \in Accepted(To[m])'
    BY <1>2 DEF Sent
  <2>2. ASSUME NEW r \in Requests, RequestStep(r) PROVE m \in Accepted(To[m])'
    <3>1. CASE InjectIfBusy(r)
      <4>1. /\ midTurn' = [midTurn EXCEPT ![To[r]] = Append(midTurn[To[r]], r)]
            /\ nextTurn' = nextTurn
        BY <3>1 DEF InjectIfBusy, Offer
      <4>2. r \in Messages /\ To[r] \in Sessions
        OBVIOUS
      <4>3. \A j \in Sessions : Accepted(j) \subseteq Accepted(j)'
        BY <4>1, <4>2, RoutesGrow
      <4> QED BY <2>0, <4>3
    <3>2. CASE ~InjectIfBusy(r)
      BY <2>0, <2>2, <3>2, OthersLeaveRoutes DEF Accepted
    <3> QED BY <3>1, <3>2
  <2>3. ASSUME NEW n \in Notes, Deliver(n) \/ QueuePending(n) PROVE m \in Accepted(To[m])'
    <3>1. \/ /\ midTurn' = [midTurn EXCEPT ![To[n]] = Append(midTurn[To[n]], n)]
             /\ nextTurn' = nextTurn
          \/ /\ nextTurn' = [nextTurn EXCEPT ![To[n]] = Append(nextTurn[To[n]], n)]
             /\ midTurn' = midTurn
      BY <2>3 DEF Deliver, QueuePending, Offer, Queue
    <3>2. To[n] \in Sessions /\ n \in Messages  BY Addressed DEF Messages
    <3>3. /\ Accepted(To[n])' = Accepted(To[n]) \cup {n}
          /\ \A j \in Sessions \ {To[n]} : Accepted(j)' = Accepted(j)
      <4> HIDE DEF TypeOK, Accepted
      <4> QED BY <3>1, <3>2, RoutesGrow
    <3> HIDE DEF TypeOK, Accepted
    <3> QED BY <2>0, <3>3
  <2>4. ASSUME NEW k \in Sessions, Control(k) PROVE m \in Accepted(To[m])'
    BY <2>0, <2>4, OthersLeaveRoutes DEF Accepted
  <2> QED BY <2>2, <2>3, <2>4 DEF Next
<1> QED BY <1>1, <1>2

-----------------------------------------------------------------------------
(* What each step that moves mail does to it.                              *)

\* The mail of session j is as it was.
Untouched(j) ==
  /\ transcript'[j] = transcript[j] /\ pending'[j] = pending[j] /\ channel'[j] = channel[j]
  /\ InputsOf(j)' = InputsOf(j)
  /\ \A q \in Requests : To[q] = j => input'[q] = input[q]

\* A request that changes its own mail touches no other session's.
LEMMA OnlyOwnMail ==
  ASSUME TypeOK, NEW r \in Requests, RequestStep(r), NEW j \in Sessions, j # To[r]
  PROVE  /\ Untouched(j) /\ midTurn'[j] = midTurn[j] /\ nextTurn'[j] = nextTurn[j]
         /\ LiveOn(j)' = LiveOn(j)
         /\ compacting' = compacting /\ snapshot' = snapshot
<1> USE Addressed DEF TypeOK, Move, mailVars, compactVars, history, queueVars
<1>1. /\ transcript'[j] = transcript[j] /\ pending'[j] = pending[j] /\ channel'[j] = channel[j]
      /\ \A q \in Requests \ {r} : input'[q] = input[q]
      /\ midTurn'[j] = midTurn[j] /\ nextTurn'[j] = nextTurn[j]
      /\ compacting' = compacting /\ snapshot' = snapshot
  <2>1. CASE InjectIfBusy(r)  BY <2>1 DEF InjectIfBusy, Offer
  <2>2. CASE BeginTurn(r)     BY <2>2 DEF BeginTurn
  <2>3. CASE GuardRefuses(r)  BY <2>3 DEF GuardRefuses
  <2>4. CASE PrepareInput(r)  BY <2>4 DEF PrepareInput
  <2>5. CASE CallModel(r)     BY <2>5 DEF CallModel
  <2>6. CASE EndTurn(r)       BY <2>6 DEF EndTurn
  <2>7. CASE UNCHANGED <<mailVars, compactVars, history>>  BY <2>7
  <2> QED
    BY <2>1, <2>2, <2>3, <2>4, <2>5, <2>6, <2>7 DEF RequestStep, Progress,
       GoToQueue, GiveUp, TimeOut, AcquireLock, AcquireSlot, NoSession, StopTurn,
       PromptFails, ModelAnswers, MarkError, ReleaseSlot, ReleaseLock
<1>2. \A q \in Requests \ {r} : pc'[q] = pc[q]
  BY DEF RequestStep, Progress, InjectIfBusy, GoToQueue, GiveUp, TimeOut, AcquireLock,
     AcquireSlot, NoSession, BeginTurn, GuardRefuses, PrepareInput, StopTurn,
     PromptFails, CallModel, ModelAnswers, MarkError, EndTurn, ReleaseSlot, ReleaseLock
<1>3. \A q \in Requests : To[q] = j => input'[q] = input[q]
  BY <1>1
<1>4. InputsOf(j)' = InputsOf(j)
  <2>1. /\ \A m : m \in InputsOf(j) <=> \E q \in Requests : To[q] = j /\ m \in Range(input[q])
        /\ \A m : m \in InputsOf(j)' <=> \E q \in Requests : To[q] = j /\ m \in Range(input'[q])
    <3>1. \A m : m \in InputsOf(j) <=> \E q \in Requests : To[q] = j /\ m \in Range(input[q])
      BY DEF InputsOf
    <3>2. \A m : m \in InputsOf(j)' <=> \E q \in Requests : To[q] = j /\ m \in Range(input'[q])
      BY DEF InputsOf
    <3> QED BY <3>1, <3>2
  <2> QED BY <1>3, <2>1
<1>5. LiveOn(j)' = LiveOn(j)
  BY <1>2 DEF LiveOn, Live
<1> QED BY <1>1, <1>3, <1>4, <1>5 DEF Untouched

\* injectIfBusy and deliver, when the turn in flight takes the message.
LEMMA OfferShape ==
  ASSUME TypeOK, NEW k \in Sessions, NEW m \in Messages, Offer(k, m),
         UNCHANGED <<pending, input, transcript, nextTurn>>
  PROVE  /\ channel'[k] = Append(channel[k], m)
         /\ Range(channel'[k]) = Range(channel[k]) \cup {m}
         /\ midTurn'[k] = Append(midTurn[k], m)
         /\ Held(k)' = Held(k) \cup {m} /\ InputsOf(k)' = InputsOf(k)
         /\ \A j \in Sessions \ {k} : Untouched(j) /\ midTurn'[j] = midTurn[j]
<1>1. /\ channel' = [channel EXCEPT ![k] = Append(channel[k], m)]
      /\ midTurn' = [midTurn EXCEPT ![k] = Append(midTurn[k], m)]
  BY DEF Offer
<1>2. channel'[k] = Append(channel[k], m) /\ midTurn'[k] = Append(midTurn[k], m)
  BY <1>1 DEF TypeOK
<1>3. Range(Append(channel[k], m)) = Range(channel[k]) \cup {m}
  BY RangeOfAppend DEF TypeOK
<1>4. \A j \in Sessions : InputsOf(j)' = InputsOf(j)
  BY DEF InputsOf
<1>5. Held(k)' = Held(k) \cup {m}
  BY <1>2, <1>3, <1>4 DEF Held
<1>6. \A j \in Sessions \ {k} : channel'[j] = channel[j] /\ midTurn'[j] = midTurn[j]
  BY <1>1 DEF TypeOK
<1> QED BY <1>2, <1>3, <1>4, <1>5, <1>6 DEF Untouched

\* deliver and queuePending, when the message waits for the next turn.
LEMMA QueueShape ==
  ASSUME TypeOK, NEW k \in Sessions, NEW m \in Messages, Queue(k, m),
         UNCHANGED <<channel, input, transcript, midTurn>>
  PROVE  /\ pending'[k] = Append(pending[k], m)
         /\ Range(pending'[k]) = Range(pending[k]) \cup {m}
         /\ nextTurn'[k] = Append(nextTurn[k], m)
         /\ Held(k)' = Held(k) \cup {m} /\ InputsOf(k)' = InputsOf(k)
         /\ \A j \in Sessions \ {k} : Untouched(j) /\ nextTurn'[j] = nextTurn[j]
<1>1. /\ pending' = [pending EXCEPT ![k] = Append(pending[k], m)]
      /\ nextTurn' = [nextTurn EXCEPT ![k] = Append(nextTurn[k], m)]
  BY DEF Queue
<1>2. pending'[k] = Append(pending[k], m) /\ nextTurn'[k] = Append(nextTurn[k], m)
  BY <1>1 DEF TypeOK
<1>3. Range(Append(pending[k], m)) = Range(pending[k]) \cup {m}
  BY RangeOfAppend DEF TypeOK
<1>4. \A j \in Sessions : InputsOf(j)' = InputsOf(j)
  BY DEF InputsOf
<1>5. Held(k)' = Held(k) \cup {m}
  BY <1>2, <1>3, <1>4 DEF Held
<1>6. \A j \in Sessions \ {k} : pending'[j] = pending[j] /\ nextTurn'[j] = nextTurn[j]
  BY <1>1 DEF TypeOK
<1> QED BY <1>2, <1>3, <1>4, <1>5, <1>6 DEF Untouched

\* The first hold of Session.mu moves the pending queue and the request's own
\* message into the turn's hand.
LEMMA BeginTurnShape ==
  ASSUME TypeOK, QueueInv, MailInv, NEW r \in Requests, BeginTurn(r), NEW k, k = To[r]
  PROVE  /\ InputsOf(k) = {} /\ InputsOf(k)' = Range(pending[k]) \cup {r}
         /\ input'[r] = Append(pending[k], r) /\ pending'[k] = <<>>
         /\ transcript' = transcript /\ channel' = channel
         /\ Range(pending'[k]) = {} /\ Held(k)' = Held(k) \cup {r}
<1> USE Addressed DEF TypeOK
<1>1. /\ input' = [input EXCEPT ![r] = Append(pending[k], r)]
      /\ pending' = [pending EXCEPT ![k] = <<>>]
      /\ transcript' = transcript /\ channel' = channel /\ pc[r] = "working"
  BY DEF BeginTurn, Move
<1>2. /\ \A q \in Requests \ {r} : To[q] = k => input[q] = <<>>
      /\ InputsOf(k) = Range(input[r])
  BY <1>1, AloneOnSession
<1>3. Range(input[r]) = {}
  BY <1>1, EmptyHanded
<1>4. /\ input'[r] = Append(pending[k], r) /\ pending'[k] = <<>>
      /\ \A q \in Requests \ {r} : input'[q] = input[q]
  BY <1>1
<1>5. Range(Append(pending[k], r)) = Range(pending[k]) \cup {r}
  BY RangeOfAppend
<1>6. InputsOf(k)' = Range(pending[k]) \cup {r}
  <2>1. \A m : m \in InputsOf(k)' <=> \E q \in Requests : To[q] = k /\ m \in Range(input'[q])
    BY DEF InputsOf
  <2>2. \A q \in Requests \ {r} : To[q] = k => Range(input'[q]) = {}
    BY <1>2, <1>4, RangeOfEmpty
  <2> QED BY <1>4, <1>5, <2>1, <2>2
<1>7. Held(k)' = Held(k) \cup {r}
  BY <1>1, <1>2, <1>3, <1>4, <1>6, RangeOfEmpty DEF Held
<1> QED BY <1>1, <1>2, <1>3, <1>4, <1>6, <1>7, RangeOfEmpty

\* A turn puts down what it has in hand: refused by the guard, or stored.
LEMMA HandsEmptied ==
  ASSUME TypeOK, QueueInv, MailInv, NEW r \in Requests, pc[r] = "entered",
         input' = [input EXCEPT ![r] = <<>>]
  PROVE  /\ InputsOf(To[r]) = Range(input[r]) /\ InputsOf(To[r])' = {}
         /\ \A q \in Requests : To[q] = To[r] => input'[q] = <<>>
<1>1. /\ \A q \in Requests \ {r} : To[q] = To[r] => input[q] = <<>>
      /\ InputsOf(To[r]) = Range(input[r])
  BY AloneOnSession
<1>2. \A q \in Requests : To[q] = To[r] => input'[q] = <<>>
  BY <1>1 DEF TypeOK
<1> QED BY <1>1, <1>2, RangeOfEmpty DEF InputsOf

\* prepareInput appends what the turn has in hand to the conversation.
LEMMA PrepareInputShape ==
  ASSUME TypeOK, QueueInv, MailInv, NEW r \in Requests, PrepareInput(r), NEW k, k = To[r]
  PROVE  /\ InputsOf(k) = Range(input[r]) /\ InputsOf(k)' = {}
         /\ transcript'[k] = transcript[k] \o input[r]
         /\ Range(transcript'[k]) = Range(transcript[k]) \cup Range(input[r])
         /\ pending' = pending /\ channel' = channel
         /\ Held(k)' = Held(k)
<1> USE Addressed DEF TypeOK
<1>1. /\ transcript' = [transcript EXCEPT ![k] = transcript[k] \o input[r]]
      /\ input' = [input EXCEPT ![r] = <<>>] /\ pc[r] = "entered"
      /\ pending' = pending /\ channel' = channel
  BY DEF PrepareInput, Move
<1>2. InputsOf(k) = Range(input[r]) /\ InputsOf(k)' = {}
  BY <1>1, HandsEmptied
<1>3. transcript'[k] = transcript[k] \o input[r]
  BY <1>1
<1>4. Range(transcript[k] \o input[r]) = Range(transcript[k]) \cup Range(input[r])
  BY RangeOfConcat
<1>5. Held(k)' = Held(k)
  BY <1>1, <1>2, <1>3, <1>4 DEF Held
<1> QED BY <1>1, <1>2, <1>3, <1>4, <1>5

\* Agent.Run drains the channel into the conversation.
Drains(r) == CallModel(r) /\ calls[r] > 0 /\ r \in Readers

\* A drain moves the whole channel, and the turn has nothing else in hand.
LEMMA DrainShape ==
  ASSUME TypeOK, QueueInv, MailInv, NEW r \in Requests, Drains(r), NEW k, k = To[r]
  PROVE  /\ InputsOf(k) = {} /\ InputsOf(k)' = {}
         /\ transcript'[k] = transcript[k] \o channel[k] /\ channel'[k] = <<>>
         /\ Range(transcript'[k]) = Range(transcript[k]) \cup Range(channel[k])
         /\ pending' = pending /\ Range(channel'[k]) = {} /\ input' = input
         /\ Held(k)' = Held(k)
<1> USE Addressed DEF TypeOK
<1>1. /\ transcript' = [transcript EXCEPT ![k] = transcript[k] \o channel[k]]
      /\ channel' = [channel EXCEPT ![k] = <<>>]
      /\ pending' = pending /\ input' = input /\ pc[r] = "looping"
  BY DEF Drains, CallModel, Move
<1>2. InputsOf(k) = {}
  BY <1>1, AloneOnSession, EmptyHanded
<1>3. InputsOf(k)' = InputsOf(k)
  BY <1>1 DEF InputsOf
<1>4. transcript'[k] = transcript[k] \o channel[k] /\ channel'[k] = <<>>
  BY <1>1
<1>5. Range(transcript[k] \o channel[k]) = Range(transcript[k]) \cup Range(channel[k])
  BY RangeOfConcat
<1>6. Held(k)' = Held(k)
  BY <1>1, <1>2, <1>3, <1>4, <1>5, RangeOfEmpty DEF Held
<1> QED BY <1>1, <1>2, <1>3, <1>4, <1>5, <1>6, RangeOfEmpty

\* requeueInjectionsTheTurnNeverReadLocked puts the channel behind the pending
\* queue.
LEMMA EndTurnShape ==
  ASSUME TypeOK, QueueInv, MailInv, NEW r \in Requests, EndTurn(r), NEW k, k = To[r]
  PROVE  /\ InputsOf(k) = {} /\ InputsOf(k)' = {}
         /\ pending'[k] = pending[k] \o channel[k] /\ channel'[k] = <<>>
         /\ Range(pending'[k]) = Range(pending[k]) \cup Range(channel[k])
         /\ transcript' = transcript /\ Range(channel'[k]) = {} /\ input' = input
         /\ Held(k)' = Held(k) /\ LiveOn(k)' = {}
<1> USE Addressed DEF TypeOK
<1>1. /\ pending' = [pending EXCEPT ![k] = pending[k] \o channel[k]]
      /\ channel' = [channel EXCEPT ![k] = <<>>]
      /\ transcript' = transcript /\ input' = input /\ pc[r] = "finished"
      /\ pc' = [pc EXCEPT ![r] = "settling"]
  BY DEF EndTurn, Move
<1>2. InputsOf(k) = {} /\ LiveOn(k) \subseteq {r}
  BY <1>1, AloneOnSession, EmptyHanded
<1>3. InputsOf(k)' = InputsOf(k)
  BY <1>1 DEF InputsOf
<1>4. pending'[k] = pending[k] \o channel[k] /\ channel'[k] = <<>>
  BY <1>1
<1>5. Range(pending[k] \o channel[k]) = Range(pending[k]) \cup Range(channel[k])
  BY RangeOfConcat
<1>6. Held(k)' = Held(k)
  BY <1>1, <1>2, <1>3, <1>4, <1>5, RangeOfEmpty DEF Held
<1>7. LiveOn(k)' = {}
  BY <1>1, <1>2 DEF LiveOn, Live
<1> QED BY <1>1, <1>2, <1>3, <1>4, <1>5, <1>6, <1>7, RangeOfEmpty

-----------------------------------------------------------------------------
(* Every message is in one place.                                          *)

\* The mail of a session nobody touches stays as it should be.
LEMMA UntouchedMail ==
  ASSUME NEW j, MailOf(j), Untouched(j),
         compacting'[j] => compacting[j] /\ snapshot'[j] = snapshot[j]
  PROVE  MailOf(j)' /\ Held(j)' = Held(j)
  BY DEF MailOf, Untouched, Held

\* MailInv after a step that touches the mail of session k alone.
LEMMA MailFromParts ==
  ASSUME TypeOK, MailInv, Next, NEW k \in Sessions,
         \A q \in Requests : IsInjective(input'[q]) /\ (input'[q] # <<>> => pc'[q] = "entered"),
         MailOf(k)', \A m \in Held(k)' : m \in Held(k) \/ Sent(m)',
         \A j \in Sessions \ {k} : MailOf(j)' /\ Held(j)' = Held(j),
         \A m \in dropped' : m \in dropped \/ m \in Held(k)
  PROVE  MailInv'
<1>1. \A j \in Sessions : Held(j) \subseteq Messages
  <2>1. ASSUME NEW j \in Sessions
        PROVE  /\ Range(transcript[j]) \subseteq Messages /\ Range(pending[j]) \subseteq Messages
               /\ Range(channel[j]) \subseteq Messages
    BY RangeIsSubset DEF TypeOK
  <2>2. \A q \in Requests : Range(input[q]) \subseteq Messages
    BY RangeIsSubset DEF TypeOK
  <2> QED BY <2>1, <2>2 DEF Held, InputsOf
<1>2. \A j \in Sessions : \A m \in Held(j) : Sent(m)'
  BY <1>1, SentStays DEF MailInv
<1>3. \A m \in dropped : Sent(m)'
  BY SentStays DEF MailInv, TypeOK
<1> QED BY <1>2, <1>3 DEF MailInv

\* MailInv after a step that touches no mail.
LEMMA MailAtRest ==
  ASSUME TypeOK, MailInv, Next, \A j \in Sessions : Untouched(j),
         \A q \in Requests : input'[q] = input[q] /\ (input[q] # <<>> => pc'[q] = "entered"),
         \A j \in Sessions : compacting'[j] => compacting[j] /\ snapshot'[j] = snapshot[j],
         dropped' = dropped
  PROVE  MailInv'
<1>1. \A j \in Sessions : MailOf(j)' /\ Held(j)' = Held(j)
  BY UntouchedMail DEF MailInv
<1>2. \A q \in Requests : IsInjective(input'[q])
  BY DEF MailInv
<1>3. CASE Sessions = {}
  BY <1>2, <1>3, SentStays DEF MailInv, TypeOK
<1>4. CASE Sessions # {}
  BY <1>1, <1>2, <1>4, MailFromParts
<1> QED BY <1>3, <1>4

\* What a turn in flight takes, or the pending queue, was nowhere before.
LEMMA NewMail ==
  ASSUME TypeOK, MailInv, NEW k \in Sessions, NEW m \in Messages, ~Sent(m)
  PROVE  /\ Offer(k, m) /\ UNCHANGED <<pending, input, transcript, nextTurn, compactVars>>
              => MailOf(k)' /\ \A j \in Sessions \ {k} : MailOf(j)' /\ Held(j)' = Held(j)
         /\ Queue(k, m) /\ UNCHANGED <<channel, input, transcript, midTurn, compactVars>>
              => MailOf(k)' /\ \A j \in Sessions \ {k} : MailOf(j)' /\ Held(j)' = Held(j)
<1>0. /\ MailOf(k) /\ m \notin Held(k)
      /\ channel[k] \in Seq(Messages) /\ pending[k] \in Seq(Messages)
  BY UnsentIsNowhere DEF MailInv, TypeOK
<1>1. ASSUME Offer(k, m), UNCHANGED <<pending, input, transcript, nextTurn, compactVars>>
      PROVE  MailOf(k)' /\ \A j \in Sessions \ {k} : MailOf(j)' /\ Held(j)' = Held(j)
  <2>1. /\ channel'[k] = Append(channel[k], m) /\ InputsOf(k)' = InputsOf(k)
        /\ Range(channel'[k]) = Range(channel[k]) \cup {m}
        /\ \A j \in Sessions \ {k} : Untouched(j)
    BY <1>1, OfferShape
  <2>2. IsInjective(channel'[k])
    BY <1>0, <2>1, InjectiveAppend DEF MailOf, Held
  <2>3. MailOf(k)'
    BY <1>0, <1>1, <2>1, <2>2 DEF MailOf, Held, compactVars
  <2> QED BY <1>1, <2>1, <2>3, UntouchedMail DEF MailInv, compactVars
<1>2. ASSUME Queue(k, m), UNCHANGED <<channel, input, transcript, midTurn, compactVars>>
      PROVE  MailOf(k)' /\ \A j \in Sessions \ {k} : MailOf(j)' /\ Held(j)' = Held(j)
  <2>1. /\ pending'[k] = Append(pending[k], m) /\ InputsOf(k)' = InputsOf(k)
        /\ Range(pending'[k]) = Range(pending[k]) \cup {m}
        /\ \A j \in Sessions \ {k} : Untouched(j)
    BY <1>2, QueueShape
  <2>2. IsInjective(pending'[k])
    BY <1>0, <2>1, InjectiveAppend DEF MailOf, Held
  <2>3. MailOf(k)'
    BY <1>0, <1>2, <2>1, <2>2 DEF MailOf, Held, compactVars
  <2> QED BY <1>2, <2>1, <2>3, UntouchedMail DEF MailInv, compactVars
<1> QED BY <1>1, <1>2

\* A request that moves no mail: it waits, holds, fails, calls or returns.
RestingStep(r) ==
  RequestStep(r) /\ ~InjectIfBusy(r) /\ ~BeginTurn(r) /\ ~GuardRefuses(r) /\ ~PrepareInput(r)
  /\ ~Drains(r) /\ ~EndTurn(r)

\* Such a step leaves every mail, route and loss as it was, begins no turn and
\* is not the step of a turn that has messages in hand.
LEMMA RestingShape ==
  ASSUME TypeOK, NEW r \in Requests, RestingStep(r)
  PROVE  /\ UNCHANGED <<channel, pending, input, transcript, compactVars, history>>
         /\ \A q \in Requests : pc[q] = "entered" => pc'[q] = "entered"
         /\ \A q \in Requests : Live(q)' => Live(q)
<1> USE DEF TypeOK, Move, mailVars, Live, RestingStep
<1>1. CASE GoToQueue(r)     BY <1>1 DEF GoToQueue
<1>2. CASE GiveUp(r)        BY <1>2 DEF GiveUp
<1>3. CASE TimeOut(r)       BY <1>3 DEF TimeOut, queueVars
<1>4. CASE AcquireLock(r)   BY <1>4 DEF AcquireLock
<1>5. CASE AcquireSlot(r)   BY <1>5 DEF AcquireSlot
<1>6. CASE NoSession(r)     BY <1>6 DEF NoSession
<1>7. CASE StopTurn(r)      BY <1>7 DEF StopTurn
<1>8. CASE PromptFails(r)   BY <1>8 DEF PromptFails
<1>9. CASE CallModel(r)     BY <1>9 DEF CallModel, Drains
<1>10. CASE ModelAnswers(r) BY <1>10 DEF ModelAnswers
<1>11. CASE MarkError(r)    BY <1>11 DEF MarkError
<1>12. CASE ReleaseSlot(r)  BY <1>12 DEF ReleaseSlot
<1>13. CASE ReleaseLock(r)  BY <1>13 DEF ReleaseLock
<1> QED
  BY <1>1, <1>2, <1>3, <1>4, <1>5, <1>6, <1>7, <1>8, <1>9, <1>10, <1>11,
     <1>12, <1>13 DEF RequestStep, Progress

\* Every step of a request keeps its messages apart.
LEMMA RequestStepKeepsMail ==
  ASSUME TypeOK, QueueInv, MailInv, Next, NEW r \in Requests, RequestStep(r)
  PROVE  MailInv'
<1> DEFINE k == To[r]
<1>0. /\ k \in Sessions /\ r \in Messages /\ MailOf(k)
      /\ transcript[k] \in Seq(Messages) /\ pending[k] \in Seq(Messages)
      /\ channel[k] \in Seq(Messages) /\ input[r] \in Seq(Messages)
  BY Addressed DEF MailInv, TypeOK
<1>1. \A j \in Sessions \ {k} : MailOf(j)' /\ Held(j)' = Held(j)
  BY OnlyOwnMail, UntouchedMail DEF MailInv
<1>2. CASE InjectIfBusy(r)
  <2>1. /\ Offer(k, r) /\ UNCHANGED <<pending, input, transcript, nextTurn, compactVars, dropped>>
        /\ pc' = [pc EXCEPT ![r] = "done"] /\ pc[r] = "new"
    BY <1>2 DEF InjectIfBusy, Move
  <2>2. ~Sent(r) /\ Sent(r)'
    BY <2>1 DEF Sent, TypeOK
  <2>3. MailOf(k)'
    BY <1>0, <2>1, <2>2, NewMail
  <2>4. Held(k)' = Held(k) \cup {r}
    BY <1>0, <2>1, OfferShape
  <2>5. \A q \in Requests : IsInjective(input'[q]) /\ (input'[q] # <<>> => pc'[q] = "entered")
    BY <2>1 DEF MailInv, TypeOK
  <2> QED BY <1>0, <1>1, <2>1, <2>2, <2>3, <2>4, <2>5, MailFromParts
<1>3. CASE BeginTurn(r)
  <2>1. /\ InputsOf(k)' = Range(pending[k]) \cup {r}
        /\ input'[r] = Append(pending[k], r) /\ pending'[k] = <<>>
        /\ transcript' = transcript /\ channel' = channel
        /\ Range(pending'[k]) = {} /\ Held(k)' = Held(k) \cup {r}
    BY <1>3, BeginTurnShape
  <2>2. /\ UNCHANGED <<compacting, snapshot, dropped>> /\ pc[r] = "working"
        /\ pc' = [pc EXCEPT ![r] = "entered"]
        /\ input' = [input EXCEPT ![r] = Append(pending[k], r)]
    BY <1>3 DEF BeginTurn, Move, compactVars, history
  <2>3. ~Sent(r) /\ Sent(r)'
    BY <2>2 DEF Sent, TypeOK
  <2>4. r \notin Held(k)
    BY <1>0, <2>3, UnsentIsNowhere
  <2>5. IsInjective(input'[r])
    BY <1>0, <2>1, <2>4, InjectiveAppend DEF MailOf, Held
  <2>6. MailOf(k)'
    BY <1>0, <2>1, <2>2, <2>4, EmptyAndSelf DEF MailOf, Held
  <2>7. \A q \in Requests : IsInjective(input'[q]) /\ (input'[q] # <<>> => pc'[q] = "entered")
    BY <2>2, <2>5 DEF MailInv, TypeOK
  <2> QED BY <1>0, <1>1, <2>1, <2>2, <2>3, <2>6, <2>7, MailFromParts
<1>4. CASE GuardRefuses(r)
  <2>1. /\ input' = [input EXCEPT ![r] = <<>>] /\ pc[r] = "entered"
        /\ dropped' = dropped \cup Range(input[r])
        /\ UNCHANGED <<channel, pending, transcript, compacting, snapshot>>
        /\ pc' = [pc EXCEPT ![r] = "failed"]
    BY <1>4 DEF GuardRefuses, Move, compactVars
  <2>2. InputsOf(k) = Range(input[r]) /\ InputsOf(k)' = {}
    BY <2>1, HandsEmptied
  <2>3. MailOf(k)' /\ Held(k)' \subseteq Held(k)
    BY <1>0, <2>1, <2>2 DEF MailOf, Held
  <2>4. \A q \in Requests : IsInjective(input'[q]) /\ (input'[q] # <<>> => pc'[q] = "entered")
    BY <2>1, EmptyAndSelf DEF MailInv, TypeOK
  <2>5. \A m \in dropped' : m \in dropped \/ m \in Held(k)
    BY <2>1, <2>2 DEF Held
  <2> QED BY <1>0, <1>1, <2>3, <2>4, <2>5, MailFromParts
<1>5. CASE PrepareInput(r)
  <2>1. /\ InputsOf(k) = Range(input[r]) /\ InputsOf(k)' = {}
        /\ transcript'[k] = transcript[k] \o input[r]
        /\ Range(transcript'[k]) = Range(transcript[k]) \cup Range(input[r])
        /\ pending' = pending /\ channel' = channel
        /\ Held(k)' = Held(k)
    BY <1>5, PrepareInputShape
  <2>2. /\ UNCHANGED <<compacting, snapshot, dropped>> /\ pc[r] = "entered"
        /\ pc' = [pc EXCEPT ![r] = "looping"]
        /\ input' = [input EXCEPT ![r] = <<>>]
    BY <1>5 DEF PrepareInput, Move, compactVars, history
  <2>3. IsInjective(transcript'[k])
    BY <1>0, <2>1, InjectiveConcat DEF MailOf, MailInv
  <2>4. compacting'[k] => IsPrefixOf(snapshot'[k], transcript'[k])
    BY <1>0, <2>1, <2>2, PrefixOfConcat DEF MailOf, TypeOK
  <2>5. MailOf(k)'
    BY <1>0, <2>1, <2>3, <2>4 DEF MailOf
  <2>6. \A q \in Requests : IsInjective(input'[q]) /\ (input'[q] # <<>> => pc'[q] = "entered")
    BY <2>2, EmptyAndSelf DEF MailInv, TypeOK
  <2> QED BY <1>0, <1>1, <2>1, <2>2, <2>5, <2>6, MailFromParts
<1>6. CASE Drains(r)
  <2>1. /\ InputsOf(k) = {} /\ InputsOf(k)' = {}
        /\ transcript'[k] = transcript[k] \o channel[k] /\ channel'[k] = <<>>
        /\ Range(transcript'[k]) = Range(transcript[k]) \cup Range(channel[k])
        /\ pending' = pending /\ Range(channel'[k]) = {} /\ input' = input
        /\ Held(k)' = Held(k)
    BY <1>6, DrainShape
  <2>2. /\ UNCHANGED <<compacting, snapshot, dropped>> /\ pc[r] = "looping"
        /\ pc' = [pc EXCEPT ![r] = "calling"]
    BY <1>6 DEF Drains, CallModel, Move, compactVars, history
  <2>3. IsInjective(transcript'[k])
    BY <1>0, <2>1, InjectiveConcat DEF MailOf
  <2>4. compacting'[k] => IsPrefixOf(snapshot'[k], transcript'[k])
    BY <1>0, <2>1, <2>2, PrefixOfConcat DEF MailOf, TypeOK
  <2>5. MailOf(k)'
    BY <1>0, <2>1, <2>3, <2>4, EmptyAndSelf DEF MailOf
  <2>6. \A q \in Requests : IsInjective(input'[q]) /\ (input'[q] # <<>> => pc'[q] = "entered")
    BY <2>1, <2>2 DEF MailInv, TypeOK
  <2> QED BY <1>0, <1>1, <2>1, <2>2, <2>5, <2>6, MailFromParts
<1>7. CASE EndTurn(r)
  <2>1. /\ InputsOf(k) = {} /\ InputsOf(k)' = {}
        /\ pending'[k] = pending[k] \o channel[k] /\ channel'[k] = <<>>
        /\ Range(pending'[k]) = Range(pending[k]) \cup Range(channel[k])
        /\ transcript' = transcript /\ Range(channel'[k]) = {} /\ input' = input
        /\ Held(k)' = Held(k)
    BY <1>7, EndTurnShape
  <2>2. /\ UNCHANGED <<compacting, snapshot, dropped>> /\ pc[r] = "finished"
        /\ pc' = [pc EXCEPT ![r] = "settling"]
    BY <1>7 DEF EndTurn, Move, compactVars, history
  <2>3. IsInjective(pending'[k])
    BY <1>0, <2>1, InjectiveConcat DEF MailOf
  <2>4. MailOf(k)'
    BY <1>0, <2>1, <2>2, <2>3, EmptyAndSelf DEF MailOf
  <2>5. \A q \in Requests : IsInjective(input'[q]) /\ (input'[q] # <<>> => pc'[q] = "entered")
    BY <2>1, <2>2 DEF MailInv, TypeOK
  <2> QED BY <1>0, <1>1, <2>1, <2>2, <2>4, <2>5, MailFromParts
<1>8. CASE RestingStep(r)
  <2>1. /\ UNCHANGED <<channel, pending, input, transcript, compactVars, history>>
        /\ \A q \in Requests : pc[q] = "entered" => pc'[q] = "entered"
    BY <1>8, RestingShape
  <2>2. \A j \in Sessions : Untouched(j)
    BY <2>1 DEF Untouched, InputsOf
  <2>3. \A q \in Requests : input[q] # <<>> => pc'[q] = "entered"
    BY <2>1 DEF MailInv
  <2> QED BY <2>1, <2>2, <2>3, MailAtRest DEF compactVars, history
<1> QED BY <1>2, <1>3, <1>4, <1>5, <1>6, <1>7, <1>8 DEF RestingStep

\* A note, as its delivery finds it: to one session, not yet sent, and sent once
\* a route took it.
LEMMA NoteFacts ==
  ASSUME TypeOK, NEW m \in Notes, Deliver(m) \/ QueuePending(m), NEW k, k = To[m]
  PROVE  /\ k \in Sessions /\ m \in Messages /\ ~Sent(m) /\ Sent(m)'
         /\ \/ Offer(k, m) /\ UNCHANGED <<pending, input, transcript, nextTurn>>
            \/ Queue(k, m) /\ UNCHANGED <<channel, input, transcript, midTurn>>
         /\ UNCHANGED <<queueVars, turnVars, compactVars, dropped>>
<1> USE Addressed
<1>1. /\ Unsent(m) /\ m \notin Requests
      /\ \/ Offer(k, m) /\ UNCHANGED <<pending, input, transcript, nextTurn>>
         \/ Queue(k, m) /\ UNCHANGED <<channel, input, transcript, midTurn>>
      /\ UNCHANGED <<queueVars, turnVars, compactVars, dropped>>
  BY TurnsAssumption DEF Deliver, QueuePending
<1>2. /\ midTurn' = [midTurn EXCEPT ![k] = Append(midTurn[k], m)] /\ nextTurn' = nextTurn
      \/ /\ nextTurn' = [nextTurn EXCEPT ![k] = Append(nextTurn[k], m)] /\ midTurn' = midTurn
  BY <1>1 DEF Offer, Queue
<1>3. m \in Accepted(k)'
  <2>1. k \in Sessions /\ m \in Messages  OBVIOUS
  <2> QED BY <1>2, <2>1, RoutesGrow
<1> QED BY <1>1, <1>3 DEF Sent, Unsent

\* Session.deliver and queuePending keep the messages apart.
LEMMA NoteStepKeepsMail ==
  ASSUME TypeOK, MailInv, Next, NEW m \in Notes, Deliver(m) \/ QueuePending(m)
  PROVE  MailInv'
<1> DEFINE k == To[m]
<1>1. /\ k \in Sessions /\ m \in Messages /\ ~Sent(m) /\ Sent(m)'
      /\ \/ Offer(k, m) /\ UNCHANGED <<pending, input, transcript, nextTurn>>
         \/ Queue(k, m) /\ UNCHANGED <<channel, input, transcript, midTurn>>
      /\ UNCHANGED <<queueVars, turnVars, compactVars, dropped>>
  BY NoteFacts
<1>2. /\ MailOf(k)' /\ \A j \in Sessions \ {k} : MailOf(j)' /\ Held(j)' = Held(j)
      /\ Held(k)' = Held(k) \cup {m}
  <2> HIDE DEF k
  <2>1. CASE Offer(k, m) /\ UNCHANGED <<pending, input, transcript, nextTurn>>
    BY <1>1, <2>1, NewMail, OfferShape
  <2>2. CASE Queue(k, m) /\ UNCHANGED <<channel, input, transcript, midTurn>>
    BY <1>1, <2>2, NewMail, QueueShape
  <2> QED BY <1>1, <2>1, <2>2
<1>3. \A q \in Requests : IsInjective(input'[q]) /\ (input'[q] # <<>> => pc'[q] = "entered")
  BY <1>1 DEF MailInv, queueVars
<1> QED BY <1>1, <1>2, <1>3, MailFromParts

\* handleBridgeCompact writes back a conversation that is how the one it
\* replaces begins, or leaves that one.
LEMMA CompactEndShape ==
  ASSUME TypeOK, MailInv, NEW k \in Sessions, CompactEnd(k)
  PROVE  /\ compacting[k] /\ transcript'[k] \in {snapshot[k], transcript[k]}
         /\ IsPrefixOf(transcript'[k], transcript[k])
         /\ IsInjective(transcript'[k]) /\ transcript'[k] \in Seq(Messages)
         /\ Range(transcript'[k]) \subseteq Range(transcript[k])
         /\ dropped' = dropped \cup (Range(transcript[k]) \ Range(transcript'[k]))
         /\ pending' = pending /\ channel' = channel /\ input' = input
         /\ UNCHANGED <<queueVars, turnVars, midTurn, nextTurn>>
         /\ \A j \in Sessions : InputsOf(j)' = InputsOf(j)
         /\ ~compacting'[k]
         /\ \A j \in Sessions \ {k} : /\ Untouched(j)
                                      /\ compacting'[j] = compacting[j] /\ snapshot'[j] = snapshot[j]
<1> USE DEF TypeOK
<1>1. PICK written \in {snapshot[k], transcript[k]} :
        /\ transcript' = [transcript EXCEPT ![k] = written]
        /\ dropped' = dropped \cup (Range(transcript[k]) \ Range(written))
  BY DEF CompactEnd
<1>2. /\ compacting[k] /\ pending' = pending /\ channel' = channel /\ input' = input
      /\ UNCHANGED <<queueVars, turnVars, midTurn, nextTurn>>
      /\ compacting' = [compacting EXCEPT ![k] = FALSE]
      /\ snapshot' = [snapshot EXCEPT ![k] = <<>>]
  BY DEF CompactEnd
<1>3. transcript'[k] = written /\ \A j \in Sessions \ {k} : transcript'[j] = transcript[j]
  BY <1>1
<1>4. /\ IsPrefixOf(written, transcript[k]) /\ IsInjective(transcript[k])
      /\ written \in Seq(Messages) /\ transcript[k] \in Seq(Messages)
  BY <1>1, <1>2, EmptyAndSelf DEF MailInv, MailOf
<1>5. IsInjective(written) /\ Range(written) \subseteq Range(transcript[k])
  BY <1>4, PrefixFacts
<1>6. \A j \in Sessions : InputsOf(j)' = InputsOf(j)
  BY <1>2 DEF InputsOf
<1>7. \A j \in Sessions \ {k} : /\ Untouched(j)
                                /\ compacting'[j] = compacting[j] /\ snapshot'[j] = snapshot[j]
  BY <1>2, <1>3, <1>6 DEF Untouched
<1>8. ~compacting'[k]
  BY <1>2
<1> QED BY <1>1, <1>2, <1>3, <1>4, <1>5, <1>6, <1>7, <1>8

\* Interrupts and stops move no mail; a compaction may lose the end of the
\* conversation it read.
LEMMA ControlKeepsMail ==
  ASSUME TypeOK, MailInv, Next, NEW k \in Sessions, Control(k)
  PROVE  MailInv'
<1>1. CASE CompactEnd(k)
  <2>1. /\ IsInjective(transcript'[k]) /\ Range(transcript'[k]) \subseteq Range(transcript[k])
        /\ dropped' = dropped \cup (Range(transcript[k]) \ Range(transcript'[k]))
        /\ pending' = pending /\ channel' = channel /\ input' = input /\ UNCHANGED queueVars
        /\ InputsOf(k)' = InputsOf(k) /\ ~compacting'[k]
        /\ \A j \in Sessions \ {k} : /\ Untouched(j)
                                     /\ compacting'[j] = compacting[j] /\ snapshot'[j] = snapshot[j]
    BY <1>1, CompactEndShape
  <2>2. MailOf(k)' /\ Held(k)' \subseteq Held(k)
    BY <2>1 DEF MailOf, Held, MailInv
  <2>3. \A j \in Sessions \ {k} : MailOf(j)' /\ Held(j)' = Held(j)
    BY <2>1, UntouchedMail DEF MailInv
  <2>4. \A q \in Requests : IsInjective(input'[q]) /\ (input'[q] # <<>> => pc'[q] = "entered")
    BY <2>1 DEF MailInv, queueVars
  <2>5. \A m \in dropped' : m \in dropped \/ m \in Held(k)
    BY <2>1 DEF Held
  <2> QED BY <2>2, <2>3, <2>4, <2>5, MailFromParts
<1>2. CASE CompactBegin(k)
  <2>1. /\ UNCHANGED <<queueVars, mailVars, history>>
        /\ snapshot' = [snapshot EXCEPT ![k] = transcript[k]]
        /\ compacting' = [compacting EXCEPT ![k] = TRUE]
    BY <1>2 DEF CompactBegin
  <2>2. \A j \in Sessions : Untouched(j)
    BY <2>1 DEF Untouched, InputsOf, mailVars
  <2>3. \A j \in Sessions \ {k} : MailOf(j)' /\ Held(j)' = Held(j)
    BY <2>1, <2>2, UntouchedMail DEF MailInv, TypeOK
  <2>4. IsPrefixOf(snapshot'[k], transcript'[k])
    BY <2>1, EmptyAndSelf DEF TypeOK, mailVars
  <2>5. MailOf(k)' /\ Held(k)' = Held(k)
    BY <2>2, <2>4 DEF MailInv, MailOf, Untouched, Held
  <2>6. \A q \in Requests : IsInjective(input'[q]) /\ (input'[q] # <<>> => pc'[q] = "entered")
    BY <2>1 DEF MailInv, queueVars, mailVars
  <2> QED BY <2>1, <2>3, <2>5, <2>6, MailFromParts DEF history
<1>3. CASE Interrupt(k) \/ Stop(k)
  <2>1. UNCHANGED <<queueVars, mailVars, compactVars, history>>
    BY <1>3 DEF Interrupt, Stop
  <2>2. \A j \in Sessions : Untouched(j)
    BY <2>1 DEF Untouched, InputsOf, mailVars
  <2> QED
    BY <2>1, <2>2, MailAtRest DEF queueVars, mailVars, compactVars, history, MailInv
<1> QED BY <1>1, <1>2, <1>3 DEF Control

\* No message is anywhere before the first one is sent.
LEMMA MailInit == Init => MailInv
<1> SUFFICES ASSUME Init PROVE MailInv
  OBVIOUS
<1>1. \A k \in Sessions : Held(k) = {} /\ InputsOf(k) = {}
  BY RangeOfEmpty DEF Init, Held, InputsOf
<1> QED BY <1>1, RangeOfEmpty, EmptyAndSelf DEF Init, MailInv, MailOf

\* MailInv is inductive relative to the types and the queue's invariant.
LEMMA MailStep == TypeOK /\ QueueInv /\ MailInv /\ [Next]_vars => MailInv'
<1> SUFFICES ASSUME TypeOK, QueueInv, MailInv, [Next]_vars PROVE MailInv'
  OBVIOUS
<1>1. CASE UNCHANGED vars
  BY <1>1 DEF vars, MailInv, MailOf, Held, InputsOf, Sent, Accepted
<1>2. CASE Next
  BY <1>2, RequestStepKeepsMail, NoteStepKeepsMail, ControlKeepsMail DEF Next
<1> QED BY <1>1, <1>2

\* A message the session took is in one place at a time and in it once: the
\* channel, the pending queue, the hand of one turn, or the conversation.
THEOREM EachMessageOnce == Spec => []MailInv
  BY MailInit, MailStep, QueueCorrect, TypeCorrect, PTL DEF Spec

-----------------------------------------------------------------------------
(* The refinement of Mailbox.                                              *)

\* Both modules mean the same by the library's operators.
LEMMA BoxOperators ==
  /\ \A s : Box!Range(s) = Range(s)
  /\ \A s : Box!IsInjective(s) = IsInjective(s)
  /\ \A S : Box!Cardinality(S) = Cardinality(S)
<1>1. \A s : Box!Range(s) = Range(s)
  BY DEF Box!Range, Range
<1>2. \A s : Box!IsInjective(s) = IsInjective(s)
  BY DEF Box!IsInjective, IsInjective
<1>3. \A S : Box!Cardinality(S) = Cardinality(S)
  BY DEF Box!Cardinality, Cardinality
<1> QED BY <1>1, <1>2, <1>3

\* A queue is finite.
LEMMA RangeIsFinite ==
  ASSUME NEW T, NEW s \in Seq(T)
  PROVE  IsFiniteSet(Range(s))
<1>1. Len(s) \in Nat /\ DOMAIN s = 1..Len(s) /\ s \in [1..Len(s) -> Range(s)]
  BY DEF Range
<1>2. s \in Surjection(1..Len(s), Range(s))
  BY <1>1 DEF Surjection, Range
<1>3. IsFiniteSet(1..Len(s))
  BY <1>1, FS_Interval
<1> QED BY <1>2, <1>3, FS_Surjection

\* What a session has not read is finite: two queues, and what one turn has in
\* hand.
LEMMA UnreadIsFinite ==
  ASSUME TypeOK, NEW r \in Requests, NEW k \in Sessions,
         InputsOf(k) = {} \/ InputsOf(k) = Range(input[r])
  PROVE  IsFiniteSet(Unread(k))
<1>1. /\ IsFiniteSet(Range(channel[k])) /\ IsFiniteSet(Range(pending[k]))
      /\ IsFiniteSet(Range(input[r]))
  BY RangeIsFinite DEF TypeOK
<1>2. IsFiniteSet(InputsOf(k))
  BY <1>1, FS_EmptySet
<1>3. IsFiniteSet(Range(channel[k]) \cup Range(pending[k]))
  BY <1>1, FS_Union
<1> QED BY <1>2, <1>3, FS_Union DEF Unread

\* Messages in a row without repetition are an order of some unread ones.
LEMMA OrderOfUnread ==
  ASSUME NEW S, IsFiniteSet(S), NEW s \in Seq(Messages), IsInjective(s), Range(s) \subseteq S
  PROVE  s \in Box!Orders(S)
<1> DEFINE n == Len(s)
<1>1. n \in Nat /\ DOMAIN s = 1..n /\ s \in [1..n -> S]
  BY DEF Range
<1>2. s \in Injection(1..n, S)
  BY <1>1 DEF Injection
<1>3. IsFiniteSet(1..n) /\ Cardinality(1..n) = n
  BY <1>1, FS_Interval
<1>4. n <= Cardinality(S) /\ Cardinality(S) \in Nat
  BY <1>2, <1>3, FS_Injection, FS_CardinalityType
<1>5. n \in 0..Cardinality(S)
  BY <1>1, <1>4
<1> HIDE DEF n
<1>6. s \in UNION {[1..i -> S] : i \in 0..Cardinality(S)}
  BY <1>1, <1>5
<1> QED BY <1>6, BoxOperators DEF Box!Orders

\* A message that was nowhere and now waits was accepted.
LEMMA MapsToAccept ==
  ASSUME NEW m \in Messages, To[m] \in Sessions, m \notin Held(To[m]), m \notin dropped,
         Unread(To[m])' = Unread(To[m]) \cup {m},
         \A j \in Sessions \ {To[m]} : Unread(j)' = Unread(j),
         UNCHANGED <<transcript, dropped>>
  PROVE  Box!Next
<1>1. ~Box!Known(m)
  BY BoxOperators DEF Box!Known, Unread, Held
<1>2. [k \in Sessions |-> Unread(k)]'
        = [[k \in Sessions |-> Unread(k)] EXCEPT ![To[m]] = @ \cup {m}]
  OBVIOUS
<1>3. Box!Accept(m)
  BY <1>1, <1>2 DEF Box!Accept
<1> QED BY <1>3 DEF Box!Next

\* Messages that left the unread ones for the end of the conversation were read.
LEMMA MapsToRead ==
  ASSUME NEW k \in Sessions, IsFiniteSet(Unread(k)),
         NEW s \in Seq(Messages), IsInjective(s), Range(s) \subseteq Unread(k),
         transcript' = [transcript EXCEPT ![k] = transcript[k] \o s],
         Unread(k)' = Unread(k) \ Range(s),
         \A j \in Sessions \ {k} : Unread(j)' = Unread(j), UNCHANGED dropped
  PROVE  Box!Next
<1>1. s \in Box!Orders(Unread(k))
  BY OrderOfUnread
<1>2. [j \in Sessions |-> Unread(j)]'
        = [[j \in Sessions |-> Unread(j)] EXCEPT ![k] = @ \ Range(s)]
  OBVIOUS
<1>3. s \in Box!Orders([j \in Sessions |-> Unread(j)][k])
  BY <1>1
<1>4. Box!Read(k)
  BY <1>2, <1>3, BoxOperators DEF Box!Read
<1> QED BY <1>4 DEF Box!Next

\* Unread messages that were taken out and lost, in a session that may lose some.
LEMMA MapsToLoseUnread ==
  ASSUME NEW k \in Sessions, k \in Capped, NEW M \in SUBSET Unread(k),
         Unread(k)' = Unread(k) \ M, \A j \in Sessions \ {k} : Unread(j)' = Unread(j),
         dropped' = dropped \cup M, UNCHANGED transcript
  PROVE  Box!Next
<1>1. [j \in Sessions |-> Unread(j)]'
        = [[j \in Sessions |-> Unread(j)] EXCEPT ![k] = @ \ M]
  OBVIOUS
<1>2. M \in SUBSET [j \in Sessions |-> Unread(j)][k]
  OBVIOUS
<1>3. Box!LoseUnread(k)
  BY <1>1, <1>2 DEF Box!LoseUnread
<1> QED BY <1>3 DEF Box!Next

\* The end of a conversation that a shorter one replaced, where a compaction
\* may run beside an interrupted turn.
LEMMA MapsToLoseTail ==
  ASSUME NEW k \in Sessions, k \in Interruptible \cap Compactable, TypeOK,
         NEW s \in Seq(Messages), IsPrefixOf(s, transcript[k]), IsInjective(transcript[k]),
         transcript' = [transcript EXCEPT ![k] = s],
         dropped' = dropped \cup (Range(transcript[k]) \ Range(s)),
         \A j \in Sessions : Unread(j)' = Unread(j)
  PROVE  Box!Next
<1> DEFINE t == transcript[k]
           n == Len(s)
           tail == SubSeq(t, n + 1, Len(t))
<1>0. t \in Seq(Messages)
  BY DEF TypeOK
<1>1. /\ n \in Nat /\ Len(t) \in Nat /\ n <= Len(t) /\ DOMAIN s = 1..n /\ DOMAIN t = 1..Len(t)
      /\ \A i \in 1..n : s[i] = t[i]
  BY <1>0 DEF IsPrefixOf
<1>2. s = SubSeq(t, 1, n)
  BY <1>0, <1>1
<1>3. /\ DOMAIN tail = 1..(Len(t) - n)
      /\ \A i \in 1..(Len(t) - n) : tail[i] = t[n + i]
  BY <1>0, <1>1
<1>4. Range(tail) = Range(t) \ Range(s)
  <2>1. ASSUME NEW m \in Range(tail) PROVE m \in Range(t) \ Range(s)
    <3>1. PICK i \in 1..(Len(t) - n) : m = t[n + i]
      BY <1>3 DEF Range
    <3>2. n + i \in 1..Len(t) /\ n + i \notin 1..n
      BY <1>1
    <3>3. \A l \in 1..n : l \in 1..Len(t) /\ s[l] # m
      <4>1. \A a, b \in 1..Len(t) : t[a] = t[b] => a = b  BY <1>1 DEF IsInjective
      <4>2. \A l \in 1..n : l \in 1..Len(t) /\ s[l] = t[l] /\ l # n + i  BY <1>1, <3>2
      <4> QED BY <3>1, <3>2, <4>1, <4>2
    <3>4. m \in Range(t)  BY <1>1, <3>1, <3>2 DEF Range
    <3>5. m \notin Range(s)  BY <1>1, <3>3 DEF Range
    <3> QED BY <3>4, <3>5
  <2>2. ASSUME NEW m \in Range(t) \ Range(s) PROVE m \in Range(tail)
    <3>1. PICK l \in 1..Len(t) : m = t[l]
      BY <1>1 DEF Range
    <3>2. l \notin 1..n
      BY <1>1, <3>1 DEF Range
    <3>3. l - n \in 1..(Len(t) - n) /\ n + (l - n) = l
      BY <1>1, <3>2
    <3> QED BY <1>3, <3>1, <3>3 DEF Range
  <2> QED BY <2>1, <2>2
<1>5. n \in 0..Len(t)
  BY <1>1
<1>6. [j \in Sessions |-> Unread(j)]' = [j \in Sessions |-> Unread(j)]
  OBVIOUS
<1>7. transcript' = [transcript EXCEPT ![k] = SubSeq(transcript[k], 1, n)]
  BY <1>2
<1>8. dropped' = dropped \cup Range(SubSeq(transcript[k], n + 1, Len(transcript[k])))
  BY <1>4
<1> HIDE DEF n
<1>9. Box!LoseTail(k)
  BY <1>5, <1>6, <1>7, <1>8, BoxOperators DEF Box!LoseTail
<1> QED BY <1>9 DEF Box!Next

\* What a session has not read changes with its mail.
LEMMA UntouchedUnread ==
  ASSUME NEW j, Untouched(j)
  PROVE  Unread(j)' = Unread(j)
  BY DEF Untouched, Unread

\* Every step of a request is a step of the abstract mailbox, or none.
LEMMA RequestStepMaps ==
  ASSUME TypeOK, QueueInv, MailInv, NEW r \in Requests, RequestStep(r)
  PROVE  Box!Next \/ UNCHANGED Box!vars
<1> DEFINE k == To[r]
<1>0. /\ k \in Sessions /\ r \in Messages /\ MailOf(k) /\ IsInjective(input[r])
      /\ channel[k] \in Seq(Messages) /\ input[r] \in Seq(Messages)
  BY Addressed DEF MailInv, TypeOK
<1>1. \A j \in Sessions \ {k} : Unread(j)' = Unread(j)
  BY OnlyOwnMail, UntouchedUnread
<1>2. ASSUME \A j \in Sessions : Unread(j)' = Unread(j), UNCHANGED <<transcript, dropped>>
      PROVE  UNCHANGED Box!vars
  BY <1>2 DEF Box!vars
<1>3. CASE InjectIfBusy(r)
  <2>1. /\ Offer(k, r) /\ UNCHANGED <<pending, input, transcript, nextTurn, dropped>>
        /\ pc[r] = "new"
    BY <1>3 DEF InjectIfBusy, Move
  <2>2. r \notin Held(k) /\ r \notin dropped
    BY <1>0, <2>1, UnsentIsNowhere DEF Sent
  <2>3. Range(channel'[k]) = Range(channel[k]) \cup {r} /\ InputsOf(k)' = InputsOf(k)
    BY <1>0, <2>1, OfferShape
  <2>4. Unread(k)' = Unread(k) \cup {r}
    BY <2>1, <2>3 DEF Unread
  <2> QED BY <1>0, <1>1, <2>1, <2>2, <2>4, MapsToAccept
<1>4. CASE BeginTurn(r)
  <2>1. /\ InputsOf(k) = {} /\ InputsOf(k)' = Range(pending[k]) \cup {r}
        /\ transcript' = transcript /\ channel' = channel /\ Range(pending'[k]) = {}
    BY <1>4, BeginTurnShape
  <2>2. dropped' = dropped /\ pc[r] = "working"
    BY <1>4 DEF BeginTurn, Move, history
  <2>3. r \notin Held(k) /\ r \notin dropped
    BY <1>0, <2>2, UnsentIsNowhere DEF Sent
  <2>4. Unread(k)' = Unread(k) \cup {r}
    BY <2>1 DEF Unread
  <2> QED BY <1>0, <1>1, <2>1, <2>2, <2>3, <2>4, MapsToAccept
<1>5. CASE GuardRefuses(r)
  <2>1. /\ k \in Capped /\ input' = [input EXCEPT ![r] = <<>>] /\ pc[r] = "entered"
        /\ dropped' = dropped \cup Range(input[r])
        /\ UNCHANGED <<channel, pending, transcript>>
    BY <1>5 DEF GuardRefuses, Move
  <2>2. InputsOf(k) = Range(input[r]) /\ InputsOf(k)' = {}
    BY <2>1, HandsEmptied
  <2>3. Range(input[r]) \subseteq Unread(k) /\ Unread(k)' = Unread(k) \ Range(input[r])
    BY <1>0, <2>1, <2>2 DEF Unread, MailOf
  <2> QED BY <1>0, <1>1, <2>1, <2>3, MapsToLoseUnread
<1>6. CASE PrepareInput(r)
  <2>1. /\ InputsOf(k) = Range(input[r]) /\ InputsOf(k)' = {}
        /\ pending' = pending /\ channel' = channel
    BY <1>6, PrepareInputShape
  <2>2. /\ transcript' = [transcript EXCEPT ![k] = transcript[k] \o input[r]]
        /\ dropped' = dropped
    BY <1>6 DEF PrepareInput, history
  <2>3. Range(input[r]) \subseteq Unread(k) /\ Unread(k)' = Unread(k) \ Range(input[r])
    BY <1>0, <2>1 DEF Unread, MailOf
  <2>4. IsFiniteSet(Unread(k))
    BY <1>0, <2>1, UnreadIsFinite
  <2> QED BY <1>0, <1>1, <2>2, <2>3, <2>4, MapsToRead
<1>7. CASE Drains(r)
  <2>1. /\ InputsOf(k) = {} /\ InputsOf(k)' = {}
        /\ pending' = pending /\ Range(channel'[k]) = {}
    BY <1>7, DrainShape
  <2>2. /\ transcript' = [transcript EXCEPT ![k] = transcript[k] \o channel[k]]
        /\ dropped' = dropped
    BY <1>7 DEF Drains, CallModel, history
  <2>3. Range(channel[k]) \subseteq Unread(k) /\ Unread(k)' = Unread(k) \ Range(channel[k])
    BY <1>0, <2>1 DEF Unread, MailOf
  <2>4. IsFiniteSet(Unread(k)) /\ IsInjective(channel[k])
    BY <1>0, <2>1, UnreadIsFinite DEF MailOf
  <2> QED BY <1>0, <1>1, <2>2, <2>3, <2>4, MapsToRead
<1>8. CASE EndTurn(r)
  <2>1. /\ InputsOf(k) = {} /\ InputsOf(k)' = {} /\ transcript' = transcript
        /\ Range(pending'[k]) = Range(pending[k]) \cup Range(channel[k])
        /\ Range(channel'[k]) = {}
    BY <1>8, EndTurnShape
  <2>2. Unread(k)' = Unread(k) /\ dropped' = dropped
    BY <1>8, <2>1 DEF Unread, EndTurn, history
  <2> QED BY <1>1, <1>2, <2>1, <2>2
<1>9. CASE RestingStep(r)
  <2>1. UNCHANGED <<channel, pending, input, transcript, dropped>>
    BY <1>9, RestingShape DEF history
  <2>2. \A j \in Sessions : Unread(j)' = Unread(j)
    BY <2>1 DEF Unread, InputsOf
  <2> QED BY <1>2, <2>1, <2>2
<1> QED BY <1>3, <1>4, <1>5, <1>6, <1>7, <1>8, <1>9 DEF RestingStep

\* A delivery is an acceptance.
LEMMA NoteStepMaps ==
  ASSUME TypeOK, MailInv, NEW m \in Notes, Deliver(m) \/ QueuePending(m)
  PROVE  Box!Next
<1> DEFINE k == To[m]
<1>1. /\ k \in Sessions /\ m \in Messages /\ ~Sent(m)
      /\ \/ Offer(k, m) /\ UNCHANGED <<pending, input, transcript, nextTurn>>
         \/ Queue(k, m) /\ UNCHANGED <<channel, input, transcript, midTurn>>
      /\ UNCHANGED dropped
  BY NoteFacts
<1>2. m \notin Held(k) /\ m \notin dropped
  BY <1>1, UnsentIsNowhere
<1>3. CASE Offer(k, m) /\ UNCHANGED <<pending, input, transcript, nextTurn>>
  <2>1. /\ Range(channel'[k]) = Range(channel[k]) \cup {m} /\ InputsOf(k)' = InputsOf(k)
        /\ \A j \in Sessions \ {k} : Unread(j)' = Unread(j)
    BY <1>1, <1>3, OfferShape, UntouchedUnread
  <2>2. Unread(k)' = Unread(k) \cup {m}
    BY <1>3, <2>1 DEF Unread
  <2> QED BY <1>1, <1>2, <1>3, <2>1, <2>2, MapsToAccept
<1>4. CASE Queue(k, m) /\ UNCHANGED <<channel, input, transcript, midTurn>>
  <2>1. /\ Range(pending'[k]) = Range(pending[k]) \cup {m} /\ InputsOf(k)' = InputsOf(k)
        /\ \A j \in Sessions \ {k} : Unread(j)' = Unread(j)
    BY <1>1, <1>4, QueueShape, UntouchedUnread
  <2>2. Unread(k)' = Unread(k) \cup {m}
    BY <1>4, <2>1 DEF Unread
  <2> QED BY <1>1, <1>2, <1>4, <2>1, <2>2, MapsToAccept
<1> QED BY <1>1, <1>3, <1>4

\* A compaction that finds the conversation as it read it loses nothing, and one
\* that does not works on a session somebody may interrupt.
LEMMA ControlMaps ==
  ASSUME TypeOK, MailInv, WriterInv, AddressInv, NEW k \in Sessions, Control(k)
  PROVE  Box!Next \/ UNCHANGED Box!vars
<1>1. ASSUME \A j \in Sessions : Unread(j)' = Unread(j), UNCHANGED <<transcript, dropped>>
      PROVE  UNCHANGED Box!vars
  BY <1>1 DEF Box!vars
<1>2. CASE CompactEnd(k)
  <2>1. /\ compacting[k] /\ transcript'[k] \in {snapshot[k], transcript[k]}
        /\ IsPrefixOf(transcript'[k], transcript[k]) /\ transcript'[k] \in Seq(Messages)
        /\ dropped' = dropped \cup (Range(transcript[k]) \ Range(transcript'[k]))
        /\ pending' = pending /\ channel' = channel
        /\ \A j \in Sessions : InputsOf(j)' = InputsOf(j)
    BY <1>2, CompactEndShape
  <2>2. \A j \in Sessions : Unread(j)' = Unread(j)
    BY <2>1 DEF Unread
  <2>3. transcript' = [transcript EXCEPT ![k] = transcript'[k]]
    BY <1>2 DEF CompactEnd, TypeOK
  <2>4. CASE transcript'[k] = transcript[k]
    <3>1. transcript' = transcript /\ dropped' = dropped
      BY <2>1, <2>3, <2>4 DEF TypeOK
    <3> QED BY <1>1, <2>2, <3>1
  <2>5. CASE transcript'[k] # transcript[k]
    <3>1. k \in Interruptible \cap Compactable
      BY <2>1, <2>5 DEF WriterInv, AddressInv
    <3>2. IsInjective(transcript[k])
      BY DEF MailInv, MailOf
    <3> QED BY <2>1, <2>2, <2>3, <3>1, <3>2, MapsToLoseTail
  <2> QED BY <2>4, <2>5
<1>3. CASE Interrupt(k) \/ Stop(k) \/ CompactBegin(k)
  <2>1. UNCHANGED <<mailVars, history>>
    BY <1>3 DEF Interrupt, Stop, CompactBegin
  <2>2. \A j \in Sessions : Unread(j)' = Unread(j)
    BY <2>1 DEF Unread, InputsOf, mailVars
  <2> QED BY <1>1, <2>1, <2>2 DEF mailVars, history
<1> QED BY <1>2, <1>3 DEF Control

\* A new session is an empty mailbox.
LEMMA InitMaps == Init => Box!Init
<1> SUFFICES ASSUME Init PROVE Box!Init
  OBVIOUS
<1>1. \A k \in Sessions : Unread(k) = {}
  BY RangeOfEmpty DEF Init, Unread, InputsOf
<1> QED BY <1>1 DEF Init, Box!Init

\* Every step of the program is a step of the mailbox, or none.
LEMMA StepMaps ==
  TypeOK /\ QueueInv /\ MailInv /\ WriterInv /\ AddressInv /\ [Next]_vars
    => [Box!Next]_(Box!vars)
<1> SUFFICES ASSUME TypeOK, QueueInv, MailInv, WriterInv, AddressInv, [Next]_vars
             PROVE  Box!Next \/ UNCHANGED Box!vars
  OBVIOUS
<1>1. CASE UNCHANGED vars
  <2>1. \A j \in Sessions : Unread(j)' = Unread(j)
    BY <1>1 DEF vars, Unread, InputsOf
  <2> QED BY <1>1, <2>1 DEF vars, Box!vars
<1>2. CASE Next
  BY <1>2, RequestStepMaps, NoteStepMaps, ControlMaps DEF Next
<1> QED BY <1>1, <1>2

\* The queue, the channel, the pending queue, the turn bracket and the
\* compaction keep the mailbox's promise: each message is read once, the
\* conversation only grows, and only a session with a guard, or with both
\* interrupts and compactions, ever loses one.
THEOREM MailboxImplemented == Spec => ImplementsMailbox
<1>1. Spec => Box!Spec
  BY InitMaps, StepMaps, EachMessageOnce, QueueCorrect, TypeCorrect, WritersAreAlone,
     MessagesKeepTheirAddress, PTL DEF Spec, Box!Spec
<1> QED BY <1>1 DEF ImplementsMailbox

-----------------------------------------------------------------------------
(* Each route is first in, first out.                                      *)

\* What the routes of a session took are messages.
LEMMA AcceptedAreMessages ==
  ASSUME TypeOK, NEW k \in Sessions
  PROVE  Accepted(k) \subseteq Messages
<1>1. Range(midTurn[k]) \subseteq Messages /\ Range(nextTurn[k]) \subseteq Messages
  BY RangeIsSubset DEF TypeOK
<1> QED BY <1>1 DEF Accepted

\* A route that took nothing stays in line, when whatever its messages still in
\* the mail had in front of them stays in front of them or is lost.
LEMMA StaysInLine ==
  ASSUME NEW k, NEW route, InLine(k, route), \A m \in dropped : m \in dropped',
         \A b \in Range(route) : b \in Held(k)' => b \in Held(k),
         \A a, b \in Range(route) :
           b \in Held(k)' /\ Ahead(k, a, b) => a \in dropped' \/ Ahead(k, a, b)'
  PROVE  \A i, j \in DOMAIN route :
           i < j /\ route[j] \in Held(k)' => route[i] \in dropped' \/ Ahead(k, route[i], route[j])'
<1>1. \A i \in DOMAIN route : route[i] \in Range(route)
  BY DEF Range
<1> HIDE DEF Ahead, Held
<1> QED BY <1>1 DEF InLine

\* A route that took one more message, which now stands behind all others.
LEMMA NewcomerInLine ==
  ASSUME NEW k, NEW route \in Seq(Messages), NEW m \in Messages, m \notin Held(k),
         InLine(k, route), dropped' = dropped,
         \A b \in Range(route) : b \in Held(k)' => b \in Held(k),
         \A a \in Range(route) : a \in Held(k) \cup dropped,
         \A a, b : Ahead(k, a, b) => Ahead(k, a, b)',
         \A a \in Range(route) : a \in Held(k) => Ahead(k, a, m)'
  PROVE  \A i, j \in DOMAIN Append(route, m) :
           i < j /\ Append(route, m)[j] \in Held(k)' =>
             \/ Append(route, m)[i] \in dropped'
             \/ Ahead(k, Append(route, m)[i], Append(route, m)[j])'
<1>1. /\ Len(route) \in Nat
      /\ DOMAIN route = 1..Len(route) /\ DOMAIN Append(route, m) = 1..(Len(route) + 1)
      /\ \A i \in 1..Len(route) : Append(route, m)[i] = route[i] /\ route[i] \in Range(route)
      /\ Append(route, m)[Len(route) + 1] = m
  BY AppendFacts DEF Range
<1> HIDE DEF Ahead, Held
<1>2. SUFFICES ASSUME NEW i \in 1..(Len(route) + 1), NEW j \in 1..(Len(route) + 1), i < j,
                      Append(route, m)[j] \in Held(k)'
               PROVE  \/ Append(route, m)[i] \in dropped'
                      \/ Ahead(k, Append(route, m)[i], Append(route, m)[j])'
  BY <1>1
<1>3. i \in 1..Len(route)
  BY <1>1, <1>2
<1>4. CASE j \in 1..Len(route)
  <2>1. route[j] \in Held(k)  BY <1>1, <1>2, <1>4
  <2>2. route[i] \in dropped \/ Ahead(k, route[i], route[j])
    BY <1>1, <1>2, <1>3, <1>4, <2>1 DEF InLine
  <2> QED BY <1>1, <1>3, <1>4, <2>2
<1>5. CASE j = Len(route) + 1
  BY <1>1, <1>3, <1>5
<1> QED BY <1>1, <1>4, <1>5

\* The routes of a session that nobody touches stay as they are.
LEMMA UntouchedRoutes ==
  ASSUME TypeOK, Next, NEW j \in Sessions, RoutesOf(j), Untouched(j),
         midTurn'[j] = midTurn[j], nextTurn'[j] = nextTurn[j],
         LiveOn(j)' \subseteq LiveOn(j), \A m \in dropped : m \in dropped'
  PROVE  RoutesOf(j)'
<1>1. Held(j)' = Held(j) /\ Accepted(j)' = Accepted(j)
  BY DEF Untouched, Held, Accepted
<1>2. \A m \in Accepted(j) : Sent(m)'
  BY AcceptedAreMessages, SentStays DEF RoutesOf
<1>3. \A a, b : Ahead(j, a, b) => Ahead(j, a, b)'
  BY DEF Untouched, Ahead
<1>4. InLine(j, midTurn[j])' /\ InLine(j, nextTurn[j])'
  BY <1>1, <1>3, StaysInLine DEF RoutesOf, InLine
<1> QED BY <1>1, <1>2, <1>4 DEF RoutesOf, Untouched, Accepted

\* The routes of a session after a step that moves its mail between places, or
\* loses some, and takes nothing in by a route.
LEMMA MovedRoutes ==
  ASSUME TypeOK, Next, NEW k \in Sessions, RoutesOf(k),
         midTurn'[k] = midTurn[k], nextTurn'[k] = nextTurn[k],
         \A m \in dropped : m \in dropped',
         \A m \in Accepted(k) : m \in Held(k)' => m \in Held(k),
         \A m \in Accepted(k) : m \in Held(k) => m \in Held(k)' \cup dropped',
         Range(channel'[k]) \subseteq Range(midTurn[k]),
         LiveOn(k)' # {} => Range(pending'[k]) \cap Range(midTurn[k]) = {},
         \A a, b \in Range(midTurn[k]) :
           b \in Held(k)' /\ Ahead(k, a, b) => a \in dropped' \/ Ahead(k, a, b)',
         \A a, b \in Range(nextTurn[k]) :
           b \in Held(k)' /\ Ahead(k, a, b) => a \in dropped' \/ Ahead(k, a, b)'
  PROVE  RoutesOf(k)'
<1> HIDE DEF Ahead, Held
<1>1. Accepted(k)' = Accepted(k)
  BY DEF Accepted
<1>2. \A m \in Accepted(k) : Sent(m)'
  BY AcceptedAreMessages, SentStays DEF RoutesOf
<1>3. \A m \in Accepted(k) : m \in Held(k)' \cup dropped'
  BY DEF RoutesOf
<1>4. InLine(k, midTurn[k])'
  <2>1. InLine(k, midTurn[k]) /\ \A b \in Range(midTurn[k]) : b \in Held(k)' => b \in Held(k)
    BY DEF RoutesOf, Accepted
  <2> QED BY <2>1, StaysInLine DEF InLine
<1>5. InLine(k, nextTurn[k])'
  <2>1. InLine(k, nextTurn[k]) /\ \A b \in Range(nextTurn[k]) : b \in Held(k)' => b \in Held(k)
    BY DEF RoutesOf, Accepted
  <2> QED BY <2>1, StaysInLine DEF InLine
<1> QED BY <1>1, <1>2, <1>3, <1>4, <1>5 DEF RoutesOf

\* The turn in flight takes a message: it stands behind all the mail.
LEMMA OfferKeepsRoutes ==
  ASSUME TypeOK, MailInv, Next, NEW k \in Sessions, NEW m \in Messages, ~Sent(m), Sent(m)',
         RoutesOf(k), Offer(k, m), UNCHANGED <<pending, input, transcript, nextTurn, dropped>>,
         LiveOn(k)' \subseteq LiveOn(k)
  PROVE  RoutesOf(k)'
<1>1. /\ channel'[k] = Append(channel[k], m) /\ channel[k] \in Seq(Messages)
      /\ Range(channel'[k]) = Range(channel[k]) \cup {m}
      /\ midTurn'[k] = Append(midTurn[k], m) /\ midTurn[k] \in Seq(Messages)
      /\ Held(k)' = Held(k) \cup {m} /\ InputsOf(k)' = InputsOf(k)
  BY OfferShape DEF TypeOK
<1>2. Range(midTurn'[k]) = Range(midTurn[k]) \cup {m}
  BY <1>1, RangeOfAppend
<1>3. m \notin Held(k) /\ m \notin dropped /\ m \notin Accepted(k)
  BY UnsentIsNowhere DEF RoutesOf
<1>4. ASSUME NEW a, NEW b, Ahead(k, a, b) PROVE Ahead(k, a, b)'
  <2>1. Before(channel[k], a, b) => Before(channel'[k], a, b)
    BY <1>1, BeforeInAppend
  <2> QED BY <1>1, <1>4, <2>1 DEF Ahead
<1>5. ASSUME NEW a \in Held(k) PROVE Ahead(k, a, m)'
  <2>1. a \in Range(channel[k]) => Before(channel'[k], a, m)
    BY <1>1, BeforeInAppend
  <2> QED BY <1>1, <2>1 DEF Ahead, Held
<1>6. /\ \A a \in Accepted(k) : a \in Held(k) \cup dropped
      /\ \A b \in Accepted(k) : b \in Held(k)' => b \in Held(k)
  BY <1>1, <1>3 DEF RoutesOf
<1>7. InLine(k, midTurn[k])'
  <2>1. InLine(k, midTurn[k])
    BY DEF RoutesOf
  <2> HIDE DEF Ahead, Held
  <2> QED BY <1>1, <1>3, <1>4, <1>5, <1>6, <2>1, NewcomerInLine DEF InLine, Accepted
<1>8. InLine(k, nextTurn[k])'
  <2>1. InLine(k, nextTurn[k])
    BY DEF RoutesOf
  <2> HIDE DEF Ahead, Held
  <2> QED BY <1>4, <1>6, <2>1, StaysInLine DEF InLine, Accepted
<1>9. Accepted(k)' = Accepted(k) \cup {m}
  BY <1>2 DEF Accepted
<1>10. \A a \in Accepted(k)' : Sent(a)' /\ a \in Held(k)' \cup dropped'
  BY <1>1, <1>6, <1>9, AcceptedAreMessages, SentStays DEF RoutesOf
<1>11. /\ Range(midTurn'[k]) \cap Range(nextTurn'[k]) = {}
       /\ Range(channel'[k]) \subseteq Range(midTurn'[k])
       /\ LiveOn(k)' # {} => Range(pending'[k]) \cap Range(midTurn'[k]) = {}
  BY <1>1, <1>2, <1>3 DEF RoutesOf, Accepted, Held
<1> QED BY <1>7, <1>8, <1>10, <1>11 DEF RoutesOf

\* The pending queue takes a message: it stands behind all the queue's mail,
\* none of which is in the channel.
LEMMA QueueKeepsRoutes ==
  ASSUME TypeOK, MailInv, Next, NEW k \in Sessions, NEW m \in Messages, ~Sent(m), Sent(m)',
         RoutesOf(k), Queue(k, m), UNCHANGED <<channel, input, transcript, midTurn, dropped>>,
         LiveOn(k)' \subseteq LiveOn(k)
  PROVE  RoutesOf(k)'
<1>1. /\ pending'[k] = Append(pending[k], m) /\ pending[k] \in Seq(Messages)
      /\ Range(pending'[k]) = Range(pending[k]) \cup {m}
      /\ nextTurn'[k] = Append(nextTurn[k], m) /\ nextTurn[k] \in Seq(Messages)
      /\ Held(k)' = Held(k) \cup {m} /\ InputsOf(k)' = InputsOf(k)
  BY QueueShape DEF TypeOK
<1>2. Range(nextTurn'[k]) = Range(nextTurn[k]) \cup {m}
  BY <1>1, RangeOfAppend
<1>3. m \notin Held(k) /\ m \notin dropped /\ m \notin Accepted(k)
  BY UnsentIsNowhere DEF RoutesOf
<1>4. ASSUME NEW a, NEW b, Ahead(k, a, b) PROVE Ahead(k, a, b)'
  <2>1. Before(pending[k], a, b) => Before(pending'[k], a, b)
    BY <1>1, BeforeInAppend
  <2> QED BY <1>1, <1>4, <2>1 DEF Ahead
<1>5. ASSUME NEW a \in Range(nextTurn[k]), a \in Held(k) PROVE Ahead(k, a, m)'
  <2>1. a \notin Range(channel[k])
    BY DEF RoutesOf
  <2>2. a \in Range(pending[k]) => Before(pending'[k], a, m)
    BY <1>1, BeforeInAppend
  <2> QED BY <1>1, <1>5, <2>1, <2>2 DEF Ahead, Held
<1>6. /\ \A a \in Accepted(k) : a \in Held(k) \cup dropped
      /\ \A b \in Accepted(k) : b \in Held(k)' => b \in Held(k)
  BY <1>1, <1>3 DEF RoutesOf
<1>7. InLine(k, nextTurn[k])'
  <2>1. InLine(k, nextTurn[k])
    BY DEF RoutesOf
  <2> HIDE DEF Ahead, Held
  <2> QED BY <1>1, <1>3, <1>4, <1>5, <1>6, <2>1, NewcomerInLine DEF InLine, Accepted
<1>8. InLine(k, midTurn[k])'
  <2>1. InLine(k, midTurn[k])
    BY DEF RoutesOf
  <2> HIDE DEF Ahead, Held
  <2> QED BY <1>4, <1>6, <2>1, StaysInLine DEF InLine, Accepted
<1>9. Accepted(k)' = Accepted(k) \cup {m}
  BY <1>2 DEF Accepted
<1>10. \A a \in Accepted(k)' : Sent(a)' /\ a \in Held(k)' \cup dropped'
  BY <1>1, <1>6, <1>9, AcceptedAreMessages, SentStays DEF RoutesOf
<1>11. /\ Range(midTurn'[k]) \cap Range(nextTurn'[k]) = {}
       /\ Range(channel'[k]) \subseteq Range(midTurn'[k])
       /\ LiveOn(k)' # {} => Range(pending'[k]) \cap Range(midTurn'[k]) = {}
  BY <1>1, <1>2, <1>3 DEF RoutesOf, Accepted, Held
<1> QED BY <1>7, <1>8, <1>10, <1>11 DEF RoutesOf

\* A live turn of a session with its channel in use has no channel message among
\* the pending ones, and no pending message is ahead of one of the channel's on
\* the same route.
LEMMA ChannelOvertakesNothing ==
  ASSUME NEW k \in Sessions, RoutesOf(k), LiveOn(k) # {}
  PROVE  /\ \A a, b \in Range(midTurn[k]) : ~(a \in Range(pending[k]) /\ b \in Range(channel[k]))
         /\ \A a, b \in Range(nextTurn[k]) : ~(a \in Range(pending[k]) /\ b \in Range(channel[k]))
  BY DEF RoutesOf

\* Nobody holds two messages in order whose hands are empty.
LEMMA EmptyHandsOrderNothing ==
  ASSUME NEW s, s = <<>>, NEW a, NEW b
  PROVE  ~Before(s, a, b)
  BY DEF Before

\* Every step of a request keeps the routes of its own session in line.
LEMMA RequestStepKeepsOwnRoutes ==
  ASSUME TypeOK, QueueInv, MailInv, Next, NEW r \in Requests, RequestStep(r), RoutesOf(To[r])
  PROVE  RoutesOf(To[r])'
<1> DEFINE k == To[r]
<1>0. /\ k \in Sessions /\ r \in Messages /\ MailOf(k)
      /\ transcript[k] \in Seq(Messages) /\ pending[k] \in Seq(Messages)
      /\ channel[k] \in Seq(Messages) /\ input[r] \in Seq(Messages)
  BY Addressed DEF MailInv, TypeOK
<1>1. CASE InjectIfBusy(r)
  <2>1. /\ Offer(k, r) /\ UNCHANGED <<pending, input, transcript, nextTurn, dropped>>
        /\ pc' = [pc EXCEPT ![r] = "done"] /\ pc[r] = "new"
    BY <1>1 DEF InjectIfBusy, Move
  <2>2. ~Sent(r) /\ Sent(r)' /\ LiveOn(k)' \subseteq LiveOn(k)
    BY <2>1 DEF Sent, TypeOK, LiveOn, Live
  <2> QED BY <1>0, <2>1, <2>2, OfferKeepsRoutes
<1>2. CASE BeginTurn(r)
  <2>1. /\ InputsOf(k) = {} /\ InputsOf(k)' = Range(pending[k]) \cup {r}
        /\ input'[r] = Append(pending[k], r) /\ pending'[k] = <<>>
        /\ transcript' = transcript /\ channel' = channel
        /\ Range(pending'[k]) = {} /\ Held(k)' = Held(k) \cup {r}
    BY <1>2, BeginTurnShape
  <2>2. UNCHANGED <<midTurn, nextTurn, dropped>> /\ pc[r] = "working"
    BY <1>2 DEF BeginTurn, Move, history
  <2>3. r \notin Accepted(k)
    BY <2>2 DEF RoutesOf, Sent
  <2>4. \A q \in Requests : To[q] = k => input[q] = <<>>
    BY <2>2, AloneOnSession, EmptyHanded
  <2>5. ASSUME NEW a, NEW b, Ahead(k, a, b) PROVE Ahead(k, a, b)'
    <3>1. \A q \in Requests : To[q] = k => ~Before(input[q], a, b)
      BY <2>4, EmptyHandsOrderNothing
    <3>2. Before(pending[k], a, b) => Before(input'[r], a, b)
      BY <1>0, <2>1, BeforeInAppend
    <3>3. CASE Before(pending[k], a, b)  BY <3>2, <3>3 DEF Ahead
    <3>4. CASE ~Before(pending[k], a, b) BY <2>1, <2>5, <3>1, <3>4 DEF Ahead
    <3> QED BY <3>3, <3>4
  <2>6. /\ \A m \in Accepted(k) : m \in Held(k)' => m \in Held(k)
        /\ Range(channel'[k]) \subseteq Range(midTurn[k])
    BY <2>1, <2>3 DEF RoutesOf
  <2> HIDE DEF k
  <2> QED BY <1>0, <2>1, <2>2, <2>5, <2>6, MovedRoutes DEF k
<1>3. CASE GuardRefuses(r)
  <2>1. /\ input' = [input EXCEPT ![r] = <<>>] /\ pc[r] = "entered"
        /\ dropped' = dropped \cup Range(input[r])
        /\ UNCHANGED <<channel, pending, transcript, midTurn, nextTurn>>
        /\ pc' = [pc EXCEPT ![r] = "failed"]
    BY <1>3 DEF GuardRefuses, Move
  <2>2. /\ InputsOf(k) = Range(input[r]) /\ InputsOf(k)' = {}
        /\ \A q \in Requests \ {r} : To[q] = k => input[q] = <<>>
    BY <2>1, HandsEmptied, AloneOnSession
  <2>3. /\ Held(k)' = Range(transcript[k]) \cup Range(pending[k]) \cup Range(channel[k])
        /\ Held(k)' \cap Range(input[r]) = {}
    BY <1>0, <2>1, <2>2 DEF Held, MailOf
  <2>4. ASSUME NEW a, NEW b, b \in Held(k)', Ahead(k, a, b)
        PROVE  a \in dropped' \/ Ahead(k, a, b)'
    <3>1. \A q \in Requests : To[q] = k => ~Before(input[q], a, b)
      BY <2>2, <2>3, <2>4, EmptyHandsOrderNothing, BeforeIsIn
    <3> QED BY <2>1, <2>2, <2>3, <2>4, <3>1 DEF Ahead
  <2>5. LiveOn(k)' \subseteq LiveOn(k)
    BY <2>1 DEF LiveOn, Live, TypeOK
  <2>6. /\ \A m \in Accepted(k) : m \in Held(k)' => m \in Held(k)
        /\ \A m \in Accepted(k) : m \in Held(k) => m \in Held(k)' \cup dropped'
    BY <2>1, <2>2, <2>3 DEF Held
  <2>7. /\ Range(channel'[k]) \subseteq Range(midTurn[k])
        /\ LiveOn(k)' # {} => Range(pending'[k]) \cap Range(midTurn[k]) = {}
    BY <2>1, <2>5 DEF RoutesOf
  <2> HIDE DEF k
  <2> QED BY <1>0, <2>1, <2>4, <2>6, <2>7, MovedRoutes DEF k
<1>4. CASE PrepareInput(r)
  <2>1. /\ InputsOf(k) = Range(input[r]) /\ InputsOf(k)' = {}
        /\ transcript'[k] = transcript[k] \o input[r]
        /\ Range(transcript'[k]) = Range(transcript[k]) \cup Range(input[r])
        /\ pending' = pending /\ channel' = channel
        /\ Held(k)' = Held(k)
    BY <1>4, PrepareInputShape
  <2>2. /\ UNCHANGED <<midTurn, nextTurn, dropped>> /\ pc[r] = "entered"
        /\ pc' = [pc EXCEPT ![r] = "looping"]
    BY <1>4 DEF PrepareInput, Move, history
  <2>3. \A q \in Requests \ {r} : To[q] = k => input[q] = <<>>
    BY <2>2, AloneOnSession
  <2>4. ASSUME NEW a, NEW b, Ahead(k, a, b) PROVE Ahead(k, a, b)'
    <3>1. \A q \in Requests \ {r} : To[q] = k => ~Before(input[q], a, b)
      BY <2>3, EmptyHandsOrderNothing
    <3>2. \/ Before(transcript[k], a, b) \/ Before(input[r], a, b)
          \/ a \in Range(transcript[k]) /\ b \in Range(input[r])
          => Before(transcript'[k], a, b)
      BY <1>0, <2>1, BeforeInConcat
    <3> QED BY <2>1, <2>4, <3>1, <3>2 DEF Ahead
  <2>5. LiveOn(k)' \subseteq LiveOn(k)
    BY <2>2 DEF LiveOn, Live, TypeOK
  <2>6. /\ Range(channel'[k]) \subseteq Range(midTurn[k])
        /\ LiveOn(k)' # {} => Range(pending'[k]) \cap Range(midTurn[k]) = {}
    BY <2>1, <2>5 DEF RoutesOf
  <2> HIDE DEF k
  <2> QED BY <1>0, <2>1, <2>2, <2>4, <2>6, MovedRoutes DEF k
<1>5. CASE Drains(r)
  <2>1. /\ InputsOf(k) = {} /\ InputsOf(k)' = {}
        /\ transcript'[k] = transcript[k] \o channel[k] /\ channel'[k] = <<>>
        /\ Range(transcript'[k]) = Range(transcript[k]) \cup Range(channel[k])
        /\ pending' = pending /\ Range(channel'[k]) = {} /\ input' = input
        /\ Held(k)' = Held(k)
    BY <1>5, DrainShape
  <2>2. /\ UNCHANGED <<midTurn, nextTurn, dropped>> /\ pc[r] = "looping"
        /\ pc' = [pc EXCEPT ![r] = "calling"]
    BY <1>5 DEF Drains, CallModel, Move, history
  <2>3. LiveOn(k)' \subseteq LiveOn(k) /\ LiveOn(k) # {}
    BY <2>2 DEF LiveOn, Live, TypeOK
  <2>4. ASSUME NEW a, NEW b, ~(a \in Range(pending[k]) /\ b \in Range(channel[k])), Ahead(k, a, b)
        PROVE  Ahead(k, a, b)'
    <3>1. \/ Before(transcript[k], a, b) \/ Before(channel[k], a, b)
          \/ a \in Range(transcript[k]) /\ b \in Range(channel[k])
          => Before(transcript'[k], a, b)
      BY <1>0, <2>1, BeforeInConcat
    <3> QED BY <2>1, <2>4, <3>1 DEF Ahead
  <2>5. /\ \A a, b \in Range(midTurn[k]) : Ahead(k, a, b) => Ahead(k, a, b)'
        /\ \A a, b \in Range(nextTurn[k]) : Ahead(k, a, b) => Ahead(k, a, b)'
    BY <1>0, <2>3, <2>4, ChannelOvertakesNothing
  <2>6. /\ Range(channel'[k]) \subseteq Range(midTurn[k])
        /\ LiveOn(k)' # {} => Range(pending'[k]) \cap Range(midTurn[k]) = {}
    BY <2>1, <2>3 DEF RoutesOf
  <2> HIDE DEF k
  <2> QED BY <1>0, <2>1, <2>2, <2>5, <2>6, MovedRoutes DEF k
<1>6. CASE EndTurn(r)
  <2>1. /\ InputsOf(k) = {} /\ InputsOf(k)' = {}
        /\ pending'[k] = pending[k] \o channel[k] /\ channel'[k] = <<>>
        /\ Range(pending'[k]) = Range(pending[k]) \cup Range(channel[k])
        /\ transcript' = transcript /\ Range(channel'[k]) = {} /\ input' = input
        /\ Held(k)' = Held(k) /\ LiveOn(k)' = {}
    BY <1>6, EndTurnShape
  <2>2. UNCHANGED <<midTurn, nextTurn, dropped>>
    BY <1>6 DEF EndTurn, history
  <2>3. ASSUME NEW a, NEW b, Ahead(k, a, b) PROVE Ahead(k, a, b)'
    <3>1. \/ Before(pending[k], a, b) \/ Before(channel[k], a, b)
          \/ a \in Range(pending[k]) /\ b \in Range(channel[k])
          => Before(pending'[k], a, b)
      BY <1>0, <2>1, BeforeInConcat
    <3> QED BY <2>1, <2>3, <3>1 DEF Ahead
  <2>4. /\ Range(channel'[k]) \subseteq Range(midTurn[k])
        /\ LiveOn(k)' # {} => Range(pending'[k]) \cap Range(midTurn[k]) = {}
    BY <2>1
  <2> HIDE DEF k
  <2> QED BY <1>0, <2>1, <2>2, <2>3, <2>4, MovedRoutes DEF k
<1>7. CASE RestingStep(r)
  <2>1. /\ UNCHANGED <<channel, pending, input, transcript, midTurn, nextTurn, dropped>>
        /\ LiveOn(k)' \subseteq LiveOn(k)
    BY <1>7, RestingShape DEF history, LiveOn
  <2>2. Untouched(k)
    BY <2>1 DEF Untouched, InputsOf
  <2> QED BY <1>0, <2>1, <2>2, UntouchedRoutes
<1> QED BY <1>1, <1>2, <1>3, <1>4, <1>5, <1>6, <1>7 DEF RestingStep

\* A delivery stands behind what its route took before.
LEMMA NoteStepKeepsRoutes ==
  ASSUME TypeOK, MailInv, RouteInv, Next, NEW m \in Notes, Deliver(m) \/ QueuePending(m)
  PROVE  RouteInv'
<1> DEFINE k == To[m]
<1>1. /\ k \in Sessions /\ m \in Messages /\ ~Sent(m) /\ Sent(m)'
      /\ \/ Offer(k, m) /\ UNCHANGED <<pending, input, transcript, nextTurn>>
         \/ Queue(k, m) /\ UNCHANGED <<channel, input, transcript, midTurn>>
      /\ UNCHANGED <<queueVars, dropped>>
  BY NoteFacts
<1>2. \A j \in Sessions : LiveOn(j)' = LiveOn(j)
  BY <1>1 DEF queueVars, LiveOn, Live
<1>3. RoutesOf(k)'
  BY <1>1, <1>2, OfferKeepsRoutes, QueueKeepsRoutes DEF RouteInv
<1>4. \A j \in Sessions \ {k} :
        Untouched(j) /\ midTurn'[j] = midTurn[j] /\ nextTurn'[j] = nextTurn[j]
  <2> HIDE DEF k
  <2>1. CASE Offer(k, m) /\ UNCHANGED <<pending, input, transcript, nextTurn>>
    BY <1>1, <2>1, OfferShape
  <2>2. CASE Queue(k, m) /\ UNCHANGED <<channel, input, transcript, midTurn>>
    BY <1>1, <2>2, QueueShape
  <2> QED BY <1>1, <2>1, <2>2
<1>5. \A j \in Sessions \ {k} : RoutesOf(j)'
  BY <1>1, <1>2, <1>4, UntouchedRoutes DEF RouteInv
<1> QED BY <1>3, <1>5 DEF RouteInv

\* A compaction that writes back an older conversation keeps the order of what
\* it keeps.
LEMMA ControlKeepsRoutes ==
  ASSUME TypeOK, MailInv, RouteInv, Next, NEW k \in Sessions, Control(k)
  PROVE  RouteInv'
<1>1. \A j \in Sessions : LiveOn(j)' = LiveOn(j)
  BY OtherStepsKeepPc DEF queueVars, LiveOn, Live
<1>2. CASE CompactEnd(k)
  <2>1. /\ IsPrefixOf(transcript'[k], transcript[k])
        /\ IsInjective(transcript'[k]) /\ transcript'[k] \in Seq(Messages)
        /\ Range(transcript'[k]) \subseteq Range(transcript[k])
        /\ dropped' = dropped \cup (Range(transcript[k]) \ Range(transcript'[k]))
        /\ pending' = pending /\ channel' = channel /\ input' = input
        /\ UNCHANGED <<midTurn, nextTurn>> /\ InputsOf(k)' = InputsOf(k)
        /\ \A j \in Sessions \ {k} : Untouched(j)
    BY <1>2, CompactEndShape
  <2>2. /\ MailOf(k) /\ transcript[k] \in Seq(Messages) /\ RoutesOf(k)
    BY DEF MailInv, TypeOK, RouteInv
  <2>3. ASSUME NEW a, NEW b, b \in Held(k)', Ahead(k, a, b)
        PROVE  a \in dropped' \/ Ahead(k, a, b)'
    <3>1. Before(transcript[k], a, b) => Before(transcript'[k], a, b)
      <4>1. Before(transcript[k], a, b) => b \in Range(transcript[k])
        BY BeforeIsIn
      <4>2. Before(transcript[k], a, b) => b \in Range(transcript'[k])
        BY <2>1, <2>2, <2>3, <4>1 DEF Held, MailOf
      <4> QED BY <2>1, <2>2, <4>2, BeforeInPrefix DEF MailOf
    <3> QED BY <2>1, <2>3, <3>1 DEF Ahead
  <2>4. /\ \A m \in Accepted(k) : m \in Held(k)' => m \in Held(k)
        /\ \A m \in Accepted(k) : m \in Held(k) => m \in Held(k)' \cup dropped'
    BY <2>1 DEF Held
  <2>5. /\ Range(channel'[k]) \subseteq Range(midTurn[k])
        /\ LiveOn(k)' # {} => Range(pending'[k]) \cap Range(midTurn[k]) = {}
    BY <1>1, <2>1, <2>2 DEF RoutesOf
  <2>6. RoutesOf(k)'
    BY <2>1, <2>2, <2>3, <2>4, <2>5, MovedRoutes
  <2>7. \A j \in Sessions \ {k} : RoutesOf(j)'
    BY <1>1, <2>1, UntouchedRoutes DEF RouteInv
  <2> QED BY <2>6, <2>7 DEF RouteInv
<1>3. CASE Interrupt(k) \/ Stop(k) \/ CompactBegin(k)
  <2>1. UNCHANGED <<mailVars, history>>
    BY <1>3 DEF Interrupt, Stop, CompactBegin
  <2>2. \A j \in Sessions : Untouched(j)
    BY <2>1 DEF Untouched, InputsOf, mailVars
  <2> QED BY <1>1, <2>1, <2>2, UntouchedRoutes DEF RouteInv, history
<1> QED BY <1>2, <1>3 DEF Control

\* What is lost stays lost.
LEMMA LostStaysLost ==
  ASSUME NEW r \in Requests, RequestStep(r)
  PROVE  \A m \in dropped : m \in dropped'
  BY DEF RequestStep, Progress, InjectIfBusy, GoToQueue, GiveUp, TimeOut, AcquireLock,
     AcquireSlot, NoSession, BeginTurn, GuardRefuses, PrepareInput, StopTurn,
     PromptFails, CallModel, ModelAnswers, MarkError, EndTurn, ReleaseSlot,
     ReleaseLock, history

\* No route has taken anything before the first message.
LEMMA RouteInit == Init => RouteInv
<1> SUFFICES ASSUME Init, NEW k \in Sessions PROVE RoutesOf(k)
  BY DEF RouteInv
<1>1. midTurn[k] = <<>> /\ nextTurn[k] = <<>> /\ channel[k] = <<>>
  BY DEF Init
<1> QED BY <1>1, RangeOfEmpty DEF RoutesOf, Accepted, InLine

\* RouteInv is inductive relative to the types, the queue and the mail.
LEMMA RouteStep == TypeOK /\ QueueInv /\ MailInv /\ RouteInv /\ [Next]_vars => RouteInv'
<1> SUFFICES ASSUME TypeOK, QueueInv, MailInv, RouteInv, [Next]_vars PROVE RouteInv'
  OBVIOUS
<1>1. CASE UNCHANGED vars
  <2> SUFFICES ASSUME NEW k \in Sessions PROVE RoutesOf(k)'
    BY DEF RouteInv
  <2>0. UNCHANGED <<pc, channel, pending, input, transcript, midTurn, nextTurn, dropped>>
    BY <1>1 DEF vars
  <2>1. InputsOf(k)' = InputsOf(k)  BY <2>0 DEF InputsOf
  <2>2. \A j : Accepted(j)' = Accepted(j)  BY <2>0 DEF Accepted
  <2>3. LiveOn(k)' = LiveOn(k)  BY <2>0 DEF LiveOn, Live
  <2>4. Held(k)' = Held(k)  BY <2>0, <2>1 DEF Held
  <2>5. \A m : Sent(m)' = Sent(m)  BY <2>0, <2>2 DEF Sent
  <2>6. \A a, b : Ahead(k, a, b) => Ahead(k, a, b)'
    BY <2>0, <2>1 DEF Ahead
  <2>7. RoutesOf(k)  BY DEF RouteInv
  <2>8. InLine(k, midTurn[k])' /\ InLine(k, nextTurn[k])'
    <3>1. InLine(k, midTurn[k]) /\ InLine(k, nextTurn[k])  BY <2>7 DEF RoutesOf
    <3> HIDE DEF Ahead, Held
    <3> QED BY <2>0, <2>4, <2>6, <3>1 DEF InLine
  <2> HIDE DEF InputsOf, Accepted, LiveOn, Held, InLine, Ahead
  <2> QED BY <2>0, <2>2, <2>3, <2>4, <2>5, <2>7, <2>8 DEF RoutesOf
<1>2. ASSUME Next, NEW r \in Requests, RequestStep(r) PROVE RouteInv'
  <2>1. To[r] \in Sessions  BY Addressed
  <2>2. \A m \in dropped : m \in dropped'
    BY <1>2, LostStaysLost
  <2>3. RoutesOf(To[r])'
    BY <1>2, <2>1, RequestStepKeepsOwnRoutes DEF RouteInv
  <2>4. \A j \in Sessions \ {To[r]} : RoutesOf(j)'
    BY <1>2, <2>2, OnlyOwnMail, UntouchedRoutes DEF RouteInv
  <2> QED BY <2>3, <2>4 DEF RouteInv
<1>3. CASE Next
  BY <1>2, <1>3, NoteStepKeepsRoutes, ControlKeepsRoutes DEF Next
<1> QED BY <1>1, <1>3

\* What a route took stands in line in the order it was taken, wherever it is.
THEOREM RoutesStandInLine == Spec => []RouteInv
  BY RouteInit, RouteStep, EachMessageOnce, QueueCorrect, TypeCorrect, PTL DEF Spec

\* Messages that took the same route are read in the order they were accepted:
\* no overflow, requeue, drain, compaction or cancelled turn reorders them.
THEOREM RoutesKeepTheirOrder == Spec => []RoutesAreFIFO
<1>1. MailInv /\ RouteInv => RoutesAreFIFO
  <2> SUFFICES ASSUME MailInv, RouteInv, NEW k \in Sessions,
                      NEW route \in {midTurn[k], nextTurn[k]},
                      NEW i \in DOMAIN route, NEW j \in DOMAIN route,
                      i < j, route[j] \in Range(transcript[k]), route[i] \notin dropped
               PROVE  Before(transcript[k], route[i], route[j])
    BY DEF RoutesAreFIFO
  <2>1. InLine(k, route) /\ MailOf(k)
    BY DEF RouteInv, RoutesOf, MailInv
  <2>2. Ahead(k, route[i], route[j])
    BY <2>1 DEF InLine, Held
  <2>3. \A q \in Requests : To[q] = k => ~Before(input[q], route[i], route[j])
    <3>1. ASSUME NEW q \in Requests, To[q] = k, Before(input[q], route[i], route[j])
          PROVE  FALSE
      <4>1. route[j] \in Range(input[q])
        BY <3>1, BeforeIsIn
      <4>2. Range(input[q]) \subseteq InputsOf(k)
        BY <3>1, InputsFacts
      <4> QED BY <2>1, <4>1, <4>2 DEF MailOf
    <3> QED BY <3>1
  <2>4. /\ ~Before(pending[k], route[i], route[j])
        /\ ~Before(channel[k], route[i], route[j])
    BY <2>1, BeforeIsIn DEF MailOf
  <2> QED BY <2>1, <2>2, <2>3, <2>4 DEF Ahead, MailOf
<1> QED BY <1>1, RoutesStandInLine, EachMessageOnce, PTL
=============================================================================
