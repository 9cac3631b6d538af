---------------------------- MODULE SessionTurns ----------------------------
(***************************************************************************)
(* How a message reaches the conversation of a session: the work queue     *)
(* (server/queue.go), the session's mailbox and turn bracket               *)
(* (server/session.go), the request path that feeds them (server/server.go,*)
(* server/spawn.go) and the loop of one turn as far as it reads messages   *)
(* (engine/engine.go, agent/agent.go).                                     *)
(*                                                                         *)
(* A session is one *Session object under one key.  A request is one call  *)
(* of Server.run (lane "main") or the work of one spawned child (lane      *)
(* "subagent"); it carries one message.  A note is a message somebody      *)
(* delivers to the session without asking for a turn: Server.Inject, the   *)
(* progress of a child, the context update of a finished task.             *)
(***************************************************************************)
EXTENDS Naturals, Sequences, FiniteSets, Functions

CONSTANTS
  Sessions,       \* session keys
  Requests,       \* calls that want a turn
  Notes,          \* messages delivered without a turn of their own
  To,             \* To[m]: the session the request or note m is for
  LaneOf,         \* LaneOf[r]: "main" or "subagent"
  LaneCap,        \* LaneCap[l]: concurrent turns of lane l
  ChannelCap,     \* capacity of Session.injections (10 in the code)
  MaxCalls,       \* agent.MaxAPICallsPerTurn
  Readers,        \* turns whose provider loop reads the injection channel
  Interruptible,  \* sessions somebody may interrupt or stop
  Compactable,    \* sessions somebody may compact
  Capped,         \* sessions whose guard has a limit to exceed
  None            \* "no request"

Lanes    == {"main", "subagent"}
Messages == Requests \cup Notes

ASSUME TurnsAssumption ==
  /\ Requests \cap Notes = {}
  /\ None \notin Messages
  /\ To \in [Messages -> Sessions]
  /\ LaneOf \in [Requests -> Lanes]
  /\ LaneCap \in [Lanes -> Nat \ {0}]
  /\ ChannelCap \in Nat \ {0}
  /\ MaxCalls \in Nat \ {0}
  /\ Readers \subseteq Requests
  /\ Interruptible \subseteq Sessions
  /\ Compactable \subseteq Sessions
  /\ Capped \subseteq Sessions
  /\ IsFiniteSet(Requests)

VARIABLES
  pc,         \* pc[r]: where the goroutine of request r is
  lockHolder, \* lockHolder[k]: the request holding the queue's mutex of k
  slots,      \* slots[l]: requests occupying a slot of lane l
  status,     \* status[k]: Session.Status
  canceler,   \* canceler[k]: the turn Session.cancel would cancel, or None
  cancelled,  \* turns whose context is done
  calls,      \* calls[r]: API calls the provider loop of r has made
  channel,    \* channel[k]: Session.injections
  pending,    \* pending[k]: Session.pendingMessages
  input,      \* input[r]: messages r's turn took and has not yet stored
  transcript, \* transcript[k]: user messages in Engine.Messages, in order
  compacting, \* compacting[k]: a compaction holds Session.mu of k
  snapshot,   \* snapshot[k]: the conversation that compaction read
  midTurn,    \* history: messages of k accepted by the channel, in order
  nextTurn,   \* history: messages of k accepted by the pending queue
  dropped     \* history: messages taken from their sender and then lost

queueVars   == <<pc, lockHolder, slots>>
turnVars    == <<status, canceler, cancelled, calls>>
mailVars    == <<channel, pending, input, transcript>>
compactVars == <<compacting, snapshot>>
history     == <<midTurn, nextTurn, dropped>>
vars == <<pc, lockHolder, slots, status, canceler, cancelled, calls,
          channel, pending, input, transcript, compacting, snapshot, midTurn, nextTurn,
          dropped>>

Statuses == {"idle", "running", "completed", "error"}

\* A turn is live from the hold of Session.mu that sets Running to the one
\* that sets Idle; nothing but that turn's goroutine ends it.
LivePcs  == {"entered", "looping", "calling", "failed", "finished"}
SlotPcs  == LivePcs \cup {"working", "settling"}
LockPcs  == SlotPcs \cup {"wantSlot", "unlocking"}
Pcs      == LockPcs \cup {"new", "wantLock", "done"}

\* RunTurn is running, and owns Engine.Messages without any lock.
WritingPcs == {"entered", "looping", "calling"}

Live(r)     == pc[r] \in LivePcs
LiveOn(k)   == {r \in Requests : To[r] = k /\ Live(r)}
WritersOf(k) == {r \in Requests : To[r] = k /\ pc[r] \in WritingPcs}
Accepted(k) == Range(midTurn[k]) \cup Range(nextTurn[k])

TypeOK ==
  /\ pc \in [Requests -> Pcs]
  /\ lockHolder \in [Sessions -> Requests \cup {None}]
  /\ slots \in [Lanes -> SUBSET Requests]
  /\ status \in [Sessions -> Statuses]
  /\ canceler \in [Sessions -> Requests \cup {None}]
  /\ cancelled \in SUBSET Requests
  /\ calls \in [Requests -> 0..MaxCalls]
  /\ channel \in [Sessions -> Seq(Messages)]
  /\ pending \in [Sessions -> Seq(Messages)]
  /\ input \in [Requests -> Seq(Messages)]
  /\ transcript \in [Sessions -> Seq(Messages)]
  /\ compacting \in [Sessions -> BOOLEAN]
  /\ snapshot \in [Sessions -> Seq(Messages)]
  /\ midTurn \in [Sessions -> Seq(Messages)]
  /\ nextTurn \in [Sessions -> Seq(Messages)]
  /\ dropped \in SUBSET Messages

Init ==
  /\ pc = [r \in Requests |-> "new"]
  /\ lockHolder = [k \in Sessions |-> None]
  /\ slots = [l \in Lanes |-> {}]
  /\ status = [k \in Sessions |-> "idle"]
  /\ canceler = [k \in Sessions |-> None]
  /\ cancelled = {}
  /\ calls = [r \in Requests |-> 0]
  /\ channel = [k \in Sessions |-> <<>>]
  /\ pending = [k \in Sessions |-> <<>>]
  /\ input = [r \in Requests |-> <<>>]
  /\ transcript = [k \in Sessions |-> <<>>]
  /\ compacting = [k \in Sessions |-> FALSE]
  /\ snapshot = [k \in Sessions |-> <<>>]
  /\ midTurn = [k \in Sessions |-> <<>>]
  /\ nextTurn = [k \in Sessions |-> <<>>]
  /\ dropped = {}

Move(r, from, to) ==
  /\ pc[r] = from
  /\ pc' = [pc EXCEPT ![r] = to]

-----------------------------------------------------------------------------
(* The mailbox: everything below runs under Session.mu, which a compaction *)
(* holds for as long as it works.                                          *)

MuFree(k) == ~compacting[k]

\* The turn in flight has room for one more message.
TurnTakes(k) == status[k] = "running" /\ Len(channel[k]) < ChannelCap

\* offerToTurnInFlightLocked, when it returns true.
Offer(k, m) ==
  /\ TurnTakes(k)
  /\ channel' = [channel EXCEPT ![k] = Append(@, m)]
  /\ midTurn' = [midTurn EXCEPT ![k] = Append(@, m)]

\* Mutation of Queue: the newest message goes first.
QueueInFront(k, m) ==
  /\ pending' = [pending EXCEPT ![k] = <<m>> \o @]
  /\ nextTurn' = [nextTurn EXCEPT ![k] = Append(@, m)]

\* Session.queuePending, and the fallback of Session.deliver.
Queue(k, m) ==
  /\ pending' = [pending EXCEPT ![k] = Append(@, m)]
  /\ nextTurn' = [nextTurn EXCEPT ![k] = Append(@, m)]

Unsent(m) == m \notin Accepted(To[m])

\* Session.deliver: into the turn in flight, or else for the next one.
Deliver(m) ==
  LET k == To[m] IN
  /\ Unsent(m) /\ MuFree(k)
  /\ \/ Offer(k, m) /\ UNCHANGED <<pending, nextTurn>>
     \/ ~TurnTakes(k) /\ Queue(k, m) /\ UNCHANGED <<channel, midTurn>>
  /\ UNCHANGED <<queueVars, turnVars, input, transcript, compactVars, dropped>>

\* Session.queuePending as updateMainSession calls it: never mid-turn.
QueuePending(m) ==
  LET k == To[m] IN
  /\ Unsent(m) /\ MuFree(k)
  /\ Queue(k, m)
  /\ UNCHANGED <<queueVars, turnVars, channel, input, transcript, compactVars,
                 midTurn, dropped>>

-----------------------------------------------------------------------------
(* The request path up to the turn: Server.run and Queue.Enqueue.          *)

\* injectIfBusy answers the caller: the turn in flight took the message.
InjectIfBusy(r) ==
  /\ LaneOf[r] = "main" /\ MuFree(To[r])
  /\ Move(r, "new", "done")
  /\ Offer(To[r], r)
  /\ UNCHANGED <<lockHolder, slots, turnVars, pending, input, transcript,
                 compactVars, nextTurn, dropped>>

\* injectIfBusy refused, or a spawned child, which does not ask.
GoToQueue(r) ==
  /\ LaneOf[r] = "main" => MuFree(To[r]) /\ ~TurnTakes(To[r])
  /\ Move(r, "new", "wantLock")
  /\ UNCHANGED <<lockHolder, slots, turnVars, mailVars, compactVars, history>>

\* Mutation of AcquireLock: the mutex is not per session.
AcquireHeldLock(r) ==
  /\ Move(r, "wantLock", "wantSlot")
  /\ lockHolder' = [lockHolder EXCEPT ![To[r]] = r]
  /\ UNCHANGED <<slots, turnVars, mailVars, compactVars, history>>

AcquireLock(r) ==
  /\ Move(r, "wantLock", "wantSlot")
  /\ lockHolder[To[r]] = None
  /\ lockHolder' = [lockHolder EXCEPT ![To[r]] = r]
  /\ UNCHANGED <<slots, turnVars, mailVars, compactVars, history>>

AcquireSlot(r) ==
  LET l == LaneOf[r] IN
  /\ Move(r, "wantSlot", "working")
  /\ Cardinality(slots[l]) < LaneCap[l]
  /\ slots' = [slots EXCEPT ![l] = @ \cup {r}]
  /\ UNCHANGED <<lockHolder, turnVars, mailVars, compactVars, history>>

\* Mutation of GiveUp: the early return forgets the session's mutex.
GiveUpHoldingLock(r) ==
  /\ Move(r, "wantSlot", "done")
  /\ UNCHANGED <<lockHolder, slots, turnVars, mailVars, compactVars, history>>

\* The caller's context is done before a slot opens: Enqueue returns its error
\* and the caller keeps the message.
GiveUp(r) ==
  /\ Move(r, "wantSlot", "done")
  /\ lockHolder' = [lockHolder EXCEPT ![To[r]] = None]
  /\ UNCHANGED <<slots, turnVars, mailVars, compactVars, history>>

\* Inside the queue the session cannot be built: the caller keeps the message.
NoSession(r) ==
  /\ LaneOf[r] = "main"
  /\ Move(r, "working", "settling")
  /\ UNCHANGED <<lockHolder, slots, turnVars, mailVars, compactVars, history>>

-----------------------------------------------------------------------------
(* The turn: Session.turn around Engine.RunTurn around the provider loop.  *)

\* The first hold of Session.mu: Running, cancelable, and the pending queue
\* goes in front of the request's own message.
BeginTurn(r) ==
  LET k == To[r] IN
  /\ MuFree(k)
  /\ Move(r, "working", "entered")
  /\ status' = [status EXCEPT ![k] = "running"]
  /\ canceler' = [canceler EXCEPT ![k] = r]
  /\ input' = [input EXCEPT ![r] = Append(pending[k], r)]
  /\ pending' = [pending EXCEPT ![k] = <<>>]
  /\ UNCHANGED <<lockHolder, slots, cancelled, calls, channel, transcript,
                 compactVars, history>>

\* RunTurn's guard refuses the turn before prepareInput has stored its input.
GuardRefuses(r) ==
  /\ To[r] \in Capped
  /\ Move(r, "entered", "failed")
  /\ dropped' = dropped \cup Range(input[r])
  /\ input' = [input EXCEPT ![r] = <<>>]
  /\ UNCHANGED <<lockHolder, slots, turnVars, channel, pending, transcript,
                 compactVars, midTurn, nextTurn>>

\* prepareInput appends the input to Engine.Messages.
PrepareInput(r) ==
  LET k == To[r] IN
  /\ Move(r, "entered", "looping")
  /\ transcript' = [transcript EXCEPT ![k] = @ \o input[r]]
  /\ input' = [input EXCEPT ![r] = <<>>]
  /\ UNCHANGED <<lockHolder, slots, turnVars, channel, pending, compactVars,
                 history>>

\* The head of the provider loop: a cancelled turn and one at its cap stop.
StopTurn(r) ==
  /\ r \in cancelled \/ calls[r] = MaxCalls
  /\ Move(r, "looping", "failed")
  /\ UNCHANGED <<lockHolder, slots, turnVars, mailVars, compactVars, history>>

\* Building the prompt or the provider client failed: no call is made.
PromptFails(r) ==
  /\ calls[r] = 0
  /\ Move(r, "looping", "failed")
  /\ UNCHANGED <<lockHolder, slots, turnVars, mailVars, compactVars, history>>

\* One API call.  From the second on, Agent.Run first drains the channel into
\* the conversation; runOpenAITurn never does.
CallModel(r) ==
  LET k == To[r] IN
  /\ r \notin cancelled /\ calls[r] < MaxCalls
  /\ Move(r, "looping", "calling")
  /\ calls' = [calls EXCEPT ![r] = @ + 1]
  /\ IF calls[r] > 0 /\ r \in Readers
     THEN /\ transcript' = [transcript EXCEPT ![k] = @ \o channel[k]]
          /\ channel' = [channel EXCEPT ![k] = <<>>]
     ELSE UNCHANGED <<transcript, channel>>
  /\ UNCHANGED <<lockHolder, slots, status, canceler, cancelled,
                 pending, input, compactVars, history>>

\* The call came back: tool calls to run and loop, a final answer, or an error
\* (a cancelled call fails, unless its answer was already on the way).
ModelAnswers(r) ==
  /\ \E to \in {"looping", "finished", "failed"} : Move(r, "calling", to)
  /\ UNCHANGED <<lockHolder, slots, turnVars, mailVars, compactVars, history>>

\* Session.turn sees RunTurn's error.
MarkError(r) ==
  /\ MuFree(To[r])
  /\ Move(r, "failed", "finished")
  /\ status' = [status EXCEPT ![To[r]] = "error"]
  /\ UNCHANGED <<lockHolder, slots, canceler, cancelled, calls, mailVars,
                 compactVars, history>>

\* requeueInjectionsTheTurnNeverReadLocked: the pending queue with what the turn
\* left in the channel behind it.
Requeued(k) == pending[k] \o channel[k]

\* Mutations of EndTurn: the cancel function outlives its turn; messages the
\* turn never read stay in the channel; they are thrown away.
EndTurnSetting(r, canceler2, pending2, channel2) ==
  /\ MuFree(To[r])
  /\ Move(r, "finished", "settling")
  /\ status' = [status EXCEPT ![To[r]] = "idle"]
  /\ canceler' = canceler2 /\ pending' = pending2 /\ channel' = channel2
  /\ UNCHANGED <<lockHolder, slots, cancelled, calls, input,
                 transcript, compactVars, history>>

EndTurnLeavingCanceler(r) ==
  EndTurnSetting(r, canceler, [pending EXCEPT ![To[r]] = Requeued(To[r])],
                 [channel EXCEPT ![To[r]] = <<>>])

EndTurnWithoutRequeue(r) ==
  EndTurnSetting(r, [canceler EXCEPT ![To[r]] = None], pending, channel)

EndTurnDiscarding(r) ==
  EndTurnSetting(r, [canceler EXCEPT ![To[r]] = None], pending,
                 [channel EXCEPT ![To[r]] = <<>>])

\* The deferred hold of Session.mu at the end of every turn.
EndTurn(r) ==
  LET k == To[r] IN
  /\ MuFree(k)
  /\ Move(r, "finished", "settling")
  /\ status' = [status EXCEPT ![k] = "idle"]
  /\ canceler' = [canceler EXCEPT ![k] = None]
  /\ pending' = [pending EXCEPT ![k] = Requeued(k)]
  /\ channel' = [channel EXCEPT ![k] = <<>>]
  /\ UNCHANGED <<lockHolder, slots, cancelled, calls, input, transcript,
                 compactVars, history>>

\* Enqueue's deferred releases, in the order they were stacked.
ReleaseSlot(r) ==
  /\ Move(r, "settling", "unlocking")
  /\ slots' = [slots EXCEPT ![LaneOf[r]] = @ \ {r}]
  /\ UNCHANGED <<lockHolder, turnVars, mailVars, compactVars, history>>

ReleaseLock(r) ==
  /\ Move(r, "unlocking", "done")
  /\ lockHolder' = [lockHolder EXCEPT ![To[r]] = None]
  /\ UNCHANGED <<slots, turnVars, mailVars, compactVars, history>>

\* The deadline of a spawned child survives withoutCallerCancellation.
TimeOut(r) ==
  /\ LaneOf[r] = "subagent"
  /\ pc[r] \in LivePcs \cup {"working"}
  /\ cancelled' = cancelled \cup {r}
  /\ UNCHANGED <<queueVars, status, canceler, calls, mailVars, compactVars,
                 history>>

-----------------------------------------------------------------------------
(* Control from outside the turn.                                          *)

CancelTurnOf(k) == cancelled' = cancelled \cup ({canceler[k]} \ {None})

\* Session.interrupt: the session reads idle at once, although the cancelled
\* turn has not unwound yet.
Interrupt(k) ==
  /\ k \in Interruptible /\ MuFree(k)
  /\ CancelTurnOf(k)
  /\ canceler' = [canceler EXCEPT ![k] = None]
  /\ status' = [status EXCEPT ![k] = "idle"]
  /\ UNCHANGED <<queueVars, calls, mailVars, compactVars, history>>

\* Session.stop.
Stop(k) ==
  /\ k \in Interruptible /\ MuFree(k)
  /\ CancelTurnOf(k)
  /\ status' = [status EXCEPT ![k] = "completed"]
  /\ UNCHANGED <<queueVars, canceler, calls, mailVars, compactVars, history>>

\* Mutation of CompactBegin: no refusal while the session reads running.
CompactBeginAnyTime(k) ==
  /\ k \in Compactable /\ MuFree(k)
  /\ compacting' = [compacting EXCEPT ![k] = TRUE]
  /\ snapshot' = [snapshot EXCEPT ![k] = transcript[k]]
  /\ UNCHANGED <<queueVars, turnVars, mailVars, history>>

\* handleBridgeCompact passes its Status test; it holds Session.mu from here on
\* while the summarizer's API call runs.
CompactBegin(k) ==
  /\ k \in Compactable /\ MuFree(k)
  /\ status[k] # "running"
  /\ compacting' = [compacting EXCEPT ![k] = TRUE]
  /\ snapshot' = [snapshot EXCEPT ![k] = transcript[k]]
  /\ UNCHANGED <<queueVars, turnVars, mailVars, history>>

\* The compacted conversation replaces the slice.  Messages it kept or
\* summarized stay accounted for; what somebody else appended in between is
\* gone, or the other writer's slice stands.
CompactEnd(k) ==
  /\ compacting[k]
  /\ compacting' = [compacting EXCEPT ![k] = FALSE]
  /\ snapshot' = [snapshot EXCEPT ![k] = <<>>]
  /\ \E written \in {snapshot[k], transcript[k]} :
       /\ transcript' = [transcript EXCEPT ![k] = written]
       /\ dropped' = dropped \cup (Range(transcript[k]) \ Range(written))
  /\ UNCHANGED <<queueVars, turnVars, channel, pending, input, midTurn, nextTurn>>

-----------------------------------------------------------------------------
\* What the goroutine of r does by itself, once it has joined the queue.
Progress(r) ==
  \/ AcquireLock(r) \/ AcquireSlot(r) \/ NoSession(r) \/ BeginTurn(r)
  \/ GuardRefuses(r) \/ PrepareInput(r) \/ StopTurn(r) \/ PromptFails(r)
  \/ CallModel(r) \/ ModelAnswers(r) \/ MarkError(r) \/ EndTurn(r)
  \/ ReleaseSlot(r) \/ ReleaseLock(r)

RequestStep(r) ==
  InjectIfBusy(r) \/ GoToQueue(r) \/ GiveUp(r) \/ TimeOut(r) \/ Progress(r)

Control(k) == Interrupt(k) \/ Stop(k) \/ CompactBegin(k) \/ CompactEnd(k)

Next ==
  \/ \E r \in Requests : RequestStep(r)
  \/ \E m \in Notes : Deliver(m) \/ QueuePending(m)
  \/ \E k \in Sessions : Control(k)

Spec == Init /\ [][Next]_vars

(***************************************************************************)
(* A request that has joined the queue keeps going.  Strong fairness,      *)
(* because Go's mutex hands itself to a waiter that has starved and blocked*)
(* channel sends are served in order, so a lock or a lane slot that is free*)
(* again and again is obtained; an API call ends, because its client has a *)
(* timeout, and so does the one a compaction makes.  Nobody has to send,   *)
(* give up, interrupt, stop or compact anything.                           *)
(***************************************************************************)
Fairness ==
  /\ \A r \in Requests : SF_vars(Progress(r))
  /\ \A k \in Sessions : WF_vars(CompactEnd(k))

FairSpec == Spec /\ Fairness

-----------------------------------------------------------------------------
(* Properties.                                                             *)

\* Queue.Enqueue promises "never two runs on one session", whichever lanes the
\* runs come through, and no more turns in a lane than the lane has slots.
OneTurnPerSession ==
  /\ \A q, r \in Requests : Live(q) /\ Live(r) /\ To[q] = To[r] => q = r
  /\ \A l \in Lanes :
       Cardinality({r \in Requests : LaneOf[r] = l /\ Live(r)}) <= LaneCap[l]

\* interrupt and stop reach the turn the session shows: a session that reads
\* running has a turn in flight and a cancel function of that very turn, and a
\* cancel function left behind never belongs to a turn that is over.
RunningCanBeCancelled ==
  \A k \in Sessions :
    /\ status[k] = "running" => canceler[k] # None
    /\ canceler[k] # None => canceler[k] \in LiveOn(k)

\* A message accepted mid-turn always has a turn in flight that will read it or
\* hand it to the pending queue: no message is left in a channel nobody reads.
ChannelHasReader ==
  \A k \in Sessions : channel[k] # <<>> => LiveOn(k) # {}

\* What a session shows of its turn is of use: the turn can be cancelled, and
\* it can be spoken to (Session.interrupt, stop and injectIfRunning).
TurnsCanBeReached == RunningCanBeCancelled /\ ChannelHasReader

InputsOf(k) == UNION {Range(input[r]) : r \in {q \in Requests : To[q] = k}}

\* s is how t begins.
IsPrefixOf(s, t) == Len(s) <= Len(t) /\ \A i \in DOMAIN s : s[i] = t[i]

Before(seq, a, b) ==
  \E i, j \in DOMAIN seq : i < j /\ seq[i] = a /\ seq[j] = b

\* Messages that took the same route into the session are read in the order
\* they were accepted, across turns, requeues and overflows of the channel.
RoutesAreFIFO ==
  \A k \in Sessions : \A route \in {midTurn[k], nextTurn[k]} :
    \A i, j \in DOMAIN route :
      i < j /\ route[j] \in Range(transcript[k]) =>
        \/ route[i] \in dropped
        \/ Before(transcript[k], route[i], route[j])

\* What a session took and has not read.
Unread(k) == Range(channel[k]) \cup Range(pending[k]) \cup InputsOf(k)

\* The session as its senders see it.
Box == INSTANCE Mailbox WITH
  Conversations <- Sessions,
  Senders       <- Messages,
  Addressee     <- To,
  Lossy         <- Capped \cup (Interruptible \cap Compactable),
  waiting       <- [k \in Sessions |-> Unread(k)],
  read          <- transcript,
  lost          <- dropped

\* The queue, the channel, the turn bracket and the compaction together keep
\* the mailbox's promise: a message is read once, the conversation only grows,
\* and a session that has neither a guard nor an interruptible turn beside
\* compactions loses nothing.
ImplementsMailbox == Box!Spec

\* A session nobody interrupts never has a compaction and a turn at work on its
\* conversation together (the refusal in handleBridgeCompact).
CompactionExcludesUninterruptedTurn ==
  \A k \in Sessions \ Interruptible : compacting[k] => WritersOf(k) = {}

\* A conversation has one writer: one turn, or one compaction that no
\* interrupted turn is still unwinding beside (Queue.Enqueue, handleBridgeCompact).
TurnsAreSerialized == OneTurnPerSession /\ CompactionExcludesUninterruptedTurn

\* Only a guard refusal, or a compaction beside an interrupted turn, loses a
\* message the session took.
LossNeedsACause ==
  \A m \in dropped : To[m] \in Capped \/ To[m] \in Interruptible \cap Compactable

\* Every caller that asked for a turn gets its answer: no combination of lane
\* caps, session locks, compactions and interrupts leaves it waiting forever.
EveryRequestReturns ==
  \A r \in Requests : pc[r] = "wantLock" ~> pc[r] = "done"

-----------------------------------------------------------------------------
(* The strengthening that makes the safety properties inductive.           *)

\* Whoever is past Enqueue's Lock holds the mutex of its session, and whoever
\* is past the semaphore occupies a slot of its lane.
QueueInv ==
  /\ \A r \in Requests : pc[r] \in LockPcs => lockHolder[To[r]] = r
  /\ \A r \in Requests : pc[r] \in SlotPcs => r \in slots[LaneOf[r]]
  /\ \A l \in Lanes : Cardinality(slots[l]) <= LaneCap[l]

\* While RunTurn writes an uninterruptible conversation, the session reads
\* running; a compaction of such a session finds the conversation as it left it.
WriterInv ==
  \A k \in Sessions \ Interruptible :
    /\ WritersOf(k) # {} => status[k] = "running"
    /\ compacting[k] => WritersOf(k) = {} /\ snapshot[k] = transcript[k]

\* No message strays into the mail of another session.
AddressInv ==
  /\ \A k \in Sessions :
       \A m \in Range(channel[k]) \cup Range(pending[k]) \cup Range(transcript[k])
                \cup Range(snapshot[k]) : To[m] = k
  /\ \A r \in Requests : \A m \in Range(input[r]) : To[m] = To[r]
  /\ \A k \in Sessions : compacting[k] => k \in Compactable

\* Where the messages of a session are: read, taken by a turn, queued, offered.
Held(k) == Range(transcript[k]) \cup InputsOf(k) \cup Range(pending[k]) \cup Range(channel[k])

\* A note is sent when one of the routes took it, a request's message no later
\* than when its turn begins or the turn in flight takes it.
Sent(m) ==
  IF m \in Requests THEN pc[m] \notin {"new", "wantLock", "wantSlot", "working"}
  ELSE m \in Accepted(To[m])

\* The mail of one session: no message twice, and the conversation a compaction
\* read is how the present one begins.
MailOf(k) ==
  /\ IsInjective(transcript[k]) /\ IsInjective(pending[k]) /\ IsInjective(channel[k])
  /\ Range(transcript[k]) \cap InputsOf(k) = {}
  /\ (Range(transcript[k]) \cup InputsOf(k)) \cap Range(pending[k]) = {}
  /\ (Range(transcript[k]) \cup InputsOf(k) \cup Range(pending[k])) \cap Range(channel[k]) = {}
  /\ compacting[k] => IsPrefixOf(snapshot[k], transcript[k])

\* No message is in two places or twice in one, only a turn that has not stored
\* its input has any, and what a session holds or lost was sent.
MailInv ==
  /\ \A r \in Requests : IsInjective(input[r]) /\ (input[r] # <<>> => pc[r] = "entered")
  /\ \A k \in Sessions : MailOf(k) /\ \A m \in Held(k) : Sent(m)
  /\ \A m \in dropped : Sent(m)

\* a leaves its session's mail before b does.
Ahead(k, a, b) ==
  \/ Before(transcript[k], a, b) \/ Before(pending[k], a, b) \/ Before(channel[k], a, b)
  \/ \E r \in Requests : To[r] = k /\ Before(input[r], a, b)
  \/ a \in Range(transcript[k]) /\ b \in InputsOf(k) \cup Range(pending[k]) \cup Range(channel[k])
  \/ a \in InputsOf(k) /\ b \in Range(pending[k]) \cup Range(channel[k])
  \/ a \in Range(pending[k]) /\ b \in Range(channel[k])

\* What a route took is lost, or stands in line in the order it was taken.
InLine(k, route) ==
  \A i, j \in DOMAIN route :
    i < j /\ route[j] \in Held(k) => route[i] \in dropped \/ Ahead(k, route[i], route[j])

\* The messages the channel took wait in the pending queue only between turns.
RoutesOf(k) ==
  /\ Range(midTurn[k]) \cap Range(nextTurn[k]) = {}
  /\ Range(channel[k]) \subseteq Range(midTurn[k])
  /\ LiveOn(k) # {} => Range(pending[k]) \cap Range(midTurn[k]) = {}
  /\ \A m \in Accepted(k) : Sent(m) /\ m \in Held(k) \cup dropped
  /\ InLine(k, midTurn[k]) /\ InLine(k, nextTurn[k])

RouteInv == \A k \in Sessions : RoutesOf(k)
=============================================================================
