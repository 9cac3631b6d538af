------------------------------ MODULE Streams ------------------------------
(***************************************************************************)
(* Who hears what a turn says.                                            *)
(*                                                                        *)
(* A message for a session comes over the bus, over HTTP with a stream of *)
(* events for an answer, or over HTTP without one.  It joins the turn     *)
(* that is running or waits for a turn of its own, and then its callback  *)
(* is the session's: what the engine has to say goes to it.  A turn may   *)
(* spawn sub-agents.  They run beside it and after it, and their progress *)
(* goes up to whatever callback the session above them has just then.    *)
(* When one is done its result is a message for the session above, from a *)
(* goroutine of the server that publishes the answer on the bus.          *)
(*                                                                        *)
(* The session of a sub-agent goes by the name of the job that spawned    *)
(* it.  What becomes of messages that join a turn is in SessionTurns, of  *)
(* sub-agents in Spawns, and streams that only listen are in              *)
(* SessionLifecycle.                                                      *)
(***************************************************************************)
EXTENDS Answers

CONSTANTS
  None, Forward, \* no callback; that of a sub-agent
  InboxCap     \* messages the subscription holds

ASSUME StreamsAssumption ==
  /\ {Main, None, Forward} \cap Jobs = {} /\ None # Forward /\ Main \notin {None, Forward}
  /\ InboxCap \in Nat \ {0}
  /\ \A c \in Situations :
       /\ c.kind \in [Jobs -> {"bus", "stream", "bridge", "run", "spawn", "none"}]
       /\ c.to \in [Jobs -> {Main} \cup {j \in Jobs : c.kind[j] = "spawn"}]
       /\ c.says \subseteq {"text", "thinking", "tool", "status"} /\ c.most \in Nat
       /\ c.faults \subseteq {"fail", "panic", "deadline", "full"}

VARIABLES
  inbox,     \* the subscription's channel
  locks,     \* the queue's lock of each session: the job that has it
  running,   \* the sessions in a turn
  onEvent,   \* Session.onEvent: a job, for the callback of its request, or a mark
  hooks,     \* the callback the engine of a session was given for this turn
  aim, made, \* the callback a sub-agent has found above it and not called yet, and
             \* how many turns of that one's session had begun then
  events,    \* how much a job's turn has emitted
  full,      \* the text a publisher on the bus has gathered
  starts     \* turns begun on a session

turnVars == <<verdict, events, spoken>>
aims == <<aim, made>>
sideVars == <<full, heard, outbound>>
vars == <<situation, pc, inbox, locks, running, onEvent, hooks, aims, turnVars, sideVars,
          starts, turnOf, overtook>>

Sessions == {Main} \cup Jobs

\* The session a job's turn is on: a sub-agent's task is on its own, and its
\* result is for the one above.
Session(j) == IF pc[j] = "working" THEN j ELSE To(j)
InTurn(j) == pc[j] \in {"turn", "working"}

Move(j, from, to) == pc[j] = from /\ pc' = [pc EXCEPT ![j] = to]

-----------------------------------------------------------------------------
(* Callbacks *)

Event(kind, from, n, at) == [kind |-> kind, from |-> from, n |-> n, at |-> at]

\* What the bus is told of an event: prose and tools, and nothing of a kind it
\* does not know.  An answer to a sub-agent's result is prose only.
\* Mutation of BusDelta: an event of an unknown kind goes out as a status.
BusDeltaOfAll(j, event) ==
  IF Kind(j) = "spawn" /\ event.kind \notin {"text", "thinking"} THEN <<>>
  ELSE <<[event EXCEPT !.kind = IF @ \in {"text", "thinking", "tool"} THEN @ ELSE "status"]>>

BusDelta(j, event) ==
  IF event.kind \in {"text", "thinking"} \/ (event.kind = "tool" /\ Kind(j) = "bus")
  THEN <<event>> ELSE <<>>

\* What the stream of llm-bridge is sent: done is its result, and everything it
\* has no name for is a message of the system.
BridgeEvent(event) ==
  [event EXCEPT !.kind = CASE @ = "done" -> "result"
                           [] @ \in {"status", "agent"} -> "system"
                           [] OTHER -> @]

Sent(j, event) ==
  CASE OnBus(j) -> BusDelta(j, event)
    [] Kind(j) = "bridge" -> <<BridgeEvent(event)>>
    [] OTHER -> <<event>>

\* A callback is called, whether its request has returned or not.
Call(listener, event) ==
  IF listener \notin Jobs THEN UNCHANGED sideVars
  ELSE /\ heard' = [heard EXCEPT ![listener] = @ \o Sent(listener, event)]
       /\ full' = IF OnBus(listener) /\ event.kind = "text"
                  THEN [full EXCEPT ![listener] = Append(@, event.n)] ELSE full
       /\ UNCHANGED outbound

\* The sessions an event passes on its way up: the one above, and the one above
\* each whose callback is that of a sub-agent, which passes it on.
Passed(session) ==
  {s \in Sessions : \A X \in SUBSET Sessions :
     (To(session) \in X /\ \A t \in X : onEvent[t] = Forward => To(t) \in X) => s \in X}

\* The callback above a session, at this moment, is that of the last of them.
Above(session) == {onEvent[s] : s \in Passed(session)} \ {Forward}

Aims(j, listener) ==
  /\ aim' = [aim EXCEPT ![j] = listener]
  /\ made' = [made EXCEPT ![j] = IF listener \in Jobs THEN starts[To(listener)] ELSE 0]

\* Mutation of Aim: the callback is the one that was there when it was spawned.
AimAtSpawn(j) ==
  \E listener \in IF pc[j] = "away" THEN Above(j) ELSE {aim[j]} : Aims(j, listener)

\* A sub-agent looks up the callback above it for every event.
Aim(j) == \E listener \in Above(j) : Aims(j, listener)

-----------------------------------------------------------------------------
(* The bus *)

\* A sub-agent's session is addressed once it is there.
Addressable(j) == To(j) # Main => pc[To(j)] # "away"

\* A message arrives; one that does not fit is dropped.
Deliver(j) ==
  /\ Kind(j) = "bus" /\ pc[j] = "away" /\ Addressable(j)
  /\ IF Len(inbox) < InboxCap
     THEN pc' = [pc EXCEPT ![j] = "inbox"] /\ inbox' = Append(inbox, j)
     ELSE pc' = [pc EXCEPT ![j] = "dropped"] /\ UNCHANGED inbox
  /\ UNCHANGED <<situation, locks, running, onEvent, hooks, aims, turnVars, sideVars, starts,
                 turnOf, overtook>>

\* The listener gives each message a goroutine, which says it has it.
HandleBusMessage ==
  /\ inbox # <<>>
  /\ pc' = [pc EXCEPT ![Head(inbox)] = "asking"]
  /\ heard' = [heard EXCEPT ![Head(inbox)] = Append(@, Event("status", Main, 0, 0))]
  /\ inbox' = Tail(inbox)
  /\ UNCHANGED <<situation, locks, running, onEvent, hooks, aims, turnVars, full, outbound,
                 starts, turnOf, overtook>>

\* A request over HTTP.
Request(j) ==
  /\ Kind(j) \in {"stream", "bridge", "run"}
  /\ Move(j, "away", "asking")
  /\ Addressable(j)
  /\ UNCHANGED <<situation, inbox, locks, running, onEvent, hooks, aims, turnVars, sideVars,
                 starts, turnOf, overtook>>

-----------------------------------------------------------------------------
(* A turn *)

\* A message joins the turn that is running, unless that one's channel is full,
\* and its asker hears no more of it; the others wait for a turn.
Join(j) ==
  /\ IF To(j) \in running
     THEN \/ Move(j, "asking", "returned")
          \/ "full" \in situation.faults /\ Move(j, "asking", "queued")
     ELSE Move(j, "asking", "queued")
  /\ UNCHANGED <<situation, inbox, locks, running, onEvent, hooks, aims, turnVars, sideVars,
                 starts, turnOf, overtook>>

\* It takes the callback of a sub-agent whose task has yet to begin, too.
Overtakes(j) ==
  overtook' = overtook \cup {i \in {j} : To(i) # Main /\ pc[To(i)] \in {"told", "ready"}}

\* The job has the lock of its session, and its callback is the session's.
TakeOver(j) ==
  /\ Move(j, "queued", "placed")
  /\ locks[To(j)] = None
  /\ locks' = [locks EXCEPT ![To(j)] = j]
  /\ onEvent' = [onEvent EXCEPT ![To(j)] = IF Kind(j) = "run" THEN None ELSE j]
  /\ Overtakes(j)
  /\ UNCHANGED <<situation, inbox, running, hooks, aims, turnVars, sideVars, starts, turnOf>>

\* A message of the bus has five minutes, waiting included.
Expire(j) ==
  /\ "deadline" \in situation.faults /\ Kind(j) = "bus"
  /\ Move(j, "queued", "returned")
  /\ locks[To(j)] = None
  /\ verdict' = [verdict EXCEPT ![j] = "fail"]
  /\ UNCHANGED <<situation, inbox, locks, running, onEvent, hooks, aims, events, spoken,
                 sideVars, starts, turnOf, overtook>>

Begins(j, s) ==
  /\ running' = running \cup {s}
  /\ hooks' = [hooks EXCEPT ![s] = onEvent[s]]
  /\ starts' = [starts EXCEPT ![s] = @ + 1]
  /\ turnOf' = [turnOf EXCEPT ![j] = starts[s] + 1]

StartTurn(j) ==
  /\ Move(j, "placed", "turn")
  /\ Begins(j, To(j))
  /\ UNCHANGED <<situation, inbox, locks, onEvent, aims, turnVars, sideVars, overtook>>

\* The engine speaks, thinks, uses a tool, or says where it stands.  Of a
\* sub-agent only its thinking and where it stands go up.
Emit(j) ==
  /\ InTurn(j) /\ events[j] < situation.most
  /\ events' = [events EXCEPT ![j] = @ + 1]
  /\ \E kind \in situation.says :
       /\ spoken' = IF kind = "text" THEN [spoken EXCEPT ![j] = Append(@, events[j])] ELSE spoken
       /\ IF hooks[Session(j)] = Forward /\ kind \in {"thinking", "status"}
          THEN Move(j, "working", "forwarding") /\ Aim(j) ELSE UNCHANGED <<pc, aims>>
       /\ Call(hooks[Session(j)], Event(kind, Session(j), events[j], 0))
  /\ UNCHANGED <<situation, inbox, locks, running, onEvent, hooks, verdict, starts, turnOf,
                 overtook>>

\* The turn is over; a panic in it unwinds through the same deferred steps.
EndTurn(j) ==
  /\ pc[j] = "turn"
  /\ \E how \in {"ok"} \cup ({"fail", "panic"} \cap situation.faults) :
       /\ how = "panic" => Kind(j) # "spawn"
       /\ verdict' = [verdict EXCEPT ![j] = how]
       /\ pc' = [pc EXCEPT ![j] = "finishing"]
  /\ running' = running \ {To(j)}
  /\ UNCHANGED <<situation, inbox, locks, onEvent, hooks, aims, events, spoken, sideVars,
                 starts, turnOf, overtook>>

\* Mutation of Finish: the lock is given back where the work returns, and a
\* panic does not return.
FinishUndeferred(j) ==
  /\ Move(j, "finishing", "returned")
  /\ locks' = IF verdict[j] = "panic" THEN locks ELSE [locks EXCEPT ![To(j)] = None]
  /\ IF verdict[j] = "ok" /\ Kind(j) # "run"
     THEN Call(j, Event("done", To(j), 0, 0)) ELSE UNCHANGED sideVars
  /\ UNCHANGED <<situation, inbox, running, onEvent, hooks, aims, turnVars, starts, turnOf,
                 overtook>>

\* One that went well is persisted and done, and the lock is given back.  The
\* callback stays the session's.
Finish(j) ==
  /\ Move(j, "finishing", "returned")
  /\ locks' = [locks EXCEPT ![To(j)] = None]
  /\ IF verdict[j] = "ok" /\ Kind(j) # "run"
     THEN Call(j, Event("done", To(j), 0, 0)) ELSE UNCHANGED sideVars
  /\ UNCHANGED <<situation, inbox, running, onEvent, hooks, aims, turnVars, starts, turnOf,
                 overtook>>

\* The request returns to who asked.  Over HTTP an error is the last event, and
\* then the response is nobody's to write; on the bus done is the last, and the
\* text that was gathered is published whole.  A panic has no text.
Return(j) ==
  /\ Move(j, "returned", "ended")
  /\ LET failed == verdict[j] = "fail" \/ (verdict[j] = "panic" /\ OnBus(j))
         last == (IF failed /\ Kind(j) \in {"bus", "stream", "bridge"}
                  THEN <<Event("error", To(j), 0, 0)>> ELSE <<>>)
                 \o IF OnBus(j) THEN <<Event("done", To(j), 0, 0)>> ELSE <<>>
     IN heard' = [heard EXCEPT ![j] = @ \o last]
  /\ outbound' = IF OnBus(j) /\ full[j] # <<>> /\ verdict[j] # "panic"
                 THEN [outbound EXCEPT ![j] = Append(@, full[j])] ELSE outbound
  /\ UNCHANGED <<situation, inbox, locks, running, onEvent, hooks, aims, turnVars, full, starts,
                 turnOf, overtook>>

-----------------------------------------------------------------------------
(* A sub-agent *)

\* A turn spawns it: its callback forwards to the session above, and the first
\* thing that goes up is that it was spawned.
Spawn(j) ==
  /\ Kind(j) = "spawn" /\ Move(j, "away", "told")
  /\ \E k \in Jobs : InTurn(k) /\ Session(k) = To(j)
  /\ onEvent' = [onEvent EXCEPT ![j] = Forward]
  /\ Aim(j)
  /\ UNCHANGED <<situation, inbox, locks, running, hooks, turnVars, sideVars, starts, turnOf,
                 overtook>>

\* What it found above it is called, which may have returned by then.
CallAbove(j) ==
  /\ \/ Move(j, "told", "ready")
     \/ Move(j, "forwarding", "working")
     \/ Move(j, "worked", "reporting")
  /\ Call(aim[j], Event("agent", j, events[j], made[j]))
  /\ UNCHANGED <<situation, inbox, locks, running, onEvent, hooks, aims, turnVars, starts,
                 turnOf, overtook>>

StartWork(j) ==
  /\ Move(j, "ready", "working")
  /\ locks[j] = None
  /\ locks' = [locks EXCEPT ![j] = j]
  /\ Begins(j, j)
  /\ UNCHANGED <<situation, inbox, onEvent, aims, turnVars, sideVars, overtook>>

\* Its turn is over, and what goes up last is that it is done.
EndWork(j) ==
  /\ Move(j, "working", "worked")
  /\ running' = running \ {j}
  /\ Aim(j)
  /\ UNCHANGED <<situation, inbox, locks, onEvent, hooks, turnVars, sideVars, starts, turnOf,
                 overtook>>

\* Its result joins the turn of the session above, or is a message for it.
Report(j) ==
  /\ IF To(j) \in running
     THEN \/ Move(j, "reporting", "joined")
          \/ "full" \in situation.faults /\ Move(j, "reporting", "asking")
     ELSE Move(j, "reporting", "asking")
  /\ locks' = [locks EXCEPT ![j] = None]
  /\ events' = [events EXCEPT ![j] = 0] /\ spoken' = [spoken EXCEPT ![j] = <<>>]
  /\ turnOf' = [turnOf EXCEPT ![j] = 0]
  /\ UNCHANGED <<situation, inbox, running, onEvent, hooks, aims, verdict, sideVars, starts,
                 overtook>>

-----------------------------------------------------------------------------
(* Specification *)

Init ==
  /\ situation \in Situations
  /\ pc = [j \in Jobs |-> "away"] /\ inbox = <<>>
  /\ locks = [s \in Sessions |-> None] /\ running = {}
  /\ onEvent = [s \in Sessions |-> None] /\ hooks = onEvent
  /\ aim = [j \in Jobs |-> None] /\ made = [j \in Jobs |-> 0]
  /\ verdict = [j \in Jobs |-> "none"] /\ events = made /\ spoken = [j \in Jobs |-> <<>>]
  /\ full = spoken /\ heard = spoken /\ outbound = spoken
  /\ starts = [s \in Sessions |-> 0] /\ turnOf = made /\ overtook = {}

Step(j) ==
  \/ Join(j) \/ TakeOver(j) \/ Expire(j) \/ StartTurn(j) \/ Finish(j) \/ Return(j)
  \/ CallAbove(j) \/ StartWork(j) \/ Report(j)

End(j) == EndTurn(j) \/ EndWork(j)

Next ==
  \/ HandleBusMessage
  \/ \E j \in Jobs : Deliver(j) \/ Request(j) \/ Spawn(j) \/ Emit(j) \/ Step(j) \/ End(j)

Spec == Init /\ [][Next]_vars

\* The server goes on, and a turn ends: it has its limits of calls and of time.
Fairness ==
  /\ WF_vars(HandleBusMessage)
  /\ \A j \in Jobs : WF_vars(Step(j)) /\ WF_vars(End(j))

FairSpec == Spec /\ Fairness

-----------------------------------------------------------------------------
(* Properties *)

\* A message that was taken in is concluded on the bus, whatever comes of its
\* turn (server/bus.go handleBusMessage, its recover and its deadline).
MessagesAreConcluded ==
  \A j \in Jobs : (pc[j] = "inbox") ~> (pc[j] = "ended")
=============================================================================
