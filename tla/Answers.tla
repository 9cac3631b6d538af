------------------------------ MODULE Answers ------------------------------
(***************************************************************************)
(* What whoever asked is sent, and what they are owed.                    *)
(*                                                                        *)
(* A message for a session has an asker: a publisher on the bus, a        *)
(* request over HTTP that is answered with a stream of events, one that   *)
(* is not, or the goroutine that brings a sub-agent's result.  This is    *)
(* the part of the state an asker is concerned with and what they may     *)
(* expect of it; the steps are in Streams.                                *)
(***************************************************************************)
EXTENDS Naturals, Sequences, FiniteSets, SequencesExt

CONSTANTS
  Jobs,        \* the messages, and the sub-agents that are spawned
  Main,        \* the session at the top
  Situations   \* the cases explored, one of them per behaviour

VARIABLES
  situation,
  pc,        \* where each job stands
  verdict,   \* of a job's turn, "none" before it ends
  spoken,    \* the text its turn has spoken
  heard,     \* what the asker has been sent
  outbound,  \* the answers on chat.outbound
  turnOf,    \* which turn of its session was the job's
  overtook   \* the requests that came to a sub-agent before its task began

Kind(j) == situation.kind[j]
To(j) == situation.to[j]
OnBus(j) == Kind(j) \in {"bus", "spawn"}
OnHttp(j) == Kind(j) \in {"stream", "bridge"}

\* The text of the session it asked, as the asker has been sent it.
TextOf(j) ==
  FlattenSeq([i \in DOMAIN heard[j] |->
    IF heard[j][i].from = To(j) /\ heard[j][i].kind = "text" THEN <<heard[j][i].n>> ELSE <<>>])

\* The events that close a turn, by their places.
Closes(j) == {i \in DOMAIN heard[j] : heard[j][i].kind \in {"done", "result", "error"}}

\* One event closes the turn, behind everything else of that session.
ClosedOnce(j) ==
  \E i \in DOMAIN heard[j] :
    /\ Closes(j) = {i} /\ heard[j][i].from = To(j)
    /\ \A k \in DOMAIN heard[j] : heard[j][k].from = To(j) => k <= i

\* Whoever asked has been sent the text of the turn that answered, all of it and
\* in order, and nothing of a turn of another session.  On the bus the last
\* that is ever heard of a message is that it is done, and what is published as
\* its answer is what was streamed; over HTTP a turn is closed by one event,
\* after everything else of its own (server/bus.go handleBusMessage;
\* server/bus_delta.go busDeltaFor; server/server.go run; server/api_run.go
\* handleRunStream; server/api_bridge.go handleBridgeSendStream;
\* server/spawn_delivery.go deliverResult; server/spawn.go
\* newSubagentEventForwarder).  Not so of a request that came to a sub-agent
\* before its task began: it takes the callback, and is sent the task's turn.
AnswersAreWhole ==
  \A j \in Jobs \ overtook : (pc[j] = "ended" /\ (OnBus(j) \/ OnHttp(j))) =>
    /\ TextOf(j) = spoken[j]
    /\ OnBus(j) =>
         /\ heard[j] # <<>>
         /\ \A i \in DOMAIN heard[j] : heard[j][i].kind = "done" <=> i = Len(heard[j])
         /\ outbound[j] = IF spoken[j] = <<>> \/ verdict[j] = "panic" THEN <<>> ELSE <<spoken[j]>>
    /\ OnHttp(j) =>
         IF verdict[j] \in {"ok", "fail"} THEN ClosedOnce(j) ELSE Closes(j) = {}

\* What a sub-agent has to say is never for a request whose session had begun a
\* later turn when it was said (server/spawn.go emitToParentStream).
ForwardsFollowTheStream ==
  \A j \in Jobs \ overtook : turnOf[j] # 0 =>
    \A e \in ToSet(heard[j]) : e.from # To(j) => e.at <= turnOf[j]
=============================================================================
