----------------------------- MODULE SessionLog -----------------------------
(***************************************************************************)
(* What a session leaves behind: its log (session.jsonl, and the copy sent *)
(* to logstack), its rows in the session database, and the transcript and *)
(* turn counter in the workspace it shares with every other session of its *)
(* agent in its repository.                                                *)
(*                                                                        *)
(* A session opens by reading or clearing the workspace, marks the         *)
(* sessions whose process is gone, and registers itself.  Its turns log   *)
(* the user's text, a request for every call of the provider, the calls of *)
(* tools and their results, and the reply; they end by saving what a       *)
(* resume needs.  It may be closed at any time, also under a turn, and a   *)
(* process may die between any two steps.                                  *)
(*                                                                        *)
(* Every entry of the log is a step of its own, so every prefix of a log   *)
(* is one a crash can leave.  A usage of 1 stands for what one answer of   *)
(* the provider costs, in tokens of every kind and in money.               *)
(***************************************************************************)
EXTENDS Naturals, Sequences, FiniteSets, SequencesExt

CONSTANTS
  Sessions, Processes,
  ProcessOf,          \* the process that runs a session
  PidOf,              \* its pid: a later process may get the pid of a dead one
  CheckpointInterval, \* a checkpoint every so many turns
  Situations          \* the cases explored, one of them per behaviour

\* What may become of a call of a tool and of the one chained to it.
Outcomes == {"ran", "failed", "chained", "chain failed", "chain refused", "chain dropped",
             "failed with chain"}

ASSUME SessionLogAssumption ==
  /\ ProcessOf \in [Sessions -> Processes]
  /\ CheckpointInterval \in Nat \ {0}
  /\ \A c \in Situations :
       /\ c.sessions \subseteq Sessions /\ c.crashes \subseteq Processes
       /\ c.turns \in [Sessions -> Nat] /\ c.calls \in Nat
       /\ c.kinds \subseteq {"fresh", "resumed", "detached"}
       /\ c.served \subseteq {"anthropic", "openai"}
       /\ c.tools \subseteq Seq(Outcomes)
       /\ c.faults \subseteq {"mode", "guard", "context", "api", "stop", "empty", "cut", "disk"}
       /\ c.together \in BOOLEAN /\ c.overlap \in BOOLEAN

VARIABLES
  situation,          \* the case, chosen at the start
  alive, dead,        \* the processes that run and those that have died
  pc,                 \* where a session stands
  kind,               \* fresh, resumed or detached
  closing,            \* how far its close has come
  log, lost, todo,    \* its log, the entries that came after the file was
                      \*   closed, and the ones still to be written
  trip, counter,      \* Session.turn (calls of the provider) and Turn.Counter (turns)
  calls, via,         \* calls of this turn, and the provider of the open one
  spent, answered,    \* usage of this turn, and answers received in all
  totals, billed,     \* the log's cumulative usage, and the engine's and the guard's
  checkpoint,         \* the turn and the usage checkpoint.json tells of
  status, task, rows, \* its row of sessions, and its rows of turns: the answer in each
  list, doomed,       \* rows a scan has read and not judged; those already dead by then
  transcript,         \* messages.json of the workspace
  turnCounter,        \* turn_counter.json beside it
  loaded              \* what a session read of the two

diskVars == <<transcript, turnCounter>>
rowVars == <<status, task, rows>>
logVars == <<log, lost>>
turnVars == <<trip, counter, calls, via, spent, answered, totals, billed, checkpoint>>
processVars == <<situation, alive, dead>>
vars == <<processVars, pc, kind, closing, logVars, todo, turnVars, rowVars, list, doomed,
          diskVars, loaded>>

C == INSTANCE Conversation
       WITH KeepRecentTurns <- 0, ToolResultKeepFull <- 0, ToolResultDrop <- 0,
            ToolCallKeepFull <- 0, TriggerMessages <- 0, SummaryTurns <- 0

-----------------------------------------------------------------------------
(* Entries *)

Entry(role, n, id) ==
  [role |-> role, trip |-> n, id |-> id, failed |-> FALSE, text |-> TRUE, used |-> 0]

\* A tool call and the one chained to it.
Primary(k) == 2 * k
Chained(k) == 2 * k + 1

CallEntry(n, id) == Entry("tool_call", n, id)
ResultEntry(n, id, failed) == [Entry("tool_result", n, id) EXCEPT !.failed = failed]

\* What the hooks report of one call: the tool it names and the one chained to
\* it.  A chain that did not run is reported as a result of its own: with a
\* call when the input shows one, and without when the chain was refused or its
\* primary call failed.
Reported(n, k, outcome) ==
  LET call == CallEntry(n, Primary(k))
      chain == CallEntry(n, Chained(k))
      result(failed) == ResultEntry(n, Primary(k), failed)
      note(failed) == ResultEntry(n, Chained(k), failed)
  IN CASE outcome = "ran" -> <<call, result(FALSE)>>
       [] outcome = "failed" -> <<call, result(TRUE)>>
       [] outcome = "chained" -> <<call, result(FALSE), chain, note(FALSE)>>
       [] outcome = "chain failed" -> <<call, result(FALSE), chain, note(TRUE)>>
       [] outcome = "chain refused" -> <<call, result(FALSE), note(TRUE)>>
       [] outcome = "chain dropped" -> <<call, chain, result(FALSE), note(TRUE)>>
       [] outcome = "failed with chain" -> <<call, note(FALSE), result(TRUE)>>

-----------------------------------------------------------------------------
(* Readers of a log *)

\* LoadMessages: the conversation an entry continues.  Calls go with the
\* assistant before them, results with the results before them.
Continued(ms, e) ==
  LET after(role) == ms # <<>> /\ Last(ms).role = role
      use == <<C!Use(e.id, "shell")>>
      result == <<C!Result(e.id, "said", e.failed)>>
  IN CASE e.role = "user" -> Append(ms, C!User(<<C!Text("input", e.id)>>))
       [] e.role = "assistant" ->
            Append(ms, C!Assistant(IF e.text THEN <<C!Text("answer", e.id)>> ELSE <<>>))
       [] e.role = "tool_call" ->
            IF after("assistant") THEN C!AppendToLast(ms, use) ELSE Append(ms, C!Assistant(use))
       [] e.role = "tool_result" ->
            IF after("user") /\ Last(ms).blocks[1].kind = "result"
            THEN C!AppendToLast(ms, result) ELSE Append(ms, C!User(result))
       [] OTHER -> ms

\* Mutation of LoadMessages: interrupted calls are left open.
LoadMessagesUnrepaired(es) == C!RepairAlternation(FoldLeft(Continued, <<>>, es))

LoadMessages(es) ==
  C!RepairAlternation(C!RepairDanglingToolUse(C!RepairEmptyContent(
    FoldLeft(Continued, <<>>, es))))

\* What a row of numbers adds up to.
SumOf(ns) ==
  LET sum[n \in 0 .. Len(ns)] == IF n = 0 THEN 0 ELSE sum[n - 1] + ns[n]
  IN sum[Len(ns)]

UsageOf(es, roles) ==
  SumOf([i \in DOMAIN es |-> IF es[i].role \in roles THEN es[i].used ELSE 0])

\* Mutation of LogstackUsage: the closing line counts like a turn.
LogstackUsageWithTotals(es) == UsageOf(es, {"assistant", "system"})

\* What logstack adds up: toLogstackEntry leaves the closing line's totals out.
LogstackUsage(es) == UsageOf(es, {"assistant"})

\* The stats events of the timeline rebuilt from the log.
TimelineUsage(es) == UsageOf(es, {"assistant"})

-----------------------------------------------------------------------------
(* Writing *)

FileIsOpen(s) == closing[s].at \in {"open", "totalled"}
DbIsOpen(s) == closing[s].at # "closed"

\* Session.write: an entry written after the file was closed still goes to logstack.
Write(s, e) ==
  IF FileIsOpen(s)
  THEN log' = [log EXCEPT ![s] = Append(@, e)] /\ UNCHANGED lost
  ELSE lost' = [lost EXCEPT ![s] = Append(@, e)] /\ UNCHANGED log

\* A statement on a closed database fails, and nobody looks.
Store(s, file, row) == file' = IF DbIsOpen(s) THEN [file EXCEPT ![s] = row] ELSE file

Move(s, from, to) ==
  /\ pc[s] = from /\ ProcessOf[s] \in alive
  /\ pc' = [pc EXCEPT ![s] = to]

-----------------------------------------------------------------------------
(* Opening a session *)

Absent == [state |-> "absent", upto |-> 0, cut |-> FALSE]
Torn == [state |-> "torn", upto |-> 0, cut |-> FALSE]
Whole(upto, cut) == [state |-> "whole", upto |-> upto, cut |-> cut]

\* A counter that cannot be parsed counts as 0.
CounterIs(n) == [torn |-> FALSE, n |-> n]
TornCounter == [torn |-> TRUE, n |-> 0]

Finished(s) ==
  \/ pc[s] \in {"unborn", "failed"} \/ ProcessOf[s] \in dead
  \/ closing[s].at = "closed" /\ pc[s] = "idle"

NewEngine(s) ==
  /\ pc[s] = "unborn" /\ s \in situation.sessions /\ ProcessOf[s] \notin dead
  /\ \A p \in alive : PidOf[p] = PidOf[ProcessOf[s]] => p = ProcessOf[s]
  /\ situation.together \/ \A t \in Sessions : Finished(t)
  /\ alive' = alive \cup {ProcessOf[s]}
  /\ \E k \in situation.kinds :
       /\ kind' = [kind EXCEPT ![s] = k]
       /\ pc' = [pc EXCEPT ![s] = CASE k = "fresh" -> "clearing"
                                     [] k = "resumed" -> "reading"
                                     [] k = "detached" -> "scanning"]
  /\ UNCHANGED <<situation, dead, closing, logVars, todo, turnVars, rowVars, list, doomed,
                 diskVars, loaded>>

others == <<processVars, kind, closing, logVars, turnVars, rowVars, list, doomed, loaded, todo>>

\* Workspace.ClearMessages: two files, one after the other.
ClearMessages(s) ==
  \/ /\ Move(s, "clearing", "clearing counter")
     /\ transcript' = Absent
     /\ UNCHANGED <<others, turnCounter>>
  \/ /\ Move(s, "clearing counter", "scanning")
     /\ turnCounter' = CounterIs(0)
     /\ UNCHANGED <<others, transcript>>

\* setupSession reads the transcript.  None is the ordinary case; one that
\* cannot be read stops the creation rather than being written over.  One that
\* ends in the middle of a call is repaired, and the repair is saved.
LoadTranscript(s) ==
  /\ \/ transcript.state = "torn" /\ Move(s, "reading", "failed")
     \/ transcript.state = "absent" /\ Move(s, "reading", "scanning")
     \/ transcript.state = "whole"
        /\ Move(s, "reading", IF transcript.cut THEN "repairing" ELSE "reading counter")
  /\ loaded' = [loaded EXCEPT ![s].upto = transcript.upto]
  /\ UNCHANGED <<processVars, kind, closing, logVars, turnVars, rowVars, list, doomed, todo, diskVars>>

SaveRepaired(s) ==
  \/ /\ Move(s, "repairing", "repaired")
     /\ transcript' = Torn
     /\ UNCHANGED <<others, turnCounter>>
  \/ /\ Move(s, "repaired", "reading counter")
     /\ transcript' = Whole(loaded[s].upto, FALSE)
     /\ UNCHANGED <<others, turnCounter>>

LoadTurnCounter(s) ==
  /\ Move(s, "reading counter", "scanning")
  /\ loaded' = [loaded EXCEPT ![s].counter = turnCounter.n]
  /\ counter' = [counter EXCEPT ![s] = turnCounter.n]
  /\ UNCHANGED <<processVars, kind, closing, logVars, trip, calls, via, spent, answered, totals,
                 billed, checkpoint, rowVars, list, doomed, todo, diskVars>>

-----------------------------------------------------------------------------
(* The sessions whose process is gone *)

isProcessAlive(t) == \E p \in alive : PidOf[p] = PidOf[ProcessOf[t]]

\* AttachStore registers the session, EndSession settles it.
InsertSession(s) == status' = [status EXCEPT ![s] = "running"]
EndSession(s, outcome) == status' = [status EXCEPT ![s] = outcome]

Running == {t \in Sessions : status[t] = "running"}

\* DetectInterrupted when a session opens, and ListActiveStatus in every turn,
\* read the running rows ...
ListRunning(s) ==
  /\ Move(s, "scanning", "judging")
  /\ list' = [list EXCEPT ![s] = IF DbIsOpen(s) THEN Running ELSE {}]
  /\ doomed' = [doomed EXCEPT ![s] = {t \in list'[s] : ProcessOf[t] \in dead}]
  /\ UNCHANGED <<processVars, kind, closing, logVars, turnVars, rowVars, todo, diskVars, loaded>>

\* Mutation of EndInterrupted: the scan stops at a live row.
EndInterruptedUntilLive(s, t) ==
  /\ pc[s] = "judging" /\ ProcessOf[s] \in alive /\ t \in list[s]
  /\ list' = [list EXCEPT ![s] = IF isProcessAlive(t) THEN {} ELSE @ \ {t}]
  /\ IF isProcessAlive(t) \/ ~DbIsOpen(s) THEN UNCHANGED status ELSE EndSession(t, "interrupted")
  /\ UNCHANGED <<processVars, pc, kind, closing, logVars, todo, turnVars, task, rows, doomed,
                 diskVars, loaded>>

\* ... and end the ones whose pid nobody has, one after the other.  The row is
\* not read again: what became of it since the list was read is overwritten.
EndInterrupted(s, t) ==
  /\ pc[s] = "judging" /\ ProcessOf[s] \in alive /\ t \in list[s]
  /\ list' = [list EXCEPT ![s] = @ \ {t}]
  /\ IF isProcessAlive(t) \/ ~DbIsOpen(s) THEN UNCHANGED status ELSE EndSession(t, "interrupted")
  /\ UNCHANGED <<processVars, pc, kind, closing, logVars, todo, turnVars, task, rows, doomed,
                 diskVars, loaded>>

\* The log is created and the session registered.  An execution mode that
\* cannot be read fails the creation only after that, and the row stays.
Register(s) ==
  /\ status[s] = "none" /\ list[s] = {}
  /\ \/ Move(s, "judging", "idle")
     \/ "mode" \in situation.faults /\ Move(s, "judging", "failed")
  /\ Write(s, Entry("system", 0, 0))
  /\ InsertSession(s)
  /\ UNCHANGED <<processVars, kind, closing, todo, turnVars, task, rows, list, doomed, diskVars, loaded>>

\* The context is built, or the turn ends with an error.
BuildContext(s) ==
  /\ status[s] # "none" /\ list[s] = {}
  /\ Move(s, "judging", "calling") \/ ("context" \in situation.faults /\ Move(s, "judging", "idle"))
  /\ UNCHANGED <<processVars, kind, closing, logVars, todo, turnVars, rowVars, list, doomed,
                 diskVars, loaded>>

-----------------------------------------------------------------------------
(* A turn *)

\* The user's text names the task as long as no request was logged.
LogUser(s) ==
  /\ Write(s, Entry("user", trip[s], counter'[s]))
  /\ IF trip[s] = 0 THEN Store(s, task, counter'[s]) ELSE UNCHANGED task

\* A request, and its row of turns.
LogRequest(s) ==
  /\ trip' = [trip EXCEPT ![s] = @ + 1]
  /\ Write(s, Entry("request", trip'[s], 0))
  /\ Store(s, rows, Append(rows[s], 0))

\* RunTurn counts the turn even when the guard refuses it.
StartTurn(s) ==
  /\ closing[s].at = "open" /\ counter[s] - loaded[s].counter < situation.turns[s]
  /\ counter' = [counter EXCEPT ![s] = @ + 1]
  /\ calls' = [calls EXCEPT ![s] = 0]
  /\ spent' = [spent EXCEPT ![s] = 0]
  /\ \/ /\ "guard" \in situation.faults /\ Move(s, "idle", "idle")
        /\ UNCHANGED <<log, lost, task>>
     \/ /\ Move(s, "idle", "scanning")
        /\ LogUser(s)
  /\ UNCHANGED <<processVars, kind, closing, todo, trip, via, answered, totals, billed,
                 checkpoint, status, rows, list, doomed, diskVars, loaded>>

\* A call of the provider.  Agent.Run logs the request and opens a row of
\* turns for it; the loop for OpenAI does neither.
Call(s) ==
  /\ calls[s] < situation.calls /\ Move(s, "calling", "waiting")
  /\ calls' = [calls EXCEPT ![s] = @ + 1]
  /\ \E p \in situation.served :
       /\ calls[s] > 0 => p = via[s]
       /\ via' = [via EXCEPT ![s] = p]
       /\ IF p = "anthropic"
          THEN LogRequest(s)
          ELSE UNCHANGED <<trip, logVars, rows>>
  /\ UNCHANGED <<processVars, kind, closing, todo, counter, spent, answered, totals, billed,
                 checkpoint, status, task, list, doomed, diskVars, loaded>>

\* Mutation of EndTurn: the row is looked up by the turn, not by the call.
EndTurnOfTurn(s) ==
  IF counter[s] \in DOMAIN rows[s]
  THEN Store(s, rows, [rows[s] EXCEPT ![counter[s]] = answered'[s]])
  ELSE UNCHANGED rows

\* Session.EndTurn: the answer goes to the row of the last logged request.
EndTurn(s) ==
  IF trip[s] \in DOMAIN rows[s]
  THEN Store(s, rows, [rows[s] EXCEPT ![trip[s]] = answered'[s]])
  ELSE UNCHANGED rows

Reply(s, text) == [Entry("assistant", trip[s], counter[s]) EXCEPT !.text = text]

\* An answer: the end of the turn, with text or none or cut in the middle of a
\* call, or calls of tools.
Answer(s) ==
  /\ answered' = [answered EXCEPT ![s] = @ + 1]
  /\ spent' = [spent EXCEPT ![s] = @ + 1]
  /\ EndTurn(s)
  /\ \/ \E text \in BOOLEAN : /\ text \/ "empty" \in situation.faults
                              /\ Move(s, "waiting", "ending")
                              /\ todo' = [todo EXCEPT ![s] = <<Reply(s, text)>>]
     \/ \E runs \in situation.tools :
          /\ Move(s, "waiting", "working")
          /\ todo' = [todo EXCEPT ![s] =
               FlattenSeq([i \in DOMAIN runs |->
                             Reported(trip[s], 10 * answered'[s] + i, runs[i])])]
  /\ UNCHANGED <<processVars, kind, closing, logVars, trip, counter, calls, via, totals, billed,
                 checkpoint, status, task, list, doomed, diskVars, loaded>>

\* A call that fails ends the turn.  Text the user has already read is kept,
\* and with it what the turn cost; without any the turn is not post-processed.
\* A turn stopped by a cancel or by the cap of calls always has a text.
CallFails(s) ==
  /\ "api" \in situation.faults
  /\ \/ /\ Move(s, "waiting", "ending")
        /\ todo' = [todo EXCEPT ![s] = <<Reply(s, TRUE)>>]
     \/ /\ Move(s, "waiting", "idle")
        /\ UNCHANGED todo
  /\ UNCHANGED <<processVars, kind, closing, logVars, turnVars, rowVars, list, doomed, diskVars, loaded>>

Stopped(s) ==
  /\ calls[s] = situation.calls \/ "stop" \in situation.faults
  /\ Move(s, "calling", "ending")
  /\ todo' = [todo EXCEPT ![s] = <<Reply(s, TRUE)>>]
  /\ UNCHANGED <<processVars, kind, closing, logVars, turnVars, rowVars, list, doomed, diskVars, loaded>>

\* A hook reports a call or a result.
Report(s) ==
  /\ pc[s] = "working" /\ ProcessOf[s] \in alive
  /\ IF todo[s] = <<>>
     THEN /\ pc' = [pc EXCEPT ![s] = "calling"]
          /\ UNCHANGED <<logVars, todo>>
     ELSE /\ Write(s, Head(todo[s]))
          /\ todo' = [todo EXCEPT ![s] = Tail(@)]
          /\ UNCHANGED pc
  /\ UNCHANGED <<processVars, kind, closing, turnVars, rowVars, list, doomed, diskVars, loaded>>

\* LogAssistant adds up under the mutex and writes after releasing it.
LogAssistant(s) ==
  \/ /\ Move(s, "ending", "replying")
     /\ totals' = [totals EXCEPT ![s] = @ + spent[s]]
     /\ todo' = [todo EXCEPT ![s][1].used = spent[s]]
     /\ UNCHANGED <<processVars, kind, closing, logVars, trip, counter, calls, via, spent, answered,
                    billed, checkpoint, rowVars, list, doomed, diskVars, loaded>>
  \/ /\ Move(s, "replying", IF kind[s] = "detached" THEN "checkpointing" ELSE "saving")
     /\ Write(s, todo[s][1])
     /\ todo' = [todo EXCEPT ![s] = <<>>]
     /\ UNCHANGED <<processVars, kind, closing, turnVars, rowVars, list, doomed, diskVars, loaded>>

\* Mutation of SaveResumableState: the counter first.
SaveCounterFirst(s) ==
  \/ /\ Move(s, "saving", "saving transcript")
     /\ turnCounter' = CounterIs(counter[s])
     /\ UNCHANGED <<others, transcript>>
  \/ /\ Move(s, "saving transcript", "checkpointing")
     /\ transcript' = Whole(counter[s], FALSE)
     /\ UNCHANGED <<others, turnCounter>>

\* saveResumableState: the transcript, and only after it its turn counter.
\* Each file is truncated before it is written; a disk that is full leaves it so.
SaveResumableState(s) ==
  \/ /\ Move(s, "saving", "saving transcript")
     /\ transcript' = Torn
     /\ UNCHANGED <<others, turnCounter>>
  \/ /\ Move(s, "saving transcript", "saving counter")
     /\ \E cut \in BOOLEAN : /\ cut => "cut" \in situation.faults
                             /\ transcript' = Whole(counter[s], cut)
     /\ UNCHANGED <<others, turnCounter>>
  \/ /\ "disk" \in situation.faults
     /\ Move(s, "saving transcript", "checkpointing")
     /\ UNCHANGED <<others, diskVars>>
  \/ /\ Move(s, "saving counter", "writing counter")
     /\ turnCounter' = TornCounter
     /\ UNCHANGED <<others, transcript>>
  \/ /\ Move(s, "writing counter", "checkpointing")
     /\ turnCounter' = CounterIs(counter[s])
     /\ UNCHANGED <<others, transcript>>

ShouldCheckpoint(turn) == turn > 0 /\ turn % CheckpointInterval = 0

\* checkpoint.json is stamped with the turn it was due in, and overwritten.
SaveCheckpoint(s) ==
  IF ShouldCheckpoint(counter[s])
  THEN checkpoint' = [checkpoint EXCEPT ![s] = [turn |-> counter[s], used |-> totals[s]]]
  ELSE UNCHANGED checkpoint

\* The engine's total and the guard's.
RecordTurnUsage(s) == billed' = [billed EXCEPT ![s] = @ + spent[s]]

\* The end of postProcessResult.
FinishTurn(s) ==
  /\ Move(s, "checkpointing", "idle")
  /\ SaveCheckpoint(s)
  /\ RecordTurnUsage(s)
  /\ UNCHANGED <<processVars, kind, closing, logVars, todo, trip, counter, calls, via, spent,
                 answered, totals, rowVars, list, doomed, diskVars, loaded>>

-----------------------------------------------------------------------------
(* Closing, and the end of a process *)

\* Engine.Close: the totals are taken under the mutex, the closing line is
\* written and the file closed, the row is ended, the database is closed.  The
\* reaper does not wait for a turn.
CloseStep(s, from, to, used) ==
  /\ closing[s].at = from /\ ProcessOf[s] \in alive
  /\ closing' = [closing EXCEPT ![s] = [at |-> to, used |-> used]]
  /\ UNCHANGED <<processVars, pc, kind, todo, turnVars, task, rows, list, doomed, diskVars, loaded>>

ClosingTotals(s) == totals[s]
ClosingLine(s) == [Entry("system", 0, 0) EXCEPT !.used = closing[s].used]

Close(s) ==
  \/ /\ pc[s] = "idle" \/ (situation.overlap /\ status[s] # "none" /\ pc[s] # "failed")
     /\ CloseStep(s, "open", "totalled", ClosingTotals(s))
     /\ UNCHANGED <<logVars, status>>
  \/ /\ CloseStep(s, "totalled", "filed", closing[s].used)
     /\ Write(s, ClosingLine(s))
     /\ UNCHANGED status
  \/ /\ CloseStep(s, "filed", "ended", closing[s].used)
     /\ EndSession(s, "completed")
     /\ UNCHANGED logVars
  \/ /\ CloseStep(s, "ended", "closed", closing[s].used)
     /\ UNCHANGED <<logVars, status>>

\* A process dies; so do its sessions, wherever they stand.
Crash(p) ==
  /\ p \in alive
  /\ p \in situation.crashes \/ \A s \in Sessions : ProcessOf[s] = p => Finished(s)
  /\ alive' = alive \ {p} /\ dead' = dead \cup {p}
  /\ UNCHANGED <<situation, pc, kind, closing, logVars, todo, turnVars, rowVars, list, doomed,
                 diskVars, loaded>>

-----------------------------------------------------------------------------
(* Specification *)

Init ==
  /\ situation \in Situations
  /\ alive = {} /\ dead = {}
  /\ pc = [s \in Sessions |-> "unborn"]
  /\ kind = [s \in Sessions |-> "resumed"]
  /\ closing = [s \in Sessions |-> [at |-> "open", used |-> 0]]
  /\ log = [s \in Sessions |-> <<>>] /\ lost = log /\ todo = log /\ rows = log
  /\ trip = [s \in Sessions |-> 0] /\ counter = trip /\ calls = trip /\ spent = trip
  /\ answered = trip /\ totals = trip /\ billed = trip /\ task = trip
  /\ via = [s \in Sessions |-> "anthropic"]
  /\ checkpoint = [s \in Sessions |-> [turn |-> 0, used |-> 0]]
  /\ status = [s \in Sessions |-> "none"]
  /\ list = [s \in Sessions |-> {}] /\ doomed = list
  /\ transcript = Absent /\ turnCounter = CounterIs(0)
  /\ loaded = [s \in Sessions |-> [upto |-> 0, counter |-> 0]]

SessionStep(s) ==
  \/ NewEngine(s) \/ ClearMessages(s) \/ LoadTranscript(s) \/ SaveRepaired(s)
  \/ LoadTurnCounter(s) \/ ListRunning(s) \/ Register(s) \/ BuildContext(s)
  \/ StartTurn(s) \/ Call(s) \/ Answer(s) \/ CallFails(s) \/ Stopped(s) \/ Report(s)
  \/ LogAssistant(s) \/ SaveResumableState(s) \/ FinishTurn(s) \/ Close(s)

Next ==
  \/ \E s \in Sessions : SessionStep(s)
  \/ \E s, t \in Sessions : EndInterrupted(s, t)
  \/ \E p \in Processes : Crash(p)

Spec == Init /\ [][Next]_vars

-----------------------------------------------------------------------------
(* Properties *)

\* The results that were reported with a call before them.
Announced(es) ==
  {i \in DOMAIN es : es[i].role = "tool_result" =>
     \E j \in 1 .. i : es[j].role = "tool_call" /\ es[j].id = es[i].id}

Blocks(ms) == UNION {ToSet(ms[i].blocks) : i \in DOMAIN ms}

\* Wherever a session was cut off, its log replays to a conversation a provider
\* accepts, with every text, call and result that was logged in it: an
\* unanswered call gets an answer, and nothing else is made up.  The one thing
\* no repair removes is the result of a chained call that was reported without
\* a call (session/resume.go LoadMessages; agent/chain.go executeWithChain).
ReplayKeepsTheConversation ==
  \A s \in Sessions :
    LET ms == LoadMessages(log[s])
        blocks == Blocks(ms)
    IN /\ C!WellFormed(C!StripOrphanedToolResults(ms))
       /\ \A i \in Announced(log[s]) :
            LET e == log[s][i]
            IN /\ e.role = "user" => C!Text("input", e.id) \in blocks
               /\ e.role = "assistant" /\ e.text => C!Text("answer", e.id) \in blocks
               /\ e.role = "tool_call" => C!Use(e.id, "shell") \in blocks
               /\ e.role = "tool_result" => C!Result(e.id, "said", e.failed) \in blocks

\* What a reply that is not written yet will say it used.
Pending(s) == IF pc[s] = "replying" THEN todo[s][1].used ELSE 0

\* What the replies up to a turn used.
UsageUpTo(es, turn) ==
  SumOf([i \in DOMAIN es |->
           IF es[i].role = "assistant" /\ es[i].id <= turn THEN es[i].used ELSE 0])

\* Everybody who adds up a session arrives at the same usage, and counts no turn
\* twice: logstack from the entries it was sent, the timeline and the closing
\* line from the file, the checkpoint, and the engine with its guard.  A close
\* under a turn keeps that turn's reply out of the file, not out of logstack
\* (session/logstack.go, jsonl.go closingTotals, checkpoint.go;
\* engine/turn_postprocess.go recordTurnUsage).
TotalsAgree ==
  \A s \in Sessions :
    LET sent == log[s] \o lost[s]
    IN /\ LogstackUsage(sent) + Pending(s) = totals[s]
       /\ checkpoint[s].used = UsageUpTo(sent, checkpoint[s].turn)
       /\ pc[s] = "idle" => billed[s] = totals[s]
       /\ \A e \in ToSet(log[s]) :
            (e.role = "system" /\ e.used > 0 /\ ~situation.overlap) => e.used = TimelineUsage(log[s])

\* The rows of turns hold every answer of a session, each in a row of its own,
\* so that their sum is what the session used; and the task is what was asked
\* before the first request.  Not so when the loop for OpenAI has run, which
\* opens no rows, or after the close of the database (session/db_turns.go,
\* db_sessions.go; session/session_logging.go LogRequest and EndTurn).
AnswersHaveRows ==
  \A s \in Sessions :
    (situation.served = {"anthropic"} /\ ~situation.overlap) =>
      /\ ToSet(rows[s]) \ {0} = 1 .. answered[s]
      /\ Cardinality({n \in DOMAIN rows[s] : rows[s][n] # 0}) = answered[s]
TaskIsFirst ==
  \A s \in Sessions :
    (situation.served = {"anthropic"} /\ ~situation.overlap) =>
      \A i \in DOMAIN log[s] : log[s][i].role = "user" =>
        \/ log[s][i].id <= task[s]
        \/ \E j \in 1 .. i : log[s][j].role = "request"
RowsHoldTheirCalls == AnswersHaveRows /\ TaskIsFirst

\* The usage of a session is one number, in its totals and in its rows.
UsageIsCountedOnce == TotalsAgree /\ RowsHoldTheirCalls

PidReused(t) == \E p \in alive \cup dead : p # ProcessOf[t] /\ PidOf[p] = PidOf[ProcessOf[t]]

\* A session is called interrupted only when its process is gone, also by a
\* scan that raced its close; and no session whose process died before a scan
\* is running after it, unless its pid belongs to somebody else by now
\* (session/db_sessions.go DetectInterrupted, ListActiveStatus).
CrashesAreFound ==
  /\ \A s \in Sessions : status[s] = "interrupted" => ProcessOf[s] \in dead
  /\ \A s, t \in Sessions :
       (status[t] = "running" /\ t \in doomed[s]) =>
         t \in list[s] \/ PidReused(t) \/ ~DbIsOpen(s)

\* A session never opens further into a conversation than the transcript it
\* read: a counter that belongs to another transcript is not believed.  Only
\* asked where one session at a time has the workspace, and no clearing of it
\* was cut in two (engine/lifecycle.go saveResumableState; session/workspace.go
\* ClearMessages).
CounterIsCovered ==
  \/ situation.together
  \/ \E s \in Sessions : pc[s] = "clearing counter" /\ ProcessOf[s] \in dead
  \/ \A s \in Sessions : loaded[s].counter <= loaded[s].upto
=============================================================================
