-------------------------- MODULE SessionLogProofs --------------------------
(***************************************************************************)
(* Theorems about SessionLog, for any sessions, processes, pids and cases: *)
(* what a scan for crashed sessions says is true, a resumed session counts *)
(* no turn its transcript does not have, every answer has its row, and     *)
(* everybody who adds up a session arrives at the same usage.              *)
(***************************************************************************)
EXTENDS SessionLog, FiniteSetTheorems, SequenceTheorems, WellFoundedInduction, TLAPS

Pcs == {"unborn", "clearing", "clearing counter", "reading", "repairing", "repaired",
        "reading counter", "scanning", "judging", "failed", "idle", "calling", "waiting", "working",
        "ending", "replying", "saving", "saving transcript", "saving counter", "writing counter",
        "checkpointing"}
Ats == {"open", "totalled", "filed", "ended", "closed"}
Transcripts == [state : {"absent", "torn", "whole"}, upto : Nat, cut : BOOLEAN]

ControlOK ==
  /\ situation \in Situations /\ alive \subseteq Processes /\ dead \subseteq Processes
  /\ pc \in [Sessions -> Pcs] /\ kind \in [Sessions -> {"fresh", "resumed", "detached"}]
  /\ closing \in [Sessions -> [at : Ats, used : Nat]]
CountOK ==
  /\ trip \in [Sessions -> Nat] /\ counter \in [Sessions -> Nat] /\ spent \in [Sessions -> Nat]
  /\ answered \in [Sessions -> Nat] /\ totals \in [Sessions -> Nat]
  /\ rows \in [Sessions -> Seq(Nat)]
ScanOK ==
  /\ status \in [Sessions -> {"none", "running", "completed", "interrupted"}]
  /\ list \in [Sessions -> SUBSET Sessions] /\ doomed \in [Sessions -> SUBSET Sessions]
DiskOK ==
  /\ transcript \in Transcripts /\ turnCounter \in [torn : BOOLEAN, n : Nat]
  /\ loaded \in [Sessions -> [upto : Nat, counter : Nat]]
TypeInv == ControlOK /\ CountOK /\ ScanOK /\ DiskOK

-----------------------------------------------------------------------------
(* Types *)

\* What a row becomes, whether its database is open or not.
LEMMA StoreType ==
  ASSUME TypeInv, NEW s \in Sessions, NEW row \in Seq(Nat), Store(s, rows, row)
  PROVE  rows' \in [Sessions -> Seq(Nat)]
  BY DEF TypeInv, CountOK, Store

\* A move is from one place to another of a session whose process is alive.
LEMMA MoveType ==
  ASSUME ControlOK, NEW s \in Sessions, NEW from, NEW to \in Pcs, Move(s, from, to)
  PROVE  pc' \in [Sessions -> Pcs]
  BY DEF ControlOK, Move

\* What the two files of the workspace can hold.
LEMMA DiskValues ==
  ASSUME NEW n \in Nat, NEW cut \in BOOLEAN
  PROVE  /\ Absent \in Transcripts /\ Torn \in Transcripts /\ Whole(n, cut) \in Transcripts
         /\ CounterIs(n) \in [torn : BOOLEAN, n : Nat] /\ TornCounter \in [torn : BOOLEAN, n : Nat]
  BY DEF Absent, Torn, Whole, CounterIs, TornCounter, Transcripts

\* Opening a session keeps the types.
LEMMA OpeningTypes ==
  ASSUME TypeInv, NEW s \in Sessions,
         \/ NewEngine(s) \/ ClearMessages(s) \/ LoadTranscript(s) \/ SaveRepaired(s)
         \/ LoadTurnCounter(s) \/ ListRunning(s) \/ Register(s) \/ BuildContext(s)
  PROVE  TypeInv'
<1> USE DEF processVars, logVars, turnVars, rowVars, diskVars, others
<1>1. ASSUME NewEngine(s) PROVE TypeInv'
  <2>1. PICK k \in situation.kinds :
          /\ kind' = [kind EXCEPT ![s] = k]
          /\ pc' = [pc EXCEPT ![s] = CASE k = "fresh" -> "clearing"
                                        [] k = "resumed" -> "reading"
                                        [] k = "detached" -> "scanning"]
    BY <1>1 DEF NewEngine
  <2>2. k \in {"fresh", "resumed", "detached"} /\ ProcessOf[s] \in Processes
    BY SessionLogAssumption DEF TypeInv, ControlOK
  <2>3. pc' \in [Sessions -> Pcs] /\ kind' \in [Sessions -> {"fresh", "resumed", "detached"}]
    BY <2>1, <2>2 DEF TypeInv, ControlOK, Pcs
  <2> QED BY <1>1, <2>2, <2>3 DEF NewEngine, TypeInv, ControlOK, CountOK, ScanOK, DiskOK
<1>2. ASSUME ClearMessages(s) PROVE TypeInv'
  <2>1. pc' \in [Sessions -> Pcs]  BY <1>2, MoveType DEF ClearMessages, TypeInv, Pcs
  <2>2. DiskOK'
    <3>1. Absent \in Transcripts /\ CounterIs(0) \in [torn : BOOLEAN, n : Nat]  BY DiskValues
    <3> QED BY <1>2, <3>1 DEF ClearMessages, TypeInv, DiskOK
  <2> QED BY <1>2, <2>1, <2>2 DEF ClearMessages, TypeInv, ControlOK, CountOK, ScanOK
<1>3. ASSUME LoadTranscript(s) PROVE TypeInv'
  <2>1. pc' \in [Sessions -> Pcs]  BY <1>3, MoveType DEF LoadTranscript, TypeInv, Pcs
  <2>2. DiskOK'  BY <1>3 DEF LoadTranscript, TypeInv, DiskOK, Transcripts
  <2> QED BY <1>3, <2>1, <2>2 DEF LoadTranscript, TypeInv, ControlOK, CountOK, ScanOK
<1>4. ASSUME SaveRepaired(s) PROVE TypeInv'
  <2>1. pc' \in [Sessions -> Pcs]  BY <1>4, MoveType DEF SaveRepaired, TypeInv, Pcs
  <2>2. DiskOK'
    <3>1. loaded[s].upto \in Nat  BY DEF TypeInv, DiskOK
    <3>2. Torn \in Transcripts /\ Whole(loaded[s].upto, FALSE) \in Transcripts  BY <3>1, DiskValues
    <3> QED BY <1>4, <3>2 DEF SaveRepaired, TypeInv, DiskOK
  <2> QED BY <1>4, <2>1, <2>2 DEF SaveRepaired, TypeInv, ControlOK, CountOK, ScanOK
<1>5. ASSUME LoadTurnCounter(s) PROVE TypeInv'
  <2>1. pc' \in [Sessions -> Pcs]  BY <1>5, MoveType DEF LoadTurnCounter, TypeInv, Pcs
  <2>2. DiskOK' /\ CountOK'  BY <1>5 DEF LoadTurnCounter, TypeInv, DiskOK, CountOK
  <2> QED BY <1>5, <2>1, <2>2 DEF LoadTurnCounter, TypeInv, ControlOK, ScanOK
<1>6. ASSUME ListRunning(s) PROVE TypeInv'
  <2>1. pc' \in [Sessions -> Pcs]  BY <1>6, MoveType DEF ListRunning, TypeInv, Pcs
  <2>2. ScanOK'  BY <1>6 DEF ListRunning, Running, TypeInv, ScanOK
  <2> QED BY <1>6, <2>1, <2>2 DEF ListRunning, TypeInv, ControlOK, CountOK, DiskOK
<1>7. ASSUME Register(s) PROVE TypeInv'
  <2>1. pc' \in [Sessions -> Pcs]  BY <1>7, MoveType DEF Register, TypeInv, Pcs
  <2>2. ScanOK'  BY <1>7 DEF Register, InsertSession, TypeInv, ScanOK
  <2> QED BY <1>7, <2>1, <2>2 DEF Register, TypeInv, ControlOK, CountOK, DiskOK
<1>8. ASSUME BuildContext(s) PROVE TypeInv'
  <2>1. pc' \in [Sessions -> Pcs]  BY <1>8, MoveType DEF BuildContext, TypeInv, Pcs
  <2> QED BY <1>8, <2>1 DEF BuildContext, TypeInv, ControlOK, CountOK, ScanOK, DiskOK
<1> QED BY <1>1, <1>2, <1>3, <1>4, <1>5, <1>6, <1>7, <1>8

\* A turn keeps the types.
LEMMA TurnTypes ==
  ASSUME TypeInv, NEW s \in Sessions,
         \/ StartTurn(s) \/ Call(s) \/ Answer(s) \/ CallFails(s) \/ Stopped(s) \/ Report(s)
         \/ LogAssistant(s) \/ SaveResumableState(s) \/ FinishTurn(s)
  PROVE  TypeInv'
<1> USE DEF processVars, logVars, turnVars, rowVars, diskVars, others
<1>1. ASSUME StartTurn(s) PROVE TypeInv'
  <2>1. pc' \in [Sessions -> Pcs]  BY <1>1, MoveType DEF StartTurn, TypeInv, Pcs
  <2>2. CountOK'  BY <1>1 DEF StartTurn, TypeInv, CountOK
  <2> QED BY <1>1, <2>1, <2>2 DEF StartTurn, TypeInv, ControlOK, ScanOK, DiskOK
<1>2. ASSUME Call(s) PROVE TypeInv'
  <2>1. pc' \in [Sessions -> Pcs]  BY <1>2, MoveType DEF Call, TypeInv, Pcs
  <2>2. rows' \in [Sessions -> Seq(Nat)] /\ trip' \in [Sessions -> Nat]
    <3>1. CASE LogRequest(s)
      <4>1. Append(rows[s], 0) \in Seq(Nat)  BY DEF TypeInv, CountOK
      <4>2. rows' \in [Sessions -> Seq(Nat)]  BY <3>1, <4>1, StoreType DEF LogRequest
      <4>3. trip' = [trip EXCEPT ![s] = @ + 1]  BY <3>1 DEF LogRequest
      <4> QED BY <4>2, <4>3 DEF TypeInv, CountOK
    <3>2. CASE UNCHANGED <<trip, logVars, rows>>  BY <3>2 DEF TypeInv, CountOK
    <3> QED BY <1>2, <3>1, <3>2 DEF Call
  <2> QED BY <1>2, <2>1, <2>2 DEF Call, TypeInv, ControlOK, CountOK, ScanOK, DiskOK
<1>3. ASSUME Answer(s) PROVE TypeInv'
  <2>1. pc' \in [Sessions -> Pcs]  BY <1>3, MoveType DEF Answer, TypeInv, Pcs
  <2>2. answered' \in [Sessions -> Nat] /\ spent' \in [Sessions -> Nat]
    BY <1>3 DEF Answer, TypeInv, CountOK
  <2>3. rows' \in [Sessions -> Seq(Nat)]
    <3>1. rows[s] \in Seq(Nat) /\ answered'[s] \in Nat  BY <2>2 DEF TypeInv, CountOK
    <3>2. trip[s] \in DOMAIN rows[s] => [rows[s] EXCEPT ![trip[s]] = answered'[s]] \in Seq(Nat)
      BY <3>1
    <3> QED BY <1>3, <3>2, StoreType DEF Answer, EndTurn, TypeInv, CountOK
  <2> QED BY <1>3, <2>1, <2>2, <2>3 DEF Answer, TypeInv, ControlOK, CountOK, ScanOK, DiskOK
<1>4. ASSUME CallFails(s) PROVE TypeInv'
  <2>1. pc' \in [Sessions -> Pcs]  BY <1>4, MoveType DEF CallFails, TypeInv, Pcs
  <2> QED BY <1>4, <2>1 DEF CallFails, TypeInv, ControlOK, CountOK, ScanOK, DiskOK
<1>5. ASSUME Stopped(s) PROVE TypeInv'
  <2>1. pc' \in [Sessions -> Pcs]  BY <1>5, MoveType DEF Stopped, TypeInv, Pcs
  <2> QED BY <1>5, <2>1 DEF Stopped, TypeInv, ControlOK, CountOK, ScanOK, DiskOK
<1>6. ASSUME Report(s) PROVE TypeInv'
  <2>1. pc' \in [Sessions -> Pcs]  BY <1>6 DEF Report, TypeInv, ControlOK, Pcs
  <2> QED BY <1>6, <2>1 DEF Report, TypeInv, ControlOK, CountOK, ScanOK, DiskOK
<1>7. ASSUME LogAssistant(s) PROVE TypeInv'
  <2>1. pc' \in [Sessions -> Pcs]  BY <1>7, MoveType DEF LogAssistant, TypeInv, Pcs
  <2>2. CountOK'
    <3>1. \/ totals' = [totals EXCEPT ![s] = @ + spent[s]]
          \/ totals' = totals
      BY <1>7 DEF LogAssistant
    <3>2. totals' \in [Sessions -> Nat]
      <4>1. totals \in [Sessions -> Nat] /\ totals[s] + spent[s] \in Nat  BY DEF TypeInv, CountOK
      <4>2. CASE totals' = [totals EXCEPT ![s] = @ + spent[s]]
        <5>1. totals' = [totals EXCEPT ![s] = totals[s] + spent[s]]  BY <4>2
        <5> QED BY <4>1, <5>1
      <4> QED BY <3>1, <4>1, <4>2
    <3>3. /\ trip' = trip /\ counter' = counter /\ spent' = spent /\ answered' = answered
          /\ rows' = rows
      BY <1>7 DEF LogAssistant
    <3> QED BY <3>2, <3>3 DEF TypeInv, CountOK
  <2> QED BY <1>7, <2>1, <2>2 DEF LogAssistant, TypeInv, ControlOK, ScanOK, DiskOK
<1>8. ASSUME SaveResumableState(s) PROVE TypeInv'
  <2>1. pc' \in [Sessions -> Pcs]  BY <1>8, MoveType DEF SaveResumableState, TypeInv, Pcs
  <2>2. counter[s] \in Nat  BY DEF TypeInv, CountOK
  <2>3. DiskOK'
    <3>1. /\ Torn \in Transcripts /\ \A cut \in BOOLEAN : Whole(counter[s], cut) \in Transcripts
          /\ CounterIs(counter[s]) \in [torn : BOOLEAN, n : Nat]
          /\ TornCounter \in [torn : BOOLEAN, n : Nat]
      BY <2>2, DiskValues
    <3>2. loaded' = loaded  BY <1>8 DEF SaveResumableState
    <3>3. transcript' \in Transcripts /\ turnCounter' \in [torn : BOOLEAN, n : Nat]
      BY <1>8, <3>1 DEF SaveResumableState, TypeInv, DiskOK
    <3> QED BY <3>2, <3>3 DEF TypeInv, DiskOK
  <2> QED BY <1>8, <2>1, <2>3 DEF SaveResumableState, TypeInv, ControlOK, CountOK, ScanOK
<1>9. ASSUME FinishTurn(s) PROVE TypeInv'
  <2>1. pc' \in [Sessions -> Pcs]  BY <1>9, MoveType DEF FinishTurn, TypeInv, Pcs
  <2> QED BY <1>9, <2>1 DEF FinishTurn, TypeInv, ControlOK, CountOK, ScanOK, DiskOK
<1> QED BY <1>1, <1>2, <1>3, <1>4, <1>5, <1>6, <1>7, <1>8, <1>9

\* So do a close, a scan and the end of a process, and a step that changes nothing.
LEMMA NextTypes == TypeInv /\ [Next]_vars => TypeInv'
<1> SUFFICES ASSUME TypeInv, [Next]_vars PROVE TypeInv'  OBVIOUS
<1> USE DEF processVars, logVars, turnVars, rowVars, diskVars, TypeInv
<1>1. ASSUME NEW s \in Sessions, Close(s) PROVE TypeInv'
  <2>1. totals[s] \in Nat /\ closing[s].used \in Nat  BY DEF CountOK, ControlOK
  <2>2. ControlOK'
    BY <1>1, <2>1 DEF Close, CloseStep, ClosingTotals, ControlOK, Ats
  <2>3. ScanOK'  BY <1>1 DEF Close, CloseStep, EndSession, ScanOK
  <2> QED BY <1>1, <2>2, <2>3 DEF Close, CloseStep, CountOK, DiskOK
<1>2. ASSUME NEW s \in Sessions, NEW t \in Sessions, EndInterrupted(s, t) PROVE TypeInv'
  BY <1>2 DEF EndInterrupted, EndSession, ControlOK, CountOK, ScanOK, DiskOK
<1>3. ASSUME NEW p \in Processes, Crash(p) PROVE TypeInv'
  BY <1>3 DEF Crash, ControlOK, CountOK, ScanOK, DiskOK
<1>4. ASSUME UNCHANGED vars PROVE TypeInv'
  BY <1>4 DEF vars, ControlOK, CountOK, ScanOK, DiskOK
<1> QED BY <1>1, <1>2, <1>3, <1>4, OpeningTypes, TurnTypes DEF Next, SessionStep

\* Type correctness of all that the theorems below speak of.
THEOREM LogTypes == Spec => []TypeInv
<1>1. Init => TypeInv
  BY DEF Init, TypeInv, ControlOK, CountOK, ScanOK, DiskOK, Pcs, Ats, Absent, CounterIs, Transcripts
<1> QED BY <1>1, NextTypes, PTL DEF Spec

-----------------------------------------------------------------------------
(* The sessions whose process is gone                                      *)

\* A session that has a row has run; a scan only judges rows, and those it found
\* dead stay dead.
ProcessesInv ==
  /\ alive \cap dead = {}
  /\ \A s \in Sessions : pc[s] # "unborn" => ProcessOf[s] \in alive \cup dead
  /\ \A s \in Sessions : status[s] # "none" \/ closing[s].at # "open" => pc[s] # "unborn"
  /\ \A s \in Sessions : \A t \in list[s] \cup doomed[s] : status[t] # "none"
  /\ \A s \in Sessions : \A t \in doomed[s] : ProcessOf[t] \in dead
ScanInv == ProcessesInv /\ CrashesAreFound

\* What most steps leave as it is.
LEMMA WorkLeaves ==
  ASSUME TypeInv, NEW s \in Sessions,
         \/ ClearMessages(s) \/ LoadTranscript(s) \/ SaveRepaired(s) \/ LoadTurnCounter(s)
         \/ BuildContext(s) \/ StartTurn(s) \/ Call(s) \/ Answer(s) \/ CallFails(s) \/ Stopped(s)
         \/ Report(s) \/ LogAssistant(s) \/ SaveResumableState(s) \/ FinishTurn(s)
  PROVE  /\ UNCHANGED <<processVars, status, list, doomed, closing, kind>>
         /\ pc[s] # "unborn" /\ pc'[s] # "unborn" /\ ProcessOf[s] \in alive
         /\ \A t \in Sessions \ {s} : pc'[t] = pc[t]
<1> USE DEF processVars, logVars, turnVars, rowVars, diskVars, others
<1>1. UNCHANGED <<processVars, status, list, doomed, closing, kind>>
  BY DEF ClearMessages, LoadTranscript, SaveRepaired, LoadTurnCounter, BuildContext, StartTurn, Call,
         Answer, CallFails, Stopped, Report, LogAssistant, SaveResumableState, FinishTurn
<1>2. \/ \E from \in Pcs \ {"unborn"}, to \in Pcs \ {"unborn"} : Move(s, from, to)
      \/ pc[s] = "working" /\ ProcessOf[s] \in alive /\ pc' = [pc EXCEPT ![s] = "calling"]
      \/ pc[s] = "working" /\ ProcessOf[s] \in alive /\ pc' = pc
  BY DEF ClearMessages, LoadTranscript, SaveRepaired, LoadTurnCounter, BuildContext, StartTurn, Call,
         Answer, CallFails, Stopped, Report, LogAssistant, SaveResumableState, FinishTurn, Pcs
<1>3. pc \in [Sessions -> Pcs]  BY DEF TypeInv, ControlOK
<1> QED BY <1>1, <1>2, <1>3 DEF Move

\* They leave what a scan has said and has still to say.
LEMMA SameScan ==
  ASSUME TypeInv, ScanInv, UNCHANGED <<status, list, doomed>>, alive' \subseteq alive \cup (Processes \ dead),
         dead \subseteq dead', alive' \cap dead' = {}, alive \cup dead \subseteq alive' \cup dead',
         \A s \in Sessions : /\ (pc'[s] # "unborn" => pc[s] # "unborn" \/ ProcessOf[s] \in alive')
                             /\ pc[s] # "unborn" => pc'[s] # "unborn"
                             /\ DbIsOpen(s)' => DbIsOpen(s)
                             /\ closing'[s].at # "open" => closing[s].at # "open" \/ pc[s] # "unborn"
  PROVE  ScanInv'
<1>1. ProcessesInv'  BY DEF ScanInv, ProcessesInv, TypeInv, ScanOK
<1>2. \A t \in Sessions : PidReused(t) => PidReused(t)'  BY DEF PidReused
<1> QED BY <1>1, <1>2 DEF ScanInv, CrashesAreFound

\* Every step keeps what is said true: a scan that reads a dead process's row before
\* its pid is taken ends that row, and none other than a dead one's.
LEMMA NextKeepsScans == TypeInv /\ ScanInv /\ [Next]_vars => ScanInv'
<1> SUFFICES ASSUME TypeInv, ScanInv, [Next]_vars PROVE ScanInv'  OBVIOUS
<1> USE DEF processVars, logVars, turnVars, rowVars, diskVars
<1>0. /\ ProcessOf \in [Sessions -> Processes] /\ pc \in [Sessions -> Pcs]
      /\ alive \subseteq Processes /\ dead \subseteq Processes /\ alive \cap dead = {}
      /\ closing \in [Sessions -> [at : Ats, used : Nat]]
      /\ status \in [Sessions -> {"none", "running", "completed", "interrupted"}]
      /\ list \in [Sessions -> SUBSET Sessions] /\ doomed \in [Sessions -> SUBSET Sessions]
  BY SessionLogAssumption DEF TypeInv, ControlOK, ScanOK, ScanInv, ProcessesInv
<1>1. ASSUME NEW s \in Sessions, NewEngine(s) PROVE ScanInv'
  <2>1. /\ alive' = alive \cup {ProcessOf[s]} /\ ProcessOf[s] \notin dead
        /\ UNCHANGED <<dead, status, list, doomed, closing>>
    BY <1>1 DEF NewEngine
  <2>2. /\ \A t \in Sessions \ {s} : pc'[t] = pc[t]
        /\ pc[s] = "unborn"
    BY <1>0, <1>1 DEF NewEngine
  <2> QED BY <1>0, <2>1, <2>2, SameScan DEF DbIsOpen
<1>2. ASSUME NEW s \in Sessions, ListRunning(s) PROVE ScanInv'
  <2>1. /\ pc[s] = "scanning" /\ pc' = [pc EXCEPT ![s] = "judging"]
        /\ UNCHANGED <<alive, dead, status, closing>>
    BY <1>2 DEF ListRunning, Move
  <2>2. /\ \A t \in Sessions \ {s} : list'[t] = list[t] /\ doomed'[t] = doomed[t]
        /\ \A t \in list'[s] : status[t] = "running"
        /\ doomed'[s] = {t \in list'[s] : ProcessOf[t] \in dead}
    BY <1>0, <1>2 DEF ListRunning, Running
  <2>3. ProcessesInv'  BY <1>0, <2>1, <2>2 DEF ScanInv, ProcessesInv
  <2>4. CrashesAreFound'
    <3>1. \A u \in Sessions : status'[u] = "interrupted" => ProcessOf[u] \in dead'
      BY <2>1 DEF ScanInv, CrashesAreFound
    <3>2. \A u \in Sessions : PidReused(u)' = PidReused(u) /\ DbIsOpen(u)' = DbIsOpen(u)
      BY <2>1 DEF PidReused, DbIsOpen
    <3>3. \A t \in doomed'[s] : t \in list'[s]  BY <2>2
    <3>4. \A u \in Sessions \ {s}, t \in Sessions :
            (status[t] = "running" /\ t \in doomed[u]) => t \in list[u] \/ PidReused(t) \/ ~DbIsOpen(u)
      BY DEF ScanInv, CrashesAreFound
    <3>5. ASSUME NEW u \in Sessions, NEW t \in Sessions, status'[t] = "running", t \in doomed'[u]
          PROVE  t \in list'[u] \/ PidReused(t)' \/ ~DbIsOpen(u)'
      <4>1. CASE u = s  BY <3>3, <3>5, <4>1
      <4>2. CASE u # s
        <5>1. t \in doomed[u] /\ status[t] = "running" /\ list'[u] = list[u]  BY <2>1, <2>2, <3>5, <4>2
        <5> QED BY <3>2, <3>4, <4>2, <5>1
      <4> QED BY <4>1, <4>2
    <3> QED BY <3>1, <3>5 DEF CrashesAreFound
  <2> QED BY <2>3, <2>4 DEF ScanInv
<1>3. ASSUME NEW s \in Sessions, Register(s) PROVE ScanInv'
  <2>1. /\ status[s] = "none" /\ status' = [status EXCEPT ![s] = "running"]
        /\ UNCHANGED <<alive, dead, list, doomed, closing>> /\ ProcessOf[s] \in alive
        /\ pc' = [pc EXCEPT ![s] = "idle"] \/ pc' = [pc EXCEPT ![s] = "failed"]
        /\ pc[s] = "judging"
    BY <1>3 DEF Register, InsertSession, Move
  <2>2. ProcessesInv'  BY <1>0, <2>1 DEF ScanInv, ProcessesInv
  <2>3. \A t \in Sessions : s \notin doomed[t]  BY <1>0, <2>1 DEF ScanInv, ProcessesInv
  <2>4. CrashesAreFound'
    BY <1>0, <2>1, <2>3 DEF ScanInv, CrashesAreFound, PidReused, DbIsOpen
  <2> QED BY <2>2, <2>4 DEF ScanInv
<1>4. ASSUME NEW s \in Sessions, Close(s) PROVE ScanInv'
  <2>1. /\ UNCHANGED <<alive, dead, pc, list, doomed>>
        /\ \A t \in Sessions : DbIsOpen(t)' => DbIsOpen(t)
    BY <1>0, <1>4 DEF Close, CloseStep, DbIsOpen
  <2>0. /\ \A t \in Sessions : t # s => closing'[t] = closing[t]
        /\ pc[s] # "unborn"
    <3>1. pc[s] = "idle" \/ status[s] # "none" \/ closing[s].at # "open"
      BY <1>4 DEF Close, CloseStep
    <3>2. pc[s] # "unborn"  BY <3>1 DEF ScanInv, ProcessesInv
    <3> QED BY <1>0, <1>4, <3>2 DEF Close, CloseStep
  <2>2. CASE status' = status  BY <1>0, <2>0, <2>1, <2>2, SameScan
  <2>3. CASE status' = [status EXCEPT ![s] = "completed"]
    <3>1. ProcessesInv'  BY <1>0, <2>0, <2>1, <2>3 DEF ScanInv, ProcessesInv
    <3>3. CrashesAreFound'
      BY <1>0, <2>1, <2>3 DEF ScanInv, CrashesAreFound, PidReused
    <3> QED BY <3>1, <3>3 DEF ScanInv
  <2> QED BY <1>4, <2>2, <2>3 DEF Close, CloseStep, EndSession
<1>5. ASSUME NEW s \in Sessions, NEW t \in Sessions, EndInterrupted(s, t) PROVE ScanInv'
  <2>1. /\ t \in list[s] /\ list' = [list EXCEPT ![s] = @ \ {t}]
        /\ UNCHANGED <<alive, dead, pc, doomed, closing>>
    BY <1>5 DEF EndInterrupted
  <2>2. ProcessOf[t] \in alive \cup dead  BY <1>0, <2>1 DEF ScanInv, ProcessesInv
  <2>3. CASE isProcessAlive(t)
    <3>1. status' = status  BY <1>5, <2>3 DEF EndInterrupted
    <3>2. ProcessOf[t] \in dead => PidReused(t)'  BY <1>0, <2>1, <2>3 DEF isProcessAlive, PidReused
    <3>3. ProcessesInv'  BY <1>0, <2>1, <3>1 DEF ScanInv, ProcessesInv
    <3>4. CrashesAreFound'
      BY <1>0, <2>1, <3>1, <3>2 DEF ScanInv, ProcessesInv, CrashesAreFound, PidReused, DbIsOpen
    <3> QED BY <3>3, <3>4 DEF ScanInv
  <2>4. CASE ~DbIsOpen(s)
    <3>1. status' = status  BY <1>5, <2>4 DEF EndInterrupted
    <3>3. ProcessesInv'  BY <1>0, <2>1, <3>1 DEF ScanInv, ProcessesInv
    <3>4. CrashesAreFound'
      BY <1>0, <2>1, <2>4, <3>1 DEF ScanInv, CrashesAreFound, PidReused, DbIsOpen
    <3> QED BY <3>3, <3>4 DEF ScanInv
  <2>5. CASE ~isProcessAlive(t) /\ DbIsOpen(s)
    <3>1. status' = [status EXCEPT ![t] = "interrupted"]  BY <1>5, <2>5 DEF EndInterrupted, EndSession
    <3>2. ProcessOf[t] \in dead  BY <2>2, <2>5 DEF isProcessAlive
    <3>3. ProcessesInv'  BY <1>0, <2>1, <3>1 DEF ScanInv, ProcessesInv
    <3>4. CrashesAreFound'
      BY <1>0, <2>1, <3>1, <3>2 DEF ScanInv, CrashesAreFound, PidReused, DbIsOpen
    <3> QED BY <3>3, <3>4 DEF ScanInv
  <2> QED BY <2>3, <2>4, <2>5
<1>6. ASSUME NEW p \in Processes, Crash(p) PROVE ScanInv'
  <2>1. /\ p \in alive /\ alive' = alive \ {p} /\ dead' = dead \cup {p}
        /\ UNCHANGED <<pc, status, list, doomed, closing>>
    BY <1>6 DEF Crash
  <2> QED BY <1>0, <2>1, SameScan DEF DbIsOpen
<1>7. ASSUME UNCHANGED vars PROVE ScanInv'
  <2>1. UNCHANGED <<alive, dead, pc, status, list, doomed, closing>>  BY <1>7 DEF vars
  <2> QED BY <1>0, <2>1, SameScan DEF DbIsOpen
<1>8. ASSUME NEW s \in Sessions,
         \/ ClearMessages(s) \/ LoadTranscript(s) \/ SaveRepaired(s) \/ LoadTurnCounter(s)
         \/ BuildContext(s) \/ StartTurn(s) \/ Call(s) \/ Answer(s) \/ CallFails(s) \/ Stopped(s)
         \/ Report(s) \/ LogAssistant(s) \/ SaveResumableState(s) \/ FinishTurn(s)
      PROVE ScanInv'
  <2>1. /\ UNCHANGED <<alive, dead, status, list, doomed, closing>>
        /\ \A t \in Sessions : pc'[t] = "unborn" <=> pc[t] = "unborn"
    BY <1>8, WorkLeaves
  <2> QED BY <1>0, <2>1, SameScan DEF DbIsOpen
<1> QED BY <1>1, <1>2, <1>3, <1>4, <1>5, <1>6, <1>7, <1>8 DEF Next, SessionStep

\* A session is called interrupted only when its process is gone, and a scan that
\* is over has called every one that was when it read the table: DetectInterrupted
\* does not read a row again, and what it writes is true all the same.
THEOREM ScansAreRight == Spec => []CrashesAreFound
<1>1. Init => ScanInv
  BY DEF Init, ScanInv, ProcessesInv, CrashesAreFound, TypeInv
<1>2. ScanInv => CrashesAreFound  BY DEF ScanInv
<1> QED BY <1>1, <1>2, LogTypes, NextKeepsScans, PTL DEF Spec

-----------------------------------------------------------------------------
(* The turn counter and its transcript                                     *)

\* A clearing of the workspace was cut in two.
CutClearing == \E s \in Sessions : pc[s] = "clearing counter" /\ ProcessOf[s] \in dead

\* One session at a time has the workspace.  On disk, a counter without a transcript
\* is being cleared, and no other is beyond its transcript.
OneAtATime == \A s, t \in Sessions : ~Finished(s) /\ ~Finished(t) => s = t
DiskAgrees ==
  /\ transcript.state = "absent" =>
       turnCounter.n = 0 \/ \E s \in Sessions : pc[s] = "clearing counter"
  /\ transcript.state = "whole" => turnCounter.n <= transcript.upto
ReadsAgree ==
  \A s \in Sessions :
    /\ loaded[s].counter <= loaded[s].upto
    /\ pc[s] \in {"unborn", "reading"} => loaded[s].counter = 0

\* Nor is it beyond what the session that has the workspace has read, then counted,
\* and is about to save; between the writes of the two files that is all there is.
OpeningPcs == {"unborn", "clearing", "clearing counter", "reading", "repairing", "repaired",
               "reading counter", "failed"}
SavingPcs == {"saving", "saving transcript", "saving counter", "writing counter"}
Covers(s) ==
  /\ pc[s] \in {"repairing", "repaired", "reading counter"} => turnCounter.n <= loaded[s].upto
  /\ pc[s] = "repairing" => transcript.state = "whole"
  /\ pc[s] \notin OpeningPcs /\ kind[s] # "detached" => turnCounter.n <= counter[s]
  /\ pc[s] \in SavingPcs => kind[s] # "detached"
  /\ pc[s] \in {"saving counter", "writing counter"} =>
       transcript.state = "whole" /\ transcript.upto = counter[s]
CoverInv ==
  OneAtATime /\ DiskAgrees /\ ReadsAgree /\ \A s \in Sessions : ~Finished(s) => Covers(s)
CounterInv == situation.together \/ CutClearing \/ CoverInv

\* Only a session that is not finished works.
LEMMA WorkersAreUnfinished ==
  ASSUME TypeInv, ScanInv, NEW s \in Sessions,
         \/ ClearMessages(s) \/ LoadTranscript(s) \/ SaveRepaired(s) \/ LoadTurnCounter(s)
         \/ BuildContext(s) \/ StartTurn(s) \/ Call(s) \/ Answer(s) \/ CallFails(s) \/ Stopped(s)
         \/ Report(s) \/ LogAssistant(s) \/ SaveResumableState(s) \/ FinishTurn(s)
         \/ ListRunning(s) \/ Register(s)
  PROVE  ~Finished(s) /\ ProcessOf[s] \in alive
<1>1. /\ pc[s] \notin {"unborn", "failed"} /\ ProcessOf[s] \in alive
      /\ pc[s] = "idle" => closing[s].at = "open"
  BY DEF ClearMessages, LoadTranscript, SaveRepaired, LoadTurnCounter, BuildContext, StartTurn, Call,
         Answer, CallFails, Stopped, Report, LogAssistant, SaveResumableState, FinishTurn, ListRunning,
         Register, Move
<1> QED BY <1>1 DEF Finished, ScanInv, ProcessesInv

\* Such a step leaves the others finished: what it must keep is the disk, what
\* was read, and what the session itself covers.
LEMMA WorkerCovers ==
  ASSUME TypeInv, CoverInv, NEW s \in Sessions, ~Finished(s),
         UNCHANGED <<alive, dead, closing>>, \A t \in Sessions \ {s} : pc'[t] = pc[t],
         DiskAgrees', ReadsAgree', Covers(s)'
  PROVE  CoverInv'
<1>1. \A t \in Sessions \ {s} : Finished(t)  BY DEF CoverInv, OneAtATime
<1>2. \A t \in Sessions \ {s} : Finished(t)'  BY <1>1 DEF Finished
<1> QED BY <1>2 DEF CoverInv, OneAtATime

\* A dead session stays where it is.
LEMMA CutStays == TypeInv /\ ScanInv /\ CutClearing /\ [Next]_vars => CutClearing'
<1> SUFFICES ASSUME TypeInv, ScanInv, [Next]_vars,
                    NEW t \in Sessions, pc[t] = "clearing counter", ProcessOf[t] \in dead
             PROVE  pc'[t] = "clearing counter" /\ ProcessOf[t] \in dead'
  BY DEF CutClearing
<1>0. alive \cap dead = {} /\ pc \in [Sessions -> Pcs]
  BY DEF ScanInv, ProcessesInv, TypeInv, ControlOK
<1>1. ASSUME NEW s \in Sessions, ListRunning(s) \/ Register(s)
      PROVE pc'[t] = pc[t] /\ dead' = dead
  BY <1>0, <1>1 DEF ListRunning, Register, Move, processVars
<1>2. ASSUME NEW s \in Sessions, NewEngine(s) PROVE pc'[t] = pc[t] /\ dead' = dead
  BY <1>0, <1>2 DEF NewEngine
<1>3. ASSUME NEW s \in Sessions, Close(s) PROVE pc'[t] = pc[t] /\ dead' = dead
  BY <1>3 DEF Close, CloseStep, processVars
<1>4. ASSUME NEW s \in Sessions, NEW u \in Sessions, EndInterrupted(s, u)
      PROVE pc'[t] = pc[t] /\ dead' = dead
  BY <1>4 DEF EndInterrupted, processVars
<1>5. ASSUME NEW p \in Processes, Crash(p) PROVE pc'[t] = pc[t] /\ dead \subseteq dead'
  BY <1>5 DEF Crash
<1>6. ASSUME NEW s \in Sessions,
         \/ ClearMessages(s) \/ LoadTranscript(s) \/ SaveRepaired(s) \/ LoadTurnCounter(s)
         \/ BuildContext(s) \/ StartTurn(s) \/ Call(s) \/ Answer(s) \/ CallFails(s) \/ Stopped(s)
         \/ Report(s) \/ LogAssistant(s) \/ SaveResumableState(s) \/ FinishTurn(s)
      PROVE pc'[t] = pc[t] /\ dead' = dead
  BY <1>0, <1>6, WorkLeaves DEF processVars
<1>7. UNCHANGED vars => pc'[t] = pc[t] /\ dead' = dead  BY DEF vars, processVars
<1> QED BY <1>1, <1>2, <1>3, <1>4, <1>5, <1>6, <1>7 DEF Next, SessionStep

\* The steps that change neither file nor what was read of them.
LEMMA OtherWorkCovers ==
  ASSUME TypeInv, ScanInv, CoverInv, NEW s \in Sessions,
         \/ BuildContext(s) \/ StartTurn(s) \/ Call(s) \/ Answer(s) \/ CallFails(s) \/ Stopped(s)
         \/ Report(s) \/ LogAssistant(s) \/ FinishTurn(s) \/ ListRunning(s) \/ Register(s)
  PROVE  CoverInv'
<1> USE DEF processVars, logVars, turnVars, rowVars, diskVars, others
<1>0. ~Finished(s) /\ Covers(s) /\ pc \in [Sessions -> Pcs] /\ counter \in [Sessions -> Nat]
  BY WorkersAreUnfinished DEF CoverInv, TypeInv, ControlOK, CountOK
<1>1. UNCHANGED <<alive, dead, closing, kind, transcript, turnCounter, loaded>>
  BY DEF BuildContext, StartTurn, Call, Answer, CallFails, Stopped, Report, LogAssistant, FinishTurn,
         ListRunning, Register
<1>2. /\ \E to \in Pcs : pc' = [pc EXCEPT ![s] = to] /\ to \notin OpeningPcs \ {"failed"}
                         /\ (to \in SavingPcs => to = "saving" /\ kind[s] # "detached")
      /\ pc[s] \notin OpeningPcs \cup {"saving transcript", "saving counter", "writing counter"}
  <2>1. CASE Report(s)  BY <1>0, <2>1 DEF Report, Pcs, OpeningPcs, SavingPcs
  <2>2. CASE ~Report(s)
    BY <2>2 DEF BuildContext, StartTurn, Call, Answer, CallFails, Stopped, LogAssistant, FinishTurn,
         ListRunning, Register, Move, Pcs, OpeningPcs, SavingPcs
  <2> QED BY <2>1, <2>2
<1>3. counter'[s] \in Nat /\ counter[s] <= counter'[s]
  <2>1. CASE StartTurn(s)  BY <1>0, <2>1 DEF StartTurn
  <2>2. CASE ~StartTurn(s)
    <3>1. counter' = counter
      BY <2>2 DEF BuildContext, Call, Answer, CallFails, Stopped, Report, LogAssistant, FinishTurn,
         ListRunning, Register
    <3> QED BY <1>0, <3>1
  <2> QED BY <2>1, <2>2
<1>4. \A t \in Sessions \ {s} : pc'[t] = pc[t]  BY <1>0, <1>2
<1>5. DiskAgrees'  BY <1>0, <1>1, <1>2 DEF CoverInv, DiskAgrees, OpeningPcs
<1>6. ReadsAgree'  BY <1>0, <1>1, <1>2 DEF CoverInv, ReadsAgree, OpeningPcs
<1>7. Covers(s)'
  <2>1. turnCounter.n \in Nat /\ counter[s] \in Nat  BY DEF TypeInv, DiskOK, CountOK
  <2>2. turnCounter.n <= counter[s] => turnCounter.n <= counter'[s]  BY <1>3, <2>1
  <2>3. kind'[s] = kind[s] /\ turnCounter' = turnCounter  BY <1>1
  <2>4. /\ pc[s] \notin OpeningPcs /\ pc'[s] \notin OpeningPcs \ {"failed"}
        /\ (pc'[s] \in SavingPcs => pc'[s] = "saving" /\ kind[s] # "detached")
    BY <1>0, <1>2
  <2>5. pc[s] \notin OpeningPcs /\ kind[s] # "detached" => turnCounter.n <= counter[s]
    BY <1>0 DEF Covers
  <2>6. /\ pc'[s] \notin {"repairing", "repaired", "reading counter"}
        /\ pc'[s] \notin {"saving counter", "writing counter"}
    BY <2>4 DEF OpeningPcs, SavingPcs
  <2> QED BY <2>2, <2>3, <2>4, <2>5, <2>6 DEF Covers
<1> QED BY <1>0, <1>1, <1>4, <1>5, <1>6, <1>7, WorkerCovers

\* What the values of the two files say.
LEMMA DiskFields ==
  ASSUME NEW n, NEW cut
  PROVE  /\ Absent.state = "absent" /\ Torn.state = "torn"
         /\ Whole(n, cut).state = "whole" /\ Whole(n, cut).upto = n
         /\ CounterIs(n).n = n /\ TornCounter.n = 0
  BY DEF Absent, Torn, Whole, CounterIs, TornCounter

\* Opening: the workspace is cleared, or its transcript is read, repaired, and its
\* counter read after it.
LEMMA OpeningCovers ==
  ASSUME TypeInv, ScanInv, CoverInv, ~CutClearing, NEW s \in Sessions,
         ClearMessages(s) \/ LoadTranscript(s) \/ SaveRepaired(s) \/ LoadTurnCounter(s)
  PROVE  CoverInv'
<1> USE DEF others
<1>0. /\ ~Finished(s) /\ Covers(s) /\ ProcessOf[s] \in alive
      /\ pc \in [Sessions -> Pcs] /\ loaded \in [Sessions -> [upto : Nat, counter : Nat]]
  BY WorkersAreUnfinished DEF CoverInv, TypeInv, ControlOK, DiskOK
<1>T. /\ counter[s] \in Nat /\ loaded[s].upto \in Nat
      /\ turnCounter.n \in Nat /\ transcript.upto \in Nat
      /\ transcript.state \in {"absent", "torn", "whole"}
  BY DEF TypeInv, CountOK, DiskOK, Transcripts
<1>1. UNCHANGED <<alive, dead, closing, kind>> /\ \A t \in Sessions \ {s} : pc'[t] = pc[t]
  BY WorkLeaves DEF processVars
<1>2. ASSUME ClearMessages(s) PROVE CoverInv'
  <2>1. loaded' = loaded /\ counter' = counter  BY <1>2 DEF ClearMessages, turnVars
  <2>2. CASE /\ Move(s, "clearing", "clearing counter") /\ transcript' = Absent
             /\ turnCounter' = turnCounter
    <3>1. pc'[s] = "clearing counter" /\ transcript'.state = "absent"
      BY <1>0, <2>2, DiskFields DEF Move
    <3>2. DiskAgrees'  BY <3>1 DEF DiskAgrees
    <3>3. ReadsAgree'  BY <1>1, <2>1, <3>1 DEF CoverInv, ReadsAgree
    <3>4. Covers(s)'  BY <3>1 DEF Covers, OpeningPcs, SavingPcs
    <3> QED BY <1>0, <1>1, <3>2, <3>3, <3>4, WorkerCovers
  <2>3. CASE /\ Move(s, "clearing counter", "scanning") /\ turnCounter' = CounterIs(0)
             /\ transcript' = transcript
    <3>1. pc'[s] = "scanning" /\ turnCounter'.n = 0 /\ transcript' = transcript
      BY <1>0, <2>3, DiskFields DEF Move
    <3>2. DiskAgrees'  BY <1>T, <3>1 DEF DiskAgrees
    <3>3. ReadsAgree'  BY <1>1, <2>1, <3>1 DEF CoverInv, ReadsAgree
    <3>4. counter'[s] \in Nat /\ turnCounter'.n <= counter'[s]  BY <1>T, <2>1, <3>1
    <3>5. Covers(s)'  BY <3>1, <3>4 DEF Covers, OpeningPcs, SavingPcs
    <3> QED BY <1>0, <1>1, <3>2, <3>3, <3>5, WorkerCovers
  <2> QED BY <1>2, <2>2, <2>3 DEF ClearMessages
<1>3. ASSUME LoadTranscript(s) PROVE CoverInv'
  <2>1. /\ pc[s] = "reading" /\ UNCHANGED <<transcript, turnCounter, counter>>
        /\ loaded' = [loaded EXCEPT ![s].upto = transcript.upto]
    BY <1>3 DEF LoadTranscript, Move, diskVars, turnVars
  <2>2. \/ transcript.state = "torn" /\ pc'[s] = "failed"
        \/ transcript.state = "absent" /\ pc'[s] = "scanning"
        \/ transcript.state = "whole" /\ pc'[s] \in {"repairing", "reading counter"}
    BY <1>0, <1>3 DEF LoadTranscript, Move
  <2>3. DiskAgrees'
    <3>1. \A t \in Sessions : pc[t] = "clearing counter" => t # s /\ pc'[t] = pc[t]
      BY <1>1, <2>1
    <3> QED BY <2>1, <3>1 DEF CoverInv, DiskAgrees
  <2>4. loaded'[s].upto = transcript.upto /\ loaded'[s].counter = loaded[s].counter
    BY <1>0, <2>1
  <2>5. ReadsAgree'
    <3>1. loaded[s].counter = 0  BY <2>1 DEF CoverInv, ReadsAgree
    <3>2. \A t \in Sessions \ {s} : loaded'[t] = loaded[t]  BY <1>0, <2>1
    <3>3. loaded'[s].counter <= loaded'[s].upto /\ loaded'[s].counter = 0  BY <1>T, <2>4, <3>1
    <3> QED BY <1>1, <3>2, <3>3 DEF CoverInv, ReadsAgree
  <2>6. Covers(s)'
    <3>1. CASE transcript.state = "absent"
      <4>1. \A t \in Sessions : pc[t] # "clearing counter"
        <5> SUFFICES ASSUME NEW t \in Sessions, pc[t] = "clearing counter" PROVE FALSE  OBVIOUS
        <5>1. ProcessOf[t] \notin dead  BY DEF CutClearing
        <5>2. ~Finished(t)  BY <5>1 DEF Finished
        <5> QED BY <1>0, <2>1, <5>2 DEF CoverInv, OneAtATime
      <4>2. turnCounter.n = 0  BY <3>1, <4>1 DEF CoverInv, DiskAgrees
      <4>3. turnCounter'.n <= counter'[s]  BY <1>T, <2>1, <4>2
      <4> QED BY <2>2, <3>1, <4>3 DEF Covers, OpeningPcs, SavingPcs
    <3>2. CASE transcript.state = "whole"
      <4>1. turnCounter.n <= transcript.upto  BY <3>2 DEF CoverInv, DiskAgrees
      <4> QED BY <2>1, <2>2, <2>4, <3>2, <4>1 DEF Covers, OpeningPcs, SavingPcs
    <3>3. CASE transcript.state = "torn"  BY <2>2, <3>3 DEF Covers, OpeningPcs, SavingPcs
    <3> QED BY <1>T, <3>1, <3>2, <3>3
  <2> QED BY <1>0, <1>1, <2>3, <2>5, <2>6, WorkerCovers
<1>4. ASSUME SaveRepaired(s) PROVE CoverInv'
  <2>1. /\ loaded' = loaded /\ counter' = counter /\ turnCounter' = turnCounter
        /\ pc[s] \in {"repairing", "repaired"} /\ turnCounter.n <= loaded[s].upto
    BY <1>0, <1>4 DEF SaveRepaired, turnVars, Move, Covers
  <2>2. \/ transcript' = Torn /\ pc'[s] = "repaired"
        \/ transcript' = Whole(loaded[s].upto, FALSE) /\ pc'[s] = "reading counter"
    BY <1>0, <1>4 DEF SaveRepaired, Move
  <2>6. \/ transcript'.state = "torn" /\ pc'[s] = "repaired"
        \/ transcript'.upto = loaded[s].upto /\ transcript'.state = "whole" /\ pc'[s] = "reading counter"
    <3>1. Torn.state = "torn"  BY DiskFields
    <3>2. Whole(loaded[s].upto, FALSE).state = "whole" /\ Whole(loaded[s].upto, FALSE).upto = loaded[s].upto
      BY DiskFields
    <3> QED BY <2>2, <3>1, <3>2
  <2>3. DiskAgrees'  BY <2>1, <2>6 DEF DiskAgrees
  <2>4. ReadsAgree'  BY <1>1, <2>1, <2>2 DEF CoverInv, ReadsAgree
  <2>5. Covers(s)'  BY <2>1, <2>6 DEF Covers, OpeningPcs, SavingPcs
  <2> QED BY <1>0, <1>1, <2>3, <2>4, <2>5, WorkerCovers
<1>5. ASSUME LoadTurnCounter(s) PROVE CoverInv'
  <2>1. /\ pc[s] = "reading counter" /\ pc'[s] = "scanning"
        /\ UNCHANGED <<transcript, turnCounter>>
        /\ loaded' = [loaded EXCEPT ![s].counter = turnCounter.n]
        /\ counter'[s] = turnCounter.n
    <3>1. counter \in [Sessions -> Nat]  BY DEF TypeInv, CountOK
    <3> QED BY <1>0, <1>5, <3>1 DEF LoadTurnCounter, Move, diskVars
  <2>2. DiskAgrees'
    <3>1. \A t \in Sessions : pc[t] = "clearing counter" => t # s /\ pc'[t] = pc[t]
      BY <1>1, <2>1
    <3> QED BY <2>1, <3>1 DEF CoverInv, DiskAgrees
  <2>3. ReadsAgree'
    <3>1. /\ loaded'[s].upto = loaded[s].upto /\ loaded'[s].counter = turnCounter.n
          /\ \A t \in Sessions \ {s} : loaded'[t] = loaded[t]
      BY <1>0, <2>1
    <3>2. turnCounter.n <= loaded[s].upto  BY <1>0, <2>1 DEF Covers
    <3> QED BY <1>1, <2>1, <3>1, <3>2 DEF CoverInv, ReadsAgree
  <2>4. turnCounter'.n <= counter'[s]
    <3>1. turnCounter'.n = turnCounter.n /\ counter'[s] = turnCounter.n  BY <2>1
    <3> QED BY <1>T, <3>1
  <2>5. Covers(s)'  BY <2>1, <2>4 DEF Covers, OpeningPcs, SavingPcs
  <2> QED BY <1>0, <1>1, <2>2, <2>3, <2>5, WorkerCovers
<1> QED BY <1>2, <1>3, <1>4, <1>5

\* Saving: the transcript before the counter, and each file torn while it is written.
LEMMA SavingCovers ==
  ASSUME TypeInv, ScanInv, CoverInv, NEW s \in Sessions, SaveResumableState(s)
  PROVE  CoverInv'
<1> USE DEF others
<1>0. /\ ~Finished(s) /\ Covers(s) /\ pc \in [Sessions -> Pcs]
  BY WorkersAreUnfinished DEF CoverInv, TypeInv, ControlOK
<1>T. counter[s] \in Nat /\ turnCounter.n \in Nat /\ transcript.upto \in Nat
  BY DEF TypeInv, CountOK, DiskOK, Transcripts
<1>1. /\ UNCHANGED <<alive, dead, closing, loaded>>
      /\ \A t \in Sessions \ {s} : pc'[t] = pc[t]
  BY WorkLeaves DEF processVars, SaveResumableState
<1>U. counter'[s] = counter[s] /\ kind'[s] = kind[s]
  BY DEF SaveResumableState, turnVars
<1>2. /\ pc[s] \in SavingPcs /\ pc'[s] \notin OpeningPcs /\ kind[s] # "detached"
      /\ turnCounter.n <= counter[s]
  BY <1>0 DEF SaveResumableState, Move, SavingPcs, OpeningPcs, Covers
<1>3. ReadsAgree'  BY <1>1, <1>2 DEF CoverInv, ReadsAgree, OpeningPcs
<1>4. \A t \in Sessions : pc[t] = "clearing counter" => pc'[t] = "clearing counter"
  BY <1>1, <1>2 DEF SavingPcs
<1>5. CASE Move(s, "saving", "saving transcript") /\ transcript' = Torn /\ turnCounter' = turnCounter
  <2>1. pc'[s] = "saving transcript" /\ transcript'.state = "torn" /\ turnCounter' = turnCounter
    BY <1>0, <1>5, DiskFields DEF Move
  <2>2. DiskAgrees'  BY <2>1 DEF DiskAgrees
  <2>3. Covers(s)'  BY <1>U, <1>2, <2>1 DEF Covers, OpeningPcs
  <2> QED BY <1>0, <1>1, <1>3, <2>2, <2>3, WorkerCovers
<1>6. CASE /\ Move(s, "saving transcript", "saving counter") /\ turnCounter' = turnCounter
           /\ \E cut \in BOOLEAN : transcript' = Whole(counter[s], cut)
  <2>1. pc'[s] = "saving counter" /\ turnCounter' = turnCounter  BY <1>0, <1>6 DEF Move
  <2>2. PICK cut \in BOOLEAN : transcript' = Whole(counter[s], cut)  BY <1>6
  <2>3. transcript'.state = "whole" /\ transcript'.upto = counter[s]  BY <2>2, DiskFields
  <2>4. DiskAgrees'  BY <1>2, <2>1, <2>3 DEF DiskAgrees
  <2>5. Covers(s)'  BY <1>U, <1>2, <2>1, <2>3 DEF Covers, OpeningPcs
  <2> QED BY <1>0, <1>1, <1>3, <2>4, <2>5, WorkerCovers
<1>7. CASE Move(s, "saving transcript", "checkpointing") /\ UNCHANGED <<transcript, turnCounter>>
  <2>1. pc'[s] = "checkpointing"  BY <1>0, <1>7 DEF Move
  <2>2. DiskAgrees'  BY <1>4, <1>7 DEF CoverInv, DiskAgrees
  <2>3. Covers(s)'  BY <1>U, <1>2, <1>7, <2>1 DEF Covers, OpeningPcs, SavingPcs
  <2> QED BY <1>0, <1>1, <1>3, <2>2, <2>3, WorkerCovers
<1>8. CASE /\ Move(s, "saving counter", "writing counter") /\ turnCounter' = TornCounter
           /\ transcript' = transcript
  <2>1. /\ pc[s] = "saving counter" /\ pc'[s] = "writing counter"
        /\ turnCounter'.n = 0 /\ transcript' = transcript
    BY <1>0, <1>8, DiskFields DEF Move
  <2>2. transcript.state = "whole" /\ transcript.upto = counter[s]  BY <1>0, <2>1 DEF Covers
  <2>3. turnCounter'.n <= transcript.upto /\ turnCounter'.n <= counter[s]
    <3>1. 0 <= transcript.upto /\ 0 <= counter[s]  BY <1>T
    <3>2. turnCounter'.n = 0  BY <2>1
    <3> QED BY <3>1, <3>2
  <2>4. DiskAgrees'  BY <2>1, <2>2, <2>3 DEF DiskAgrees
  <2>5. Covers(s)'  BY <1>U, <1>2, <2>1, <2>2, <2>3 DEF Covers, OpeningPcs
  <2> QED BY <1>0, <1>1, <1>3, <2>4, <2>5, WorkerCovers
<1>9. CASE /\ Move(s, "writing counter", "checkpointing") /\ turnCounter' = CounterIs(counter[s])
           /\ transcript' = transcript
  <2>1. /\ pc[s] = "writing counter" /\ pc'[s] = "checkpointing"
        /\ turnCounter'.n = counter[s] /\ transcript' = transcript
    BY <1>0, <1>9, DiskFields DEF Move
  <2>2. transcript.state = "whole" /\ transcript.upto = counter[s]  BY <1>0, <2>1 DEF Covers
  <2>3. turnCounter'.n <= transcript.upto /\ turnCounter'.n <= counter[s]
    <3>1. turnCounter'.n = counter[s] /\ transcript.upto = counter[s]  BY <2>1, <2>2
    <3>2. counter[s] <= counter[s]  BY <1>T
    <3> QED BY <3>1, <3>2
  <2>4. DiskAgrees'  BY <2>1, <2>2, <2>3 DEF DiskAgrees
  <2>5. Covers(s)'  BY <1>U, <1>2, <2>1, <2>3 DEF Covers, OpeningPcs, SavingPcs
  <2> QED BY <1>0, <1>1, <1>3, <2>4, <2>5, WorkerCovers
<1> QED BY <1>5, <1>6, <1>7, <1>8, <1>9 DEF SaveResumableState, diskVars

\* A creation finds everybody finished; an end only adds to those who are.
LEMMA SystemCovers ==
  ASSUME TypeInv, ScanInv, CoverInv, ~situation.together,
         \/ \E s \in Sessions : NewEngine(s) \/ Close(s)
         \/ \E s, t \in Sessions : EndInterrupted(s, t)
         \/ \E p \in Processes : Crash(p)
         \/ UNCHANGED vars
  PROVE  CoverInv'
<1> USE DEF processVars, logVars, turnVars, rowVars, diskVars
<1>0. /\ pc \in [Sessions -> Pcs] /\ kind \in [Sessions -> {"fresh", "resumed", "detached"}]
      /\ closing \in [Sessions -> [at : Ats, used : Nat]]
      /\ loaded \in [Sessions -> [upto : Nat, counter : Nat]]
  BY DEF TypeInv, ControlOK, DiskOK
<1>1. ASSUME NEW s \in Sessions, NewEngine(s) PROVE CoverInv'
  <2>1. /\ pc[s] = "unborn" /\ \A t \in Sessions : Finished(t)
        /\ UNCHANGED <<dead, closing, transcript, turnCounter, loaded, counter>>
    BY <1>1 DEF NewEngine
  <2>2. PICK k \in situation.kinds :
          /\ kind' = [kind EXCEPT ![s] = k]
          /\ pc' = [pc EXCEPT ![s] = CASE k = "fresh" -> "clearing"
                                        [] k = "resumed" -> "reading"
                                        [] k = "detached" -> "scanning"]
    BY <1>1 DEF NewEngine
  <2>3. k \in {"fresh", "resumed", "detached"}  BY SessionLogAssumption DEF TypeInv, ControlOK
  <2>4. /\ \A t \in Sessions \ {s} : pc'[t] = pc[t]
        /\ \/ pc'[s] \in {"clearing", "reading"}
           \/ pc'[s] = "scanning" /\ kind'[s] = "detached"
    BY <1>0, <2>2, <2>3
  <2>5. \A t \in Sessions \ {s} : Finished(t)'  BY <2>1, <2>4 DEF Finished
  <2>6. DiskAgrees'
    <3>1. \A t \in Sessions : pc[t] = "clearing counter" => pc'[t] = pc[t]  BY <2>1, <2>4
    <3> QED BY <2>1, <3>1 DEF CoverInv, DiskAgrees
  <2>7. ReadsAgree'  BY <2>1, <2>4 DEF CoverInv, ReadsAgree
  <2>8. Covers(s)'  BY <2>4 DEF Covers, OpeningPcs, SavingPcs
  <2> QED BY <2>5, <2>6, <2>7, <2>8 DEF CoverInv, OneAtATime
<1>2. ASSUME \/ \E s \in Sessions : Close(s)
             \/ \E s, t \in Sessions : EndInterrupted(s, t)
             \/ \E p \in Processes : Crash(p)
             \/ UNCHANGED vars
      PROVE CoverInv'
  <2>1. /\ UNCHANGED <<pc, kind, counter, transcript, turnCounter, loaded>> /\ dead \subseteq dead'
        /\ \A t \in Sessions : closing[t].at = "closed" => closing'[t].at = "closed"
    <3>1. ASSUME NEW s \in Sessions, Close(s)
          PROVE /\ UNCHANGED <<pc, kind, counter, transcript, turnCounter, loaded, dead>>
                /\ \A t \in Sessions : closing[t].at = "closed" => closing'[t].at = "closed"
      BY <1>0, <3>1 DEF Close, CloseStep
    <3> QED BY <1>2, <3>1 DEF EndInterrupted, Crash, vars
  <2>2. \A t \in Sessions : ~Finished(t)' => ~Finished(t)  BY <2>1 DEF Finished
  <2>3. DiskAgrees' /\ ReadsAgree'  BY <2>1 DEF CoverInv, DiskAgrees, ReadsAgree
  <2>4. \A t \in Sessions : Covers(t) => Covers(t)'  BY <2>1 DEF Covers
  <2> QED BY <2>2, <2>3, <2>4 DEF CoverInv, OneAtATime
<1> QED BY <1>1, <1>2

\* The case is chosen once.
LEMMA SituationStays == TypeInv /\ [Next]_vars => situation' = situation
<1> SUFFICES ASSUME TypeInv, [Next]_vars PROVE situation' = situation  OBVIOUS
<1>1. ASSUME NEW s \in Sessions, NewEngine(s) \/ ListRunning(s) \/ Register(s) \/ Close(s)
      PROVE situation' = situation
  BY <1>1 DEF NewEngine, ListRunning, Register, Close, CloseStep, processVars
<1>2. ASSUME NEW s \in Sessions, NEW t \in Sessions, EndInterrupted(s, t)
      PROVE situation' = situation
  BY <1>2 DEF EndInterrupted, processVars
<1>3. ASSUME NEW p \in Processes, Crash(p) PROVE situation' = situation  BY <1>3 DEF Crash
<1>4. UNCHANGED vars => situation' = situation  BY DEF vars, processVars
<1> QED BY <1>1, <1>2, <1>3, <1>4, WorkLeaves DEF Next, SessionStep, processVars

\* Every step keeps the counter covered.
LEMMA NextKeepsCounter == TypeInv /\ ScanInv /\ CounterInv /\ [Next]_vars => CounterInv'
<1> SUFFICES ASSUME TypeInv, ScanInv, CounterInv, [Next]_vars PROVE CounterInv'  OBVIOUS
<1>1. situation' = situation  BY SituationStays
<1>2. CASE situation.together  BY <1>1, <1>2 DEF CounterInv
<1>3. CASE CutClearing  BY <1>3, CutStays DEF CounterInv
<1>4. CASE ~situation.together /\ ~CutClearing
  <2>1. CoverInv  BY <1>4 DEF CounterInv
  <2>2. CoverInv'
    BY <1>4, <2>1, OtherWorkCovers, OpeningCovers, SavingCovers, SystemCovers DEF Next, SessionStep
  <2> QED BY <2>2 DEF CounterInv
<1> QED BY <1>2, <1>3, <1>4

\* The transcript is written before its counter and read before it, so wherever a
\* process dies a resumed session counts no turn its transcript does not have.
THEOREM CountersAreCovered == Spec => []CounterIsCovered
<1>1. Init => CounterInv
  BY DEF Init, CounterInv, CoverInv, OneAtATime, Finished, DiskAgrees, ReadsAgree, CounterIs, Absent
<1>2. CounterInv => CounterIsCovered
  BY DEF CounterInv, CutClearing, CoverInv, ReadsAgree, CounterIsCovered
<1>3. Spec => []ScanInv
  <2>1. Init => ScanInv
    BY DEF Init, ScanInv, ProcessesInv, CrashesAreFound
  <2> QED BY <2>1, LogTypes, NextKeepsScans, PTL DEF Spec
<1> QED BY <1>1, <1>2, <1>3, LogTypes, NextKeepsCounter, PTL DEF Spec

-----------------------------------------------------------------------------
(* The rows of turns                                                       *)

Filled(r) == {n \in DOMAIN r : r[n] # 0}

\* A row for each request that was logged, the last of them empty while its answer
\* is awaited.  Nothing is closed under a turn.
RowsFit(s) ==
  /\ Len(rows[s]) = trip[s]
  /\ closing[s].at # "open" => pc[s] = "idle"
  /\ pc[s] = "waiting" => trip[s] # 0 /\ rows[s][trip[s]] = 0
  /\ ToSet(rows[s]) \ {0} = 1 .. answered[s]
  /\ IsFiniteSet(Filled(rows[s])) /\ Cardinality(Filled(rows[s])) = answered[s]
OnlyAnthropic == situation.served = {"anthropic"} /\ ~situation.overlap
RowsInv == OnlyAnthropic => \A s \in Sessions : RowsFit(s)

\* An empty row fills nothing.
LEMMA EmptyRow ==
  ASSUME NEW r \in Seq(Nat)
  PROVE  LET new == Append(r, 0) IN
         /\ Len(new) = Len(r) + 1 /\ new[Len(r) + 1] = 0
         /\ ToSet(new) \ {0} = ToSet(r) \ {0}
         /\ Filled(new) = Filled(r)
<1> DEFINE new == Append(r, 0)
<1>1. /\ Len(r) \in Nat /\ Len(new) = Len(r) + 1 /\ new[Len(r) + 1] = 0
      /\ DOMAIN r = 1 .. Len(r) /\ DOMAIN new = 1 .. (Len(r) + 1)
      /\ \A n \in 1 .. Len(r) : new[n] = r[n]
  OBVIOUS
<1> HIDE DEF new
<1>2. DOMAIN new = DOMAIN r \cup {Len(r) + 1} /\ Len(r) + 1 \notin DOMAIN r  BY <1>1
<1>3. Filled(new) = Filled(r)  BY <1>1, <1>2 DEF Filled
<1>4. ToSet(new) \ {0} = ToSet(r) \ {0}  BY <1>1, <1>2 DEF ToSet
<1> QED BY <1>1, <1>3, <1>4 DEF new

\* The answer that is put into the last, empty row fills one more.
LEMMA FilledRow ==
  ASSUME NEW r, NEW k \in DOMAIN r, r[k] = 0, NEW a \in Nat,
         ToSet(r) \ {0} = 1 .. a, IsFiniteSet(Filled(r)), Cardinality(Filled(r)) = a,
         NEW new, DOMAIN new = DOMAIN r, new[k] = a + 1,
         \A n \in DOMAIN r \ {k} : new[n] = r[n]
  PROVE  /\ ToSet(new) \ {0} = 1 .. (a + 1)
         /\ IsFiniteSet(Filled(new)) /\ Cardinality(Filled(new)) = a + 1
<1>1. Filled(new) = Filled(r) \cup {k} /\ k \notin Filled(r)  BY DEF Filled
<1>2. ToSet(new) \ {0} = (ToSet(r) \ {0}) \cup {a + 1}
  <2>1. \A x : x \in ToSet(new) <=> x = a + 1 \/ \E n \in DOMAIN r \ {k} : x = r[n]
    BY DEF ToSet
  <2>2. \A x : x # 0 => (x \in ToSet(r) <=> \E n \in DOMAIN r \ {k} : x = r[n])  BY DEF ToSet
  <2>3. a + 1 # 0  OBVIOUS
  <2>4. \A x : x \in ToSet(new) \ {0} <=> x \in ToSet(r) \ {0} \/ x = a + 1
    BY ONLY <2>1, <2>2, <2>3
  <2> QED BY ONLY <2>4
<1>3. (1 .. a) \cup {a + 1} = 1 .. (a + 1)  OBVIOUS
<1>4. IsFiniteSet(Filled(new)) /\ Cardinality(Filled(new)) = a + 1  BY <1>1, FS_AddElement
<1> QED BY <1>2, <1>3, <1>4

\* What is not a call, an answer or a close leaves the rows.
LEMMA SameRows ==
  ASSUME TypeInv, NEW s \in Sessions, RowsFit(s),
         rows'[s] = rows[s], trip'[s] = trip[s], answered'[s] = answered[s],
         closing'[s] = closing[s] \/ pc[s] = "idle",
         \/ pc'[s] = pc[s]
         \/ /\ pc'[s] # "waiting"
            /\ \/ pc[s] # "idle"
               \/ closing[s].at = "open" /\ closing'[s] = closing[s]
  PROVE  RowsFit(s)'
<1>1. Filled(rows'[s]) = Filled(rows[s])  OBVIOUS
<1> QED BY <1>1 DEF RowsFit

\* A call opens a row.
LEMMA CallFits ==
  ASSUME TypeInv, OnlyAnthropic, NEW s \in Sessions, RowsFit(s), Call(s)
  PROVE  RowsFit(s)'
<1>1. /\ pc[s] = "calling" /\ pc'[s] = "waiting" /\ closing' = closing
      /\ answered' = answered /\ LogRequest(s)
  BY DEF Call, Move, OnlyAnthropic, TypeInv, ControlOK
<1>2. closing[s].at = "open"  BY <1>1 DEF RowsFit
<1>3. rows' = [rows EXCEPT ![s] = Append(rows[s], 0)] /\ trip' = [trip EXCEPT ![s] = @ + 1]
  BY <1>1, <1>2 DEF LogRequest, Store, DbIsOpen
<1>4. rows[s] \in Seq(Nat) /\ trip[s] \in Nat /\ Len(rows[s]) = trip[s]
  BY DEF TypeInv, CountOK, RowsFit
<1>5. rows'[s] = Append(rows[s], 0) /\ trip'[s] = trip[s] + 1  BY <1>3 DEF TypeInv, CountOK
<1>6. /\ Len(rows'[s]) = trip'[s] /\ rows'[s][trip'[s]] = 0 /\ trip'[s] # 0
      /\ ToSet(rows'[s]) \ {0} = ToSet(rows[s]) \ {0} /\ Filled(rows'[s]) = Filled(rows[s])
  BY <1>4, <1>5, EmptyRow
<1> QED BY <1>1, <1>2, <1>6 DEF RowsFit

\* An answer fills it.
LEMMA AnswerFits ==
  ASSUME TypeInv, NEW s \in Sessions, RowsFit(s), Answer(s)
  PROVE  RowsFit(s)'
<1>1. /\ pc[s] = "waiting" /\ pc'[s] # "waiting" /\ closing' = closing /\ trip' = trip
      /\ answered' = [answered EXCEPT ![s] = @ + 1] /\ EndTurn(s)
  BY DEF Answer, Move, TypeInv, ControlOK
<1>2. closing[s].at = "open" /\ trip[s] # 0 /\ rows[s][trip[s]] = 0  BY <1>1 DEF RowsFit
<1>3. rows[s] \in Seq(Nat) /\ trip[s] \in Nat /\ Len(rows[s]) = trip[s] /\ answered[s] \in Nat
  BY DEF TypeInv, CountOK, RowsFit
<1>4. trip[s] \in DOMAIN rows[s]  BY <1>2, <1>3
<1>5. answered'[s] = answered[s] + 1  BY <1>1 DEF TypeInv, CountOK
<1>6. rows' = [rows EXCEPT ![s] = [rows[s] EXCEPT ![trip[s]] = answered[s] + 1]]
  BY <1>1, <1>2, <1>4, <1>5 DEF EndTurn, Store, DbIsOpen
<1>7. rows'[s] = [rows[s] EXCEPT ![trip[s]] = answered[s] + 1]  BY <1>6 DEF TypeInv, CountOK
<1>8. /\ ToSet(rows[s]) \ {0} = 1 .. answered[s]
      /\ IsFiniteSet(Filled(rows[s])) /\ Cardinality(Filled(rows[s])) = answered[s]
  BY DEF RowsFit
<1>9. /\ DOMAIN rows'[s] = DOMAIN rows[s] /\ Len(rows'[s]) = Len(rows[s])
      /\ rows'[s][trip[s]] = answered[s] + 1
      /\ \A n \in DOMAIN rows[s] \ {trip[s]} : rows'[s][n] = rows[s][n]
  BY <1>3, <1>4, <1>7
<1>10. /\ ToSet(rows'[s]) \ {0} = 1 .. (answered[s] + 1)
       /\ IsFiniteSet(Filled(rows'[s])) /\ Cardinality(Filled(rows'[s])) = answered[s] + 1
  BY ONLY <1>2, <1>3, <1>4, <1>8, <1>9, FilledRow
<1> QED BY <1>1, <1>2, <1>3, <1>5, <1>9, <1>10 DEF RowsFit

\* Every step keeps the rows.
LEMMA NextKeepsRows == TypeInv /\ RowsInv /\ [Next]_vars => RowsInv'
<1> SUFFICES ASSUME TypeInv, RowsInv, [Next]_vars PROVE RowsInv'  OBVIOUS
<1> USE DEF processVars, logVars, turnVars, rowVars, diskVars, others
<1>1. situation' = situation  BY SituationStays
<1> SUFFICES ASSUME OnlyAnthropic, NEW u \in Sessions PROVE RowsFit(u)'
  BY <1>1 DEF RowsInv, OnlyAnthropic
<1>0. /\ RowsFit(u) /\ pc \in [Sessions -> Pcs] /\ trip \in [Sessions -> Nat]
      /\ answered \in [Sessions -> Nat] /\ rows \in [Sessions -> Seq(Nat)]
      /\ closing \in [Sessions -> [at : Ats, used : Nat]]
  BY DEF RowsInv, TypeInv, ControlOK, CountOK
<1>2. ASSUME NEW s \in Sessions, Call(s) PROVE RowsFit(u)'
  <2>1. CASE u = s  BY <1>0, <1>2, <2>1, CallFits
  <2>2. CASE u # s
    <3>1. /\ rows'[u] = rows[u] /\ trip'[u] = trip[u] /\ answered' = answered
          /\ closing' = closing /\ pc'[u] = pc[u]
      BY <1>0, <1>2, <2>2 DEF Call, LogRequest, Store, Move
    <3> QED BY <1>0, <3>1, SameRows
  <2> QED BY <2>1, <2>2
<1>3. ASSUME NEW s \in Sessions, Answer(s) PROVE RowsFit(u)'
  <2>1. CASE u = s  BY <1>0, <1>3, <2>1, AnswerFits
  <2>2. CASE u # s
    <3>1. /\ rows'[u] = rows[u] /\ trip' = trip /\ answered'[u] = answered[u]
          /\ closing' = closing /\ pc'[u] = pc[u]
      BY <1>0, <1>3, <2>2 DEF Answer, EndTurn, Store, Move
    <3> QED BY <1>0, <3>1, SameRows
  <2> QED BY <2>1, <2>2
<1>4. ASSUME NEW s \in Sessions, Close(s) PROVE RowsFit(u)'
  <2>1. UNCHANGED <<rows, trip, answered, pc>>  BY <1>4 DEF Close, CloseStep
  <2>2. CASE u # s
    <3>1. closing'[u] = closing[u]  BY <1>0, <1>4, <2>2 DEF Close, CloseStep
    <3> QED BY <1>0, <2>1, <3>1, SameRows
  <2>3. CASE u = s
    <3>1. pc[s] = "idle" \/ closing[s].at # "open"
      BY <1>4 DEF Close, CloseStep, OnlyAnthropic
    <3>2. pc[s] = "idle"  BY <1>0, <2>3, <3>1 DEF RowsFit
    <3> QED BY <1>0, <2>1, <2>3, <3>2, SameRows
  <2> QED BY <2>2, <2>3
<1>5. ASSUME NEW s \in Sessions, NewEngine(s) PROVE RowsFit(u)'
  <2>1. /\ UNCHANGED <<rows, trip, answered, closing>> /\ pc[s] = "unborn"
        /\ \A t \in Sessions \ {s} : pc'[t] = pc[t]
    BY <1>0, <1>5 DEF NewEngine
  <2>2. pc'[s] # "waiting"
    <3>1. PICK k \in situation.kinds :
            pc' = [pc EXCEPT ![s] = CASE k = "fresh" -> "clearing"
                                      [] k = "resumed" -> "reading"
                                      [] k = "detached" -> "scanning"]
      BY <1>5 DEF NewEngine
    <3>2. k \in {"fresh", "resumed", "detached"}  BY SessionLogAssumption DEF TypeInv, ControlOK
    <3> QED BY <1>0, <3>1, <3>2
  <2> QED BY <1>0, <2>1, <2>2, SameRows
<1>6. ASSUME \/ \E s, t \in Sessions : EndInterrupted(s, t)
             \/ \E p \in Processes : Crash(p)
             \/ UNCHANGED vars
      PROVE RowsFit(u)'
  <2>1. UNCHANGED <<rows, trip, answered, pc, closing>>  BY <1>6 DEF EndInterrupted, Crash, vars
  <2> QED BY <1>0, <2>1, SameRows
<1>7. ASSUME NEW s \in Sessions,
         \/ ClearMessages(s) \/ LoadTranscript(s) \/ SaveRepaired(s) \/ LoadTurnCounter(s)
         \/ BuildContext(s) \/ StartTurn(s) \/ CallFails(s) \/ Stopped(s) \/ Report(s)
         \/ LogAssistant(s) \/ SaveResumableState(s) \/ FinishTurn(s)
         \/ ListRunning(s) \/ Register(s)
      PROVE RowsFit(u)'
  <2>1. UNCHANGED <<rows, trip, answered, closing>>
    BY <1>7 DEF ClearMessages, LoadTranscript, SaveRepaired, LoadTurnCounter, BuildContext, StartTurn,
         CallFails, Stopped, Report, LogAssistant, SaveResumableState, FinishTurn, ListRunning, Register
  <2>2. \/ /\ pc[s] # "idle" \/ closing[s].at = "open"
           /\ \E to \in Pcs \ {"waiting"} : pc' = [pc EXCEPT ![s] = to]
        \/ pc' = pc
    BY <1>7 DEF ClearMessages, LoadTranscript, SaveRepaired, LoadTurnCounter, BuildContext, StartTurn,
         CallFails, Stopped, Report, LogAssistant, SaveResumableState, FinishTurn, ListRunning, Register,
         Move, Pcs
  <2> QED BY <1>0, <2>1, <2>2, SameRows
<1> QED BY <1>2, <1>3, <1>4, <1>5, <1>6, <1>7 DEF Next, SessionStep

\* Every answer of the provider has a row of its own, under the request it answers,
\* as long as the requests are logged and nothing is closed under a turn.
THEOREM AnswersGetTheirRows == Spec => []AnswersHaveRows
<1>1. Init => RowsInv
  <2> SUFFICES ASSUME Init, NEW s \in Sessions PROVE RowsFit(s)  BY DEF RowsInv
  <2>1. rows[s] = <<>> /\ trip[s] = 0 /\ answered[s] = 0 /\ closing[s].at = "open" /\ pc[s] = "unborn"
    BY DEF Init
  <2>2. Filled(rows[s]) = {} /\ ToSet(rows[s]) = {} /\ 1 .. 0 = {}  BY <2>1 DEF Filled, ToSet
  <2> QED BY <2>1, <2>2, FS_EmptySet DEF RowsFit
<1>2. RowsInv => AnswersHaveRows
  BY DEF RowsInv, RowsFit, OnlyAnthropic, Filled, AnswersHaveRows
<1> QED BY <1>1, <1>2, LogTypes, NextKeepsRows, PTL DEF Spec

-----------------------------------------------------------------------------
(* Sequences put in a row, and numbers added up *)

\* What holds at 0 and of the next number whenever of a number is true of all.
LEMMA NatSetInduction ==
  ASSUME NEW S, 0 \in S, \A n \in Nat : n \in S => n + 1 \in S
  PROVE  \A n \in Nat : n \in S
<1> DEFINE T == Nat \ S
           R == OpToRel(<, Nat)
<1>1. \A x, y \in Nat : y < x => <<y, x>> \in R
  BY DEF OpToRel
<1>2. SUFFICES ASSUME T # {} PROVE FALSE  OBVIOUS
<1>3. IsWellFoundedOn(R, Nat)  BY NatLessThanWellFounded
<1> HIDE DEF R
<1>4. PICK x \in T : \A y \in T : <<y, x>> \notin R
  <2> HIDE DEF T
  <2>1. T \subseteq Nat BY DEF T
  <2> QED BY <1>2, <1>3, <2>1, WFMin
<1>5. x # 0 /\ x - 1 \in Nat /\ x - 1 < x  BY <1>4
<1>6. x - 1 \in S BY <1>1, <1>4, <1>5
<1>7. (x - 1) + 1 \in S BY <1>5, <1>6
<1> QED BY <1>4, <1>7

\* The equation flattening is defined by, with f[i] the first i parts in a row.
Flattens(f, ss) ==
  f = [i \in 1 .. Len(ss) |-> IF i = 1 THEN ss[i] ELSE f[i - 1] \o ss[i]]

\* The equation has a solution, and the solution for one part more goes on
\* from it.
LEMMA FlatteningExists ==
  ASSUME NEW T
  PROVE  \A n \in Nat : \A ss \in Seq(Seq(T)) : Len(ss) = n =>
           \E f \in [1 .. n -> Seq(T)] : Flattens(f, ss)
<1> DEFINE S == {n \in Nat : \A ss \in Seq(Seq(T)) : Len(ss) = n =>
                    \E f \in [1 .. n -> Seq(T)] : Flattens(f, ss)}
<1>1. 0 \in S
  <2> SUFFICES ASSUME NEW ss \in Seq(Seq(T)), Len(ss) = 0
               PROVE  \E f \in [1 .. 0 -> Seq(T)] : Flattens(f, ss)
    OBVIOUS
  <2> DEFINE f == [i \in 1 .. 0 |-> <<>>]
  <2>1. f \in [1 .. 0 -> Seq(T)] /\ f = [i \in 1 .. Len(ss) |-> IF i = 1 THEN ss[i] ELSE f[i - 1] \o ss[i]]
    OBVIOUS
  <2> QED BY <2>1 DEF Flattens
<1>2. ASSUME NEW n \in Nat, n \in S PROVE n + 1 \in S
  <2> SUFFICES ASSUME NEW ss \in Seq(Seq(T)), Len(ss) = n + 1
               PROVE  \E f \in [1 .. n + 1 -> Seq(T)] : Flattens(f, ss)
    OBVIOUS
  <2> DEFINE tt == [i \in 1 .. n |-> ss[i]]
  <2>1. tt \in Seq(Seq(T)) /\ Len(tt) = n  OBVIOUS
  <2>2. PICK g \in [1 .. n -> Seq(T)] : Flattens(g, tt)
    BY <1>2, <2>1
  <2> DEFINE f == [i \in 1 .. n + 1 |-> IF i = n + 1 THEN IF n = 0 THEN ss[1] ELSE g[n] \o ss[n + 1]
                                        ELSE g[i]]
  <2>3. f \in [1 .. n + 1 -> Seq(T)]
    <3>1. \A i \in 1 .. n + 1 : ss[i] \in Seq(T)  OBVIOUS
    <3>2. n # 0 => g[n] \o ss[n + 1] \in Seq(T)  BY <3>1
    <3> QED BY <3>1, <3>2
  <2>4. ASSUME NEW i \in 1 .. n + 1
        PROVE  f[i] = IF i = 1 THEN ss[i] ELSE f[i - 1] \o ss[i]
    <3>1. CASE i = n + 1 /\ n = 0  BY <3>1
    <3>2. CASE i = n + 1 /\ n # 0
      <4>1. i # 1 /\ i - 1 = n /\ n \in 1 .. n + 1 /\ n # n + 1  BY <3>2
      <4> QED BY <3>2, <4>1
    <3>3. CASE i # n + 1
      <4>1. i \in 1 .. n /\ f[i] = g[i] /\ tt[i] = ss[i]  BY <3>3
      <4>2. g[i] = IF i = 1 THEN tt[i] ELSE g[i - 1] \o tt[i]
        BY <2>1, <2>2, <4>1 DEF Flattens
      <4>3. i # 1 => i - 1 \in 1 .. n /\ f[i - 1] = g[i - 1]  BY <4>1
      <4> QED BY <4>1, <4>2, <4>3
    <3> QED BY <3>1, <3>2, <3>3
  <2>5. Flattens(f, ss)
    <3> HIDE DEF f
    <3> DEFINE h == [i \in 1 .. Len(ss) |-> IF i = 1 THEN ss[i] ELSE f[i - 1] \o ss[i]]
    <3>1. DOMAIN f = 1 .. n + 1 /\ f = [i \in 1 .. n + 1 |-> f[i]]  BY <2>3
    <3>2. \A i \in 1 .. n + 1 : f[i] = h[i]  BY <2>4
    <3>3. f = h  BY <3>1, <3>2
    <3> QED BY <3>3 DEF Flattens
  <2> HIDE DEF f
  <2> QED BY <2>3, <2>5
<1> HIDE DEF S
<1>3. \A n \in Nat : n \in S  BY <1>1, <1>2, NatSetInduction
<1> QED BY <1>3 DEF S

Agree(f, g, n) == \A i \in 1 .. n : f[i] = g[i]

\* Two solutions agree as far as their sequences do.
LEMMA FlatteningIsUnique ==
  ASSUME NEW T, NEW ss \in Seq(Seq(T)), NEW tt \in Seq(Seq(T)), NEW n \in Nat,
         n <= Len(ss), n <= Len(tt), Agree(ss, tt, n)
  PROVE  \A f, g : Flattens(f, ss) /\ Flattens(g, tt) => Agree(f, g, n)
<1> USE DEF Agree
<1> SUFFICES ASSUME NEW f, Flattens(f, ss), NEW g, Flattens(g, tt)
             PROVE  \A i \in 1 .. n : f[i] = g[i]
  OBVIOUS
<1> DEFINE S == {m \in Nat : m \in 1 .. n => f[m] = g[m]}
<1>1. 0 \in S  OBVIOUS
<1>2. ASSUME NEW m \in Nat, m \in S PROVE m + 1 \in S
  <2> SUFFICES ASSUME m + 1 \in 1 .. n PROVE f[m + 1] = g[m + 1]  OBVIOUS
  <2>1. /\ f[m + 1] = IF m + 1 = 1 THEN ss[m + 1] ELSE f[(m + 1) - 1] \o ss[m + 1]
        /\ g[m + 1] = IF m + 1 = 1 THEN tt[m + 1] ELSE g[(m + 1) - 1] \o tt[m + 1]
    <3>1. m + 1 \in 1 .. Len(ss) /\ m + 1 \in 1 .. Len(tt)  OBVIOUS
    <3> QED BY <3>1 DEF Flattens
  <2>2. (m + 1) - 1 = m /\ (m + 1 # 1 => m \in 1 .. n)  OBVIOUS
  <2>3. m + 1 # 1 => f[m] = g[m]  BY <1>2, <2>2
  <2> QED BY <2>1, <2>2, <2>3
<1> HIDE DEF S
<1>3. \A m \in Nat : m \in S  BY <1>1, <1>2, NatSetInduction
<1> QED BY <1>3 DEF S

\* Flattening is a solution, read at its end.
LEMMA FlattenIs ==
  ASSUME NEW T, NEW ss \in Seq(Seq(T)), ss # <<>>
  PROVE  \E f \in [1 .. Len(ss) -> Seq(T)] : Flattens(f, ss) /\ FlattenSeq(ss) = f[Len(ss)]
<1> DEFINE F == CHOOSE f : Flattens(f, ss)
<1>1. Len(ss) \in Nat /\ Len(ss) # 0  OBVIOUS
<1>2. \E f : Flattens(f, ss)  BY <1>1, FlatteningExists
<1>3. Flattens(F, ss)  BY <1>2
<1>4. FlattenSeq(ss) = F[Len(ss)]  BY <1>1 DEF FlattenSeq, Flattens
<1>5. PICK g \in [1 .. Len(ss) -> Seq(T)] : Flattens(g, ss)  BY <1>1, FlatteningExists
<1> HIDE DEF F
<1>6. \A i \in 1 .. Len(ss) : F[i] = g[i]
  <2>1. Agree(ss, ss, Len(ss))  BY DEF Agree
  <2>2. Len(ss) \in Nat /\ Len(ss) <= Len(ss)  BY <1>1
  <2>3. Agree(F, g, Len(ss))
    <3>1. \A f, h : Flattens(f, ss) /\ Flattens(h, ss) => Agree(f, h, Len(ss))
      BY ONLY ss \in Seq(Seq(T)), <2>1, <2>2, FlatteningIsUnique
    <3> QED BY <1>3, <1>5, <3>1
  <2> QED BY <2>3 DEF Agree
<1>7. FlattenSeq(ss) = g[Len(ss)]  BY <1>1, <1>4, <1>6
<1> QED BY <1>5, <1>7

LEMMA FlattenEmpty == FlattenSeq(<<>>) = <<>>
BY DEF FlattenSeq

LEMMA FlattenType ==
  ASSUME NEW T, NEW ss \in Seq(Seq(T))
  PROVE  FlattenSeq(ss) \in Seq(T)
<1>1. CASE ss = <<>>
  <2>1. <<>> \in Seq(T)  OBVIOUS
  <2> QED BY <1>1, <2>1, FlattenEmpty
<1>2. CASE ss # <<>>
  <2>1. PICK f \in [1 .. Len(ss) -> Seq(T)] : FlattenSeq(ss) = f[Len(ss)]  BY <1>2, FlattenIs
  <2>2. Len(ss) \in 1 .. Len(ss)  BY <1>2
  <2> QED BY <2>1, <2>2
<1> QED BY <1>1, <1>2

\* The equation sums are defined by, with f[n] the sum of the first n numbers.
SumsUp(f, ns) == f = [n \in 0 .. Len(ns) |-> IF n = 0 THEN 0 ELSE f[n - 1] + ns[n]]

\* The equation has a solution.
LEMMA SumsExist ==
  \A n \in Nat : \A ns \in Seq(Nat) : Len(ns) = n => \E f \in [0 .. n -> Nat] : SumsUp(f, ns)
<1> DEFINE S == {n \in Nat : \A ns \in Seq(Nat) : Len(ns) = n =>
                    \E f \in [0 .. n -> Nat] : SumsUp(f, ns)}
<1>1. 0 \in S
  <2> SUFFICES ASSUME NEW ns \in Seq(Nat), Len(ns) = 0
               PROVE  \E f \in [0 .. 0 -> Nat] : SumsUp(f, ns)
    OBVIOUS
  <2> DEFINE f == [n \in 0 .. 0 |-> 0]
  <2>1. f \in [0 .. 0 -> Nat] /\ f = [n \in 0 .. Len(ns) |-> IF n = 0 THEN 0 ELSE f[n - 1] + ns[n]]
    OBVIOUS
  <2> QED BY <2>1 DEF SumsUp
<1>2. ASSUME NEW n \in Nat, n \in S PROVE n + 1 \in S
  <2> SUFFICES ASSUME NEW ns \in Seq(Nat), Len(ns) = n + 1
               PROVE  \E f \in [0 .. n + 1 -> Nat] : SumsUp(f, ns)
    OBVIOUS
  <2> DEFINE ms == [i \in 1 .. n |-> ns[i]]
  <2>1. ms \in Seq(Nat) /\ Len(ms) = n  OBVIOUS
  <2>2. PICK g \in [0 .. n -> Nat] : SumsUp(g, ms)  BY <1>2, <2>1
  <2> DEFINE f == [i \in 0 .. n + 1 |-> IF i = n + 1 THEN g[n] + ns[n + 1] ELSE g[i]]
  <2>3. f \in [0 .. n + 1 -> Nat]
    <3>1. ns[n + 1] \in Nat /\ g[n] \in Nat  OBVIOUS
    <3> QED BY <3>1
  <2>4. ASSUME NEW i \in 0 .. n + 1
        PROVE  f[i] = IF i = 0 THEN 0 ELSE f[i - 1] + ns[i]
    <3>1. CASE i = n + 1
      <4>1. i # 0 /\ i - 1 = n /\ n \in 0 .. n + 1 /\ n # n + 1  BY <3>1
      <4> QED BY <3>1, <4>1
    <3>2. CASE i # n + 1
      <4>1. i \in 0 .. n /\ f[i] = g[i] /\ (i # 0 => ms[i] = ns[i])  BY <3>2
      <4>2. g[i] = IF i = 0 THEN 0 ELSE g[i - 1] + ms[i]
        BY <2>1, <2>2, <4>1 DEF SumsUp
      <4>3. i # 0 => i - 1 \in 0 .. n /\ f[i - 1] = g[i - 1]  BY <4>1
      <4> QED BY <4>1, <4>2, <4>3
    <3> QED BY <3>1, <3>2
  <2>5. SumsUp(f, ns)
    <3> HIDE DEF f
    <3> DEFINE h == [i \in 0 .. Len(ns) |-> IF i = 0 THEN 0 ELSE f[i - 1] + ns[i]]
    <3>1. f = [i \in 0 .. n + 1 |-> f[i]]  BY <2>3
    <3>2. \A i \in 0 .. n + 1 : f[i] = h[i]  BY <2>4
    <3>3. f = h  BY <3>1, <3>2
    <3> QED BY <3>3 DEF SumsUp
  <2> HIDE DEF f
  <2> QED BY <2>3, <2>5
<1> HIDE DEF S
<1>3. \A n \in Nat : n \in S  BY <1>1, <1>2, NatSetInduction
<1> QED BY <1>3 DEF S

\* Two solutions agree as far as their numbers do.
LEMMA SumsAreUnique ==
  ASSUME NEW ns \in Seq(Nat), NEW ms \in Seq(Nat), NEW k \in Nat,
         k <= Len(ns), k <= Len(ms), Agree(ns, ms, k)
  PROVE  \A f, g : SumsUp(f, ns) /\ SumsUp(g, ms) => \A i \in 0 .. k : f[i] = g[i]
<1> SUFFICES ASSUME NEW f, SumsUp(f, ns), NEW g, SumsUp(g, ms)
             PROVE  \A i \in 0 .. k : f[i] = g[i]
  OBVIOUS
<1> DEFINE S == {m \in Nat : m \in 0 .. k => f[m] = g[m]}
<1>1. 0 \in S  BY DEF SumsUp
<1>2. ASSUME NEW m \in Nat, m \in S PROVE m + 1 \in S
  <2> SUFFICES ASSUME m + 1 \in 0 .. k PROVE f[m + 1] = g[m + 1]  OBVIOUS
  <2>1. /\ f[m + 1] = IF m + 1 = 0 THEN 0 ELSE f[(m + 1) - 1] + ns[m + 1]
        /\ g[m + 1] = IF m + 1 = 0 THEN 0 ELSE g[(m + 1) - 1] + ms[m + 1]
    <3>1. m + 1 \in 0 .. Len(ns) /\ m + 1 \in 0 .. Len(ms)  OBVIOUS
    <3> QED BY <3>1 DEF SumsUp
  <2>2. (m + 1) - 1 = m /\ m + 1 # 0 /\ m \in 0 .. k  OBVIOUS
  <2>3. f[m] = g[m]  BY <1>2, <2>2
  <2>4. ns[m + 1] = ms[m + 1]  BY DEF Agree
  <2> QED BY <2>1, <2>2, <2>3, <2>4
<1> HIDE DEF S
<1>3. \A m \in Nat : m \in S  BY <1>1, <1>2, NatSetInduction
<1> QED BY <1>3 DEF S

\* A sum is a solution, read at its end.
LEMMA SumIs ==
  ASSUME NEW ns \in Seq(Nat)
  PROVE  \E f \in [0 .. Len(ns) -> Nat] : SumsUp(f, ns) /\ SumOf(ns) = f[Len(ns)]
<1> DEFINE F == CHOOSE f : SumsUp(f, ns)
<1>1. Len(ns) \in Nat /\ Len(ns) <= Len(ns) /\ Agree(ns, ns, Len(ns))  BY DEF Agree
<1>2. PICK g \in [0 .. Len(ns) -> Nat] : SumsUp(g, ns)  BY <1>1, SumsExist
<1>3. SumsUp(F, ns)  BY <1>2
<1>4. SumOf(ns) = F[Len(ns)]  BY DEF SumOf, SumsUp
<1> HIDE DEF F
<1>5. F[Len(ns)] = g[Len(ns)]
  <2>1. \A f, h : SumsUp(f, ns) /\ SumsUp(h, ns) => \A i \in 0 .. Len(ns) : f[i] = h[i]
    BY ONLY ns \in Seq(Nat), <1>1, SumsAreUnique
  <2>2. \A i \in 0 .. Len(ns) : F[i] = g[i]  BY <1>2, <1>3, <2>1
  <2> QED BY <1>1, <2>2
<1> QED BY <1>2, <1>4, <1>5

LEMMA SumType ==
  ASSUME NEW ns \in Seq(Nat)
  PROVE  SumOf(ns) \in Nat /\ (ns = <<>> => SumOf(ns) = 0)
<1>1. PICK f \in [0 .. Len(ns) -> Nat] : SumsUp(f, ns) /\ SumOf(ns) = f[Len(ns)]  BY SumIs
<1>2. Len(ns) \in 0 .. Len(ns)  OBVIOUS
<1>3. ns = <<>> => f[Len(ns)] = 0  BY <1>1, <1>2 DEF SumsUp
<1> QED BY <1>1, <1>2, <1>3

LEMMA SumAppend ==
  ASSUME NEW ns \in Seq(Nat), NEW x \in Nat
  PROVE  SumOf(Append(ns, x)) = SumOf(ns) + x
<1> DEFINE ms == Append(ns, x)
<1>1. /\ ms \in Seq(Nat) /\ Len(ns) \in Nat /\ Len(ms) = Len(ns) + 1 /\ ms[Len(ns) + 1] = x
      /\ \A i \in 1 .. Len(ns) : ns[i] = ms[i]
  OBVIOUS
<1> HIDE DEF ms
<1>2. PICK f \in [0 .. Len(ns) -> Nat] : SumsUp(f, ns) /\ SumOf(ns) = f[Len(ns)]  BY SumIs
<1>3. PICK g \in [0 .. Len(ms) -> Nat] : SumsUp(g, ms) /\ SumOf(ms) = g[Len(ms)]  BY <1>1, SumIs
<1>4. f[Len(ns)] = g[Len(ns)]
  <2>1. Len(ns) <= Len(ns) /\ Len(ns) <= Len(ms) /\ Agree(ns, ms, Len(ns))  BY <1>1 DEF Agree
  <2>2. \A h, j : SumsUp(h, ns) /\ SumsUp(j, ms) => \A i \in 0 .. Len(ns) : h[i] = j[i]
    BY ONLY ns \in Seq(Nat), <1>1, <2>1, SumsAreUnique
  <2>3. \A i \in 0 .. Len(ns) : f[i] = g[i]  BY <1>2, <1>3, <2>2
  <2> QED BY <1>1, <2>3
<1>5. g[Len(ns) + 1] = g[Len(ns)] + x
  <2>1. Len(ns) + 1 \in 0 .. Len(ms) /\ Len(ns) + 1 # 0 /\ (Len(ns) + 1) - 1 = Len(ns)  BY <1>1
  <2> QED BY <1>1, <1>3, <2>1 DEF SumsUp
<1> QED BY <1>1, <1>2, <1>3, <1>4, <1>5 DEF ms

-----------------------------------------------------------------------------
(* The usage of a session *)

Roles == {"user", "request", "assistant", "tool_call", "tool_result", "system"}
Entries == [role : Roles, trip : Nat, id : Nat, failed : BOOLEAN, text : BOOLEAN, used : Nat]
ToolRoles == {"tool_call", "tool_result"}

LedgerTypes ==
  /\ log \in [Sessions -> Seq(Entries)] /\ lost \in [Sessions -> Seq(Entries)]
  /\ todo \in [Sessions -> Seq(Entries)]
  /\ billed \in [Sessions -> Nat] /\ task \in [Sessions -> Nat]
  /\ checkpoint \in [Sessions -> [turn : Nat, used : Nat]]

\* Everything a session has told logstack.
Sent(s) == log[s] \o lost[s]
Spoken(s) == UsageOf(Sent(s), {"assistant"})

\* A session has no row before it is registered, and nothing to its name.
EarlyPcs == {"unborn", "clearing", "clearing counter", "reading", "repairing", "repaired",
             "reading counter"}
ReplyPcs == {"calling", "waiting", "working", "ending", "replying"}
CountedPcs == {"replying", "saving", "saving transcript", "saving counter", "writing counter",
               "checkpointing"}
Registered(s) == status[s] # "none"
HasRow(s) ==
  /\ pc[s] \in EarlyPcs => ~Registered(s)
  /\ pc[s] \in {"idle"} \cup ReplyPcs \cup CountedPcs => Registered(s)
  /\ closing[s].at # "open" => Registered(s)
  /\ ~Registered(s) => log[s] = <<>> /\ lost[s] = <<>> /\ checkpoint[s].turn = 0

\* What a turn has still to log: reports of tools, or its one reply.
ToLog(s) ==
  /\ pc[s] = "working" => \A i \in DOMAIN todo[s] : todo[s][i].role \in ToolRoles
  /\ pc[s] \in {"ending", "replying"} =>
       Len(todo[s]) = 1 /\ todo[s][1].role = "assistant" /\ todo[s][1].id = counter[s]
  /\ pc[s] = "replying" => todo[s][1].used = spent[s]

\* The sums agree, and the engine's is behind by the turn that is being saved.
Balanced(s) ==
  /\ FileIsOpen(s) => lost[s] = <<>>
  /\ Spoken(s) + Pending(s) = totals[s]
  /\ checkpoint[s].used = UsageUpTo(Sent(s), checkpoint[s].turn)
  /\ totals[s] = billed[s] + IF pc[s] \in CountedPcs THEN spent[s] ELSE 0

\* A turn that has not logged its reply is later than the checkpoint.
Dated(s) ==
  /\ \A i \in DOMAIN Sent(s) :
       Sent(s)[i].role \in {"assistant", "user"} => Sent(s)[i].id <= counter[s]
  /\ checkpoint[s].turn <= counter[s]
  /\ (Registered(s) /\ pc[s] \in {"scanning", "judging"} \cup ReplyPcs) =>
       checkpoint[s].turn < counter[s]

\* Where nothing is closed under a turn, the closing line has the last word.
ClosedLast(s) ==
  /\ closing[s].at # "open" => pc[s] = "idle" /\ closing[s].used = totals[s]
  /\ lost[s] = <<>>
  /\ \A i \in DOMAIN log[s] : (log[s][i].role = "system" /\ log[s][i].used > 0) =>
       closing[s].at \notin {"open", "totalled"} /\ log[s][i].used = closing[s].used

TaskFirst(s) ==
  /\ trip[s] # 0 => \E j \in DOMAIN log[s] : log[s][j].role = "request"
  /\ \A i \in DOMAIN log[s] : log[s][i].role = "user" =>
       \/ log[s][i].id <= task[s]
       \/ \E j \in 1 .. i : log[s][j].role = "request"

LedgerOf(s) ==
  /\ HasRow(s) /\ ToLog(s) /\ Balanced(s) /\ Dated(s)
  /\ ~situation.overlap => ClosedLast(s)
  /\ OnlyAnthropic => TaskFirst(s)
ListedHaveRows == \A s \in Sessions : \A t \in list[s] : Registered(t)
LedgerInv == LedgerTypes /\ ListedHaveRows /\ \A s \in Sessions : LedgerOf(s)

\* An entry more, and what it adds.
LEMMA UsageGrows ==
  ASSUME NEW es \in Seq(Entries), NEW e \in Entries, NEW n \in Nat
  PROVE  /\ UsageOf(Append(es, e), {"assistant"}) =
              UsageOf(es, {"assistant"}) + (IF e.role = "assistant" THEN e.used ELSE 0)
         /\ UsageUpTo(Append(es, e), n) =
              UsageUpTo(es, n) + (IF e.role = "assistant" /\ e.id <= n THEN e.used ELSE 0)
<1> DEFINE fs == Append(es, e)
           a(q) == [i \in DOMAIN q |-> IF q[i].role \in {"assistant"} THEN q[i].used ELSE 0]
           b(q) == [i \in DOMAIN q |-> IF q[i].role = "assistant" /\ q[i].id <= n THEN q[i].used ELSE 0]
           x == IF e.role \in {"assistant"} THEN e.used ELSE 0
           y == IF e.role = "assistant" /\ e.id <= n THEN e.used ELSE 0
<1>1. /\ Len(es) \in Nat /\ DOMAIN es = 1 .. Len(es) /\ DOMAIN fs = 1 .. Len(es) + 1
      /\ fs[Len(es) + 1] = e /\ \A i \in 1 .. Len(es) : fs[i] = es[i] /\ es[i] \in Entries
  <2> HIDE DEF Entries
  <2> QED OBVIOUS
<1>2. \A f \in Entries : f.used \in Nat  BY DEF Entries
<1> HIDE DEF fs
<1>3. a(es) \in Seq(Nat) /\ x \in Nat /\ b(es) \in Seq(Nat) /\ y \in Nat
  <2>1. \A i \in 1 .. Len(es) : es[i].used \in Nat  BY <1>1, <1>2
  <2>2. x \in Nat /\ y \in Nat  BY <1>2
  <2>3. a(es) \in [1 .. Len(es) -> Nat] /\ b(es) \in [1 .. Len(es) -> Nat]  BY ONLY <1>1, <2>1
  <2>4. a(es) \in Seq(Nat)  BY ONLY <1>1, <2>3
  <2>5. b(es) \in Seq(Nat)  BY ONLY <1>1, <2>3
  <2> QED BY <2>2, <2>4, <2>5
<1>4. a(fs) = Append(a(es), x)
  <2> DEFINE q == a(es)
             r == a(fs)
  <2>1. q \in Seq(Nat) /\ Len(q) = Len(es) /\ x \in Nat  BY ONLY <1>1, <1>3
  <2>2. /\ \A i \in 1 .. Len(es) : q[i] = r[i]
        /\ r[Len(es) + 1] = x /\ r \in [1 .. Len(es) + 1 -> Nat]
    <3>1. \A i \in 1 .. Len(es) : q[i] = r[i]  BY <1>1
    <3>2. r[Len(es) + 1] = x  BY <1>1
    <3>3. \A i \in 1 .. Len(es) + 1 : fs[i].used \in Nat  BY <1>1, <1>2
    <3>4. r \in [1 .. Len(es) + 1 -> Nat]  BY <1>1, <3>3
    <3> QED BY <3>1, <3>2, <3>4
  <2> HIDE DEF q, r, x
  <2>3. r \in Seq(Nat) /\ Len(r) = Len(es) + 1  BY ONLY Len(es) \in Nat, <2>2, <1>1
  <2>4. /\ Append(q, x) \in Seq(Nat) /\ Len(Append(q, x)) = Len(es) + 1
        /\ \A i \in 1 .. Len(es) : Append(q, x)[i] = q[i] /\ Append(q, x)[Len(es) + 1] = x
    BY <2>1, AppendProperties
  <2>5. r = Append(q, x)
    <3>1. \A i \in 1 .. Len(r) : r[i] = Append(q, x)[i]  BY <2>2, <2>3, <2>4
    <3> QED BY ONLY <2>3, <2>4, <3>1, SeqEqual
  <2> QED BY <2>5 DEF q, r
<1>5. b(fs) = Append(b(es), y)
  <2> DEFINE q == b(es)
             r == b(fs)
  <2>1. q \in Seq(Nat) /\ Len(q) = Len(es) /\ y \in Nat  BY ONLY <1>1, <1>3
  <2>2. /\ \A i \in 1 .. Len(es) : q[i] = r[i]
        /\ r[Len(es) + 1] = y /\ r \in [1 .. Len(es) + 1 -> Nat]
    <3>1. \A i \in 1 .. Len(es) : q[i] = r[i]  BY <1>1
    <3>2. r[Len(es) + 1] = y  BY <1>1
    <3>3. \A i \in 1 .. Len(es) + 1 : fs[i].used \in Nat  BY <1>1, <1>2
    <3>4. r \in [1 .. Len(es) + 1 -> Nat]  BY <1>1, <3>3
    <3> QED BY <3>1, <3>2, <3>4
  <2> HIDE DEF q, r, y
  <2>3. r \in Seq(Nat) /\ Len(r) = Len(es) + 1  BY ONLY Len(es) \in Nat, <2>2, <1>1
  <2>4. /\ Append(q, y) \in Seq(Nat) /\ Len(Append(q, y)) = Len(es) + 1
        /\ \A i \in 1 .. Len(es) : Append(q, y)[i] = q[i] /\ Append(q, y)[Len(es) + 1] = y
    BY <2>1, AppendProperties
  <2>5. r = Append(q, y)
    <3>1. \A i \in 1 .. Len(r) : r[i] = Append(q, y)[i]  BY <2>2, <2>3, <2>4
    <3> QED BY ONLY <2>3, <2>4, <3>1, SeqEqual
  <2> QED BY <2>5 DEF q, r
<1>6. SumOf(a(fs)) = SumOf(a(es)) + x /\ SumOf(b(fs)) = SumOf(b(es)) + y
  BY <1>3, <1>4, <1>5, SumAppend
<1>7. /\ UsageOf(fs, {"assistant"}) = SumOf(a(fs)) /\ UsageOf(es, {"assistant"}) = SumOf(a(es))
      /\ UsageUpTo(fs, n) = SumOf(b(fs)) /\ UsageUpTo(es, n) = SumOf(b(es))
  BY DEF UsageOf, UsageUpTo
<1> QED BY <1>6, <1>7 DEF fs

\* Usage is a number, and what was used up to a turn that no reply is later than
\* is all that was used.
LEMMA UsageFacts ==
  ASSUME NEW es \in Seq(Entries)
  PROVE  /\ UsageOf(es, {"assistant"}) \in Nat
         /\ \A n \in Nat :
              (\A i \in DOMAIN es : es[i].role = "assistant" => es[i].id <= n) =>
                UsageUpTo(es, n) = UsageOf(es, {"assistant"})
<1> DEFINE a == [i \in DOMAIN es |-> IF es[i].role \in {"assistant"} THEN es[i].used ELSE 0]
<1>1. Len(es) \in Nat /\ DOMAIN es = 1 .. Len(es) /\ \A i \in 1 .. Len(es) : es[i] \in Entries
  <2> HIDE DEF Entries
  <2> QED OBVIOUS
<1>2. a \in Seq(Nat)
  <2>1. \A i \in 1 .. Len(es) : es[i].used \in Nat  BY <1>1 DEF Entries
  <2>2. a \in [1 .. Len(es) -> Nat]  BY ONLY <1>1, <2>1
  <2> QED BY ONLY <1>1, <2>2
<1>3. UsageOf(es, {"assistant"}) = SumOf(a)  BY DEF UsageOf
<1>4. ASSUME NEW n \in Nat, \A i \in DOMAIN es : es[i].role = "assistant" => es[i].id <= n
      PROVE  UsageUpTo(es, n) = SumOf(a)
  <2> DEFINE b == [i \in DOMAIN es |-> IF es[i].role = "assistant" /\ es[i].id <= n
                                       THEN es[i].used ELSE 0]
  <2>1. \A i \in DOMAIN es : b[i] = a[i]  BY <1>4
  <2>2. a = b  BY <2>1
  <2> QED BY <2>2 DEF UsageUpTo
<1> QED BY <1>2, <1>3, <1>4, SumType

\* An entry as it is made.
LEMMA EntryType ==
  ASSUME NEW role \in Roles, NEW n \in Nat, NEW id \in Nat
  PROVE  /\ Entry(role, n, id) \in Entries /\ Entry(role, n, id).role = role
         /\ Entry(role, n, id).id = id /\ Entry(role, n, id).used = 0
         /\ \A used \in Nat : [Entry(role, n, id) EXCEPT !.used = used] \in Entries
         /\ \A flag \in BOOLEAN : /\ [Entry(role, n, id) EXCEPT !.failed = flag] \in Entries
                                  /\ [Entry(role, n, id) EXCEPT !.text = flag] \in Entries
  BY DEF Entry, Entries

\* What is written is the last of what was sent, whether it gets to the file or not.
LEMMA SentGrows ==
  ASSUME LedgerTypes, NEW s \in Sessions, FileIsOpen(s) => lost[s] = <<>>,
         NEW e \in Entries, Write(s, e)
  PROVE  /\ log' \in [Sessions -> Seq(Entries)] /\ lost' \in [Sessions -> Seq(Entries)]
         /\ Sent(s) \in Seq(Entries) /\ log'[s] \o lost'[s] = Append(Sent(s), e)
         /\ \A t \in Sessions \ {s} : log'[t] = log[t] /\ lost'[t] = lost[t]
         /\ FileIsOpen(s) => log'[s] = Append(log[s], e) /\ lost' = lost
         /\ ~FileIsOpen(s) => log' = log /\ lost'[s] = Append(lost[s], e)
<1>1. log \in [Sessions -> Seq(Entries)] /\ lost \in [Sessions -> Seq(Entries)]  BY DEF LedgerTypes
<1> DEFINE E == Entries
<1>2. log \in [Sessions -> Seq(E)] /\ lost \in [Sessions -> Seq(E)] /\ e \in E  BY <1>1
<1>3. \A q \in Seq(E), r \in Seq(E) :
        q \o r \in Seq(E) /\ q \o <<>> = q /\ q \o Append(r, e) = Append(q \o r, e) /\ Append(q, e) \in Seq(E)
  <2> HIDE DEF E
  <2> SUFFICES ASSUME NEW q \in Seq(E), NEW r \in Seq(E)
               PROVE  q \o r \in Seq(E) /\ q \o <<>> = q /\ q \o Append(r, e) = Append(q \o r, e)
                      /\ Append(q, e) \in Seq(E)
    OBVIOUS
  <2>1. q \o r \in Seq(E) /\ q \o <<>> = q /\ Append(q, e) \in Seq(E)
    BY <1>2, ConcatProperties, ConcatEmptySeq, AppendProperties
  <2>2. Append(r, e) = r \o <<e>> /\ Append(q \o r, e) = (q \o r) \o <<e>> /\ <<e>> \in Seq(E)
    BY <1>2, <2>1, AppendIsConcat
  <2>3. q \o (r \o <<e>>) = (q \o r) \o <<e>>  BY <2>2, ConcatAssociative
  <2> QED BY <2>1, <2>2, <2>3
<1> HIDE DEF E
<1>4. CASE FileIsOpen(s)
  <2>1. log' = [log EXCEPT ![s] = Append(log[s], e)] /\ lost' = lost /\ lost[s] = <<>>
    BY <1>4 DEF Write
  <2>2. log'[s] = Append(log[s], e) /\ log[s] \in Seq(E)  BY <1>2, <2>1
  <2> QED BY <1>2, <1>3, <1>4, <2>1, <2>2 DEF E, Sent
<1>5. CASE ~FileIsOpen(s)
  <2>1. lost' = [lost EXCEPT ![s] = Append(lost[s], e)] /\ log' = log  BY <1>5 DEF Write
  <2>2. lost'[s] = Append(lost[s], e) /\ lost[s] \in Seq(E) /\ log[s] \in Seq(E)  BY <1>2, <2>1
  <2> QED BY <1>2, <1>3, <1>5, <2>1, <2>2 DEF E, Sent
<1> QED BY <1>4, <1>5

\* A step that leaves what a session has logged and is to log leaves its ledger,
\* wherever it goes from there.
QuietMove(s) ==
  /\ pc'[s] \in EarlyPcs => ~Registered(s)
  /\ pc'[s] \in {"idle"} \cup ReplyPcs \cup CountedPcs => Registered(s)
  /\ pc'[s] \in {"working", "ending", "replying"} => pc'[s] = pc[s]
  /\ pc'[s] \in CountedPcs <=> pc[s] \in CountedPcs
  /\ pc'[s] = "replying" <=> pc[s] = "replying"
  /\ (Registered(s) /\ pc'[s] \in {"scanning", "judging"} \cup ReplyPcs) =>
       pc[s] \in {"scanning", "judging"} \cup ReplyPcs
  /\ pc'[s] = pc[s] \/ closing[s].at = "open" \/ pc[s] # "idle"

LEMMA LedgerStays ==
  ASSUME NEW s \in Sessions, LedgerOf(s), situation' = situation,
         Registered(s)' <=> Registered(s), closing'[s] = closing[s],
         log'[s] = log[s], lost'[s] = lost[s], todo'[s] = todo[s], trip'[s] = trip[s],
         counter'[s] = counter[s], spent'[s] = spent[s], totals'[s] = totals[s],
         billed'[s] = billed[s], checkpoint'[s] = checkpoint[s], task'[s] = task[s],
         QuietMove(s)
  PROVE  LedgerOf(s)'
<1> USE DEF QuietMove
<1>1. HasRow(s)'  BY DEF LedgerOf, HasRow
<1>2. ToLog(s)'  BY DEF LedgerOf, ToLog
<1>3. Balanced(s)'
  <2>1. FileIsOpen(s)' <=> FileIsOpen(s)  BY DEF FileIsOpen
  <2>2. Spoken(s)' = Spoken(s) /\ Pending(s)' = Pending(s) /\ Sent(s)' = Sent(s)
    BY DEF Spoken, Sent, Pending
  <2> QED BY <2>1, <2>2 DEF LedgerOf, Balanced
<1>4. Dated(s)'  BY DEF LedgerOf, Dated, Sent
<1>5. ~situation.overlap => ClosedLast(s)'  BY DEF LedgerOf, ClosedLast
<1>6. OnlyAnthropic => TaskFirst(s)'  BY DEF LedgerOf, TaskFirst
<1> QED BY <1>1, <1>2, <1>3, <1>4, <1>5, <1>6 DEF LedgerOf, OnlyAnthropic

\* The entries of a log with one more.
LEMMA OneMore ==
  ASSUME NEW q \in Seq(Entries), NEW e \in Entries
  PROVE  /\ Append(q, e) \in Seq(Entries)
         /\ Len(q) \in Nat /\ DOMAIN q = 1 .. Len(q) /\ DOMAIN Append(q, e) = 1 .. Len(q) + 1
         /\ Append(q, e)[Len(q) + 1] = e
         /\ \A i \in 1 .. Len(q) : Append(q, e)[i] = q[i] /\ q[i] \in Entries
<1> HIDE DEF Entries
<1>1. Append(q, e) \in Seq(Entries) /\ Len(Append(q, e)) = Len(q) + 1
  BY AppendProperties
<1> QED BY <1>1, AppendProperties, LenProperties

\* An entry that is no reply changes no sum, in the file or behind it.
LEMMA PlainWrite ==
  ASSUME LedgerTypes, TypeInv, NEW s \in Sessions, LedgerOf(s),
         NEW e \in Entries, Write(s, e), e.role # "assistant",
         FileIsOpen(s)' => FileIsOpen(s), checkpoint'[s] = checkpoint[s], totals'[s] = totals[s],
         Pending(s)' = Pending(s), counter'[s] \in Nat, counter[s] <= counter'[s],
         e.role = "user" => e.id <= counter'[s]
  PROVE  /\ FileIsOpen(s)' => lost'[s] = <<>>
         /\ Spoken(s)' + Pending(s)' = totals'[s]
         /\ checkpoint'[s].used = UsageUpTo(Sent(s)', checkpoint'[s].turn)
         /\ \A i \in DOMAIN Sent(s)' :
              Sent(s)'[i].role \in {"assistant", "user"} => Sent(s)'[i].id <= counter'[s]
<1>1. /\ FileIsOpen(s) => lost[s] = <<>>
      /\ Spoken(s) + Pending(s) = totals[s]
      /\ checkpoint[s].used = UsageUpTo(Sent(s), checkpoint[s].turn)
      /\ \A i \in DOMAIN Sent(s) :
           Sent(s)[i].role \in {"assistant", "user"} => Sent(s)[i].id <= counter[s]
  BY DEF LedgerOf, Balanced, Dated
<1>2. /\ Sent(s) \in Seq(Entries) /\ Sent(s)' = Append(Sent(s), e)
      /\ FileIsOpen(s) => lost' = lost
  BY <1>1, SentGrows DEF Sent
<1>3. /\ UsageOf(Sent(s), {"assistant"}) \in Nat
      /\ checkpoint[s].turn \in Nat /\ checkpoint[s].used \in Nat /\ counter[s] \in Nat
  BY <1>2, UsageFacts DEF LedgerTypes, TypeInv, CountOK
<1>4. /\ UsageOf(Append(Sent(s), e), {"assistant"}) = UsageOf(Sent(s), {"assistant"})
      /\ UsageUpTo(Append(Sent(s), e), checkpoint[s].turn) = UsageUpTo(Sent(s), checkpoint[s].turn)
  <2>1. UsageUpTo(Sent(s), checkpoint[s].turn) \in Nat  BY <1>1, <1>3
  <2> QED BY <1>2, <1>3, <2>1, UsageGrows
<1>5. Spoken(s)' = Spoken(s)  BY <1>2, <1>4 DEF Spoken
<1>6. UsageUpTo(Sent(s)', checkpoint'[s].turn) = UsageUpTo(Sent(s), checkpoint[s].turn)
  BY <1>2, <1>4
<1>7. ASSUME NEW i \in DOMAIN Sent(s)', Sent(s)'[i].role \in {"assistant", "user"}
      PROVE  Sent(s)'[i].id <= counter'[s]
  <2> DEFINE q == Sent(s)
  <2> HIDE DEF q
  <2>1. /\ Len(q) \in Nat /\ DOMAIN q = 1 .. Len(q) /\ DOMAIN Append(q, e) = 1 .. Len(q) + 1
        /\ Append(q, e)[Len(q) + 1] = e
        /\ \A j \in 1 .. Len(q) : Append(q, e)[j] = q[j] /\ q[j] \in Entries
    BY <1>2, OneMore DEF q
  <2>2. i \in 1 .. Len(q) + 1 /\ Sent(s)'[i] = Append(q, e)[i]  BY <1>2, <1>7, <2>1 DEF q
  <2>3. CASE i = Len(q) + 1  BY <1>7, <2>1, <2>2, <2>3
  <2>4. CASE i # Len(q) + 1
    <3>1. i \in DOMAIN q /\ Sent(s)'[i] = q[i] /\ q[i].id \in Nat  BY <2>1, <2>2, <2>4 DEF Entries
    <3>2. q[i].id <= counter[s]  BY <1>1, <1>7, <3>1 DEF q
    <3> QED BY <1>3, <3>1, <3>2
  <2> QED BY <2>3, <2>4
<1> QED BY <1>1, <1>2, <1>5, <1>6, <1>7

\* Where nothing is closed under a turn, what a turn writes is in the file.
LEMMA WrittenToFile ==
  ASSUME LedgerTypes, NEW s \in Sessions, LedgerOf(s), ~situation.overlap,
         NEW e \in Entries, Write(s, e), closing[s].at = "open", closing'[s] = closing[s],
         e.role = "system" => e.used = 0
  PROVE  log'[s] = Append(log[s], e) /\ ClosedLast(s)'
<1>1. ClosedLast(s) /\ (FileIsOpen(s) => lost[s] = <<>>)  BY DEF LedgerOf, Balanced
<1>2. FileIsOpen(s)  BY DEF FileIsOpen
<1>3. log'[s] = Append(log[s], e) /\ lost'[s] = <<>> /\ log[s] \in Seq(Entries)
  BY <1>1, <1>2, SentGrows DEF ClosedLast, LedgerTypes
<1>4. ASSUME NEW i \in DOMAIN log'[s], log'[s][i].role = "system", log'[s][i].used > 0
      PROVE  FALSE
  <2> DEFINE q == log[s]
  <2>0. \A j \in DOMAIN q : ~(q[j].role = "system" /\ q[j].used > 0)  BY <1>1 DEF ClosedLast
  <2>k. q \in Seq(Entries) /\ log'[s] = Append(q, e)  BY <1>3
  <2> HIDE DEF q
  <2>1. /\ Len(q) \in Nat /\ DOMAIN q = 1 .. Len(q) /\ DOMAIN Append(q, e) = 1 .. Len(q) + 1
        /\ Append(q, e)[Len(q) + 1] = e
        /\ \A j \in 1 .. Len(q) : Append(q, e)[j] = q[j]
    BY <2>k, OneMore
  <2>2. i \in 1 .. Len(q) + 1  BY <1>4, <2>k, <2>1
  <2>3. CASE i = Len(q) + 1  BY <1>4, <2>k, <2>1, <2>3
  <2>4. CASE i # Len(q) + 1
    <3>1. i \in DOMAIN q /\ log'[s][i] = q[i]  BY <2>k, <2>1, <2>2, <2>4
    <3> QED BY <1>4, <2>0, <3>1
  <2> QED BY <2>3, <2>4
<1> QED BY <1>3, <1>4 DEF ClosedLast

\* An entry more leaves the task the first, if it is no user's, or comes after a
\* request, or is the task itself.
LEMMA TaskStays ==
  ASSUME LedgerTypes, TypeInv, NEW s \in Sessions, LedgerOf(s), OnlyAnthropic,
         NEW e \in Entries, log'[s] = Append(log[s], e),
         trip'[s] # 0 => trip[s] # 0 \/ e.role = "request",
         e.role = "user" => trip[s] # 0 \/ e.id = task'[s],
         task'[s] = task[s] \/ (task'[s] \in Nat /\ counter[s] <= task'[s])
  PROVE  TaskFirst(s)'
<1> DEFINE q == log[s]
<1>1. /\ q \in Seq(Entries) /\ log'[s] = Append(q, e) /\ task[s] \in Nat /\ counter[s] \in Nat
      /\ trip[s] # 0 => \E j \in DOMAIN q : q[j].role = "request"
      /\ \A i \in DOMAIN q : q[i].role = "user" =>
           q[i].id <= task[s] \/ \E j \in 1 .. i : q[j].role = "request"
  BY DEF LedgerOf, TaskFirst, LedgerTypes, TypeInv, CountOK
<1>2. \A i \in DOMAIN q : q[i].role = "user" => q[i].id <= counter[s]
  <2>1. \A i \in DOMAIN Sent(s) : Sent(s)[i].role = "user" => Sent(s)[i].id <= counter[s]
    BY DEF LedgerOf, Dated
  <2>2. lost[s] = <<>>  BY DEF LedgerOf, OnlyAnthropic, ClosedLast
  <2>3. Sent(s) = q  BY <1>1, <2>2, ConcatEmptySeq DEF Sent
  <2> QED BY <2>1, <2>3
<1> HIDE DEF q
<1>3. /\ Len(q) \in Nat /\ DOMAIN q = 1 .. Len(q) /\ DOMAIN Append(q, e) = 1 .. Len(q) + 1
      /\ Append(q, e)[Len(q) + 1] = e
      /\ \A j \in 1 .. Len(q) : Append(q, e)[j] = q[j] /\ q[j] \in Entries
  BY <1>1, OneMore
<1>4. trip'[s] # 0 => \E j \in DOMAIN log'[s] : log'[s][j].role = "request"
  <2>1. Len(q) + 1 \in DOMAIN log'[s] /\ log'[s][Len(q) + 1] = e  BY <1>1, <1>3
  <2>2. \A j \in DOMAIN q : j \in DOMAIN log'[s] /\ log'[s][j] = q[j]  BY <1>1, <1>3
  <2> QED BY <1>1, <2>1, <2>2
<1>5. ASSUME NEW i \in DOMAIN log'[s], log'[s][i].role = "user"
      PROVE  log'[s][i].id <= task'[s] \/ \E j \in 1 .. i : log'[s][j].role = "request"
  <2>1. i \in 1 .. Len(q) + 1  BY <1>1, <1>3, <1>5
  <2>2. CASE i = Len(q) + 1
    <3>1. log'[s][i] = e /\ e.role = "user" /\ e.id \in Nat  BY <1>1, <1>3, <1>5, <2>2 DEF Entries
    <3>2. CASE e.id = task'[s]  BY <3>1, <3>2
    <3>3. CASE trip[s] # 0
      <4>1. PICK j \in 1 .. Len(q) : q[j].role = "request"  BY <1>1, <1>3, <3>3
      <4>2. j \in 1 .. i /\ log'[s][j] = q[j]  BY <1>1, <1>3, <2>2
      <4> QED BY <4>1, <4>2
    <3> QED BY <3>1, <3>2, <3>3
  <2>3. CASE i # Len(q) + 1
    <3>0. i \in 1 .. Len(q) /\ i \in DOMAIN q  BY <1>3, <2>1, <2>3
    <3>k. q[i].id \in Nat  BY <1>3, <3>0 DEF Entries
    <3>1. /\ i \in DOMAIN q /\ log'[s][i] = q[i] /\ q[i].id \in Nat
          /\ \A j \in 1 .. i : log'[s][j] = q[j]
      BY <1>1, <1>3, <3>0, <3>k
    <3>2. CASE \E j \in 1 .. i : q[j].role = "request"  BY <3>1, <3>2
    <3>3. CASE q[i].id <= task[s] /\ q[i].id <= counter[s]  BY <1>1, <3>1, <3>3
    <3> QED BY <1>1, <1>2, <1>5, <3>1, <3>2, <3>3
  <2> QED BY <2>2, <2>3
<1> QED BY <1>4, <1>5 DEF TaskFirst

\* The steps that only move a session on, or none of what is accounted for.
LEMMA QuietSteps ==
  ASSUME TypeInv, NEW s \in Sessions, LedgerOf(s), situation' = situation,
         \/ NewEngine(s) \/ ClearMessages(s) \/ LoadTranscript(s) \/ SaveRepaired(s)
         \/ ListRunning(s) \/ BuildContext(s) \/ SaveResumableState(s)
  PROVE  LedgerOf(s)'
<1> USE DEF processVars, logVars, turnVars, rowVars, diskVars, others
<1>0. pc \in [Sessions -> Pcs]  BY DEF TypeInv, ControlOK
<1>1. UNCHANGED <<status, closing, log, lost, todo, trip, counter, spent, totals, billed, checkpoint, task>>
  BY DEF NewEngine, ClearMessages, LoadTranscript, SaveRepaired, ListRunning, BuildContext,
     SaveResumableState
<1>2. QuietMove(s)
  <2> USE DEF LedgerOf, HasRow, Registered, QuietMove, EarlyPcs, ReplyPcs, CountedPcs
  <2>1. CASE NewEngine(s)
    <3>1. pc[s] = "unborn" /\ pc'[s] \in {"clearing", "reading", "scanning"}
      <4>1. PICK k \in situation.kinds :
              pc' = [pc EXCEPT ![s] = CASE k = "fresh" -> "clearing"
                                        [] k = "resumed" -> "reading"
                                        [] k = "detached" -> "scanning"]
        BY <2>1 DEF NewEngine
      <4>2. k \in {"fresh", "resumed", "detached"}  BY SessionLogAssumption DEF TypeInv, ControlOK
      <4> QED BY <1>0, <2>1, <4>1, <4>2 DEF NewEngine
    <3> QED BY <3>1
  <2>2. CASE ClearMessages(s)  BY <1>0, <2>2 DEF ClearMessages, Move
  <2>3. CASE LoadTranscript(s)  BY <1>0, <2>3 DEF LoadTranscript, Move
  <2>4. CASE SaveRepaired(s)  BY <1>0, <2>4 DEF SaveRepaired, Move
  <2>5. CASE ListRunning(s)  BY <1>0, <2>5 DEF ListRunning, Move
  <2>6. CASE BuildContext(s)  BY <1>0, <2>6 DEF BuildContext, Move
  <2>7. CASE SaveResumableState(s)  BY <1>0, <2>7 DEF SaveResumableState, Move
  <2> QED BY <2>1, <2>2, <2>3, <2>4, <2>5, <2>6, <2>7
<1>3. Registered(s)' <=> Registered(s)  BY <1>1 DEF Registered
<1> QED BY <1>1, <1>2, <1>3, LedgerStays

\* A session reads its counter before it has logged anything.
LEMMA CounterRead ==
  ASSUME TypeInv, TypeInv', NEW s \in Sessions, LedgerOf(s), situation' = situation, LoadTurnCounter(s)
  PROVE  LedgerOf(s)'
<1> USE DEF processVars, logVars, turnVars, rowVars, diskVars
<1>0. pc \in [Sessions -> Pcs] /\ counter'[s] \in Nat  BY DEF TypeInv, ControlOK, CountOK
<1>1. /\ UNCHANGED <<status, closing, log, lost, todo, trip, spent, totals, billed, checkpoint, task>>
      /\ pc[s] = "reading counter" /\ pc'[s] = "scanning"
  BY <1>0 DEF LoadTurnCounter, Move
<1>2. ~Registered(s) /\ log[s] = <<>> /\ lost[s] = <<>> /\ checkpoint[s].turn = 0
  BY <1>1 DEF LedgerOf, HasRow, EarlyPcs
<1>3. HasRow(s)'  BY <1>1, <1>2 DEF LedgerOf, HasRow, Registered, EarlyPcs, ReplyPcs, CountedPcs
<1>4. ToLog(s)'  BY <1>1 DEF ToLog
<1>5. Balanced(s)'
  <2>1. FileIsOpen(s)' <=> FileIsOpen(s)  BY <1>1 DEF FileIsOpen
  <2>2. Spoken(s)' = Spoken(s) /\ Pending(s)' = Pending(s) /\ Sent(s)' = Sent(s)
    BY <1>1 DEF Spoken, Sent, Pending
  <2> QED BY <1>1, <2>1, <2>2 DEF LedgerOf, Balanced, CountedPcs
<1>6. Dated(s)'
  <2>1. DOMAIN Sent(s)' = {}
    <3>1. Sent(s)' = <<>> \o <<>>  BY <1>1, <1>2 DEF Sent
    <3>2. <<>> \in Seq({})  BY EmptySeq
    <3>3. <<>> \o <<>> = <<>>  BY <3>2, ConcatEmptySeq
    <3> QED BY <3>1, <3>3
  <2>2. ~Registered(s)' /\ checkpoint'[s].turn = 0  BY <1>1, <1>2 DEF Registered
  <2>3. checkpoint'[s].turn <= counter'[s]  BY <1>0, <2>2
  <2> QED BY <2>1, <2>2, <2>3 DEF Dated
<1>7. ~situation.overlap => ClosedLast(s)'  BY <1>1 DEF LedgerOf, ClosedLast
<1>8. OnlyAnthropic => TaskFirst(s)'  BY <1>1 DEF LedgerOf, TaskFirst
<1> QED BY <1>3, <1>4, <1>5, <1>6, <1>7, <1>8 DEF LedgerOf, OnlyAnthropic

\* A session is registered with the first line of its log.
LEMMA RegisterLedger ==
  ASSUME TypeInv, LedgerTypes, NEW s \in Sessions, LedgerOf(s), situation' = situation, Register(s)
  PROVE  LedgerOf(s)'
<1> USE DEF processVars, turnVars
<1> DEFINE e == Entry("system", 0, 0)
<1>0. /\ pc \in [Sessions -> Pcs] /\ status \in [Sessions -> {"none", "running", "completed", "interrupted"}]
      /\ counter[s] \in Nat
  BY DEF TypeInv, ControlOK, CountOK, ScanOK
<1>1. /\ UNCHANGED <<closing, todo, trip, counter, spent, totals, billed, checkpoint, task>>
      /\ pc[s] = "judging" /\ pc'[s] \in {"idle", "failed"} /\ Write(s, e)
      /\ status[s] = "none" /\ status'[s] = "running"
  BY <1>0 DEF Register, Move, InsertSession
<1>2. /\ e \in Entries /\ e.role = "system" /\ e.used = 0  BY EntryType DEF Roles
<1> HIDE DEF e
<1>3. closing[s].at = "open" /\ checkpoint[s].turn = 0
  BY <1>1 DEF LedgerOf, HasRow, Registered
<1>4. Pending(s)' = Pending(s) /\ (FileIsOpen(s)' <=> FileIsOpen(s))  BY <1>1 DEF Pending, FileIsOpen
<1>5. /\ FileIsOpen(s)' => lost'[s] = <<>>
      /\ Spoken(s)' + Pending(s)' = totals'[s]
      /\ checkpoint'[s].used = UsageUpTo(Sent(s)', checkpoint'[s].turn)
      /\ \A i \in DOMAIN Sent(s)' :
           Sent(s)'[i].role \in {"assistant", "user"} => Sent(s)'[i].id <= counter'[s]
  BY <1>0, <1>1, <1>2, <1>4, PlainWrite
<1>6. HasRow(s)'  BY <1>1, <1>3 DEF HasRow, Registered, EarlyPcs
<1>7. ToLog(s)'  BY <1>1 DEF ToLog
<1>8. Balanced(s)'  BY <1>1, <1>5 DEF LedgerOf, Balanced, CountedPcs
<1>9. Dated(s)'  BY <1>0, <1>1, <1>3, <1>5 DEF Dated, ReplyPcs
<1>10. ~situation.overlap => ClosedLast(s)' /\ log'[s] = Append(log[s], e)
  BY <1>1, <1>2, <1>3, WrittenToFile
<1>11. OnlyAnthropic => TaskFirst(s)'
  <2> SUFFICES ASSUME OnlyAnthropic PROVE TaskFirst(s)'  OBVIOUS
  <2>1. log'[s] = Append(log[s], e)  BY <1>10 DEF OnlyAnthropic
  <2>2. trip'[s] = trip[s] /\ task'[s] = task[s] /\ e.role # "user"  BY <1>1, <1>2
  <2> QED BY <1>2, <2>1, <2>2, TaskStays
<1> QED BY <1>6, <1>7, <1>8, <1>9, <1>10, <1>11 DEF LedgerOf, OnlyAnthropic

\* A turn begins with its user's text, later than everything before it.
LEMMA StartLedger ==
  ASSUME TypeInv, LedgerTypes, NEW s \in Sessions, LedgerOf(s), situation' = situation, StartTurn(s)
  PROVE  LedgerOf(s)'
<1> USE DEF processVars
<1> DEFINE e == Entry("user", trip[s], counter'[s])
<1>0. /\ pc \in [Sessions -> Pcs] /\ counter \in [Sessions -> Nat] /\ trip[s] \in Nat
      /\ spent \in [Sessions -> Nat] /\ task \in [Sessions -> Nat]
  BY DEF TypeInv, ControlOK, CountOK, LedgerTypes
<1>1. /\ UNCHANGED <<closing, todo, trip, totals, billed, checkpoint, status>>
      /\ pc[s] = "idle" /\ closing[s].at = "open"
      /\ counter'[s] = counter[s] + 1 /\ counter[s] \in Nat /\ spent'[s] = 0
  BY <1>0 DEF StartTurn, Move
<1>2. Registered(s) /\ checkpoint[s].turn \in Nat /\ checkpoint[s].turn <= counter[s]
  BY <1>1 DEF LedgerOf, HasRow, Dated, LedgerTypes
<1>3. totals[s] = billed[s] + 0  BY <1>1 DEF LedgerOf, Balanced, CountedPcs
<1>4. CASE pc'[s] = "idle" /\ UNCHANGED <<log, lost, task>>
  <2>1. HasRow(s)'  BY <1>1, <1>2, <1>4 DEF LedgerOf, HasRow, Registered, EarlyPcs
  <2>2. ToLog(s)'  BY <1>4 DEF ToLog
  <2>3. Balanced(s)'
    <3>1. FileIsOpen(s)' <=> FileIsOpen(s)  BY <1>1 DEF FileIsOpen
    <3>2. Spoken(s)' = Spoken(s) /\ Pending(s)' = Pending(s) /\ Sent(s)' = Sent(s)
      BY <1>1, <1>4 DEF Spoken, Sent, Pending
    <3> QED BY <1>1, <1>3, <1>4, <3>1, <3>2 DEF LedgerOf, Balanced, CountedPcs
  <2>4. Dated(s)'
    <3>0. Sent(s)' = Sent(s)  BY <1>4 DEF Sent
    <3>1. \A i \in DOMAIN Sent(s) :
            Sent(s)[i].role \in {"assistant", "user"} => Sent(s)[i].id <= counter[s] /\ Sent(s)[i].id \in Nat
      <4> DEFINE q == Sent(s)
      <4>1. q \in Seq(Entries)  BY ConcatProperties DEF LedgerTypes, Sent
      <4>2. \A i \in DOMAIN q : q[i].id \in Nat
        <5>1. \A i \in DOMAIN q : q[i] \in Entries  BY <4>1, LenProperties
        <5> QED BY <5>1 DEF Entries
      <4> QED BY <4>2 DEF LedgerOf, Dated
    <3> QED BY <1>1, <1>2, <1>4, <3>0, <3>1 DEF Dated, ReplyPcs
  <2>5. ~situation.overlap => ClosedLast(s)'  BY <1>1, <1>4 DEF LedgerOf, ClosedLast
  <2>6. OnlyAnthropic => TaskFirst(s)'  BY <1>1, <1>4 DEF LedgerOf, TaskFirst
  <2> QED BY <2>1, <2>2, <2>3, <2>4, <2>5, <2>6 DEF LedgerOf, OnlyAnthropic
<1>5. CASE pc'[s] = "scanning" /\ LogUser(s)
  <2>1. /\ e \in Entries /\ e.role = "user" /\ e.id = counter'[s] /\ Write(s, e)
    <3>1. counter'[s] \in Nat  BY <1>1
    <3> QED BY <1>0, <1>5, <3>1, EntryType DEF LogUser, Roles
  <2>2. IF trip[s] = 0 THEN task'[s] = counter'[s] ELSE task' = task
    BY <1>0, <1>1, <1>5 DEF LogUser, Store, DbIsOpen
  <2> HIDE DEF e
  <2>3. Pending(s)' = Pending(s) /\ (FileIsOpen(s)' <=> FileIsOpen(s))
    BY <1>1, <1>5 DEF Pending, FileIsOpen
  <2>4. /\ FileIsOpen(s)' => lost'[s] = <<>>
        /\ Spoken(s)' + Pending(s)' = totals'[s]
        /\ checkpoint'[s].used = UsageUpTo(Sent(s)', checkpoint'[s].turn)
        /\ \A i \in DOMAIN Sent(s)' :
             Sent(s)'[i].role \in {"assistant", "user"} => Sent(s)'[i].id <= counter'[s]
    <3>1. counter'[s] \in Nat /\ counter[s] <= counter'[s] /\ e.id <= counter'[s] /\ e.role # "assistant"
      BY <1>1, <2>1
    <3>2. checkpoint'[s] = checkpoint[s] /\ totals'[s] = totals[s]  BY <1>1
    <3> QED BY <2>1, <2>3, <3>1, <3>2, PlainWrite
  <2>5. HasRow(s)'  BY <1>1, <1>2, <1>5 DEF HasRow, Registered, EarlyPcs
  <2>6. ToLog(s)'  BY <1>5 DEF ToLog
  <2>7. Balanced(s)'  BY <1>1, <1>3, <1>5, <2>4 DEF Balanced, CountedPcs
  <2>8. Dated(s)'  BY <1>1, <1>2, <2>4 DEF Dated
  <2>9. ~situation.overlap => ClosedLast(s)' /\ log'[s] = Append(log[s], e)
    BY <1>1, <2>1, WrittenToFile
  <2>10. OnlyAnthropic => TaskFirst(s)'
    <3> SUFFICES ASSUME OnlyAnthropic PROVE TaskFirst(s)'  OBVIOUS
    <3>1. log'[s] = Append(log[s], e)  BY <2>9 DEF OnlyAnthropic
    <3>2. trip'[s] = trip[s] /\ (e.role = "user" => trip[s] # 0 \/ e.id = task'[s])  BY <1>1, <2>1, <2>2
    <3>3. task'[s] = task[s] \/ (task'[s] \in Nat /\ counter[s] <= task'[s])  BY <1>1, <2>2
    <3> QED BY <2>1, <3>1, <3>2, <3>3, TaskStays
  <2> QED BY <2>5, <2>6, <2>7, <2>8, <2>9, <2>10 DEF LedgerOf, OnlyAnthropic
<1>6. \/ pc'[s] = "idle" /\ UNCHANGED <<log, lost, task>>
      \/ pc'[s] = "scanning" /\ LogUser(s)
  BY <1>0 DEF StartTurn, Move
<1> QED BY <1>4, <1>5, <1>6

\* Until its reply is counted a turn changes nothing but what it has to log.
LEMMA TurnMoves ==
  ASSUME TypeInv, LedgerTypes, NEW s \in Sessions, LedgerOf(s), situation' = situation,
         UNCHANGED <<status[s], closing[s], log[s], lost[s], trip[s], counter[s], totals[s],
                     billed[s], checkpoint[s], task[s]>>,
         pc[s] \in ReplyPcs \ {"replying"},
         pc'[s] \in {"idle"} \cup (ReplyPcs \ {"replying"}), ToLog(s)'
  PROVE  LedgerOf(s)'
<1>1. /\ status'[s] = status[s] /\ closing'[s] = closing[s] /\ log'[s] = log[s] /\ lost'[s] = lost[s]
      /\ trip'[s] = trip[s] /\ counter'[s] = counter[s] /\ totals'[s] = totals[s]
      /\ billed'[s] = billed[s] /\ checkpoint'[s] = checkpoint[s] /\ task'[s] = task[s]
  OBVIOUS
<1>2. HasRow(s)'  BY <1>1 DEF LedgerOf, HasRow, Registered, ReplyPcs, EarlyPcs
<1>3. Sent(s)' = Sent(s) /\ Spoken(s)' = Spoken(s)  BY <1>1 DEF Sent, Spoken
<1>4. Pending(s) = 0 /\ Pending(s)' = 0  BY DEF Pending, ReplyPcs
<1>5. Balanced(s)'
  <2>1. FileIsOpen(s)' <=> FileIsOpen(s)  BY <1>1 DEF FileIsOpen
  <2>2. pc[s] \notin CountedPcs /\ pc'[s] \notin CountedPcs  BY DEF ReplyPcs, CountedPcs
  <2> QED BY <1>1, <1>3, <1>4, <2>1, <2>2 DEF LedgerOf, Balanced
<1>6. Dated(s)'
  <2>1. Registered(s)  BY DEF LedgerOf, HasRow
  <2> QED BY <1>1, <1>3, <2>1 DEF LedgerOf, Dated
<1>7. ~situation.overlap => ClosedLast(s)'  BY <1>1 DEF LedgerOf, ClosedLast, ReplyPcs
<1>8. OnlyAnthropic => TaskFirst(s)'  BY <1>1 DEF LedgerOf, TaskFirst
<1> QED BY <1>2, <1>5, <1>6, <1>7, <1>8 DEF LedgerOf, OnlyAnthropic

\* A reply to be logged.
LEMMA ReplyType ==
  ASSUME TypeInv, NEW s \in Sessions, NEW text \in BOOLEAN
  PROVE  /\ <<Reply(s, text)>> \in Seq(Entries) /\ Len(<<Reply(s, text)>>) = 1
         /\ <<Reply(s, text)>>[1].role = "assistant" /\ <<Reply(s, text)>>[1].id = counter[s]
<1>1. trip[s] \in Nat /\ counter[s] \in Nat  BY DEF TypeInv, CountOK
<1> DEFINE e == Reply(s, text)
<1>2. e \in Entries  BY <1>1, EntryType DEF Reply, Roles
<1>3. e.role = "assistant" /\ e.id = counter[s]  BY DEF Reply, Entry
<1> HIDE DEF e
<1>4. <<e>> \in Seq(Entries)  BY <1>2
<1> QED BY <1>3, <1>4 DEF e

\* What the hooks report of one call is calls and results of tools.
LEMMA ReportedType ==
  ASSUME NEW n \in Nat, NEW k \in Nat, NEW outcome \in Outcomes
  PROVE  Reported(n, k, outcome) \in Seq({e \in Entries : e.role \in ToolRoles})
<1> DEFINE T == {e \in Entries : e.role \in ToolRoles}
           call == CallEntry(n, Primary(k))
           chain == CallEntry(n, Chained(k))
           result(failed) == ResultEntry(n, Primary(k), failed)
           note(failed) == ResultEntry(n, Chained(k), failed)
<1>1. Primary(k) \in Nat /\ Chained(k) \in Nat  BY DEF Primary, Chained
<1>2. call \in T /\ chain \in T  BY <1>1, EntryType DEF CallEntry, Roles, ToolRoles
<1>3. \A failed \in BOOLEAN : result(failed) \in T /\ note(failed) \in T
  BY <1>1 DEF ResultEntry, Entry, Entries, Roles, ToolRoles
<1>4. Reported(n, k, outcome) =
        CASE outcome = "ran" -> <<call, result(FALSE)>>
          [] outcome = "failed" -> <<call, result(TRUE)>>
          [] outcome = "chained" -> <<call, result(FALSE), chain, note(FALSE)>>
          [] outcome = "chain failed" -> <<call, result(FALSE), chain, note(TRUE)>>
          [] outcome = "chain refused" -> <<call, result(FALSE), note(TRUE)>>
          [] outcome = "chain dropped" -> <<call, chain, result(FALSE), note(TRUE)>>
          [] outcome = "failed with chain" -> <<call, note(FALSE), result(TRUE)>>
  BY DEF Reported
<1> HIDE DEF T, call, chain, result, note
<1>5. Reported(n, k, outcome) \in Seq(T)
  <2>1. /\ outcome = "ran" => Reported(n, k, outcome) = <<call, result(FALSE)>>
        /\ outcome = "failed" => Reported(n, k, outcome) = <<call, result(TRUE)>>
        /\ outcome = "chained" => Reported(n, k, outcome) = <<call, result(FALSE), chain, note(FALSE)>>
        /\ outcome = "chain failed" => Reported(n, k, outcome) = <<call, result(FALSE), chain, note(TRUE)>>
        /\ outcome = "chain refused" => Reported(n, k, outcome) = <<call, result(FALSE), note(TRUE)>>
        /\ outcome = "chain dropped" => Reported(n, k, outcome) = <<call, chain, result(FALSE), note(TRUE)>>
        /\ outcome = "failed with chain" => Reported(n, k, outcome) = <<call, note(FALSE), result(TRUE)>>
    BY <1>4
  <2>2. result(FALSE) \in T /\ result(TRUE) \in T /\ note(FALSE) \in T /\ note(TRUE) \in T  BY <1>3
  <2>3. \A a, b, c, d \in T : <<a, b>> \in Seq(T) /\ <<a, b, c>> \in Seq(T) /\ <<a, b, c, d>> \in Seq(T)
    OBVIOUS
  <2>4. /\ <<call, result(FALSE)>> \in Seq(T) /\ <<call, result(TRUE)>> \in Seq(T)
        /\ <<call, result(FALSE), note(TRUE)>> \in Seq(T)
        /\ <<call, note(FALSE), result(TRUE)>> \in Seq(T)
    BY ONLY <1>2, <2>2, <2>3
  <2>5. /\ <<call, result(FALSE), chain, note(FALSE)>> \in Seq(T)
        /\ <<call, result(FALSE), chain, note(TRUE)>> \in Seq(T)
        /\ <<call, chain, result(FALSE), note(TRUE)>> \in Seq(T)
    BY ONLY <1>2, <2>2, <2>3
  <2>6. \/ outcome = "ran" \/ outcome = "failed" \/ outcome = "chained" \/ outcome = "chain failed"
        \/ outcome = "chain refused" \/ outcome = "chain dropped" \/ outcome = "failed with chain"
    BY DEF Outcomes
  <2>7. CASE outcome = "ran"  BY <2>1, <2>4, <2>7
  <2>8. CASE outcome = "failed"  BY <2>1, <2>4, <2>8
  <2>9. CASE outcome = "chained"  BY <2>1, <2>5, <2>9
  <2>10. CASE outcome = "chain failed"  BY <2>1, <2>5, <2>10
  <2>11. CASE outcome = "chain refused"  BY <2>1, <2>4, <2>11
  <2>12. CASE outcome = "chain dropped"  BY <2>1, <2>5, <2>12
  <2>13. CASE outcome = "failed with chain"  BY <2>1, <2>4, <2>13
  <2> QED BY <2>6, <2>7, <2>8, <2>9, <2>10, <2>11, <2>12, <2>13
<1> QED BY <1>5 DEF T

\* What an answer with calls of tools leaves to report.
LEMMA ReportsType ==
  ASSUME TypeInv, NEW s \in Sessions, NEW runs \in Seq(Outcomes), NEW m \in Nat
  PROVE  LET new == FlattenSeq([i \in DOMAIN runs |-> Reported(trip[s], 10 * m + i, runs[i])])
         IN  new \in Seq({e \in Entries : e.role \in ToolRoles})
<1> DEFINE T == {e \in Entries : e.role \in ToolRoles}
           ss == [i \in DOMAIN runs |-> Reported(trip[s], 10 * m + i, runs[i])]
<1>1. DOMAIN runs = 1 .. Len(runs) /\ Len(runs) \in Nat /\ \A i \in 1 .. Len(runs) : runs[i] \in Outcomes
  <2> HIDE DEF Outcomes
  <2> QED OBVIOUS
<1>2. trip[s] \in Nat  BY DEF TypeInv, CountOK
<1>3. \A i \in 1 .. Len(runs) : Reported(trip[s], 10 * m + i, runs[i]) \in Seq(T)
  <2> TAKE i \in 1 .. Len(runs)
  <2>1. 10 * m + i \in Nat  BY <1>1
  <2> QED BY <1>1, <1>2, <2>1, ReportedType
<1> HIDE DEF T
<1>4. ss \in [1 .. Len(runs) -> Seq(T)]  BY <1>1, <1>3
<1> HIDE DEF ss
<1>5. ss \in Seq(Seq(T))
  <2> DEFINE U == Seq(T)
  <2>1. ss \in [1 .. Len(runs) -> U] /\ Len(runs) \in Nat  BY <1>1, <1>4
  <2> HIDE DEF U
  <2>2. ss \in Seq(U)  BY <2>1
  <2> QED BY <2>2 DEF U
<1>6. FlattenSeq(ss) \in Seq(T)  BY <1>5, FlattenType
<1> QED BY <1>6 DEF ss, T

\* An answer, or the failure to get one.
LEMMA AnswerLedger ==
  ASSUME TypeInv, LedgerTypes, NEW s \in Sessions, LedgerOf(s), situation' = situation,
         Answer(s) \/ CallFails(s) \/ Stopped(s)
  PROVE  LedgerOf(s)' /\ todo' \in [Sessions -> Seq(Entries)]
<1> USE DEF processVars, logVars, turnVars, rowVars, diskVars
<1>0. /\ pc \in [Sessions -> Pcs] /\ todo \in [Sessions -> Seq(Entries)]
      /\ answered \in [Sessions -> Nat] /\ trip[s] \in Nat
  BY DEF TypeInv, ControlOK, CountOK, LedgerTypes
<1>1. UNCHANGED <<status, closing, log, lost, trip, counter, totals, billed, checkpoint, task>>
  BY DEF Answer, CallFails, Stopped, EndTurn, Store
<1>2. /\ pc[s] \in ReplyPcs \ {"replying"}
      /\ \/ pc'[s] = "idle" /\ todo' = todo
         \/ /\ pc'[s] = "ending"
            /\ \E text \in BOOLEAN : todo' = [todo EXCEPT ![s] = <<Reply(s, text)>>]
         \/ /\ pc'[s] = "working"
            /\ \E runs \in situation.tools : todo' = [todo EXCEPT ![s] =
                 FlattenSeq([i \in DOMAIN runs |-> Reported(trip[s], 10 * answered'[s] + i, runs[i])])]
  <2>1. CASE Answer(s)  BY <1>0, <2>1 DEF Answer, Move, ReplyPcs
  <2>2. CASE CallFails(s)  BY <1>0, <2>2 DEF CallFails, Move, ReplyPcs
  <2>3. CASE Stopped(s)  BY <1>0, <2>3 DEF Stopped, Move, ReplyPcs
  <2> QED BY <2>1, <2>2, <2>3
<1>3. CASE pc'[s] = "idle" /\ todo' = todo
  <2>1. ToLog(s)'  BY <1>3 DEF ToLog
  <2> QED BY <1>0, <1>1, <1>2, <1>3, <2>1, TurnMoves
<1>4. CASE pc'[s] = "ending" /\ \E text \in BOOLEAN : todo' = [todo EXCEPT ![s] = <<Reply(s, text)>>]
  <2>1. PICK text \in BOOLEAN : todo' = [todo EXCEPT ![s] = <<Reply(s, text)>>]  BY <1>4
  <2> DEFINE q == <<Reply(s, text)>>
  <2>2. /\ q \in Seq(Entries) /\ Len(q) = 1 /\ q[1].role = "assistant" /\ q[1].id = counter[s]
    BY ReplyType
  <2>3. todo' = [todo EXCEPT ![s] = q]  BY <2>1
  <2> HIDE DEF q
  <2>4. todo'[s] = q /\ todo' \in [Sessions -> Seq(Entries)]
    <3> HIDE DEF Entries
    <3> QED BY <1>0, <2>2, <2>3
  <2>5. ToLog(s)'  BY <1>1, <1>4, <2>2, <2>4 DEF ToLog
  <2>6. pc'[s] \in {"idle"} \cup (ReplyPcs \ {"replying"})  BY <1>4 DEF ReplyPcs
  <2> QED BY <1>1, <1>2, <2>4, <2>5, <2>6, TurnMoves
<1>5. CASE /\ pc'[s] = "working"
           /\ \E runs \in situation.tools : todo' = [todo EXCEPT ![s] =
                FlattenSeq([i \in DOMAIN runs |-> Reported(trip[s], 10 * answered'[s] + i, runs[i])])]
  <2>1. PICK runs \in situation.tools : todo' = [todo EXCEPT ![s] =
          FlattenSeq([i \in DOMAIN runs |-> Reported(trip[s], 10 * answered'[s] + i, runs[i])])]
    BY <1>5
  <2>2. runs \in Seq(Outcomes)
    <3>1. situation \in Situations  BY DEF TypeInv, ControlOK
    <3>2. situation.tools \subseteq Seq(Outcomes)  BY <3>1, SessionLogAssumption
    <3> QED BY <3>2
  <2>3. answered'[s] \in Nat
    <3>1. answered'[s] = answered[s] + 1
      <4>1. Answer(s)  BY <1>0, <1>5 DEF CallFails, Stopped, Move
      <4> QED BY <1>0, <4>1 DEF Answer
    <3> QED BY <1>0, <3>1
  <2> DEFINE m == answered'[s]
             q == FlattenSeq([i \in DOMAIN runs |-> Reported(trip[s], 10 * m + i, runs[i])])
             T == {e \in Entries : e.role \in ToolRoles}
  <2>4. q \in Seq(T)  BY <2>2, <2>3, ReportsType
  <2>5. todo' = [todo EXCEPT ![s] = q]  BY <2>1
  <2> HIDE DEF q
  <2>6. q \in Seq(Entries) /\ \A i \in DOMAIN q : q[i].role \in ToolRoles
    <3>1. \A e \in T : e \in Entries /\ e.role \in ToolRoles  OBVIOUS
    <3> HIDE DEF T, Entries
    <3>2. DOMAIN q = 1 .. Len(q) /\ Len(q) \in Nat /\ \A i \in 1 .. Len(q) : q[i] \in T  BY <2>4
    <3>3. q \in [1 .. Len(q) -> Entries]  BY <2>4, <3>1, <3>2
    <3> QED BY <3>1, <3>2, <3>3
  <2>7. todo'[s] = q /\ todo' \in [Sessions -> Seq(Entries)]
    <3> HIDE DEF Entries
    <3> QED BY <1>0, <2>5, <2>6
  <2>8. ToLog(s)'  BY <1>5, <2>6, <2>7 DEF ToLog
  <2>9. pc'[s] \in {"idle"} \cup (ReplyPcs \ {"replying"})  BY <1>5 DEF ReplyPcs
  <2> QED BY <1>1, <1>2, <2>7, <2>8, <2>9, TurnMoves
<1> QED BY <1>2, <1>3, <1>4, <1>5

\* A call of a provider that logs its request, and one of a provider that does not.
LEMMA CallLedger ==
  ASSUME TypeInv, LedgerTypes, NEW s \in Sessions, LedgerOf(s), situation' = situation, Call(s)
  PROVE  LedgerOf(s)'
<1> USE DEF processVars, logVars
<1> DEFINE e == Entry("request", trip'[s], 0)
<1>0. pc \in [Sessions -> Pcs] /\ trip \in [Sessions -> Nat] /\ counter[s] \in Nat
  BY DEF TypeInv, ControlOK, CountOK
<1>1. /\ UNCHANGED <<closing, todo, counter, spent, totals, billed, checkpoint, status, task>>
      /\ pc[s] = "calling" /\ pc'[s] = "waiting"
      /\ \/ UNCHANGED <<trip, log, lost>>
         \/ Write(s, e) /\ trip'[s] = trip[s] + 1
  <2>1. UNCHANGED <<closing, todo, counter, spent, totals, billed, checkpoint, status, task>>
    BY DEF Call
  <2>2. pc[s] = "calling" /\ pc'[s] = "waiting"  BY <1>0 DEF Call, Move
  <2>3. UNCHANGED <<trip, log, lost>> \/ LogRequest(s)  BY DEF Call
  <2> QED BY <1>0, <2>1, <2>2, <2>3 DEF LogRequest
<1>2. ToLog(s)'  BY <1>1 DEF ToLog
<1>3. pc[s] \in ReplyPcs \ {"replying"} /\ pc'[s] \in ReplyPcs \ {"replying"}  BY <1>1 DEF ReplyPcs
<1>4. CASE UNCHANGED <<trip, log, lost>>  BY <1>1, <1>2, <1>3, <1>4, TurnMoves
<1>5. CASE Write(s, e) /\ trip'[s] = trip[s] + 1
  <2>1. e \in Entries /\ e.role = "request"
    <3>1. trip'[s] \in Nat  BY <1>0, <1>5
    <3> QED BY <3>1, EntryType DEF Roles
  <2>k. Write(s, e)  BY <1>5
  <2> HIDE DEF e
  <2>2. Pending(s)' = Pending(s) /\ (FileIsOpen(s)' <=> FileIsOpen(s))
    BY <1>1 DEF Pending, FileIsOpen
  <2>3. /\ FileIsOpen(s)' => lost'[s] = <<>>
        /\ Spoken(s)' + Pending(s)' = totals'[s]
        /\ checkpoint'[s].used = UsageUpTo(Sent(s)', checkpoint'[s].turn)
        /\ \A i \in DOMAIN Sent(s)' :
             Sent(s)'[i].role \in {"assistant", "user"} => Sent(s)'[i].id <= counter'[s]
    <3>1. counter'[s] \in Nat /\ counter[s] <= counter'[s] /\ e.role # "assistant" /\ e.role # "user"
      BY <1>0, <1>1, <2>1
    <3>2. checkpoint'[s] = checkpoint[s] /\ totals'[s] = totals[s]  BY <1>1
    <3> QED BY <2>k, <2>1, <2>2, <3>1, <3>2, PlainWrite
  <2>4. HasRow(s)'  BY <1>1 DEF LedgerOf, HasRow, Registered, ReplyPcs, EarlyPcs
  <2>5. Balanced(s)'  BY <1>1, <2>3 DEF LedgerOf, Balanced, CountedPcs
  <2>6. Dated(s)'
    <3>1. Registered(s)  BY <1>1 DEF LedgerOf, HasRow, ReplyPcs
    <3> QED BY <1>1, <2>3, <3>1 DEF LedgerOf, Dated, ReplyPcs
  <2>7. ~situation.overlap => ClosedLast(s)' /\ log'[s] = Append(log[s], e)
    <3> SUFFICES ASSUME ~situation.overlap PROVE ClosedLast(s)' /\ log'[s] = Append(log[s], e)  OBVIOUS
    <3>1. closing[s].at = "open" /\ closing'[s] = closing[s]  BY <1>1 DEF LedgerOf, ClosedLast
    <3> QED BY <2>k, <2>1, <3>1, WrittenToFile
  <2>8. OnlyAnthropic => TaskFirst(s)'
    <3> SUFFICES ASSUME OnlyAnthropic PROVE TaskFirst(s)'  OBVIOUS
    <3>1. log'[s] = Append(log[s], e)  BY <2>7 DEF OnlyAnthropic
    <3> QED BY <1>1, <2>1, <3>1, TaskStays
  <2> QED BY <1>2, <2>4, <2>5, <2>6, <2>7, <2>8 DEF LedgerOf, OnlyAnthropic
<1> QED BY <1>1, <1>4, <1>5

\* A report of a tool.
LEMMA ReportLedger ==
  ASSUME TypeInv, LedgerTypes, NEW s \in Sessions, LedgerOf(s), situation' = situation, Report(s)
  PROVE  LedgerOf(s)' /\ todo' \in [Sessions -> Seq(Entries)]
<1> USE DEF processVars, logVars, turnVars, rowVars
<1>0. /\ pc \in [Sessions -> Pcs] /\ counter[s] \in Nat /\ todo \in [Sessions -> Seq(Entries)]
      /\ log \in [Sessions -> Seq(Entries)] /\ lost \in [Sessions -> Seq(Entries)]
  BY DEF TypeInv, ControlOK, CountOK, LedgerTypes
<1>1. /\ UNCHANGED <<closing, trip, counter, spent, totals, billed, checkpoint, status, task>>
      /\ pc[s] = "working"
      /\ \/ pc'[s] = "calling" /\ UNCHANGED <<log, lost, todo>>
         \/ /\ todo[s] # <<>> /\ pc'[s] = "working" /\ Write(s, Head(todo[s]))
            /\ todo' = [todo EXCEPT ![s] = Tail(@)]
  BY <1>0 DEF Report
<1>2. pc[s] \in ReplyPcs \ {"replying"} /\ pc'[s] \in ReplyPcs \ {"replying"}  BY <1>1 DEF ReplyPcs
<1>3. CASE pc'[s] = "calling" /\ UNCHANGED <<log, lost, todo>>
  <2>1. ToLog(s)'  BY <1>3 DEF ToLog
  <2> QED BY <1>0, <1>1, <1>2, <1>3, <2>1, TurnMoves
<1>4. CASE /\ todo[s] # <<>> /\ pc'[s] = "working" /\ Write(s, Head(todo[s]))
           /\ todo' = [todo EXCEPT ![s] = Tail(@)]
  <2> DEFINE q == todo[s]
             e == Head(q)
  <2>0. q \in Seq(Entries) /\ q # <<>> /\ \A i \in DOMAIN q : q[i].role \in ToolRoles
    BY <1>0, <1>1, <1>4 DEF LedgerOf, ToLog
  <2>k. Write(s, e) /\ todo' = [todo EXCEPT ![s] = Tail(q)]  BY <1>4
  <2> HIDE DEF q
  <2>1. /\ e \in Entries /\ e.role \in ToolRoles /\ Tail(q) \in Seq(Entries)
        /\ \A i \in DOMAIN Tail(q) : Tail(q)[i].role \in ToolRoles
    <3> HIDE DEF Entries
    <3>1. /\ Len(q) \in Nat \ {0} /\ DOMAIN q = 1 .. Len(q) /\ e = q[1] /\ e \in Entries
          /\ Tail(q) \in Seq(Entries) /\ DOMAIN Tail(q) = 1 .. Len(q) - 1
          /\ \A i \in 1 .. Len(q) - 1 : Tail(q)[i] = q[i + 1]
      BY <2>0
    <3>2. \A i \in 1 .. Len(q) - 1 : i + 1 \in DOMAIN q  BY <3>1
    <3> QED BY <2>0, <3>1, <3>2
  <2>2. todo'[s] = Tail(q) /\ todo' \in [Sessions -> Seq(Entries)]
    <3> HIDE DEF Entries
    <3> QED BY <1>0, <2>k, <2>1
  <2>3. ToLog(s)'  BY <1>4, <2>1, <2>2 DEF ToLog
  <2>4. Pending(s)' = Pending(s) /\ (FileIsOpen(s)' <=> FileIsOpen(s))
    BY <1>1, <1>4 DEF Pending, FileIsOpen
  <2>r. e.role # "assistant" /\ e.role # "user" /\ e.role # "system" /\ e.role # "request"
    BY <2>1 DEF ToolRoles
  <2> HIDE DEF e
  <2>5. /\ FileIsOpen(s)' => lost'[s] = <<>>
        /\ Spoken(s)' + Pending(s)' = totals'[s]
        /\ checkpoint'[s].used = UsageUpTo(Sent(s)', checkpoint'[s].turn)
        /\ \A i \in DOMAIN Sent(s)' :
             Sent(s)'[i].role \in {"assistant", "user"} => Sent(s)'[i].id <= counter'[s]
    <3>1. counter'[s] \in Nat /\ counter[s] <= counter'[s]  BY <1>0, <1>1
    <3>2. checkpoint'[s] = checkpoint[s] /\ totals'[s] = totals[s]  BY <1>1
    <3> QED BY <2>k, <2>r, <2>1, <2>4, <3>1, <3>2, PlainWrite
  <2>6. HasRow(s)'  BY <1>1, <1>4 DEF LedgerOf, HasRow, Registered, ReplyPcs, EarlyPcs
  <2>7. Balanced(s)'  BY <1>1, <1>4, <2>5 DEF LedgerOf, Balanced, CountedPcs
  <2>8. Dated(s)'
    <3>1. Registered(s)  BY <1>1 DEF LedgerOf, HasRow, ReplyPcs
    <3> QED BY <1>1, <2>5, <3>1 DEF LedgerOf, Dated, ReplyPcs
  <2>9. ~situation.overlap => ClosedLast(s)' /\ log'[s] = Append(log[s], e)
    <3> SUFFICES ASSUME ~situation.overlap PROVE ClosedLast(s)' /\ log'[s] = Append(log[s], e)  OBVIOUS
    <3>1. closing[s].at = "open" /\ closing'[s] = closing[s]  BY <1>1 DEF LedgerOf, ClosedLast
    <3> QED BY <2>k, <2>r, <2>1, <3>1, WrittenToFile
  <2>10. OnlyAnthropic => TaskFirst(s)'
    <3> SUFFICES ASSUME OnlyAnthropic PROVE TaskFirst(s)'  OBVIOUS
    <3>1. log'[s] = Append(log[s], e)  BY <2>9 DEF OnlyAnthropic
    <3>2. trip'[s] = trip[s] /\ task'[s] = task[s]  BY <1>1
    <3> QED BY <2>r, <2>1, <3>1, <3>2, TaskStays
  <2> QED BY <2>2, <2>3, <2>6, <2>7, <2>8, <2>9, <2>10 DEF LedgerOf, OnlyAnthropic
<1> QED BY <1>1, <1>3, <1>4

\* The only element of a sequence put in another's place.
LEMMA OnlyOne ==
  ASSUME NEW E, NEW q \in Seq(E), Len(q) = 1, NEW d \in E
  PROVE  /\ [q EXCEPT ![1] = d] \in Seq(E) /\ Len([q EXCEPT ![1] = d]) = 1
         /\ [q EXCEPT ![1] = d][1] = d
<1>1. 1 \in 1 .. Len(q)  OBVIOUS
<1> QED BY <1>1, ExceptSeq

\* A reply is added up, and then written: in between it is pending.
LEMMA ReplyLedger ==
  ASSUME TypeInv, LedgerTypes, NEW s \in Sessions, LedgerOf(s), situation' = situation, LogAssistant(s)
  PROVE  LedgerOf(s)' /\ todo' \in [Sessions -> Seq(Entries)]
<1> USE DEF processVars, logVars, turnVars, rowVars
<1>0. /\ pc \in [Sessions -> Pcs] /\ counter[s] \in Nat /\ todo \in [Sessions -> Seq(Entries)]
      /\ spent[s] \in Nat /\ totals \in [Sessions -> Nat] /\ billed[s] \in Nat
      /\ checkpoint[s].turn \in Nat /\ checkpoint[s].used \in Nat
      /\ log \in [Sessions -> Seq(Entries)] /\ lost \in [Sessions -> Seq(Entries)]
  BY DEF TypeInv, ControlOK, CountOK, LedgerTypes
<1>1. /\ UNCHANGED <<closing, trip, counter, spent, billed, checkpoint, status, task>>
      /\ \/ /\ pc[s] = "ending" /\ pc'[s] = "replying" /\ totals'[s] = totals[s] + spent[s]
            /\ todo' = [todo EXCEPT ![s][1].used = spent[s]] /\ UNCHANGED <<log, lost>>
         \/ /\ pc[s] = "replying" /\ pc'[s] \in {"checkpointing", "saving"}
            /\ Write(s, todo[s][1]) /\ todo' = [todo EXCEPT ![s] = <<>>] /\ UNCHANGED totals
  BY <1>0 DEF LogAssistant, Move
<1>2. Registered(s) /\ pc[s] # "idle" /\ checkpoint[s].turn < counter[s]
  BY <1>1 DEF LedgerOf, HasRow, Dated, ReplyPcs
<1>3. HasRow(s)'  BY <1>1, <1>2 DEF LedgerOf, HasRow, Registered, EarlyPcs
<1>4. /\ FileIsOpen(s)' <=> FileIsOpen(s)
      /\ FileIsOpen(s) => lost[s] = <<>>
      /\ Spoken(s) + Pending(s) = totals[s]
      /\ checkpoint[s].used = UsageUpTo(Sent(s), checkpoint[s].turn)
  BY <1>1 DEF FileIsOpen, LedgerOf, Balanced
<1>5. Spoken(s) \in Nat
  <2>1. Sent(s) \in Seq(Entries)  BY <1>0, ConcatProperties DEF Sent
  <2> QED BY <2>1, UsageFacts DEF Spoken
<1>q. /\ Len(todo[s]) = 1 /\ todo[s][1] \in Entries
      /\ todo[s][1].role = "assistant" /\ todo[s][1].id = counter[s]
  <2>1. Len(todo[s]) = 1 /\ todo[s][1].role = "assistant" /\ todo[s][1].id = counter[s]
    BY <1>1 DEF LedgerOf, ToLog
  <2>2. todo[s][1] \in Entries
    <3> HIDE DEF Entries
    <3>1. todo[s] \in Seq(Entries) /\ 1 \in 1 .. Len(todo[s])  BY <1>0, <2>1
    <3> QED BY <3>1, ElementOfSeq
  <2> QED BY <2>1, <2>2
<1>6. CASE /\ pc[s] = "ending" /\ pc'[s] = "replying" /\ totals'[s] = totals[s] + spent[s]
           /\ todo' = [todo EXCEPT ![s][1].used = spent[s]] /\ UNCHANGED <<log, lost>>
  <2> DEFINE q == todo[s]
             d == [q[1] EXCEPT !.used = spent[s]]
  <2>1. d \in Entries /\ d.role = "assistant" /\ d.id = counter[s] /\ d.used = spent[s]
    BY <1>0, <1>q DEF Entries
  <2>2. q \in Seq(Entries) /\ Len(q) = 1  BY <1>0, <1>q
  <2>3. todo' = [todo EXCEPT ![s] = [q EXCEPT ![1] = d]]  BY <1>6
  <2> HIDE DEF q, d
  <2>4. /\ todo'[s] = [q EXCEPT ![1] = d] /\ todo' \in [Sessions -> Seq(Entries)]
        /\ Len(todo'[s]) = 1 /\ todo'[s][1] = d
    <3> HIDE DEF Entries
    <3>1. [q EXCEPT ![1] = d] \in Seq(Entries) /\ Len([q EXCEPT ![1] = d]) = 1 /\ [q EXCEPT ![1] = d][1] = d
      BY <2>1, <2>2, OnlyOne
    <3> QED BY <1>0, <2>3, <3>1
  <2>5. ToLog(s)'  BY <1>1, <1>6, <2>1, <2>4 DEF ToLog
  <2>6. Sent(s)' = Sent(s) /\ Spoken(s)' = Spoken(s)  BY <1>6 DEF Sent, Spoken
  <2>7. Pending(s) = 0 /\ Pending(s)' = spent[s]  BY <1>6, <2>1, <2>4 DEF Pending
  <2>8. totals[s] = billed[s]  BY <1>0, <1>6 DEF LedgerOf, Balanced, CountedPcs
  <2>9. Balanced(s)'
    <3>1. Spoken(s)' + Pending(s)' = totals'[s]  BY <1>0, <1>4, <1>5, <1>6, <2>6, <2>7
    <3>2. totals'[s] = billed'[s] + (IF pc'[s] \in CountedPcs THEN spent'[s] ELSE 0)
      BY <1>1, <1>6, <2>8 DEF CountedPcs
    <3>3. FileIsOpen(s)' => lost'[s] = <<>>  BY <1>4, <1>6
    <3>4. checkpoint'[s].used = UsageUpTo(Sent(s)', checkpoint'[s].turn)  BY <1>1, <1>4, <2>6
    <3> QED BY <3>1, <3>2, <3>3, <3>4 DEF Balanced
  <2>10. Dated(s)'  BY <1>0, <1>1, <1>2, <2>6 DEF LedgerOf, Dated
  <2>11. ~situation.overlap => ClosedLast(s)'  BY <1>1, <1>2, <1>6 DEF LedgerOf, ClosedLast
  <2>12. OnlyAnthropic => TaskFirst(s)'  BY <1>1, <1>6 DEF LedgerOf, TaskFirst
  <2> QED BY <1>3, <2>4, <2>5, <2>9, <2>10, <2>11, <2>12 DEF LedgerOf, OnlyAnthropic
<1>7. CASE /\ pc[s] = "replying" /\ pc'[s] \in {"checkpointing", "saving"}
           /\ Write(s, todo[s][1]) /\ todo' = [todo EXCEPT ![s] = <<>>] /\ UNCHANGED totals
  <2> DEFINE e == todo[s][1]
  <2>1. e \in Entries /\ e.role = "assistant" /\ e.id = counter[s] /\ e.used = spent[s] /\ Write(s, e)
    BY <1>7, <1>q DEF LedgerOf, ToLog
  <2>2. Pending(s) = spent[s] /\ Pending(s)' = 0  BY <1>7, <2>1 DEF Pending
  <2> HIDE DEF e
  <2>3. /\ Sent(s) \in Seq(Entries) /\ Sent(s)' = Append(Sent(s), e)
        /\ FileIsOpen(s) => lost' = lost
    BY <1>4, <2>1, SentGrows DEF Sent
  <2>4. /\ UsageOf(Sent(s)', {"assistant"}) = UsageOf(Sent(s), {"assistant"}) + spent[s]
        /\ UsageUpTo(Sent(s)', checkpoint[s].turn) = UsageUpTo(Sent(s), checkpoint[s].turn)
    <3>1. ~(e.id <= checkpoint[s].turn)  BY <1>0, <1>2, <2>1
    <3>2. UsageUpTo(Sent(s), checkpoint[s].turn) \in Nat  BY <1>0, <1>4
    <3> QED BY <1>0, <2>1, <2>3, <3>1, <3>2, UsageGrows
  <2>5. Balanced(s)'
    <3>1. Spoken(s)' = Spoken(s) + spent[s]  BY <2>4 DEF Spoken
    <3>2. Spoken(s)' + Pending(s)' = totals'[s]  BY <1>0, <1>4, <1>5, <1>7, <2>2, <3>1
    <3>3. totals'[s] = billed'[s] + (IF pc'[s] \in CountedPcs THEN spent'[s] ELSE 0)
      BY <1>1, <1>7 DEF LedgerOf, Balanced, CountedPcs
    <3>4. FileIsOpen(s)' => lost'[s] = <<>>  BY <1>4, <2>3
    <3>5. checkpoint'[s].used = UsageUpTo(Sent(s)', checkpoint'[s].turn)  BY <1>1, <1>4, <2>4
    <3> QED BY <3>2, <3>3, <3>4, <3>5 DEF Balanced
  <2>6. Dated(s)'
    <3>1. ASSUME NEW i \in DOMAIN Sent(s)', Sent(s)'[i].role \in {"assistant", "user"}
          PROVE  Sent(s)'[i].id <= counter[s]
      <4> DEFINE q == Sent(s)
      <4>0. \A j \in DOMAIN q : q[j].role \in {"assistant", "user"} => q[j].id <= counter[s]
        BY DEF LedgerOf, Dated
      <4> HIDE DEF q
      <4>1. /\ Len(q) \in Nat /\ DOMAIN q = 1 .. Len(q) /\ DOMAIN Append(q, e) = 1 .. Len(q) + 1
            /\ Append(q, e)[Len(q) + 1] = e
            /\ \A j \in 1 .. Len(q) : Append(q, e)[j] = q[j]
        BY <2>1, <2>3, OneMore DEF q
      <4>2. i \in 1 .. Len(q) + 1 /\ Sent(s)'[i] = Append(q, e)[i]  BY <2>3, <3>1, <4>1 DEF q
      <4>3. CASE i = Len(q) + 1  BY <1>0, <2>1, <4>1, <4>2, <4>3
      <4>4. CASE i # Len(q) + 1
        <5>1. i \in DOMAIN q /\ Sent(s)'[i] = q[i]  BY <4>1, <4>2, <4>4
        <5> QED BY <3>1, <4>0, <5>1
      <4> QED BY <4>3, <4>4
    <3>2. checkpoint'[s].turn < counter'[s] /\ checkpoint'[s].turn <= counter'[s]  BY <1>0, <1>1, <1>2
    <3>3. \A i \in DOMAIN Sent(s)' :
            Sent(s)'[i].role \in {"assistant", "user"} => Sent(s)'[i].id <= counter'[s]
      BY <1>1, <3>1
    <3> QED BY <3>2, <3>3 DEF Dated
  <2>7. ToLog(s)'  BY <1>7 DEF ToLog
  <2>8. ~situation.overlap => ClosedLast(s)' /\ log'[s] = Append(log[s], e)
    <3> SUFFICES ASSUME ~situation.overlap PROVE ClosedLast(s)' /\ log'[s] = Append(log[s], e)  OBVIOUS
    <3>1. closing[s].at = "open" /\ closing'[s] = closing[s]  BY <1>1, <1>2 DEF LedgerOf, ClosedLast
    <3> QED BY <2>1, <3>1, WrittenToFile
  <2>9. OnlyAnthropic => TaskFirst(s)'
    <3> SUFFICES ASSUME OnlyAnthropic PROVE TaskFirst(s)'  OBVIOUS
    <3>1. log'[s] = Append(log[s], e)  BY <2>8 DEF OnlyAnthropic
    <3>2. trip'[s] = trip[s] /\ task'[s] = task[s]  BY <1>1
    <3> QED BY <2>1, <3>1, <3>2, TaskStays
  <2>10. todo' \in [Sessions -> Seq(Entries)]
    <3> HIDE DEF Entries
    <3>1. <<>> \in Seq(Entries)  OBVIOUS
    <3> QED BY <1>0, <1>7, <3>1
  <2> QED BY <1>3, <2>5, <2>6, <2>7, <2>8, <2>9, <2>10 DEF LedgerOf, OnlyAnthropic
<1> QED BY <1>1, <1>6, <1>7

\* The end of a turn: the checkpoint, when one is due, and the engine's total.
LEMMA FinishLedger ==
  ASSUME TypeInv, LedgerTypes, NEW s \in Sessions, LedgerOf(s), situation' = situation, FinishTurn(s)
  PROVE  /\ LedgerOf(s)'
         /\ billed' \in [Sessions -> Nat] /\ checkpoint' \in [Sessions -> [turn : Nat, used : Nat]]
<1> USE DEF processVars, logVars, rowVars
<1>0. /\ pc \in [Sessions -> Pcs] /\ counter[s] \in Nat /\ spent[s] \in Nat /\ totals[s] \in Nat
      /\ billed \in [Sessions -> Nat] /\ checkpoint \in [Sessions -> [turn : Nat, used : Nat]]
      /\ log \in [Sessions -> Seq(Entries)] /\ lost \in [Sessions -> Seq(Entries)]
  BY DEF TypeInv, ControlOK, CountOK, LedgerTypes
<1>1. /\ UNCHANGED <<closing, log, lost, todo, trip, counter, spent, totals, status, task>>
      /\ pc[s] = "checkpointing" /\ pc'[s] = "idle" /\ billed'[s] = billed[s] + spent[s]
      /\ \/ checkpoint'[s] = checkpoint[s]
         \/ checkpoint'[s] = [turn |-> counter[s], used |-> totals[s]]
  BY <1>0 DEF FinishTurn, Move, RecordTurnUsage, SaveCheckpoint
<1>2. billed' \in [Sessions -> Nat] /\ checkpoint' \in [Sessions -> [turn : Nat, used : Nat]]
  <2>1. billed' = [billed EXCEPT ![s] = billed[s] + spent[s]] /\ billed[s] + spent[s] \in Nat
    BY <1>0 DEF FinishTurn, RecordTurnUsage
  <2>2. \/ checkpoint' = checkpoint
        \/ checkpoint' = [checkpoint EXCEPT ![s] = [turn |-> counter[s], used |-> totals[s]]]
    BY DEF FinishTurn, SaveCheckpoint
  <2>3. billed' \in [Sessions -> Nat]  BY <1>0, <2>1
  <2>4. checkpoint' \in [Sessions -> [turn : Nat, used : Nat]]
    <3> DEFINE R == [turn : Nat, used : Nat]
               c == [turn |-> counter[s], used |-> totals[s]]
    <3>1. c \in R /\ checkpoint \in [Sessions -> R]  BY <1>0
    <3>2. checkpoint' = checkpoint \/ checkpoint' = [checkpoint EXCEPT ![s] = c]  BY <2>2
    <3> HIDE DEF R, c
    <3>3. checkpoint' \in [Sessions -> R]  BY <3>1, <3>2
    <3> QED BY <3>3 DEF R
  <2> QED BY <2>3, <2>4
<1>3. Registered(s)  BY <1>1 DEF LedgerOf, HasRow, CountedPcs
<1>4. HasRow(s)'  BY <1>1, <1>3 DEF LedgerOf, HasRow, Registered, EarlyPcs
<1>5. Sent(s)' = Sent(s) /\ Spoken(s)' = Spoken(s) /\ Pending(s) = 0 /\ Pending(s)' = 0
  BY <1>1 DEF Sent, Spoken, Pending
<1>6. Sent(s) \in Seq(Entries) /\ Spoken(s) \in Nat
  <2>1. Sent(s) \in Seq(Entries)  BY <1>0, ConcatProperties DEF Sent
  <2> QED BY <2>1, UsageFacts DEF Spoken
<1>7. /\ FileIsOpen(s)' <=> FileIsOpen(s)
      /\ FileIsOpen(s) => lost[s] = <<>>
      /\ Spoken(s) + 0 = totals[s]
      /\ checkpoint[s].used = UsageUpTo(Sent(s), checkpoint[s].turn)
      /\ totals[s] = billed[s] + spent[s]
  BY <1>1, <1>5 DEF FileIsOpen, LedgerOf, Balanced, CountedPcs
<1>8. checkpoint'[s].used = UsageUpTo(Sent(s)', checkpoint'[s].turn) /\ checkpoint'[s].turn <= counter[s]
  <2>1. CASE checkpoint'[s] = checkpoint[s]
    BY <1>5, <1>7, <2>1 DEF LedgerOf, Dated
  <2>2. CASE checkpoint'[s] = [turn |-> counter[s], used |-> totals[s]]
    <3>1. \A i \in DOMAIN Sent(s) : Sent(s)[i].role = "assistant" => Sent(s)[i].id <= counter[s]
      BY DEF LedgerOf, Dated
    <3>2. UsageUpTo(Sent(s), counter[s]) = Spoken(s)  BY <1>0, <1>6, <3>1, UsageFacts DEF Spoken
    <3>3. checkpoint'[s].turn = counter[s] /\ checkpoint'[s].used = totals[s]  BY <2>2
    <3> QED BY <1>0, <1>5, <1>6, <1>7, <3>2, <3>3
  <2> QED BY <1>1, <2>1, <2>2
<1>9. Balanced(s)'
  <2>1. Spoken(s)' + Pending(s)' = totals'[s]  BY <1>1, <1>5, <1>7
  <2>2. totals'[s] = billed'[s] + (IF pc'[s] \in CountedPcs THEN spent'[s] ELSE 0)
    BY <1>0, <1>1, <1>7 DEF CountedPcs
  <2>3. FileIsOpen(s)' => lost'[s] = <<>>  BY <1>1, <1>7
  <2> QED BY <1>8, <2>1, <2>2, <2>3 DEF Balanced
<1>10. Dated(s)'
  <2>1. \A i \in DOMAIN Sent(s)' :
          Sent(s)'[i].role \in {"assistant", "user"} => Sent(s)'[i].id <= counter'[s]
    BY <1>1, <1>5 DEF LedgerOf, Dated
  <2>2. pc'[s] \notin {"scanning", "judging"} \cup ReplyPcs  BY <1>1 DEF ReplyPcs
  <2> QED BY <1>1, <1>8, <2>1, <2>2 DEF Dated
<1>11. ToLog(s)'  BY <1>1 DEF ToLog
<1>12. ~situation.overlap => ClosedLast(s)'  BY <1>1 DEF LedgerOf, ClosedLast
<1>13. OnlyAnthropic => TaskFirst(s)'  BY <1>1 DEF LedgerOf, TaskFirst
<1> QED BY <1>2, <1>4, <1>9, <1>10, <1>11, <1>12, <1>13 DEF LedgerOf, OnlyAnthropic

\* The closing of a session: the totals it takes are the ones its replies add up to,
\* and its line is the last, where nothing is closed under a turn.
LEMMA CloseLedger ==
  ASSUME TypeInv, LedgerTypes, NEW s \in Sessions, LedgerOf(s), situation' = situation, Close(s)
  PROVE  LedgerOf(s)'
<1> USE DEF processVars, logVars, turnVars
<1> DEFINE e == ClosingLine(s)
<1>0. /\ closing \in [Sessions -> [at : Ats, used : Nat]] /\ counter[s] \in Nat /\ totals[s] \in Nat
      /\ status \in [Sessions -> {"none", "running", "completed", "interrupted"}]
  BY DEF TypeInv, ControlOK, CountOK, ScanOK
<1>1. UNCHANGED <<pc, todo, trip, counter, spent, totals, billed, checkpoint, task>>
  BY DEF Close, CloseStep
<1>2. \/ /\ closing[s].at = "open" /\ closing'[s] = [at |-> "totalled", used |-> totals[s]]
         /\ UNCHANGED <<log, lost, status>>
         /\ pc[s] = "idle" \/ (situation.overlap /\ status[s] # "none")
      \/ /\ closing[s].at = "totalled" /\ closing'[s] = [at |-> "filed", used |-> closing[s].used]
         /\ Write(s, e) /\ UNCHANGED status
      \/ /\ closing[s].at \in {"filed", "ended"} /\ closing'[s].used = closing[s].used
         /\ closing'[s].at \in {"ended", "closed"}
         /\ UNCHANGED <<log, lost>> /\ status'[s] \in {status[s], "completed"}
  BY <1>0 DEF Close, CloseStep, ClosingTotals, EndSession
<1>3. Registered(s) /\ Registered(s)'
  <2>1. Registered(s)  BY <1>2 DEF LedgerOf, HasRow, Registered
  <2> QED BY <1>2, <2>1 DEF Registered
<1>4. HasRow(s)'  BY <1>1, <1>3 DEF LedgerOf, HasRow
<1>5. ToLog(s)'  BY <1>1 DEF LedgerOf, ToLog
<1>6. Pending(s)' = Pending(s)  BY <1>1 DEF Pending
<1>7. ~situation.overlap => pc[s] = "idle"  BY <1>2 DEF LedgerOf, ClosedLast
<1>8. CASE UNCHANGED <<log, lost>>
  <2>1. Sent(s)' = Sent(s) /\ Spoken(s)' = Spoken(s)  BY <1>8 DEF Sent, Spoken
  <2>2. FileIsOpen(s)' => FileIsOpen(s)
    <3>1. \/ closing[s].at = "open" \/ closing[s].at = "totalled"
          \/ closing'[s].at \in {"ended", "closed"}
      BY <1>2
    <3> QED BY <3>1 DEF FileIsOpen
  <2>3. Balanced(s)'  BY <1>1, <1>6, <1>8, <2>1, <2>2 DEF LedgerOf, Balanced
  <2>4. Dated(s)'  BY <1>1, <1>3, <2>1 DEF LedgerOf, Dated
  <2>5. ~situation.overlap => ClosedLast(s)'
    <3> SUFFICES ASSUME ~situation.overlap PROVE ClosedLast(s)'  OBVIOUS
    <3>1. ClosedLast(s)  BY DEF LedgerOf
    <3>2. CASE closing[s].at = "open"
      <4>1. \A i \in DOMAIN log'[s] : ~(log'[s][i].role = "system" /\ log'[s][i].used > 0)
        BY <1>8, <3>1, <3>2 DEF ClosedLast
      <4>2. closing'[s] = [at |-> "totalled", used |-> totals[s]]  BY <1>2, <3>2
      <4> QED BY <1>1, <1>7, <1>8, <3>1, <4>1, <4>2 DEF ClosedLast
    <3>3. CASE closing[s].at = "totalled"
      <4>1. Write(s, e) /\ FileIsOpen(s) /\ log[s] \in Seq(Entries)
        BY <1>2, <3>3 DEF FileIsOpen, LedgerTypes
      <4>2. e \in Entries  BY <1>0, EntryType DEF ClosingLine, Roles
      <4>3. log' = [log EXCEPT ![s] = Append(log[s], e)]  BY <4>1 DEF Write
      <4>4. log'[s] = Append(log[s], e)  BY <4>3 DEF LedgerTypes
      <4>5. Len(Append(log[s], e)) = Len(log[s]) + 1 /\ Len(log[s]) \in Nat
        <5> DEFINE E == Entries
        <5>1. log[s] \in Seq(E) /\ e \in E  BY <4>1, <4>2
        <5> HIDE DEF E, e
        <5> QED BY <5>1, AppendProperties, LenProperties
      <4> QED BY <1>8, <4>4, <4>5
    <3>4. CASE closing[s].at \in {"filed", "ended"}
      <4>1. closing'[s].used = closing[s].used /\ closing'[s].at \in {"ended", "closed"}
        BY <1>2, <3>4
      <4> QED BY <1>1, <1>7, <1>8, <3>1, <4>1, <3>4 DEF ClosedLast
    <3> QED BY <1>2, <3>2, <3>3, <3>4
  <2>6. OnlyAnthropic => TaskFirst(s)'  BY <1>1, <1>8 DEF LedgerOf, TaskFirst
  <2> QED BY <1>4, <1>5, <2>3, <2>4, <2>5, <2>6 DEF LedgerOf, OnlyAnthropic
<1>9. CASE /\ closing[s].at = "totalled" /\ closing'[s] = [at |-> "filed", used |-> closing[s].used]
           /\ Write(s, e) /\ UNCHANGED status
  <2>1. e \in Entries /\ e.role = "system" /\ e.used = closing[s].used /\ Write(s, e)
    BY <1>0, <1>9, EntryType DEF ClosingLine, Entry, Roles
  <2> HIDE DEF e
  <2>2. FileIsOpen(s) /\ ~FileIsOpen(s)'  BY <1>9 DEF FileIsOpen
  <2>3. /\ FileIsOpen(s)' => lost'[s] = <<>>
        /\ Spoken(s)' + Pending(s)' = totals'[s]
        /\ checkpoint'[s].used = UsageUpTo(Sent(s)', checkpoint'[s].turn)
        /\ \A i \in DOMAIN Sent(s)' :
             Sent(s)'[i].role \in {"assistant", "user"} => Sent(s)'[i].id <= counter'[s]
    <3>1. counter'[s] \in Nat /\ counter[s] <= counter'[s] /\ e.role # "assistant" /\ e.role # "user"
      BY <1>0, <1>1, <2>1
    <3>2. checkpoint'[s] = checkpoint[s] /\ totals'[s] = totals[s]  BY <1>1
    <3> QED BY <1>6, <2>1, <2>2, <3>1, <3>2, PlainWrite
  <2>4. Balanced(s)'  BY <1>1, <2>3 DEF LedgerOf, Balanced
  <2>5. Dated(s)'  BY <1>1, <1>3, <2>3 DEF LedgerOf, Dated
  <2>6. log'[s] = Append(log[s], e) /\ lost'[s] = <<>> /\ log[s] \in Seq(Entries)
    <3>1. lost[s] = <<>>  BY <2>2 DEF LedgerOf, Balanced
    <3> QED BY <2>1, <2>2, <3>1, SentGrows DEF LedgerTypes
  <2>7. ~situation.overlap => ClosedLast(s)'
    <3> SUFFICES ASSUME ~situation.overlap PROVE ClosedLast(s)'  OBVIOUS
    <3>1. ClosedLast(s)  BY DEF LedgerOf
    <3>2. ASSUME NEW i \in DOMAIN log'[s], log'[s][i].role = "system", log'[s][i].used > 0
          PROVE  log'[s][i].used = closing[s].used
      <4> DEFINE q == log[s]
      <4>0. \A j \in DOMAIN q : ~(q[j].role = "system" /\ q[j].used > 0)
        BY <1>9, <3>1 DEF ClosedLast
      <4>k. q \in Seq(Entries) /\ log'[s] = Append(q, e)  BY <2>6
      <4> HIDE DEF q
      <4>1. /\ Len(q) \in Nat /\ DOMAIN q = 1 .. Len(q) /\ DOMAIN Append(q, e) = 1 .. Len(q) + 1
            /\ Append(q, e)[Len(q) + 1] = e
            /\ \A j \in 1 .. Len(q) : Append(q, e)[j] = q[j]
        BY <2>1, <4>k, OneMore
      <4>2. i \in 1 .. Len(q) + 1  BY <3>2, <4>k, <4>1
      <4>3. CASE i = Len(q) + 1  BY <2>1, <4>k, <4>1, <4>3
      <4>4. CASE i # Len(q) + 1
        <5>1. i \in DOMAIN q /\ log'[s][i] = q[i]  BY <4>k, <4>1, <4>2, <4>4
        <5> QED BY <3>2, <4>0, <5>1
      <4> QED BY <4>3, <4>4
    <3>3. closing'[s].at = "filed" /\ closing'[s].used = closing[s].used  BY <1>9
    <3>4. pc'[s] = "idle" /\ closing[s].used = totals'[s]  BY <1>1, <1>7, <1>9, <3>1 DEF ClosedLast
    <3> QED BY <2>6, <3>2, <3>3, <3>4 DEF ClosedLast
  <2>8. OnlyAnthropic => TaskFirst(s)'
    <3> SUFFICES ASSUME OnlyAnthropic PROVE TaskFirst(s)'  OBVIOUS
    <3>1. trip'[s] = trip[s] /\ task'[s] = task[s] /\ e.role # "user"  BY <1>1, <2>1
    <3> QED BY <2>1, <2>6, <3>1, TaskStays
  <2> QED BY <1>4, <1>5, <2>4, <2>5, <2>7, <2>8 DEF LedgerOf, OnlyAnthropic
<1> QED BY <1>2, <1>8, <1>9

\* A session that stands still keeps its ledger.
LEMMA StandsStill ==
  ASSUME NEW u \in Sessions, LedgerOf(u), situation' = situation, pc'[u] = pc[u],
         Registered(u)' <=> Registered(u), closing'[u] = closing[u],
         log'[u] = log[u], lost'[u] = lost[u], todo'[u] = todo[u], trip'[u] = trip[u],
         counter'[u] = counter[u], spent'[u] = spent[u], totals'[u] = totals[u],
         billed'[u] = billed[u], checkpoint'[u] = checkpoint[u], task'[u] = task[u]
  PROVE  LedgerOf(u)'
<1>1. QuietMove(u)  BY DEF QuietMove, LedgerOf, HasRow
<1> QED BY <1>1, LedgerStays

\* What a session writes is in no other's log.
LEMMA WriteElsewhere ==
  ASSUME LedgerTypes, NEW s \in Sessions, NEW u \in Sessions \ {s}, NEW e, Write(s, e)
  PROVE  log'[u] = log[u] /\ lost'[u] = lost[u]
BY DEF LedgerTypes, Write

\* The step of a session is nothing to the others.
LEMMA OthersStay ==
  ASSUME TypeInv, LedgerTypes, NEW s \in Sessions, NEW u \in Sessions \ {s}, LedgerOf(u),
         situation' = situation, SessionStep(s)
  PROVE  LedgerOf(u)'
<1> USE DEF processVars, logVars, turnVars, rowVars, diskVars, others
<1>0. /\ pc \in [Sessions -> Pcs] /\ closing \in [Sessions -> [at : Ats, used : Nat]]
      /\ status \in [Sessions -> {"none", "running", "completed", "interrupted"}]
      /\ trip \in [Sessions -> Nat] /\ counter \in [Sessions -> Nat] /\ spent \in [Sessions -> Nat]
      /\ totals \in [Sessions -> Nat] /\ billed \in [Sessions -> Nat] /\ task \in [Sessions -> Nat]
      /\ checkpoint \in [Sessions -> [turn : Nat, used : Nat]]
      /\ todo \in [Sessions -> Seq(Entries)]
  BY DEF TypeInv, ControlOK, CountOK, ScanOK, LedgerTypes
<1>w. \A e : Write(s, e) => log'[u] = log[u] /\ lost'[u] = lost[u]  BY WriteElsewhere
<1> DEFINE Still == /\ pc'[u] = pc[u] /\ (Registered(u)' <=> Registered(u)) /\ closing'[u] = closing[u]
                    /\ log'[u] = log[u] /\ lost'[u] = lost[u] /\ todo'[u] = todo[u]
                    /\ trip'[u] = trip[u] /\ counter'[u] = counter[u] /\ spent'[u] = spent[u]
                    /\ totals'[u] = totals[u] /\ billed'[u] = billed[u]
                    /\ checkpoint'[u] = checkpoint[u] /\ task'[u] = task[u]
<1> SUFFICES Still  BY StandsStill
<1> HIDE DEF Entries
<1>1. CASE \/ NewEngine(s) \/ ClearMessages(s) \/ LoadTranscript(s) \/ SaveRepaired(s)
           \/ LoadTurnCounter(s) \/ ListRunning(s) \/ BuildContext(s) \/ SaveResumableState(s)
  <2>1. UNCHANGED <<status, closing, log, lost, todo, trip, spent, totals, billed, checkpoint, task>>
    BY <1>1 DEF NewEngine, ClearMessages, LoadTranscript, SaveRepaired, LoadTurnCounter, ListRunning,
       BuildContext, SaveResumableState
  <2>2. pc'[u] = pc[u]
    BY <1>0, <1>1 DEF NewEngine, ClearMessages, LoadTranscript, SaveRepaired, LoadTurnCounter,
       ListRunning, BuildContext, SaveResumableState, Move
  <2>3. counter'[u] = counter[u]
    BY <1>0, <1>1 DEF NewEngine, ClearMessages, LoadTranscript, SaveRepaired, LoadTurnCounter,
       ListRunning, BuildContext, SaveResumableState
  <2> QED BY <2>1, <2>2, <2>3 DEF Registered
<1>2. CASE Register(s)
  <2>1. UNCHANGED <<closing, todo, trip, counter, spent, totals, billed, checkpoint, task>>
    BY <1>2 DEF Register
  <2>2. pc'[u] = pc[u] /\ status'[u] = status[u] /\ log'[u] = log[u] /\ lost'[u] = lost[u]
    BY <1>0, <1>2, <1>w DEF Register, Move, InsertSession
  <2> QED BY <2>1, <2>2 DEF Registered
<1>3. CASE StartTurn(s)
  <2>1. UNCHANGED <<closing, todo, trip, totals, billed, checkpoint, status>>
    BY <1>3 DEF StartTurn
  <2>2. pc'[u] = pc[u] /\ counter'[u] = counter[u] /\ spent'[u] = spent[u]
    BY <1>0, <1>3 DEF StartTurn, Move
  <2>3. log'[u] = log[u] /\ lost'[u] = lost[u] /\ task'[u] = task[u]
    BY <1>0, <1>3, <1>w DEF StartTurn, LogUser, Store
  <2> QED BY <2>1, <2>2, <2>3 DEF Registered
<1>4. CASE Call(s)
  <2>1. UNCHANGED <<closing, todo, counter, spent, totals, billed, checkpoint, status, task>>
    BY <1>4 DEF Call
  <2>2. pc'[u] = pc[u]  BY <1>0, <1>4 DEF Call, Move
  <2>3. trip'[u] = trip[u] /\ log'[u] = log[u] /\ lost'[u] = lost[u]
    BY <1>0, <1>4, <1>w DEF Call, LogRequest
  <2> QED BY <2>1, <2>2, <2>3 DEF Registered
<1>5. CASE Answer(s) \/ CallFails(s) \/ Stopped(s)
  <2>1. UNCHANGED <<closing, log, lost, trip, counter, totals, billed, checkpoint, status, task>>
    BY <1>5 DEF Answer, CallFails, Stopped, EndTurn, Store
  <2>2. pc'[u] = pc[u]  BY <1>0, <1>5 DEF Answer, CallFails, Stopped, Move
  <2>3. spent'[u] = spent[u]  BY <1>0, <1>5 DEF Answer, CallFails, Stopped
  <2>4. todo'[u] = todo[u]
    <3>1. todo' = todo \/ \E q : todo' = [todo EXCEPT ![s] = q]
      BY <1>5 DEF Answer, CallFails, Stopped
    <3> QED BY <1>0, <3>1
  <2> QED BY <2>1, <2>2, <2>3, <2>4 DEF Registered
<1>6. CASE Report(s)
  <2>1. UNCHANGED <<closing, trip, counter, spent, totals, billed, checkpoint, status, task>>
    BY <1>6 DEF Report
  <2>2. pc'[u] = pc[u] /\ todo'[u] = todo[u]  BY <1>0, <1>6 DEF Report
  <2>3. log'[u] = log[u] /\ lost'[u] = lost[u]  BY <1>6, <1>w DEF Report
  <2> QED BY <2>1, <2>2, <2>3 DEF Registered
<1>7. CASE LogAssistant(s)
  <2>1. UNCHANGED <<closing, trip, counter, spent, billed, checkpoint, status, task>>
    BY <1>7 DEF LogAssistant
  <2>2. pc'[u] = pc[u] /\ totals'[u] = totals[u]  BY <1>0, <1>7 DEF LogAssistant, Move
  <2>3. todo'[u] = todo[u]  BY <1>0, <1>7 DEF LogAssistant
  <2>4. log'[u] = log[u] /\ lost'[u] = lost[u]  BY <1>7, <1>w DEF LogAssistant
  <2> QED BY <2>1, <2>2, <2>3, <2>4 DEF Registered
<1>8. CASE FinishTurn(s)
  <2>1. UNCHANGED <<closing, log, lost, todo, trip, counter, spent, totals, status, task>>
    BY <1>8 DEF FinishTurn
  <2>2. pc'[u] = pc[u]  BY <1>0, <1>8 DEF FinishTurn, Move
  <2>3. billed'[u] = billed[u]  BY <1>0, <1>8 DEF FinishTurn, RecordTurnUsage
  <2>4. checkpoint'[u] = checkpoint[u]
    <3>1. checkpoint' = checkpoint \/ \E c : checkpoint' = [checkpoint EXCEPT ![s] = c]
      BY <1>8 DEF FinishTurn, SaveCheckpoint
    <3> QED BY <1>0, <3>1
  <2> QED BY <2>1, <2>2, <2>3, <2>4 DEF Registered
<1>9. CASE Close(s)
  <2>1. UNCHANGED <<pc, todo, trip, counter, spent, totals, billed, checkpoint, task>>
    BY <1>9 DEF Close, CloseStep
  <2>2. closing'[u] = closing[u]
    <3>1. \E c : closing' = [closing EXCEPT ![s] = c]  BY <1>9 DEF Close, CloseStep
    <3> QED BY <1>0, <3>1
  <2>3. status'[u] = status[u]  BY <1>0, <1>9 DEF Close, EndSession
  <2>4. log'[u] = log[u] /\ lost'[u] = lost[u]  BY <1>9, <1>w DEF Close
  <2> QED BY <2>1, <2>2, <2>3, <2>4 DEF Registered
<1> QED BY <1>1, <1>2, <1>3, <1>4, <1>5, <1>6, <1>7, <1>8, <1>9 DEF SessionStep

\* The step of a session keeps its own ledger.
LEMMA OwnLedger ==
  ASSUME TypeInv, TypeInv', LedgerTypes, NEW s \in Sessions, LedgerOf(s), situation' = situation,
         SessionStep(s)
  PROVE  LedgerOf(s)'
BY QuietSteps, CounterRead, RegisterLedger, StartLedger, CallLedger, AnswerLedger, ReportLedger,
   ReplyLedger, FinishLedger, CloseLedger DEF SessionStep

\* Entries stay entries, and numbers numbers.
LEMMA LedgerTypesStay ==
  ASSUME TypeInv, TypeInv', LedgerTypes, NEW s \in Sessions, LedgerOf(s), situation' = situation,
         SessionStep(s)
  PROVE  LedgerTypes'
<1> USE DEF processVars, logVars, turnVars, rowVars, diskVars, others
<1>1. todo' \in [Sessions -> Seq(Entries)]
  <2>1. CASE Answer(s) \/ CallFails(s) \/ Stopped(s) \/ Report(s) \/ LogAssistant(s)
    BY <2>1, AnswerLedger, ReportLedger, ReplyLedger
  <2>2. CASE ~(Answer(s) \/ CallFails(s) \/ Stopped(s) \/ Report(s) \/ LogAssistant(s))
    <3>1. todo' = todo
      BY <2>2 DEF SessionStep, NewEngine, ClearMessages, LoadTranscript, SaveRepaired,
         LoadTurnCounter, ListRunning, Register, BuildContext, StartTurn, Call, SaveResumableState,
         FinishTurn, Close, CloseStep
    <3> QED BY <3>1 DEF LedgerTypes
  <2> QED BY <2>1, <2>2
<1>2. billed' \in [Sessions -> Nat] /\ checkpoint' \in [Sessions -> [turn : Nat, used : Nat]]
  <2>1. CASE FinishTurn(s)  BY <2>1, FinishLedger
  <2>2. CASE ~FinishTurn(s)
    <3>1. billed' = billed /\ checkpoint' = checkpoint
      BY <2>2 DEF SessionStep, NewEngine, ClearMessages, LoadTranscript, SaveRepaired,
         LoadTurnCounter, ListRunning, Register, BuildContext, StartTurn, Call, Answer, CallFails,
         Stopped, Report, LogAssistant, SaveResumableState, Close, CloseStep
    <3> QED BY <3>1 DEF LedgerTypes
  <2> QED BY <2>1, <2>2
<1>3. task' \in [Sessions -> Nat]
  <2>1. CASE StartTurn(s)
    <3>1. counter'[s] \in Nat  BY DEF TypeInv, CountOK
    <3>2. task' = task \/ task' = [task EXCEPT ![s] = counter'[s]]
      BY <2>1 DEF StartTurn, LogUser, Store
    <3> QED BY <3>1, <3>2 DEF LedgerTypes
  <2>2. CASE ~StartTurn(s)
    <3>1. task' = task
      BY <2>2 DEF SessionStep, NewEngine, ClearMessages, LoadTranscript, SaveRepaired,
         LoadTurnCounter, ListRunning, Register, BuildContext, Call, Answer, CallFails,
         Stopped, Report, LogAssistant, SaveResumableState, FinishTurn, Close, CloseStep
    <3> QED BY <3>1 DEF LedgerTypes
  <2> QED BY <2>1, <2>2
<1>4. UNCHANGED <<log, lost>> \/ \E e \in Entries : Write(s, e)
  <2>0. trip[s] \in Nat /\ trip'[s] \in Nat /\ counter'[s] \in Nat /\ closing[s].used \in Nat
    BY DEF TypeInv, CountOK, ControlOK
  <2>1. CASE Register(s)
    <3>1. Entry("system", 0, 0) \in Entries  BY EntryType DEF Roles
    <3> QED BY <2>1, <3>1 DEF Register
  <2>2. CASE StartTurn(s)
    <3>1. Entry("user", trip[s], counter'[s]) \in Entries  BY <2>0, EntryType DEF Roles
    <3> QED BY <2>2, <3>1 DEF StartTurn, LogUser
  <2>3. CASE Call(s)
    <3>1. Entry("request", trip'[s], 0) \in Entries  BY <2>0, EntryType DEF Roles
    <3> QED BY <2>3, <3>1 DEF Call, LogRequest
  <2>4. CASE Report(s)
    <3>1. CASE todo[s] = <<>>  BY <2>4, <3>1 DEF Report
    <3>2. CASE todo[s] # <<>>
      <4>1. Head(todo[s]) \in Entries
        <5> HIDE DEF Entries
        <5>1. todo[s] \in Seq(Entries)  BY DEF LedgerTypes
        <5> QED BY <3>2, <5>1
      <4> QED BY <2>4, <3>2, <4>1 DEF Report
    <3> QED BY <3>1, <3>2
  <2>5. CASE LogAssistant(s)
    <3>1. CASE pc[s] = "replying"
      <4>1. todo[s][1] \in Entries
        <5> HIDE DEF Entries
        <5>1. todo[s] \in Seq(Entries) /\ Len(todo[s]) = 1
          BY <3>1 DEF LedgerTypes, LedgerOf, ToLog
        <5>2. 1 \in 1 .. Len(todo[s])  BY <5>1
        <5> QED BY <5>1, <5>2, ElementOfSeq
      <4> QED BY <2>5, <4>1 DEF LogAssistant
    <3>2. CASE pc[s] # "replying"  BY <2>5, <3>2 DEF LogAssistant, Move
    <3> QED BY <3>1, <3>2
  <2>6. CASE Close(s)
    <3>1. ClosingLine(s) \in Entries  BY <2>0, EntryType DEF ClosingLine, Roles
    <3> QED BY <2>6, <3>1 DEF Close
  <2>7. CASE \/ NewEngine(s) \/ ClearMessages(s) \/ LoadTranscript(s) \/ SaveRepaired(s)
             \/ LoadTurnCounter(s) \/ ListRunning(s) \/ BuildContext(s) \/ Answer(s) \/ CallFails(s)
             \/ Stopped(s) \/ SaveResumableState(s) \/ FinishTurn(s)
    BY <2>7 DEF NewEngine, ClearMessages, LoadTranscript, SaveRepaired, LoadTurnCounter, ListRunning,
       BuildContext, Answer, CallFails, Stopped, SaveResumableState, FinishTurn
  <2> QED BY <2>1, <2>2, <2>3, <2>4, <2>5, <2>6, <2>7 DEF SessionStep
<1>5. log' \in [Sessions -> Seq(Entries)] /\ lost' \in [Sessions -> Seq(Entries)]
  <2>1. CASE UNCHANGED <<log, lost>>  BY <2>1 DEF LedgerTypes
  <2>2. CASE \E e \in Entries : Write(s, e)
    <3>1. FileIsOpen(s) => lost[s] = <<>>  BY DEF LedgerOf, Balanced
    <3> QED BY <2>2, <3>1, SentGrows
  <2> QED BY <1>4, <2>1, <2>2
<1> QED BY <1>1, <1>2, <1>3, <1>5 DEF LedgerTypes

\* A scan lists rows that are there, and no row goes away.
LEMMA ListedStay ==
  ASSUME TypeInv, ListedHaveRows, [Next]_vars
  PROVE  ListedHaveRows' /\ \A t \in Sessions : Registered(t) => Registered(t)'
<1> USE DEF processVars, logVars, turnVars, rowVars, diskVars, others
<1>0. /\ status \in [Sessions -> {"none", "running", "completed", "interrupted"}]
      /\ list \in [Sessions -> SUBSET Sessions]
  BY DEF TypeInv, ScanOK
<1>1. \A t \in Sessions : status'[t] \in {status[t], "running", "completed", "interrupted"}
  <2>1. ASSUME NEW s \in Sessions, SessionStep(s)
        PROVE  \/ status' = status
               \/ \E x \in {"running", "completed"} : status' = [status EXCEPT ![s] = x]
    BY <2>1 DEF SessionStep, NewEngine, ClearMessages, LoadTranscript, SaveRepaired,
       LoadTurnCounter, ListRunning, Register, BuildContext, StartTurn, Call, Answer, CallFails,
       Stopped, Report, LogAssistant, SaveResumableState, FinishTurn, Close, CloseStep,
       InsertSession, EndSession
  <2>2. ASSUME NEW s \in Sessions, NEW t \in Sessions, EndInterrupted(s, t)
        PROVE  status' = status \/ status' = [status EXCEPT ![t] = "interrupted"]
    BY <2>2 DEF EndInterrupted, EndSession
  <2>3. ASSUME \/ \E p \in Processes : Crash(p)
               \/ UNCHANGED vars
        PROVE  status' = status
    BY <2>3 DEF Crash, vars
  <2>4. \/ status' = status
        \/ \E s \in Sessions, x \in {"running", "completed", "interrupted"} :
             status' = [status EXCEPT ![s] = x]
    BY <2>1, <2>2, <2>3 DEF Next
  <2> QED BY <1>0, <2>4
<1>2. \A t \in Sessions : Registered(t) => Registered(t)'  BY <1>1 DEF Registered
<1>3. \A s \in Sessions : \A t \in list'[s] : t \in list[s] \/ Registered(t)
  <2>1. ASSUME NEW s \in Sessions, ListRunning(s)
        PROVE  list' = [list EXCEPT ![s] = IF DbIsOpen(s) THEN Running ELSE {}]
    BY <2>1 DEF ListRunning
  <2>2. \A t \in Running : Registered(t)  BY DEF Running, Registered
  <2>3. ASSUME NEW s \in Sessions, NEW t \in Sessions, EndInterrupted(s, t)
        PROVE  list' = [list EXCEPT ![s] = list[s] \ {t}]
    BY <2>3 DEF EndInterrupted
  <2>4. ASSUME NEW s \in Sessions, SessionStep(s), ~ListRunning(s)
        PROVE  list' = list
    BY <2>4 DEF SessionStep, NewEngine, ClearMessages, LoadTranscript, SaveRepaired,
       LoadTurnCounter, Register, BuildContext, StartTurn, Call, Answer, CallFails,
       Stopped, Report, LogAssistant, SaveResumableState, FinishTurn, Close, CloseStep
  <2>5. ASSUME \/ \E p \in Processes : Crash(p)
               \/ UNCHANGED vars
        PROVE  list' = list
    BY <2>5 DEF Crash, vars
  <2>6. \/ list' = list
        \/ \E s \in Sessions, x \in {{}, Running} : list' = [list EXCEPT ![s] = x]
        \/ \E s, t \in Sessions : list' = [list EXCEPT ![s] = list[s] \ {t}]
    BY <2>1, <2>3, <2>4, <2>5 DEF Next
  <2>7. CASE list' = list  BY <2>7
  <2>8. ASSUME NEW s \in Sessions, NEW x \in {{}, Running}, list' = [list EXCEPT ![s] = x]
        PROVE  \A u \in Sessions : \A t \in list'[u] : t \in list[u] \/ Registered(t)
    BY <1>0, <2>2, <2>8
  <2>9. ASSUME NEW s \in Sessions, NEW t \in Sessions, list' = [list EXCEPT ![s] = list[s] \ {t}]
        PROVE  \A u \in Sessions : \A r \in list'[u] : r \in list[u] \/ Registered(r)
    BY <1>0, <2>9
  <2> QED BY <2>6, <2>7, <2>8, <2>9
<1>4. ListedHaveRows'
  <2> SUFFICES ASSUME NEW s \in Sessions, NEW t \in list'[s] PROVE Registered(t)'
    BY DEF ListedHaveRows
  <2>1. t \in Sessions
    <3>1. list'[s] \subseteq Sessions
      <4>1. \A r \in list'[s] : r \in list[s] \/ Registered(r)  BY <1>3
      <4> QED BY NextTypes DEF TypeInv, ScanOK
    <3> QED BY <3>1
  <2> QED BY <1>2, <1>3, <2>1 DEF ListedHaveRows
<1> QED BY <1>2, <1>4

\* Every step keeps the ledgers.
LEMMA NextKeepsLedgers == TypeInv /\ LedgerInv /\ [Next]_vars => LedgerInv'
<1> SUFFICES ASSUME TypeInv, LedgerInv, [Next]_vars PROVE LedgerInv'  OBVIOUS
<1>0. situation' = situation /\ TypeInv'  BY SituationStays, NextTypes
<1>1. LedgerTypes /\ ListedHaveRows /\ \A s \in Sessions : LedgerOf(s)  BY DEF LedgerInv
<1>2. ListedHaveRows'  BY <1>1, ListedStay
<1>3. ASSUME NEW s \in Sessions, SessionStep(s) PROVE LedgerInv'
  <2>1. LedgerTypes'  BY <1>0, <1>1, <1>3, LedgerTypesStay
  <2>2. LedgerOf(s)'  BY <1>0, <1>1, <1>3, OwnLedger
  <2>3. \A u \in Sessions \ {s} : LedgerOf(u)'  BY <1>0, <1>1, <1>3, OthersStay
  <2> QED BY <1>2, <2>1, <2>2, <2>3 DEF LedgerInv
<1>4. ASSUME \/ \E s, t \in Sessions : EndInterrupted(s, t)
             \/ \E p \in Processes : Crash(p)
             \/ UNCHANGED vars
      PROVE  LedgerInv'
  <2>1. UNCHANGED <<pc, closing, log, lost, todo, trip, counter, spent, totals, billed, checkpoint, task>>
    BY <1>4 DEF EndInterrupted, Crash, vars, logVars, turnVars, rowVars
  <2>2. \A u \in Sessions : Registered(u)' <=> Registered(u)
    <3>1. CASE status' = status  BY <3>1 DEF Registered
    <3>2. ASSUME NEW s \in Sessions, NEW t \in Sessions, EndInterrupted(s, t)
          PROVE  \A u \in Sessions : Registered(u)' <=> Registered(u)
      <4>1. Registered(t)  BY <1>1, <3>2 DEF EndInterrupted, ListedHaveRows
      <4>2. status' = status \/ status' = [status EXCEPT ![t] = "interrupted"]
        BY <3>2 DEF EndInterrupted, EndSession
      <4>3. status \in [Sessions -> {"none", "running", "completed", "interrupted"}]
        BY DEF TypeInv, ScanOK
      <4> QED BY <4>1, <4>2, <4>3 DEF Registered
    <3>3. status' = status \/ \E s, t \in Sessions : EndInterrupted(s, t)
      BY <1>4 DEF Crash, vars, rowVars
    <3> QED BY <3>1, <3>2, <3>3
  <2>3. \A u \in Sessions : LedgerOf(u)'
    <3> TAKE u \in Sessions
    <3>1. LedgerOf(u) /\ (Registered(u)' <=> Registered(u))  BY <1>1, <2>2
    <3>2. /\ pc'[u] = pc[u] /\ closing'[u] = closing[u] /\ log'[u] = log[u] /\ lost'[u] = lost[u]
          /\ todo'[u] = todo[u] /\ trip'[u] = trip[u] /\ counter'[u] = counter[u]
          /\ spent'[u] = spent[u] /\ totals'[u] = totals[u] /\ billed'[u] = billed[u]
          /\ checkpoint'[u] = checkpoint[u] /\ task'[u] = task[u]
      BY <2>1
    <3> QED BY <1>0, <3>1, <3>2, StandsStill
  <2>4. LedgerTypes'  BY <1>1, <2>1 DEF LedgerTypes
  <2> QED BY <1>2, <2>3, <2>4 DEF LedgerInv
<1> QED BY <1>3, <1>4 DEF Next

\* What the ledgers say of the sums and of the task.
LEMMA LedgersAgree == TypeInv /\ LedgerInv => TotalsAgree /\ TaskIsFirst
<1> SUFFICES ASSUME TypeInv, LedgerInv PROVE TotalsAgree /\ TaskIsFirst  OBVIOUS
<1>1. TaskIsFirst  BY DEF LedgerInv, LedgerOf, OnlyAnthropic, TaskFirst, TaskIsFirst
<1>2. ASSUME NEW s \in Sessions
      PROVE  /\ LogstackUsage(Sent(s)) + Pending(s) = totals[s]
             /\ checkpoint[s].used = UsageUpTo(Sent(s), checkpoint[s].turn)
             /\ pc[s] = "idle" => billed[s] = totals[s]
             /\ \A e \in ToSet(log[s]) :
                  (e.role = "system" /\ e.used > 0 /\ ~situation.overlap) =>
                    e.used = TimelineUsage(log[s])
  <2>0. /\ LedgerOf(s) /\ log[s] \in Seq(Entries) /\ lost[s] \in Seq(Entries)
        /\ billed[s] \in Nat /\ totals[s] \in Nat
    BY DEF LedgerInv, LedgerTypes, TypeInv, CountOK
  <2>1. LogstackUsage(Sent(s)) + Pending(s) = totals[s]
    BY <2>0 DEF LedgerOf, Balanced, Spoken, LogstackUsage
  <2>2. checkpoint[s].used = UsageUpTo(Sent(s), checkpoint[s].turn)  BY <2>0 DEF LedgerOf, Balanced
  <2>3. pc[s] = "idle" => billed[s] = totals[s]
    <3>1. pc[s] = "idle" => totals[s] = billed[s] + 0  BY <2>0 DEF LedgerOf, Balanced, CountedPcs
    <3> QED BY <2>0, <3>1
  <2>4. ASSUME NEW e \in ToSet(log[s]), e.role = "system", e.used > 0, ~situation.overlap
        PROVE  e.used = TimelineUsage(log[s])
    <3>1. ClosedLast(s)  BY <2>0, <2>4 DEF LedgerOf
    <3>2. PICK i \in DOMAIN log[s] : log[s][i] = e  BY DEF ToSet
    <3>3. closing[s].at # "open" /\ e.used = closing[s].used  BY <2>4, <3>1, <3>2 DEF ClosedLast
    <3>4. e.used = totals[s] /\ pc[s] = "idle"  BY <3>1, <3>3 DEF ClosedLast
    <3>5. Sent(s) = log[s]
      <4>1. lost[s] = <<>>  BY <3>1 DEF ClosedLast
      <4> QED BY <2>0, <4>1, ConcatEmptySeq DEF Sent
    <3>6. UsageOf(log[s], {"assistant"}) \in Nat  BY <2>0, UsageFacts
    <3>7. UsageOf(log[s], {"assistant"}) + 0 = totals[s]
      BY <2>1, <3>4, <3>5 DEF LogstackUsage, Pending
    <3> QED BY <3>4, <3>6, <3>7 DEF TimelineUsage
  <2> QED BY <2>1, <2>2, <2>3, <2>4
<1>3. TotalsAgree  BY <1>2 DEF TotalsAgree, Sent
<1> QED BY <1>1, <1>3

\* Before anything is logged everything is nothing.
LEMMA EmptyLedgers == Init => LedgerInv
<1> SUFFICES ASSUME Init PROVE LedgerInv  OBVIOUS
<1>1. LedgerTypes
  <2>1. <<>> \in Seq(Entries)  OBVIOUS
  <2>2. [turn |-> 0, used |-> 0] \in [turn : Nat, used : Nat]  OBVIOUS
  <2> QED BY <2>1, <2>2 DEF Init, LedgerTypes
<1>2. ListedHaveRows  BY DEF Init, ListedHaveRows
<1>3. ASSUME NEW s \in Sessions PROVE LedgerOf(s)
  <2>1. /\ pc[s] = "unborn" /\ status[s] = "none" /\ log[s] = <<>> /\ lost[s] = <<>>
        /\ checkpoint[s] = [turn |-> 0, used |-> 0] /\ closing[s].at = "open" /\ counter[s] = 0
        /\ totals[s] = 0 /\ billed[s] = 0 /\ trip[s] = 0
    BY DEF Init
  <2>2. Sent(s) = <<>> /\ <<>> \in Seq(Entries) /\ DOMAIN <<>> = {}
    <3>1. <<>> \in Seq(Entries)  OBVIOUS
    <3>2. <<>> \o <<>> = <<>>  BY <3>1, ConcatEmptySeq
    <3> QED BY <2>1, <3>1, <3>2 DEF Sent
  <2>3. UsageOf(<<>>, {"assistant"}) = 0 /\ UsageUpTo(<<>>, 0) = 0
    <3>1. UsageOf(<<>>, {"assistant"}) = 0
      <4> DEFINE a == [i \in DOMAIN <<>> |-> IF <<>>[i].role \in {"assistant"} THEN <<>>[i].used ELSE 0]
      <4>1. a = <<>>  BY <2>2
      <4>2. <<>> \in Seq(Nat)  OBVIOUS
      <4>3. SumOf(<<>>) = 0  BY <4>2, SumType
      <4>4. UsageOf(<<>>, {"assistant"}) = SumOf(a)  BY DEF UsageOf
      <4> HIDE DEF a
      <4> QED BY <4>1, <4>3, <4>4
    <3>2. UsageUpTo(<<>>, 0) = UsageOf(<<>>, {"assistant"})
      <4>1. \A i \in DOMAIN <<>> : <<>>[i].role = "assistant" => <<>>[i].id <= 0  BY <2>2
      <4> QED BY <2>2, <4>1, UsageFacts
    <3> QED BY <3>1, <3>2
  <2>4. HasRow(s)  BY <2>1 DEF HasRow, Registered, ReplyPcs, CountedPcs
  <2>5. ToLog(s)  BY <2>1 DEF ToLog
  <2>6. Balanced(s)  BY <2>1, <2>2, <2>3 DEF Balanced, Spoken, Pending, CountedPcs
  <2>7. Dated(s)  BY <2>1, <2>2 DEF Dated, ReplyPcs
  <2>8. ClosedLast(s)  BY <2>1, <2>2 DEF ClosedLast
  <2>9. TaskFirst(s)  BY <2>1, <2>2 DEF TaskFirst
  <2> QED BY <2>4, <2>5, <2>6, <2>7, <2>8, <2>9 DEF LedgerOf
<1> QED BY <1>1, <1>2, <1>3 DEF LedgerInv

\* However a session is closed, cut off or resumed, everybody who adds up what it
\* used arrives at the same number, every answer has its row, and the task is what
\* was asked before the first request.
THEOREM UsageCountedOnce == Spec => []UsageIsCountedOnce
<1>1. TypeInv /\ LedgerInv /\ AnswersHaveRows => UsageIsCountedOnce
  BY LedgersAgree DEF UsageIsCountedOnce, RowsHoldTheirCalls
<1> QED BY <1>1, LogTypes, EmptyLedgers, NextKeepsLedgers, AnswersGetTheirRows, PTL DEF Spec

=============================================================================
