----------------------- MODULE SessionLifecycleProofs -----------------------
(***************************************************************************)
(* Theorems about SessionLifecycle, for any number of calls, any cap, any  *)
(* number of sweeps, failed writes and restarts, and any situations.       *)
(***************************************************************************)
EXTENDS SessionLifecycle, TLAPS

\* Where a job works with a session, and where an actor is closing one.
HoldingPcs == {"row", "loaded", "connected", "restarting", "persist"} \cup RowPcs \cup WritePcs
ClosingPcs == {"checking", "stopping", "closing"}

\* TypeOK in three parts: who is where and holds what, with what that takes;
\* what the sessions and the disk hold; and the tables and the history.
ControlInv ==
  /\ situation \in [ask: [Jobs -> Kinds], bridge: BOOLEAN, mcp: BOOLEAN] /\ up \in BOOLEAN
  /\ pc \in [Actors -> Pcs] /\ pc[Reaper] \in {"idle", "collected", "stopping", "closing", "deleting"}
  /\ held \in [Jobs -> Jobs \cup {None}] /\ victim \in [Actors -> Jobs \cup {None}]
  /\ live \in Jobs \cup {None} /\ keyLock \in Jobs \cup {None}
  /\ \A r \in Jobs : pc[r] \in HoldingPcs => held[r] \in Jobs
  /\ \A a \in Actors : pc[a] \in ClosingPcs => victim[a] \in Jobs
ContentInv ==
  /\ content \in [Jobs -> Records] /\ snap \in [Jobs -> Records]
  /\ disk \in Records /\ settled \in Records /\ billed \in Nat
SessionInv ==
  /\ mu \in [Jobs -> Jobs \cup {None}]
  /\ engine \in [Jobs -> {"unborn", "open", "closed"}]
  /\ status \in [Jobs -> {"Idle", "Running", "Completed", "Error"}]
  /\ servers \in [Jobs -> {"none", "running", "stopped"}]
  /\ onEvent \in [Jobs -> SUBSET Jobs] /\ hooks \in [Jobs -> SUBSET Jobs]
  /\ saved \in [Jobs -> SUBSET Jobs] /\ rewired \subseteq Jobs
TableInv ==
  /\ torn \subseteq Files
  /\ outcome \in [Jobs -> {"none", "ok", "text", "nothing"}]
  /\ rows \in [Jobs -> {"none", "running", "completed", "error", "interrupted", "deleted"}]
  /\ overlap \in BOOLEAN /\ reaped \subseteq Jobs
  /\ faults \in Nat /\ crashes \in Nat /\ sweeps \in Nat
TypeInv == ControlInv /\ ContentInv /\ SessionInv /\ TableInv

\* Where only a run is, where it does not hold the key's lock, where a job has
\* not looked for a session yet, and where it has not built one.
RunPcs     == {"wantLock", "releasing", "checking", "row", "leave"} \cup RowPcs
OutsidePcs == {"start", "wantLock", "done", "dead"}
EarlyPcs   == {"start", "wantLock", "releasing", "checking", "getting", "building", "storing"}
UnbuiltPcs == {"start", "wantLock", "releasing", "checking", "getting", "building", "restarting"}

\* A session not in the map yet, and one the race for the map was lost by.
Unstored(s) ==
  \/ engine[s] = "unborn" \/ pc[s] = "storing"
  \/ pc[s] \in {"stopping", "closing"} /\ victim[s] = s

\* A job closes the session it built and lost the race with, for another; or,
\* with the lock and before it has built any, the one it took from the map.
ClosingInv(r) ==
  pc[r] \in {"stopping", "closing"} =>
    \/ victim[r] = r /\ held[r] # None
    \/ victim[r] # r /\ held[r] = None /\ IsRun(r) /\ engine[r] = "unborn"

JobInv(r) ==
  /\ pc[r] \in RunPcs => IsRun(r)
  /\ IsRun(r) /\ pc[r] \notin OutsidePcs => keyLock = r
  /\ pc[r] \in EarlyPcs => held[r] = None
  /\ pc[r] \in UnbuiltPcs => engine[r] = "unborn"
  /\ pc[r] = "storing" => engine[r] = "open"
  /\ pc[r] = "restarting" => ~IsRun(r)
  /\ ClosingInv(r)

\* The session a run works with is closed only by the reaper, and the one a
\* resume restarts the servers of only when somebody noted that it left.
WorkInv(r) ==
  /\ IsRun(r) /\ pc[r] \in {"row", "stopping", "closing"} \cup RowPcs /\ held[r] # None =>
       engine[held[r]] # "closed" \/ held[r] \in reaped
  /\ pc[r] = "restarting" => engine[held[r]] = "open" \/ overlap

\* Who is running belongs to a turn; who is unstored is nobody's.
SessionsInv(s) ==
  /\ status[s] = "Running" => \E r \in Jobs : pc[r] \in TurnPcs /\ held[r] = s
  /\ Unstored(s) => /\ live # s
                    /\ \A r \in Jobs : held[r] # s
                    /\ \A a \in Actors : a # s /\ pc[a] \in ClosingPcs => victim[a] # s

CloserInv(a) ==
  pc[a] \in ClosingPcs =>
    /\ victim[a] # live
    /\ engine[victim[a]] # "unborn"
    /\ \A r \in Jobs : pc[r] = "restarting" /\ held[r] = victim[a] => overlap

LiveInv == live # None => engine[live] = "open"

\* The inductive invariant: whatever has been built is in the map, on its way
\* into it, or in the hands of exactly one closer.
LifeInv ==
  /\ \A r \in Jobs : JobInv(r) /\ WorkInv(r)
  /\ \A s \in Jobs : SessionsInv(s)
  /\ \A a \in Actors : CloserInv(a)
  /\ LiveInv
  /\ NoEngineLeaks
  /\ ServersStopWithTheirSession

\* Who runs, or is about to, is listened to, or somebody took the callback away.
StreamInv ==
  \A r \in Jobs :
    pc[r] \in {"row", "begin", "stopping", "closing"} \cup TurnPcs /\ IsRun(r) /\ held[r] # None =>
      \/ held[r] \in rewired
      \/ r \in onEvent[held[r]] /\ (pc[r] \in TurnPcs => r \in hooks[held[r]])

\* A fresh run has emptied the map, which only a resume can have filled since,
\* and what it builds is empty until its turn.
FreshInv(r) ==
  /\ pc[r] = "building" => snap[r].messages = {}
  /\ pc[r] = "storing" => content[r].messages = {}
  /\ pc[r] \in {"checking", "stopping", "closing", "getting", "building", "storing"} =>
       live = None \/ Ask(live) = "resume"
  /\ pc[r] \in {"stopping", "closing", "row", "begin"} \cup TurnPcs /\ held[r] # None =>
       \/ held[r] = r /\ content[r].messages \subseteq {r}
       \/ Ask(held[r]) = "resume"
FreshnessInv ==
  \A r \in Jobs :
    /\ pc[r] \in {"getting", "building", "storing", "restarting"} => IsRun(r) \/ Ask(r) = "resume"
    /\ Ask(r) = "fresh" => FreshInv(r)

LEMMA TypeInvIsEnough == TypeInv => TypeOK
  BY DEF TypeInv, ControlInv, ContentInv, SessionInv, TableInv, TypeOK

USE DEF Actors, HoldingPcs, ClosingPcs, WritePcs, TurnPcs, RowPcs, Files

-----------------------------------------------------------------------------
(* Types.                                                                  *)

\* What a session without a record is built with is a record.
LEMMA NothingIsARecord == NothingRecorded \in Records
  BY DEF NothingRecorded, Records

\* The types hold before the first call.
LEMMA TypeInit == Init => TypeInv
<1> SUFFICES ASSUME Init PROVE TypeInv  OBVIOUS
<1> USE LifecycleAssumption DEF Init
<1>1. ControlInv
  <2>1. {"idle", "start"} \subseteq Pcs  BY DEF Pcs
  <2> QED BY <2>1 DEF ControlInv
<1>2. ContentInv  BY NothingIsARecord DEF ContentInv
<1>3. SessionInv  BY DEF SessionInv
<1>4. TableInv  BY DEF TableInv
<1> QED BY <1>1, <1>2, <1>3, <1>4 DEF TypeInv

\* A job that moves moves alone, and to a place there is.
LEMMA JobMoves ==
  ASSUME ControlInv, NEW r \in Jobs, NEW from, NEW to \in Pcs, Move(r, from, to)
  PROVE  /\ pc' \in [Actors -> Pcs]
         /\ up /\ pc[r] = from /\ pc'[r] = to
         /\ pc'[Reaper] = pc[Reaper]
         /\ \A b \in Actors : b # r => pc'[b] = pc[b]
  BY LifecycleAssumption DEF Move, ControlInv

\* A call that ends holds nothing.
LEMMA JobRetires ==
  ASSUME ControlInv, NEW r \in Jobs, NEW from, Retire(r, from)
  PROVE  /\ pc' \in [Actors -> Pcs]
         /\ up /\ pc[r] = from /\ pc'[r] = "done"
         /\ pc'[Reaper] = pc[Reaper]
         /\ \A b \in Actors : b # r => pc'[b] = pc[b]
         /\ held' = [held EXCEPT ![r] = None]
         /\ snap' = [snap EXCEPT ![r] = NothingRecorded]
<1>1. Move(r, from, "done") /\ "done" \in Pcs  BY DEF Retire, Pcs
<1> QED BY <1>1, JobMoves DEF Retire

\* Where a session is built, put into the map, taken out of it or closed, or
\* its servers are replaced.
LoudPcs == {"checking", "stopping", "closing", "building", "storing", "restarting"}

\* Every other step of a job: it moves between places where none of this goes
\* on, works with the same session, with none or with the one in the map, and
\* has a session running only where its turn is.
Quiet(r, to) ==
  /\ up /\ UNCHANGED <<situation, up, live, engine, servers, victim, overlap, reaped>>
  /\ pc' = [pc EXCEPT ![r] = to] /\ to \in Pcs \ LoudPcs /\ pc[r] \notin LoudPcs
  /\ \/ keyLock' = keyLock
     \/ keyLock = r /\ keyLock' = None
     \/ keyLock = None /\ keyLock' = r
  /\ \/ held' = held
     \/ held' = [held EXCEPT ![r] = None]
     \/ live # None /\ held' = [held EXCEPT ![r] = live]
  /\ to \in HoldingPcs => held'[r] \in Jobs
  /\ to \in RunPcs => IsRun(r)
  /\ IsRun(r) /\ to \notin OutsidePcs => keyLock' = r
  /\ to \in EarlyPcs => held'[r] = None
  /\ to \in UnbuiltPcs => pc[r] \in UnbuiltPcs
  /\ to \in {"row"} \cup RowPcs =>
       \/ held'[r] = live
       \/ held' = held /\ pc[r] \in {"row"} \cup RowPcs
  /\ \A s \in Jobs : status'[s] = "Running" =>
       \/ to \in TurnPcs /\ held'[r] = s
       \/ status[s] = "Running" /\ (pc[r] \in TurnPcs => held[r] # s)

\* A quiet step keeps the types of control.
LEMMA QuietKeepsControl ==
  ASSUME ControlInv, NEW r \in Jobs, NEW to, Quiet(r, to)
  PROVE  ControlInv'
<1>1. r # Reaper /\ r \in Actors  BY LifecycleAssumption
<1>2. /\ pc' \in [Actors -> Pcs] /\ pc'[Reaper] = pc[Reaper] /\ pc'[r] = to
      /\ \A b \in Actors : b # r => pc'[b] = pc[b]
  BY <1>1, LifecycleAssumption DEF Quiet, ControlInv
<1>3. /\ held' \in [Jobs -> Jobs \cup {None}] /\ keyLock' \in Jobs \cup {None}
      /\ \A b \in Jobs : b # r => held'[b] = held[b]
  BY DEF Quiet, ControlInv
<1>4. to \notin ClosingPcs  BY DEF Quiet, LoudPcs
<1>5. \A b \in Jobs : pc'[b] \in HoldingPcs => held'[b] \in Jobs
  BY <1>2, <1>3 DEF Quiet, ControlInv
<1>6. \A a \in Actors : pc'[a] \in ClosingPcs => victim'[a] \in Jobs
  BY <1>2, <1>4 DEF Quiet, ControlInv
<1> QED BY <1>2, <1>3, <1>5, <1>6 DEF Quiet, ControlInv

\* A quiet step keeps the invariant.
LEMMA QuietKeepsLife ==
  ASSUME ControlInv, SessionInv, LifeInv, NEW r \in Jobs, NEW to, Quiet(r, to)
  PROVE  LifeInv'
<1>1. /\ r # Reaper /\ r \in Actors /\ pc'[r] = to /\ None \notin Jobs
      /\ \A b \in Actors : b # r => pc'[b] = pc[b]
      /\ \A b \in Jobs : b # r => held'[b] = held[b]
      /\ pc[r] \notin LoudPcs /\ to \notin LoudPcs
      /\ UNCHANGED <<live, engine, servers, victim, overlap, reaped>>
      /\ \A b \in Jobs : b # r /\ keyLock = b => keyLock' = b
      /\ keyLock # None /\ keyLock # r => keyLock' = keyLock
  BY LifecycleAssumption DEF Quiet, ControlInv
<1>2. \A b \in Jobs : IsRun(b)' <=> IsRun(b)  BY DEF Quiet, IsRun, Ask
<1>3. ASSUME NEW b \in Jobs PROVE JobInv(b)'
  <2>1. JobInv(b)  BY DEF LifeInv
  <2>2. CASE b = r
    <3>1. /\ to \in RunPcs => IsRun(r)
          /\ IsRun(r) /\ to \notin OutsidePcs => keyLock' = r
          /\ to \in EarlyPcs => held'[r] = None
          /\ to \in UnbuiltPcs => pc[r] \in UnbuiltPcs
      BY DEF Quiet
    <3>2. ClosingInv(r)' /\ to \notin {"storing", "restarting"}  BY <1>1 DEF ClosingInv, LoudPcs
    <3> QED BY <1>1, <1>2, <2>1, <2>2, <3>1, <3>2 DEF JobInv
  <2>3. CASE b # r
    <3>1. pc'[b] = pc[b] /\ held'[b] = held[b]  BY <1>1, <2>3
    <3>2. ClosingInv(b)' <=> ClosingInv(b)  BY <1>1, <1>2, <3>1 DEF ClosingInv
    <3> QED BY <1>1, <1>2, <2>1, <2>3, <3>1, <3>2 DEF JobInv
  <2> QED BY <2>2, <2>3
<1>4. ASSUME NEW b \in Jobs PROVE WorkInv(b)'
  <2>1. WorkInv(b)  BY DEF LifeInv
  <2>2. CASE b = r
    <3>1. to \in {"row"} \cup RowPcs =>
            \/ held'[r] = live
            \/ held' = held /\ pc[r] \in {"row"} \cup RowPcs
      BY DEF Quiet
    <3>2. live # None => engine[live] # "closed"  BY DEF LifeInv, LiveInv
    <3> QED BY <1>1, <1>2, <2>1, <2>2, <3>1, <3>2 DEF WorkInv, LoudPcs
  <2>3. CASE b # r  BY <1>1, <1>2, <2>1, <2>3 DEF WorkInv
  <2> QED BY <2>2, <2>3
<1>5. ASSUME NEW s \in Jobs PROVE SessionsInv(s)'
  <2>1. SessionsInv(s)  BY DEF LifeInv
  <2>2. ASSUME status'[s] = "Running" PROVE \E b \in Jobs : pc'[b] \in TurnPcs /\ held'[b] = s
    <3>1. CASE to \in TurnPcs /\ held'[r] = s  BY <1>1, <3>1
    <3>2. CASE status[s] = "Running" /\ (pc[r] \in TurnPcs => held[r] # s)
      <4>1. PICK b \in Jobs : pc[b] \in TurnPcs /\ held[b] = s  BY <2>1, <3>2 DEF SessionsInv
      <4>2. b # r  BY <3>2, <4>1
      <4> QED BY <1>1, <4>1, <4>2
    <3> QED BY <2>2, <3>1, <3>2 DEF Quiet
  <2>3. Unstored(s)' => Unstored(s)  BY <1>1 DEF Unstored, LoudPcs
  <2>4. ASSUME Unstored(s)' PROVE live # s /\ \A b \in Jobs : held'[b] # s
    <3>1. live # s /\ \A b \in Jobs : held[b] # s  BY <2>1, <2>3, <2>4 DEF SessionsInv
    <3>2. held'[r] \in {held[r], None, live}  BY DEF Quiet, ControlInv
    <3> QED BY <1>1, <3>1, <3>2
  <2>5. Unstored(s)' => \A a \in Actors : a # s /\ pc'[a] \in ClosingPcs => victim[a] # s
    BY <1>1, <2>1, <2>3 DEF SessionsInv, LoudPcs
  <2> QED BY <1>1, <2>2, <2>4, <2>5 DEF SessionsInv
<1>6. ASSUME NEW a \in Actors PROVE CloserInv(a)'
  <2>1. CloserInv(a)  BY DEF LifeInv
  <2>2. pc'[a] \in ClosingPcs => pc[a] = pc'[a]  BY <1>1 DEF LoudPcs
  <2>3. \A b \in Jobs : pc'[b] = "restarting" => pc[b] = "restarting" /\ held'[b] = held[b]
    BY <1>1 DEF LoudPcs
  <2> QED BY <1>1, <2>1, <2>2, <2>3 DEF CloserInv
<1>7. LiveInv' /\ NoEngineLeaks' /\ ServersStopWithTheirSession'
  <2>1. LiveInv /\ NoEngineLeaks /\ ServersStopWithTheirSession  BY DEF LifeInv
  <2>2. LiveInv'  BY <1>1, <2>1 DEF LiveInv
  <2>3. NoEngineLeaks'  BY <1>1, <2>1 DEF NoEngineLeaks, LoudPcs
  <2>4. ServersStopWithTheirSession'  BY <1>1, <2>1 DEF ServersStopWithTheirSession, LoudPcs
  <2> QED BY <2>2, <2>3, <2>4
<1> QED BY <1>3, <1>4, <1>5, <1>6, <1>7 DEF LifeInv
-----------------------------------------------------------------------------
(* The quiet steps.                                                        *)

\* What a quiet step leaves alone.
still == <<situation, up, live, engine, servers, victim, overlap, reaped>>

\* The end of a call is quiet, unless it is in the middle of a loud one.
LEMMA RetiringIsQuiet ==
  ASSUME ControlInv, NEW r \in Jobs, NEW from, Retire(r, from), UNCHANGED still,
         from \notin LoudPcs \cup TurnPcs,
         keyLock' = keyLock \/ (keyLock = r /\ keyLock' = None),
         \A s \in Jobs : status'[s] = "Running" => status[s] = "Running"
  PROVE  Quiet(r, "done")
<1>1. /\ up /\ up' = up /\ pc[r] = from /\ pc' = [pc EXCEPT ![r] = "done"]
      /\ held' = [held EXCEPT ![r] = None]
  BY DEF Retire, Move, still
<1>2. "done" \in Pcs \ LoudPcs /\ "done" \notin HoldingPcs \cup RunPcs \cup EarlyPcs \cup UnbuiltPcs
      /\ "done" \in OutsidePcs /\ "done" \notin TurnPcs
  BY DEF Pcs, LoudPcs, RunPcs, EarlyPcs, UnbuiltPcs, OutsidePcs
<1> QED BY <1>1, <1>2 DEF Quiet, still

\* A job that moves on and works with what it worked with is quiet.
LEMMA MovingIsQuiet ==
  ASSUME ControlInv, NEW r \in Jobs, NEW from, NEW to \in Pcs, Move(r, from, to),
         UNCHANGED still, UNCHANGED <<held, keyLock>>,
         from \notin LoudPcs, to \notin LoudPcs,
         to \in HoldingPcs => held[r] \in Jobs,
         to \in RunPcs => IsRun(r),
         IsRun(r) /\ to \notin OutsidePcs => keyLock = r,
         to \in EarlyPcs => held[r] = None,
         to \in UnbuiltPcs => from \in UnbuiltPcs,
         to \in {"row"} \cup RowPcs => from \in {"row"} \cup RowPcs,
         \A s \in Jobs : status'[s] = "Running" =>
           \/ to \in TurnPcs /\ held[r] = s
           \/ status[s] = "Running" /\ (from \in TurnPcs => held[r] # s)
  PROVE  Quiet(r, to)
<1>1. up /\ up' = up /\ pc[r] = from /\ pc' = [pc EXCEPT ![r] = to]
  BY DEF Move, still
<1> QED BY <1>1 DEF Quiet, still

\* A job that finds a session in the map is quiet.
LEMMA FindingIsQuiet ==
  ASSUME ControlInv, NEW r \in Jobs, NEW from, NEW to \in {"row", "loaded"}, Move(r, from, to),
         UNCHANGED still, UNCHANGED <<keyLock, status>>,
         from \notin LoudPcs \cup TurnPcs, live # None, held' = [held EXCEPT ![r] = live],
         to = "row" => IsRun(r), IsRun(r) => keyLock = r
  PROVE  Quiet(r, to)
<1>1. up /\ up' = up /\ pc[r] = from /\ pc' = [pc EXCEPT ![r] = to]
  BY DEF Move, still
<1>2. held'[r] = live /\ live \in Jobs  BY DEF ControlInv
<1>3. to \in Pcs \ LoudPcs /\ to \notin EarlyPcs \cup UnbuiltPcs \cup TurnPcs
      /\ (to \in RunPcs => to = "row")
  BY DEF Pcs, LockedPcs, LoudPcs, RunPcs, EarlyPcs, UnbuiltPcs
<1> QED BY <1>1, <1>2, <1>3 DEF Quiet, still

\* Within its request a run holds the key's lock and a session.
LEMMA RunAtWork ==
  ASSUME ControlInv, LifeInv, NEW r \in Jobs, pc[r] \in {"row"} \cup RowPcs
  PROVE  IsRun(r) /\ keyLock = r /\ held[r] \in Jobs
<1>1. JobInv(r)  BY DEF LifeInv
<1>2. pc[r] \in RunPcs /\ pc[r] \notin OutsidePcs /\ pc[r] \in HoldingPcs
  BY DEF RunPcs, OutsidePcs
<1> QED BY <1>1, <1>2 DEF JobInv, ControlInv

\* So its steps there are quiet.
LEMMA WorkingIsQuiet ==
  ASSUME ControlInv, LifeInv, NEW r \in Jobs, NEW from \in {"row"} \cup RowPcs,
         NEW to \in RowPcs \cup {"persist", "leave"}, Move(r, from, to),
         UNCHANGED still, UNCHANGED <<held, keyLock>>,
         \A s \in Jobs : status'[s] = "Running" =>
           \/ to \in TurnPcs /\ held[r] = s
           \/ status[s] = "Running" /\ (from \in TurnPcs => held[r] # s)
  PROVE  Quiet(r, to)
<1>1. pc[r] = from  BY DEF Move
<1>2. IsRun(r) /\ keyLock = r /\ held[r] \in Jobs  BY <1>1, RunAtWork
<1>3. to \in Pcs /\ to \notin LoudPcs \cup EarlyPcs \cup UnbuiltPcs /\ from \notin LoudPcs
  BY DEF Pcs, LockedPcs, LoudPcs, EarlyPcs, UnbuiltPcs
<1> QED BY <1>2, <1>3, MovingIsQuiet

\* The turn and its request, from the row to the end.
LEMMA TurnIsQuiet ==
  ASSUME ControlInv, SessionInv, LifeInv, NEW r \in Jobs,
         \/ CreateRequest(r) \/ BeginTurn(r) \/ CountTurn(r) \/ TurnAnswers(r)
         \/ TurnFails(r) \/ MarkError(r) \/ EndTurn(r) \/ SettleRequest(r)
  PROVE  \E to \in Pcs : Quiet(r, to)
<1> USE DEF ends, locks, engines, callbacks
<1> DEFINE Unmoved == UNCHANGED still /\ UNCHANGED <<held, keyLock>>
<1>a. \A to \in RowPcs \cup {"persist", "leave"} : to \in Pcs  BY DEF Pcs, LockedPcs
<1>t. status \in [Jobs -> {"Idle", "Running", "Completed", "Error"}]  BY DEF SessionInv
<1>1. CASE CreateRequest(r)
  <2>1. Move(r, "row", "begin") /\ Unmoved /\ status' = status  BY <1>1 DEF CreateRequest, still
  <2> QED BY <1>a, <2>1, WorkingIsQuiet
<1>2. CASE BeginTurn(r)
  <2>1. /\ Move(r, "begin", "counting") /\ Unmoved
        /\ status' = [status EXCEPT ![held[r]] = "Running"]
    BY <1>2 DEF BeginTurn, still
  <2>2. \A s \in Jobs : status'[s] = "Running" => held[r] = s \/ status[s] = "Running"
    BY <1>t, <2>1
  <2>3. Quiet(r, "counting")  BY <2>1, <2>2, WorkingIsQuiet
  <2> QED BY <1>a, <2>3
<1>3. CASE CountTurn(r)
  <2>1. PICK to \in {"failing", "working"} :
          Move(r, "counting", to) /\ Unmoved /\ status' = status
    BY <1>3 DEF CountTurn, still
  <2>2. \A s \in Jobs : held[r] = s \/ held[r] # s  OBVIOUS
  <2>3. Quiet(r, to)  BY <2>1, <2>2, WorkingIsQuiet
  <2> QED BY <1>a, <2>3
<1>4. CASE TurnAnswers(r)
  <2>1. Move(r, "working", "ending") /\ Unmoved /\ status' = status
    BY <1>4 DEF TurnAnswers, still
  <2>2. Quiet(r, "ending")  BY <2>1, WorkingIsQuiet
  <2> QED BY <1>a, <2>2
<1>5. CASE TurnFails(r)
  <2>1. Move(r, "working", "failing") /\ Unmoved /\ status' = status
    BY <1>5 DEF TurnFails, still
  <2>2. Quiet(r, "failing")  BY <2>1, WorkingIsQuiet
  <2> QED BY <1>a, <2>2
<1>6. CASE MarkError(r)
  <2>1. /\ Move(r, "failing", "ending") /\ Unmoved
        /\ status' = [status EXCEPT ![held[r]] = "Error"]
    BY <1>6 DEF MarkError, still
  <2>2. \A s \in Jobs : status'[s] = "Running" => status[s] = "Running"  BY <1>t, <2>1
  <2>3. Quiet(r, "ending")  BY <2>1, <2>2, WorkingIsQuiet
  <2> QED BY <1>a, <2>3
<1>7. CASE EndTurn(r)
  <2>1. /\ Move(r, "ending", "settle") /\ Unmoved
        /\ status' = [status EXCEPT ![held[r]] = "Idle"]
    BY <1>7 DEF EndTurn, still
  <2>2. \A s \in Jobs : status'[s] = "Running" => status[s] = "Running" /\ held[r] # s
    BY <1>t, <2>1
  <2>3. Quiet(r, "settle")  BY <2>1, <2>2, WorkingIsQuiet
  <2> QED BY <1>a, <2>3
<1>8. CASE SettleRequest(r)
  <2>1. PICK to \in {"persist", "leave"} : Move(r, "settle", to) /\ Unmoved /\ status' = status
    BY <1>8 DEF SettleRequest, still
  <2>2. Quiet(r, to)  BY <2>1, WorkingIsQuiet
  <2> QED BY <1>a, <2>2
<1> QED BY <1>1, <1>2, <1>3, <1>4, <1>5, <1>6, <1>7, <1>8
\* Arriving, queueing, looking for a session and not building one.
LEMMA SearchIsQuiet ==
  ASSUME ControlInv, SessionInv, LifeInv, NEW r \in Jobs,
         \/ Inject(r) \/ Enqueue(r) \/ TakeKeyLock(r) \/ Leave(r)
         \/ FindLive(r) \/ ResumeLive(r)
         \/ ReleaseSession(r) /\ live = None
         \/ ReadTranscript(r) /\ servers' = servers /\ pc'[r] # "building"
  PROVE  \E to \in Pcs : Quiet(r, to)
<1> USE DEF ends, locks, engines, callbacks
<1> DEFINE Unmoved == UNCHANGED still /\ UNCHANGED <<held, keyLock>>
<1>a. {"done", "wantLock", "releasing", "getting", "leave", "row"} \subseteq Pcs
  BY DEF Pcs, LockedPcs
<1>j. JobInv(r)  BY DEF LifeInv
<1>p. pc \in [Actors -> Pcs] /\ r \in Actors  BY DEF ControlInv
<1> USE DEF OutsidePcs, RunPcs, EarlyPcs, UnbuiltPcs, LoudPcs
<1>1. CASE Inject(r)
  <2>1. Retire(r, "start") /\ UNCHANGED still /\ status' = status /\ keyLock' = keyLock
    BY <1>1 DEF Inject, still
  <2>2. Quiet(r, "done")  BY <2>1, RetiringIsQuiet
  <2> QED BY <1>a, <2>2
<1>2. CASE Enqueue(r)
  <2>1. Move(r, "start", "wantLock") /\ Unmoved /\ status' = status /\ IsRun(r)
    BY <1>2 DEF Enqueue, still
  <2>2. held[r] = None  BY <1>j, <2>1 DEF JobInv, Move
  <2>3. Quiet(r, "wantLock")  BY <1>a, <2>1, <2>2, MovingIsQuiet
  <2> QED BY <1>a, <2>3
<1>3. CASE TakeKeyLock(r)
  <2>1. PICK to \in {"releasing", "getting"} :
          /\ Move(r, "wantLock", to)
          /\ UNCHANGED still /\ held' = held /\ status' = status
          /\ keyLock = None /\ keyLock' = r
    BY <1>3 DEF TakeKeyLock, still
  <2>2. IsRun(r) /\ held[r] = None  BY <1>j, <2>1 DEF JobInv, Move
  <2>3. up /\ up' = up /\ pc[r] = "wantLock" /\ pc' = [pc EXCEPT ![r] = to]
    BY <2>1 DEF Move, still
  <2>4. Quiet(r, to)  BY <1>a, <2>1, <2>2, <2>3 DEF Quiet, still
  <2> QED BY <1>a, <2>4
<1>4. CASE Leave(r)
  <2>1. Retire(r, "leave") /\ UNCHANGED still /\ status' = status /\ keyLock' = None
    BY <1>4 DEF Leave, still
  <2>2. keyLock = r  BY <1>j, <2>1 DEF JobInv, Retire, Move
  <2>3. Quiet(r, "done")  BY <2>1, <2>2, RetiringIsQuiet
  <2> QED BY <1>a, <2>3
<1>5. CASE FindLive(r)
  <2>1. /\ Move(r, "getting", "row") /\ UNCHANGED still /\ UNCHANGED <<keyLock, status>>
        /\ IsRun(r) /\ live # None /\ held' = [held EXCEPT ![r] = live]
    BY <1>5 DEF FindLive, still
  <2>2. keyLock = r  BY <1>j, <2>1 DEF JobInv, Move
  <2>3. Quiet(r, "row")  BY <2>1, <2>2, FindingIsQuiet
  <2> QED BY <1>a, <2>3
<1>6. CASE ResumeLive(r)
  <2>1. Retire(r, "getting") /\ UNCHANGED still /\ status' = status /\ keyLock' = keyLock
    BY <1>6 DEF ResumeLive, still
  <2>2. Quiet(r, "done")  BY <2>1, RetiringIsQuiet
  <2> QED BY <1>a, <2>2
<1>7. CASE ReleaseSession(r) /\ live = None
  <2>1. Move(r, "releasing", "getting") /\ Unmoved /\ status' = status
    BY <1>7 DEF ReleaseSession, still
  <2>2. held[r] = None /\ (IsRun(r) => keyLock = r)  BY <1>j, <2>1 DEF JobInv, Move
  <2>3. Quiet(r, "getting")  BY <1>a, <2>1, <2>2, MovingIsQuiet
  <2> QED BY <1>a, <2>3
<1>8. CASE ReadTranscript(r) /\ servers' = servers /\ pc'[r] # "building"
  <2>1. /\ Unbuilt(r, "getting") /\ UNCHANGED still /\ keyLock' = keyLock /\ status' = status
    <3>1. Move(r, "getting", "building") => pc'[r] = "building"  BY <1>p DEF Move
    <3> QED BY <1>8, <3>1 DEF ReadTranscript, still
  <2>2. CASE IsRun(r)
    <3>1. Move(r, "getting", "leave") /\ Unmoved  BY <2>1, <2>2 DEF Unbuilt
    <3>2. keyLock = r  BY <1>j, <2>2, <3>1 DEF JobInv, Move
    <3>3. Quiet(r, "leave")  BY <1>a, <2>1, <2>2, <3>1, <3>2, MovingIsQuiet
    <3> QED BY <1>a, <3>3
  <2>3. CASE ~IsRun(r)
    <3>1. Retire(r, "getting")  BY <2>1, <2>3 DEF Unbuilt
    <3>2. Quiet(r, "done")  BY <2>1, <3>1, RetiringIsQuiet
    <3> QED BY <1>a, <3>2
  <2> QED BY <2>2, <2>3
<1> QED BY <1>1, <1>2, <1>3, <1>4, <1>5, <1>6, <1>7, <1>8

\* Persisting, and the calls that do not queue.
LEMMA CallsAreQuiet ==
  ASSUME ControlInv, SessionInv, LifeInv, NEW r \in Jobs,
         \/ Persist(r) \/ (\E f \in Files : WriteFile(r, f))
         \/ LoadSession(r) \/ Interrupt(r) \/ Stop(r) \/ Compact(r) \/ Configure(r)
         \/ Subscribe(r) \/ Unsubscribe(r)
         \/ ResumeArrives(r) /\ held' = held
  PROVE  \E to \in Pcs : Quiet(r, to)
<1> USE DEF ends, locks, engines, callbacks
<1> DEFINE Unmoved == UNCHANGED still /\ UNCHANGED <<held, keyLock>>
<1>a. {"done", "messages", "counter", "guard", "disabled", "leave", "loaded", "connected",
       "persist", "getting"} \subseteq Pcs
  BY DEF Pcs, LockedPcs
<1>j. JobInv(r)  BY DEF LifeInv
<1>h. pc[r] \in HoldingPcs => held[r] \in Jobs  BY DEF ControlInv
<1>t. status \in [Jobs -> {"Idle", "Running", "Completed", "Error"}]  BY DEF SessionInv
<1>k. pc[r] \notin OutsidePcs /\ IsRun(r) => keyLock = r  BY <1>j DEF JobInv
<1> USE DEF OutsidePcs, RunPcs, EarlyPcs, UnbuiltPcs, LoudPcs
<1>1. CASE Persist(r)
  <2>1. Move(r, "persist", "messages") /\ Unmoved /\ status' = status
    BY <1>1 DEF Persist, Snapshot, still
  <2>2. pc[r] = "persist"  BY <2>1 DEF Move
  <2>3. Quiet(r, "messages")  BY <1>a, <1>h, <1>k, <2>1, <2>2, MovingIsQuiet
  <2> QED BY <1>a, <2>3
<1>2. ASSUME NEW f \in Files, WriteFile(r, f) PROVE \E to \in Pcs : Quiet(r, to)
  <2>1. pc[r] = f /\ UNCHANGED still /\ UNCHANGED <<keyLock, status>>
    BY <1>2 DEF WriteFile, still
  <2>2. CASE f \in DOMAIN NextWrite
    <3>1. f \in {"messages", "counter", "guard"} /\ NextWrite[f] \in {"counter", "guard", "disabled"}
      BY <2>2 DEF NextWrite
    <3>2. Move(r, f, NextWrite[f]) /\ held' = held  BY <1>2, <2>2 DEF WriteFile
    <3>3. Quiet(r, NextWrite[f])  BY <1>a, <1>h, <1>k, <2>1, <3>1, <3>2, MovingIsQuiet
    <3> QED BY <1>a, <3>1, <3>3
  <2>3. CASE f \notin DOMAIN NextWrite /\ IsRun(r)
    <3>1. Move(r, f, "leave") /\ held' = held  BY <1>2, <2>3 DEF WriteFile
    <3>2. Quiet(r, "leave")  BY <1>a, <1>h, <1>k, <2>1, <2>3, <3>1, MovingIsQuiet
    <3> QED BY <1>a, <3>2
  <2>4. CASE f \notin DOMAIN NextWrite /\ ~IsRun(r)
    <3>1. Retire(r, f)  BY <1>2, <2>4 DEF WriteFile
    <3>2. Quiet(r, "done")  BY <2>1, <3>1, RetiringIsQuiet
    <3> QED BY <1>a, <3>2
  <2> QED BY <2>2, <2>3, <2>4
<1>3. CASE LoadSession(r)
  <2>1. UNCHANGED still /\ UNCHANGED <<keyLock, status>> /\ ~IsRun(r)
    BY <1>3 DEF LoadSession, still, IsRun
  <2>2. CASE live = None
    <3>1. Retire(r, "start")  BY <1>3, <2>2 DEF LoadSession
    <3>2. Quiet(r, "done")  BY <2>1, <3>1, RetiringIsQuiet
    <3> QED BY <1>a, <3>2
  <2>3. CASE live # None
    <3>1. Move(r, "start", "loaded") /\ held' = [held EXCEPT ![r] = live]
      BY <1>3, <2>3 DEF LoadSession
    <3>2. Quiet(r, "loaded")  BY <2>1, <2>3, <3>1, FindingIsQuiet
    <3> QED BY <1>a, <3>2
  <2> QED BY <2>2, <2>3
<1>4. CASE Interrupt(r)
  <2>1. Move(r, "loaded", "persist") /\ Unmoved /\ status' = [status EXCEPT ![held[r]] = "Idle"]
    BY <1>4 DEF Interrupt, still
  <2>2. pc[r] = "loaded"  BY <2>1 DEF Move
  <2>3. \A s \in Jobs : status'[s] = "Running" => status[s] = "Running"  BY <1>t, <2>1
  <2>4. Quiet(r, "persist")  BY <1>a, <1>h, <1>k, <2>1, <2>2, <2>3, MovingIsQuiet
  <2> QED BY <1>a, <2>4
<1>5. CASE Stop(r)
  <2>1. /\ Retire(r, "loaded") /\ UNCHANGED still /\ keyLock' = keyLock
        /\ status' = [status EXCEPT ![held[r]] = "Completed"]
    BY <1>5 DEF Stop, still
  <2>2. \A s \in Jobs : status'[s] = "Running" => status[s] = "Running"  BY <1>t, <2>1
  <2>3. Quiet(r, "done")  BY <2>1, <2>2, RetiringIsQuiet
  <2> QED BY <1>a, <2>3
<1>6. CASE Compact(r)
  <2>1. pc[r] = "loaded" /\ UNCHANGED still /\ UNCHANGED <<keyLock, status>>
    BY <1>6 DEF Compact, still
  <2>2. Retire(r, "loaded") \/ (Move(r, "loaded", "messages") /\ held' = held)
    BY <1>6 DEF Compact, Snapshot
  <2>3. Retire(r, "loaded") => Quiet(r, "done")  BY <2>1, RetiringIsQuiet
  <2>4. Move(r, "loaded", "messages") /\ held' = held => Quiet(r, "messages")
    BY <1>a, <1>h, <1>k, <2>1, MovingIsQuiet
  <2> QED BY <1>a, <2>2, <2>3, <2>4
<1>7. CASE Configure(r)
  <2>1. Retire(r, "loaded") /\ UNCHANGED still /\ UNCHANGED <<keyLock, status>>
    BY <1>7 DEF Configure, still
  <2>2. Quiet(r, "done")  BY <2>1, RetiringIsQuiet
  <2> QED BY <1>a, <2>2
<1>8. CASE Subscribe(r)
  <2>1. Move(r, "loaded", "connected") /\ Unmoved /\ status' = status
    BY <1>8 DEF Subscribe, still
  <2>2. pc[r] = "loaded"  BY <2>1 DEF Move
  <2>3. Quiet(r, "connected")  BY <1>a, <1>h, <1>k, <2>1, <2>2, MovingIsQuiet
  <2> QED BY <1>a, <2>3
<1>9. CASE Unsubscribe(r)
  <2>1. Retire(r, "connected") /\ UNCHANGED still /\ UNCHANGED <<keyLock, status>>
    BY <1>9 DEF Unsubscribe, still
  <2>2. Quiet(r, "done")  BY <2>1, RetiringIsQuiet
  <2> QED BY <1>a, <2>2
<1>10. CASE ResumeArrives(r) /\ held' = held
  <2>1. UNCHANGED still /\ UNCHANGED <<keyLock, status>> /\ ~IsRun(r)
    BY <1>10 DEF ResumeArrives, still, IsRun
  <2>2. Move(r, "start", "getting")
    <3>1. live # None => live \in Jobs  BY DEF ControlInv
    <3>2. pc[r] = "start" => held[r] = None  BY <1>j DEF JobInv
    <3>3. held \in [Jobs -> Jobs \cup {None}]  BY DEF ControlInv
    <3>4. pc[r] = "start" /\ live # None => held' # [held EXCEPT ![r] = live]
      BY <1>10, <3>1, <3>2, <3>3
    <3>5. Move(r, "start", "restarting") => pc[r] = "start"  BY DEF Move
    <3> QED BY <1>10, <3>4, <3>5 DEF ResumeArrives
  <2>3. held[r] = None  BY <1>j, <2>2 DEF JobInv, Move
  <2>4. Quiet(r, "getting")  BY <1>a, <1>10, <2>1, <2>2, <2>3, MovingIsQuiet
  <2> QED BY <1>a, <2>4
<1> QED BY <1>1, <1>2, <1>3, <1>4, <1>5, <1>6, <1>7, <1>8, <1>9, <1>10
-----------------------------------------------------------------------------
(* The loud steps.                                                         *)

\* What others do leaves a job's invariant alone.
LEMMA JobUntouched ==
  ASSUME NEW b \in Jobs, JobInv(b), UNCHANGED <<situation, keyLock>>,
         pc'[b] = pc[b], held'[b] = held[b], victim'[b] = victim[b],
         engine'[b] = engine[b]
  PROVE  JobInv(b)'
<1>1. IsRun(b)' <=> IsRun(b)  BY DEF IsRun, Ask
<1>2. ClosingInv(b)' <=> ClosingInv(b)  BY <1>1 DEF ClosingInv
<1> QED BY <1>1, <1>2 DEF JobInv

\* An actor that moves moves alone, and to a place there is.
LEMMA ActorMoves ==
  ASSUME ControlInv, NEW a \in Actors, NEW from, NEW to \in Pcs, Move(a, from, to)
  PROVE  /\ pc' \in [Actors -> Pcs]
         /\ up /\ pc[a] = from /\ pc'[a] = to
         /\ \A b \in Actors : b # a => pc'[b] = pc[b]
  BY DEF Move, ControlInv

\* Whoever takes the session out of the map has it to close, and notes whose
\* hands it is in.
LEMMA TakingOutKeepsInv ==
  ASSUME ControlInv, SessionInv, LifeInv, NEW a \in Actors, NEW from, NEW to,
         live # None, TakeOut(a), Move(a, from, to),
         \/ a = Reaper /\ from = "collected" /\ to = "stopping"
         \/ a \in Jobs /\ from = "releasing" /\ to = "checking",
         UNCHANGED <<situation, up, held, keyLock, engine, status, servers, reaped>>
  PROVE  ControlInv' /\ LifeInv'
<1>1. to \in Pcs /\ from \notin HoldingPcs \cup ClosingPcs \cup {"storing", "building"}
      /\ to \in {"checking", "stopping"}
  BY DEF Pcs, LockedPcs
<1>2. /\ pc' \in [Actors -> Pcs] /\ pc[a] = from /\ pc'[a] = to
      /\ \A b \in Actors : b # a => pc'[b] = pc[b]
  BY <1>1, ActorMoves
<1>3. /\ victim' \in [Actors -> Jobs \cup {None}] /\ victim'[a] = live /\ live' = None
      /\ \A b \in Actors : b # a => victim'[b] = victim[b]
      /\ overlap => overlap'
      /\ live \in Jobs
      /\ \A b \in Jobs : b # a /\ held[b] = live => overlap'
  BY DEF TakeOut, ControlInv
<1>4. None \notin Jobs /\ Reaper \notin Jobs  BY LifecycleAssumption
<1>5. ControlInv'
  <2>1. pc'[Reaper] \in {"idle", "collected", "stopping", "closing", "deleting"}
    BY <1>2 DEF ControlInv
  <2>2. \A b \in Jobs : pc'[b] \in HoldingPcs => held[b] \in Jobs
    BY <1>1, <1>2 DEF ControlInv
  <2>3. \A b \in Actors : pc'[b] \in ClosingPcs => victim'[b] \in Jobs
    BY <1>2, <1>3 DEF ControlInv
  <2> QED BY <1>2, <1>3, <2>1, <2>2, <2>3 DEF ControlInv
<1>6. ASSUME NEW b \in Jobs PROVE JobInv(b)'
  <2>1. JobInv(b)  BY DEF LifeInv
  <2>2. CASE b # a  BY <1>2, <1>3, <2>1, <2>2, JobUntouched
  <2>3. CASE b = a
    <3>1. from = "releasing" /\ to = "checking"  BY <1>4, <2>3
    <3>2. IsRun(b)' <=> IsRun(b)  BY DEF IsRun, Ask
    <3>3. ClosingInv(b)'  BY <1>2, <2>3, <3>1 DEF ClosingInv
    <3> QED BY <1>2, <2>1, <2>3, <3>1, <3>2, <3>3
         DEF JobInv, RunPcs, OutsidePcs, EarlyPcs, UnbuiltPcs
  <2> QED BY <2>2, <2>3
<1>7. ASSUME NEW b \in Jobs PROVE WorkInv(b)'
  <2>1. WorkInv(b)  BY DEF LifeInv
  <2>2. IsRun(b)' <=> IsRun(b)  BY DEF IsRun, Ask
  <2>3. CASE b # a  BY <1>2, <1>3, <2>1, <2>2, <2>3 DEF WorkInv
  <2>4. CASE b = a
    <3>1. pc'[b] = "checking"  BY <1>2, <1>4, <2>4
    <3> QED BY <3>1 DEF WorkInv
  <2> QED BY <2>3, <2>4
<1>8. ASSUME NEW s \in Jobs PROVE SessionsInv(s)'
  <2>1. SessionsInv(s)  BY DEF LifeInv
  <2>2. \A b \in Jobs : pc[b] \in TurnPcs => pc'[b] = pc[b]  BY <1>1, <1>2
  <2>3. Unstored(s)' => Unstored(s)
    <3>1. CASE s # a  BY <1>2, <1>3, <3>1 DEF Unstored
    <3>2. CASE s = a
      <4>1. pc'[s] = "checking"  BY <1>2, <1>4, <3>2
      <4> QED BY <4>1 DEF Unstored
    <3> QED BY <3>1, <3>2
  <2>4. Unstored(s)' => \A b \in Actors : b # s /\ pc'[b] \in ClosingPcs => victim'[b] # s
    BY <1>2, <1>3, <2>1, <2>3 DEF SessionsInv
  <2> QED BY <1>3, <1>4, <2>1, <2>2, <2>3, <2>4 DEF SessionsInv
<1>9. ASSUME NEW b \in Actors PROVE CloserInv(b)'
  <2>1. CloserInv(b) /\ LiveInv  BY DEF LifeInv
  <2>2. \A c \in Jobs : pc'[c] = "restarting" => c # a /\ pc[c] = "restarting"
    BY <1>1, <1>2
  <2>3. CASE b # a
    <3>1. pc[b] \in ClosingPcs => victim[b] \in Jobs  BY DEF ControlInv
    <3> QED BY <1>2, <1>3, <1>4, <2>1, <2>2, <2>3, <3>1 DEF CloserInv
  <2>4. CASE b = a  BY <1>2, <1>3, <1>4, <2>1, <2>2, <2>4 DEF CloserInv, LiveInv
  <2> QED BY <2>3, <2>4
<1>10. LiveInv'  BY <1>3 DEF LiveInv
<1>11. NoEngineLeaks'
  <2> SUFFICES ASSUME NEW s \in Jobs, engine[s] = "open"
               PROVE  \/ pc'[s] = "storing"
                      \/ \E b \in Actors : victim'[b] = s /\ pc'[b] \in {"checking", "stopping", "closing"}
    BY DEF NoEngineLeaks
  <2>1. CASE live = s  BY <1>1, <1>2, <1>3, <2>1
  <2>2. CASE live # s
    <3>1. \/ pc[s] = "storing"
          \/ \E b \in Actors : victim[b] = s /\ pc[b] \in {"checking", "stopping", "closing"}
      BY <2>2 DEF LifeInv, NoEngineLeaks
    <3> QED BY <1>1, <1>2, <1>3, <3>1
  <2> QED BY <2>1, <2>2
<1>12. ServersStopWithTheirSession'
  <2>1. ServersStopWithTheirSession  BY DEF LifeInv
  <2> QED BY <1>1, <1>2, <1>3, <2>1 DEF ServersStopWithTheirSession
<1> QED BY <1>5, <1>6, <1>7, <1>8, <1>9, <1>10, <1>11, <1>12 DEF LifeInv

\* What releaseSession takes from the map is not running: a turn holds the
\* key's lock, and it holds it itself.
LEMMA CheckKeepsInv ==
  ASSUME ControlInv, SessionInv, LifeInv, NEW r \in Jobs, CheckNotRunning(r)
  PROVE  ControlInv' /\ LifeInv' /\ status[victim[r]] # "Running"
<1> USE DEF ends, locks, engines
<1>j. JobInv(r) /\ CloserInv(r)  BY DEF LifeInv, Actors
<1>1. pc[r] = "checking" /\ victim[r] \in Jobs /\ r # Reaper /\ r \in Actors
  BY LifecycleAssumption DEF CheckNotRunning, ControlInv
<1>2. status[victim[r]] # "Running"
  <2> SUFFICES ASSUME status[victim[r]] = "Running" PROVE FALSE  OBVIOUS
  <2>1. PICK b \in Jobs : pc[b] \in TurnPcs /\ held[b] = victim[r]
    BY <1>1 DEF LifeInv, SessionsInv
  <2>2. keyLock = b  BY <2>1, RunAtWork
  <2>3. keyLock = r  BY <1>1, <1>j DEF JobInv, RunPcs, OutsidePcs
  <2> QED BY <1>1, <2>1, <2>2, <2>3
<1>3. /\ Move(r, "checking", "stopping") /\ victim' = [victim EXCEPT ![r] = @]
      /\ UNCHANGED <<situation, up, held, live, keyLock, engine, status, servers, overlap, reaped>>
  BY <1>2 DEF CheckNotRunning
<1>4. victim' = victim  BY <1>3 DEF ControlInv
<1>5. /\ pc' \in [Actors -> Pcs] /\ pc'[r] = "stopping"
      /\ \A b \in Actors : b # r => pc'[b] = pc[b]
  <2>1. "stopping" \in Pcs  BY DEF Pcs
  <2> QED BY <1>1, <1>3, <2>1, ActorMoves
<1>6. ControlInv'  BY <1>1, <1>3, <1>4, <1>5 DEF ControlInv
<1>r. IsRun(r) /\ victim[r] # r /\ held[r] = None /\ engine[r] = "unborn" /\ keyLock = r
  BY <1>1, <1>j DEF JobInv, CloserInv, RunPcs, OutsidePcs, EarlyPcs, UnbuiltPcs
<1>7. ASSUME NEW b \in Jobs PROVE JobInv(b)'
  <2>1. JobInv(b)  BY DEF LifeInv
  <2>2. CASE b # r  BY <1>3, <1>4, <1>5, <2>1, <2>2, JobUntouched DEF Actors
  <2>3. CASE b = r
    <3>1. IsRun(b)' <=> IsRun(b)  BY <1>3 DEF IsRun, Ask
    <3> QED BY <1>3, <1>4, <1>5, <1>r, <2>3, <3>1
         DEF JobInv, ClosingInv, RunPcs, OutsidePcs, EarlyPcs, UnbuiltPcs
  <2> QED BY <2>2, <2>3
<1>8. ASSUME NEW b \in Jobs PROVE WorkInv(b)'
  <2>1. WorkInv(b)  BY DEF LifeInv
  <2>2. IsRun(b)' <=> IsRun(b)  BY <1>3 DEF IsRun, Ask
  <2> QED BY <1>3, <1>5, <1>r, <2>1, <2>2 DEF WorkInv
<1>9. ASSUME NEW s \in Jobs PROVE SessionsInv(s)'
  <2>1. SessionsInv(s)  BY DEF LifeInv
  <2>2. Unstored(s)' => Unstored(s)  BY <1>3, <1>4, <1>5, <1>r DEF Unstored
  <2>3. \A b \in Actors : pc'[b] \in ClosingPcs => pc[b] \in ClosingPcs  BY <1>1, <1>5
  <2>4. \A b \in Jobs : pc[b] \in TurnPcs => pc'[b] = pc[b]  BY <1>1, <1>5
  <2> QED BY <1>3, <1>4, <2>1, <2>2, <2>3, <2>4 DEF SessionsInv
<1>10. ASSUME NEW b \in Actors PROVE CloserInv(b)'
  <2>1. CloserInv(b)  BY DEF LifeInv
  <2> QED BY <1>1, <1>3, <1>4, <1>5, <2>1 DEF CloserInv
<1>11. LiveInv' /\ NoEngineLeaks' /\ ServersStopWithTheirSession'
  <2>1. LiveInv /\ NoEngineLeaks /\ ServersStopWithTheirSession  BY DEF LifeInv
  <2>2. LiveInv'  BY <1>3, <2>1 DEF LiveInv
  <2>3. NoEngineLeaks'  BY <1>1, <1>3, <1>4, <1>5, <2>1 DEF NoEngineLeaks
  <2>4. ServersStopWithTheirSession'  BY <1>1, <1>3, <1>5, <2>1 DEF ServersStopWithTheirSession
  <2> QED BY <2>2, <2>3, <2>4
<1> QED BY <1>2, <1>6, <1>7, <1>8, <1>9, <1>10, <1>11 DEF LifeInv
\* A session that is being closed has stopped.
LEMMA CloseStopsKeepsInv ==
  ASSUME ControlInv, SessionInv, LifeInv, NEW a \in Actors, CloseStops(a)
  PROVE  ControlInv' /\ LifeInv'
<1> USE DEF ends, locks, engines
<1>1. /\ Move(a, "stopping", "closing") /\ status' = [status EXCEPT ![victim[a]] = "Completed"]
      /\ UNCHANGED <<situation, up, held, live, keyLock, victim, engine, servers, overlap, reaped>>
  BY DEF CloseStops
<1>2. /\ pc' \in [Actors -> Pcs] /\ pc[a] = "stopping" /\ pc'[a] = "closing"
      /\ \A b \in Actors : b # a => pc'[b] = pc[b]
  <2>1. "closing" \in Pcs  BY DEF Pcs
  <2> QED BY <1>1, <2>1, ActorMoves
<1>3. \A s \in Jobs : status'[s] = "Running" => status[s] = "Running"
  BY <1>1 DEF SessionInv
<1>4. ControlInv'
  <2>1. pc'[Reaper] \in {"idle", "collected", "stopping", "closing", "deleting"}
    BY <1>2 DEF ControlInv
  <2>2. \A b \in Actors : pc'[b] \in HoldingPcs \cup ClosingPcs =>
          \/ pc[b] = pc'[b]
          \/ pc[b] \in ClosingPcs /\ pc'[b] \notin HoldingPcs
    BY <1>2
  <2> QED BY <1>1, <1>2, <2>1, <2>2 DEF ControlInv
<1>5. ASSUME NEW b \in Jobs PROVE JobInv(b)'
  <2>1. JobInv(b)  BY DEF LifeInv
  <2>2. CASE b # a  BY <1>1, <1>2, <2>1, <2>2, JobUntouched
  <2>3. CASE b = a
    <3>1. IsRun(b)' <=> IsRun(b)  BY <1>1 DEF IsRun, Ask
    <3> QED BY <1>1, <1>2, <2>1, <2>3, <3>1
         DEF JobInv, ClosingInv, RunPcs, OutsidePcs, EarlyPcs, UnbuiltPcs
  <2> QED BY <2>2, <2>3
<1>6. ASSUME NEW b \in Jobs PROVE WorkInv(b)'
  <2>1. WorkInv(b)  BY DEF LifeInv
  <2>2. IsRun(b)' <=> IsRun(b)  BY <1>1 DEF IsRun, Ask
  <2> QED BY <1>1, <1>2, <2>1, <2>2 DEF WorkInv
<1>7. ASSUME NEW s \in Jobs PROVE SessionsInv(s)'
  <2>1. SessionsInv(s)  BY DEF LifeInv
  <2>2. Unstored(s)' => Unstored(s)  BY <1>1, <1>2 DEF Unstored
  <2>3. \A b \in Actors : pc'[b] \in ClosingPcs => pc[b] \in ClosingPcs  BY <1>2
  <2>4. \A b \in Jobs : pc[b] \in TurnPcs => pc'[b] = pc[b]  BY <1>2
  <2> QED BY <1>1, <1>3, <2>1, <2>2, <2>3, <2>4 DEF SessionsInv
<1>8. ASSUME NEW b \in Actors PROVE CloserInv(b)'
  <2>1. CloserInv(b)  BY DEF LifeInv
  <2>2. \A c \in Jobs : pc'[c] = "restarting" => pc[c] = "restarting"  BY <1>2
  <2>3. pc'[b] \in ClosingPcs => pc[b] \in ClosingPcs  BY <1>2
  <2> QED BY <1>1, <2>1, <2>2, <2>3 DEF CloserInv
<1>9. LiveInv' /\ NoEngineLeaks' /\ ServersStopWithTheirSession'
  <2>1. LiveInv /\ NoEngineLeaks /\ ServersStopWithTheirSession  BY DEF LifeInv
  <2>2. LiveInv'  BY <1>1, <2>1 DEF LiveInv
  <2>3. NoEngineLeaks'  BY <1>1, <1>2, <2>1 DEF NoEngineLeaks
  <2>4. ServersStopWithTheirSession'  BY <1>1, <1>2, <2>1 DEF ServersStopWithTheirSession
  <2> QED BY <2>2, <2>3, <2>4
<1> QED BY <1>4, <1>5, <1>6, <1>7, <1>8, <1>9 DEF LifeInv

\* A close closes a session nobody works with, or one the reaper took.
LEMMA CloseEngineKeepsInv ==
  ASSUME ControlInv, SessionInv, LifeInv, NEW a \in Actors, CloseEngine(a)
  PROVE  ControlInv' /\ LifeInv'
<1> USE DEF ends, locks
<1> DEFINE v == victim[a]
           to == AfterClose(a)
<1>1. /\ Move(a, "closing", to)
      /\ engine' = [engine EXCEPT ![v] = "closed"]
      /\ servers' = [servers EXCEPT ![v] = IF @ = "running" THEN "stopped" ELSE @]
      /\ victim' = [victim EXCEPT ![a] = None]
      /\ held' = IF a \in Jobs /\ ~IsRun(a) THEN [held EXCEPT ![a] = None] ELSE held
      /\ reaped' = IF a = Reaper THEN reaped \cup {v} ELSE reaped
      /\ UNCHANGED <<situation, up, live, keyLock, status, overlap>>
  BY DEF CloseEngine
<1>n. None \notin Jobs /\ Reaper \notin Jobs  BY LifecycleAssumption
<1>2. /\ pc' \in [Actors -> Pcs] /\ pc[a] = "closing" /\ pc'[a] = to
      /\ \A b \in Actors : b # a => pc'[b] = pc[b]
  <2>1. to \in Pcs  BY DEF Pcs, LockedPcs, AfterClose
  <2> QED BY <1>1, <2>1, ActorMoves
<1>3. v \in Jobs /\ CloserInv(a)  BY <1>2 DEF ControlInv, LifeInv
<1>4. /\ engine'[v] = "closed" /\ servers'[v] # "running"
      /\ \A s \in Jobs : s # v => engine'[s] = engine[s] /\ servers'[s] = servers[s]
      /\ \A b \in Actors : b # a => victim'[b] = victim[b]
      /\ victim'[a] = None
      /\ \A b \in Jobs : b # a => held'[b] = held[b]
      /\ \A b \in Jobs : held'[b] \in {held[b], None}
      /\ held' \in [Jobs -> Jobs \cup {None}]
      /\ reaped \subseteq reaped'
  BY <1>1, <1>3, <1>n DEF ControlInv, SessionInv
<1>5. a \in Jobs => JobInv(a)  BY DEF LifeInv
<1>6. /\ a = Reaper => to = "deleting"
      /\ a \in Jobs /\ ~IsRun(a) => to = "done"
      /\ a \in Jobs /\ IsRun(a) /\ held[a] = None => to = "getting"
      /\ a \in Jobs /\ IsRun(a) /\ held[a] # None => to = "row"
  BY <1>n DEF AfterClose
<1>7. a \in Jobs /\ v # a => IsRun(a) /\ held[a] = None /\ engine[a] = "unborn" /\ keyLock = a
  BY <1>2, <1>5 DEF JobInv, ClosingInv, OutsidePcs
<1>8. a \in Jobs /\ v = a => held[a] # None /\ Unstored(a)
  BY <1>2, <1>5 DEF JobInv, ClosingInv, Unstored
<1>9. to \notin ClosingPcs \cup {"storing", "building", "restarting"}
  BY DEF AfterClose
<1>r. \A b \in Jobs : IsRun(b)' <=> IsRun(b)  BY <1>1 DEF IsRun, Ask
<1>c. ControlInv'
  <2>1. pc'[Reaper] \in {"idle", "collected", "stopping", "closing", "deleting"}
    <3>1. CASE a = Reaper  BY <1>2, <1>6, <3>1
    <3>2. CASE a # Reaper
      <4>1. Reaper \in Actors  OBVIOUS
      <4>2. pc'[Reaper] = pc[Reaper]  BY <1>2, <3>2, <4>1
      <4> QED BY <4>2 DEF ControlInv
    <3> QED BY <3>1, <3>2
  <2>2. ASSUME NEW b \in Jobs, pc'[b] \in HoldingPcs PROVE held'[b] \in Jobs
    <3>1. CASE b # a  BY <1>2, <1>4, <2>2, <3>1 DEF ControlInv
    <3>2. CASE b = a
      <4>1. IsRun(a) /\ held[a] # None  BY <1>2, <1>6, <2>2, <3>2
      <4>2. held'[a] = held[a]  BY <1>1, <3>2, <4>1
      <4> QED BY <3>2, <4>1, <4>2 DEF ControlInv
    <3> QED BY <3>1, <3>2
  <2>3. ASSUME NEW b \in Actors, pc'[b] \in ClosingPcs PROVE victim'[b] \in Jobs
    <3>1. b # a  BY <1>2, <1>9, <2>3
    <3> QED BY <1>2, <1>4, <2>3, <3>1 DEF ControlInv
  <2>4. victim' \in [Actors -> Jobs \cup {None}]  BY <1>1 DEF ControlInv
  <2> QED BY <1>1, <1>2, <1>4, <2>1, <2>2, <2>3, <2>4 DEF ControlInv
<1>10. ASSUME NEW b \in Jobs PROVE JobInv(b)'
  <2>1. JobInv(b)  BY DEF LifeInv
  <2>2. CASE b # a /\ b # v  BY <1>1, <1>2, <1>4, <2>1, <2>2, JobUntouched
  <2>3. CASE b # a /\ b = v
    <3>1. engine[b] # "unborn"  BY <1>2, <1>3, <2>3 DEF CloserInv
    <3>2. ~Unstored(b)
      <4>1. SessionsInv(b)  BY DEF LifeInv
      <4> QED BY <1>2, <2>3, <4>1 DEF SessionsInv
    <3>3. pc[b] \notin UnbuiltPcs /\ pc[b] # "storing"
      BY <2>1, <3>1, <3>2 DEF JobInv, Unstored
    <3>4. ClosingInv(b)'
      <4>1. ClosingInv(b)  BY <2>1 DEF JobInv
      <4> QED BY <1>2, <1>4, <1>r, <2>3, <3>1, <4>1 DEF ClosingInv
    <3> QED BY <1>1, <1>2, <1>4, <1>r, <2>1, <2>3, <3>3, <3>4 DEF JobInv
  <2>4. CASE b = a
    <3>1. ClosingInv(b)'  BY <1>2, <1>9, <2>4 DEF ClosingInv
    <3>2. CASE ~IsRun(a)
      <4>1. pc'[b] = "done"  BY <1>2, <1>6, <2>4, <3>2
      <4> QED BY <1>r, <2>4, <3>1, <3>2, <4>1
           DEF JobInv, RunPcs, OutsidePcs, EarlyPcs, UnbuiltPcs
    <3>3. CASE IsRun(a)
      <4>1. held'[a] = held[a] /\ keyLock = a /\ keyLock' = keyLock
        BY <1>1, <1>2, <2>1, <2>4, <3>3 DEF JobInv, OutsidePcs
      <4>2. CASE held[a] # None
        <5>1. pc'[b] = "row"  BY <1>2, <1>6, <2>4, <3>3, <4>2
        <5> QED BY <1>r, <2>4, <3>1, <3>3, <4>1, <5>1
             DEF JobInv, RunPcs, OutsidePcs, EarlyPcs, UnbuiltPcs
      <4>3. CASE held[a] = None
        <5>1. pc'[b] = "getting"  BY <1>2, <1>6, <2>4, <3>3, <4>3
        <5>2. v # a /\ engine[a] = "unborn"  BY <1>7, <1>8, <2>4, <4>3
        <5>3. engine'[a] = "unborn"  BY <1>4, <2>4, <5>2
        <5> QED BY <1>r, <2>4, <3>1, <3>3, <4>1, <4>3, <5>1, <5>3
             DEF JobInv, RunPcs, OutsidePcs, EarlyPcs, UnbuiltPcs
      <4> QED BY <4>2, <4>3
    <3> QED BY <3>2, <3>3
  <2> QED BY <2>2, <2>3, <2>4
<1>11. ASSUME NEW b \in Jobs PROVE WorkInv(b)'
  <2>1. WorkInv(b)  BY DEF LifeInv
  <2>2. ASSUME IsRun(b), pc'[b] \in {"row", "stopping", "closing"} \cup RowPcs, held'[b] # None
        PROVE  engine'[held[b]] # "closed" \/ held[b] \in reaped'
    <3>0. held'[b] = held[b] /\ held[b] \in Jobs  BY <1>4, <2>2 DEF ControlInv
    <3>1. pc[b] \in {"row", "stopping", "closing"} \cup RowPcs  BY <1>2, <2>2
    <3>2. engine[held[b]] # "closed" \/ held[b] \in reaped  BY <2>1, <2>2, <3>0, <3>1 DEF WorkInv
    <3>3. CASE held[b] # v  BY <1>4, <3>0, <3>2, <3>3
    <3>4. CASE held[b] = v /\ a = Reaper  BY <1>1, <3>4
    <3>5. CASE held[b] = v /\ a \in Jobs
      <4>1. v # a
        <5>1. SessionsInv(a)  BY <3>5 DEF LifeInv
        <5> QED BY <1>8, <3>5, <5>1 DEF SessionsInv
      <4>2. keyLock = b
        <5>1. JobInv(b)  BY DEF LifeInv
        <5> QED BY <2>2, <3>1, <5>1 DEF JobInv, OutsidePcs
      <4>3. b = a /\ held[a] = None  BY <1>7, <3>5, <4>1, <4>2
      <4> QED BY <2>2, <3>0, <4>3
    <3> QED BY <3>3, <3>4, <3>5
  <2>3. ASSUME pc'[b] = "restarting" PROVE engine'[held'[b]] = "open" \/ overlap
    <3>1. b # a /\ pc[b] = "restarting" /\ held'[b] = held[b]  BY <1>2, <1>4, <1>9, <2>3
    <3>2. held[b] \in Jobs  BY <3>1 DEF ControlInv
    <3>3. held[b] = v => overlap  BY <1>2, <1>3, <3>1 DEF CloserInv
    <3>4. engine[held[b]] = "open" \/ overlap  BY <2>1, <3>1 DEF WorkInv
    <3> QED BY <1>4, <3>1, <3>2, <3>3, <3>4
  <2>4. held'[b] # None => held'[b] = held[b]  BY <1>4
  <2> QED BY <1>1, <1>r, <2>2, <2>3, <2>4 DEF WorkInv
<1>12. ASSUME NEW s \in Jobs PROVE SessionsInv(s)'
  <2>1. SessionsInv(s)  BY DEF LifeInv
  <2>2. Unstored(s)' => Unstored(s)
    <3>1. CASE s # a  BY <1>2, <1>4, <3>1 DEF Unstored
    <3>2. CASE s = a  BY <1>2, <1>4, <1>9, <3>2 DEF Unstored
    <3> QED BY <3>1, <3>2
  <2>3. \A b \in Actors : pc'[b] \in ClosingPcs => b # a /\ pc[b] \in ClosingPcs  BY <1>2, <1>9
  <2>4. \A b \in Jobs : pc[b] \in TurnPcs => b # a /\ pc'[b] = pc[b]  BY <1>2
  <2>5. status'[s] = "Running" => \E b \in Jobs : pc'[b] \in TurnPcs /\ held'[b] = s
    BY <1>1, <1>4, <2>1, <2>4 DEF SessionsInv
  <2>6. Unstored(s)' => live' # s /\ \A b \in Jobs : held'[b] # s
    BY <1>1, <1>4, <1>n, <2>1, <2>2 DEF SessionsInv
  <2>7. Unstored(s)' => \A b \in Actors : b # s /\ pc'[b] \in ClosingPcs => victim'[b] # s
    BY <1>2, <1>4, <2>1, <2>2, <2>3 DEF SessionsInv
  <2> QED BY <2>5, <2>6, <2>7 DEF SessionsInv
<1>13. ASSUME NEW b \in Actors PROVE CloserInv(b)'
  <2>1. CloserInv(b)  BY DEF LifeInv
  <2>2. \A c \in Jobs : pc'[c] = "restarting" => pc[c] = "restarting" /\ held'[c] = held[c]
    BY <1>2, <1>4, <1>9
  <2>3. pc'[b] \in ClosingPcs => b # a /\ pc[b] = pc'[b] /\ victim'[b] = victim[b] /\ victim[b] \in Jobs
    BY <1>2, <1>4, <1>9 DEF ControlInv
  <2>4. \A s \in Jobs : engine[s] # "unborn" => engine'[s] # "unborn"  BY <1>4
  <2> QED BY <1>1, <2>1, <2>2, <2>3, <2>4 DEF CloserInv
<1>14. LiveInv'
  <2>1. live # v  BY <1>2, <1>3 DEF CloserInv
  <2> QED BY <1>1, <1>4, <2>1 DEF LifeInv, LiveInv, ControlInv
<1>15. NoEngineLeaks'
  <2> SUFFICES ASSUME NEW s \in Jobs, engine'[s] = "open"
               PROVE  \/ live = s \/ pc'[s] = "storing"
                      \/ \E b \in Actors : victim'[b] = s /\ pc'[b] \in {"checking", "stopping", "closing"}
    BY <1>1 DEF NoEngineLeaks
  <2>1. s # v /\ engine[s] = "open"  BY <1>4
  <2>2. \/ live = s \/ pc[s] = "storing"
        \/ \E b \in Actors : victim[b] = s /\ pc[b] \in {"checking", "stopping", "closing"}
    BY <2>1 DEF LifeInv, NoEngineLeaks
  <2>3. CASE pc[s] = "storing"  BY <1>2, <2>3
  <2>4. CASE \E b \in Actors : victim[b] = s /\ pc[b] \in {"checking", "stopping", "closing"}
    BY <1>2, <1>4, <2>1, <2>4
  <2> QED BY <2>2, <2>3, <2>4
<1>16. ServersStopWithTheirSession'
  <2> SUFFICES ASSUME NEW s \in Jobs, servers'[s] = "running"
               PROVE  engine'[s] = "open" \/ pc'[s] = "building" \/ overlap
    BY <1>1 DEF ServersStopWithTheirSession
  <2>1. s # v /\ engine'[s] = engine[s] /\ servers[s] = "running"  BY <1>4
  <2>2. pc[s] = "building" => pc'[s] = "building"  BY <1>2
  <2> QED BY <2>1, <2>2 DEF LifeInv, ServersStopWithTheirSession
<1> QED BY <1>c, <1>10, <1>11, <1>12, <1>13, <1>14, <1>15, <1>16 DEF LifeInv
\* A job that starts its servers has nothing else yet.
LEMMA ReadTranscriptKeepsInv ==
  ASSUME ControlInv, SessionInv, LifeInv, NEW r \in Jobs, ReadTranscript(r)
  PROVE  ControlInv' /\ LifeInv'
<1> USE DEF ends, locks
<1>p. r \in Actors /\ r # Reaper  BY LifecycleAssumption
<1>1. CASE servers' = servers /\ pc'[r] # "building"
  BY <1>1, SearchIsQuiet, QuietKeepsControl, QuietKeepsLife
<1>2. CASE ~(servers' = servers /\ pc'[r] # "building")
  <2>1. Move(r, "getting", "building") \/ (Unbuilt(r, "getting") /\ servers' = servers)
    BY DEF ReadTranscript
  <2>2. Unbuilt(r, "getting") => pc'[r] # "building"
    BY <1>p DEF Unbuilt, Retire, Move, ControlInv
  <2>3. /\ Move(r, "getting", "building") /\ held' = held
        /\ servers' = [servers EXCEPT ![r] = IF situation.mcp THEN "running" ELSE "none"]
        /\ UNCHANGED <<situation, up, live, keyLock, engine, status, victim, overlap, reaped>>
    BY <1>2, <2>2 DEF ReadTranscript
  <2>4. /\ pc' \in [Actors -> Pcs] /\ pc[r] = "getting" /\ pc'[r] = "building"
        /\ \A b \in Actors : b # r => pc'[b] = pc[b]
        /\ \A s \in Jobs : s # r => servers'[s] = servers[s]
    <3>1. "building" \in Pcs  BY DEF Pcs
    <3> QED BY <1>p, <2>3, <3>1, ActorMoves DEF SessionInv
  <2>5. ControlInv'  BY <1>p, <2>3, <2>4 DEF ControlInv
  <2>6. ASSUME NEW b \in Jobs PROVE JobInv(b)'
    <3>1. JobInv(b)  BY DEF LifeInv
    <3>2. CASE b # r  BY <2>3, <2>4, <3>1, <3>2, JobUntouched
    <3>3. CASE b = r
      <4>1. IsRun(b)' <=> IsRun(b)  BY <2>3 DEF IsRun, Ask
      <4> QED BY <2>3, <2>4, <3>1, <3>3, <4>1
           DEF JobInv, ClosingInv, RunPcs, OutsidePcs, EarlyPcs, UnbuiltPcs
    <3> QED BY <3>2, <3>3
  <2>7. ASSUME NEW b \in Jobs PROVE WorkInv(b)'
    <3>1. WorkInv(b) /\ (IsRun(b)' <=> IsRun(b))  BY <2>3 DEF LifeInv, IsRun, Ask
    <3> QED BY <2>3, <2>4, <3>1 DEF WorkInv
  <2>8. ASSUME NEW s \in Jobs PROVE SessionsInv(s)'
    <3>1. SessionsInv(s)  BY DEF LifeInv
    <3>2. Unstored(s)' => Unstored(s)  BY <2>3, <2>4 DEF Unstored
    <3>3. \A b \in Actors : pc'[b] \in ClosingPcs => pc[b] \in ClosingPcs  BY <2>4
    <3>4. \A b \in Jobs : pc[b] \in TurnPcs => pc'[b] = pc[b]  BY <2>4
    <3> QED BY <2>3, <3>1, <3>2, <3>3, <3>4 DEF SessionsInv
  <2>9. ASSUME NEW b \in Actors PROVE CloserInv(b)'
    <3>1. CloserInv(b)  BY DEF LifeInv
    <3> QED BY <2>3, <2>4, <3>1 DEF CloserInv
  <2>10. LiveInv' /\ NoEngineLeaks' /\ ServersStopWithTheirSession'
    <3>1. LiveInv /\ NoEngineLeaks /\ ServersStopWithTheirSession  BY DEF LifeInv
    <3>2. LiveInv'  BY <2>3, <3>1 DEF LiveInv
    <3>3. NoEngineLeaks'  BY <2>3, <2>4, <3>1 DEF NoEngineLeaks
    <3>4. ServersStopWithTheirSession'  BY <2>3, <2>4, <3>1 DEF ServersStopWithTheirSession
    <3> QED BY <3>2, <3>3, <3>4
  <2> QED BY <2>5, <2>6, <2>7, <2>8, <2>9, <2>10 DEF LifeInv
<1> QED BY <1>1, <1>2

\* A built session is its builder's until it stores it; what was not built has
\* nothing running.
LEMMA BuildKeepsInv ==
  ASSUME ControlInv, SessionInv, LifeInv, NEW r \in Jobs, BuildEngine(r)
  PROVE  ControlInv' /\ LifeInv'
<1> USE DEF ends, locks
<1>p. r \in Actors /\ r # Reaper  BY LifecycleAssumption
<1>n. None \notin Jobs  BY LifecycleAssumption
<1>0. UNCHANGED <<situation, up, live, keyLock, status, victim, overlap, reaped>>
  BY DEF BuildEngine
<1>r. \A b \in Jobs : IsRun(b)' <=> IsRun(b)  BY <1>0 DEF IsRun, Ask
<1>j. JobInv(r)  BY DEF LifeInv
<1>1. PICK to \in {"storing", "leave", "done"} :
        /\ Move(r, "building", to)
        /\ to = "leave" => IsRun(r)
        /\ held' = held \/ held' = [held EXCEPT ![r] = None]
        /\ engine' = IF to = "storing" THEN [engine EXCEPT ![r] = "open"] ELSE engine
        /\ servers' = IF to = "storing" THEN servers
                      ELSE [servers EXCEPT ![r] = IF @ = "running" THEN "stopped" ELSE @]
  <2>1. CASE Move(r, "building", "storing")
    <3>1. ~(Unbuilt(r, "building"))
      <4>1. Unbuilt(r, "building") => pc'[r] # "storing"
        BY <1>p DEF Unbuilt, Retire, Move, ControlInv
      <4>2. pc'[r] = "storing"  BY <1>p, <2>1 DEF Move, ControlInv
      <4> QED BY <4>1, <4>2
    <3> QED BY <2>1, <3>1 DEF BuildEngine
  <2>2. CASE ~Move(r, "building", "storing")
    <3>1. Unbuilt(r, "building")  BY <2>2 DEF BuildEngine
    <3>2. /\ servers' = [servers EXCEPT ![r] = IF @ = "running" THEN "stopped" ELSE @]
          /\ engine' = engine
      BY <2>2 DEF BuildEngine
    <3> QED BY <3>1, <3>2 DEF Unbuilt, Retire
  <2> QED BY <2>1, <2>2
<1>2. /\ pc' \in [Actors -> Pcs] /\ pc[r] = "building" /\ pc'[r] = to
      /\ \A b \in Actors : b # r => pc'[b] = pc[b]
  <2>1. to \in Pcs  BY DEF Pcs, LockedPcs
  <2> QED BY <1>p, <1>1, <2>1, ActorMoves
<1>3. held[r] = None /\ engine[r] = "unborn" /\ (IsRun(r) => keyLock = r)
  BY <1>j, <1>2 DEF JobInv, EarlyPcs, UnbuiltPcs, OutsidePcs
<1>4. held' = held  BY <1>1, <1>3 DEF ControlInv
<1>5. /\ \A s \in Jobs : s # r => engine'[s] = engine[s] /\ servers'[s] = servers[s]
      /\ to = "storing" => engine'[r] = "open"
      /\ to # "storing" => engine'[r] = "unborn" /\ servers'[r] # "running"
  BY <1>1, <1>3 DEF SessionInv
<1>6. Unstored(r)  BY <1>3 DEF Unstored
<1>7. /\ live # r /\ \A b \in Jobs : held[b] # r
      /\ \A b \in Actors : b # r /\ pc[b] \in ClosingPcs => victim[b] # r
  BY <1>6 DEF LifeInv, SessionsInv
<1>c. ControlInv'  BY <1>p, <1>0, <1>2, <1>4 DEF ControlInv
<1>8. ASSUME NEW b \in Jobs PROVE JobInv(b)'
  <2>1. JobInv(b)  BY DEF LifeInv
  <2>2. CASE b # r  BY <1>0, <1>2, <1>4, <1>5, <2>1, <2>2, JobUntouched
  <2>3. CASE b = r
    <3>1. ClosingInv(b)'  BY <1>2, <2>3 DEF ClosingInv
    <3> QED BY <1>0, <1>1, <1>2, <1>3, <1>4, <1>5, <1>r, <2>3, <3>1
         DEF JobInv, RunPcs, OutsidePcs, EarlyPcs, UnbuiltPcs
  <2> QED BY <2>2, <2>3
<1>9. ASSUME NEW b \in Jobs PROVE WorkInv(b)'
  <2>1. WorkInv(b)  BY DEF LifeInv
  <2>2. held[b] # r  BY <1>7
  <2>3. pc'[b] \in HoldingPcs \cup {"stopping", "closing"} => pc'[b] = pc[b]  BY <1>2
  <2>4. pc'[b] \in HoldingPcs => held[b] \in Jobs  BY <1>2 DEF ControlInv
  <2>5. held[b] # None => held[b] \in Jobs  BY DEF ControlInv
  <2> QED BY <1>0, <1>4, <1>5, <1>r, <2>1, <2>2, <2>3, <2>4, <2>5 DEF WorkInv
<1>10. ASSUME NEW s \in Jobs PROVE SessionsInv(s)'
  <2>1. SessionsInv(s)  BY DEF LifeInv
  <2>2. Unstored(s)' => Unstored(s)
    <3>1. CASE s # r  BY <1>0, <1>2, <1>5, <3>1 DEF Unstored
    <3>2. CASE s = r  BY <1>6, <3>2
    <3> QED BY <3>1, <3>2
  <2>3. \A b \in Actors : pc'[b] \in ClosingPcs => pc[b] \in ClosingPcs  BY <1>2
  <2>4. \A b \in Jobs : pc[b] \in TurnPcs => pc'[b] = pc[b]  BY <1>2
  <2> QED BY <1>0, <1>4, <2>1, <2>2, <2>3, <2>4 DEF SessionsInv
<1>11. ASSUME NEW b \in Actors PROVE CloserInv(b)'
  <2>1. CloserInv(b)  BY DEF LifeInv
  <2>2. \A c \in Jobs : pc'[c] = "restarting" => pc[c] = "restarting"  BY <1>2
  <2>3. pc'[b] \in ClosingPcs => b # r /\ pc[b] \in ClosingPcs /\ victim[b] \in Jobs
    BY <1>2 DEF ControlInv
  <2> QED BY <1>0, <1>4, <1>5, <1>7, <2>1, <2>2, <2>3 DEF CloserInv
<1>12. LiveInv'
  BY <1>0, <1>5, <1>7 DEF LifeInv, LiveInv, ControlInv
<1>13. NoEngineLeaks'
  <2> SUFFICES ASSUME NEW s \in Jobs, engine'[s] = "open"
               PROVE  \/ live = s \/ pc'[s] = "storing"
                      \/ \E b \in Actors : victim[b] = s /\ pc'[b] \in {"checking", "stopping", "closing"}
    BY <1>0 DEF NoEngineLeaks
  <2>1. CASE s = r  BY <1>1, <1>2, <1>5, <2>1
  <2>2. CASE s # r
    <3>1. engine[s] = "open" /\ pc'[s] = pc[s]  BY <1>2, <1>5, <2>2
    <3>2. \/ live = s \/ pc[s] = "storing"
          \/ \E b \in Actors : victim[b] = s /\ pc[b] \in {"checking", "stopping", "closing"}
      BY <3>1 DEF LifeInv, NoEngineLeaks
    <3> QED BY <1>2, <3>1, <3>2
  <2> QED BY <2>1, <2>2
<1>14. ServersStopWithTheirSession'
  <2> SUFFICES ASSUME NEW s \in Jobs, servers'[s] = "running"
               PROVE  engine'[s] = "open" \/ pc'[s] = "building" \/ overlap
    BY <1>0 DEF ServersStopWithTheirSession
  <2>1. CASE s = r  BY <1>5, <2>1
  <2>2. CASE s # r  BY <1>2, <1>5, <2>2 DEF LifeInv, ServersStopWithTheirSession
  <2> QED BY <2>1, <2>2
<1> QED BY <1>c, <1>8, <1>9, <1>10, <1>11, <1>12, <1>13, <1>14 DEF LifeInv
\* The winner's session is in the map; the loser closes its own, which nobody
\* has seen, and works with the winner's.
LEMMA StoreKeepsInv ==
  ASSUME ControlInv, SessionInv, LifeInv, NEW r \in Jobs, StoreSession(r)
  PROVE  ControlInv' /\ LifeInv'
<1> USE DEF ends, locks, engines
<1>p. r \in Actors /\ r # Reaper /\ None \notin Jobs  BY LifecycleAssumption
<1>0. UNCHANGED <<situation, up, keyLock, engine, servers, status, overlap, reaped>>
  BY DEF StoreSession
<1>r. \A b \in Jobs : IsRun(b)' <=> IsRun(b)  BY <1>0 DEF IsRun, Ask
<1>1. PICK to \in {"row", "done", "stopping"} :
        /\ Move(r, "storing", to)
        /\ to = "row" => IsRun(r)
        /\ to = "done" => ~IsRun(r)
        /\ to # "stopping" => /\ live = None /\ live' = r /\ victim' = victim
                              /\ held' = [held EXCEPT ![r] = IF IsRun(r) THEN r ELSE None]
        /\ to = "stopping" => /\ live # None /\ live' = live
                              /\ victim' = [victim EXCEPT ![r] = r]
                              /\ held' = [held EXCEPT ![r] = live]
  <2>1. CASE live = None
    <3>1. /\ live' = r /\ victim' = victim
          /\ Move(r, "storing", IF IsRun(r) THEN "row" ELSE "done")
          /\ held' = [held EXCEPT ![r] = IF IsRun(r) THEN r ELSE None]
      BY <2>1 DEF StoreSession
    <3> QED BY <2>1, <3>1
  <2>2. CASE live # None
    <3>1. /\ live' = live /\ victim' = [victim EXCEPT ![r] = r]
          /\ Move(r, "storing", "stopping")
          /\ held' = [held EXCEPT ![r] = live]
      BY <2>2 DEF StoreSession
    <3> QED BY <2>2, <3>1
  <2> QED BY <2>1, <2>2
<1>2. /\ pc' \in [Actors -> Pcs] /\ pc[r] = "storing" /\ pc'[r] = to
      /\ \A b \in Actors : b # r => pc'[b] = pc[b]
  <2>1. to \in Pcs  BY DEF Pcs, LockedPcs
  <2> QED BY <1>p, <1>1, <2>1, ActorMoves
<1>3. JobInv(r)  BY DEF LifeInv
<1>4. held[r] = None /\ engine[r] = "open" /\ (IsRun(r) => keyLock = r)
  BY <1>2, <1>3 DEF JobInv, EarlyPcs, OutsidePcs
<1>5. /\ live # r /\ \A b \in Jobs : held[b] # r
      /\ \A b \in Actors : b # r /\ pc[b] \in ClosingPcs => victim[b] # r
  <2>1. Unstored(r)  BY <1>2 DEF Unstored
  <2> QED BY <2>1 DEF LifeInv, SessionsInv
<1>6. /\ held' \in [Jobs -> Jobs \cup {None}] /\ victim' \in [Actors -> Jobs \cup {None}]
      /\ \A b \in Jobs : b # r => held'[b] = held[b]
      /\ \A b \in Actors : b # r => victim'[b] = victim[b]
      /\ to = "row" => held'[r] = r
      /\ to = "done" => held'[r] = None
      /\ to = "stopping" => held'[r] = live /\ victim'[r] = r /\ live \in Jobs
      /\ live' \in Jobs /\ (live' = live \/ (live = None /\ live' = r /\ to # "stopping"))
  BY <1>p, <1>1 DEF ControlInv
<1>c. ControlInv'
  <2>1. pc'[Reaper] \in {"idle", "collected", "stopping", "closing", "deleting"}
    BY <1>p, <1>2 DEF ControlInv
  <2>2. \A b \in Jobs : pc'[b] \in HoldingPcs => held'[b] \in Jobs
    BY <1>2, <1>6 DEF ControlInv
  <2>3. \A b \in Actors : pc'[b] \in ClosingPcs => victim'[b] \in Jobs
    BY <1>2, <1>6 DEF ControlInv
  <2> QED BY <1>0, <1>2, <1>6, <2>1, <2>2, <2>3 DEF ControlInv
<1>7. ASSUME NEW b \in Jobs PROVE JobInv(b)'
  <2>1. JobInv(b)  BY DEF LifeInv
  <2>2. CASE b # r  BY <1>0, <1>2, <1>6, <2>1, <2>2, JobUntouched
  <2>3. CASE b = r
    <3>1. ClosingInv(b)'  BY <1>p, <1>2, <1>6, <2>3 DEF ClosingInv
    <3> QED BY <1>0, <1>1, <1>2, <1>4, <1>r, <2>3, <3>1
         DEF JobInv, RunPcs, OutsidePcs, EarlyPcs, UnbuiltPcs
  <2> QED BY <2>2, <2>3
<1>8. ASSUME NEW b \in Jobs PROVE WorkInv(b)'
  <2>1. WorkInv(b)  BY DEF LifeInv
  <2>2. CASE b # r  BY <1>0, <1>2, <1>6, <1>r, <2>1, <2>2 DEF WorkInv
  <2>3. CASE b = r
    <3>1. live # None => engine[live] = "open"  BY DEF LifeInv, LiveInv
    <3>2. held'[r] # None => engine[held'[r]] = "open"  BY <1>1, <1>4, <1>6, <3>1
    <3> QED BY <1>0, <1>2, <2>3, <3>2 DEF WorkInv
  <2> QED BY <2>2, <2>3
<1>9. ASSUME NEW s \in Jobs PROVE SessionsInv(s)'
  <2>1. SessionsInv(s)  BY DEF LifeInv
  <2>2. Unstored(s)' => Unstored(s)
    <3>1. CASE s # r  BY <1>0, <1>2, <1>6, <3>1 DEF Unstored
    <3>2. CASE s = r  BY <1>2, <3>2 DEF Unstored
    <3> QED BY <3>1, <3>2
  <2>3. Unstored(r)' => to = "stopping"  BY <1>0, <1>2, <1>4 DEF Unstored
  <2>4. \A b \in Jobs : pc[b] \in TurnPcs => pc'[b] = pc[b] /\ held'[b] = held[b]  BY <1>2, <1>6
  <2>5. status'[s] = "Running" => \E b \in Jobs : pc'[b] \in TurnPcs /\ held'[b] = s
    BY <1>0, <2>1, <2>4 DEF SessionsInv
  <2>6. ASSUME Unstored(s)' PROVE live' # s /\ \A b \in Jobs : held'[b] # s
    <3>1. live # s /\ \A b \in Jobs : held[b] # s  BY <2>1, <2>2, <2>6 DEF SessionsInv
    <3>2. s = r => to = "stopping"  BY <2>3, <2>6
    <3>3. live' # s  BY <1>6, <3>1, <3>2
    <3>4. held'[r] # s  BY <1>2, <1>6, <1>p, <3>1, <3>2
    <3> QED BY <1>6, <3>1, <3>3, <3>4
  <2>7. Unstored(s)' => \A b \in Actors : b # s /\ pc'[b] \in ClosingPcs => victim'[b] # s
    BY <1>2, <1>6, <2>1, <2>2 DEF SessionsInv
  <2> QED BY <2>5, <2>6, <2>7 DEF SessionsInv
<1>10. ASSUME NEW b \in Actors PROVE CloserInv(b)'
  <2>1. CloserInv(b)  BY DEF LifeInv
  <2>2. \A c \in Jobs : pc'[c] = "restarting" => pc[c] = "restarting" /\ held'[c] = held[c]
    BY <1>2, <1>6
  <2>3. CASE b # r  BY <1>0, <1>2, <1>5, <1>6, <2>1, <2>2, <2>3 DEF CloserInv
  <2>4. CASE b = r  BY <1>0, <1>2, <1>4, <1>5, <1>6, <2>2, <2>4 DEF CloserInv
  <2> QED BY <2>3, <2>4
<1>11. LiveInv'  BY <1>0, <1>4, <1>6 DEF LifeInv, LiveInv
<1>12. NoEngineLeaks'
  <2> SUFFICES ASSUME NEW s \in Jobs, engine[s] = "open"
               PROVE  \/ live' = s \/ pc'[s] = "storing"
                      \/ \E b \in Actors : victim'[b] = s /\ pc'[b] \in {"checking", "stopping", "closing"}
    BY <1>0 DEF NoEngineLeaks
  <2>1. CASE s = r  BY <1>p, <1>1, <1>2, <1>6, <2>1
  <2>2. CASE s # r
    <3>1. \/ live = s \/ pc[s] = "storing"
          \/ \E b \in Actors : victim[b] = s /\ pc[b] \in {"checking", "stopping", "closing"}
      BY DEF LifeInv, NoEngineLeaks
    <3> QED BY <1>p, <1>2, <1>6, <2>2, <3>1
  <2> QED BY <2>1, <2>2
<1>13. ServersStopWithTheirSession'
  BY <1>0, <1>2 DEF LifeInv, ServersStopWithTheirSession
<1> QED BY <1>c, <1>7, <1>8, <1>9, <1>10, <1>11, <1>12, <1>13 DEF LifeInv

\* A resume has the servers of a session restarted while it is in the map, or
\* after somebody noted that it left.
LEMMA ResumeKeepsInv ==
  ASSUME ControlInv, SessionInv, LifeInv, NEW r \in Jobs, ResumeArrives(r) \/ ReplaceServers(r)
  PROVE  ControlInv' /\ LifeInv'
<1> USE DEF ends, locks
<1>p. r \in Actors /\ r # Reaper /\ None \notin Jobs  BY LifecycleAssumption
<1>1. CASE ResumeArrives(r) /\ held' = held
  BY <1>1, CallsAreQuiet, QuietKeepsControl, QuietKeepsLife
<1>2. CASE ~(ResumeArrives(r) /\ held' = held)
  <2>0. UNCHANGED <<situation, up, live, keyLock, engine, status, victim, overlap, reaped>>
    BY DEF ResumeArrives, ReplaceServers, engines
  <2>r. \A b \in Jobs : IsRun(b)' <=> IsRun(b)  BY <2>0 DEF IsRun, Ask
  <2>j. JobInv(r) /\ WorkInv(r)  BY DEF LifeInv
  <2>1. PICK from \in {"start", "restarting"}, to \in {"restarting", "getting", "done"} :
          /\ Move(r, from, to) /\ (from = "start" <=> to = "restarting")
          /\ to = "restarting" => /\ ~IsRun(r) /\ live # None
                                  /\ held' = [held EXCEPT ![r] = live]
                                  /\ servers' = servers
          /\ to # "restarting" => /\ held' = [held EXCEPT ![r] = None]
                                  /\ \/ servers' = servers
                                     \/ servers' = [servers EXCEPT ![held[r]] = "running"]
    <3>1. CASE ResumeArrives(r)
      <4>1. /\ Move(r, "start", "restarting") /\ live # None
            /\ held' = [held EXCEPT ![r] = live] /\ servers' = servers
            /\ Ask(r) = "resume"
        BY <1>2, <3>1 DEF ResumeArrives, engines
      <4>2. ~IsRun(r)  BY <4>1 DEF IsRun
      <4> QED BY <4>1, <4>2
    <3>2. CASE ReplaceServers(r)
      <4>1. CASE Move(r, "restarting", "getting") /\ held' = [held EXCEPT ![r] = None]
                 /\ servers' = [servers EXCEPT ![held[r]] = "running"]
        BY <4>1
      <4>2. CASE Retire(r, "restarting") /\ servers' = servers
        BY <4>2 DEF Retire
      <4> QED BY <3>2, <4>1, <4>2 DEF ReplaceServers
    <3> QED BY <3>1, <3>2
  <2>2. /\ pc' \in [Actors -> Pcs] /\ pc[r] = from /\ pc'[r] = to
        /\ \A b \in Actors : b # r => pc'[b] = pc[b]
    <3>1. to \in Pcs  BY DEF Pcs, LockedPcs
    <3> QED BY <1>p, <2>1, <3>1, ActorMoves
  <2>3. /\ held' \in [Jobs -> Jobs \cup {None}]
        /\ \A b \in Jobs : b # r => held'[b] = held[b]
        /\ to = "restarting" => held'[r] = live /\ live \in Jobs /\ live # None
        /\ to # "restarting" => held'[r] = None
    BY <2>1 DEF ControlInv
  <2>4. ~IsRun(r) /\ engine[r] = "unborn"
    BY <2>1, <2>2, <2>j DEF JobInv, UnbuiltPcs
  <2>5. \A s \in Jobs : servers'[s] = "running" =>
          servers[s] = "running" \/ engine[s] = "open" \/ overlap
    <3>1. from = "restarting" => engine[held[r]] = "open" \/ overlap
      BY <2>2, <2>j DEF WorkInv
    <3>2. from = "restarting" => held[r] \in Jobs  BY <2>2 DEF ControlInv
    <3> QED BY <2>1, <3>1, <3>2 DEF SessionInv
  <2>c. ControlInv'
    <3>1. pc'[Reaper] \in {"idle", "collected", "stopping", "closing", "deleting"}
      BY <1>p, <2>2 DEF ControlInv
    <3>2. \A b \in Jobs : pc'[b] \in HoldingPcs => held'[b] \in Jobs
      BY <2>2, <2>3 DEF ControlInv
    <3>3. \A b \in Actors : pc'[b] \in ClosingPcs => victim'[b] \in Jobs
      BY <2>0, <2>2 DEF ControlInv
    <3> QED BY <2>0, <2>2, <2>3, <3>1, <3>2, <3>3 DEF ControlInv
  <2>6. ASSUME NEW b \in Jobs PROVE JobInv(b)'
    <3>1. JobInv(b)  BY DEF LifeInv
    <3>2. CASE b # r  BY <2>0, <2>2, <2>3, <3>1, <3>2, JobUntouched
    <3>3. CASE b = r
      <4>1. ClosingInv(b)'  BY <2>2, <3>3 DEF ClosingInv
      <4> QED BY <2>0, <2>2, <2>3, <2>4, <2>r, <3>3, <4>1
           DEF JobInv, RunPcs, OutsidePcs, EarlyPcs, UnbuiltPcs
    <3> QED BY <3>2, <3>3
  <2>7. ASSUME NEW b \in Jobs PROVE WorkInv(b)'
    <3>1. WorkInv(b)  BY DEF LifeInv
    <3>2. CASE b # r  BY <2>0, <2>2, <2>3, <2>r, <3>1, <3>2 DEF WorkInv
    <3>3. CASE b = r
      <4>1. live # None => engine[live] = "open"  BY DEF LifeInv, LiveInv
      <4> QED BY <2>0, <2>2, <2>3, <2>4, <2>r, <3>3, <4>1 DEF WorkInv
    <3> QED BY <3>2, <3>3
  <2>8. ASSUME NEW s \in Jobs PROVE SessionsInv(s)'
    <3>1. SessionsInv(s)  BY DEF LifeInv
    <3>2. Unstored(s)' => Unstored(s)  BY <2>0, <2>2 DEF Unstored
    <3>3. \A b \in Jobs : pc[b] \in TurnPcs => pc'[b] = pc[b] /\ held'[b] = held[b]
      BY <2>2, <2>3
    <3>4. status'[s] = "Running" => \E b \in Jobs : pc'[b] \in TurnPcs /\ held'[b] = s
      BY <2>0, <3>1, <3>3 DEF SessionsInv
    <3>5. ASSUME Unstored(s)' PROVE live' # s /\ \A b \in Jobs : held'[b] # s
      <4>1. live # s /\ \A b \in Jobs : held[b] # s  BY <3>1, <3>2, <3>5 DEF SessionsInv
      <4> QED BY <1>p, <2>0, <2>3, <4>1
    <3>6. Unstored(s)' => \A b \in Actors : b # s /\ pc'[b] \in ClosingPcs => victim'[b] # s
      BY <2>0, <2>2, <3>1, <3>2 DEF SessionsInv
    <3> QED BY <3>4, <3>5, <3>6 DEF SessionsInv
  <2>9. ASSUME NEW b \in Actors PROVE CloserInv(b)'
    <3>1. CloserInv(b)  BY DEF LifeInv
    <3>2. \A c \in Jobs : pc'[c] = "restarting" =>
            \/ pc[c] = "restarting" /\ held'[c] = held[c]
            \/ held'[c] = live
      BY <2>2, <2>3
    <3>3. pc'[b] \in ClosingPcs => pc[b] = pc'[b]  BY <2>2
    <3> QED BY <2>0, <3>1, <3>2, <3>3 DEF CloserInv
  <2>10. LiveInv' /\ NoEngineLeaks' /\ ServersStopWithTheirSession'
    <3>1. LiveInv /\ NoEngineLeaks /\ ServersStopWithTheirSession  BY DEF LifeInv
    <3>2. LiveInv'  BY <2>0, <3>1 DEF LiveInv
    <3>3. NoEngineLeaks'  BY <2>0, <2>2, <3>1 DEF NoEngineLeaks
    <3>4. ServersStopWithTheirSession'
      BY <2>0, <2>2, <2>5, <3>1 DEF ServersStopWithTheirSession
    <3> QED BY <3>2, <3>3, <3>4
  <2> QED BY <2>c, <2>6, <2>7, <2>8, <2>9, <2>10 DEF LifeInv
<1> QED BY <1>1, <1>2
\* What the reaper does without a session in its hands concerns no session.
LEMMA ReaperAloneKeepsInv ==
  ASSUME ControlInv, SessionInv, LifeInv,
         Sweep \/ (Evict /\ live = None) \/ DeleteRows
  PROVE  ControlInv' /\ LifeInv'
<1> USE DEF ends, locks, engines
<1>p. Reaper \in Actors /\ Reaper \notin Jobs  BY LifecycleAssumption
<1>1. PICK from \in {"idle", "collected", "deleting"}, to \in {"idle", "collected"} :
        Move(Reaper, from, to)
  BY DEF Sweep, Evict, DeleteRows
<1>2. UNCHANGED <<situation, up, held, live, keyLock, victim, engine, servers, status,
                  overlap, reaped>>
  <2>1. CASE Sweep  BY <2>1 DEF Sweep
  <2>2. CASE Evict /\ live = None  BY <2>2 DEF Evict
  <2>3. CASE DeleteRows  BY <2>3 DEF DeleteRows
  <2> QED BY <2>1, <2>2, <2>3
<1>3. /\ pc' \in [Actors -> Pcs] /\ pc[Reaper] = from /\ pc'[Reaper] = to
      /\ \A b \in Actors : b # Reaper => pc'[b] = pc[b]
      /\ \A b \in Jobs : pc'[b] = pc[b]
  <2>1. to \in Pcs  BY DEF Pcs
  <2> QED BY <1>p, <1>1, <2>1, ActorMoves
<1>4. ControlInv'  BY <1>p, <1>2, <1>3 DEF ControlInv
<1>5. ASSUME NEW b \in Jobs PROVE JobInv(b)' /\ WorkInv(b)'
  <2>1. JobInv(b) /\ WorkInv(b)  BY DEF LifeInv
  <2>2. JobInv(b)'  BY <1>2, <1>3, <2>1, JobUntouched
  <2>3. IsRun(b)' <=> IsRun(b)  BY <1>2 DEF IsRun, Ask
  <2> QED BY <1>2, <1>3, <2>1, <2>2, <2>3 DEF WorkInv
<1>6. ASSUME NEW s \in Jobs PROVE SessionsInv(s)'
  <2>1. SessionsInv(s)  BY DEF LifeInv
  <2>2. Unstored(s)' => Unstored(s)  BY <1>2, <1>3 DEF Unstored
  <2>3. \A b \in Actors : pc'[b] \in ClosingPcs => pc[b] \in ClosingPcs  BY <1>3
  <2> QED BY <1>2, <1>3, <2>1, <2>2, <2>3 DEF SessionsInv
<1>7. ASSUME NEW b \in Actors PROVE CloserInv(b)'
  <2>1. CloserInv(b)  BY DEF LifeInv
  <2>2. pc'[b] \in ClosingPcs => pc[b] \in ClosingPcs  BY <1>3
  <2> QED BY <1>2, <1>3, <2>1, <2>2 DEF CloserInv
<1>8. LiveInv' /\ NoEngineLeaks' /\ ServersStopWithTheirSession'
  <2>1. LiveInv /\ NoEngineLeaks /\ ServersStopWithTheirSession  BY DEF LifeInv
  <2>2. LiveInv'  BY <1>2, <2>1 DEF LiveInv
  <2>3. \A b \in Actors : pc[b] \in ClosingPcs => pc'[b] = pc[b]  BY <1>3
  <2>4. NoEngineLeaks'  BY <1>2, <1>3, <2>1, <2>3 DEF NoEngineLeaks
  <2>5. ServersStopWithTheirSession'  BY <1>2, <1>3, <2>1 DEF ServersStopWithTheirSession
  <2> QED BY <2>2, <2>4, <2>5
<1> QED BY <1>4, <1>5, <1>6, <1>7, <1>8 DEF LifeInv

\* With the process everything that was open is closed and everybody is gone.
LEMMA GoDownKeepsInv ==
  ASSUME ControlInv, SessionInv, LifeInv, GoDown
  PROVE  ControlInv' /\ LifeInv'
<1>n. None \notin Jobs /\ Reaper \notin Jobs  BY LifecycleAssumption
<1>1. /\ situation' = situation /\ up' = FALSE /\ overlap' = overlap /\ reaped' = reaped
      /\ held' = [r \in Jobs |-> None] /\ victim' = [a \in Actors |-> None]
      /\ live' = None /\ keyLock' = None
      /\ engine' = [s \in Jobs |-> IF engine[s] = "open" THEN "closed" ELSE engine[s]]
      /\ servers' = [s \in Jobs |-> IF servers[s] = "running" THEN "stopped" ELSE servers[s]]
      /\ status' = [s \in Jobs |-> "Idle"]
      /\ pc' = [a \in Actors |-> IF a = Reaper THEN "idle"
                                 ELSE IF Abandoned(a) THEN "dead" ELSE pc[a]]
  BY DEF GoDown
<1>2. /\ pc' \in [Actors -> Pcs] /\ pc'[Reaper] = "idle"
      /\ \A b \in Jobs : \/ pc'[b] = "dead"
                         \/ pc'[b] = pc[b] /\ pc[b] \in {"start", "done"}
  <2>1. {"idle", "dead"} \subseteq Pcs  BY DEF Pcs
  <2> QED BY <1>1, <1>n, <2>1 DEF Abandoned, ControlInv
<1>3. \A b \in Actors : pc'[b] \notin HoldingPcs \cup ClosingPcs \cup {"storing"}
  BY <1>2
<1>4. ControlInv'  BY <1>1, <1>2, <1>3 DEF ControlInv
<1>5. ASSUME NEW b \in Jobs PROVE JobInv(b)' /\ WorkInv(b)'
  <2>1. JobInv(b)  BY DEF LifeInv
  <2>2. pc[b] = "start" => engine[b] = "unborn"  BY <2>1 DEF JobInv, UnbuiltPcs
  <2>3. pc'[b] \in {"dead", "start", "done"}  BY <1>2
  <2>4. pc'[b] = "start" => engine'[b] = "unborn"  BY <1>1, <1>2, <2>2
  <2>5. held'[b] = None  BY <1>1
  <2>6. ClosingInv(b)'  BY <2>3 DEF ClosingInv
  <2>7. JobInv(b)'
    BY <2>3, <2>4, <2>5, <2>6 DEF JobInv, RunPcs, OutsidePcs, EarlyPcs, UnbuiltPcs
  <2> QED BY <2>3, <2>5, <2>7 DEF WorkInv
<1>6. ASSUME NEW s \in Jobs PROVE SessionsInv(s)'
  BY <1>1, <1>3, <1>n DEF SessionsInv
<1>7. ASSUME NEW b \in Actors PROVE CloserInv(b)'  BY <1>3 DEF CloserInv
<1>8. LiveInv' /\ NoEngineLeaks' /\ ServersStopWithTheirSession'
  BY <1>1 DEF LiveInv, NoEngineLeaks, ServersStopWithTheirSession
<1> QED BY <1>4, <1>5, <1>6, <1>7, <1>8 DEF LifeInv

\* The next process begins where the last one ended.
LEMMA RestartKeepsInv ==
  ASSUME ControlInv, LifeInv, Restart
  PROVE  ControlInv' /\ LifeInv'
<1>1. UNCHANGED <<situation, pc, held, live, keyLock, victim, engine, servers, status,
                  overlap, reaped>> /\ up' \in BOOLEAN
  BY DEF Restart, locks, engines
<1>2. ControlInv'  BY <1>1 DEF ControlInv
<1>3. ASSUME NEW b \in Jobs PROVE JobInv(b)' /\ WorkInv(b)'
  <2>1. JobInv(b) /\ WorkInv(b) /\ (IsRun(b)' <=> IsRun(b))  BY <1>1 DEF LifeInv, IsRun, Ask
  <2> QED BY <1>1, <2>1, JobUntouched DEF WorkInv
<1>4. ASSUME NEW s \in Jobs PROVE SessionsInv(s)'
  BY <1>1 DEF LifeInv, SessionsInv, Unstored
<1>5. ASSUME NEW b \in Actors PROVE CloserInv(b)'  BY <1>1 DEF LifeInv, CloserInv
<1>6. LiveInv' /\ NoEngineLeaks' /\ ServersStopWithTheirSession'
  BY <1>1 DEF LifeInv, LiveInv, NoEngineLeaks, ServersStopWithTheirSession
<1> QED BY <1>2, <1>3, <1>4, <1>5, <1>6 DEF LifeInv

\* Every step keeps the invariant.
LEMMA NextKeepsLife ==
  ASSUME ControlInv, SessionInv, LifeInv, [Next]_vars
  PROVE  ControlInv' /\ LifeInv'
<1>1. CASE UNCHANGED vars
  <2>1. UNCHANGED <<situation, up, pc, held, live, keyLock, victim, engine, servers, status,
                    overlap, reaped>>
    BY <1>1 DEF vars, history
  <2>2. ControlInv'  BY <2>1 DEF ControlInv
  <2>3. LifeInv'
    BY <2>1 DEF LifeInv, JobInv, ClosingInv, IsRun, Ask, WorkInv, SessionsInv, Unstored, CloserInv,
                LiveInv, NoEngineLeaks, ServersStopWithTheirSession
  <2> QED BY <2>2, <2>3
<1>2. ASSUME NEW r \in Jobs, Step(r) PROVE ControlInv' /\ LifeInv'
  <2>q. \A to : Quiet(r, to) => ControlInv' /\ LifeInv'
    BY QuietKeepsControl, QuietKeepsLife
  <2>1. CASE \/ Inject(r) \/ Enqueue(r) \/ TakeKeyLock(r) \/ Leave(r)
             \/ FindLive(r) \/ ResumeLive(r)
    BY <2>1, <2>q, SearchIsQuiet
  <2>2. CASE ReleaseSession(r)
    <3>1. CASE live = None  BY <2>2, <2>q, <3>1, SearchIsQuiet
    <3>2. CASE live # None
      <4>1. /\ TakeOut(r) /\ Move(r, "releasing", "checking")
            /\ UNCHANGED <<situation, up, held, keyLock, engine, status, servers, reaped>>
        BY <2>2, <3>2 DEF ReleaseSession, ends, locks, engines
      <4> QED BY <3>2, <4>1, TakingOutKeepsInv
    <3> QED BY <3>1, <3>2
  <2>3. CASE CheckNotRunning(r)  BY <2>3, CheckKeepsInv
  <2>4. CASE CloseStops(r) \/ CloseEngine(r)
    BY <2>4, CloseStopsKeepsInv, CloseEngineKeepsInv
  <2>5. CASE ReadTranscript(r)  BY <2>5, ReadTranscriptKeepsInv
  <2>6. CASE BuildEngine(r)  BY <2>6, BuildKeepsInv
  <2>7. CASE StoreSession(r)  BY <2>7, StoreKeepsInv
  <2>8. CASE \/ CreateRequest(r) \/ BeginTurn(r) \/ CountTurn(r) \/ TurnAnswers(r)
             \/ TurnFails(r) \/ MarkError(r) \/ EndTurn(r) \/ SettleRequest(r)
    BY <2>8, <2>q, TurnIsQuiet
  <2>9. CASE \/ Persist(r) \/ (\E f \in Files : WriteFile(r, f))
             \/ LoadSession(r) \/ Interrupt(r) \/ Stop(r) \/ Compact(r) \/ Configure(r)
             \/ Subscribe(r) \/ Unsubscribe(r)
    BY <2>9, <2>q, CallsAreQuiet
  <2>10. CASE ResumeArrives(r) \/ ReplaceServers(r)  BY <2>10, ResumeKeepsInv
  <2> QED BY <1>2, <2>1, <2>2, <2>3, <2>4, <2>5, <2>6, <2>7, <2>8, <2>9, <2>10 DEF Step
<1>3. CASE Reap
  <2>1. CASE Sweep \/ DeleteRows  BY <2>1, ReaperAloneKeepsInv
  <2>2. CASE Evict
    <3>1. CASE live = None  BY <2>2, <3>1, ReaperAloneKeepsInv
    <3>2. CASE live # None
      <4>1. /\ TakeOut(Reaper) /\ Move(Reaper, "collected", "stopping")
            /\ UNCHANGED <<situation, up, held, keyLock, engine, status, servers, reaped>>
        BY <2>2, <3>2 DEF Evict, ends, locks, engines
      <4>2. Reaper \in Actors  OBVIOUS
      <4> QED BY <3>2, <4>1, <4>2, TakingOutKeepsInv
    <3> QED BY <3>1, <3>2
  <2>3. CASE CloseStops(Reaper) \/ CloseEngine(Reaper)
    <3>1. Reaper \in Actors  OBVIOUS
    <3> QED BY <2>3, <3>1, CloseStopsKeepsInv, CloseEngineKeepsInv
  <2> QED BY <1>3, <2>1, <2>2, <2>3 DEF Reap
<1>4. CASE GoDown  BY <1>4, GoDownKeepsInv
<1>5. CASE Restart  BY <1>5, RestartKeepsInv
<1> QED BY <1>1, <1>2, <1>3, <1>4, <1>5 DEF Next, Over

\* Before the first call nothing is built and nobody holds anything.
LEMMA LifeInit == Init => LifeInv
<1> SUFFICES ASSUME Init PROVE LifeInv  OBVIOUS
<1>n. None \notin Jobs /\ Reaper \notin Jobs  BY LifecycleAssumption
<1>1. /\ \A r \in Jobs : pc[r] = "start" /\ held[r] = None /\ engine[r] = "unborn"
                         /\ status[r] = "Idle" /\ servers[r] = "none"
      /\ pc[Reaper] = "idle" /\ live = None
  BY <1>n DEF Init
<1>2. \A r \in Jobs : JobInv(r) /\ WorkInv(r)
  BY <1>1 DEF JobInv, ClosingInv, WorkInv, RunPcs, OutsidePcs, EarlyPcs, UnbuiltPcs
<1>3. \A a \in Actors : pc[a] \notin ClosingPcs  BY <1>1
<1>4. \A s \in Jobs : SessionsInv(s)  BY <1>1, <1>3, <1>n DEF SessionsInv
<1> QED BY <1>1, <1>2, <1>3, <1>4
     DEF LifeInv, CloserInv, LiveInv, NoEngineLeaks, ServersStopWithTheirSession
\* The tables of the sessions keep their types.
LEMMA SessionInvStep ==
  ASSUME TypeInv, [Next]_vars
  PROVE  SessionInv'
<1> USE DEF ends, locks, engines, callbacks, SessionInv, TypeInv, ControlInv
<1>1. CASE UNCHANGED vars  BY <1>1 DEF vars, history
<1>2. ASSUME NEW a \in Actors, CloseStops(a) \/ CloseEngine(a) PROVE SessionInv'
  <2>1. CASE CloseStops(a)  BY <2>1 DEF CloseStops
  <2>2. CASE CloseEngine(a)  BY <2>2 DEF CloseEngine
  <2> QED BY <1>2, <2>1, <2>2
<1>3. ASSUME NEW r \in Jobs, Step(r) PROVE SessionInv'
  <2>1. CASE Inject(r)  BY <2>1 DEF Inject
  <2>2. CASE Enqueue(r)  BY <2>2 DEF Enqueue
  <2>3. CASE TakeKeyLock(r)  BY <2>3 DEF TakeKeyLock
  <2>4. CASE Leave(r)  BY <2>4 DEF Leave
  <2>5. CASE ReleaseSession(r)  BY <2>5 DEF ReleaseSession
  <2>6. CASE CheckNotRunning(r)  BY <2>6 DEF CheckNotRunning
  <2>7. CASE FindLive(r)  BY <2>7 DEF FindLive
  <2>8. CASE ResumeLive(r)  BY <2>8 DEF ResumeLive
  <2>9. CASE ReadTranscript(r)  BY <2>9 DEF ReadTranscript
  <2>10. CASE BuildEngine(r)  BY <2>10 DEF BuildEngine
  <2>11. CASE StoreSession(r)  BY <2>11 DEF StoreSession
  <2>12. CASE CreateRequest(r)  BY <2>12 DEF CreateRequest
  <2>13. CASE BeginTurn(r)  BY <2>13 DEF BeginTurn
  <2>14. CASE CountTurn(r)  BY <2>14 DEF CountTurn
  <2>15. CASE TurnAnswers(r)  BY <2>15 DEF TurnAnswers
  <2>16. CASE TurnFails(r)  BY <2>16 DEF TurnFails
  <2>17. CASE MarkError(r)  BY <2>17 DEF MarkError
  <2>18. CASE EndTurn(r)  BY <2>18 DEF EndTurn
  <2>19. CASE SettleRequest(r)  BY <2>19 DEF SettleRequest
  <2>20. CASE Persist(r)  BY <2>20 DEF Persist, Snapshot
  <2>21. CASE LoadSession(r)  BY <2>21 DEF LoadSession
  <2>22. CASE Interrupt(r)  BY <2>22 DEF Interrupt
  <2>23. CASE Stop(r)  BY <2>23 DEF Stop
  <2>24. CASE Compact(r)  BY <2>24 DEF Compact, Snapshot
  <2>25. CASE Configure(r)  BY <2>25 DEF Configure
  <2>26. CASE Subscribe(r)
    <3>1. /\ saved' = [saved EXCEPT ![r] = onEvent[held[r]]]
          /\ onEvent' = [onEvent EXCEPT ![held[r]] = onEvent[held[r]] \cup {r}]
          /\ hooks' = [hooks EXCEPT ![held[r]] = onEvent'[held[r]]]
          /\ UNCHANGED <<mu, engine, status, servers, rewired>>
      BY <2>26 DEF Subscribe
    <3>2. held[r] \in Jobs  BY <2>26 DEF Subscribe, Move
    <3>3. onEvent' \in [Jobs -> SUBSET Jobs]  BY <3>1, <3>2
    <3>4. hooks' \in [Jobs -> SUBSET Jobs]  BY <3>1, <3>2, <3>3
    <3> QED BY <3>1, <3>2, <3>3, <3>4
  <2>27. CASE Unsubscribe(r)
    <3>1. /\ onEvent' = [onEvent EXCEPT ![held[r]] = saved[r]]
          /\ hooks' = [hooks EXCEPT ![held[r]] = saved[r]]
          /\ saved' = [saved EXCEPT ![r] = {}]
          /\ rewired' = rewired \cup {held[r]}
          /\ UNCHANGED <<mu, engine, status, servers>>
      BY <2>27 DEF Unsubscribe
    <3>2. held[r] \in Jobs  BY <2>27 DEF Unsubscribe, Retire, Move
    <3>3. /\ onEvent' \in [Jobs -> SUBSET Jobs] /\ hooks' \in [Jobs -> SUBSET Jobs]
      BY <3>1, <3>2
    <3> QED BY <3>1, <3>2, <3>3
  <2>28. CASE ResumeArrives(r)  BY <2>28 DEF ResumeArrives
  <2>29. CASE ReplaceServers(r)  BY <2>29 DEF ReplaceServers
  <2>30. CASE \E f \in Files : WriteFile(r, f)
    <3> PICK f \in Files : WriteFile(r, f)  BY <2>30
    <3> QED BY <2>30 DEF WriteFile, MayFail
    <2> QED BY <1>2, <1>3, <2>1, <2>2, <2>3, <2>4, <2>5, <2>6, <2>7, <2>8, <2>9, <2>10,
       <2>11, <2>12, <2>13, <2>14, <2>15, <2>16, <2>17, <2>18, <2>19, <2>20, <2>21,
       <2>22, <2>23, <2>24, <2>25, <2>26, <2>27, <2>28, <2>29, <2>30 DEF Step
<1>4. CASE Reap
  <2>1. CASE Sweep  BY <2>1 DEF Sweep
  <2>2. CASE Evict  BY <2>2 DEF Evict, TakeOut
  <2>3. CASE DeleteRows  BY <2>3 DEF DeleteRows
  <2> QED BY <1>2, <1>4, <2>1, <2>2, <2>3 DEF Reap
<1>5. CASE GoDown  BY <1>5 DEF GoDown
<1>6. CASE Restart  BY <1>6 DEF Restart
<1> QED BY <1>1, <1>3, <1>4, <1>5, <1>6 DEF Next, Over

\* One file more or less is still one of the files.
LEMMA OneMoreOrLess ==
  ASSUME NEW S, NEW T, T \subseteq S, NEW x \in S, NEW U \in {T, T \ {x}, T \cup {x}}
  PROVE  U \subseteq S
  OBVIOUS

\* The rows, the flags and the counters keep theirs.
LEMMA TableInvStep ==
  ASSUME TypeInv, [Next]_vars
  PROVE  TableInv'
<1> USE DEF ends, diskVars, callbacks, TableInv, TypeInv, ControlInv
<1>1. CASE UNCHANGED vars  BY <1>1 DEF vars, history
<1>2. ASSUME NEW a \in Actors, CloseStops(a) \/ CloseEngine(a) PROVE TableInv'
  <2>1. CASE CloseStops(a)  BY <2>1 DEF CloseStops
  <2>2. CASE CloseEngine(a)
    <3>1. victim[a] \in Jobs  BY <2>2 DEF CloseEngine, Move
    <3>2. reaped' \subseteq Jobs  BY <2>2, <3>1 DEF CloseEngine
    <3> QED BY <2>2, <3>2 DEF CloseEngine
  <2> QED BY <1>2, <2>1, <2>2
<1>3. ASSUME NEW r \in Jobs, Step(r) PROVE TableInv'
  <2>1. CASE Inject(r)  BY <2>1 DEF Inject
  <2>2. CASE Enqueue(r)  BY <2>2 DEF Enqueue
  <2>3. CASE TakeKeyLock(r)  BY <2>3 DEF TakeKeyLock
  <2>4. CASE Leave(r)  BY <2>4 DEF Leave
  <2>5. CASE ReleaseSession(r)
    <3>1. overlap' \in BOOLEAN  BY <2>5 DEF ReleaseSession, TakeOut
    <3> QED BY <2>5, <3>1 DEF ReleaseSession
  <2>6. CASE CheckNotRunning(r)  BY <2>6 DEF CheckNotRunning
  <2>7. CASE FindLive(r)  BY <2>7 DEF FindLive
  <2>8. CASE ResumeLive(r)  BY <2>8 DEF ResumeLive
  <2>9. CASE ReadTranscript(r)  BY <2>9 DEF ReadTranscript
  <2>10. CASE BuildEngine(r)  BY <2>10 DEF BuildEngine
  <2>11. CASE StoreSession(r)  BY <2>11 DEF StoreSession
  <2>12. CASE CreateRequest(r)  BY <2>12 DEF CreateRequest
  <2>13. CASE BeginTurn(r)  BY <2>13 DEF BeginTurn
  <2>14. CASE CountTurn(r)  BY <2>14 DEF CountTurn
  <2>15. CASE TurnAnswers(r)  BY <2>15 DEF TurnAnswers
  <2>16. CASE TurnFails(r)  BY <2>16 DEF TurnFails
  <2>17. CASE MarkError(r)  BY <2>17 DEF MarkError
  <2>18. CASE EndTurn(r)  BY <2>18 DEF EndTurn
  <2>19. CASE SettleRequest(r)  BY <2>19 DEF SettleRequest
  <2>20. CASE Persist(r)  BY <2>20 DEF Persist, Snapshot
  <2>21. CASE LoadSession(r)  BY <2>21 DEF LoadSession
  <2>22. CASE Interrupt(r)  BY <2>22 DEF Interrupt
  <2>23. CASE Stop(r)  BY <2>23 DEF Stop
  <2>24. CASE Compact(r)  BY <2>24 DEF Compact, Snapshot
  <2>25. CASE Configure(r)  BY <2>25 DEF Configure
  <2>26. CASE Subscribe(r)  BY <2>26 DEF Subscribe
  <2>27. CASE Unsubscribe(r)  BY <2>27 DEF Unsubscribe
  <2>28. CASE ResumeArrives(r)  BY <2>28 DEF ResumeArrives
  <2>29. CASE ReplaceServers(r)  BY <2>29 DEF ReplaceServers
  <2>30. CASE \E f \in Files : WriteFile(r, f)
    <3>1. PICK f \in Files : WriteFile(r, f)  BY <2>30
    <3>2. \/ torn' = torn \ {f} /\ faults' = faults
          \/ torn' \in {torn, torn \cup {f}} /\ faults' = faults + 1
      BY <3>1 DEF WriteFile
    <3>3. torn' \subseteq Files
      <4>1. torn \subseteq Files  OBVIOUS
      <4>2. torn' \in {torn, torn \ {f}, torn \cup {f}}  BY <3>2
      <4> QED BY <4>1, <4>2, OneMoreOrLess
    <3>4. faults' \in Nat
      <4>1. faults \in Nat  OBVIOUS
      <4> QED BY <3>2, <4>1
    <3> QED BY <3>1, <3>3, <3>4 DEF WriteFile
    <2> QED BY <1>2, <1>3, <2>1, <2>2, <2>3, <2>4, <2>5, <2>6, <2>7, <2>8, <2>9, <2>10,
       <2>11, <2>12, <2>13, <2>14, <2>15, <2>16, <2>17, <2>18, <2>19, <2>20, <2>21,
       <2>22, <2>23, <2>24, <2>25, <2>26, <2>27, <2>28, <2>29, <2>30 DEF Step
<1>4. CASE Reap
  <2>1. CASE Sweep  BY <2>1 DEF Sweep
  <2>2. CASE Evict  BY <2>2 DEF Evict, TakeOut
  <2>3. CASE DeleteRows  BY <2>3 DEF DeleteRows
  <2> QED BY <1>2, <1>4, <2>1, <2>2, <2>3 DEF Reap
<1>5. CASE GoDown
  <2>1. /\ crashes' = crashes + 1
        /\ \/ UNCHANGED <<torn, faults>>
           \/ /\ faults' = faults + 1
              /\ \E r \in Jobs : pc[r] \in Files /\ torn' = torn \cup {pc[r]}
    BY <1>5 DEF GoDown
  <2>t. torn \subseteq Files  OBVIOUS
  <2>n. faults \in Nat /\ crashes \in Nat  OBVIOUS
  <2>u. torn' \subseteq Files
    <3>1. CASE torn' = torn  BY <2>t, <3>1
    <3>2. ASSUME NEW r \in Jobs, pc[r] \in Files, torn' = torn \cup {pc[r]}
          PROVE  torn' \subseteq Files
      BY <2>t, <3>2, OneMoreOrLess
    <3> QED BY <2>1, <3>1, <3>2
  <2>2. torn' \subseteq Files /\ faults' \in Nat /\ crashes' \in Nat  BY <2>n, <2>u, <2>1
  <2> QED BY <1>5, <2>2 DEF GoDown
<1>6. CASE Restart  BY <1>6 DEF Restart
<1> QED BY <1>1, <1>3, <1>4, <1>5, <1>6 DEF Next, Over
\* Whoever writes a record in a session, or the one it holds, writes a record.
LEMMA RecordsMove ==
  ASSUME ContentInv, NEW s \in Jobs, NEW x \in Records, NEW y \in Records,
         content' \in {content, [content EXCEPT ![s] = x]},
         NEW r \in Jobs, snap' \in {snap, [snap EXCEPT ![r] = y]},
         settled' \in Records, disk' \in Records, billed' \in Nat
  PROVE  ContentInv'
  BY DEF ContentInv

\* Steps that read and write none of it, or drop a snapshot.
LEMMA DroppingKeepsContent ==
  ASSUME ContentInv, NEW r \in Jobs, snap' = snap \/ snap' = [snap EXCEPT ![r] = NothingRecorded],
         UNCHANGED <<content, disk, settled, billed>>
  PROVE  ContentInv'
  BY NothingIsARecord, RecordsMove DEF ContentInv

\* A record counts, lists and is billed for another turn, and its tool is
\* taken off the wire or put back.
LEMMA RecordsChange ==
  ASSUME NEW x \in Records
  PROVE  /\ \A m \in SUBSET Jobs : [x EXCEPT !.counter = @ + 1, !.messages = m] \in Records
         /\ [x EXCEPT !.guard.spent = @ + 1] \in Records
         /\ [x EXCEPT !.disabled = ~@] \in Records
<1>1. /\ x.messages \in SUBSET Jobs /\ x.counter \in Nat /\ x.disabled \in BOOLEAN
      /\ x.guard \in [spent: Nat, capped: BOOLEAN]
  BY DEF Records
<1>2. ASSUME NEW m \in SUBSET Jobs
      PROVE  [x EXCEPT !.counter = @ + 1, !.messages = m] \in Records
  <2>1. [x EXCEPT !.counter = @ + 1] \in Records  BY <1>1 DEF Records
  <2>2. \A y \in Records : [y EXCEPT !.messages = m] \in Records  BY DEF Records
  <2> QED BY <2>1, <2>2, Zenon
<1>3. [x EXCEPT !.guard.spent = @ + 1] \in Records
  <2>1. [x.guard EXCEPT !.spent = @ + 1] \in [spent: Nat, capped: BOOLEAN]  BY <1>1
  <2>2. [x EXCEPT !.guard.spent = @ + 1] = [x EXCEPT !.guard = [x.guard EXCEPT !.spent = @ + 1]]
    BY DEF Records
  <2> QED BY <2>1, <2>2 DEF Records
<1>4. [x EXCEPT !.disabled = ~@] \in Records
  <2>1. CASE x.disabled = TRUE  BY <2>1 DEF Records
  <2>2. CASE x.disabled = FALSE  BY <2>2 DEF Records
  <2> QED BY <1>1, <2>1, <2>2
<1> QED BY <1>2, <1>3, <1>4

\* The turns.
LEMMA TurnKeepsContent ==
  ASSUME ControlInv, ContentInv, NEW r \in Jobs, CountTurn(r) \/ TurnAnswers(r) \/ TurnFails(r)
  PROVE  ContentInv'
<1> DEFINE h == held[r]
           x == content[h]
<1>1. h \in Jobs /\ x \in Records /\ x.messages \in SUBSET Jobs
  <2>1. pc[r] \in {"counting", "working"}  BY DEF CountTurn, TurnAnswers, TurnFails, Move
  <2>2. h \in Jobs  BY <2>1 DEF ControlInv
  <2> QED BY <2>2 DEF ContentInv, Records
<1>2. CASE CountTurn(r)
  <2> DEFINE m == IF CapReached(h) THEN x.messages ELSE x.messages \cup {r}
  <2>1. content' = [content EXCEPT ![h].counter = @ + 1,
                      ![h].messages = IF CapReached(h) THEN @ ELSE @ \cup {r}]
    BY <1>2 DEF CountTurn
  <2>2. content' = [content EXCEPT ![h] = [x EXCEPT !.counter = @ + 1, !.messages = m]]
    BY <2>1, <1>1 DEF ContentInv
  <2>3. [x EXCEPT !.counter = @ + 1, !.messages = m] \in Records
    <3>1. m \in SUBSET Jobs  BY <1>1
    <3> QED BY <1>1, <3>1, RecordsChange
  <2>4. UNCHANGED <<snap, disk, settled, billed>>  BY <1>2 DEF CountTurn, diskVars
  <2> QED BY <1>1, <2>2, <2>3, <2>4, RecordsMove DEF ContentInv
<1>3. CASE TurnAnswers(r) \/ TurnFails(r)
  <2>1. \/ Bill(h)
        \/ UNCHANGED <<content, billed>>
    BY <1>3 DEF TurnAnswers, TurnFails
  <2>2. UNCHANGED <<snap, disk, settled>>  BY <1>3 DEF TurnAnswers, TurnFails, diskVars
  <2>3. CASE Bill(h)
    <3>1. /\ content' = [content EXCEPT ![h] = [x EXCEPT !.guard.spent = @ + 1]]
          /\ billed' = billed + 1
      BY <2>3, <1>1 DEF Bill, ContentInv
    <3>2. [x EXCEPT !.guard.spent = @ + 1] \in Records  BY <1>1, RecordsChange
    <3> QED BY <1>1, <2>2, <3>1, <3>2, RecordsMove DEF ContentInv
  <2>4. CASE UNCHANGED <<content, billed>>  BY <2>2, <2>4 DEF ContentInv
  <2> QED BY <2>1, <2>3, <2>4
<1> QED BY <1>2, <1>3

\* What is read from the disk, and what is built from it.
LEMMA BuildingKeepsContent ==
  ASSUME ControlInv, ContentInv, NEW r \in Jobs, ReadTranscript(r) \/ BuildEngine(r)
  PROVE  ContentInv'
<1>1. CASE ReadTranscript(r)
  <2> DEFINE y == IF ReadsTranscript(r)
                  THEN [NothingRecorded EXCEPT
                          !.messages = disk.messages,
                          !.counter = IF "counter" \in torn THEN 0 ELSE disk.counter]
                  ELSE NothingRecorded
  <2>1. UNCHANGED <<content, disk, settled, billed>>
    BY <1>1 DEF ReadTranscript, diskVars
  <2>2. \/ snap' = [snap EXCEPT ![r] = y]
        \/ snap' = snap
        \/ snap' = [snap EXCEPT ![r] = NothingRecorded]
    BY <1>1 DEF ReadTranscript, Unbuilt, Retire
  <2>3. y \in Records
    BY NothingIsARecord DEF ContentInv, Records, NothingRecorded
  <2> QED BY <2>1, <2>2, <2>3, NothingIsARecord, RecordsMove DEF ContentInv
<1>2. CASE BuildEngine(r)
  <2> DEFINE x == [messages |-> snap[r].messages, counter |-> snap[r].counter,
                   guard |-> RestoredGuard(r),
                   disabled |-> "disabled" \notin torn /\ disk.disabled]
  <2>1. UNCHANGED <<disk, settled, billed>>  BY <1>2 DEF BuildEngine, diskVars
  <2>2. /\ content' \in {content, [content EXCEPT ![r] = x]}
        /\ snap' \in {snap, [snap EXCEPT ![r] = NothingRecorded]}
    BY <1>2 DEF BuildEngine, Unbuilt, Retire
  <2>3. x \in Records
    <3>1. RestoredGuard(r) \in [spent: Nat, capped: BOOLEAN]
      <4>1. IsRun(r) \in BOOLEAN  BY DEF IsRun
      <4>2. disk.guard.spent \in Nat /\ disk.guard.capped \in BOOLEAN
        BY DEF ContentInv, Records
      <4> QED BY <4>1, <4>2 DEF RestoredGuard
    <3>2. snap[r].messages \in SUBSET Jobs /\ snap[r].counter \in Nat
      BY DEF ContentInv, Records
    <3> QED BY <3>1, <3>2 DEF Records
  <2> QED BY <2>1, <2>2, <2>3, NothingIsARecord, RecordsMove DEF ContentInv
<1> QED BY <1>1, <1>2

\* What is written.
LEMMA WritingKeepsContent ==
  ASSUME ControlInv, ContentInv, NEW r \in Jobs,
         Persist(r) \/ Compact(r) \/ (\E f \in Files : WriteFile(r, f)) \/ Configure(r)
  PROVE  ContentInv'
<1> USE DEF engines
<1>1. CASE Persist(r) \/ Compact(r)
  <2>1. /\ UNCHANGED <<content, disk, billed>>
        /\ \/ snap' = [snap EXCEPT ![r] = content[held[r]]] /\ settled' = content[held[r]]
           \/ snap' = [snap EXCEPT ![r] = NothingRecorded] /\ settled' = settled
    BY <1>1 DEF Persist, Compact, Snapshot, Retire
  <2>2. content[held[r]] \in Records
    <3>1. pc[r] \in {"persist", "loaded"}  BY <1>1 DEF Persist, Compact, Snapshot, Move
    <3>2. held[r] \in Jobs  BY <3>1 DEF ControlInv
    <3> QED BY <3>2 DEF ContentInv
  <2> QED BY <2>1, <2>2, NothingIsARecord, RecordsMove DEF ContentInv
<1>2. ASSUME NEW f \in Files, WriteFile(r, f) PROVE ContentInv'
  <2>1. /\ UNCHANGED <<content, settled, billed>>
        /\ snap' \in {snap, [snap EXCEPT ![r] = NothingRecorded]}
        /\ disk' = disk \/ disk' = [disk EXCEPT ![f] = snap[r][f]]
    BY <1>2 DEF WriteFile, Retire
  <2>2. disk \in Records /\ snap[r] \in Records  BY DEF ContentInv
  <2>3. [disk EXCEPT ![f] = snap[r][f]] \in Records
    <3>1. CASE f = "messages"  BY <2>2, <3>1 DEF Records
    <3>2. CASE f = "counter"  BY <2>2, <3>2 DEF Records
    <3>3. CASE f = "guard"  BY <2>2, <3>3 DEF Records
    <3>4. CASE f = "disabled"  BY <2>2, <3>4 DEF Records
    <3> QED BY <3>1, <3>2, <3>3, <3>4
  <2> QED BY <2>1, <2>2, <2>3, NothingIsARecord, RecordsMove DEF ContentInv
<1>3. CASE Configure(r)
  <2>1. /\ content' = [content EXCEPT ![held[r]].disabled = ~@]
        /\ snap' = [snap EXCEPT ![r] = NothingRecorded] /\ pc[r] = "loaded"
        /\ UNCHANGED <<disk, settled, billed>>
    BY <1>3 DEF Configure, Retire, Move, diskVars
  <2>2. held[r] \in Jobs /\ content[held[r]] \in Records
    BY <2>1 DEF ControlInv, ContentInv
  <2>3. content' = [content EXCEPT ![held[r]] = [content[held[r]] EXCEPT !.disabled = ~@]]
    BY <2>1, <2>2 DEF ContentInv
  <2>4. [content[held[r]] EXCEPT !.disabled = ~@] \in Records  BY <2>2, RecordsChange
  <2> QED BY <2>1, <2>2, <2>3, <2>4, NothingIsARecord, RecordsMove DEF ContentInv
<1> QED BY <1>1, <1>2, <1>3
\* The records of the sessions, of the snapshots and of the disk stay records.
LEMMA ContentInvStep ==
  ASSUME ControlInv, ContentInv, [Next]_vars
  PROVE  ContentInv'
<1> USE DEF ends, engines, diskVars
<1>1. CASE UNCHANGED vars  BY <1>1 DEF vars, history, ContentInv
<1>2. ASSUME NEW a \in Actors, CloseStops(a) \/ CloseEngine(a) PROVE ContentInv'
  <2>1. UNCHANGED <<content, disk, settled, billed>>  BY <1>2 DEF CloseStops, CloseEngine
  <2>2. snap' = snap \/ \E r \in Jobs : snap' = [snap EXCEPT ![r] = NothingRecorded]
    BY <1>2 DEF CloseStops, CloseEngine
  <2>3. CASE snap' = snap  BY <2>1, <2>3 DEF ContentInv
  <2> QED BY <2>1, <2>2, <2>3, DroppingKeepsContent
<1>3. ASSUME NEW r \in Jobs, Step(r) PROVE ContentInv'
  <2>1. CASE \/ Inject(r) \/ Enqueue(r) \/ TakeKeyLock(r) \/ Leave(r)
             \/ ReleaseSession(r) \/ CheckNotRunning(r) \/ FindLive(r) \/ ResumeLive(r)
             \/ StoreSession(r)
    <3>1. UNCHANGED <<content, disk, settled, billed>>
      BY <2>1 DEF Inject, Enqueue, TakeKeyLock, Leave, ReleaseSession, CheckNotRunning, FindLive,
                  ResumeLive, StoreSession
    <3>2. snap' = snap \/ snap' = [snap EXCEPT ![r] = NothingRecorded]
      BY <2>1 DEF Inject, Enqueue, TakeKeyLock, Leave, ReleaseSession, CheckNotRunning, FindLive,
                  ResumeLive, StoreSession, Retire
    <3> QED BY <3>1, <3>2, DroppingKeepsContent
  <2>2. CASE \/ CreateRequest(r) \/ BeginTurn(r) \/ MarkError(r) \/ EndTurn(r) \/ SettleRequest(r)
             \/ LoadSession(r) \/ Interrupt(r) \/ Stop(r) \/ Subscribe(r) \/ Unsubscribe(r)
             \/ ResumeArrives(r) \/ ReplaceServers(r)
    <3>1. UNCHANGED <<content, disk, settled, billed>>
      BY <2>2 DEF CreateRequest, BeginTurn, MarkError, EndTurn, SettleRequest, LoadSession,
                  Interrupt, Stop, Subscribe, Unsubscribe, ResumeArrives, ReplaceServers
    <3>2. snap' = snap \/ snap' = [snap EXCEPT ![r] = NothingRecorded]
      BY <2>2 DEF CreateRequest, BeginTurn, MarkError, EndTurn, SettleRequest, LoadSession,
                  Interrupt, Stop, Subscribe, Unsubscribe, ResumeArrives, ReplaceServers, Retire
    <3> QED BY <3>1, <3>2, DroppingKeepsContent
  <2>3. CASE CountTurn(r) \/ TurnAnswers(r) \/ TurnFails(r)  BY <2>3, TurnKeepsContent
  <2>4. CASE ReadTranscript(r) \/ BuildEngine(r)  BY <2>4, BuildingKeepsContent
  <2>5. CASE Persist(r) \/ Compact(r) \/ (\E f \in Files : WriteFile(r, f)) \/ Configure(r)
    BY <2>5, WritingKeepsContent
  <2> QED BY <1>2, <1>3, <2>1, <2>2, <2>3, <2>4, <2>5 DEF Step
<1>4. CASE Reap
  <2>1. CASE Sweep  BY <2>1 DEF Sweep, ContentInv
  <2>2. CASE Evict  BY <2>2 DEF Evict, ContentInv
  <2>3. CASE DeleteRows  BY <2>3 DEF DeleteRows, ContentInv
  <2> QED BY <1>2, <1>4, <2>1, <2>2, <2>3 DEF Reap
<1>5. CASE GoDown
  <2>1. /\ content' = [s \in Jobs |-> NothingRecorded] /\ snap' = [r \in Jobs |-> NothingRecorded]
        /\ UNCHANGED <<disk, settled, billed>>
    BY <1>5 DEF GoDown
  <2> QED BY <2>1, NothingIsARecord DEF ContentInv
<1>6. CASE Restart  BY <1>6 DEF Restart, ContentInv
<1> QED BY <1>1, <1>3, <1>4, <1>5, <1>6 DEF Next, Over

-----------------------------------------------------------------------------
(* The rows.                                                               *)

\* Only the settling of a request takes a job out of its row's range, and only
\* its creation and its settling write the row.
LEMMA RowsMove ==
  ASSUME ControlInv, TableInv, NEW b \in Jobs, Step(b)
  PROVE  /\ up /\ up' = up
         /\ \A r \in Jobs : r # b => pc'[r] = pc[r] /\ rows'[r] = rows[r]
         /\ \/ rows' = rows /\ (pc'[b] \in RowPcs \/ pc[b] \notin RowPcs)
            \/ pc'[b] \in RowPcs
            \/ rows'[b] # "running"
<1> USE DEF ends
<1> DEFINE Kept == rows' = rows /\ up' = up
           Within(from, to) == Move(b, from, to) /\ (to \in RowPcs \/ from \notin RowPcs)
<1>p. b \in Actors  OBVIOUS
<1>1. ASSUME NEW from, NEW to, Within(from, to), Kept
      PROVE  /\ up /\ up' = up
             /\ \A r \in Jobs : r # b => pc'[r] = pc[r] /\ rows'[r] = rows[r]
             /\ rows' = rows /\ (pc'[b] \in RowPcs \/ pc[b] \notin RowPcs)
  BY <1>1 DEF Move, ControlInv
<1>2. CASE \/ Inject(b) \/ Enqueue(b) \/ TakeKeyLock(b) \/ Leave(b)
           \/ ReleaseSession(b) \/ CheckNotRunning(b) \/ CloseStops(b) \/ FindLive(b)
           \/ ResumeLive(b)
  <2>1. Kept
    BY <1>2 DEF Inject, Enqueue, TakeKeyLock, Leave, ReleaseSession, CheckNotRunning, CloseStops,
                FindLive, ResumeLive
  <2>2. \E from, to : Within(from, to)
    BY <1>2 DEF Inject, Enqueue, TakeKeyLock, Leave, ReleaseSession, CheckNotRunning, CloseStops,
                FindLive, ResumeLive, Retire
  <2> QED BY <1>1, <2>1, <2>2
<1>3. CASE \/ CloseEngine(b) \/ ReadTranscript(b) \/ BuildEngine(b) \/ StoreSession(b)
           \/ Persist(b) \/ (\E f \in Files : WriteFile(b, f))
  <2>1. Kept
    BY <1>3 DEF CloseEngine, ReadTranscript, BuildEngine, StoreSession, Persist, WriteFile
  <2>2. \E from, to : Within(from, to)
    BY <1>3 DEF CloseEngine, ReadTranscript, BuildEngine, StoreSession, Persist, Snapshot,
                WriteFile, Unbuilt, Retire
  <2> QED BY <1>1, <2>1, <2>2
<1>4. CASE \/ LoadSession(b) \/ Interrupt(b) \/ Stop(b) \/ Compact(b) \/ Configure(b)
           \/ Subscribe(b) \/ Unsubscribe(b) \/ ResumeArrives(b) \/ ReplaceServers(b)
  <2>1. Kept
    BY <1>4 DEF LoadSession, Interrupt, Stop, Compact, Configure, Subscribe, Unsubscribe,
                ResumeArrives, ReplaceServers
  <2>2. \E from, to : Within(from, to)
    BY <1>4 DEF LoadSession, Interrupt, Stop, Compact, Configure, Subscribe, Unsubscribe,
                ResumeArrives, ReplaceServers, Snapshot, Retire
  <2> QED BY <1>1, <2>1, <2>2
<1>5. CASE BeginTurn(b) \/ CountTurn(b) \/ TurnAnswers(b) \/ TurnFails(b) \/ MarkError(b) \/ EndTurn(b)
  <2>1. Kept  BY <1>5 DEF BeginTurn, CountTurn, TurnAnswers, TurnFails, MarkError, EndTurn
  <2>2. \E from, to : Within(from, to)
    BY <1>5 DEF BeginTurn, CountTurn, TurnAnswers, TurnFails, MarkError, EndTurn
  <2> QED BY <1>1, <2>1, <2>2
<1>6. CASE CreateRequest(b)
  <2>1. Move(b, "row", "begin") /\ rows' = [rows EXCEPT ![b] = "running"] /\ up' = up
    BY <1>6 DEF CreateRequest
  <2>2. pc' = [pc EXCEPT ![b] = "begin"] /\ up  BY <2>1 DEF Move
  <2>3. pc'[b] = "begin" /\ \A r \in Jobs : r # b => pc'[r] = pc[r]  BY <2>2 DEF ControlInv
  <2> QED BY <2>1, <2>2, <2>3
<1>7. CASE SettleRequest(b)
  <2>1. /\ \E to \in {"leave", "persist"} : Move(b, "settle", to)
        /\ rows' = [rows EXCEPT ![b] = IF @ = "deleted" THEN @
                                       ELSE IF outcome[b] = "ok" THEN "completed" ELSE "error"]
        /\ up' = up
    BY <1>7 DEF SettleRequest
  <2>2. up /\ \A r \in Jobs : r # b => pc'[r] = pc[r]  BY <2>1 DEF Move, ControlInv
  <2>3. rows'[b] # "running" /\ \A r \in Jobs : r # b => rows'[r] = rows[r]
    BY <2>1 DEF TableInv
  <2> QED BY <2>1, <2>2, <2>3
<1> QED BY <1>2, <1>3, <1>4, <1>5, <1>6, <1>7 DEF Step

-----------------------------------------------------------------------------
(* The listeners.                                                          *)

\* A step that leaves the callbacks alone, and takes its job nowhere near a turn
\* or on from where it was with what it held.
Apart(b) ==
  /\ UNCHANGED <<onEvent, hooks, rewired>>
  /\ \E from, to : Move(b, from, to)
  /\ held' = held \/ held' = [held EXCEPT ![b] = None] \/ held' = [held EXCEPT ![b] = live]
  /\ \/ pc'[b] \notin {"row", "begin", "stopping", "closing"} \cup TurnPcs
     \/ /\ pc[b] \in {"checking", "row", "begin", "stopping", "closing"} \cup TurnPcs
        /\ held'[b] \in {held[b], None}
        /\ pc'[b] \in TurnPcs => pc[b] \in TurnPcs

\* Most steps are.
LEMMA MostStepsAreApart ==
  ASSUME ControlInv, NEW b \in Jobs, Step(b)
  PROVE  \/ Apart(b)
         \/ FindLive(b) \/ StoreSession(b) \/ BeginTurn(b) \/ Subscribe(b) \/ Unsubscribe(b)
<1> DEFINE At == {"row", "begin", "stopping", "closing"} \cup TurnPcs
           Held == held' = held \/ held' = [held EXCEPT ![b] = None] \/ held' = [held EXCEPT ![b] = live]
           Alone == UNCHANGED <<onEvent, hooks, rewired>>
<1>p. b \in Actors  OBVIOUS
<1>a. ASSUME NEW from, NEW to, Move(b, from, to), to \notin At, Held, Alone PROVE Apart(b)
  <2>1. pc'[b] = to  BY <1>a, <1>p DEF Move, ControlInv
  <2> QED BY <1>a, <2>1 DEF Apart
<1>b. ASSUME NEW from \in {"checking"} \cup At, NEW to, Move(b, from, to),
             to \in TurnPcs => from \in TurnPcs,
             held' = held \/ held' = [held EXCEPT ![b] = None], Alone
      PROVE  Apart(b)
  <2>1. pc[b] = from /\ pc'[b] = to  BY <1>b, <1>p DEF Move, ControlInv
  <2>2. held'[b] \in {held[b], None}  BY <1>b DEF ControlInv
  <2> QED BY <1>b, <2>1, <2>2 DEF Apart
<1>1. CASE \/ Inject(b) \/ Enqueue(b) \/ TakeKeyLock(b) \/ Leave(b) \/ ReleaseSession(b)
           \/ ResumeLive(b) \/ ReadTranscript(b) \/ BuildEngine(b)
  <2>1. \E from, to : Move(b, from, to) /\ to \notin At
    BY <1>1 DEF Inject, Enqueue, TakeKeyLock, Leave, ReleaseSession, ResumeLive, ReadTranscript,
                BuildEngine, Unbuilt, Retire
  <2>2. Held
    BY <1>1 DEF Inject, Enqueue, TakeKeyLock, Leave, ReleaseSession, ResumeLive, ReadTranscript,
                BuildEngine, Unbuilt, Retire
  <2>3. Alone
    BY <1>1 DEF Inject, Enqueue, TakeKeyLock, Leave, ReleaseSession, ResumeLive, ReadTranscript,
                BuildEngine, callbacks
  <2> QED BY <1>a, <2>1, <2>2, <2>3
<1>2. CASE \/ EndTurn(b) \/ SettleRequest(b) \/ Persist(b) \/ (\E f \in Files : WriteFile(b, f))
           \/ LoadSession(b) \/ Interrupt(b)
  <2>1. \E from, to : Move(b, from, to) /\ to \notin At
    <3>1. \A f \in DOMAIN NextWrite : NextWrite[f] \notin At  BY DEF NextWrite
    <3> QED BY <1>2, <3>1 DEF EndTurn, SettleRequest, Persist, Snapshot, WriteFile, LoadSession,
                              Interrupt, Retire
  <2>2. Held
    BY <1>2 DEF EndTurn, SettleRequest, Persist, WriteFile, LoadSession, Interrupt, Retire
  <2>3. Alone
    BY <1>2 DEF EndTurn, SettleRequest, Persist, WriteFile, LoadSession, Interrupt, callbacks
  <2> QED BY <1>a, <2>1, <2>2, <2>3
<1>3. CASE Stop(b) \/ Compact(b) \/ Configure(b) \/ ResumeArrives(b) \/ ReplaceServers(b)
  <2>1. \E from, to : Move(b, from, to) /\ to \notin At
    BY <1>3 DEF Stop, Compact, Configure, ResumeArrives, ReplaceServers, Snapshot, Retire
  <2>2. Held  BY <1>3 DEF Stop, Compact, Configure, ResumeArrives, ReplaceServers, Retire
  <2>3. Alone  BY <1>3 DEF Stop, Compact, Configure, ResumeArrives, ReplaceServers, callbacks
  <2> QED BY <1>a, <2>1, <2>2, <2>3
<1>4. CASE CheckNotRunning(b) \/ CloseStops(b) \/ CloseEngine(b) \/ CreateRequest(b)
  <2>1. AfterClose(b) \notin TurnPcs  BY DEF AfterClose
  <2>2. \E from \in {"checking"} \cup At : \E to :
          Move(b, from, to) /\ (to \in TurnPcs => from \in TurnPcs)
    BY <1>4, <2>1 DEF CheckNotRunning, CloseStops, CloseEngine, CreateRequest
  <2>3. held' = held \/ held' = [held EXCEPT ![b] = None]
    BY <1>4 DEF CheckNotRunning, CloseStops, CloseEngine, CreateRequest
  <2>4. Alone  BY <1>4 DEF CheckNotRunning, CloseStops, CloseEngine, CreateRequest, callbacks
  <2> QED BY <1>b, <2>2, <2>3, <2>4
<1>5. CASE CountTurn(b) \/ TurnAnswers(b) \/ TurnFails(b) \/ MarkError(b)
  <2>1. \E from \in {"checking"} \cup At : \E to :
          Move(b, from, to) /\ (to \in TurnPcs => from \in TurnPcs)
    BY <1>5 DEF CountTurn, TurnAnswers, TurnFails, MarkError
  <2>2. held' = held /\ Alone
    BY <1>5 DEF CountTurn, TurnAnswers, TurnFails, MarkError, callbacks
  <2> QED BY <1>b, <2>1, <2>2
<1> QED BY <1>1, <1>2, <1>3, <1>4, <1>5 DEF Step

\* Two runs are not inside the key's lock at once.
LEMMA OneRunInside ==
  ASSUME LifeInv, NEW r \in Jobs, NEW b \in Jobs, IsRun(r), IsRun(b),
         pc[r] \notin OutsidePcs, pc[b] \notin OutsidePcs
  PROVE  r = b
  BY DEF LifeInv, JobInv

\* The steps of the calls keep who listens.
LEMMA StepKeepsStreams ==
  ASSUME TypeInv, LifeInv, StreamInv, NEW b \in Jobs, Step(b)
  PROVE  StreamInv'
<1> DEFINE At == {"row", "begin", "stopping", "closing"} \cup TurnPcs
           Heard(r) == \/ held[r] \in rewired
                       \/ r \in onEvent[held[r]] /\ (pc[r] \in TurnPcs => r \in hooks[held[r]])
<1>0. ControlInv /\ SessionInv  BY DEF TypeInv
<1>n. None \notin Jobs  BY LifecycleAssumption
<1>h. held \in [Jobs -> Jobs \cup {None}] /\ pc \in [Actors -> Pcs]  BY <1>0 DEF ControlInv
<1>t. onEvent \in [Jobs -> SUBSET Jobs] /\ hooks \in [Jobs -> SUBSET Jobs]  BY <1>0 DEF SessionInv
<1>s. situation' = situation
  BY DEF Step, ends, Inject, Enqueue, TakeKeyLock, Leave, ReleaseSession, CheckNotRunning,
         CloseStops, CloseEngine, FindLive, ResumeLive, ReadTranscript, BuildEngine, StoreSession,
         CreateRequest, BeginTurn, CountTurn, TurnAnswers, TurnFails, MarkError, EndTurn,
         SettleRequest, Persist, WriteFile, LoadSession, Interrupt, Stop, Compact, Configure,
         Subscribe, Unsubscribe, ResumeArrives, ReplaceServers
<1>i. \A r \in Jobs : IsRun(r)' <=> IsRun(r)  BY <1>s DEF IsRun, Ask
<1>o. \A x \in At : x \notin OutsidePcs  BY DEF OutsidePcs
<1> SUFFICES ASSUME NEW r \in Jobs, pc'[r] \in At, IsRun(r), held'[r] # None
             PROVE  Heard(r)'
  BY <1>i DEF StreamInv
<1>1. CASE Apart(b)
  <2>1. \A c \in Jobs : c # b => pc'[c] = pc[c] /\ held'[c] = held[c]
    BY <1>1, <1>h DEF Apart, Move
  <2>2. UNCHANGED <<onEvent, hooks, rewired>>  BY <1>1 DEF Apart
  <2>3. CASE r # b
    <3>1. Heard(r)  BY <2>1, <2>3 DEF StreamInv
    <3> QED BY <2>1, <2>2, <2>3, <3>1
  <2>4. CASE r = b
    <3>1. /\ pc[r] \in {"checking"} \cup At /\ held'[r] = held[r] /\ held[r] # None
          /\ pc'[r] \in TurnPcs => pc[r] \in TurnPcs
      BY <1>1, <2>4 DEF Apart
    <3>2. pc[r] # "checking"
      <4>1. JobInv(r)  BY DEF LifeInv
      <4> QED BY <3>1, <4>1 DEF JobInv, EarlyPcs
    <3>3. Heard(r)  BY <3>1, <3>2 DEF StreamInv
    <3> QED BY <2>2, <3>1, <3>3
  <2> QED BY <2>3, <2>4
<1>2. CASE FindLive(b)
  <2>1. /\ Move(b, "getting", "row") /\ IsRun(b) /\ live \in Jobs
        /\ held' = [held EXCEPT ![b] = live] /\ onEvent' = [onEvent EXCEPT ![live] = {b}]
    BY <1>0, <1>2 DEF FindLive, ControlInv
  <2>2. pc[b] = "getting" /\ pc'[b] = "row" /\ \A c \in Jobs : c # b => pc'[c] = pc[c]
    BY <1>h, <2>1 DEF Move
  <2>3. r = b
    <3>1. r # b => pc[r] \in At  BY <2>2
    <3> QED BY <1>o, <2>1, <2>2, <3>1, OneRunInside DEF OutsidePcs
  <2> QED BY <1>h, <1>t, <2>1, <2>2, <2>3
<1>3. CASE StoreSession(b)
  <2>1. pc[b] = "storing" /\ \A c \in Jobs : c # b => pc'[c] = pc[c] /\ held'[c] = held[c]
    BY <1>3, <1>h DEF StoreSession, Move
  <2>2. \A c \in Jobs : held[c] # b
    <3>1. Unstored(b)  BY <2>1 DEF Unstored
    <3> QED BY <3>1 DEF LifeInv, SessionsInv
  <2>3. hooks' = hooks  BY <1>3 DEF StoreSession
  <2>4. CASE r # b
    <3>1. Heard(r) /\ held[r] \in Jobs  BY <1>h, <2>1, <2>4 DEF StreamInv
    <3>2. onEvent'[held[r]] = onEvent[held[r]] /\ rewired \subseteq rewired'
      BY <1>3, <1>t, <2>2, <3>1 DEF StoreSession
    <3> QED BY <2>1, <2>3, <2>4, <3>1, <3>2
  <2>5. CASE r = b
    <3>1. CASE live = None
      <4>1. /\ held' = [held EXCEPT ![b] = b]
            /\ onEvent' = [onEvent EXCEPT ![b] = {b}]
            /\ Move(b, "storing", "row")
        BY <1>3, <2>5, <3>1 DEF StoreSession
      <4>2. pc'[b] = "row"  BY <1>h, <4>1 DEF Move
      <4> QED BY <1>h, <1>t, <2>5, <4>1, <4>2
    <3>2. CASE live # None
      <4>1. held' = [held EXCEPT ![b] = live] /\ rewired' = rewired \cup {live}
        BY <1>3, <2>5, <3>2 DEF StoreSession
      <4> QED BY <1>h, <2>5, <4>1
    <3> QED BY <3>1, <3>2
  <2> QED BY <2>4, <2>5
<1>4. CASE BeginTurn(b)
  <2>1. /\ Move(b, "begin", "counting") /\ UNCHANGED <<held, onEvent, rewired>>
        /\ hooks' = [hooks EXCEPT ![held[b]] = onEvent[held[b]]]
    BY <1>4 DEF BeginTurn
  <2>2. pc[b] = "begin" /\ pc'[b] = "counting" /\ \A c \in Jobs : c # b => pc'[c] = pc[c]
    BY <1>h, <2>1 DEF Move
  <2>3. IsRun(b) /\ held[b] \in Jobs  BY <1>0, <2>2, RunAtWork
  <2>4. r = b
    <3>1. r # b => pc[r] \in At  BY <2>2
    <3> QED BY <1>o, <2>2, <2>3, <3>1, OneRunInside DEF OutsidePcs
  <2>5. held[b] \in rewired \/ b \in onEvent[held[b]]  BY <2>2, <2>3, <1>n DEF StreamInv
  <2> QED BY <1>t, <2>1, <2>3, <2>4, <2>5
<1>5. CASE Subscribe(b)
  <2>1. /\ Move(b, "loaded", "connected") /\ UNCHANGED <<held, rewired>>
        /\ onEvent' = [onEvent EXCEPT ![held[b]] = @ \cup {b}]
        /\ hooks' = [hooks EXCEPT ![held[b]] = onEvent'[held[b]]]
    BY <1>5 DEF Subscribe
  <2>2. pc[b] = "loaded" /\ pc'[b] = "connected" /\ \A c \in Jobs : c # b => pc'[c] = pc[c]
    BY <1>h, <2>1 DEF Move
  <2>3. r # b /\ pc'[r] = pc[r] /\ held[b] \in Jobs  BY <1>0, <2>2 DEF ControlInv
  <2>4. Heard(r)  BY <2>1, <2>3 DEF StreamInv
  <2>5. held[r] \in Jobs  BY <1>h, <2>1
  <2>6. onEvent[held[r]] \subseteq onEvent'[held[r]]  BY <1>t, <2>1, <2>3, <2>5
  <2>7. r \in onEvent[held[r]] /\ r \in hooks[held[r]] => r \in hooks'[held[r]]
    BY <1>t, <2>1, <2>3, <2>5, <2>6
  <2> QED BY <2>1, <2>3, <2>4, <2>6, <2>7
<1>6. CASE Unsubscribe(b)
  <2>1. /\ Move(b, "connected", "done") /\ held' = [held EXCEPT ![b] = None]
        /\ onEvent' = [onEvent EXCEPT ![held[b]] = saved[b]]
        /\ hooks' = [hooks EXCEPT ![held[b]] = saved[b]]
        /\ rewired' = rewired \cup {held[b]}
    BY <1>6 DEF Unsubscribe, Retire
  <2>2. pc'[b] = "done" /\ \A c \in Jobs : c # b => pc'[c] = pc[c] /\ held'[c] = held[c]
    BY <1>h, <2>1 DEF Move
  <2>3. r # b /\ pc'[r] = pc[r] /\ held'[r] = held[r]  BY <2>2
  <2>4. Heard(r) /\ held[r] \in Jobs  BY <1>h, <2>3 DEF StreamInv
  <2>5. held[r] # held[b] => onEvent'[held[r]] = onEvent[held[r]] /\ hooks'[held[r]] = hooks[held[r]]
    BY <1>t, <2>1, <2>4
  <2> QED BY <2>1, <2>3, <2>4, <2>5
<1> QED BY <1>0, <1>1, <1>2, <1>3, <1>4, <1>5, <1>6, MostStepsAreApart

\* So do the reaper's and the ends of the process.
LEMMA NextKeepsStreams ==
  ASSUME TypeInv, LifeInv, StreamInv, [Next]_vars
  PROVE  StreamInv'
<1>0. ControlInv  BY DEF TypeInv
<1>1. CASE UNCHANGED vars
  <2>1. UNCHANGED <<situation, pc, held, onEvent, hooks, rewired>>  BY <1>1 DEF vars, history
  <2> QED BY <2>1 DEF StreamInv, IsRun, Ask
<1>2. CASE Reap
  <2>1. UNCHANGED <<situation, held, onEvent, hooks, rewired>>
    <3>1. Reaper \notin Jobs  BY LifecycleAssumption
    <3> QED BY <1>2, <3>1 DEF Reap, Sweep, Evict, CloseStops, CloseEngine, DeleteRows, ends, callbacks
  <2>2. \E from, to : Move(Reaper, from, to)
    BY <1>2 DEF Reap, Sweep, Evict, CloseStops, CloseEngine, DeleteRows
  <2>3. \A r \in Jobs : pc'[r] = pc[r]
    BY <1>0, <2>2, LifecycleAssumption DEF Move, ControlInv
  <2> QED BY <2>1, <2>3 DEF StreamInv, IsRun, Ask
<1>3. CASE GoDown
  <2>1. \A r \in Jobs : held'[r] = None  BY <1>3 DEF GoDown
  <2> QED BY <2>1 DEF StreamInv
<1>4. CASE Restart
  <2>1. UNCHANGED <<situation, pc, held, onEvent, hooks, rewired>>
    BY <1>4 DEF Restart, callbacks
  <2> QED BY <2>1 DEF StreamInv, IsRun, Ask
<1> QED BY <1>1, <1>2, <1>3, <1>4, StepKeepsStreams DEF Next, Over

-----------------------------------------------------------------------------
(* What a fresh session holds.                                             *)

\* A call writes the transcript of the session it counts a turn of or builds,
\* and reads no other call's snapshot.
LEMMA TranscriptsMove ==
  ASSUME TypeInv, NEW b \in Jobs, Step(b)
  PROVE  /\ situation' = situation
         /\ \A r \in Jobs : r # b => snap'[r] = snap[r]
         /\ \/ CountTurn(b) \/ BuildEngine(b)
            \/ \A s \in Jobs : content'[s].messages = content[s].messages
<1> USE DEF ends, engines
<1>0. ControlInv /\ ContentInv  BY DEF TypeInv
<1>1. situation' = situation
  BY DEF Step, Inject, Enqueue, TakeKeyLock, Leave, ReleaseSession, CheckNotRunning,
         CloseStops, CloseEngine, FindLive, ResumeLive, ReadTranscript, BuildEngine, StoreSession,
         CreateRequest, BeginTurn, CountTurn, TurnAnswers, TurnFails, MarkError, EndTurn,
         SettleRequest, Persist, WriteFile, LoadSession, Interrupt, Stop, Compact, Configure,
         Subscribe, Unsubscribe, ResumeArrives, ReplaceServers
<1>2. snap' = snap \/ \E y : snap' = [snap EXCEPT ![b] = y]
  BY DEF Step, Inject, Enqueue, TakeKeyLock, Leave, ReleaseSession, CheckNotRunning,
         CloseStops, CloseEngine, FindLive, ResumeLive, ReadTranscript, BuildEngine, StoreSession,
         CreateRequest, BeginTurn, CountTurn, TurnAnswers, TurnFails, MarkError, EndTurn,
         SettleRequest, Persist, WriteFile, LoadSession, Interrupt, Stop, Compact, Configure,
         Subscribe, Unsubscribe, ResumeArrives, ReplaceServers, Retire, Unbuilt, Snapshot
<1>3. \A r \in Jobs : r # b => snap'[r] = snap[r]  BY <1>0, <1>2 DEF ContentInv
<1>4. \/ CountTurn(b) \/ BuildEngine(b) \/ TurnAnswers(b) \/ TurnFails(b) \/ Configure(b)
      \/ content' = content
  BY DEF Step, Inject, Enqueue, TakeKeyLock, Leave, ReleaseSession, CheckNotRunning,
         CloseStops, CloseEngine, FindLive, ResumeLive, ReadTranscript, StoreSession,
         CreateRequest, BeginTurn, MarkError, EndTurn,
         SettleRequest, Persist, WriteFile, LoadSession, Interrupt, Stop, Compact,
         Subscribe, Unsubscribe, ResumeArrives, ReplaceServers
<1>5. ASSUME TurnAnswers(b) \/ TurnFails(b), NEW s \in Jobs
      PROVE  content'[s].messages = content[s].messages
  <2>1. content' = content \/ content' = [content EXCEPT ![held[b]].guard.spent = @ + 1]
    BY <1>5 DEF TurnAnswers, TurnFails, Bill
  <2>2. content \in [Jobs -> Records]  BY <1>0 DEF ContentInv
  <2> QED BY <2>1, <2>2 DEF Records
<1>6. ASSUME Configure(b), NEW s \in Jobs
      PROVE  content'[s].messages = content[s].messages
  <2>1. content' = [content EXCEPT ![held[b]].disabled = ~@]  BY <1>6 DEF Configure
  <2>2. content \in [Jobs -> Records]  BY <1>0 DEF ContentInv
  <2> QED BY <2>1, <2>2 DEF Records
<1> QED BY <1>1, <1>3, <1>4, <1>5, <1>6

\* A call moves and equips itself alone, and puts only its own session in the map.
LEMMA OthersStay ==
  ASSUME TypeInv, NEW b \in Jobs, Step(b)
  PROVE  /\ \A r \in Jobs : r # b => pc'[r] = pc[r] /\ held'[r] = held[r]
         /\ \/ live' \in {live, None}
            \/ StoreSession(b) /\ live' = b
<1>0. ControlInv /\ TableInv  BY DEF TypeInv
<1>1. \A r \in Jobs : r # b => pc'[r] = pc[r]  BY <1>0, RowsMove
<1>2. held' = held \/ \E x : held' = [held EXCEPT ![b] = x]
  BY DEF Step, Inject, Enqueue, TakeKeyLock, Leave, ReleaseSession, CheckNotRunning,
         CloseStops, CloseEngine, FindLive, ResumeLive, ReadTranscript, BuildEngine, StoreSession,
         CreateRequest, BeginTurn, CountTurn, TurnAnswers, TurnFails, MarkError, EndTurn,
         SettleRequest, Persist, WriteFile, LoadSession, Interrupt, Stop, Compact, Configure,
         Subscribe, Unsubscribe, ResumeArrives, ReplaceServers, Retire, Unbuilt, Snapshot
<1>3. \/ live' \in {live, None}
      \/ StoreSession(b) /\ live' = b
  BY DEF Step, Inject, Enqueue, TakeKeyLock, Leave, ReleaseSession, TakeOut, CheckNotRunning,
         CloseStops, CloseEngine, FindLive, ResumeLive, ReadTranscript, BuildEngine, StoreSession,
         CreateRequest, BeginTurn, CountTurn, TurnAnswers, TurnFails, MarkError, EndTurn,
         SettleRequest, Persist, WriteFile, LoadSession, Interrupt, Stop, Compact, Configure,
         Subscribe, Unsubscribe, ResumeArrives, ReplaceServers
<1> QED BY <1>0, <1>1, <1>2, <1>3 DEF ControlInv

\* Another call's step leaves a fresh run's session as it was: no other run is
\* inside the lock, and what a resume puts in the map is a resume's.
LEMMA OthersKeepFresh ==
  ASSUME TypeInv, LifeInv, FreshnessInv, NEW b \in Jobs, Step(b), NEW r \in Jobs, r # b,
         Ask(r) = "fresh"
  PROVE  FreshInv(r)'
<1> DEFINE At == {"stopping", "closing", "row", "begin"} \cup TurnPcs
<1>0. ControlInv /\ FreshInv(r)  BY DEF TypeInv, FreshnessInv
<1>1. pc'[r] = pc[r] /\ held'[r] = held[r] /\ snap'[r] = snap[r] /\ situation' = situation
  BY OthersStay, TranscriptsMove
<1>2. situation'.ask = situation.ask  BY <1>1
<1>3. pc[r] \in {"checking", "building", "storing", "getting"} \cup At /\ IsRun(b) =>
        pc[b] \in OutsidePcs
  <2>1. IsRun(r)  BY DEF IsRun
  <2>2. pc[r] \in {"checking", "building", "storing", "getting"} \cup At => pc[r] \notin OutsidePcs
    BY DEF OutsidePcs
  <2> QED BY <2>1, <2>2, OneRunInside
<1>4. ASSUME pc[r] \in {"checking", "stopping", "closing", "getting", "building", "storing"}
      PROVE  live' = None \/ Ask(live') = "resume"
  <2>1. live = None \/ Ask(live) = "resume"  BY <1>0, <1>4 DEF FreshInv
  <2>2. ASSUME StoreSession(b), live' = b PROVE Ask(b) = "resume"
    <3>1. pc[b] = "storing"  BY <2>2 DEF StoreSession, Move
    <3>2. ~IsRun(b)  BY <1>3, <1>4, <3>1 DEF OutsidePcs
    <3> QED BY <3>1, <3>2 DEF FreshnessInv
  <2> QED BY <2>1, <2>2, OthersStay
<1>5. ASSUME pc[r] \in {"storing"} \cup At, pc[r] = "storing" \/ held[r] = r
      PROVE  content'[r].messages = content[r].messages
  <2>1. ~CountTurn(b)
    <3> SUFFICES ASSUME CountTurn(b) PROVE FALSE  OBVIOUS
    <3>1. pc[b] = "counting"  BY DEF CountTurn
    <3>2. IsRun(b)  BY <1>0, <3>1, RunAtWork
    <3> QED BY <1>3, <1>5, <3>1, <3>2 DEF OutsidePcs
  <2>2. BuildEngine(b) => content'[r].messages = content[r].messages
    <3>1. content \in [Jobs -> Records]  BY DEF TypeInv, ContentInv
    <3>2. BuildEngine(b) => content' = content \/ \E x : content' = [content EXCEPT ![b] = x]
      BY DEF BuildEngine
    <3> QED BY <3>1, <3>2
  <2> QED BY <2>1, <2>2, TranscriptsMove
<1>6. pc'[r] = "building" => snap'[r].messages = {}  BY <1>0, <1>1 DEF FreshInv
<1>7. pc'[r] = "storing" => content'[r].messages = {}  BY <1>0, <1>1, <1>5 DEF FreshInv
<1>8. pc'[r] \in At /\ held'[r] # None =>
        \/ held'[r] = r /\ content'[r].messages \subseteq {r}
        \/ situation'.ask[held'[r]] = "resume"
  <2>1. pc[r] \in At /\ held[r] # None =>
          \/ held[r] = r /\ content[r].messages \subseteq {r}
          \/ situation.ask[held[r]] = "resume"
    BY <1>0 DEF FreshInv, Ask
  <2> QED BY <1>1, <1>2, <1>5, <2>1
<1>9. pc'[r] \in {"checking", "stopping", "closing", "getting", "building", "storing"} =>
        live' = None \/ situation'.ask[live'] = "resume"
  BY <1>1, <1>2, <1>4 DEF Ask
<1> QED BY <1>6, <1>7, <1>8, <1>9 DEF FreshInv, Ask

\* Its own steps empty the map, fill it with what they built, and take from it
\* only what a resume put there.
LEMMA OwnStepKeepsFresh ==
  ASSUME TypeInv, LifeInv, FreshnessInv, NEW b \in Jobs, Step(b), Ask(b) = "fresh"
  PROVE  FreshInv(b)'
<1> DEFINE Late == {"stopping", "closing", "row", "begin"} \cup TurnPcs
           Seeking == {"checking", "stopping", "closing", "getting", "building", "storing"}
           LiveOK == live' = None \/ situation'.ask[live'] = "resume"
           HeldOK == \/ held'[b] = b /\ content'[b].messages \subseteq {b}
                     \/ situation'.ask[held'[b]] = "resume"
<1> USE DEF ends, engines
<1>0. ControlInv /\ FreshInv(b) /\ JobInv(b) /\ IsRun(b)
  BY DEF TypeInv, FreshnessInv, LifeInv, IsRun
<1>b. b \in Actors /\ b # Reaper /\ b # None  BY LifecycleAssumption
<1>p. pc \in [Actors -> Pcs] /\ held \in [Jobs -> Jobs \cup {None}]  BY <1>0 DEF ControlInv
<1>c. content \in [Jobs -> Records] /\ snap \in [Jobs -> Records]  BY DEF TypeInv, ContentInv
<1>s. situation' = situation  BY TranscriptsMove
<1>m. ASSUME NEW from, NEW to, Move(b, from, to) PROVE pc[b] = from /\ pc'[b] = to
  BY <1>b, <1>m, <1>p DEF Move
<1>q. SUFFICES /\ pc'[b] = "building" => snap'[b].messages = {}
               /\ pc'[b] = "storing" => content'[b].messages = {}
               /\ pc'[b] \in Seeking => LiveOK
               /\ pc'[b] \in Late /\ held'[b] # None => HeldOK
  BY DEF FreshInv, Ask
<1>l. ASSUME pc[b] \in Seeking, live' = live PROVE LiveOK
  BY <1>0, <1>l, <1>s DEF FreshInv, Ask
<1>h. ASSUME pc[b] \in Late, held'[b] = held[b],
             content'[b].messages = content[b].messages
      PROVE  held'[b] # None => HeldOK
  BY <1>0, <1>h, <1>s DEF FreshInv, Ask
<1>1. CASE \/ Inject(b) \/ Enqueue(b) \/ TakeKeyLock(b) \/ Leave(b) \/ ResumeLive(b)
           \/ EndTurn(b) \/ SettleRequest(b) \/ Persist(b) \/ (\E f \in Files : WriteFile(b, f))
           \/ LoadSession(b) \/ Interrupt(b) \/ Stop(b) \/ Compact(b) \/ Configure(b)
           \/ Subscribe(b) \/ Unsubscribe(b)
  <2>1. \E from, to : Move(b, from, to) /\ to \notin Seeking \cup Late
    <3>1. \A f \in DOMAIN NextWrite : NextWrite[f] \notin Seeking \cup Late  BY DEF NextWrite
    <3>2. TakeKeyLock(b) => Move(b, "wantLock", "releasing")  BY DEF TakeKeyLock
    <3> QED BY <1>1, <3>1, <3>2
            DEF Inject, Enqueue, Leave, ResumeLive, EndTurn, SettleRequest, Persist, Snapshot,
                WriteFile, LoadSession, Interrupt, Stop, Compact, Configure, Subscribe,
                Unsubscribe, Retire
  <2>2. pc'[b] \notin Seeking \cup Late  BY <1>m, <2>1
  <2> QED BY <2>2
<1>2. CASE ReleaseSession(b)
  <2>1. live' = None  BY <1>2 DEF ReleaseSession, TakeOut
  <2>2. pc'[b] \in {"getting", "checking"}  BY <1>2, <1>m DEF ReleaseSession
  <2> QED BY <2>1, <2>2
<1>3. CASE CheckNotRunning(b)
  <2>1. pc[b] = "checking" /\ pc'[b] \in {"getting", "stopping"} /\ live' = live /\ held' = held
    BY <1>3, <1>m DEF CheckNotRunning
  <2>2. held[b] = None  BY <1>0, <2>1 DEF JobInv, EarlyPcs
  <2> QED BY <1>l, <2>1, <2>2
<1>4. CASE CloseStops(b)
  <2>1. /\ pc[b] = "stopping" /\ pc'[b] = "closing"
        /\ live' = live /\ held' = held /\ content' = content
    BY <1>4, <1>m DEF CloseStops
  <2> QED BY <1>h, <1>l, <2>1
<1>5. CASE CloseEngine(b)
  <2>1. pc[b] = "closing" /\ pc'[b] = AfterClose(b)  BY <1>5, <1>m DEF CloseEngine
  <2>2. live' = live /\ held' = held /\ content' = content
    BY <1>0, <1>5 DEF CloseEngine
  <2>3. \/ pc'[b] = "getting"
        \/ pc'[b] = "row"
    BY <1>0, <1>b, <2>1 DEF AfterClose
  <2> QED BY <1>h, <1>l, <2>1, <2>2, <2>3
<1>6. CASE FindLive(b)
  <2>1. pc[b] = "getting" /\ pc'[b] = "row"  BY <1>6, <1>m DEF FindLive
  <2>2. live # None /\ live' = live /\ held'[b] = live  BY <1>6, <1>p DEF FindLive
  <2>3. situation.ask[live] = "resume"  BY <1>0, <2>1, <2>2 DEF FreshInv, Ask
  <2> QED BY <1>s, <2>1, <2>2, <2>3
<1>7. CASE ReadTranscript(b)
  <2>1. pc[b] = "getting" /\ pc'[b] \in {"building", "leave"} /\ live' = live
    BY <1>0, <1>7, <1>m DEF ReadTranscript, Unbuilt
  <2>2. pc'[b] = "building" => snap'[b].messages = {}
    <3>1. ~ReadsTranscript(b)  BY DEF ReadsTranscript
    <3>2. Move(b, "getting", "leave") => pc'[b] = "leave"  BY <1>m
    <3>3. pc'[b] = "building" => snap' = [snap EXCEPT ![b] = NothingRecorded]
      BY <1>0, <1>7, <3>1, <3>2 DEF ReadTranscript, Unbuilt
    <3> QED BY <1>c, <3>3 DEF NothingRecorded
  <2> QED BY <1>l, <2>1, <2>2
<1>8. CASE BuildEngine(b)
  <2>1. pc[b] = "building" /\ pc'[b] \in {"storing", "leave"} /\ live' = live
    BY <1>0, <1>8, <1>m DEF BuildEngine, Unbuilt
  <2>2. pc'[b] = "storing" => content'[b].messages = snap[b].messages
    <3>1. Move(b, "building", "leave") => pc'[b] = "leave"  BY <1>m
    <3>2. pc'[b] = "storing" => \E x : content' = [content EXCEPT ![b] = x] /\ x.messages = snap[b].messages
      BY <1>0, <1>8, <3>1 DEF BuildEngine, Unbuilt
    <3> QED BY <1>c, <3>2
  <2>3. snap[b].messages = {}  BY <1>0, <2>1 DEF FreshInv
  <2> QED BY <1>l, <2>1, <2>2, <2>3
<1>9. CASE StoreSession(b)
  <2>1. pc[b] = "storing" /\ content' = content  BY <1>9, <1>m DEF StoreSession
  <2>2. content[b].messages = {}  BY <1>0, <2>1 DEF FreshInv
  <2>3. CASE live = None
    <3>1. pc'[b] = "row" /\ held'[b] = b  BY <1>0, <1>9, <1>m, <1>p, <2>3 DEF StoreSession
    <3> QED BY <2>1, <2>2, <3>1
  <2>4. CASE live # None
    <3>1. pc'[b] = "stopping" /\ held'[b] = live /\ live' = live
      BY <1>9, <1>m, <1>p, <2>4 DEF StoreSession
    <3>2. situation.ask[live] = "resume"  BY <1>0, <2>1, <2>4 DEF FreshInv, Ask
    <3> QED BY <1>l, <1>s, <2>1, <3>1, <3>2
  <2> QED BY <2>3, <2>4
<1>10. CASE CreateRequest(b) \/ BeginTurn(b) \/ TurnAnswers(b) \/ TurnFails(b) \/ MarkError(b)
  <2>1. pc[b] \in Late /\ pc'[b] \in Late \ Seeking
    BY <1>10, <1>m DEF CreateRequest, BeginTurn, TurnAnswers, TurnFails, MarkError
  <2>2. held' = held
    BY <1>10 DEF CreateRequest, BeginTurn, TurnAnswers, TurnFails, MarkError
  <2>3. content'[b].messages = content[b].messages
    <3>1. pc[b] \in {"row", "begin", "working", "failing"}
      BY <1>10, <1>m DEF CreateRequest, BeginTurn, TurnAnswers, TurnFails, MarkError
    <3>2. ~BuildEngine(b)  BY <1>m, <3>1 DEF BuildEngine, Unbuilt, Retire
    <3>3. ~CountTurn(b)  BY <3>1 DEF CountTurn
    <3> QED BY <3>2, <3>3, TranscriptsMove
  <2> QED BY <1>h, <2>1, <2>2, <2>3
<1>11. CASE CountTurn(b)
  <2>1. pc[b] \in Late /\ pc'[b] \in Late \ Seeking /\ held' = held
    BY <1>11, <1>m DEF CountTurn
  <2>2. held[b] \in Jobs  BY <1>0, <1>11, RunAtWork DEF CountTurn
  <2>3. \E n, x : /\ content' = [content EXCEPT ![held[b]].counter = n, ![held[b]].messages = x]
                  /\ x \in {content[held[b]].messages, content[held[b]].messages \cup {b}}
    BY <1>11 DEF CountTurn
  <2>4. content'[held[b]].messages \subseteq content[held[b]].messages \cup {b}
    BY <1>c, <2>2, <2>3 DEF Records
  <2>5. \/ held[b] = b /\ content[b].messages \subseteq {b}
        \/ situation.ask[held[b]] = "resume"
    <3>1. held[b] # None  BY <2>2, LifecycleAssumption
    <3> QED BY <1>0, <2>1, <3>1 DEF FreshInv, Ask
  <2> QED BY <1>s, <2>1, <2>4, <2>5
<1>12. CASE ResumeArrives(b) \/ ReplaceServers(b)
  <2>1. ~ResumeArrives(b)  BY DEF ResumeArrives
  <2>2. pc[b] = "restarting"  BY <1>12, <1>m, <2>1 DEF ReplaceServers, Retire
  <2> QED BY <1>0, <2>2 DEF JobInv
<1> QED BY <1>1, <1>2, <1>3, <1>4, <1>5, <1>6, <1>7, <1>8, <1>9, <1>10, <1>11, <1>12 DEF Step

\* A job that looks for a session, builds one or restarts its servers is a run
\* or a resume, before a step and after it.
LEMMA BuildersStay ==
  ASSUME TypeInv, LifeInv, FreshnessInv, NEW b \in Jobs, Step(b), NEW r \in Jobs
  PROVE  (pc[r] \in {"getting", "building", "storing", "restarting"} => IsRun(r) \/ Ask(r) = "resume")'
<1> DEFINE At == {"getting", "building", "storing", "restarting"}
<1>0. ControlInv  BY DEF TypeInv
<1>1. situation' = situation  BY TranscriptsMove
<1>2. (IsRun(r) \/ Ask(r) = "resume")' <=> IsRun(r) \/ Ask(r) = "resume"  BY <1>1 DEF IsRun, Ask
<1>3. CASE r # b  BY <1>2, <1>3, OthersStay DEF FreshnessInv
<1>4. ASSUME r = b, ~IsRun(b), Ask(b) # "resume" PROVE pc'[b] \notin At
  <2>1. pc[b] \notin At \cup {"wantLock", "releasing", "checking"}
    BY <1>0, <1>4 DEF FreshnessInv, LifeInv, JobInv, RunPcs
  <2>2. ASSUME NEW to, pc' = [pc EXCEPT ![b] = to], to \notin At PROVE pc'[b] \notin At
    BY <1>0, <2>2 DEF ControlInv
  <2>3. \E to : pc' = [pc EXCEPT ![b] = to] /\ to \notin At
    <3>1. AfterClose(b) \notin At  BY <1>4, LifecycleAssumption DEF AfterClose
    <3>2. \A f \in DOMAIN NextWrite : NextWrite[f] \notin At  BY DEF NextWrite
    <3> QED BY <1>4, <2>1, <3>1, <3>2
        DEF Step, Inject, Enqueue, TakeKeyLock, Leave, ReleaseSession, CheckNotRunning,
            CloseStops, CloseEngine, FindLive, ResumeLive, ReadTranscript, BuildEngine, StoreSession,
            CreateRequest, BeginTurn, CountTurn, TurnAnswers, TurnFails, MarkError, EndTurn,
            SettleRequest, Persist, WriteFile, LoadSession, Interrupt, Stop, Compact, Configure,
            Subscribe, Unsubscribe, ResumeArrives, ReplaceServers, Retire, Unbuilt, Snapshot, Move
  <2> QED BY <2>2, <2>3
<1> QED BY <1>2, <1>3, <1>4

\* So do the reaper's and the ends of the process keep a fresh run's session.
LEMMA NextKeepsFreshness ==
  ASSUME TypeInv, LifeInv, FreshnessInv, [Next]_vars
  PROVE  FreshnessInv'
<1>0. ControlInv  BY DEF TypeInv
<1>1. CASE UNCHANGED vars
  <2>1. UNCHANGED <<situation, pc, held, live, content, snap>>  BY <1>1 DEF vars
  <2> QED BY <2>1 DEF FreshnessInv, FreshInv, IsRun, Ask
<1>2. ASSUME NEW b \in Jobs, Step(b) PROVE FreshnessInv'
  <2> SUFFICES ASSUME NEW r \in Jobs, (Ask(r) = "fresh")' PROVE FreshInv(r)'
    BY <1>2, BuildersStay DEF FreshnessInv
  <2>1. Ask(r) = "fresh"
    <3>1. situation' = situation  BY <1>2, TranscriptsMove
    <3> QED BY <3>1 DEF Ask
  <2>2. CASE r = b  BY <1>2, <2>1, <2>2, OwnStepKeepsFresh
  <2>3. CASE r # b  BY <1>2, <2>1, <2>3, OthersKeepFresh
  <2> QED BY <2>2, <2>3
<1>3. CASE Reap
  <2>1. UNCHANGED <<situation, held, content, snap>> /\ live' \in {live, None}
    <3>1. Reaper \notin Jobs  BY LifecycleAssumption
    <3> QED BY <1>3, <3>1 DEF Reap, Sweep, Evict, TakeOut, CloseStops, CloseEngine, DeleteRows, ends, engines
  <2>2. \E from, to : Move(Reaper, from, to)
    BY <1>3 DEF Reap, Sweep, Evict, CloseStops, CloseEngine, DeleteRows
  <2>3. \A r \in Jobs : pc'[r] = pc[r]
    BY <1>0, <2>2, LifecycleAssumption DEF Move, ControlInv
  <2> QED BY <2>1, <2>3 DEF FreshnessInv, FreshInv, IsRun, Ask
<1>4. CASE GoDown
  <2>1. situation' = situation /\ \A r \in Jobs : held'[r] = None
    BY <1>4 DEF GoDown
  <2>2. \A r \in Jobs : pc'[r] \in {"dead", "start", "done"}
    BY <1>4, LifecycleAssumption DEF GoDown, Abandoned
  <2> QED BY <2>1, <2>2 DEF FreshnessInv, FreshInv, IsRun, Ask
<1>5. CASE Restart
  <2>1. UNCHANGED <<situation, pc, held, live, content, snap>>  BY <1>5 DEF Restart, engines
  <2> QED BY <2>1 DEF FreshnessInv, FreshInv, IsRun, Ask
<1> QED BY <1>1, <1>2, <1>3, <1>4, <1>5 DEF Next, Over

-----------------------------------------------------------------------------
(* What the disk remembers.                                                *)

\* Nobody's guard counts what was not billed.
SpentInv ==
  /\ disk.guard.spent <= billed
  /\ \A r \in Jobs : content[r].guard.spent <= billed /\ snap[r].guard.spent <= billed

\* Who writes holds the session's mutex; and until a session leaves the map
\* under somebody's hands, everybody works with the one in the map.
HolderInv ==
  /\ \A r \in Jobs : pc[r] \in WritePcs => mu[held[r]] = r
  /\ ~overlap => \A r \in Jobs : held[r] \in {None, live}

\* Then a transcript on disk is part of that of the session, of a snapshot of it
\* that is about to be written over it, and of what a session is built from.
TranscriptInv(r) ==
  /\ r = live /\ Ask(r) # "fresh" => disk.messages \subseteq content[r].messages
  /\ pc[r] \in WritePcs => snap[r].messages \subseteq content[held[r]].messages
  /\ pc[r] = "messages" /\ Ask(held[r]) # "fresh" => disk.messages \subseteq snap[r].messages
  /\ live = None /\ Ask(r) # "fresh" =>
       /\ pc[r] = "building" => snap[r].messages = disk.messages
       /\ pc[r] = "storing" => content[r].messages = disk.messages

\* A run whose turn was billed, and who will persist that.
Owing(r) ==
  \/ pc[r] \in {"failing", "ending", "settle"} /\ outcome[r] \in {"ok", "text"}
  \/ pc[r] = "persist" /\ IsRun(r)
Recording(r) == pc[r] \in {"messages", "counter", "guard"}

\* A guard, or the total in a snapshot or on disk, that counts all turns but
\* those that ended with a process.
Counts(guard) == guard.spent + crashes >= billed

\* What a job has in its hands counts all but the turn somebody owes, and has
\* the cap of its session; so has what it builds.
HandsInv(r) ==
  /\ Recording(r) => /\ snap[r].guard.spent + crashes + 1 >= billed
                     /\ Counts(snap[r].guard) \/ \E b \in Jobs : Owing(b)
  /\ pc[r] \in WritePcs => snap[r].guard.capped = content[held[r]].guard.capped
  /\ pc[r] = "storing" /\ live = None =>
       /\ content[r].guard.spent = disk.guard.spent
       /\ disk.guard.capped => content[r].guard.capped

BudgetInv ==
  /\ torn = {}
  /\ live # None => /\ Counts(content[live].guard)
                    /\ disk.guard.capped => content[live].guard.capped
  /\ disk.guard.spent + crashes + 1 >= billed
  /\ Counts(disk.guard) \/ \E b \in Jobs : Owing(b) \/ (Recording(b) /\ IsRun(b))
  /\ \A r \in Jobs : HandsInv(r)

\* The four files are one snapshot as far as they have been written.
SettledInv ==
  /\ (\A r \in Jobs : pc[r] \notin WritePcs) => disk = settled
  /\ \A r \in Jobs : pc[r] \in WritePcs =>
       /\ settled = snap[r]
       /\ pc[r] # "messages" => disk.messages = settled.messages
       /\ pc[r] \in {"guard", "disabled"} => disk.counter = settled.counter
       /\ pc[r] = "disabled" => disk.guard = settled.guard

DiskInv ==
  /\ SpentInv /\ HolderInv
  /\ ~overlap => \A r \in Jobs : TranscriptInv(r)
  /\ ~overlap /\ faults = 0 => BudgetInv
  /\ ~overlap /\ faults = 0 /\ crashes = 0 => SettledInv

\* A step that writes, builds, bills and counts nothing.
Aside(a) ==
  /\ UNCHANGED <<situation, live, overlap, mu, billed, disk, torn, settled, faults, crashes>>
  /\ \A r \in Jobs : r # a => /\ pc'[r] = pc[r] /\ held'[r] = held[r]
                              /\ snap'[r] = snap[r] /\ outcome'[r] = outcome[r]
  /\ \A s \in Jobs : /\ content'[s].guard = content[s].guard
                     /\ content'[s].messages = content[s].messages
  /\ a \in Jobs =>
       /\ pc[a] \notin WritePcs /\ pc'[a] \notin WritePcs \cup {"building", "storing"}
       /\ held'[a] \in {held[a], None, live}
       /\ snap'[a] \in {snap[a], NothingRecorded}
       /\ Owing(a) => Owing(a)'

\* It keeps all of it.
LEMMA AsideKeepsDisk ==
  ASSUME TypeInv, DiskInv, NEW a \in Actors, Aside(a)
  PROVE  DiskInv'
<1>0. /\ UNCHANGED <<situation, live, overlap, mu, billed, disk, torn, settled, faults, crashes>>
      /\ \A r \in Jobs : IsRun(r)' = IsRun(r)
  BY DEF Aside, IsRun, Ask
<1>1. \A s \in Jobs : /\ content'[s].guard = content[s].guard
                      /\ content'[s].messages = content[s].messages
  BY DEF Aside
<1>2. \A r \in Jobs : pc'[r] \in WritePcs \cup {"building", "storing"} =>
        /\ pc'[r] = pc[r] /\ held'[r] = held[r] /\ snap'[r] = snap[r]
  BY DEF Aside
<1>3. \A r \in Jobs : pc[r] \in WritePcs => pc'[r] = pc[r]
  BY DEF Aside
<1>4. \A r \in Jobs : Owing(r) => Owing(r)'
  <2> SUFFICES ASSUME NEW r \in Jobs, r # a, Owing(r) PROVE Owing(r)'  BY DEF Aside
  <2>1. pc'[r] = pc[r] /\ outcome'[r] = outcome[r]  BY DEF Aside
  <2> QED BY <1>0, <2>1 DEF Owing
<1>5. SpentInv'
  <2>1. \A r \in Jobs : snap'[r] \in {snap[r], NothingRecorded}  BY DEF Aside
  <2>2. NothingRecorded.guard.spent <= billed  BY DEF NothingRecorded, TypeInv, ContentInv
  <2> QED BY <1>0, <1>1, <2>1, <2>2 DEF DiskInv, SpentInv
<1>6. HolderInv'
  <2>1. \A r \in Jobs : held'[r] \in {held[r], None, live}  BY DEF Aside
  <2> QED BY <1>0, <1>2, <2>1 DEF DiskInv, HolderInv
<1>7. ASSUME ~overlap, NEW r \in Jobs PROVE TranscriptInv(r)'
  <2>1. TranscriptInv(r) /\ HolderInv  BY <1>7 DEF DiskInv
  <2>2. pc[r] \in WritePcs => held[r] \in Jobs  BY DEF TypeInv, ControlInv
  <2> QED BY <1>0, <1>1, <1>2, <2>1, <2>2 DEF TranscriptInv, Ask
<1>8. ASSUME ~overlap, faults = 0 PROVE BudgetInv'
  <2>1. BudgetInv /\ HolderInv  BY <1>8 DEF DiskInv
  <2>2. live # None => live \in Jobs  BY DEF TypeInv, ControlInv
  <2>3. ASSUME NEW r \in Jobs PROVE HandsInv(r)'
    <3>1. HandsInv(r)  BY <2>1 DEF BudgetInv
    <3>2. pc[r] \in WritePcs => held[r] \in Jobs  BY DEF TypeInv, ControlInv
    <3>3. (\E b \in Jobs : Owing(b)) => (\E b \in Jobs : Owing(b)')  BY <1>4
    <3>4. Recording(r)' => Recording(r) /\ snap'[r] = snap[r]  BY <1>2 DEF Recording
    <3> QED BY <1>0, <1>1, <1>2, <3>1, <3>2, <3>3, <3>4 DEF HandsInv, Counts
  <2>4. \A b \in Jobs : Recording(b) /\ IsRun(b) => Recording(b)' /\ IsRun(b)'
    BY <1>0, <1>3 DEF Recording
  <2> QED BY <1>0, <1>1, <1>4, <2>1, <2>2, <2>3, <2>4 DEF BudgetInv, Counts
<1>9. ASSUME ~overlap, faults = 0, crashes = 0 PROVE SettledInv'
  <2>1. SettledInv  BY <1>9 DEF DiskInv
  <2> QED BY <1>0, <1>2, <1>3, <2>1 DEF SettledInv
<1> QED BY <1>0, <1>5, <1>6, <1>7, <1>8, <1>9 DEF DiskInv

\* What such a step leaves alone.
aside == <<situation, live, overlap, mu, billed, disk, torn, settled, faults, crashes, content, outcome>>

\* A job that was not in a turn it owes for, and goes where nothing is written,
\* is aside.
LEMMA MovingIsAside ==
  ASSUME TypeInv, NEW b \in Jobs, NEW from, NEW to, Move(b, from, to), UNCHANGED aside,
         from \notin WritePcs \cup {"failing", "ending", "settle", "persist"},
         to \notin WritePcs \cup {"building", "storing"},
         held' \in {held, [held EXCEPT ![b] = None], [held EXCEPT ![b] = live]},
         snap' \in {snap, [snap EXCEPT ![b] = NothingRecorded]}
  PROVE  Aside(b)
<1>1. /\ pc[b] = from /\ pc'[b] = to
      /\ \A r \in Jobs : r # b => pc'[r] = pc[r]
  BY DEF Move, TypeInv, ControlInv
<1>2. /\ held'[b] \in {held[b], None, live}
      /\ \A r \in Jobs : r # b => held'[r] = held[r]
  BY DEF TypeInv, ControlInv
<1>3. /\ snap'[b] \in {snap[b], NothingRecorded}
      /\ \A r \in Jobs : r # b => snap'[r] = snap[r]
  BY DEF TypeInv, ContentInv
<1>4. ~Owing(b)  BY <1>1 DEF Owing
<1> QED BY <1>1, <1>2, <1>3, <1>4 DEF Aside, aside

\* Arriving, queueing, closing, and finding a session.
LEMMA SearchIsAside ==
  ASSUME TypeInv, LifeInv, NEW b \in Jobs,
         \/ Inject(b) \/ Enqueue(b) \/ TakeKeyLock(b) \/ Leave(b) \/ FindLive(b) \/ ResumeLive(b)
         \/ CheckNotRunning(b) \/ CloseStops(b) \/ CloseEngine(b)
         \/ ReleaseSession(b) /\ live = None
         \/ StoreSession(b) /\ live # None
         \/ CreateRequest(b) \/ BeginTurn(b)
  PROVE  Aside(b)
<1> USE DEF ends, locks, engines, diskVars, aside
<1> DEFINE Held == held' \in {held, [held EXCEPT ![b] = None], [held EXCEPT ![b] = live]}
           Snap == snap' \in {snap, [snap EXCEPT ![b] = NothingRecorded]}
           At(from, to) ==
             /\ Move(b, from, to)
             /\ from \notin WritePcs \cup {"failing", "ending", "settle", "persist"}
             /\ to \notin WritePcs \cup {"building", "storing"}
<1>0. SUFFICES (\E from, to : At(from, to)) /\ Held /\ Snap /\ UNCHANGED aside
  BY MovingIsAside
<1>1. CASE Inject(b) \/ Enqueue(b) \/ TakeKeyLock(b) \/ Leave(b) \/ FindLive(b) \/ ResumeLive(b)
  <2>1. \E from, to : At(from, to)
    BY <1>1 DEF Inject, Enqueue, TakeKeyLock, Leave, FindLive, ResumeLive, Retire
  <2>2. Held /\ Snap
    BY <1>1 DEF Inject, Enqueue, TakeKeyLock, Leave, FindLive, ResumeLive, Retire
  <2>3. UNCHANGED aside
    BY <1>1 DEF Inject, Enqueue, TakeKeyLock, Leave, FindLive, ResumeLive
  <2> QED BY <2>1, <2>2, <2>3
<1>2. CASE \/ CheckNotRunning(b) \/ CloseStops(b) \/ CloseEngine(b)
           \/ ReleaseSession(b) /\ live = None
  <2>1. AfterClose(b) \notin WritePcs \cup {"building", "storing"}  BY LifecycleAssumption DEF AfterClose
  <2>2. \E from, to : At(from, to)
    BY <1>2, <2>1 DEF CheckNotRunning, CloseStops, CloseEngine, ReleaseSession
  <2>3. Held /\ Snap
    BY <1>2 DEF CheckNotRunning, CloseStops, CloseEngine, ReleaseSession
  <2>4. UNCHANGED aside
    BY <1>2 DEF CheckNotRunning, CloseStops, CloseEngine, ReleaseSession
  <2> QED BY <2>2, <2>3, <2>4
<1>3. CASE (StoreSession(b) /\ live # None) \/ CreateRequest(b) \/ BeginTurn(b)
  <2>1. \E from, to : At(from, to)
    BY <1>3 DEF StoreSession, CreateRequest, BeginTurn
  <2>2. Held /\ Snap
    BY <1>3 DEF StoreSession, CreateRequest, BeginTurn
  <2>3. UNCHANGED aside
    BY <1>3 DEF StoreSession, CreateRequest, BeginTurn
  <2> QED BY <2>1, <2>2, <2>3
<1> QED BY <1>1, <1>2, <1>3

\* The calls that do not queue, and a build that fails.
LEMMA CallsAreAside ==
  ASSUME TypeInv, LifeInv, NEW b \in Jobs,
         \/ LoadSession(b) \/ Interrupt(b) \/ Stop(b)
         \/ Subscribe(b) \/ Unsubscribe(b) \/ ResumeArrives(b) \/ ReplaceServers(b)
         \/ ReadTranscript(b) /\ pc'[b] # "building"
         \/ BuildEngine(b) /\ pc'[b] # "storing"
  PROVE  Aside(b)
<1> USE DEF ends, locks, engines, diskVars, aside
<1> DEFINE Held == held' \in {held, [held EXCEPT ![b] = None], [held EXCEPT ![b] = live]}
           Snap == snap' \in {snap, [snap EXCEPT ![b] = NothingRecorded]}
           At(from, to) ==
             /\ Move(b, from, to)
             /\ from \notin WritePcs \cup {"failing", "ending", "settle", "persist"}
             /\ to \notin WritePcs \cup {"building", "storing"}
<1>0. ASSUME (\E from, to : At(from, to)) /\ Held /\ Snap /\ UNCHANGED aside PROVE Aside(b)
  BY <1>0, MovingIsAside
<1>p. pc \in [Actors -> Pcs] /\ b \in Actors  BY DEF TypeInv, ControlInv
<1>1. CASE LoadSession(b) \/ Interrupt(b) \/ Stop(b) \/ Subscribe(b) \/ Unsubscribe(b)
  <2>1. \E from, to : At(from, to)
    BY <1>1 DEF LoadSession, Interrupt, Stop, Subscribe, Unsubscribe, Retire
  <2>2. Held /\ Snap
    BY <1>1 DEF LoadSession, Interrupt, Stop, Subscribe, Unsubscribe, Retire
  <2>3. UNCHANGED aside
    BY <1>1 DEF LoadSession, Interrupt, Stop, Subscribe, Unsubscribe
  <2> QED BY <1>0, <2>1, <2>2, <2>3
<1>2. CASE ResumeArrives(b) \/ ReplaceServers(b)
  <2>1. \E from, to : At(from, to)
    BY <1>2 DEF ResumeArrives, ReplaceServers, Retire
  <2>2. Held /\ Snap
    BY <1>2 DEF ResumeArrives, ReplaceServers, Retire
  <2>3. UNCHANGED aside
    BY <1>2 DEF ResumeArrives, ReplaceServers
  <2> QED BY <1>0, <2>1, <2>2, <2>3
<1>3. ASSUME NEW from \in {"getting", "building"}, Unbuilt(b, from), UNCHANGED aside PROVE Aside(b)
  <2>1. \E to : At(from, to)  BY <1>3 DEF Unbuilt, Retire
  <2>2. Held /\ Snap  BY <1>3 DEF Unbuilt, Retire
  <2> QED BY <1>0, <1>3, <2>1, <2>2
<1>4. CASE ReadTranscript(b) /\ pc'[b] # "building"
  <2>1. ~Move(b, "getting", "building")  BY <1>4, <1>p DEF Move
  <2>2. Unbuilt(b, "getting") /\ UNCHANGED aside  BY <1>4, <2>1 DEF ReadTranscript
  <2> QED BY <1>3, <2>2
<1>5. CASE BuildEngine(b) /\ pc'[b] # "storing"
  <2>1. ~Move(b, "building", "storing")  BY <1>5, <1>p DEF Move
  <2>2. Unbuilt(b, "building") /\ UNCHANGED aside  BY <1>5, <2>1 DEF BuildEngine
  <2> QED BY <1>3, <2>2
<1> QED BY <1>1, <1>2, <1>4, <1>5

\* A tool put back is neither spent nor said.
LEMMA ConfigureIsAside ==
  ASSUME TypeInv, NEW b \in Jobs, Configure(b)
  PROVE  Aside(b)
<1> USE DEF ends, locks, engines, diskVars
<1>1. /\ Move(b, "loaded", "done") /\ held' = [held EXCEPT ![b] = None]
      /\ snap' = [snap EXCEPT ![b] = NothingRecorded]
      /\ content' = [content EXCEPT ![held[b]].disabled = ~@]
      /\ UNCHANGED <<situation, live, overlap, mu, billed, disk, torn, settled, faults, crashes, outcome>>
  BY DEF Configure, Retire
<1>2. /\ pc[b] = "loaded" /\ pc'[b] = "done"
      /\ \A r \in Jobs : r # b => pc'[r] = pc[r]
  BY <1>1 DEF Move, TypeInv, ControlInv
<1>3. /\ held'[b] = None
      /\ \A r \in Jobs : r # b => held'[r] = held[r]
  BY <1>1 DEF TypeInv, ControlInv
<1>4. /\ snap'[b] = NothingRecorded
      /\ \A r \in Jobs : r # b => snap'[r] = snap[r]
  BY <1>1 DEF TypeInv, ContentInv
<1>5. \A s \in Jobs : /\ content'[s].guard = content[s].guard
                      /\ content'[s].messages = content[s].messages
  BY <1>1 DEF TypeInv, ContentInv, Records
<1>6. ~Owing(b)  BY <1>2 DEF Owing
<1> QED BY <1>1, <1>2, <1>3, <1>4, <1>5, <1>6 DEF Aside

\* The end of a turn: what is owed is owed on.
LEMMA EndingIsAside ==
  ASSUME TypeInv, LifeInv, NEW b \in Jobs, MarkError(b) \/ EndTurn(b) \/ SettleRequest(b)
  PROVE  Aside(b)
<1> USE DEF ends, locks, engines, diskVars
<1>1. UNCHANGED <<situation, live, overlap, mu, billed, disk, torn, settled, faults, crashes,
                  content, outcome, held, snap>>
  BY DEF MarkError, EndTurn, SettleRequest
<1>2. PICK from \in {"failing", "ending", "settle"}, to \in {"ending", "settle", "persist", "leave"} :
        /\ Move(b, from, to)
        /\ to = "persist" <=> from = "settle" /\ outcome[b] # "nothing"
        /\ to = "leave" <=> from = "settle" /\ outcome[b] = "nothing"
  BY DEF MarkError, EndTurn, SettleRequest
<1>3. /\ pc[b] = from /\ pc'[b] = to
      /\ \A r \in Jobs : r # b => pc'[r] = pc[r]
  BY <1>2 DEF Move, TypeInv, ControlInv
<1>4. IsRun(b)  BY <1>3, RunAtWork DEF TypeInv
<1>5. Owing(b) => Owing(b)'
  <2>1. IsRun(b)'  BY <1>1, <1>4 DEF IsRun, Ask
  <2> QED BY <1>1, <1>2, <1>3, <2>1 DEF Owing
<1> QED BY <1>1, <1>3, <1>5 DEF Aside

\* Who writes, builds or owes has a session, or is building one.
LEMMA HandsAreFull ==
  ASSUME TypeInv, LifeInv, NEW r \in Jobs
  PROVE  /\ pc[r] \in WritePcs \/ Owing(r) \/ Recording(r) => held[r] \in Jobs
         /\ held[r] \in Jobs => held[r] # None
<1>1. pc[r] \in HoldingPcs => held[r] \in Jobs  BY DEF TypeInv, ControlInv
<1> QED BY <1>1, LifecycleAssumption DEF Owing, Recording

\* A session that leaves the map in nobody's hands has been persisted.
LEMMA TakingOutKeepsDisk ==
  ASSUME TypeInv, LifeInv, DiskInv, NEW a \in Actors, NEW from, NEW to, live # None, TakeOut(a),
         Move(a, from, to),
         \/ a = Reaper /\ from = "collected" /\ to = "stopping"
         \/ a \in Jobs /\ from = "releasing" /\ to = "checking",
         UNCHANGED <<situation, held, mu, content, snap, outcome, disk, torn, settled, billed,
                     faults, crashes>>
  PROVE  DiskInv'
<1>1. /\ pc[a] = from /\ pc'[a] = to
      /\ \A r \in Actors : r # a => pc'[r] = pc[r]
  BY DEF Move, TypeInv, ControlInv
<1>2. /\ live' = None
      /\ ~overlap' => /\ ~overlap
                      /\ \A r \in Jobs : r # a => held[r] # live /\ pc[r] \notin {"building", "storing"}
  BY DEF TakeOut
<1>3. \A r \in Jobs : /\ pc'[r] \in WritePcs <=> pc[r] \in WritePcs
                      /\ pc[r] \in WritePcs => pc'[r] = pc[r]
                      /\ Owing(r)' <=> Owing(r)
                      /\ Recording(r)' <=> Recording(r)
  <2> SUFFICES ASSUME NEW r \in Jobs PROVE /\ pc'[r] \in WritePcs <=> pc[r] \in WritePcs
                                           /\ pc[r] \in WritePcs => pc'[r] = pc[r]
                                           /\ Owing(r)' <=> Owing(r)
                                           /\ Recording(r)' <=> Recording(r)
    OBVIOUS
  <2>1. CASE r # a
    <3>1. pc'[r] = pc[r]  BY <1>1, <2>1
    <3> QED BY <3>1 DEF Owing, Recording, IsRun, Ask
  <2>2. CASE r = a
    <3>1. pc[r] = "releasing" /\ pc'[r] = "checking"  BY <1>1, <2>2, LifecycleAssumption
    <3> QED BY <3>1 DEF Owing, Recording
  <2> QED BY <2>1, <2>2
<1>4. ASSUME ~overlap' PROVE ~overlap /\ \A r \in Jobs : held[r] = None
  <2>1. ~overlap  BY <1>2, <1>4
  <2>2. ASSUME NEW r \in Jobs PROVE held[r] = None
    <3>1. held[r] \in {None, live}  BY <2>1 DEF DiskInv, HolderInv
    <3>2. CASE r # a  BY <1>2, <1>4, <3>1, <3>2
    <3>3. CASE r = a
      <4>1. JobInv(r) /\ pc[r] = "releasing"  BY <1>1, <3>3, LifecycleAssumption DEF LifeInv
      <4> QED BY <4>1 DEF JobInv, EarlyPcs
    <3> QED BY <3>2, <3>3
  <2> QED BY <2>1, <2>2
<1>5. ASSUME ~overlap', NEW r \in Jobs
      PROVE  /\ pc[r] \notin WritePcs /\ ~Owing(r) /\ ~Recording(r)
             /\ pc'[r] \notin WritePcs \cup {"building", "storing"}
  <2>1. held[r] = None  BY <1>4, <1>5
  <2>2. pc[r] \notin WritePcs /\ ~Owing(r) /\ ~Recording(r)  BY <2>1, HandsAreFull
  <2>3. r # a => pc'[r] \notin {"building", "storing"}  BY <1>1, <1>2, <1>5
  <2>4. r = a => pc'[r] \notin {"building", "storing"}  BY <1>1
  <2> QED BY <1>3, <2>2, <2>3, <2>4
<1>6. SpentInv'  BY DEF DiskInv, SpentInv
<1>7. HolderInv'
  <2>1. \A r \in Jobs : pc'[r] \in WritePcs => mu[held[r]] = r  BY <1>3 DEF DiskInv, HolderInv
  <2> QED BY <1>4, <2>1 DEF HolderInv
<1>8. ASSUME ~overlap', NEW r \in Jobs PROVE TranscriptInv(r)'
  <2>1. r # live'  BY <1>2, LifecycleAssumption
  <2> QED BY <1>5, <1>8, <2>1 DEF TranscriptInv
<1>9. ASSUME ~overlap', faults = 0 PROVE BudgetInv'
  <2>1. BudgetInv  BY <1>4, <1>9 DEF DiskInv
  <2>2. Counts(disk.guard)  BY <1>5, <1>9, <2>1 DEF BudgetInv
  <2>3. \A r \in Jobs : HandsInv(r)'  BY <1>3, <1>5, <1>9 DEF HandsInv
  <2> QED BY <1>2, <2>1, <2>2, <2>3 DEF BudgetInv, Counts
<1>10. ASSUME ~overlap', faults = 0, crashes = 0 PROVE SettledInv'
  <2>1. SettledInv  BY <1>4, <1>10 DEF DiskInv
  <2> QED BY <1>5, <1>10, <2>1 DEF SettledInv
<1> QED BY <1>6, <1>7, <1>8, <1>9, <1>10 DEF DiskInv

\* What is read is what is on disk.
LEMMA ReadingKeepsDisk ==
  ASSUME TypeInv, LifeInv, DiskInv, NEW b \in Jobs, ReadTranscript(b), pc'[b] = "building"
  PROVE  DiskInv'
<1> USE DEF ends, locks, engines, diskVars
<1>p. pc \in [Actors -> Pcs] /\ b \in Actors  BY DEF TypeInv, ControlInv
<1>m. \A from, to : Move(b, from, to) => pc'[b] = to  BY <1>p DEF Move
<1>1. ~Unbuilt(b, "getting")  BY <1>m DEF Unbuilt, Retire
<1> DEFINE y == IF ReadsTranscript(b)
                THEN [NothingRecorded EXCEPT
                        !.messages = disk.messages,
                        !.counter = IF "counter" \in torn THEN 0 ELSE disk.counter]
                ELSE NothingRecorded
<1>2. /\ Move(b, "getting", "building") /\ snap' = [snap EXCEPT ![b] = y]
      /\ UNCHANGED <<situation, live, overlap, held, mu, content, outcome, disk, torn, settled,
                     billed, faults, crashes>>
  BY <1>1 DEF ReadTranscript
<1>3. y.guard.spent = 0 /\ (Ask(b) # "fresh" => y.messages = disk.messages)
  BY DEF NothingRecorded, ReadsTranscript
<1> HIDE DEF y
<1>4. /\ pc[b] = "getting" /\ \A r \in Jobs : r # b => pc'[r] = pc[r]
      /\ snap'[b] = y /\ \A r \in Jobs : r # b => snap'[r] = snap[r]
  BY <1>2 DEF Move, TypeInv, ControlInv, ContentInv
<1>5. \A r \in Jobs : /\ Owing(r)' <=> Owing(r)
                      /\ Recording(r)' <=> Recording(r)
                      /\ IsRun(r)' <=> IsRun(r)
  BY <1>2, <1>4 DEF Owing, Recording, IsRun, Ask
<1>6. \A r \in Jobs : pc'[r] \in WritePcs \cup {"storing"} => r # b
  BY <1>2, <1>m
<1>7. SpentInv'
  <2>1. 0 <= billed  BY DEF TypeInv, ContentInv
  <2> QED BY <1>2, <1>3, <1>4, <2>1 DEF DiskInv, SpentInv
<1>8. HolderInv'  BY <1>2, <1>4, <1>6 DEF DiskInv, HolderInv
<1>9. ASSUME ~overlap, NEW r \in Jobs PROVE TranscriptInv(r)'
  <2>1. TranscriptInv(r)  BY <1>9 DEF DiskInv
  <2>2. CASE r # b  BY <1>2, <1>4, <2>1, <2>2 DEF TranscriptInv, Ask
  <2>3. CASE r = b
    <3>1. pc'[r] \notin WritePcs \cup {"storing"}  BY <1>6, <2>3
    <3> QED BY <1>2, <1>3, <1>4, <2>1, <2>3, <3>1 DEF TranscriptInv, Ask
  <2> QED BY <2>2, <2>3
<1>10. ASSUME ~overlap, faults = 0 PROVE BudgetInv'
  <2>1. BudgetInv  BY <1>10 DEF DiskInv
  <2>2. ASSUME NEW r \in Jobs PROVE HandsInv(r)'
    <3>1. HandsInv(r)  BY <2>1 DEF BudgetInv
    <3>2. CASE r # b  BY <1>2, <1>4, <1>5, <3>1, <3>2 DEF HandsInv, Counts
    <3>3. CASE r = b
      <4>1. pc'[r] \notin WritePcs \cup {"storing"}  BY <1>6, <3>3
      <4> QED BY <4>1 DEF HandsInv, Recording
    <3> QED BY <3>2, <3>3
  <2> QED BY <1>2, <1>5, <2>1, <2>2 DEF BudgetInv, Counts
<1>11. ASSUME ~overlap, faults = 0, crashes = 0 PROVE SettledInv'
  <2>1. SettledInv  BY <1>11 DEF DiskInv
  <2> QED BY <1>2, <1>4, <1>6, <2>1 DEF SettledInv
<1> QED BY <1>2, <1>7, <1>8, <1>9, <1>10, <1>11 DEF DiskInv

\* What is built has the transcript that was read and the budget that is left.
LEMMA BuildingKeepsDisk ==
  ASSUME TypeInv, LifeInv, DiskInv, NEW b \in Jobs, BuildEngine(b), pc'[b] = "storing"
  PROVE  DiskInv'
<1> USE DEF ends, locks, engines, diskVars
<1>p. pc \in [Actors -> Pcs] /\ b \in Actors  BY DEF TypeInv, ControlInv
<1>m. \A from, to : Move(b, from, to) => pc'[b] = to  BY <1>p DEF Move
<1>1. ~Unbuilt(b, "building")  BY <1>m DEF Unbuilt, Retire
<1> DEFINE x == [messages |-> snap[b].messages, counter |-> snap[b].counter,
                 guard |-> RestoredGuard(b),
                 disabled |-> "disabled" \notin torn /\ disk.disabled]
<1>2. /\ Move(b, "building", "storing") /\ content' = [content EXCEPT ![b] = x]
      /\ snap' = [snap EXCEPT ![b] = NothingRecorded]
      /\ UNCHANGED <<situation, live, overlap, held, mu, outcome, disk, torn, settled,
                     billed, faults, crashes>>
  BY <1>1 DEF BuildEngine
<1>3. x.messages = snap[b].messages /\ x.guard = RestoredGuard(b)  OBVIOUS
<1> HIDE DEF x
<1>4. /\ RestoredGuard(b).spent \in {0, disk.guard.spent}
      /\ "guard" \notin torn => /\ RestoredGuard(b).spent = disk.guard.spent
                                /\ disk.guard.capped => RestoredGuard(b).capped
  BY DEF RestoredGuard
<1>5. /\ pc[b] = "building" /\ \A r \in Jobs : r # b => pc'[r] = pc[r]
      /\ snap'[b] = NothingRecorded /\ \A r \in Jobs : r # b => snap'[r] = snap[r]
      /\ content'[b] = x /\ \A r \in Jobs : r # b => content'[r] = content[r]
  BY <1>2 DEF Move, TypeInv, ControlInv, ContentInv
<1>6. live # b /\ \A r \in Jobs : held[r] # b
  <2>1. JobInv(b) /\ SessionsInv(b)  BY DEF LifeInv
  <2>2. Unstored(b)  BY <1>5, <2>1 DEF JobInv, UnbuiltPcs, Unstored
  <2> QED BY <2>1, <2>2 DEF SessionsInv
<1>7. \A r \in Jobs : /\ Owing(r)' <=> Owing(r)
                      /\ Recording(r)' <=> Recording(r)
                      /\ IsRun(r)' <=> IsRun(r)
  BY <1>2, <1>5 DEF Owing, Recording, IsRun, Ask
<1>8. \A r \in Jobs : pc'[r] \in WritePcs \cup {"building"} => r # b
  BY <1>2, <1>m
<1>9. SpentInv'
  <2>1. 0 <= billed  BY DEF TypeInv, ContentInv
  <2>2. NothingRecorded.guard.spent = 0  BY DEF NothingRecorded
  <2> QED BY <1>2, <1>3, <1>4, <1>5, <2>1, <2>2 DEF DiskInv, SpentInv
<1>10. HolderInv'  BY <1>2, <1>5, <1>8 DEF DiskInv, HolderInv
<1>11. ASSUME ~overlap, NEW r \in Jobs PROVE TranscriptInv(r)'
  <2>1. TranscriptInv(r)  BY <1>11 DEF DiskInv
  <2>2. CASE r # b
    <3>1. pc[r] \in WritePcs => held[r] \in Jobs /\ held[r] # b  BY <1>6, HandsAreFull
    <3> QED BY <1>2, <1>5, <2>1, <2>2, <3>1 DEF TranscriptInv, Ask
  <2>3. CASE r = b
    <3>1. pc'[r] \notin WritePcs \cup {"building"}  BY <1>8, <2>3
    <3> QED BY <1>2, <1>3, <1>5, <1>6, <2>1, <2>3, <3>1 DEF TranscriptInv, Ask
  <2> QED BY <2>2, <2>3
<1>12. ASSUME ~overlap, faults = 0 PROVE BudgetInv'
  <2>1. BudgetInv  BY <1>12 DEF DiskInv
  <2>2. ASSUME NEW r \in Jobs PROVE HandsInv(r)'
    <3>1. HandsInv(r)  BY <2>1 DEF BudgetInv
    <3>2. CASE r # b
      <4>1. pc[r] \in WritePcs => held[r] \in Jobs /\ held[r] # b  BY <1>6, HandsAreFull
      <4> QED BY <1>2, <1>5, <1>7, <3>1, <3>2, <4>1 DEF HandsInv, Counts
    <3>3. CASE r = b
      <4>1. pc'[r] \notin WritePcs \cup {"building"}  BY <1>8, <3>3
      <4>2. torn = {}  BY <2>1 DEF BudgetInv
      <4> QED BY <1>2, <1>3, <1>4, <1>5, <3>3, <4>1, <4>2 DEF HandsInv, Recording
    <3> QED BY <3>2, <3>3
  <2>3. live # None => live \in Jobs /\ live # b  BY <1>6 DEF TypeInv, ControlInv
  <2> QED BY <1>2, <1>5, <1>7, <2>1, <2>2, <2>3 DEF BudgetInv, Counts
<1>13. ASSUME ~overlap, faults = 0, crashes = 0 PROVE SettledInv'
  <2>1. SettledInv  BY <1>13 DEF DiskInv
  <2> QED BY <1>2, <1>5, <1>8, <2>1 DEF SettledInv
<1> QED BY <1>2, <1>9, <1>10, <1>11, <1>12, <1>13 DEF DiskInv

\* What is put into the map is what the disk remembers.
LEMMA StoringKeepsDisk ==
  ASSUME TypeInv, LifeInv, DiskInv, NEW b \in Jobs, StoreSession(b), live = None
  PROVE  DiskInv'
<1> USE DEF ends, locks, engines, diskVars
<1>1. /\ live' = b /\ \E to \in {"row", "done"} : Move(b, "storing", to)
      /\ held' = [held EXCEPT ![b] = IF IsRun(b) THEN b ELSE None]
      /\ UNCHANGED <<situation, overlap, mu, content, snap, outcome, disk, torn, settled,
                     billed, faults, crashes>>
  BY DEF StoreSession
<1>2. /\ pc[b] = "storing" /\ pc'[b] \in {"row", "done"}
      /\ \A r \in Jobs : r # b => pc'[r] = pc[r]
      /\ held'[b] \in {b, None} /\ \A r \in Jobs : r # b => held'[r] = held[r]
  BY <1>1 DEF Move, TypeInv, ControlInv
<1>3. b # None  BY LifecycleAssumption
<1>4. \A r \in Jobs : pc'[r] \in WritePcs => r # b  BY <1>2
<1>5. \A r \in Jobs : /\ Owing(r)' <=> Owing(r)
                      /\ Recording(r)' <=> Recording(r)
                      /\ IsRun(r)' <=> IsRun(r)
  BY <1>1, <1>2 DEF Owing, Recording, IsRun, Ask
<1>6. SpentInv'  BY <1>1 DEF DiskInv, SpentInv
<1>7. ~overlap => \A r \in Jobs : held[r] = None  BY DEF DiskInv, HolderInv
<1>8. HolderInv'
  <2>1. \A r \in Jobs : pc'[r] \in WritePcs => mu[held[r]] = r /\ held'[r] = held[r]
    BY <1>2, <1>4 DEF DiskInv, HolderInv
  <2> QED BY <1>1, <1>2, <1>7, <2>1 DEF HolderInv
<1>9. ASSUME ~overlap, NEW r \in Jobs PROVE TranscriptInv(r)'
  <2>1. TranscriptInv(b) /\ TranscriptInv(r)  BY <1>9 DEF DiskInv
  <2>2. pc'[r] \notin WritePcs
    <3>1. pc[r] \notin WritePcs  BY <1>7, <1>9, HandsAreFull
    <3> QED BY <1>2, <3>1
  <2>3. r = b /\ Ask(r) # "fresh" => disk.messages \subseteq content[r].messages
    BY <1>2, <2>1 DEF TranscriptInv
  <2> QED BY <1>1, <1>3, <2>2, <2>3 DEF TranscriptInv, Ask
<1>10. ASSUME ~overlap, faults = 0 PROVE BudgetInv'
  <2>1. BudgetInv  BY <1>10 DEF DiskInv
  <2>2. \A r \in Jobs : pc[r] \notin WritePcs /\ ~Owing(r) /\ ~Recording(r)
    BY <1>7, <1>10, HandsAreFull
  <2>3. Counts(disk.guard)  BY <2>1, <2>2 DEF BudgetInv
  <2>4. /\ content[b].guard.spent = disk.guard.spent
        /\ disk.guard.capped => content[b].guard.capped
    BY <1>2, <2>1 DEF BudgetInv, HandsInv
  <2>5. \A r \in Jobs : pc'[r] \notin WritePcs  BY <1>2, <2>2
  <2>6. \A r \in Jobs : HandsInv(r)'
    BY <1>1, <1>3, <1>5, <2>2, <2>5 DEF HandsInv
  <2>7. Counts(content[b].guard)  BY <2>3, <2>4 DEF Counts
  <2> QED BY <1>1, <2>1, <2>3, <2>4, <2>6, <2>7 DEF BudgetInv, Counts
<1>11. ASSUME ~overlap, faults = 0, crashes = 0 PROVE SettledInv'
  <2>1. SettledInv  BY <1>11 DEF DiskInv
  <2> QED BY <1>1, <1>2, <1>4, <2>1 DEF SettledInv
<1> QED BY <1>1, <1>6, <1>8, <1>9, <1>10, <1>11 DEF DiskInv

\* A turn that is counted adds itself to its session's transcript.
LEMMA CountingKeepsDisk ==
  ASSUME TypeInv, LifeInv, DiskInv, NEW b \in Jobs, CountTurn(b)
  PROVE  DiskInv'
<1> USE DEF ends, locks, engines, diskVars
<1>1. /\ \E to \in {"failing", "working"} : Move(b, "counting", to) /\ (to = "failing" => outcome'[b] = "nothing")
      /\ outcome' \in {outcome, [outcome EXCEPT ![b] = "nothing"]}
      /\ \E m : /\ content' = [content EXCEPT ![held[b]].counter = @ + 1, ![held[b]].messages = m]
                /\ m \in {content[held[b]].messages, content[held[b]].messages \cup {b}}
      /\ UNCHANGED <<situation, live, overlap, held, mu, snap, disk, torn, settled, billed,
                     faults, crashes>>
  BY DEF CountTurn, TypeInv, TableInv
<1>2. /\ pc[b] = "counting" /\ pc'[b] \in {"failing", "working"}
      /\ pc'[b] = "failing" => outcome'[b] = "nothing"
      /\ \A r \in Jobs : r # b => pc'[r] = pc[r] /\ outcome'[r] = outcome[r]
  BY <1>1 DEF Move, TypeInv, ControlInv, TableInv
<1>3. held[b] \in Jobs  BY <1>2 DEF TypeInv, ControlInv
<1>4. \A s \in Jobs : /\ content'[s].guard = content[s].guard
                      /\ content[s].messages \subseteq content'[s].messages
                      /\ s # held[b] => content'[s].messages = content[s].messages
  BY <1>1, <1>3 DEF TypeInv, ContentInv, Records
<1>5. \A r \in Jobs : pc[r] = "storing" => held[b] # r
  BY <1>3 DEF LifeInv, SessionsInv, Unstored
<1>6. \A r \in Jobs : /\ Owing(r) => Owing(r)'
                      /\ Recording(r)' <=> Recording(r)
                      /\ IsRun(r)' <=> IsRun(r)
  BY <1>1, <1>2 DEF Owing, Recording, IsRun, Ask
<1>7. \A r \in Jobs : /\ pc'[r] \in WritePcs \cup {"building", "storing"} => r # b
                      /\ pc[r] \in WritePcs => r # b
  BY <1>2
<1>8. \A r \in Jobs : pc[r] \in WritePcs => held[r] \in Jobs  BY HandsAreFull
<1>9. SpentInv'  BY <1>1, <1>4 DEF DiskInv, SpentInv
<1>10. HolderInv'  BY <1>1, <1>2, <1>7 DEF DiskInv, HolderInv
<1>11. ASSUME ~overlap, NEW r \in Jobs PROVE TranscriptInv(r)'
  <2>1. TranscriptInv(r)  BY <1>11 DEF DiskInv
  <2>2. pc'[r] \in WritePcs \cup {"building", "storing"} => pc'[r] = pc[r]  BY <1>2, <1>7
  <2> QED BY <1>1, <1>4, <1>5, <1>8, <2>1, <2>2 DEF TranscriptInv, Ask
<1>12. ASSUME ~overlap, faults = 0 PROVE BudgetInv'
  <2>1. BudgetInv  BY <1>12 DEF DiskInv
  <2>2. ASSUME NEW r \in Jobs PROVE HandsInv(r)'
    <3>1. HandsInv(r)  BY <2>1 DEF BudgetInv
    <3>2. pc'[r] \in WritePcs \cup {"building", "storing"} => pc'[r] = pc[r]  BY <1>2, <1>7
    <3>3. (\E c \in Jobs : Owing(c)) => (\E c \in Jobs : Owing(c)')  BY <1>6
    <3> QED BY <1>1, <1>4, <1>6, <1>8, <3>1, <3>2, <3>3 DEF HandsInv, Counts
  <2>3. live # None => live \in Jobs  BY DEF TypeInv, ControlInv
  <2> QED BY <1>1, <1>4, <1>6, <2>1, <2>2, <2>3 DEF BudgetInv, Counts
<1>13. ASSUME ~overlap, faults = 0, crashes = 0 PROVE SettledInv'
  <2>1. SettledInv  BY <1>13 DEF DiskInv
  <2> QED BY <1>1, <1>2, <1>7, <2>1 DEF SettledInv
<1> QED BY <1>1, <1>9, <1>10, <1>11, <1>12, <1>13 DEF DiskInv

\* A turn that is billed owes that to the disk; and as runs exclude each other,
\* no other run still does.
LEMMA BillingKeepsDisk ==
  ASSUME TypeInv, LifeInv, DiskInv, NEW b \in Jobs, TurnAnswers(b) \/ TurnFails(b), Bill(held[b]),
         outcome'[b] \in {"ok", "text"}
  PROVE  DiskInv'
<1> USE DEF ends, locks, engines, diskVars
<1>1. /\ \E to \in {"failing", "ending"} : Move(b, "working", to)
      /\ \E x : outcome' = [outcome EXCEPT ![b] = x]
      /\ UNCHANGED <<situation, live, overlap, held, mu, snap, disk, torn, settled, faults, crashes>>
  BY DEF TurnAnswers, TurnFails
<1>2. /\ pc[b] = "working" /\ pc'[b] \in {"failing", "ending"}
      /\ \A r \in Jobs : r # b => pc'[r] = pc[r] /\ outcome'[r] = outcome[r]
  BY <1>1 DEF Move, TypeInv, ControlInv, TableInv
<1>3. held[b] \in Jobs /\ IsRun(b) /\ held[b] # None
  BY <1>2, RunAtWork, LifecycleAssumption DEF TypeInv
<1>4. /\ \A s \in Jobs : /\ content'[s].guard.capped = content[s].guard.capped
                         /\ content'[s].messages = content[s].messages
                         /\ s # held[b] => content'[s].guard = content[s].guard
      /\ content'[held[b]].guard.spent = content[held[b]].guard.spent + 1
      /\ billed' = billed + 1
  BY <1>3 DEF Bill, TypeInv, ContentInv, Records
<1>5. /\ \A r \in Jobs : /\ content[r].guard.spent \in Nat /\ snap[r].guard.spent \in Nat
      /\ disk.guard.spent \in Nat /\ billed \in Nat /\ crashes \in Nat
  BY DEF TypeInv, ContentInv, TableInv, Records
<1>6. \A r \in Jobs : pc[r] = "storing" => held[b] # r
  BY <1>3 DEF LifeInv, SessionsInv, Unstored
<1>7. \A r \in Jobs : /\ Recording(r)' <=> Recording(r)
                      /\ IsRun(r)' <=> IsRun(r)
  BY <1>1, <1>2 DEF Recording, IsRun, Ask
<1>8. \A r \in Jobs : /\ pc'[r] \in WritePcs \cup {"building", "storing"} => r # b
                      /\ pc[r] \in WritePcs => r # b
  BY <1>2
<1>9. Owing(b)'  BY <1>2 DEF Owing
<1>10. ASSUME NEW r \in Jobs PROVE ~Owing(r) /\ ~(Recording(r) /\ IsRun(r))
  <2>1. ASSUME IsRun(r), pc[r] \in {"failing", "ending", "settle", "persist"} \cup WritePcs PROVE FALSE
    <3>1. pc[r] \notin OutsidePcs /\ pc[b] \notin OutsidePcs  BY <1>2, <2>1 DEF OutsidePcs
    <3>2. r = b  BY <1>3, <2>1, <3>1, OneRunInside
    <3> QED BY <1>2, <2>1, <3>2
  <2>2. pc[r] \in {"failing", "ending", "settle"} => IsRun(r)
    BY DEF LifeInv, JobInv, RunPcs
  <2> QED BY <2>1, <2>2 DEF Owing, Recording
<1>11. \A r \in Jobs : pc[r] \in WritePcs => held[r] \in Jobs  BY HandsAreFull
<1>12. SpentInv'
  <2>1. SpentInv  BY DEF DiskInv
  <2>2. ASSUME NEW r \in Jobs PROVE content'[r].guard.spent <= billed'
    BY <1>4, <1>5, <2>1 DEF SpentInv
  <2> QED BY <1>1, <1>4, <1>5, <2>1, <2>2 DEF SpentInv
<1>13. HolderInv'  BY <1>1, <1>2, <1>8 DEF DiskInv, HolderInv
<1>14. ASSUME ~overlap, NEW r \in Jobs PROVE TranscriptInv(r)'
  <2>1. TranscriptInv(r)  BY <1>14 DEF DiskInv
  <2>2. pc'[r] \in WritePcs \cup {"building", "storing"} => pc'[r] = pc[r]  BY <1>2, <1>8
  <2> QED BY <1>1, <1>4, <1>11, <2>1, <2>2 DEF TranscriptInv, Ask
<1>15. ASSUME ~overlap, faults = 0 PROVE BudgetInv'
  <2>1. BudgetInv  BY <1>15 DEF DiskInv
  <2>2. live = held[b]  BY <1>3, <1>15 DEF DiskInv, HolderInv
  <2>3. Counts(disk.guard)  BY <1>10, <2>1 DEF BudgetInv
  <2>4. disk'.guard.spent + crashes' + 1 >= billed'  BY <1>1, <1>4, <1>5, <2>3 DEF Counts
  <2>5. Counts(content[live].guard)'
    <3>1. Counts(content[live].guard)  BY <1>3, <2>1, <2>2 DEF BudgetInv
    <3> QED BY <1>1, <1>3, <1>4, <1>5, <2>2, <3>1 DEF Counts
  <2>6. ASSUME NEW r \in Jobs PROVE HandsInv(r)'
    <3>1. HandsInv(r)  BY <2>1 DEF BudgetInv
    <3>2. Recording(r) => snap[r].guard.spent + crashes >= billed
      BY <1>10, <3>1 DEF HandsInv, Counts
    <3>3. Recording(r)' => snap'[r].guard.spent + crashes' + 1 >= billed'
      BY <1>1, <1>4, <1>5, <1>7, <3>2
    <3>4. pc'[r] \in WritePcs \cup {"building", "storing"} => pc'[r] = pc[r]  BY <1>2, <1>8
    <3>5. pc[r] = "storing" => content'[r].guard = content[r].guard  BY <1>4, <1>6
    <3> QED BY <1>1, <1>4, <1>9, <1>11, <3>1, <3>3, <3>4, <3>5 DEF HandsInv
  <2> QED BY <1>1, <1>3, <1>4, <1>9, <2>1, <2>2, <2>4, <2>5, <2>6 DEF BudgetInv
<1>16. ASSUME ~overlap, faults = 0, crashes = 0 PROVE SettledInv'
  <2>1. SettledInv  BY <1>16 DEF DiskInv
  <2> QED BY <1>1, <1>2, <1>8, <2>1 DEF SettledInv
<1> QED BY <1>1, <1>12, <1>13, <1>14, <1>15, <1>16 DEF DiskInv

\* While nobody has lost the session, one job writes it at a time.
LEMMA OneWriter ==
  ASSUME TypeInv, LifeInv, DiskInv, ~overlap, NEW r \in Jobs, NEW b \in Jobs,
         pc[r] \in WritePcs, held[b] \in Jobs, mu[held[b]] \in {None, b}
  PROVE  r = b
<1>1. held[r] \in Jobs /\ r # None  BY HandsAreFull, LifecycleAssumption
<1>2. held[r] = live /\ held[b] = live  BY <1>1, LifecycleAssumption DEF DiskInv, HolderInv
<1>3. mu[held[r]] = r  BY DEF DiskInv, HolderInv
<1> QED BY <1>1, <1>2, <1>3

\* A snapshot is of the session that is in the map, and counts all its turns.
LEMMA SnapshotKeepsDisk ==
  ASSUME TypeInv, LifeInv, DiskInv, NEW b \in Jobs, NEW from \in {"persist", "loaded"},
         Snapshot(b, from),
         UNCHANGED <<situation, live, overlap, held, content, outcome, disk, torn, billed,
                     faults, crashes>>
  PROVE  DiskInv'
<1>1. /\ Move(b, from, "messages") /\ mu[held[b]] = None
      /\ mu' = [mu EXCEPT ![held[b]] = b] /\ snap' = [snap EXCEPT ![b] = content[held[b]]]
      /\ settled' = content[held[b]]
  BY DEF Snapshot, Free
<1>2. /\ pc[b] = from /\ pc'[b] = "messages" /\ \A r \in Jobs : r # b => pc'[r] = pc[r]
      /\ snap'[b] = content[held[b]] /\ \A r \in Jobs : r # b => snap'[r] = snap[r]
  BY <1>1 DEF Move, TypeInv, ControlInv, ContentInv
<1>3. held[b] \in Jobs  BY <1>2 DEF TypeInv, ControlInv
<1>4. /\ mu'[held[b]] = b /\ \A s \in Jobs : s # held[b] => mu'[s] = mu[s]
  BY <1>1, <1>3 DEF TypeInv, SessionInv
<1>5. \A r \in Jobs : /\ r # b => (Owing(r)' <=> Owing(r)) /\ (Recording(r)' <=> Recording(r))
                      /\ IsRun(r)' <=> IsRun(r)
  BY <1>2 DEF Owing, Recording, IsRun, Ask
<1>6. ASSUME ~overlap, NEW r \in Jobs, r # b PROVE pc[r] \notin WritePcs /\ pc'[r] \notin WritePcs
  BY <1>1, <1>2, <1>3, <1>6, OneWriter
<1>7. SpentInv'  BY <1>1, <1>2, <1>3 DEF DiskInv, SpentInv
<1>8. HolderInv'
  <2>1. ASSUME NEW r \in Jobs, pc'[r] \in WritePcs PROVE mu'[held[r]] = r
    <3>1. CASE r = b  BY <1>4, <3>1
    <3>2. CASE r # b
      <4>1. pc[r] \in WritePcs  BY <1>2, <2>1, <3>2
      <4>2. mu[held[r]] = r /\ held[r] \in Jobs /\ r # None
        BY <4>1, HandsAreFull, LifecycleAssumption DEF DiskInv, HolderInv
      <4> QED BY <1>1, <1>4, <4>2
    <3> QED BY <3>1, <3>2
  <2> QED BY <2>1 DEF DiskInv, HolderInv
<1>9. ASSUME ~overlap, NEW r \in Jobs PROVE TranscriptInv(r)'
  <2>1. TranscriptInv(r) /\ TranscriptInv(held[b])  BY <1>3, <1>9 DEF DiskInv
  <2>2. held[b] = live  BY <1>3, <1>9, LifecycleAssumption DEF DiskInv, HolderInv
  <2>3. CASE r # b
    <3>1. pc'[r] = pc[r] /\ snap'[r] = snap[r] /\ pc[r] \notin WritePcs  BY <1>2, <1>6, <1>9, <2>3
    <3> QED BY <2>1, <3>1 DEF TranscriptInv, Ask
  <2>4. CASE r = b
    <3>1. live # None  BY <1>3, <2>2, LifecycleAssumption
    <3>2. Ask(held[b]) # "fresh" => disk.messages \subseteq content[held[b]].messages
      BY <2>1, <2>2 DEF TranscriptInv
    <3> QED BY <1>2, <2>1, <2>4, <3>1, <3>2 DEF TranscriptInv, Ask
  <2> QED BY <2>3, <2>4
<1>10. ASSUME ~overlap, faults = 0 PROVE BudgetInv'
  <2>1. BudgetInv  BY <1>10 DEF DiskInv
  <2>2. held[b] = live /\ live # None
    BY <1>3, <1>10, LifecycleAssumption DEF DiskInv, HolderInv
  <2>3. Counts(content[live].guard)  BY <2>1, <2>2 DEF BudgetInv
  <2>4. ASSUME NEW r \in Jobs PROVE HandsInv(r)'
    <3>1. HandsInv(r)  BY <2>1 DEF BudgetInv
    <3>2. CASE r # b
      <4>1. pc'[r] = pc[r] /\ pc[r] \notin WritePcs  BY <1>2, <1>6, <1>10, <3>2
      <4> QED BY <3>1, <4>1 DEF HandsInv, Recording
    <3>3. CASE r = b
      <4>1. Counts(snap[r].guard)'  BY <1>2, <2>2, <2>3, <3>3 DEF Counts
      <4>2. snap'[r].guard.spent \in Nat /\ crashes \in Nat /\ billed \in Nat
        BY <1>2, <1>3, <3>3 DEF TypeInv, ContentInv, TableInv, Records
      <4> QED BY <1>2, <3>3, <4>1, <4>2 DEF HandsInv, Counts
    <3> QED BY <3>2, <3>3
  <2>5. Counts(disk.guard)' \/ \E c \in Jobs : Owing(c)' \/ (Recording(c)' /\ IsRun(c)')
    <3>1. CASE Counts(disk.guard)  BY <3>1 DEF Counts
    <3>2. ASSUME NEW c \in Jobs, Owing(c) \/ (Recording(c) /\ IsRun(c))
          PROVE  Owing(c)' \/ (Recording(c)' /\ IsRun(c)')
      <4>1. CASE c # b  BY <1>5, <3>2, <4>1
      <4>2. CASE c = b  BY <1>2, <1>5, <3>2, <4>2 DEF Owing, Recording
      <4> QED BY <4>1, <4>2
    <3> QED BY <2>1, <3>1, <3>2 DEF BudgetInv
  <2> QED BY <2>1, <2>4, <2>5 DEF BudgetInv, Counts
<1>11. ASSUME ~overlap, faults = 0, crashes = 0 PROVE SettledInv'
  BY <1>1, <1>2, <1>6, <1>11 DEF SettledInv
<1> QED BY <1>7, <1>8, <1>9, <1>10, <1>11 DEF DiskInv

\* What a write moves: one file, and its writer to the next or away.
LEMMA WriteMoves ==
  ASSUME TypeInv, NEW b \in Jobs, NEW f \in Files, WriteFile(b, f)
  PROVE  /\ UNCHANGED <<situation, live, overlap, content, outcome, settled, billed, crashes>>
         /\ pc[b] = f /\ \A r \in Jobs : r # b => /\ pc'[r] = pc[r] /\ held'[r] = held[r]
                                                  /\ snap'[r] = snap[r]
         /\ f # "disabled" => /\ UNCHANGED <<mu, held, snap>>
                              /\ pc'[b] = NextWrite[f]
         /\ f = "disabled" => /\ mu' = [mu EXCEPT ![held[b]] = None]
                              /\ held'[b] \in {held[b], None}
                              /\ snap'[b] \in {snap[b], NothingRecorded}
                              /\ pc'[b] \in {"leave", "done"}
         /\ \/ disk' = [disk EXCEPT ![f] = snap[b][f]] /\ torn' = torn \ {f} /\ faults' = faults
            \/ disk' = disk /\ faults' = faults + 1
<1>p. pc \in [Actors -> Pcs] /\ b \in Actors  BY DEF TypeInv, ControlInv
<1>h. held \in [Jobs -> Jobs \cup {None}] /\ snap \in [Jobs -> Records]
  BY DEF TypeInv, ControlInv, ContentInv
<1>1. /\ UNCHANGED <<situation, live, overlap, content, outcome, settled, billed, crashes>>
      /\ pc[b] = f
      /\ \/ disk' = [disk EXCEPT ![f] = snap[b][f]] /\ torn' = torn \ {f} /\ faults' = faults
         \/ disk' = disk /\ faults' = faults + 1
  BY DEF WriteFile, engines
<1>2. CASE f # "disabled"
  <2>1. f \in DOMAIN NextWrite  BY <1>2 DEF NextWrite
  <2>2. Move(b, f, NextWrite[f]) /\ UNCHANGED <<mu, held, snap>>  BY <2>1 DEF WriteFile
  <2>3. pc'[b] = NextWrite[f] /\ \A r \in Jobs : r # b => pc'[r] = pc[r]
    BY <1>p, <2>2 DEF Move
  <2> QED BY <1>1, <1>2, <2>2, <2>3
<1>3. CASE f = "disabled"
  <2>1. f \notin DOMAIN NextWrite  BY <1>3 DEF NextWrite
  <2>2. /\ mu' = [mu EXCEPT ![held[b]] = None]
        /\ \E to \in {"leave", "done"} : Move(b, f, to)
        /\ held' \in {held, [held EXCEPT ![b] = None]}
        /\ snap' \in {snap, [snap EXCEPT ![b] = NothingRecorded]}
    BY <2>1 DEF WriteFile, Retire
  <2>3. pc'[b] \in {"leave", "done"} /\ \A r \in Jobs : r # b => pc'[r] = pc[r]
    BY <1>p, <2>2 DEF Move
  <2> QED BY <1>h, <1>1, <1>3, <2>2, <2>3
<1> QED BY <1>2, <1>3

\* And what that does to the file.
LEMMA FileWritten ==
  ASSUME TypeInv, NEW b \in Jobs, NEW f \in Files, disk' = [disk EXCEPT ![f] = snap[b][f]]
  PROVE  /\ disk'.messages = IF f = "messages" THEN snap[b].messages ELSE disk.messages
         /\ disk'.counter = IF f = "counter" THEN snap[b].counter ELSE disk.counter
         /\ disk'.guard = IF f = "guard" THEN snap[b].guard ELSE disk.guard
         /\ disk'.disabled = IF f = "disabled" THEN snap[b].disabled ELSE disk.disabled
<1>1. disk \in Records /\ snap[b] \in Records  BY DEF TypeInv, ContentInv
<1>2. CASE f = "messages"  BY <1>1, <1>2 DEF Records
<1>3. CASE f = "counter"  BY <1>1, <1>3 DEF Records
<1>4. CASE f = "guard"  BY <1>1, <1>4 DEF Records
<1>5. CASE f = "disabled"  BY <1>1, <1>5 DEF Records
<1> QED BY <1>2, <1>3, <1>4, <1>5

\* Two records with the same parts are one.
LEMMA SameRecord ==
  ASSUME NEW x \in Records, NEW y \in Records, x.messages = y.messages, x.counter = y.counter,
         x.guard = y.guard, x.disabled = y.disabled
  PROVE  x = y
  BY DEF Records

\* A write brings the disk nearer to the session, and the last one to its snapshot.
LEMMA WritingKeepsDisk ==
  ASSUME TypeInv, LifeInv, DiskInv, NEW b \in Jobs, NEW f \in Files, WriteFile(b, f)
  PROVE  DiskInv'
<1> DEFINE Written == disk' = [disk EXCEPT ![f] = snap[b][f]] /\ torn' = torn \ {f} /\ faults' = faults
<1>1. /\ UNCHANGED <<situation, live, overlap, content, outcome, settled, billed, crashes>>
      /\ pc[b] = f /\ \A r \in Jobs : r # b => /\ pc'[r] = pc[r] /\ held'[r] = held[r]
                                               /\ snap'[r] = snap[r]
      /\ f # "disabled" => /\ UNCHANGED <<mu, held, snap>>
                           /\ pc'[b] = NextWrite[f]
      /\ f = "disabled" => /\ mu' = [mu EXCEPT ![held[b]] = None]
                           /\ held'[b] \in {held[b], None}
                           /\ snap'[b] \in {snap[b], NothingRecorded}
                           /\ pc'[b] \in {"leave", "done"}
      /\ Written \/ (disk' = disk /\ faults' = faults + 1)
  BY WriteMoves
<1>2. Written => /\ disk'.messages = IF f = "messages" THEN snap[b].messages ELSE disk.messages
                 /\ disk'.counter = IF f = "counter" THEN snap[b].counter ELSE disk.counter
                 /\ disk'.guard = IF f = "guard" THEN snap[b].guard ELSE disk.guard
                 /\ disk'.disabled = IF f = "disabled" THEN snap[b].disabled ELSE disk.disabled
  BY FileWritten
<1>3. /\ f = "messages" => pc'[b] = "counter"
      /\ f = "counter" => pc'[b] = "guard"
      /\ f = "guard" => pc'[b] = "disabled"
      /\ f = "disabled" => pc'[b] \in {"leave", "done"}
  BY <1>1 DEF NextWrite
<1> HIDE DEF Written
<1>4. held[b] \in Jobs /\ held[b] # None /\ b # None /\ mu[held[b]] = b
  BY <1>1, HandsAreFull, LifecycleAssumption DEF DiskInv, HolderInv
<1>5. ASSUME ~overlap, NEW r \in Jobs, r # b PROVE pc[r] \notin WritePcs /\ pc'[r] \notin WritePcs
  BY <1>1, <1>4, <1>5, OneWriter
<1>6. ~overlap => held[b] = live /\ live # None  BY <1>4 DEF DiskInv, HolderInv
<1>7. faults' = 0 => faults = 0 /\ Written  BY <1>1 DEF TypeInv, TableInv, Written
<1>8. \A r \in Jobs : /\ Owing(r) => Owing(r)'
                      /\ IsRun(r)' <=> IsRun(r)
  BY <1>1 DEF Owing, IsRun, Ask
<1>9. pc'[b] \in WritePcs => held'[b] = held[b] /\ snap'[b] = snap[b] /\ f # "disabled"
  BY <1>1, <1>3
<1>10. SpentInv'
  <2>1. SpentInv  BY DEF DiskInv
  <2>2. disk'.guard.spent <= billed  BY <1>1, <1>2, <2>1 DEF SpentInv, Written
  <2>3. NothingRecorded.guard.spent <= billed  BY DEF NothingRecorded, TypeInv, ContentInv
  <2>4. snap'[b] \in {snap[b], NothingRecorded}  BY <1>1
  <2>5. \A r \in Jobs : snap'[r].guard.spent <= billed  BY <1>1, <2>1, <2>3, <2>4 DEF SpentInv
  <2> QED BY <1>1, <2>1, <2>2, <2>5 DEF SpentInv
<1>11. HolderInv'
  <2>1. ASSUME NEW r \in Jobs, pc'[r] \in WritePcs PROVE mu'[held'[r]] = r
    <3>1. CASE r = b  BY <1>1, <1>4, <1>9, <2>1, <3>1
    <3>2. CASE r # b
      <4>1. pc[r] \in WritePcs /\ held'[r] = held[r]  BY <1>1, <2>1, <3>2
      <4>2. mu[held[r]] = r /\ held[r] \in Jobs  BY <4>1, HandsAreFull DEF DiskInv, HolderInv
      <4>3. held[r] # held[b]  BY <1>4, <3>2, <4>2
      <4> QED BY <1>1, <4>1, <4>2, <4>3 DEF TypeInv, SessionInv
    <3> QED BY <3>1, <3>2
  <2>2. \A r \in Jobs : held'[r] \in {held[r], None}  BY <1>1
  <2> QED BY <1>1, <2>1, <2>2 DEF DiskInv, HolderInv
<1>12. ASSUME ~overlap, NEW r \in Jobs PROVE TranscriptInv(r)'
  <2>1. TranscriptInv(r) /\ TranscriptInv(b)  BY <1>12 DEF DiskInv
  <2>2. disk'.messages = disk.messages \/ (f = "messages" /\ disk'.messages = snap[b].messages)
    BY <1>1, <1>2 DEF Written
  <2>3. r = live /\ Ask(r) # "fresh" => disk'.messages \subseteq content[r].messages
    <3>1. snap[b].messages \subseteq content[held[b]].messages  BY <1>1, <2>1 DEF TranscriptInv
    <3> QED BY <1>6, <1>12, <2>1, <2>2, <3>1 DEF TranscriptInv
  <2>4. pc'[r] \in WritePcs => r = b /\ pc'[r] # "messages"  BY <1>3, <1>5, <1>12
  <2>5. pc'[r] \in WritePcs => snap'[r].messages \subseteq content[held'[r]].messages
    BY <1>1, <1>9, <2>1, <2>4 DEF TranscriptInv
  <2> QED BY <1>1, <1>6, <1>12, <2>3, <2>4, <2>5 DEF TranscriptInv, Ask
<1>13. ASSUME ~overlap, faults' = 0 PROVE BudgetInv'
  <2>1. BudgetInv /\ HandsInv(b)  BY <1>7, <1>13 DEF DiskInv, BudgetInv
  <2>2. Written  BY <1>7, <1>13
  <2>3. disk'.guard = IF f = "guard" THEN snap[b].guard ELSE disk.guard  BY <1>2, <2>2
  <2>4. torn' = {}  BY <2>1, <2>2 DEF BudgetInv, Written
  <2>5. f = "guard" => Recording(b) /\ ~Owing(b)  BY <1>1 DEF Recording, Owing
  <2>6. disk'.guard.spent + crashes + 1 >= billed  BY <2>1, <2>3, <2>5 DEF BudgetInv, HandsInv
  <2>7. disk'.guard.capped => content[live].guard.capped
    BY <1>1, <1>6, <1>13, <2>1, <2>3 DEF BudgetInv, HandsInv
  <2>8. (\E c \in Jobs : Owing(c)) => \E c \in Jobs : Owing(c)'  BY <1>8
  <2>9. Counts(disk.guard)' \/ \E c \in Jobs : Owing(c)' \/ (Recording(c)' /\ IsRun(c)')
    <3>1. CASE f = "guard"
      <4>1. Counts(snap[b].guard) \/ \E c \in Jobs : Owing(c)
        BY <2>1, <2>5, <3>1 DEF HandsInv
      <4> QED BY <1>1, <2>3, <2>8, <3>1, <4>1 DEF Counts
    <3>2. CASE f # "guard"
      <4>1. CASE Counts(disk.guard)  BY <1>1, <2>3, <3>2, <4>1 DEF Counts
      <4>2. ASSUME NEW c \in Jobs, Recording(c), IsRun(c) PROVE Recording(c)' /\ IsRun(c)'
        <5>1. c = b  BY <1>5, <1>13, <4>2 DEF Recording
        <5>2. pc'[b] \in {"counter", "guard"}  BY <1>1, <1>3, <3>2, <4>2, <5>1 DEF Recording
        <5> QED BY <1>8, <4>2, <5>1, <5>2 DEF Recording
      <4> QED BY <2>1, <2>8, <4>1, <4>2 DEF BudgetInv
    <3> QED BY <3>1, <3>2
  <2>10. ASSUME NEW r \in Jobs PROVE HandsInv(r)'
    <3>1. CASE r # b
      <4>1. pc'[r] \notin WritePcs  BY <1>5, <1>13, <3>1
      <4> QED BY <1>1, <1>6, <1>13, <4>1 DEF HandsInv, Recording
    <3>2. CASE r = b
      <4>1. Recording(b)' => Recording(b) /\ snap'[b] = snap[b]
        BY <1>1, <1>3, <1>9 DEF Recording
      <4>2. pc'[b] # "storing"  BY <1>3, <1>1
      <4> QED BY <1>1, <1>9, <2>1, <2>8, <3>2, <4>1, <4>2 DEF HandsInv, Counts
    <3> QED BY <3>1, <3>2
  <2> QED BY <1>1, <1>6, <1>13, <2>1, <2>4, <2>6, <2>7, <2>9, <2>10 DEF BudgetInv, Counts
<1>14. ASSUME ~overlap, faults' = 0, crashes = 0 PROVE SettledInv'
  <2>1. SettledInv /\ Written  BY <1>7, <1>14 DEF DiskInv
  <2>2. /\ settled = snap[b]
        /\ pc[b] # "messages" => disk.messages = settled.messages
        /\ pc[b] \in {"guard", "disabled"} => disk.counter = settled.counter
        /\ pc[b] = "disabled" => disk.guard = settled.guard
    BY <1>1, <2>1 DEF SettledInv
  <2>3. /\ disk'.messages = settled.messages
        /\ f \in {"counter", "guard", "disabled"} => disk'.counter = settled.counter
        /\ f \in {"guard", "disabled"} => disk'.guard = settled.guard
        /\ f = "disabled" => disk'.disabled = settled.disabled
    BY <1>1, <1>2, <2>1, <2>2
  <2>4. f = "disabled" => disk' = settled
    <3>1. settled \in Records  BY DEF TypeInv, ContentInv
    <3>2. disk' \in Records
      <4>1. ContentInv'  BY WritingKeepsContent DEF TypeInv
      <4> QED BY <4>1 DEF ContentInv
    <3> QED BY <2>3, <3>1, <3>2, SameRecord
  <2>5. (\A r \in Jobs : pc'[r] \notin WritePcs) => disk' = settled
    BY <1>1, <1>3, <2>4
  <2>6. ASSUME NEW r \in Jobs, pc'[r] \in WritePcs
        PROVE  /\ settled = snap'[r]
               /\ pc'[r] # "messages" => disk'.messages = settled.messages
               /\ pc'[r] \in {"guard", "disabled"} => disk'.counter = settled.counter
               /\ pc'[r] = "disabled" => disk'.guard = settled.guard
    <3>1. r = b  BY <1>5, <1>14, <2>6
    <3> QED BY <1>1, <1>3, <1>9, <2>2, <2>3, <2>6, <3>1
  <2> QED BY <1>1, <2>5, <2>6 DEF SettledInv
<1> QED BY <1>1, <1>7, <1>10, <1>11, <1>12, <1>13, <1>14 DEF DiskInv

\* The end of a process costs the disk one turn at most.
LEMMA GoingDownKeepsDisk ==
  ASSUME TypeInv, LifeInv, DiskInv, GoDown
  PROVE  DiskInv'
<1>1. /\ UNCHANGED <<situation, overlap, disk, settled, billed>> /\ live' = None
      /\ crashes' = crashes + 1 /\ crashes \in Nat /\ faults \in Nat
      /\ (torn' = torn /\ faults' = faults) \/ faults' = faults + 1
  BY DEF GoDown, TypeInv, TableInv
<1>2. \A r \in Jobs : /\ held'[r] = None /\ snap'[r] = NothingRecorded
                      /\ content'[r] = NothingRecorded
                      /\ pc'[r] \in {"dead", "start", "done"}
  BY LifecycleAssumption DEF GoDown, Abandoned
<1>3. NothingRecorded.guard.spent = 0  BY DEF NothingRecorded
<1>4. billed \in Nat /\ disk.guard.spent \in Nat  BY DEF TypeInv, ContentInv, Records
<1>5. \A r \in Jobs : pc'[r] \notin WritePcs \cup {"building", "storing"} /\ ~Recording(r)'
  BY <1>2 DEF Recording
<1>6. SpentInv'  BY <1>1, <1>2, <1>3, <1>4 DEF DiskInv, SpentInv
<1>7. HolderInv'  BY <1>2, <1>5 DEF HolderInv
<1>8. \A r \in Jobs : TranscriptInv(r)'  BY <1>1, <1>5, LifecycleAssumption DEF TranscriptInv
<1>9. ASSUME ~overlap, faults' = 0 PROVE BudgetInv'
  <2>1. BudgetInv /\ torn' = torn  BY <1>1, <1>9 DEF DiskInv
  <2>2. Counts(disk.guard)' /\ disk'.guard.spent + crashes' + 1 >= billed'
    BY <1>1, <1>4, <2>1 DEF BudgetInv, Counts
  <2>3. \A r \in Jobs : HandsInv(r)'  BY <1>5 DEF HandsInv
  <2> QED BY <1>1, <2>1, <2>2, <2>3 DEF BudgetInv
<1>10. crashes' # 0  BY <1>1
<1> QED BY <1>1, <1>6, <1>7, <1>8, <1>9, <1>10 DEF DiskInv

\* The steps of the calls.
LEMMA StepKeepsDisk ==
  ASSUME TypeInv, LifeInv, DiskInv, NEW b \in Jobs, Step(b)
  PROVE  DiskInv'
<1>a. b \in Actors  OBVIOUS
<1>1. CASE \/ Inject(b) \/ Enqueue(b) \/ TakeKeyLock(b) \/ Leave(b) \/ FindLive(b) \/ ResumeLive(b)
           \/ CheckNotRunning(b) \/ CloseStops(b) \/ CloseEngine(b)
           \/ CreateRequest(b) \/ BeginTurn(b)
  BY <1>a, <1>1, SearchIsAside, AsideKeepsDisk
<1>2. CASE \/ LoadSession(b) \/ Interrupt(b) \/ Stop(b)
           \/ Subscribe(b) \/ Unsubscribe(b) \/ ResumeArrives(b) \/ ReplaceServers(b)
  BY <1>a, <1>2, CallsAreAside, AsideKeepsDisk
<1>3. CASE Configure(b) \/ MarkError(b) \/ EndTurn(b) \/ SettleRequest(b)
  BY <1>a, <1>3, ConfigureIsAside, EndingIsAside, AsideKeepsDisk
<1>4. CASE ReleaseSession(b)
  <2>1. CASE live = None  BY <1>a, <1>4, <2>1, SearchIsAside, AsideKeepsDisk
  <2>2. CASE live # None
    <3>1. /\ Move(b, "releasing", "checking") /\ TakeOut(b)
          /\ UNCHANGED <<situation, held, mu, content, snap, outcome, disk, torn, settled, billed,
                         faults, crashes>>
      BY <1>4, <2>2 DEF ReleaseSession, ends, locks, engines, diskVars
    <3> QED BY <1>a, <2>2, <3>1, TakingOutKeepsDisk
  <2> QED BY <2>1, <2>2
<1>5. CASE ReadTranscript(b) \/ BuildEngine(b)
  <2>1. CASE ReadTranscript(b)
    BY <1>a, <2>1, CallsAreAside, AsideKeepsDisk, ReadingKeepsDisk
  <2>2. CASE BuildEngine(b)
    BY <1>a, <2>2, CallsAreAside, AsideKeepsDisk, BuildingKeepsDisk
  <2> QED BY <1>5, <2>1, <2>2
<1>6. CASE StoreSession(b)
  BY <1>a, <1>6, SearchIsAside, AsideKeepsDisk, StoringKeepsDisk
<1>7. CASE CountTurn(b)  BY <1>7, CountingKeepsDisk
<1>8. CASE TurnAnswers(b) \/ TurnFails(b)
  <2>o. outcome \in [Jobs -> {"none", "ok", "text", "nothing"}]  BY DEF TypeInv, TableInv
  <2>1. CASE Bill(held[b]) /\ outcome'[b] \in {"ok", "text"}  BY <1>8, <2>1, BillingKeepsDisk
  <2>2. CASE ~(Bill(held[b]) /\ outcome'[b] \in {"ok", "text"})
    <3>1. ~TurnAnswers(b)
      <4>1. TurnAnswers(b) => outcome'[b] = "ok" /\ Bill(held[b])  BY <2>o DEF TurnAnswers
      <4> QED BY <2>2, <4>1
    <3>2. /\ Move(b, "working", "failing") /\ outcome' = [outcome EXCEPT ![b] = "nothing"]
          /\ UNCHANGED <<content, billed>>
      <4>1. outcome' = [outcome EXCEPT ![b] = "text"] => outcome'[b] = "text"  BY <2>o
      <4> QED BY <1>8, <2>2, <3>1, <4>1 DEF TurnFails
    <3>3. UNCHANGED <<situation, live, overlap, held, mu, snap, disk, torn, settled, faults, crashes>>
      BY <1>8, <3>1 DEF TurnFails, ends, locks, diskVars
    <3>4. /\ pc[b] = "working" /\ pc'[b] = "failing"
          /\ \A r \in Jobs : r # b => pc'[r] = pc[r] /\ outcome'[r] = outcome[r]
      BY <2>o, <3>2 DEF Move, TypeInv, ControlInv
    <3>5. ~Owing(b)  BY <3>4 DEF Owing
    <3>6. Aside(b)  BY <3>2, <3>3, <3>4, <3>5 DEF Aside
    <3> QED BY <1>a, <3>6, AsideKeepsDisk
  <2> QED BY <2>1, <2>2
<1>9. CASE Persist(b)
  <2>1. /\ Snapshot(b, "persist")
        /\ UNCHANGED <<situation, live, overlap, held, content, outcome, disk, torn, billed,
                       faults, crashes>>
    BY <1>9 DEF Persist, ends, engines
  <2> QED BY <2>1, SnapshotKeepsDisk
<1>10. CASE Compact(b)
  <2>1. UNCHANGED <<situation, live, overlap, content, outcome, disk, torn, billed, faults, crashes>>
    BY <1>10 DEF Compact, ends, engines
  <2>2. CASE Snapshot(b, "loaded") /\ held' = held  BY <2>1, <2>2, SnapshotKeepsDisk
  <2>3. CASE Retire(b, "loaded") /\ UNCHANGED <<mu, settled>>
    <3>1. /\ Move(b, "loaded", "done") /\ held' = [held EXCEPT ![b] = None]
          /\ snap' = [snap EXCEPT ![b] = NothingRecorded]
      BY <2>3 DEF Retire
    <3>2. Aside(b)  BY <2>1, <2>3, <3>1, MovingIsAside DEF aside
    <3> QED BY <1>a, <3>2, AsideKeepsDisk
  <2> QED BY <1>10, <2>2, <2>3 DEF Compact
<1>11. ASSUME NEW f \in Files, WriteFile(b, f) PROVE DiskInv'
  BY <1>11, WritingKeepsDisk
<1> QED BY <1>1, <1>2, <1>3, <1>4, <1>5, <1>6, <1>7, <1>8, <1>9, <1>10, <1>11 DEF Step

\* And the steps of the reaper and of the process.
LEMMA NextKeepsDisk ==
  ASSUME TypeInv, LifeInv, DiskInv, [Next]_vars
  PROVE  DiskInv'
<1>a. Reaper \in Actors /\ Reaper \notin Jobs  BY LifecycleAssumption
<1>1. ASSUME UNCHANGED <<situation, live, overlap, mu, billed, disk, torn, settled, faults, crashes,
                         content, held, snap, outcome>>,
             \A r \in Jobs : pc'[r] = pc[r]
      PROVE  DiskInv'
  <2>1. Aside(Reaper)  BY <1>1, <1>a DEF Aside
  <2> QED BY <1>a, <2>1, AsideKeepsDisk
<1>2. CASE UNCHANGED vars  BY <1>1, <1>2 DEF vars, history
<1>m. ASSUME NEW from, NEW to, Move(Reaper, from, to) PROVE \A r \in Jobs : pc'[r] = pc[r]
  BY <1>a, <1>m DEF Move, TypeInv, ControlInv
<1>3. CASE Reap
  <2> USE DEF ends, locks, engines, diskVars
  <2>1. CASE Sweep \/ (Evict /\ live = None) \/ CloseStops(Reaper) \/ CloseEngine(Reaper) \/ DeleteRows
    <3>1. \E from, to : Move(Reaper, from, to)
      BY <2>1 DEF Sweep, Evict, CloseStops, CloseEngine, DeleteRows
    <3>2. UNCHANGED <<situation, live, overlap, mu, billed, disk, torn, settled, faults, crashes,
                      content, held, snap, outcome>>
      BY <1>a, <2>1 DEF Sweep, Evict, CloseStops, CloseEngine, DeleteRows
    <3> QED BY <1>1, <1>m, <3>1, <3>2
  <2>2. CASE Evict /\ live # None
    <3>1. /\ Move(Reaper, "collected", "stopping") /\ TakeOut(Reaper)
          /\ UNCHANGED <<situation, held, mu, content, snap, outcome, disk, torn, settled, billed,
                         faults, crashes>>
      BY <2>2 DEF Evict
    <3> QED BY <1>a, <2>2, <3>1, TakingOutKeepsDisk
  <2> QED BY <1>3, <2>1, <2>2 DEF Reap
<1>4. CASE GoDown  BY <1>4, GoingDownKeepsDisk
<1>5. CASE Restart
  <2>1. UNCHANGED <<situation, live, overlap, mu, billed, disk, torn, settled, faults, crashes,
                    content, held, snap, outcome, pc>>
    BY <1>5 DEF Restart, locks, engines, diskVars
  <2> QED BY <1>1, <2>1
<1> QED BY <1>2, <1>3, <1>4, <1>5, StepKeepsDisk DEF Next, Over

\* The disk begins empty.
LEMMA DiskInit == Init => DiskInv
<1> SUFFICES ASSUME Init PROVE DiskInv  OBVIOUS
<1>1. /\ \A r \in Jobs : pc[r] = "start" /\ held[r] = None /\ snap[r] = NothingRecorded
                         /\ content[r] = NothingRecorded
      /\ live = None /\ disk = NothingRecorded /\ settled = NothingRecorded /\ torn = {}
      /\ billed = 0 /\ crashes = 0
  BY LifecycleAssumption DEF Init
<1>2. NothingRecorded.guard.spent = 0  BY DEF NothingRecorded
<1>3. SpentInv /\ HolderInv  BY <1>1, <1>2 DEF SpentInv, HolderInv
<1>4. \A r \in Jobs : TranscriptInv(r)  BY <1>1, LifecycleAssumption DEF TranscriptInv
<1>5. BudgetInv  BY <1>1, <1>2 DEF BudgetInv, Counts, HandsInv, Recording
<1>6. SettledInv  BY <1>1 DEF SettledInv
<1> QED BY <1>3, <1>4, <1>5, <1>6 DEF DiskInv

-----------------------------------------------------------------------------
(* The theorems.                                                           *)

\* The inductive invariant, with the types it needs.
LEMMA LifeSafe == Spec => [](TypeInv /\ LifeInv)
<1>1. Init => TypeInv /\ LifeInv  BY TypeInit, LifeInit
<1>2. TypeInv /\ LifeInv /\ [Next]_vars => (TypeInv /\ LifeInv)'
  <2> SUFFICES ASSUME TypeInv, LifeInv, [Next]_vars PROVE (TypeInv /\ LifeInv)'  OBVIOUS
  <2>1. ControlInv /\ ContentInv /\ SessionInv /\ TableInv  BY DEF TypeInv
  <2>2. ControlInv' /\ LifeInv'  BY <2>1, NextKeepsLife
  <2>3. ContentInv'  BY <2>1, ContentInvStep
  <2>4. SessionInv' /\ TableInv'  BY SessionInvStep, TableInvStep
  <2> QED BY <2>2, <2>3, <2>4 DEF TypeInv
<1> QED BY <1>1, <1>2, PTL DEF Spec

\* Every variable of a session's life holds a value of its kind, however the
\* calls, the sweeps and the ends of the process interleave.
THEOREM LifecycleTypes == Spec => []TypeOK
  BY LifeSafe, TypeInvIsEnough, PTL

\* releaseSession, a lost LoadOrStore and the reaper lose no engine: an open one
\* is in the map, in its builder's hands, or being closed.
THEOREM EngineSafe == Spec => []NoEngineLeaks
<1>1. LifeInv => NoEngineLeaks  BY DEF LifeInv
<1> QED BY <1>1, LifeSafe, PTL

\* Only the reaper closes an engine whose turn is running.
THEOREM ClosingSafe == Spec => []OnlyTheReaperClosesUnderATurn
<1>1. TypeInv /\ LifeInv => OnlyTheReaperClosesUnderATurn
  <2> SUFFICES ASSUME TypeInv, LifeInv, NEW r \in Jobs, pc[r] \in TurnPcs,
                      engine[held[r]] = "closed"
               PROVE  held[r] \in reaped
    BY DEF OnlyTheReaperClosesUnderATurn
  <2>1. IsRun(r) /\ held[r] \in Jobs  BY RunAtWork DEF TypeInv
  <2>2. held[r] # None  BY <2>1, LifecycleAssumption
  <2> QED BY <2>1, <2>2 DEF LifeInv, WorkInv
<1> QED BY <1>1, LifeSafe, PTL

\* The MCP servers of a session end with it, unless it left the map while
\* somebody was at it.
THEOREM ServerSafe == Spec => []ServersStopWithTheirSession
<1>1. LifeInv => ServersStopWithTheirSession  BY DEF LifeInv
<1> QED BY <1>1, LifeSafe, PTL

\* What releaseSession finds in the map is never running, so it never leaves an
\* engine open out of the map: its caller holds the lock every turn runs under.
THEOREM ReleasedSessionsAreIdle ==
  Spec => [][\A r \in Jobs : CheckNotRunning(r) => status[victim[r]] # "Running"]_vars
<1>1. TypeInv /\ LifeInv /\ [Next]_vars =>
        [\A r \in Jobs : CheckNotRunning(r) => status[victim[r]] # "Running"]_vars
  BY CheckKeepsInv DEF TypeInv
<1> QED BY <1>1, LifeSafe, PTL DEF Spec

\* A row that says "running" is a request that is; after a restart it is none.
THEOREM RowsSafe == Spec => []RequestRowsSettle
<1>1. Init => RequestRowsSettle  BY DEF Init, RequestRowsSettle
<1>2. TypeInv /\ LifeInv /\ RequestRowsSettle /\ [Next]_vars => RequestRowsSettle'
  <2> SUFFICES ASSUME TypeInv, RequestRowsSettle, [Next]_vars PROVE RequestRowsSettle'  OBVIOUS
  <2>0. ControlInv /\ TableInv  BY DEF TypeInv
  <2>1. CASE UNCHANGED vars  BY <2>1 DEF vars, RequestRowsSettle
  <2>2. ASSUME NEW b \in Jobs, Step(b) PROVE RequestRowsSettle'
    BY <2>0, <2>2, RowsMove DEF RequestRowsSettle
  <2>3. ASSUME NEW a \in Actors, a = Reaper, NEW from, NEW to, Move(a, from, to),
               up' = up, \A r \in Jobs : rows'[r] = "running" => rows[r] = "running"
        PROVE  RequestRowsSettle'
    <3>1. up /\ \A r \in Jobs : pc'[r] = pc[r]
      BY <2>0, <2>3, LifecycleAssumption DEF Move, ControlInv
    <3> QED BY <2>3, <3>1 DEF RequestRowsSettle
  <2>4. CASE Reap
    <3>1. Reaper \in Actors  OBVIOUS
    <3>2. \E from, to : Move(Reaper, from, to)
      BY <2>4 DEF Reap, Sweep, Evict, CloseStops, CloseEngine, DeleteRows
    <3>3. up' = up /\ \A r \in Jobs : rows'[r] = "running" => rows[r] = "running"
      BY <2>4 DEF Reap, Sweep, Evict, CloseStops, CloseEngine, DeleteRows, ends
    <3> QED BY <2>3, <3>1, <3>2, <3>3
  <2>5. CASE GoDown  BY <2>5 DEF GoDown, RequestRowsSettle
  <2>6. CASE Restart
    <3>1. \A r \in Jobs : rows'[r] # "running"  BY <2>6 DEF Restart
    <3> QED BY <3>1 DEF RequestRowsSettle
  <2> QED BY <2>1, <2>2, <2>4, <2>5, <2>6 DEF Next, Over
<1> QED BY <1>1, <1>2, LifeSafe, PTL DEF Spec

\* A turn's events reach its request, unless an event stream or a lost race took
\* the session's callback.
THEOREM StreamSafe == Spec => []StreamsStayWithTheirTurn
<1>1. Init => StreamInv  BY LifecycleAssumption DEF Init, StreamInv
<1>2. TypeInv /\ LifeInv /\ StreamInv /\ [Next]_vars => StreamInv'  BY NextKeepsStreams
<1>3. TypeInv /\ LifeInv /\ StreamInv => StreamsStayWithTheirTurn
  <2> SUFFICES ASSUME TypeInv, LifeInv, StreamInv, NEW r \in Jobs, pc[r] \in TurnPcs
               PROVE  r \in hooks[held[r]] \/ held[r] \in rewired
    BY DEF StreamsStayWithTheirTurn
  <2>1. IsRun(r) /\ held[r] \in Jobs  BY RunAtWork DEF TypeInv
  <2> QED BY <2>1, LifecycleAssumption DEF StreamInv
<1> QED BY <1>1, <1>2, <1>3, LifeSafe, PTL DEF Spec

\* A fresh run's turn runs on a session that holds nothing but it, or on one a
\* resume put in the map since; never on the session it was to replace.
THEOREM FreshSafe == Spec => []FreshRequestsStartEmpty
<1>1. Init => FreshnessInv  BY LifecycleAssumption DEF Init, FreshnessInv, FreshInv
<1>2. TypeInv /\ LifeInv /\ FreshnessInv /\ [Next]_vars => FreshnessInv'  BY NextKeepsFreshness
<1>3. TypeInv /\ LifeInv /\ FreshnessInv => FreshRequestsStartEmpty
  <2> SUFFICES ASSUME TypeInv, LifeInv, FreshnessInv, NEW r \in Jobs, Ask(r) = "fresh",
                      pc[r] \in {"begin"} \cup TurnPcs
               PROVE  \/ held[r] = r /\ content[r].messages \subseteq {r}
                      \/ Ask(held[r]) = "resume"
    BY DEF FreshRequestsStartEmpty
  <2>1. held[r] \in Jobs  BY RunAtWork DEF TypeInv
  <2>2. held[r] # None  BY <2>1, LifecycleAssumption
  <2> QED BY <2>2 DEF FreshnessInv, FreshInv
<1> QED BY <1>1, <1>2, <1>3, LifeSafe, PTL DEF Spec

\* What a session or a request opened goes with it: its engine, its MCP servers
\* and the row that says running.
THEOREM NothingIsLeftBehind == Spec => []NothingOutlivesItsOwner
<1>1. NoEngineLeaks /\ ServersStopWithTheirSession /\ RequestRowsSettle => NothingOutlivesItsOwner
  BY DEF NothingOutlivesItsOwner
<1> QED BY <1>1, EngineSafe, ServerSafe, RowsSafe, PTL

\* A running turn keeps its engine and its listener, unless the reaper closed
\* the one or an event stream rewired the other.
THEOREM TurnsAreKept == Spec => []TurnsKeepTheirSession
<1>1. OnlyTheReaperClosesUnderATurn /\ StreamsStayWithTheirTurn => TurnsKeepTheirSession
  BY DEF TurnsKeepTheirSession
<1> QED BY <1>1, ClosingSafe, StreamSafe, PTL

\* The invariant of the disk, in every reachable state.
LEMMA DiskSafe == Spec => [](TypeInv /\ LifeInv /\ DiskInv)
<1>1. Init => DiskInv  BY DiskInit
<1>2. TypeInv /\ LifeInv /\ DiskInv /\ [Next]_vars => DiskInv'  BY NextKeepsDisk
<1> QED BY <1>1, <1>2, LifeSafe, PTL DEF Spec

\* However a session is rebuilt (restoreGuardState, Guard.ResumeState), its guard
\* counts what the key was billed but for one turn a crash, and keeps a recorded
\* cap; no guard counts what was not billed; and while nobody writes and nothing
\* failed the four files of persistSessionStateLocked are one snapshot.
THEOREM DiskRemembers == Spec => []DiskRemembersTheSession
<1>1. TypeInv /\ LifeInv /\ DiskInv => DiskRemembersTheSession
  <2> SUFFICES ASSUME TypeInv, LifeInv, DiskInv PROVE BudgetIsRemembered /\ DiskHoldsOneSnapshot
    BY DEF DiskRemembersTheSession
  <2>1. BudgetIsRemembered
    BY DEF DiskInv, SpentInv, BudgetInv, Counts, BudgetIsRemembered
  <2>2. DiskHoldsOneSnapshot
    <3>1. faults \in Nat /\ crashes \in Nat  BY DEF TypeInv, TableInv
    <3> QED BY <3>1 DEF DiskInv, SettledInv, DiskHoldsOneSnapshot
  <2> QED BY <2>1, <2>2
<1> QED BY <1>1, DiskSafe, PTL

\* messages.json only grows: what persistSessionStateLocked writes over it holds
\* all that is there, since whoever writes holds the session in the map, and
\* that one was loaded from the file (loadPersistedSession) and only appended to;
\* a request for a fresh session is the one that may write less.
THEOREM TranscriptsAreKept == Spec => TranscriptsOnlyGrow
<1> DEFINE Grows == \/ disk.messages \subseteq disk'.messages
                    \/ overlap
                    \/ \E r \in Jobs : pc[r] = "messages" /\ Ask(held[r]) = "fresh"
<1>1. TypeInv /\ LifeInv /\ DiskInv /\ [Next]_vars => [Grows]_vars
  <2> SUFFICES ASSUME TypeInv, LifeInv, DiskInv, [Next]_vars, ~overlap PROVE Grows
    OBVIOUS
  <2>1. CASE \E b \in Jobs, f \in Files : WriteFile(b, f)
    <3>1. PICK b \in Jobs, f \in Files : WriteFile(b, f)  BY <2>1
    <3>2. /\ pc[b] = f
          /\ disk' = disk \/ disk' = [disk EXCEPT ![f] = snap[b][f]]
      BY <3>1, WriteMoves
    <3>3. disk'.messages = disk.messages \/ (f = "messages" /\ disk'.messages = snap[b].messages)
      BY <3>2, FileWritten
    <3>4. TranscriptInv(b)  BY DEF DiskInv
    <3> QED BY <3>2, <3>3, <3>4 DEF TranscriptInv
  <2>2. CASE ~\E b \in Jobs, f \in Files : WriteFile(b, f)
    <3> USE DEF diskVars
    <3>1. ASSUME NEW b \in Jobs, Step(b) PROVE disk' = disk
      BY <2>2, <3>1
         DEF Step, Inject, Enqueue, TakeKeyLock, Leave, ReleaseSession, CheckNotRunning,
             CloseStops, CloseEngine, FindLive, ResumeLive, ReadTranscript, BuildEngine, StoreSession,
             CreateRequest, BeginTurn, CountTurn, TurnAnswers, TurnFails, MarkError, EndTurn,
             SettleRequest, Persist, LoadSession, Interrupt, Stop, Compact, Configure,
             Subscribe, Unsubscribe, ResumeArrives, ReplaceServers
    <3>2. Reap => disk' = disk  BY DEF Reap, Sweep, Evict, CloseStops, CloseEngine, DeleteRows
    <3>3. GoDown \/ Restart \/ UNCHANGED vars => disk' = disk  BY DEF GoDown, Restart, vars
    <3>4. disk' = disk  BY <3>1, <3>2, <3>3 DEF Next, Over
    <3> QED BY <3>4
  <2> QED BY <2>1, <2>2
<1> QED BY <1>1, DiskSafe, PTL DEF Spec, TranscriptsOnlyGrow
=============================================================================
