-------------------------- MODULE SessionLifecycle --------------------------
(***************************************************************************)
(* The life of the session behind one key: how requests find, build,      *)
(* replace and lose the Session object in Server.sessions, what a restart *)
(* rebuilds it from, and what the four files of                           *)
(* <DataDir>/sessions/<key> hold in between.                              *)
(*                                                                        *)
(* A job is one call into the server.  A job builds at most one Session,  *)
(* so the object a job built is named by the job.  Runs on the key are    *)
(* serialized by the queue's key lock (keyLock); resume, interrupt, stop, *)
(* compact, config, the event stream and the reaper are not.              *)
(*                                                                        *)
(* A turn is abstracted to: counted, refused or run, billed, ended.  What *)
(* happens to messages inside it is the business of TurnLoop, and what    *)
(* happens to messages sent beside it is the business of SessionTurns.    *)
(***************************************************************************)
EXTENDS Naturals, FiniteSets

CONSTANTS
  Jobs,        \* calls into the server; also the names of the sessions they build
  Reaper,      \* the bridge session reaper's goroutine
  None,
  Cap,         \* the spending cap every run request carries, in turns' worth of cost
  MaxFailures, \* bound on file writes that fail and on ends of the process together
  MaxSweeps,   \* bound on sweeps of the reaper that find the session idle
  Situations   \* set of [ask: what each job calls, bridge: is it a bridge key, mcp: has it MCP servers]

Kinds == {"run", "fresh", "resume", "interrupt", "stop", "compact", "config", "events"}

ASSUME LifecycleAssumption ==
  /\ None \notin Jobs /\ Reaper \notin Jobs
  /\ IsFiniteSet(Jobs)
  /\ Cap \in Nat /\ MaxFailures \in Nat /\ MaxSweeps \in Nat
  /\ Situations \subseteq [ask: [Jobs -> Kinds], bridge: BOOLEAN, mcp: BOOLEAN]

\* The records of one session on disk, in the order they are written.
Files == {"messages", "counter", "guard", "disabled"}

\* What is persisted: the turns the transcript speaks for, the turn count, the
\* guard's total and whether it has a cap, and whether a tool is off the wire.
Records == [messages: SUBSET Jobs, counter: Nat,
            guard: [spent: Nat, capped: BOOLEAN], disabled: BOOLEAN]
NothingRecorded == [messages |-> {}, counter |-> 0,
                    guard |-> [spent |-> 0, capped |-> FALSE], disabled |-> FALSE]

VARIABLES
  situation, \* what the jobs ask and of which kind of key; never changes
  up,        \* is the server process running?
  pc,        \* where each job and the reaper stands
  held,      \* the Session object each of them works with
  live,      \* Server.sessions[key]
  keyLock,   \* the queue's lock of the key
  mu,        \* per session: who holds Session.mu across a persist
  engine,    \* per session: "unborn", "open" or "closed"
  status,    \* Session.Status
  content,   \* per session: what its engine holds, a member of Records
  servers,   \* the session's MCP servers: "none", "running" or "stopped"
  onEvent,   \* Session.onEvent: the listeners one event reaches
  hooks,     \* the engine's display hooks: the listeners bound by updateHooks
  victim,    \* the Session each of them is closing
  snap,      \* per job: the transcript it read, or the snapshot it is writing
  outcome,   \* per job: how its turn ended: "none", "ok", "text" (failed with text) or "nothing"
  saved,     \* per job: the callback an event stream will put back
  disk,      \* the four files, a member of Records
  torn,      \* the files that cannot be parsed
  rows,      \* requests.status of each job's request row
  \* history, read by properties and by nothing else
  billed,    \* turns' worth of cost the provider charged to this key
  settled,   \* the last snapshot a persist set out to write
  overlap,   \* has a session left the map while someone else held or was building one?
  rewired,   \* sessions whose callback a finished stream or a lost race has replaced
  reaped,    \* sessions the reaper closed
  faults, crashes, sweeps

history == <<billed, settled, overlap, rewired, reaped, faults, crashes, sweeps>>
ends == <<situation, up, faults, crashes, sweeps>>
locks == <<keyLock, mu>>
engines == <<engine, content, servers>>
callbacks == <<onEvent, hooks, saved, rewired>>
diskVars == <<disk, torn, settled>>
vars == <<situation, up, pc, held, live, keyLock, mu, engine, status, content, servers,
          onEvent, hooks, victim, snap, outcome, saved, disk, torn, rows, history>>

Actors == Jobs \cup {Reaper}
Ask(r) == situation.ask[r]
IsRun(r) == Ask(r) \in {"run", "fresh"}

WritePcs == {"messages", "counter", "guard", "disabled"}
TurnPcs == {"counting", "working", "failing", "ending"}
RowPcs == {"begin", "settle"} \cup TurnPcs
LockedPcs == {"releasing", "checking", "getting", "row", "persist", "leave"} \cup RowPcs
Pcs == {"start", "wantLock", "loaded", "connected", "restarting", "building", "storing",
        "stopping", "closing", "idle", "collected", "deleting", "done", "dead"}
       \cup WritePcs \cup LockedPcs

Move(a, from, to) == up /\ pc[a] = from /\ pc' = [pc EXCEPT ![a] = to]

\* The end of a call: what it held is garbage.
Retire(r, from) ==
  /\ Move(r, from, "done")
  /\ held' = [held EXCEPT ![r] = None]
  /\ snap' = [snap EXCEPT ![r] = NothingRecorded]

MayFail == faults + crashes < MaxFailures

\* Session.mu can be had.
Free(s) == mu[s] = None

Init ==
  /\ situation \in Situations
  /\ up = TRUE
  /\ pc = [a \in Actors |-> IF a = Reaper THEN "idle" ELSE "start"]
  /\ held = [r \in Jobs |-> None] /\ victim = [a \in Actors |-> None]
  /\ live = None /\ keyLock = None
  /\ mu = [s \in Jobs |-> None]
  /\ engine = [s \in Jobs |-> "unborn"]
  /\ status = [s \in Jobs |-> "Idle"]
  /\ content = [s \in Jobs |-> NothingRecorded]
  /\ servers = [s \in Jobs |-> "none"]
  /\ onEvent = [s \in Jobs |-> {}] /\ hooks = [s \in Jobs |-> {}]
  /\ saved = [r \in Jobs |-> {}]
  /\ snap = [r \in Jobs |-> NothingRecorded]
  /\ outcome = [r \in Jobs |-> "none"]
  /\ disk = NothingRecorded /\ torn = {}
  /\ rows = [r \in Jobs |-> "none"]
  /\ billed = 0 /\ settled = NothingRecorded
  /\ overlap = FALSE /\ rewired = {} /\ reaped = {}
  /\ faults = 0 /\ crashes = 0 /\ sweeps = 0

-----------------------------------------------------------------------------
(* Arriving: injectIfBusy, then the queue *)

\* A run that finds a turn in flight hands it the message and is answered.
Inject(r) ==
  /\ Ask(r) = "run" /\ live # None
  /\ Free(live) /\ status[live] = "Running"
  /\ Retire(r, "start")
  /\ UNCHANGED <<ends, live, locks, engines, status, callbacks, victim, outcome,
                 diskVars, rows, billed, overlap, reaped>>

\* A fresh run does not look: it asked for another conversation.
Enqueue(r) ==
  /\ IsRun(r) /\ Move(r, "start", "wantLock")
  /\ Ask(r) = "run" /\ live # None => Free(live) /\ status[live] # "Running"
  /\ UNCHANGED <<ends, held, live, locks, engines, status, callbacks, victim, snap, outcome,
                 diskVars, rows, billed, overlap, reaped>>

\* Mutation of TakeKeyLock: the work is done outside the key's lock, as
\* releaseSession once was.
TakeKeyLockOfNobody(r) ==
  /\ Move(r, "wantLock", IF Ask(r) = "fresh" THEN "releasing" ELSE "getting")
  /\ keyLock' = r
  /\ UNCHANGED <<ends, held, live, mu, engines, status, callbacks, victim, snap, outcome,
                 diskVars, rows, billed, overlap, reaped>>

TakeKeyLock(r) ==
  /\ Move(r, "wantLock", IF Ask(r) = "fresh" THEN "releasing" ELSE "getting")
  /\ keyLock = None /\ keyLock' = r
  /\ UNCHANGED <<ends, held, live, mu, engines, status, callbacks, victim, snap, outcome,
                 diskVars, rows, billed, overlap, reaped>>

Leave(r) ==
  /\ Retire(r, "leave")
  /\ keyLock' = None
  /\ UNCHANGED <<ends, live, mu, engines, status, callbacks, victim, outcome,
                 diskVars, rows, billed, overlap, reaped>>

-----------------------------------------------------------------------------
(* Removing and closing: releaseSession, a lost LoadOrStore, the reaper *)

\* sessions.LoadAndDelete.  Nothing tells those who loaded the session before,
\* or who are building another from what this one last wrote, that it is gone.
TakeOut(a) ==
  /\ victim' = [victim EXCEPT ![a] = live]
  /\ live' = None
  /\ overlap' = \/ overlap
                \/ \E r \in Jobs \ {a} :
                     held[r] = live \/ pc[r] \in {"building", "storing"}

ReleaseSession(r) ==
  /\ \/ /\ live = None
        /\ Move(r, "releasing", "getting")
        /\ UNCHANGED <<live, victim, overlap>>
     \/ /\ live # None
        /\ Move(r, "releasing", "checking")
        /\ TakeOut(r)
  /\ UNCHANGED <<ends, held, locks, engines, status, callbacks, snap, outcome,
                 diskVars, rows, billed, reaped>>

\* A session whose turn still runs is left open, out of the map.
CheckNotRunning(r) ==
  /\ pc[r] = "checking" /\ Free(victim[r])
  /\ LET running == status[victim[r]] = "Running"
     IN /\ Move(r, "checking", IF running THEN "getting" ELSE "stopping")
        /\ victim' = [victim EXCEPT ![r] = IF running THEN None ELSE @]
  /\ UNCHANGED <<ends, held, live, locks, engines, status, callbacks, snap, outcome,
                 diskVars, rows, billed, overlap, reaped>>

\* Session.close begins with Session.stop.
CloseStops(a) ==
  /\ Move(a, "stopping", "closing")
  /\ Free(victim[a])
  /\ status' = [status EXCEPT ![victim[a]] = "Completed"]
  /\ UNCHANGED <<ends, held, live, locks, engines, callbacks, victim, snap, outcome,
                 diskVars, rows, billed, overlap, reaped>>

\* Where close returns to: the reaper's delete, the winner of a lost race
\* (held), or the search for a session after a release.
AfterClose(a) ==
  IF a = Reaper THEN "deleting"
  ELSE IF ~IsRun(a) THEN "done"
  ELSE IF held[a] = None THEN "getting" ELSE "row"

\* Mutation of CloseEngine: close forgets the session's MCP servers.
CloseEngineOnly(a) ==
  /\ Move(a, "closing", AfterClose(a))
  /\ engine' = [engine EXCEPT ![victim[a]] = "closed"]
  /\ victim' = [victim EXCEPT ![a] = None]
  /\ held' = IF a \in Jobs /\ ~IsRun(a) THEN [held EXCEPT ![a] = None] ELSE held
  /\ snap' = IF a \in Jobs /\ ~IsRun(a) THEN [snap EXCEPT ![a] = NothingRecorded] ELSE snap
  /\ reaped' = IF a = Reaper THEN reaped \cup {victim[a]} ELSE reaped
  /\ UNCHANGED <<ends, live, locks, content, servers, status, callbacks, outcome,
                 diskVars, rows, billed, overlap>>

CloseEngine(a) ==
  /\ Move(a, "closing", AfterClose(a))
  /\ engine' = [engine EXCEPT ![victim[a]] = "closed"]
  /\ servers' = [servers EXCEPT ![victim[a]] = IF @ = "running" THEN "stopped" ELSE @]
  /\ victim' = [victim EXCEPT ![a] = None]
  /\ held' = IF a \in Jobs /\ ~IsRun(a) THEN [held EXCEPT ![a] = None] ELSE held
  /\ snap' = IF a \in Jobs /\ ~IsRun(a) THEN [snap EXCEPT ![a] = NothingRecorded] ELSE snap
  /\ reaped' = IF a = Reaper THEN reaped \cup {victim[a]} ELSE reaped
  /\ UNCHANGED <<ends, live, locks, content, status, callbacks, outcome,
                 diskVars, rows, billed, overlap>>

-----------------------------------------------------------------------------
(* Finding or building: getOrCreateSession, handleBridgeResume, createSession *)

\* Mutation of FindLive: a live session keeps the callback of its last request.
FindLiveAsItIs(r) ==
  /\ IsRun(r) /\ live # None /\ Free(live)
  /\ Move(r, "getting", "row")
  /\ held' = [held EXCEPT ![r] = live]
  /\ UNCHANGED <<ends, live, locks, engines, status, callbacks, victim, snap, outcome,
                 diskVars, rows, billed, overlap, reaped>>

\* A run that finds a live session takes over its events.
FindLive(r) ==
  /\ IsRun(r) /\ live # None /\ Free(live)
  /\ Move(r, "getting", "row")
  /\ held' = [held EXCEPT ![r] = live]
  /\ onEvent' = [onEvent EXCEPT ![live] = {r}]
  /\ rewired' = rewired \ {live}
  /\ UNCHANGED <<ends, live, locks, engines, status, hooks, saved, victim, snap, outcome,
                 diskVars, rows, billed, overlap, reaped>>

\* A resume that finds one sets its prompt and model, and answers.
ResumeLive(r) ==
  /\ ~IsRun(r) /\ live # None /\ Free(live)
  /\ Retire(r, "getting")
  /\ UNCHANGED <<ends, live, locks, engines, status, callbacks, victim, outcome,
                 diskVars, rows, billed, overlap, reaped>>

\* Mutation of ReadsTranscript: new_session is dropped on the way to the engine.
ReadsTranscriptAlways(r) == TRUE

\* transcriptToStartSessionFrom: a fresh session does not read the old one.
ReadsTranscript(r) == Ask(r) # "fresh"

Unbuilt(r, from) ==
  IF IsRun(r) THEN Move(r, from, "leave") /\ UNCHANGED <<held, snap>> ELSE Retire(r, from)

\* Mutation of ReadTranscript: a transcript that cannot be parsed is no transcript.
ReadTranscriptOrNone(r) ==
  /\ live = None
  /\ Move(r, "getting", "building")
  /\ snap' = [snap EXCEPT ![r] =
       IF ReadsTranscript(r) /\ "messages" \notin torn
       THEN [NothingRecorded EXCEPT
               !.messages = disk.messages,
               !.counter = IF "counter" \in torn THEN 0 ELSE disk.counter]
       ELSE NothingRecorded]
  /\ servers' = [servers EXCEPT ![r] = IF situation.mcp THEN "running" ELSE "none"]
  /\ UNCHANGED <<ends, held, live, locks, engine, content, status, callbacks, victim, outcome,
                 diskVars, rows, billed, overlap, reaped>>

\* createSession to its read of the transcript.  The MCP servers are started
\* first; one that does not start, or a transcript that cannot be parsed, fails
\* the build, and the servers are stopped again.
ReadTranscript(r) ==
  /\ live = None
  /\ \/ /\ ReadsTranscript(r) => "messages" \notin torn
        /\ Move(r, "getting", "building")
        /\ snap' = [snap EXCEPT ![r] =
             IF ReadsTranscript(r)
             THEN [NothingRecorded EXCEPT
                     !.messages = disk.messages,
                     !.counter = IF "counter" \in torn THEN 0 ELSE disk.counter]
             ELSE NothingRecorded]
        /\ servers' = [servers EXCEPT ![r] = IF situation.mcp THEN "running" ELSE "none"]
        /\ UNCHANGED held
     \/ /\ situation.mcp \/ (ReadsTranscript(r) /\ "messages" \in torn)
        /\ Unbuilt(r, "getting")
        /\ UNCHANGED servers
  /\ UNCHANGED <<ends, live, locks, engine, content, status, callbacks, victim, outcome,
                 diskVars, rows, billed, overlap, reaped>>

\* Mutation of RestoredGuard: a fresh session starts its budget over.
RestoredGuardUnlessFresh(r) ==
  IF "guard" \in torn \/ Ask(r) = "fresh" THEN [spent |-> 0, capped |-> IsRun(r)]
  ELSE [spent |-> disk.guard.spent, capped |-> IsRun(r) \/ disk.guard.capped]

\* guard.ResumeState: a configured cap wins, totals come from the record; an
\* unreadable record leaves what this rebuild configured.
RestoredGuard(r) ==
  IF "guard" \in torn THEN [spent |-> 0, capped |-> IsRun(r)]
  ELSE [spent |-> disk.guard.spent, capped |-> IsRun(r) \/ disk.guard.capped]

\* NewEngine, RestoreSession, restoreGuardState, restoreDisabledTools.
BuildEngine(r) ==
  /\ \/ /\ Move(r, "building", "storing")
        /\ engine' = [engine EXCEPT ![r] = "open"]
        /\ content' = [content EXCEPT ![r] =
             [messages |-> snap[r].messages, counter |-> snap[r].counter,
              guard |-> RestoredGuard(r),
              disabled |-> "disabled" \notin torn /\ disk.disabled]]
        /\ snap' = [snap EXCEPT ![r] = NothingRecorded]
        /\ UNCHANGED <<held, servers>>
     \/ /\ Unbuilt(r, "building")
        /\ servers' = [servers EXCEPT ![r] = IF @ = "running" THEN "stopped" ELSE @]
        /\ UNCHANGED <<engine, content>>
  /\ UNCHANGED <<ends, live, locks, status, callbacks, victim, outcome,
                 diskVars, rows, billed, overlap, reaped>>

\* Mutation of StoreSession: the loser of the race is dropped, not closed.
StoreSessionOrDrop(r) ==
  /\ \/ /\ live = None /\ live' = r
        /\ Move(r, "storing", IF IsRun(r) THEN "row" ELSE "done")
        /\ held' = [held EXCEPT ![r] = IF IsRun(r) THEN r ELSE None]
        /\ onEvent' = [onEvent EXCEPT ![r] = IF IsRun(r) THEN {r} ELSE {}]
        /\ UNCHANGED rewired
     \/ /\ live # None /\ UNCHANGED <<live, onEvent>>
        /\ Move(r, "storing", IF IsRun(r) THEN "row" ELSE "done")
        /\ held' = [held EXCEPT ![r] = IF IsRun(r) THEN live ELSE None]
        /\ rewired' = IF IsRun(r) THEN rewired \cup {live} ELSE rewired
  /\ UNCHANGED <<ends, locks, engines, status, hooks, saved, snap, outcome, victim,
                 diskVars, rows, billed, overlap, reaped>>

\* sessions.LoadOrStore.  The loser closes its own session and goes on with the
\* winner, whose callback it does not touch.
StoreSession(r) ==
  /\ \/ /\ live = None /\ live' = r
        /\ Move(r, "storing", IF IsRun(r) THEN "row" ELSE "done")
        /\ held' = [held EXCEPT ![r] = IF IsRun(r) THEN r ELSE None]
        /\ onEvent' = [onEvent EXCEPT ![r] = IF IsRun(r) THEN {r} ELSE {}]
        /\ UNCHANGED <<victim, rewired>>
     \/ /\ live # None /\ UNCHANGED <<live, onEvent>>
        /\ Move(r, "storing", "stopping")
        /\ held' = [held EXCEPT ![r] = live]
        /\ victim' = [victim EXCEPT ![r] = r]
        /\ rewired' = IF IsRun(r) THEN rewired \cup {live} ELSE rewired
  /\ UNCHANGED <<ends, locks, engines, status, hooks, saved, snap, outcome,
                 diskVars, rows, billed, overlap, reaped>>

-----------------------------------------------------------------------------
(* The turn: Server.run inside the queue, Session.turn, Engine.RunTurn *)

CreateRequest(r) ==
  /\ Move(r, "row", "begin")
  /\ rows' = [rows EXCEPT ![r] = "running"]
  /\ UNCHANGED <<ends, held, live, locks, engines, status, callbacks, victim, snap, outcome,
                 diskVars, billed, overlap, reaped>>

\* updateHooks binds the display to the callback of this moment.
BeginTurn(r) ==
  /\ Move(r, "begin", "counting")
  /\ Free(held[r])
  /\ status' = [status EXCEPT ![held[r]] = "Running"]
  /\ hooks' = [hooks EXCEPT ![held[r]] = onEvent[held[r]]]
  /\ UNCHANGED <<ends, held, live, locks, engines, onEvent, saved, rewired, victim, snap,
                 outcome, diskVars, rows, billed, overlap, reaped>>

CapReached(s) == content[s].guard.capped /\ content[s].guard.spent >= Cap

\* The turn is counted before the guard is asked; a refusal returns no result.
CountTurn(r) ==
  /\ pc[r] = "counting"
  /\ LET refused == CapReached(held[r])
     IN /\ Move(r, "counting", IF refused THEN "failing" ELSE "working")
        /\ outcome' = [outcome EXCEPT ![r] = IF refused THEN "nothing" ELSE @]
        /\ content' = [content EXCEPT ![held[r]].counter = @ + 1,
                         ![held[r]].messages = IF refused THEN @ ELSE @ \cup {r}]
  /\ UNCHANGED <<ends, held, live, locks, engine, servers, status, callbacks, victim, snap,
                 diskVars, rows, billed, overlap, reaped>>

\* postProcessTurn tells the guard what the turn cost.
Bill(s) ==
  /\ content' = [content EXCEPT ![s].guard.spent = @ + 1]
  /\ billed' = billed + 1

TurnAnswers(r) ==
  /\ Move(r, "working", "ending")
  /\ Bill(held[r])
  /\ outcome' = [outcome EXCEPT ![r] = "ok"]
  /\ UNCHANGED <<ends, held, live, locks, engine, servers, status, callbacks, victim, snap,
                 diskVars, rows, overlap, reaped>>

\* A failed or cancelled turn is post-processed when it has text to show.
TurnFails(r) ==
  /\ Move(r, "working", "failing")
  /\ \/ Bill(held[r]) /\ outcome' = [outcome EXCEPT ![r] = "text"]
     \/ outcome' = [outcome EXCEPT ![r] = "nothing"] /\ UNCHANGED <<content, billed>>
  /\ UNCHANGED <<ends, held, live, locks, engine, servers, status, callbacks, victim, snap,
                 diskVars, rows, overlap, reaped>>

MarkError(r) ==
  /\ Move(r, "failing", "ending")
  /\ Free(held[r])
  /\ status' = [status EXCEPT ![held[r]] = "Error"]
  /\ UNCHANGED <<ends, held, live, locks, engines, callbacks, victim, snap, outcome,
                 diskVars, rows, billed, overlap, reaped>>

EndTurn(r) ==
  /\ Move(r, "ending", "settle")
  /\ Free(held[r])
  /\ status' = [status EXCEPT ![held[r]] = "Idle"]
  /\ UNCHANGED <<ends, held, live, locks, engines, callbacks, victim, snap, outcome,
                 diskVars, rows, billed, overlap, reaped>>

\* Mutation of SettleRequest: a turn that failed with nothing to show leaves its row.
SettleRequestWithResult(r) ==
  /\ Move(r, "settle", IF outcome[r] = "nothing" THEN "leave" ELSE "persist")
  /\ rows' = [rows EXCEPT ![r] = IF @ = "deleted" \/ outcome[r] = "nothing" THEN @
                                 ELSE IF outcome[r] = "ok" THEN "completed" ELSE "error"]
  /\ UNCHANGED <<ends, held, live, locks, engines, status, callbacks, victim, snap, outcome,
                 diskVars, billed, overlap, reaped>>

\* CompleteRequest updates a row the reaper may have deleted.
SettleRequest(r) ==
  /\ Move(r, "settle", IF outcome[r] = "nothing" THEN "leave" ELSE "persist")
  /\ rows' = [rows EXCEPT ![r] = IF @ = "deleted" THEN @
                                 ELSE IF outcome[r] = "ok" THEN "completed" ELSE "error"]
  /\ UNCHANGED <<ends, held, live, locks, engines, status, callbacks, victim, snap, outcome,
                 diskVars, billed, overlap, reaped>>

-----------------------------------------------------------------------------
(* Persisting: persistSessionState, under the session's mutex *)

Snapshot(r, from) ==
  /\ Move(r, from, "messages")
  /\ Free(held[r]) /\ mu' = [mu EXCEPT ![held[r]] = r]
  /\ snap' = [snap EXCEPT ![r] = content[held[r]]]
  /\ settled' = content[held[r]]

Persist(r) ==
  /\ Snapshot(r, "persist")
  /\ UNCHANGED <<ends, held, live, keyLock, engines, status, callbacks, victim, outcome,
                 disk, torn, rows, billed, overlap, reaped>>

\* Mutation of NextWrite: the guard's state is not written.
NextWriteWithoutGuard == [messages |-> "counter", counter |-> "disabled", guard |-> "disabled"]

\* The four writes, each of which may fail and none of which waits for another.
NextWrite == [messages |-> "counter", counter |-> "guard", guard |-> "disabled"]

WriteFile(r, f) ==
  /\ pc[r] = f
  /\ IF f \in DOMAIN NextWrite
     THEN Move(r, f, NextWrite[f]) /\ UNCHANGED <<mu, held, snap>>
     ELSE /\ mu' = [mu EXCEPT ![held[r]] = None]
          /\ IF IsRun(r) THEN Move(r, f, "leave") /\ UNCHANGED <<held, snap>> ELSE Retire(r, f)
  /\ \/ /\ disk' = [disk EXCEPT ![f] = snap[r][f]]
        /\ torn' = torn \ {f}
        /\ UNCHANGED faults
     \/ /\ MayFail /\ faults' = faults + 1
        /\ torn' \in {torn, torn \cup {f}}
        /\ UNCHANGED disk
  /\ UNCHANGED <<situation, up, crashes, sweeps, live, keyLock, engines, status, callbacks, victim, outcome,
                 settled, rows, billed, overlap, reaped>>

-----------------------------------------------------------------------------
(* The calls that do not queue *)

LoadSession(r) ==
  /\ Ask(r) \in {"interrupt", "stop", "compact", "config", "events"}
  /\ \/ live = None /\ Retire(r, "start")
     \/ /\ live # None /\ Move(r, "start", "loaded")
        /\ held' = [held EXCEPT ![r] = live]
        /\ UNCHANGED snap
  /\ UNCHANGED <<ends, live, locks, engines, status, callbacks, victim, outcome,
                 diskVars, rows, billed, overlap, reaped>>

\* InterruptSession does not wait for the turn to unwind before it persists.
Interrupt(r) ==
  /\ Ask(r) = "interrupt" /\ Move(r, "loaded", "persist")
  /\ Free(held[r])
  /\ status' = [status EXCEPT ![held[r]] = "Idle"]
  /\ UNCHANGED <<ends, held, live, locks, engines, callbacks, victim, snap, outcome,
                 diskVars, rows, billed, overlap, reaped>>

Stop(r) ==
  /\ Ask(r) = "stop" /\ Retire(r, "loaded")
  /\ Free(held[r])
  /\ status' = [status EXCEPT ![held[r]] = "Completed"]
  /\ UNCHANGED <<ends, live, locks, engines, callbacks, victim, outcome,
                 diskVars, rows, billed, overlap, reaped>>

\* The test for a running turn, the compaction and the writes are one hold of
\* the mutex.  A compacted transcript speaks for the same turns.
Compact(r) ==
  /\ Ask(r) = "compact" /\ pc[r] = "loaded"
  /\ \/ /\ Free(held[r]) /\ status[held[r]] = "Running"
        /\ Retire(r, "loaded")
        /\ UNCHANGED <<mu, settled>>
     \/ /\ status[held[r]] # "Running"
        /\ Snapshot(r, "loaded")
        /\ UNCHANGED held
  /\ UNCHANGED <<ends, live, keyLock, engines, status, callbacks, victim, outcome,
                 disk, torn, rows, billed, overlap, reaped>>

\* A tool is taken off the wire, or put back.  Nothing is written.
Configure(r) ==
  /\ Ask(r) = "config" /\ Retire(r, "loaded")
  /\ Free(held[r])
  /\ content' = [content EXCEPT ![held[r]].disabled = ~@]
  /\ UNCHANGED <<ends, live, locks, engine, servers, status, callbacks, victim, outcome,
                 diskVars, rows, billed, overlap, reaped>>

\* The event stream wraps the callback it finds, and puts it back at its end
\* whatever the session's callback has become since.
Subscribe(r) ==
  /\ Ask(r) = "events" /\ Move(r, "loaded", "connected")
  /\ Free(held[r])
  /\ saved' = [saved EXCEPT ![r] = onEvent[held[r]]]
  /\ onEvent' = [onEvent EXCEPT ![held[r]] = @ \cup {r}]
  /\ hooks' = [hooks EXCEPT ![held[r]] = onEvent'[held[r]]]
  /\ UNCHANGED <<ends, held, live, locks, engines, status, rewired, victim, snap, outcome,
                 diskVars, rows, billed, overlap, reaped>>

Unsubscribe(r) ==
  /\ Retire(r, "connected")
  /\ Free(held[r])
  /\ onEvent' = [onEvent EXCEPT ![held[r]] = saved[r]]
  /\ hooks' = [hooks EXCEPT ![held[r]] = saved[r]]
  /\ saved' = [saved EXCEPT ![r] = {}]
  /\ rewired' = rewired \cup {held[r]}
  /\ UNCHANGED <<ends, live, locks, engines, status, victim, outcome,
                 diskVars, rows, billed, overlap, reaped>>

\* A resume restarts a live session's MCP servers before anything else.
ResumeArrives(r) ==
  /\ Ask(r) = "resume"
  /\ \/ /\ live # None /\ servers[live] # "none" /\ Free(live)
        /\ Move(r, "start", "restarting")
        /\ held' = [held EXCEPT ![r] = live]
     \/ /\ live # None => servers[live] = "none"
        /\ Move(r, "start", "getting")
        /\ UNCHANGED held
  /\ UNCHANGED <<ends, live, locks, engines, status, callbacks, victim, snap, outcome,
                 diskVars, rows, billed, overlap, reaped>>

\* sessionMCPClients.replace: the new servers are swapped in when all have
\* started, whether or not the session has been closed since; if one does not
\* start the resume fails.
ReplaceServers(r) ==
  /\ \/ /\ Move(r, "restarting", "getting")
        /\ servers' = [servers EXCEPT ![held[r]] = "running"]
        /\ held' = [held EXCEPT ![r] = None]
        /\ UNCHANGED snap
     \/ Retire(r, "restarting") /\ UNCHANGED servers
  /\ UNCHANGED <<ends, live, locks, engine, content, status, callbacks, victim, outcome,
                 diskVars, rows, billed, overlap, reaped>>

-----------------------------------------------------------------------------
(* The reaper *)

\* The sweep looks at status and age; how long ago LastActive was is free.
\* What it remembers is the key.
Sweep ==
  /\ situation.bridge /\ live # None
  /\ Free(live) /\ status[live] # "Running"
  /\ Move(Reaper, "idle", "collected")
  /\ sweeps < MaxSweeps /\ sweeps' = sweeps + 1
  /\ UNCHANGED <<situation, up, faults, crashes, held, live, locks, engines, status, callbacks, victim, snap, outcome,
                 diskVars, rows, billed, overlap, reaped>>

Evict ==
  /\ \/ live = None /\ Move(Reaper, "collected", "idle") /\ UNCHANGED <<live, victim, overlap>>
     \/ live # None /\ Move(Reaper, "collected", "stopping") /\ TakeOut(Reaper)
  /\ UNCHANGED <<ends, held, locks, engines, status, callbacks, snap, outcome,
                 diskVars, rows, billed, reaped>>

\* Store.DeleteSession takes the request rows of the key with it.
DeleteRows ==
  /\ Move(Reaper, "deleting", "idle")
  /\ rows' = [r \in Jobs |-> IF rows[r] = "none" THEN "none" ELSE "deleted"]
  /\ UNCHANGED <<ends, held, live, locks, engines, status, callbacks, victim, snap, outcome,
                 diskVars, billed, overlap, reaped>>

-----------------------------------------------------------------------------
(* The end of the process, and the next one *)

Abandoned(a) == a \in Jobs /\ pc[a] \notin {"start", "done"}

\* Server.Close closes every session and writes none of them, so a shutdown
\* leaves on disk what a crash leaves; a write cut short leaves a torn file.
GoDown ==
  /\ up /\ up' = FALSE
  /\ MayFail /\ crashes' = crashes + 1
  /\ pc' = [a \in Actors |-> IF a = Reaper THEN "idle"
                             ELSE IF Abandoned(a) THEN "dead" ELSE pc[a]]
  /\ held' = [r \in Jobs |-> None] /\ victim' = [a \in Actors |-> None]
  /\ live' = None /\ keyLock' = None
  /\ mu' = [s \in Jobs |-> None]
  /\ engine' = [s \in Jobs |-> IF engine[s] = "open" THEN "closed" ELSE engine[s]]
  /\ servers' = [s \in Jobs |-> IF servers[s] = "running" THEN "stopped" ELSE servers[s]]
  /\ content' = [s \in Jobs |-> NothingRecorded]
  /\ status' = [s \in Jobs |-> "Idle"]
  /\ onEvent' = [s \in Jobs |-> {}] /\ hooks' = [s \in Jobs |-> {}]
  /\ saved' = [r \in Jobs |-> {}] /\ rewired' = {}
  /\ snap' = [r \in Jobs |-> NothingRecorded]
  /\ \/ UNCHANGED <<torn, faults>>
     \/ /\ faults' = faults + 1
        /\ \E r \in Jobs : pc[r] \in Files /\ torn' = torn \cup {pc[r]}
  /\ UNCHANGED <<situation, sweeps, disk, settled, rows, outcome, billed, overlap, reaped>>

\* server.New: requests left running by the last process are interrupted.
Restart ==
  /\ ~up /\ up' = TRUE
  /\ rows' = [r \in Jobs |-> IF rows[r] = "running" THEN "interrupted" ELSE rows[r]]
  /\ UNCHANGED <<situation, faults, crashes, sweeps, pc, held, live, locks, engines, status, callbacks,
                 victim, snap, outcome, diskVars, billed, overlap, reaped>>

-----------------------------------------------------------------------------
Step(r) ==
  \/ Inject(r) \/ Enqueue(r) \/ TakeKeyLock(r) \/ Leave(r)
  \/ ReleaseSession(r) \/ CheckNotRunning(r) \/ CloseStops(r) \/ CloseEngine(r)
  \/ FindLive(r) \/ ResumeLive(r) \/ ReadTranscript(r) \/ BuildEngine(r) \/ StoreSession(r)
  \/ CreateRequest(r) \/ BeginTurn(r) \/ CountTurn(r) \/ TurnAnswers(r) \/ TurnFails(r)
  \/ MarkError(r) \/ EndTurn(r) \/ SettleRequest(r)
  \/ Persist(r) \/ \E f \in Files : WriteFile(r, f)
  \/ LoadSession(r) \/ Interrupt(r) \/ Stop(r) \/ Compact(r) \/ Configure(r)
  \/ Subscribe(r) \/ Unsubscribe(r) \/ ResumeArrives(r) \/ ReplaceServers(r)

Reap == Sweep \/ Evict \/ CloseStops(Reaper) \/ CloseEngine(Reaper) \/ DeleteRows

Over == up /\ (\A r \in Jobs : pc[r] \in {"done", "dead"}) /\ UNCHANGED vars

Next == (\E r \in Jobs : Step(r)) \/ Reap \/ GoDown \/ Restart \/ Over

Spec == Init /\ [][Next]_vars

-----------------------------------------------------------------------------
(* Properties *)

\* Every variable holds a value of its kind.
TypeOK ==
  /\ situation \in [ask: [Jobs -> Kinds], bridge: BOOLEAN, mcp: BOOLEAN] /\ up \in BOOLEAN
  /\ pc \in [Actors -> Pcs] /\ pc[Reaper] \in {"idle", "collected", "stopping", "closing", "deleting"}
  /\ held \in [Jobs -> Jobs \cup {None}] /\ victim \in [Actors -> Jobs \cup {None}]
  /\ live \in Jobs \cup {None} /\ keyLock \in Jobs \cup {None}
  /\ mu \in [Jobs -> Jobs \cup {None}]
  /\ engine \in [Jobs -> {"unborn", "open", "closed"}]
  /\ status \in [Jobs -> {"Idle", "Running", "Completed", "Error"}]
  /\ content \in [Jobs -> Records] /\ snap \in [Jobs -> Records]
  /\ servers \in [Jobs -> {"none", "running", "stopped"}]
  /\ onEvent \in [Jobs -> SUBSET Jobs] /\ hooks \in [Jobs -> SUBSET Jobs]
  /\ saved \in [Jobs -> SUBSET Jobs]
  /\ outcome \in [Jobs -> {"none", "ok", "text", "nothing"}]
  /\ disk \in Records /\ torn \subseteq Files
  /\ rows \in [Jobs -> {"none", "running", "completed", "error", "interrupted", "deleted"}]
  /\ billed \in Nat /\ settled \in Records
  /\ overlap \in BOOLEAN /\ rewired \subseteq Jobs /\ reaped \subseteq Jobs
  /\ faults \in Nat /\ crashes \in Nat /\ sweeps \in Nat

\* session_release.go: "A dropped *Session just becomes unreachable, and Go's
\* sql.DB has no finalizer."  An open engine is in the map, about to be put
\* there by its builder, or being closed by somebody: whatever races
\* getOrCreateSession, a resume, new_session and the reaper run, none is dropped.
NoEngineLeaks ==
  \A s \in Jobs : engine[s] = "open" =>
    \/ live = s \/ pc[s] = "storing"
    \/ \E a \in Actors : victim[a] = s /\ pc[a] \in {"checking", "stopping", "closing"}

\* "closing under a live turn is a use-after-close": no new_session, lost race,
\* resume or release does it.  The reaper can, because it forgets between its
\* sweep and its eviction what it saw.
OnlyTheReaperClosesUnderATurn ==
  \A r \in Jobs :
    pc[r] \in TurnPcs /\ engine[held[r]] = "closed" => held[r] \in reaped

\* Session.mcp is "closed with the session": a closed session's servers are
\* stopped, and a session that was not built has none left, unless a session
\* was taken out of the map under somebody's hands.
ServersStopWithTheirSession ==
  \A s \in Jobs : servers[s] = "running" =>
    \/ engine[s] = "open" \/ pc[s] = "building"
    \/ overlap

\* restoreGuardState: "a rebuild must not hand the budget back".  However the
\* session is rebuilt, its guard counts everything the key was billed but for
\* the turn each crash cut off before its persist, and keeps a recorded cap;
\* and no guard ever counts what was not billed.
BudgetIsRemembered ==
  /\ \A s \in Jobs : content[s].guard.spent <= billed
  /\ live # None /\ ~overlap /\ faults = 0 =>
       /\ content[live].guard.spent + crashes >= billed
       /\ disk.guard.capped => content[live].guard.capped

\* new_session "start[s] fresh": its turn runs on a session it built itself and
\* that holds nothing else, or on one a resume slipped in after the release;
\* never on the session it was to replace.
FreshRequestsStartEmpty ==
  \A r \in Jobs : Ask(r) = "fresh" /\ pc[r] \in {"begin"} \cup TurnPcs =>
    \/ held[r] = r /\ content[r].messages \subseteq {r}
    \/ Ask(held[r]) = "resume"

\* persistSessionStateLocked writes one moment of one session: when nobody is
\* writing and nothing failed, the four files are one snapshot.
DiskHoldsOneSnapshot ==
  \/ overlap \/ faults > 0 \/ crashes > 0
  \/ \E r \in Jobs : pc[r] \in Files
  \/ disk = settled

\* What a rebuild finds on disk is what the session was: budget, transcript,
\* turn counter and tools of one moment (persistSessionStateLocked).
DiskRemembersTheSession == BudgetIsRemembered /\ DiskHoldsOneSnapshot

\* loadPersistedSession: "continuing here would replace a transcript we failed
\* to read with one that starts empty".  A transcript on disk is replaced only
\* by one that speaks for the same turns and more, or by a fresh session's.
TranscriptsOnlyGrow ==
  [][\/ disk.messages \subseteq disk'.messages
     \/ overlap
     \/ \E r \in Jobs : pc[r] = "messages" /\ Ask(held[r]) = "fresh"]_vars

\* A request row says "running" only while its request runs, or until the next
\* process has started: every path out of the queue completes it.
RequestRowsSettle ==
  up => \A r \in Jobs : rows[r] = "running" => pc[r] \in RowPcs

\* What a session or a request opened goes with it: the engine with its
\* database, the MCP servers, the row that says running.
NothingOutlivesItsOwner == NoEngineLeaks /\ ServersStopWithTheirSession /\ RequestRowsSettle

\* "Must be called before turn() so hooks point to the right writer": a turn's
\* events reach the request that runs it, unless an event stream ended on the
\* session meanwhile or the request lost the race to store one.
StreamsStayWithTheirTurn ==
  \A r \in Jobs : pc[r] \in TurnPcs => r \in hooks[held[r]] \/ held[r] \in rewired

\* A running turn keeps its engine and its listener (releaseSession,
\* getOrCreateSession, Session.updateHooks).
TurnsKeepTheirSession == OnlyTheReaperClosesUnderATurn /\ StreamsStayWithTheirTurn

=============================================================================
