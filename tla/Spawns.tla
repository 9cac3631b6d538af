------------------------------- MODULE Spawns -------------------------------
(***************************************************************************)
(* The spawn tree: what Server.Spawn does between the call and its reply,  *)
(* and what the goroutine it leaves behind does until the parent has the   *)
(* result (server/spawn.go, server/spawn_delivery.go), with the minting of *)
(* the child's key (server/session_forking.go), its request row            *)
(* (server/store.go), its forge workspace, the cascade of stop and         *)
(* interrupt (server/session_management.go), and a restart of the server.  *)
(*                                                                         *)
(* A call is one call of Spawn: the tool spawn_agent or POST /api/spawn.   *)
(* A root is a session that exists before the first call: a user's         *)
(* conversation (depth 0), or a child that an earlier process recorded.    *)
(* Turns and messages are in SessionTurns; here a turn is the interval     *)
(* between the steps "running" and "ended" of its call.                    *)
(***************************************************************************)
EXTENDS Naturals, Sequences, FiniteSets

CONSTANTS
  Calls,          \* calls of Spawn
  Roots,          \* sessions known before the first call
  Keys,           \* keys the minting of a child's key may propose
  RootDepth,      \* RootDepth[p]: the spawn depth recorded for root p
  MaxSpawnDepth,  \* Config.MaxSpawnDepth
  MaxChildren,    \* Config.MaxChildrenPerAgent
  LaneCap,        \* slots of the lane "subagent"
  MintAttempts,   \* sessionKeyMintAttempts (100 in the code)
  WithProjects,   \* calls whose agent has projects, and so gets a workspace
  Releasable,     \* roots somebody may replace or reap
  Stoppable,      \* sessions somebody may stop or interrupt
  MaxRestarts,    \* bound: restarts of the server in one behaviour
  None            \* "no session"

Sessions == Roots \cup Keys

ASSUME SpawnsAssumption ==
  /\ Roots \cap Keys = {}
  /\ None \notin Sessions
  /\ MaxSpawnDepth \in Nat \ {0}
  /\ RootDepth \in [Roots -> 0..MaxSpawnDepth]
  /\ MaxChildren \in Nat
  /\ LaneCap \in Nat \ {0}
  /\ MintAttempts \in Nat \ {0}
  /\ WithProjects \subseteq Calls
  /\ Releasable \subseteq Roots
  /\ Stoppable \subseteq Sessions
  /\ MaxRestarts \in Nat
  /\ IsFiniteSet(Calls) /\ IsFiniteSet(Keys)

VARIABLES
  step,          \* step[c]: how far call c has come
  parentOf,      \* parentOf[c]: SpawnRequest.ParentKey
  keyOf,         \* keyOf[c]: the child's key, once proposed
  tries,         \* tries[c]: keys proposed so far by the loop that mints
  reserved,      \* Server.pendingSessionKeys
  live,          \* keys of Server.sessions
  depth,         \* depth[s]: Session.SpawnDepth of the live session s
  children,      \* children[s]: Session.Children of the live session s
  recordedDepth, \* recordedDepth[k]: spawn depth in k's row; 0 when no row
  context,       \* context[c]: the context the child's work runs under
  slots,         \* calls holding a slot of the lane
  outcome,       \* outcome[c]: the status the finished turn was given
  erred,         \* calls whose turn returned an error
  row,           \* row[c]: status of the request row
  workspace,     \* workspace[c]: the forge workspace of the child
  registry,      \* calls whose workspace is in Server.workspaces
  reports,       \* reports[c]: statuses the parent was given, in order
  sweep,         \* frames of a StopSession or InterruptSession in progress
  owed,          \* history: turns that ran below the swept session when the
                 \* walk began, still run, and were not cancelled by it
  restarts       \* restarts so far

spawnVars  == <<step, parentOf, keyOf, tries, reserved>>
treeVars   == <<live, depth, children, recordedDepth>>
workVars   == <<context, slots, outcome, erred>>
resultVars == <<row, workspace, registry, reports>>
sweepVars  == <<sweep, owed>>
vars == <<step, parentOf, keyOf, tries, reserved, live, depth, children,
          recordedDepth, context, slots, outcome, erred, row, workspace,
          registry, reports, sweep, owed, restarts>>

\* Before the reply: Spawn itself.  After it: the goroutine.
CallingSteps == {"admitted", "proposed", "minted", "furnished", "built", "stored", "listed"}
SlotSteps    == {"slotted", "running", "ended", "settled", "committed", "reported"}
FailureSteps == {"failed", "cleaned", "rewritten"}
WorkingSteps == {"accepted", "opened"} \cup SlotSteps \cup FailureSteps
FinalSteps   == {"refused", "done", "abandoned", "lost"}
Steps        == {"new"} \cup CallingSteps \cup WorkingSteps \cup FinalSteps

Verdicts == {"success", "error", "timeout"}
Rows     == {"none", "running", "interrupted"} \cup Verdicts

\* From the successful check of its key on, a call is the key's only owner.
OwningSteps == (CallingSteps \ {"admitted", "proposed"}) \cup WorkingSteps
                 \cup {"done", "lost"}

TypeOK ==
  /\ step \in [Calls -> Steps]
  /\ parentOf \in [Calls -> Sessions \cup {None}]
  /\ keyOf \in [Calls -> Keys \cup {None}]
  /\ tries \in [Calls -> 0..MintAttempts]
  /\ reserved \in SUBSET Keys
  /\ live \in SUBSET Sessions
  /\ depth \in [Sessions -> 0..MaxSpawnDepth]
  /\ children \in [Sessions -> SUBSET Keys]
  /\ recordedDepth \in [Keys -> 0..MaxSpawnDepth]
  /\ context \in [Calls -> {"live", "canceled", "expired"}]
  /\ slots \in SUBSET Calls
  /\ outcome \in [Calls -> Verdicts \cup {"none"}]
  /\ erred \in SUBSET Calls
  /\ row \in [Calls -> Rows]
  /\ workspace \in [Calls -> {"none", "open", "committed", "cleaned", "resolved"}]
  /\ registry \in SUBSET Calls
  /\ reports \in [Calls -> Seq(Verdicts \cup {"undeliverable"})]
  /\ sweep \in Seq([at : Sessions, todo : SUBSET Keys])
  /\ owed \in SUBSET Calls
  /\ restarts \in 0..MaxRestarts

Init ==
  /\ step = [c \in Calls |-> "new"]
  /\ parentOf = [c \in Calls |-> None]
  /\ keyOf = [c \in Calls |-> None]
  /\ tries = [c \in Calls |-> 0]
  /\ reserved = {}
  /\ live = Roots
  /\ depth = [s \in Sessions |-> IF s \in Roots THEN RootDepth[s] ELSE 0]
  /\ children = [s \in Sessions |-> {}]
  /\ recordedDepth = [k \in Keys |-> 0]
  /\ context = [c \in Calls |-> "live"]
  /\ slots = {}
  /\ outcome = [c \in Calls |-> "none"]
  /\ erred = {}
  /\ row = [c \in Calls |-> "none"]
  /\ workspace = [c \in Calls |-> "none"]
  /\ registry = {}
  /\ reports = [c \in Calls |-> <<>>]
  /\ sweep = <<>>
  /\ owed = {}
  /\ restarts = 0

Move(c, from, to) ==
  /\ step[c] = from
  /\ step' = [step EXCEPT ![c] = to]

-----------------------------------------------------------------------------
(* The call, up to its reply.                                              *)

\* A client learns a child's key from the reply to its spawn, so it names a
\* root or a session that has a row.
Known(s) == s \in Roots \cup {k \in Keys : recordedDepth[k] # 0}

\* The parent is loaded from the map; its depth never changes, its list of
\* children is counted under its mutex, which is then released.
Admit(c, p) ==
  /\ Move(c, "new", "admitted")
  /\ p \in live /\ Known(p)
  /\ depth[p] < MaxSpawnDepth
  /\ Cardinality(children[p]) < MaxChildren
  /\ parentOf' = [parentOf EXCEPT ![c] = p]
  /\ UNCHANGED <<keyOf, tries, reserved, treeVars, workVars, resultVars, sweepVars, restarts>>

\* No such parent, too deep, too many children, or an agent nobody configured.
Refuse(c) ==
  /\ Move(c, "new", "refused")
  /\ UNCHANGED <<parentOf, keyOf, tries, reserved, treeVars, workVars, resultVars,
                 sweepVars, restarts>>

\* One round of mintUnusedSessionKey, up to LoadOrStore: the proposal is a
\* remainder of the clock, so any key may come up, a taken one included.
Reserve(c, k) ==
  /\ step[c] = "admitted" /\ tries[c] < MintAttempts
  /\ keyOf' = [keyOf EXCEPT ![c] = k]
  /\ tries' = [tries EXCEPT ![c] = @ + 1]
  /\ step' = [step EXCEPT ![c] = IF k \in reserved THEN "admitted" ELSE "proposed"]
  /\ reserved' = reserved \cup {k}
  /\ UNCHANGED <<parentOf, treeVars, workVars, resultVars, sweepVars, restarts>>

\* Every proposed key was taken.
MintGivesUp(c) ==
  /\ Move(c, "admitted", "refused") /\ tries[c] = MintAttempts
  /\ UNCHANGED <<parentOf, keyOf, tries, reserved, treeVars, workVars, resultVars,
                 sweepVars, restarts>>

InUse(k) == k \in live \/ recordedDepth[k] # 0

CheckKeyReleasing(c) ==
  /\ step[c] = "proposed"
  /\ step' = [step EXCEPT ![c] = IF InUse(keyOf[c]) THEN "admitted" ELSE "minted"]
  /\ tries' = [tries EXCEPT ![c] = IF InUse(keyOf[c]) THEN @ ELSE 0]
  /\ reserved' = reserved \ {keyOf[c]}
  /\ UNCHANGED <<parentOf, keyOf, treeVars, workVars, resultVars, sweepVars, restarts>>

\* The second half of the round: the map and the store are asked, and a key in
\* use is released and another proposed.
CheckKey(c) ==
  /\ step[c] = "proposed"
  /\ step' = [step EXCEPT ![c] = IF InUse(keyOf[c]) THEN "admitted" ELSE "minted"]
  /\ tries' = [tries EXCEPT ![c] = IF InUse(keyOf[c]) THEN @ ELSE 0]
  /\ reserved' = IF InUse(keyOf[c]) THEN reserved \ {keyOf[c]} ELSE reserved
  /\ UNCHANGED <<parentOf, keyOf, treeVars, workVars, resultVars, sweepVars, restarts>>

\* The store or the data directory cannot be read.
CheckFails(c) ==
  /\ Move(c, "proposed", "refused")
  /\ reserved' = reserved \ {keyOf[c]}
  /\ UNCHANGED <<parentOf, keyOf, tries, treeVars, workVars, resultVars, sweepVars, restarts>>

\* A return with an error runs the deferred release of the key.
RefuseHolding(c, from) ==
  /\ Move(c, from, "refused")
  /\ reserved' = reserved \ {keyOf[c]}
  /\ UNCHANGED <<parentOf, keyOf, tries, treeVars, workVars, registry, row, reports,
                 sweepVars, restarts>>

\* The agent has no projects, or forge could not create the workspace: the
\* child works in the source repository.
WorkInSourceRepository(c) ==
  /\ Move(c, "minted", "furnished")
  /\ UNCHANGED <<parentOf, keyOf, tries, reserved, treeVars, workVars, resultVars,
                 sweepVars, restarts>>

OpenWorkspace(c) ==
  /\ Move(c, "minted", "furnished") /\ c \in WithProjects
  /\ workspace' = [workspace EXCEPT ![c] = "open"]
  /\ registry' = registry \cup {c}
  /\ UNCHANGED <<parentOf, keyOf, tries, reserved, treeVars, workVars, row, reports,
                 sweepVars, restarts>>

\* useWorkspace cannot name a primary repository: cleaned up at once.
RefuseWorkspace(c) ==
  /\ RefuseHolding(c, "minted") /\ c \in WithProjects
  /\ workspace' = [workspace EXCEPT ![c] = "cleaned"]

\* createSession or forkSession, with the child's depth taken from its parent.
\* The child is not in the map yet.
Build(c) ==
  /\ Move(c, "furnished", "built")
  /\ depth' = [depth EXCEPT ![keyOf[c]] = depth[parentOf[c]] + 1]
  /\ UNCHANGED <<parentOf, keyOf, tries, reserved, live, children, recordedDepth,
                 workVars, resultVars, sweepVars, restarts>>

BuildFailsLeavingWorkspace(c) ==
  /\ RefuseHolding(c, "furnished")
  /\ UNCHANGED workspace

\* The workspace goes; its entry in Server.workspaces stays.
BuildFails(c) ==
  /\ RefuseHolding(c, "furnished")
  /\ workspace' = [workspace EXCEPT ![c] = IF @ = "open" THEN "cleaned" ELSE @]

StoreChild(c) ==
  /\ Move(c, "built", "stored")
  /\ live' = live \cup {keyOf[c]}
  /\ UNCHANGED <<parentOf, keyOf, tries, reserved, depth, children, recordedDepth,
                 workVars, resultVars, sweepVars, restarts>>

ListChild(c) ==
  /\ Move(c, "stored", "listed")
  /\ children' = [children EXCEPT ![parentOf[c]] = @ \cup {keyOf[c]}]
  /\ UNCHANGED <<parentOf, keyOf, tries, reserved, live, depth, recordedDepth,
                 workVars, resultVars, sweepVars, restarts>>

\* recordChildSession, the goroutine started, the reply, and the deferred
\* release of the key.  A row that exists keeps its lineage.
Accept(c) ==
  /\ Move(c, "listed", "accepted")
  /\ recordedDepth' = [recordedDepth EXCEPT ![keyOf[c]] = IF @ = 0 THEN depth[keyOf[c]] ELSE @]
  /\ reserved' = reserved \ {keyOf[c]}
  /\ UNCHANGED <<parentOf, keyOf, tries, live, depth, children, workVars, resultVars,
                 sweepVars, restarts>>

-----------------------------------------------------------------------------
(* The goroutine.                                                          *)

OpenRow(c) ==
  /\ Move(c, "accepted", "opened")
  /\ row' = [row EXCEPT ![c] = "running"]
  /\ UNCHANGED <<parentOf, keyOf, tries, reserved, treeVars, workVars, workspace,
                 registry, reports, sweepVars, restarts>>

\* The context of the work descends from the caller's: canceled when the
\* request or the turn that spawned ends, expired when a deadline passes.
\* Before Enqueue nobody looks at it.
ContextEnds(c, how) ==
  /\ step[c] \in {"opened", "running"} /\ context[c] = "live"
  /\ context' = [context EXCEPT ![c] = how]
  /\ UNCHANGED <<spawnVars, treeVars, slots, outcome, erred, resultVars, sweepVars, restarts>>

\* Enqueue's select: with a slot free and the context done, either branch.
TakeSlot(c) ==
  /\ Move(c, "opened", "slotted")
  /\ Cardinality(slots) < LaneCap
  /\ slots' = slots \cup {c}
  /\ UNCHANGED <<parentOf, keyOf, tries, reserved, treeVars, context, outcome, erred,
                 resultVars, sweepVars, restarts>>

EnqueueFails(c) ==
  /\ Move(c, "opened", "failed")
  /\ context[c] # "live"
  /\ UNCHANGED <<parentOf, keyOf, tries, reserved, treeVars, workVars, resultVars,
                 sweepVars, restarts>>

\* Session.turn publishes the turn's cancel function.
BeginTurn(c) ==
  /\ Move(c, "slotted", "running")
  /\ UNCHANGED <<parentOf, keyOf, tries, reserved, treeVars, workVars, resultVars,
                 sweepVars, restarts>>

\* The turn returns with or without an error, and the context is read once.
TurnEnds(c, err) ==
  /\ Move(c, "running", "ended")
  /\ outcome' = [outcome EXCEPT ![c] = IF context[c] = "expired" THEN "timeout"
                                       ELSE IF err THEN "error" ELSE "success"]
  /\ erred' = IF err THEN erred \cup {c} ELSE erred
  /\ owed' = owed \ {c}
  /\ UNCHANGED <<parentOf, keyOf, tries, reserved, treeVars, context, slots,
                 resultVars, sweep, restarts>>

SettleRow(c) ==
  /\ Move(c, "ended", "settled")
  /\ row' = [row EXCEPT ![c] = outcome[c]]
  /\ UNCHANGED <<parentOf, keyOf, tries, reserved, treeVars, workVars, workspace,
                 registry, reports, sweepVars, restarts>>

\* CommitAll, which may fail for some repository and leave it uncommitted.
Commit(c) ==
  /\ Move(c, "settled", "committed")
  /\ \/ workspace[c] = "open" /\ workspace' = [workspace EXCEPT ![c] = "committed"]
     \/ UNCHANGED workspace
  /\ UNCHANGED <<parentOf, keyOf, tries, reserved, treeVars, workVars, row,
                 registry, reports, sweepVars, restarts>>

\* deliverResult: a parent that is not in the map loses the result.
Delivered(c, status) ==
  reports' = [reports EXCEPT ![c] =
                Append(@, IF parentOf[c] \in live THEN status ELSE "undeliverable")]

Report(c) ==
  /\ Move(c, "committed", "reported")
  /\ Delivered(c, outcome[c])
  /\ UNCHANGED <<parentOf, keyOf, tries, reserved, treeVars, workVars, row, workspace,
                 registry, sweepVars, restarts>>

\* The work returns the turn's error to Enqueue, which gives the slot back and
\* returns it to the goroutine.
Return(c) ==
  /\ Move(c, "reported", IF c \in erred THEN "failed" ELSE "done")
  /\ slots' = slots \ {c}
  /\ UNCHANGED <<parentOf, keyOf, tries, reserved, treeVars, context, outcome, erred,
                 resultVars, sweepVars, restarts>>

\* The branch err # nil after Enqueue: whether the lane or the work failed.
CleanUp(c) ==
  /\ Move(c, "failed", "cleaned")
  /\ workspace' = [workspace EXCEPT ![c] = IF @ = "none" THEN @ ELSE "cleaned"]
  /\ UNCHANGED <<parentOf, keyOf, tries, reserved, treeVars, workVars, row, registry,
                 reports, sweepVars, restarts>>

RewriteRow(c) ==
  /\ Move(c, "cleaned", "rewritten")
  /\ row' = [row EXCEPT ![c] = "error"]
  /\ UNCHANGED <<parentOf, keyOf, tries, reserved, treeVars, workVars, workspace,
                 registry, reports, sweepVars, restarts>>

FinishSilently(c) ==
  /\ Move(c, "rewritten", "done")
  /\ UNCHANGED <<parentOf, keyOf, tries, reserved, treeVars, workVars, resultVars,
                 sweepVars, restarts>>

ReportFailure(c) ==
  /\ Move(c, "rewritten", "done")
  /\ Delivered(c, "error")
  /\ UNCHANGED <<parentOf, keyOf, tries, reserved, treeVars, workVars, row, workspace,
                 registry, sweepVars, restarts>>

-----------------------------------------------------------------------------
(* What others do meanwhile.                                               *)

\* merge_workspace or reject_workspace by the orchestrator, of a workspace the
\* report named.
Resolve(c) ==
  /\ workspace[c] \in {"open", "committed"}
  /\ reports[c] # <<>>
  /\ workspace' = [workspace EXCEPT ![c] = "resolved"]
  /\ registry' = registry \ {c}
  /\ UNCHANGED <<spawnVars, treeVars, workVars, row, reports, sweepVars, restarts>>

\* A root is released: replaced by new_session, or reaped.
Release(s) ==
  /\ s \in live \cap Releasable
  /\ live' = live \ {s}
  /\ children' = [children EXCEPT ![s] = {}]
  /\ UNCHANGED <<spawnVars, depth, recordedDepth, workVars, resultVars, sweepVars, restarts>>

OpenAsRoot(s) ==
  /\ s \notin live /\ Known(s)
  /\ live' = live \cup {s}
  /\ depth' = [depth EXCEPT ![s] = 0]
  /\ UNCHANGED <<spawnVars, children, recordedDepth, workVars, resultVars, sweepVars, restarts>>

\* createSession rebuilds a known session from its row: the depth comes back,
\* the list of children does not.
Open(s) ==
  /\ s \notin live /\ Known(s)
  /\ live' = live \cup {s}
  /\ depth' = [depth EXCEPT ![s] = IF s \in Roots THEN RootDepth[s] ELSE recordedDepth[s]]
  /\ UNCHANGED <<spawnVars, children, recordedDepth, workVars, resultVars, sweepVars, restarts>>

\* The sessions below those of X, themselves included, along the lists of
\* children: what is in every set that holds X and the children of its members.
ClosedUnderChildren(C) == \A x \in C : children[x] \subseteq C
Below(X) == {k \in Sessions : \A C \in SUBSET Sessions :
               X \subseteq C /\ ClosedUnderChildren(C) => k \in C}

Frame(s) == [at |-> s, todo |-> children[s]]
Top      == sweep[Len(sweep)]
Outer    == SubSeq(sweep, 1, Len(sweep) - 1)

\* StopSession and InterruptSession walk the tree alike: the children are
\* copied under the session's mutex, then visited one by one, then the session
\* itself is stopped.  One walk at a time here.
BeginSweep(s) ==
  /\ sweep = <<>> /\ s \in live \cap Stoppable
  /\ sweep' = <<Frame(s)>>
  /\ owed' = {c \in Calls : step[c] = "running" /\ keyOf[c] \in Below({s}) \cap live}
  /\ UNCHANGED <<spawnVars, treeVars, workVars, resultVars, restarts>>

VisitWithoutChildren(k) ==
  /\ sweep # <<>> /\ k \in Top.todo
  /\ sweep' = Append(Outer, [Top EXCEPT !.todo = @ \ {k}])
                \o (IF k \in live THEN <<[at |-> k, todo |-> {}]>> ELSE <<>>)
  /\ UNCHANGED <<spawnVars, treeVars, workVars, resultVars, owed, restarts>>

\* The recursive call for one child; a child not in the map is skipped.
Visit(k) ==
  /\ sweep # <<>> /\ k \in Top.todo
  /\ sweep' = Append(Outer, [Top EXCEPT !.todo = @ \ {k}])
                \o (IF k \in live THEN <<Frame(k)>> ELSE <<>>)
  /\ UNCHANGED <<spawnVars, treeVars, workVars, resultVars, owed, restarts>>

\* Session.stop or interrupt: the turn in flight, if there is one, is cancelled.
StopSelf ==
  /\ sweep # <<>> /\ Top.todo = {}
  /\ sweep' = Outer
  /\ owed' = {c \in owed : keyOf[c] # Top.at}
  /\ UNCHANGED <<spawnVars, treeVars, workVars, resultVars, restarts>>

\* Everything in memory is gone; the store, forge and the clients' calls that
\* were answered are not.
ForgetMemory ==
  /\ restarts < MaxRestarts
  /\ restarts' = restarts + 1
  /\ step' = [c \in Calls |-> IF step[c] \in CallingSteps THEN "abandoned"
                              ELSE IF step[c] \in WorkingSteps THEN "lost" ELSE step[c]]
  /\ reserved' = {} /\ live' = {} /\ registry' = {} /\ slots' = {}
  /\ children' = [s \in Sessions |-> {}]
  /\ depth' = [s \in Sessions |-> 0]
  /\ sweep' = <<>> /\ owed' = {}
  /\ tries' = [c \in Calls |-> 0]
  /\ context' = [c \in Calls |-> "live"]
  /\ outcome' = [c \in Calls |-> "none"] /\ erred' = {}
  /\ UNCHANGED <<parentOf, keyOf, recordedDepth, workspace, reports>>

RestartKeepingRows == ForgetMemory /\ UNCHANGED row

\* NewServer on the old store: InterruptRunning.
Restart ==
  /\ ForgetMemory
  /\ row' = [c \in Calls |-> IF row[c] = "running" THEN "interrupted" ELSE row[c]]

-----------------------------------------------------------------------------

SpawnStep(c) ==
  \/ \E p \in Sessions : Admit(c, p)
  \/ Refuse(c)
  \/ \E k \in Keys : Reserve(c, k)
  \/ MintGivesUp(c) \/ CheckKey(c) \/ CheckFails(c)
  \/ WorkInSourceRepository(c) \/ OpenWorkspace(c) \/ RefuseWorkspace(c)
  \/ Build(c) \/ BuildFails(c)
  \/ StoreChild(c) \/ ListChild(c) \/ Accept(c)

WorkStep(c) ==
  \/ OpenRow(c) \/ TakeSlot(c) \/ EnqueueFails(c) \/ BeginTurn(c)
  \/ \E err \in BOOLEAN : TurnEnds(c, err)
  \/ SettleRow(c) \/ Commit(c) \/ Report(c) \/ Return(c)
  \/ CleanUp(c) \/ RewriteRow(c) \/ ReportFailure(c)

Environment ==
  \/ \E c \in Calls, how \in {"canceled", "expired"} : ContextEnds(c, how)
  \/ \E c \in Calls : Resolve(c)
  \/ \E s \in Sessions : Release(s) \/ Open(s) \/ BeginSweep(s)
  \/ \E k \in Keys : Visit(k)
  \/ StopSelf
  \/ Restart

Next ==
  \/ \E c \in Calls : SpawnStep(c) \/ WorkStep(c)
  \/ Environment

Spec == Init /\ [][Next]_vars

\* The goroutine of a call goes on: a turn ends because its deadline outlives
\* every cancellation of the caller, and a waiting goroutine gets a slot
\* because senders on a full channel are served in order.
FairSpec == Spec /\ \A c \in Calls : SF_vars(WorkStep(c))

-----------------------------------------------------------------------------
(* What the spawn tree promises.                                           *)

\* A key handed to a child is no other child's, from the check that it is
\* unused to the end of the work and beyond: two spawns of one parent that draw
\* the same clock remainder never share transcript, budget and row.
KeysAreUnique ==
  \A c, d \in Calls :
    c # d /\ step[c] \in OwningSteps /\ step[d] \in OwningSteps => keyOf[c] # keyOf[d]

DepthOnRecord(s) == IF s \in Roots THEN RootDepth[s] ELSE recordedDepth[s]

\* The recorded depth of a child counts its ancestors, one more than its
\* parent's, however often the server restarted between the spawns: the cap on
\* the depth bounds the whole tree and not one process's part of it.
DepthCountsAncestors ==
  \A c \in Calls :
    step[c] \in WorkingSteps \cup {"done", "lost"} =>
      DepthOnRecord(keyOf[c]) = DepthOnRecord(parentOf[c]) + 1

\* A child has a place of its own in the tree (mintUnusedSessionKey,
\* recordChildSession, createSession).
ChildrenHaveTheirPlace == KeysAreUnique /\ DepthCountsAncestors

\* A spawn that was refused, or that ended in an error, leaves no workspace on
\* disk; one that fails after CreateWorkspace cleans up on every return.
NoWorkspaceLeaks ==
  \A c \in Calls :
    step[c] = "refused" \/ (step[c] = "done" /\ row[c] = "error") =>
      workspace[c] \in {"none", "cleaned"}

\* A row reads running only while a goroutine works on it, a finished goroutine
\* has left a verdict, and that verdict is what the parent was told last: a
\* restart settles what it interrupted, and the branch after a failed enqueue
\* keeps store and parent in step (Spawn; Store.InterruptRunning).
RowsFollowTheWork ==
  \A c \in Calls :
    /\ row[c] = "running" => step[c] \in WorkingSteps
    /\ step[c] = "done" =>
         /\ row[c] \in Verdicts
         /\ reports[c] # <<>> /\ reports[c][Len(reports[c])] \in {row[c], "undeliverable"}

\* Whatever way a call ends, the records it leaves agree with how it ended:
\* workspace, row and report.
EndedCallsAreSettled == NoWorkspaceLeaks /\ RowsFollowTheWork

\* When a stop or interrupt has walked the tree, every turn that ran below the
\* session when the walk began was cancelled or has ended by itself, at any
\* depth, whatever was spawned, released or finished during the walk.
StopReachesRunningDescendants ==
  sweep = <<>> => owed = {}

\* An accepted spawn is answered: its parent is given a result, unless the
\* server restarts or the parent is gone.
EveryAcceptedCallReports ==
  \A c \in Calls : step[c] = "accepted" ~> (reports[c] # <<>> \/ step[c] = "lost")
=============================================================================
