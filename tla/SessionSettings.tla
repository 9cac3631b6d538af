-------------------------- MODULE SessionSettings --------------------------
(***************************************************************************)
(* What a session is built from, and what of it survives.                 *)
(*                                                                        *)
(* A session is an object in memory.  It is made by the first request for *)
(* its key, by a resume, a fork or a spawn, and it is made again whenever *)
(* it has left memory: the reaper closed it, a fresh session replaced it, *)
(* or the server restarted.  Whose it is and where it works, its prompt   *)
(* and its model are in the row of the sessions table; its caps, the      *)
(* tools taken away and its conversation are in files that a turn leaves  *)
(* behind; the agent's own settings are in the agent store, and one       *)
(* transcript per agent lies in its workspace.  A build reads them one    *)
(* after another while other requests write them.                         *)
(*                                                                        *)
(* One cap stands for the guard's mode and its four limits.  A request    *)
(* for a session over HTTP runs under the recorded agent; one that names  *)
(* an agent of its own builds the session under that one.  What becomes   *)
(* of the engines and the streams is in SessionLifecycle, of the limits   *)
(* on spawning in Spawns, of MCP servers in McpClient.                    *)
(***************************************************************************)
EXTENDS Naturals, FiniteSets

CONSTANTS
  Jobs,        \* the requests; a session is known by the one that built it
  Keys, None,
  Above,       \* the key a child's key begins with, None for a top-level key
  Agents,
  OwnModel, OwnCap, OwnTools, \* of an agent: its model, its cap (0: none), its tools ({}: all)
  Projects,    \* the agents whose spawns work in worktrees of their own
  StandardTools, ServerTools, \* what every engine can build, what the server adds
  Home, Tree,  \* where a session works: the agent's checkout, a worktree
  Models, Prompts, \* what may be chosen
  NoText,      \* an empty prompt
  Situations   \* the cases explored, one of them per behaviour

ChildKinds == {"fork", "spawn", "spawnfork"}
Kinds == {"create", "run", "resume", "config", "none"} \cup ChildKinds
SettingsSaid == {"prompt", "model", "off", "cap", "fresh"}
Tools == StandardTools \cup ServerTools
Faults == {"crash", "reap", "tree", "forge", "engine"}

\* What a request asks, of which key, and what it says.
Asks ==
  [kind : Kinds, key : Keys, says : SUBSET SettingsSaid, agent : Agents \cup {None},
   prompt : Prompts, model : Models, off : SUBSET Tools, cap : Nat]

\* A top-level key is created with its agent; a child's is minted for one spawn
\* or fork, under a key that is there.  A config has no prompt to say, and who
\* says a cap says one: zero is nothing said.
ASSUME SettingsAssumption ==
  /\ None \notin Jobs \cup Keys \cup Agents \cup Models /\ Home # Tree
  /\ IsFiniteSet(Keys) /\ Above \in [Keys -> Keys \cup {None}]
  /\ OwnModel \in [Agents -> Models] /\ OwnCap \in [Agents -> Nat]
  /\ OwnTools \in [Agents -> SUBSET Tools]
  /\ Projects \subseteq Agents /\ NoText \in Prompts
  /\ \A s \in Situations :
       /\ s.asks \in [Jobs -> Asks] /\ s.named \in Agents /\ s.faults \subseteq Faults
       /\ \A j \in Jobs :
            /\ s.asks[j].kind = "config" => "prompt" \notin s.asks[j].says
            /\ "cap" \in s.asks[j].says => s.asks[j].cap # 0
            /\ s.asks[j].kind = "create" => s.asks[j].agent # None /\ Above[s.asks[j].key] = None
            /\ s.asks[j].kind \in ChildKinds =>
                 /\ Above[s.asks[j].key] # None
                 /\ \A i \in Jobs : s.asks[i].kind \in ChildKinds /\ s.asks[i].key = s.asks[j].key
                                    => i = j

VARIABLES
  situation,
  pc,         \* where each request stands
  row,        \* the sessions table
  file,       \* a key's saved caps, disabled tools and conversation
  workspace,  \* an agent's transcript in its workspace
  live,       \* Server.sessions: who built the session under a key
  obj,        \* the sessions, by who built them
  at,         \* the session a request works on; for a child the one above it
  holder,     \* the queue's lock of each key
  reaping,    \* the keys whose rows the reaper is about to delete
  trees,      \* the worktrees on disk
  faults,     \* the faults that may still happen
  origin,     \* whose a key was made, under what and where
  said,       \* the settings its callers were last told are in force
  flags       \* what happened to a key that the properties except

disk == <<row, file, workspace, trees>>
memory == <<live, obj, at, holder, reaping>>
ghosts == <<origin, said, flags>>
vars == <<situation, pc, disk, memory, faults, ghosts>>

Ask(j) == situation.asks[j]
Key(j) == Ask(j).key
Says(j, what) == what \in Ask(j).says
IsChild(j) == Ask(j).kind \in ChildKinds
Forks(j) == Ask(j).kind \in {"fork", "spawnfork"}

Goes(j, from, to) == pc[j] = from /\ pc' = [pc EXCEPT ![j] = to]
Unlocked(j) == [k \in Keys |-> IF holder[k] = j THEN None ELSE holder[k]]

-----------------------------------------------------------------------------
(* The sessions table *)

NoRow == [known |-> FALSE, agent |-> None, parent |-> None, depth |-> 0, roots |-> Home,
          prompt |-> NoText, model |-> None]

\* A table from an earlier build lacks columns; each comes with its default.
AddSessionColumns(rows) ==
  [k \in Keys |->
     [c \in DOMAIN NoRow |-> IF c \in DOMAIN rows[k] THEN rows[k][c] ELSE NoRow[c]]]

\* Mutation of UpsertSession: a conflict writes the row again.
UpsertSessionAnew(k, agent, parent, depth, roots) ==
  [row EXCEPT ![k] = [@ EXCEPT !.known = TRUE, !.agent = agent, !.parent = parent, !.depth = depth,
                               !.roots = roots]]

\* UpsertSession: a row that is there is left as it is.
UpsertSession(k, agent, parent, depth, roots) ==
  [row EXCEPT ![k] = IF @.known THEN @ ELSE
     [NoRow EXCEPT !.known = TRUE, !.agent = agent, !.parent = parent, !.depth = depth,
                   !.roots = roots]]

\* What a session's callers choose is written into the row, if it has one.
SetSessionInjectedSystemPrompt(rows, k, text) ==
  [rows EXCEPT ![k] = IF @.known THEN [@ EXCEPT !.prompt = text] ELSE @]
SetSessionSelectedModel(rows, k, model) ==
  [rows EXCEPT ![k] = IF @.known THEN [@ EXCEPT !.model = model] ELSE @]

\* A key with no row has no agent, no prompt, no model and works at home.
SessionAgent(k) == row[k].agent
SessionInjectedSystemPrompt(k) == row[k].prompt
SessionSelectedModel(k) == row[k].model
SessionWorkspaceRoots(k) == row[k].roots
SessionLineage(k) == [parent |-> row[k].parent, depth |-> row[k].depth]

\* The keys a key begins with: the least set with the one above it and with
\* what is above its members.
Ancestors(k) ==
  {a \in Keys : \A X \in SUBSET Keys :
     Above[k] \in X \cup {None} /\ (\A x \in X : Above[x] \in X \cup {None}) => a \in X}

\* The depth a key spells: how often ":sub:" is in it.
DepthSpelled(k) == Cardinality(Ancestors(k))

\* Rows from before the lineage was recorded say nothing of it; the key does.
BackfillLineage(rows) ==
  [k \in Keys |->
     IF rows[k].known /\ Above[k] # None /\ rows[k].parent = None /\ rows[k].depth = 0
     THEN [rows[k] EXCEPT !.parent = Above[k], !.depth = DepthSpelled(k)]
     ELSE rows[k]]

MigrateGatewayDB(rows) == BackfillLineage(AddSessionColumns(rows))

Rows == [known : BOOLEAN, agent : Agents \cup {None}, parent : Keys \cup {None}, depth : Nat,
         roots : {Home, Tree}, prompt : Prompts, model : Models \cup {None}]

\* The table a server is started on: a row that is there has its agent, a lineage
\* that is the key's or none, and only a child works in a worktree.
ASSUME RowsAssumption ==
  \A s \in Situations, k \in Keys :
    LET r == AddSessionColumns(s.rows)[k] IN
    /\ r \in Rows
    /\ ~r.known => r = NoRow
    /\ r.known => /\ r.agent # None
                  /\ Above[k] = None => r.roots = Home
                  /\ \/ r.parent = None /\ r.depth = 0
                     \/ r.parent = Above[k] /\ r.depth = DepthSpelled(k)

\* A top-level key names its agent; that of a child names the agent above it.
AgentInKey(k) == IF Above[k] = None THEN situation.named ELSE None

AgentForSession(k) ==
  IF live[k] # None THEN obj[live[k]].agent
  ELSE IF SessionAgent(k) # None THEN SessionAgent(k) ELSE AgentInKey(k)

-----------------------------------------------------------------------------
(* What an engine is built with *)

\* The agent's configuration; a spawn puts the model it asks for in its place.
EngineConfigFor(j, agent) ==
  [model |-> IF Says(j, "model") /\ IsChild(j) THEN Ask(j).model ELSE OwnModel[agent],
   chosen |-> FALSE, cap |-> 0]

\* A model that was recorded outranks the agent's, ...
WithSelectedModel(k, cfg) ==
  IF SessionSelectedModel(k) = None THEN cfg
  ELSE [cfg EXCEPT !.model = SessionSelectedModel(k), !.chosen = TRUE]

\* ... and one in the request outranks both.
ApplyRequestOverrides(j, cfg) ==
  IF Ask(j).kind # "run" THEN cfg
  ELSE [cfg EXCEPT !.model = IF Says(j, "model") THEN Ask(j).model ELSE @,
                   !.chosen = @ \/ Says(j, "model"),
                   !.cap = IF Says(j, "cap") THEN Ask(j).cap ELSE @]

\* What the agent store says of an agent.
LoadAgentConfig(agent) ==
  [model |-> OwnModel[agent], cap |-> OwnCap[agent], tools |-> OwnTools[agent]]

\* initAgent: the agent's model takes the place of one that nobody chose.
InitAgent(agent, cfg) == IF cfg.chosen THEN cfg.model ELSE LoadAgentConfig(agent).model

\* setupLimits: the agent's cap where the request has none.
SetupLimits(agent, cfg) == IF cfg.cap # 0 THEN cfg.cap ELSE LoadAgentConfig(agent).cap

\* The tools an agent is configured with, those of them that exist, or all.
BuildConfiguredTools(agent) == LoadAgentConfig(agent).tools \cap StandardTools
BuildTools(agent) ==
  IF LoadAgentConfig(agent).tools = {} THEN StandardTools ELSE BuildConfiguredTools(agent)
MergeExtraTools(base) == base \cup ServerTools
InitTools(agent) == MergeExtraTools(BuildTools(agent))

\* The tools a session was built with, without those that were disabled.
SetToolSet(s) == InitTools(s.agent)
ApplyDisabledTools(s) == [s EXCEPT !.tools = SetToolSet(s) \ s.off]
SetDisabledTools(s, off) == ApplyDisabledTools([s EXCEPT !.off = off])
DisabledToolNames(s) == s.off

\* ResumeState: what is asked now outranks what was recorded, zero asks nothing.
ResumeState(recorded, configured) == IF configured # 0 THEN configured ELSE recorded

\* What the last turn saved of them; a session that has saved nothing has neither.
LoadGuardState(k) == file[k].cap
LoadDisabledTools(k) == file[k].off

\* Mutation of RestoreDisabledTools: the set is put back and no tool is filtered.
RestoreDisabledToolsUnfiltered(k, s) ==
  IF LoadDisabledTools(k) = {} THEN s ELSE [s EXCEPT !.off = LoadDisabledTools(k)]

RestoreGuardState(k, s) == [s EXCEPT !.cap = ResumeState(LoadGuardState(k), @)]

\* The tools taken away are a filter over those the engine was built with.
RestoreDisabledTools(k, s) ==
  IF LoadDisabledTools(k) = {} THEN s ELSE SetDisabledTools(s, LoadDisabledTools(k))

\* A session with no lineage recorded is a root.
LineageForSession(k) == SessionLineage(k)

\* Mutation of OpensWith: there is nothing to restore in an empty transcript.
OpensWithAny(own, ofTheWorkspace) == IF own = {} THEN ofTheWorkspace ELSE own

\* The conversation a session opens with is its own, be it empty: NewEngine has
\* loaded the workspace's, and RestoreSession replaces it.
OpensWith(own, ofTheWorkspace) == own

\* Where it works: what the spawn has just set, or else what was recorded.
WorkspaceRootsForSession(j) ==
  IF obj[j].roots # Home THEN obj[j].roots ELSE SessionWorkspaceRoots(Key(j))

\* A worktree that was recorded has to be there; one just made is.
WorkspaceRootsStillOnDisk(j) ==
  obj[j].roots # Home \/ SessionWorkspaceRoots(Key(j)) \in trees \cup {Home}

\* setupSession: a fresh session clears the transcript in the agent's workspace.
SetupSession(j, agent) == IF Says(j, "fresh") THEN [workspace EXCEPT ![agent] = {}] ELSE workspace

\* The conversation saved for the key, and none for a fresh session.
TranscriptToStartSessionFrom(j) == IF Says(j, "fresh") THEN {} ELSE file[Key(j)].words

-----------------------------------------------------------------------------
NewObj(agent) ==
  [agent |-> agent, parent |-> None, depth |-> 0, roots |-> Home, prompt |-> NoText,
   model |-> OwnModel[agent], off |-> {}, tools |-> {}, cap |-> 0, words |-> {}, copied |-> {}]

OriginOf(s) == [agent |-> s.agent, parent |-> s.parent, depth |-> s.depth, roots |-> s.roots]

\* What a rebuild of a key would find.
Recorded(k) ==
  LET agent == IF row[k].known THEN row[k].agent ELSE AgentInKey(k) IN
  [prompt |-> said[k].prompt, off |-> file[k].off, cap |-> file[k].cap,
   model |-> IF row[k].model = None /\ agent # None THEN OwnModel[agent] ELSE row[k].model]

Forgotten(ks) == [k \in Keys |-> IF k \in ks /\ live[k] # None THEN Recorded(k) ELSE said[k]]

\* A build of the key has read the record and is not done, a child is not all recorded.
Unrecorded(k) == \E j \in Jobs : Key(j) = k /\ pc[j] \in {"record", "recordChoice"}
Building(k) == Unrecorded(k) \/
  \E j \in Jobs : Key(j) = k /\ pc[j] \in {"choice", "engine", "restore", "publish"}

\* A resume that brings something and comes to a key that has a session, or that
\* another is building: it has recorded what that one may not have read.
Brings(j) == Ask(j).kind = "resume" /\ Ask(j).says # {}
CrossesABuild(j) ==
  /\ Brings(j)
  /\ \/ live[Key(j)] # None
     \/ \E i \in Jobs \ {j} : Key(i) = Key(j) /\ pc[i] \in {"choice", "engine", "restore", "publish"}

MarkIf(k, when, mark) == flags' = [flags EXCEPT ![k] = IF when THEN @ \cup {mark} ELSE @]

-----------------------------------------------------------------------------
(* Requests for a session *)

\* POST /sessions: the key is new, and so is its row.
Create(j) ==
  LET k == Key(j)
      agent == Ask(j).agent
      model == IF Says(j, "model") THEN Ask(j).model ELSE None
      prompt == IF Says(j, "prompt") THEN Ask(j).prompt ELSE NoText
      rows == UpsertSession(k, agent, None, 0, Home) IN
  /\ Ask(j).kind = "create" /\ origin[k].agent = None /\ Goes(j, "idle", "done")
  /\ row' = SetSessionSelectedModel(SetSessionInjectedSystemPrompt(rows, k, prompt), k, model)
  /\ origin' = [origin EXCEPT ![k].agent = agent]
  /\ said' = [said EXCEPT ![k].prompt = prompt,
                          ![k].model = IF model # None THEN model ELSE OwnModel[agent]]
  /\ UNCHANGED <<situation, file, workspace, trees, memory, faults, flags>>

\* A run, before it waits for its turn.  It can name a session it has heard of.
StartRun(j) ==
  LET k == Key(j)
      agent == IF Ask(j).agent # None THEN Ask(j).agent ELSE AgentForSession(k)
      unheard == ~row[k].known /\ Above[k] = None /\ origin[k].agent = None IN
  /\ Ask(j).kind = "run" /\ pc[j] = "idle"
  /\ Above[k] # None => origin[k].agent # None
  /\ IF agent = None
     THEN pc' = [pc EXCEPT ![j] = "done"] /\ UNCHANGED <<row, obj, ghosts>>
     ELSE /\ pc' = [pc EXCEPT ![j] = "lock"]
          /\ row' = UpsertSession(k, agent, None, 0, Home)
          /\ obj' = [obj EXCEPT ![j] = NewObj(agent)]
          /\ origin' = IF unheard THEN [origin EXCEPT ![k].agent = agent] ELSE origin
          /\ said' = IF unheard THEN [said EXCEPT ![k].model = OwnModel[agent]] ELSE said
          /\ flags' = [flags EXCEPT ![k] = @ \cup
               (IF ~row[k].known /\ Above[k] # None THEN {"strayed"} ELSE {}) \cup
               (IF origin'[k].agent # agent THEN {"renamed"} ELSE {})]
  /\ UNCHANGED <<situation, file, workspace, trees, live, at, holder, reaping, faults>>

\* Inside the queue; a fresh session first closes the one that is there.
TakeLock(j) ==
  LET k == Key(j) IN
  /\ holder[k] = None /\ Goes(j, "lock", "get")
  /\ holder' = [holder EXCEPT ![k] = j]
  /\ IF Says(j, "fresh")
     THEN /\ live' = [live EXCEPT ![k] = None]
          /\ said' = Forgotten({k}) /\ MarkIf(k, Building(k), "raced")
     ELSE UNCHANGED <<live, said, flags>>
  /\ UNCHANGED <<situation, disk, obj, at, reaping, faults, origin>>

\* A live session is taken as it is: what the request says of settings is dropped.
GetSession(j) ==
  LET s == live[Key(j)] IN
  /\ Goes(j, "get", IF s # None THEN "turn" ELSE "origin")
  /\ at' = [at EXCEPT ![j] = s]
  /\ UNCHANGED <<situation, disk, live, obj, holder, reaping, faults, ghosts>>

\* POST /sessions/{id}/resume: what it brings is recorded first, ...
ResumePrompt(j) ==
  LET k == Key(j)
      refused == Says(j, "prompt") /\ ~row[k].known IN
  /\ Ask(j).kind = "resume" /\ Goes(j, "idle", IF refused THEN "done" ELSE "model")
  /\ IF Says(j, "prompt") /\ row[k].known
     THEN /\ row' = SetSessionInjectedSystemPrompt(row, k, Ask(j).prompt)
          /\ said' = [said EXCEPT ![k].prompt = Ask(j).prompt]
     ELSE UNCHANGED <<row, said>>
  /\ UNCHANGED <<situation, file, workspace, trees, memory, faults, origin, flags>>

ResumeModel(j) ==
  LET k == Key(j)
      refused == Says(j, "model") /\ ~row[k].known IN
  /\ Goes(j, "model", IF refused THEN "done" ELSE "load")
  /\ IF Says(j, "model") /\ row[k].known
     THEN /\ row' = SetSessionSelectedModel(row, k, Ask(j).model)
          /\ said' = [said EXCEPT ![k].model = Ask(j).model]
     ELSE UNCHANGED <<row, said>>
  /\ UNCHANGED <<situation, file, workspace, trees, memory, faults, origin, flags>>

\* ... then given to the session that is loaded, or one is built.
ResumeLoad(j) ==
  LET k == Key(j)
      agent == AgentForSession(k)
      builds == live[k] = None /\ agent # None
      unheard == builds /\ origin[k].agent = None IN
  /\ Goes(j, "load", IF live[k] # None THEN "apply" ELSE IF builds THEN "origin" ELSE "done")
  /\ at' = [at EXCEPT ![j] = live[k]]
  /\ obj' = IF builds THEN [obj EXCEPT ![j] = NewObj(agent)] ELSE obj
  /\ origin' = IF unheard THEN [origin EXCEPT ![k].agent = agent] ELSE origin
  /\ said' = IF unheard THEN [said EXCEPT ![k].model = OwnModel[agent]] ELSE said
  /\ UNCHANGED <<situation, disk, live, holder, reaping, faults, flags>>

\* POST /sessions/{id}/config: only for a session that is loaded.
Config(j) ==
  LET s == live[Key(j)] IN
  /\ Ask(j).kind = "config" /\ Goes(j, "idle", IF s = None THEN "done" ELSE "apply")
  /\ at' = [at EXCEPT ![j] = s]
  /\ UNCHANGED <<situation, disk, live, obj, holder, reaping, faults, ghosts>>

\* A resume or a config gives its settings to the session it found, which may
\* have left memory since.  Of two resumes the last to write the row may be the
\* first to reach the session.
SetOn(s, j) ==
  [(IF Says(j, "off") THEN SetDisabledTools(s, Ask(j).off) ELSE s) EXCEPT
            !.prompt = IF Says(j, "prompt") THEN Ask(j).prompt ELSE @,
            !.model = IF Says(j, "model") THEN Ask(j).model ELSE @,
            !.cap = IF Says(j, "cap") THEN Ask(j).cap ELSE @]

Apply(j) ==
  LET k == Key(j)
      s == SetOn(obj[at[j]], j)
      crossed == Ask(j).kind = "resume" /\
                 ((Says(j, "prompt") /\ row[k].prompt # Ask(j).prompt) \/
                  (Says(j, "model") /\ row[k].model # Ask(j).model)) IN
  /\ Goes(j, "apply", "done")
  /\ obj' = [obj EXCEPT ![at[j]] = s]
  /\ said' = IF live[k] # at[j] THEN said ELSE
       [said EXCEPT ![k] =
          [prompt |-> IF Says(j, "prompt") THEN Ask(j).prompt ELSE @.prompt,
           off |-> IF Says(j, "off") THEN Ask(j).off ELSE @.off,
           cap |-> IF Says(j, "cap") THEN Ask(j).cap ELSE @.cap,
           model |-> IF Says(j, "model") THEN Ask(j).model ELSE @.model]]
  /\ MarkIf(k, crossed, "raced")
  /\ UNCHANGED <<situation, disk, live, at, holder, reaping, faults, origin>>

-----------------------------------------------------------------------------
(* Building a session, createSession *)

\* Where it works and its prompt.  A worktree that is gone refuses the build.
ReadOrigin(j) ==
  LET refused == ~WorkspaceRootsStillOnDisk(j) IN
  /\ Goes(j, "origin", IF refused THEN "done" ELSE "choice")
  /\ obj' = IF refused THEN obj ELSE
              [obj EXCEPT ![j].roots = WorkspaceRootsForSession(j),
                         ![j].prompt = SessionInjectedSystemPrompt(Key(j))]
  /\ holder' = IF refused THEN Unlocked(j) ELSE holder
  /\ MarkIf(Key(j), refused /\ CrossesABuild(j), "raced")
  /\ UNCHANGED <<situation, disk, live, at, reaping, faults, origin, said>>

\* Its model, and what the request asks.
ReadChoice(j) ==
  LET agent == obj[j].agent
      cfg == ApplyRequestOverrides(j, WithSelectedModel(Key(j), EngineConfigFor(j, agent))) IN
  /\ Goes(j, "choice", "engine")
  /\ obj' = [obj EXCEPT ![j].model = InitAgent(agent, cfg), ![j].cap = SetupLimits(agent, cfg)]
  /\ UNCHANGED <<situation, disk, live, at, holder, reaping, faults, ghosts>>

\* The engine, its tools and its conversation.
BuildEngine(j) ==
  LET s == obj[j] IN
  /\ Goes(j, "engine", "restore")
  /\ workspace' = SetupSession(j, s.agent)
  /\ obj' = [obj EXCEPT ![j] =
       [ApplyDisabledTools(s) EXCEPT
          !.words = OpensWith(TranscriptToStartSessionFrom(j), workspace'[s.agent])]]
  /\ UNCHANGED <<situation, row, file, trees, live, at, holder, reaping, faults, ghosts>>

\* NewEngine fails: no memory store, no session log, no client for the model.
RefuseEngine(j) ==
  /\ "engine" \in faults /\ Goes(j, "engine", "done")
  /\ faults' = faults \ {"engine"}
  /\ holder' = Unlocked(j)
  /\ MarkIf(Key(j), CrossesABuild(j), "raced")
  /\ UNCHANGED <<situation, disk, live, obj, at, reaping, origin, said>>

\* The caps and the tools of the key, then where it came from.
Restore(j) ==
  LET k == Key(j)
      s == RestoreDisabledTools(k, RestoreGuardState(k, obj[j]))
      lineage == LineageForSession(k) IN
  /\ Goes(j, "restore", IF IsChild(j) THEN "inherit" ELSE "publish")
  /\ obj' = [obj EXCEPT ![j] = [s EXCEPT !.parent = lineage.parent, !.depth = lineage.depth]]
  /\ UNCHANGED <<situation, disk, live, at, holder, reaping, faults, ghosts>>

\* The first to arrive is the session; another closes its own and takes that one.
\* A resume that lost has recorded what the winner may not have read.
Publish(j) ==
  LET k == Key(j)
      won == live[k] = None IN
  /\ Goes(j, "publish", IF Ask(j).kind = "run" THEN "turn" ELSE "done")
  /\ live' = [live EXCEPT ![k] = IF won THEN j ELSE @]
  /\ at' = [at EXCEPT ![j] = live'[k]]
  /\ said' = IF ~won \/ Ask(j).kind # "run" THEN said ELSE
       [said EXCEPT ![k].model = IF Says(j, "model") THEN Ask(j).model ELSE @,
                    ![k].cap = IF Says(j, "cap") THEN Ask(j).cap ELSE @]
  /\ MarkIf(k, ~won /\ CrossesABuild(j), "raced")
  /\ UNCHANGED <<situation, disk, obj, holder, reaping, faults, origin>>

-----------------------------------------------------------------------------
(* Children *)

\* The worktrees of the workspace forge has made; without it the agent's checkout.
UseWorkspace(forged) == IF forged THEN Tree ELSE Home

\* A fork copies the conversation and works where the session above it does; a
\* spawn of an agent with projects gets worktrees, unless forge fails.  The key
\* is minted: nothing is recorded under it.
StartChild(j) ==
  LET k == Key(j)
      above == live[Above[k]]
      agent == IF Ask(j).agent = None THEN obj[above].agent ELSE Ask(j).agent
      projects == agent \in Projects /\ Ask(j).kind # "fork" IN
  /\ IsChild(j) /\ origin[k].agent = None /\ pc[j] = "idle"
  /\ IF above = None
     THEN pc' = [pc EXCEPT ![j] = "done"] /\ UNCHANGED <<obj, at, trees, faults>>
     ELSE \E forged \in BOOLEAN :
          /\ IF projects THEN forged \/ "forge" \in faults ELSE ~forged
          /\ pc' = [pc EXCEPT ![j] = "origin"]
          /\ at' = [at EXCEPT ![j] = above]
          /\ trees' = IF forged THEN trees \cup {Tree} ELSE trees
          /\ obj' = [obj EXCEPT ![j] =
               [NewObj(agent) EXCEPT
                  !.roots = IF Forks(j) /\ obj[above].roots # Home THEN obj[above].roots
                            ELSE UseWorkspace(forged),
                  !.copied = IF Forks(j) THEN obj[above].words ELSE {}]]
          /\ UNCHANGED faults
  /\ UNCHANGED <<situation, row, file, workspace, live, holder, reaping, ghosts>>

\* What a child has from the session above it.
Inherit(j) ==
  LET k == Key(j)
      above == obj[at[j]]
      model == SessionSelectedModel(Above[k])
      s == [obj[j] EXCEPT !.parent = Above[k], !.depth = above.depth + 1] IN
  /\ Goes(j, "inherit", "store")
  /\ obj' = [obj EXCEPT ![j] = IF ~Forks(j) THEN s ELSE
       [s EXCEPT !.prompt = above.prompt,
                 !.model = IF model # None /\ s.agent = above.agent THEN model ELSE @,
                 !.words = s.copied]]
  /\ UNCHANGED <<situation, disk, live, at, holder, reaping, faults, ghosts>>

\* It is in the map before it is in the table.
StoreChild(j) ==
  LET k == Key(j)
      s == obj[j] IN
  /\ Goes(j, "store", "record")
  /\ live' = [live EXCEPT ![k] = j]
  /\ origin' = [origin EXCEPT ![k] = OriginOf(s)]
  /\ said' = [said EXCEPT ![k] = [prompt |-> s.prompt, off |-> s.off, cap |-> s.cap, model |-> s.model]]
  /\ UNCHANGED <<situation, disk, obj, at, holder, reaping, faults, flags>>

RecordChild(j) ==
  LET s == obj[j] IN
  /\ Goes(j, "record", "recordChoice")
  /\ row' = UpsertSession(Key(j), s.agent, s.parent, s.depth, s.roots)
  /\ UNCHANGED <<situation, file, workspace, trees, memory, faults, ghosts>>

\* Mutation of RecordChoice: only what it was given is recorded.
RecordNothing(j) ==
  /\ Goes(j, "recordChoice", IF Ask(j).kind = "fork" THEN "done" ELSE "task")
  /\ UNCHANGED <<situation, disk, memory, faults, ghosts>>

\* The prompt of every child, and the model above it only for a fork over HTTP.
\* They take the place of what a resume in between has recorded.
RecordChoice(j) ==
  LET k == Key(j)
      model == SessionSelectedModel(Above[k])
      prompt == obj[j].prompt
      rows == IF prompt = NoText THEN row ELSE SetSessionInjectedSystemPrompt(row, k, prompt) IN
  /\ Goes(j, "recordChoice", IF Ask(j).kind = "fork" THEN "done" ELSE "task")
  /\ row' = IF Ask(j).kind = "fork" /\ model # None
             THEN SetSessionSelectedModel(rows, k, model) ELSE rows
  /\ MarkIf(k, prompt # NoText /\ prompt # said[k].prompt, "raced")
  /\ UNCHANGED <<situation, file, workspace, trees, memory, faults, origin, said>>

\* The task of a spawn waits for the lock as any turn does.
StartTask(j) ==
  /\ holder[Key(j)] = None /\ Goes(j, "task", "turn")
  /\ holder' = [holder EXCEPT ![Key(j)] = j]
  /\ at' = [at EXCEPT ![j] = j]
  /\ UNCHANGED <<situation, disk, live, obj, reaping, faults, ghosts>>

-----------------------------------------------------------------------------
(* Turns, and what ends a session *)

\* What is saved of a session beside its conversation.
SaveGuardState(s) == s.cap
SaveDisabledTools(s) == DisabledToolNames(s)

\* A turn adds to the conversation and leaves it in the workspace, ...
Turn(j) ==
  LET words == obj[at[j]].words \cup {Key(j)} IN
  /\ Goes(j, "turn", "persist")
  /\ obj' = [obj EXCEPT ![at[j]].words = words]
  /\ workspace' = [workspace EXCEPT ![obj[at[j]].agent] = words]
  /\ UNCHANGED <<situation, row, file, trees, live, at, holder, reaping, faults, ghosts>>

\* ... then all of the session's state in its files.  They may come too late for
\* another build of the key.
Persist(j) ==
  LET k == Key(j)
      s == obj[at[j]] IN
  /\ Goes(j, "persist", "done")
  /\ file' = [file EXCEPT ![k] =
       [cap |-> SaveGuardState(s), off |-> SaveDisabledTools(s), words |-> s.words]]
  /\ holder' = Unlocked(j)
  /\ said' = IF live[k] # None THEN said
             ELSE [said EXCEPT ![k] = [@ EXCEPT !.cap = s.cap, !.off = s.off]]
  /\ MarkIf(k, \E i \in Jobs \ {j} : Key(i) = k /\ pc[i] = "publish", "raced")
  /\ UNCHANGED <<situation, row, workspace, trees, live, obj, at, reaping, faults, origin>>

\* The reaper closes a session that nobody has used for long.  Nothing is saved, ...
ReapSession(k) ==
  /\ "reap" \in faults /\ live[k] # None
  /\ faults' = faults \ {"reap"} /\ reaping' = reaping \cup {k}
  /\ live' = [live EXCEPT ![k] = None]
  /\ said' = Forgotten({k})
  /\ MarkIf(k, Building(k), "raced")
  /\ UNCHANGED <<situation, pc, disk, obj, at, holder, origin>>

\* ... then its row is deleted, and its files stay.
DeleteSession(k) ==
  /\ k \in reaping /\ reaping' = reaping \ {k}
  /\ row' = [row EXCEPT ![k] = NoRow]
  /\ said' = IF AgentInKey(k) = None THEN said ELSE
       [said EXCEPT ![k].prompt = NoText, ![k].model = OwnModel[AgentInKey(k)]]
  /\ flags' = [flags EXCEPT ![k] = @ \cup
       (IF live[k] # None \/ Building(k) THEN {"raced"} ELSE {}) \cup
       (IF AgentInKey(k) # origin[k].agent THEN {"renamed"} ELSE {})]
  /\ UNCHANGED <<situation, pc, file, workspace, trees, live, obj, at, holder, faults, origin>>

\* The worktrees of a merged or expired workspace are removed.
RemoveTree ==
  /\ "tree" \in faults /\ Tree \in trees
  /\ faults' = faults \ {"tree"} /\ trees' = trees \ {Tree}
  /\ UNCHANGED <<situation, pc, row, file, workspace, memory, ghosts>>

\* A crash ends every request that has begun; the server opens its store anew.
Restart ==
  /\ "crash" \in faults /\ \E j \in Jobs : pc[j] # "idle"
  /\ faults' = faults \ {"crash"}
  /\ pc' = [j \in Jobs |-> IF pc[j] = "idle" THEN "idle" ELSE "done"]
  /\ live' = [k \in Keys |-> None] /\ holder' = [k \in Keys |-> None] /\ reaping' = {}
  /\ row' = MigrateGatewayDB(row)
  /\ said' = Forgotten(Keys)
  /\ flags' = [k \in Keys |-> flags[k] \cup (IF Unrecorded(k) THEN {"cut"} ELSE {})]
  /\ UNCHANGED <<situation, file, workspace, trees, obj, at, origin>>

-----------------------------------------------------------------------------
Init ==
  /\ situation \in Situations
  /\ pc = [j \in Jobs |-> "idle"]
  /\ row = MigrateGatewayDB(situation.rows)
  /\ file = [k \in Keys |-> [cap |-> 0, off |-> {}, words |-> {}]]
  /\ workspace = [a \in Agents |-> {}]
  /\ live = [k \in Keys |-> None]
  /\ obj = [j \in Jobs |-> NewObj(situation.named)]
  /\ at = [j \in Jobs |-> None]
  /\ holder = [k \in Keys |-> None] /\ reaping = {}
  /\ trees = {}
  /\ faults = situation.faults
  /\ origin = [k \in Keys |->
       [agent |-> row[k].agent, roots |-> row[k].roots,
        parent |-> IF row[k].known THEN Above[k] ELSE None,
        depth |-> IF row[k].known THEN DepthSpelled(k) ELSE 0]]
  /\ said = [k \in Keys |->
       [prompt |-> row[k].prompt, off |-> {}, cap |-> 0,
        model |-> IF row[k].known /\ row[k].model = None THEN OwnModel[row[k].agent]
                  ELSE row[k].model]]
  /\ flags = [k \in Keys |-> {}]

JobStep(j) ==
  \/ Create(j) \/ StartRun(j) \/ TakeLock(j) \/ GetSession(j)
  \/ ResumePrompt(j) \/ ResumeModel(j) \/ ResumeLoad(j) \/ Config(j) \/ Apply(j)
  \/ ReadOrigin(j) \/ ReadChoice(j) \/ BuildEngine(j) \/ RefuseEngine(j) \/ Restore(j) \/ Publish(j)
  \/ StartChild(j) \/ Inherit(j) \/ StoreChild(j) \/ RecordChild(j) \/ RecordChoice(j)
  \/ StartTask(j)
  \/ Turn(j) \/ Persist(j)

Next ==
  \/ \E j \in Jobs : JobStep(j)
  \/ \E k \in Keys : ReapSession(k) \/ DeleteSession(k)
  \/ RemoveTree
  \/ Restart

Spec == Init /\ [][Next]_vars

-----------------------------------------------------------------------------
PCs == {"idle", "lock", "get", "model", "load", "apply", "origin", "choice", "engine", "restore",
        "publish", "inherit", "store", "record", "recordChoice", "task", "turn", "persist", "done"}
Objects ==
  [agent : Agents, parent : Keys \cup {None}, depth : Nat, roots : {Home, Tree}, prompt : Prompts,
   model : Models, off : SUBSET Tools, tools : SUBSET Tools, cap : Nat,
   words : SUBSET Keys, copied : SUBSET Keys]
Origins == [agent : Agents \cup {None}, parent : Keys \cup {None}, depth : Nat, roots : {Home, Tree}]

TypeOK ==
  /\ situation \in Situations
  /\ pc \in [Jobs -> PCs] /\ at \in [Jobs -> Jobs \cup {None}]
  /\ row \in [Keys -> Rows]
  /\ file \in [Keys -> [cap : Nat, off : SUBSET Tools, words : SUBSET Keys]]
  /\ workspace \in [Agents -> SUBSET Keys]
  /\ live \in [Keys -> Jobs \cup {None}] /\ holder \in [Keys -> Jobs \cup {None}]
  /\ obj \in [Jobs -> Objects]
  /\ reaping \subseteq Keys /\ trees \subseteq {Tree} /\ faults \subseteq Faults
  /\ origin \in [Keys -> Origins]
  /\ said \in [Keys -> [prompt : Prompts, off : SUBSET Tools, cap : Nat, model : Models \cup {None}]]
  /\ flags \in [Keys -> SUBSET {"raced", "strayed", "renamed", "cut"}]

Quiet(k) == \A j \in Jobs : Key(j) = k => pc[j] \in {"idle", "done"}

(* A session, however often it is rebuilt, is the same agent's, at the same  *)
(* depth under the same parent, and works in the same repository: what its   *)
(* cap on spawning, the address of its results and every file tool rest on   *)
(* (session_creation.go:340, :407, api_bridge.go:1131).  Excepted are a run  *)
(* that names another agent, a key whose row the reaper has deleted and that *)
(* does not name its agent, and a child's key that a run reached before      *)
(* recordChildSession did.                                                   *)
OriginIsKept ==
  \A k \in Keys :
    live[k] # None /\ flags[k] \cap {"strayed", "renamed"} = {} =>
      OriginOf(obj[live[k]]) = origin[k]

\* Its engine has the prompt and the model that its callers last set.
ChoiceIsAsLastSaid ==
  \A k \in Keys :
    live[k] # None /\ Quiet(k) /\ flags[k] = {} =>
      LET s == obj[live[k]] IN s.prompt = said[k].prompt /\ s.model = said[k].model

\* The cap and the tools taken away that its callers last set are in force.
LimitsAreAsLastSaid ==
  \A k \in Keys :
    live[k] # None /\ Quiet(k) /\ flags[k] = {} =>
      LET s == obj[live[k]] IN
      /\ s.tools = InitTools(s.agent) \ said[k].off
      /\ OwnCap[s.agent] = 0 => s.cap = said[k].cap

(* When nobody is at work on a session its engine has the prompt, the model, *)
(* the tools and the cap that its callers last set: at its creation, by a    *)
(* resume, by a config or by the request that built it, and after a rebuild  *)
(* those that the record says, the row for prompt and model, the files of    *)
(* its last turn for tools and cap (session_creation.go:212-227, :438, :488, *)
(* api_bridge.go:575-630, guard/state.go:131).  Excepted are resumes that    *)
(* cross a build or one another, builds that cross the end of a session of   *)
(* their key, the save of its last turn or the end of its row, a child whose *)
(* recording a crash cut short, and the cap of an agent with one of its own, *)
(* which outranks what was recorded.                                         *)
SettingsAreAsLastSaid == ChoiceIsAsLastSaid /\ LimitsAreAsLastSaid

(* A session's conversation is its own and, for a fork, that of the sessions *)
(* above it: never one that another session of the agent has left in the     *)
(* workspace they share (session_creation.go:278-292, engine_new.go:150).    *)
ConversationIsOnesOwn ==
  \A k \in Keys :
    live[k] # None =>
      \A w \in obj[live[k]].words :
        w = k \/ (w \in Ancestors(k) /\ \E j \in Jobs : Key(j) = k /\ Forks(j))
=============================================================================
