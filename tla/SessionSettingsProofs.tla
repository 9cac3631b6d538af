----------------------- MODULE SessionSettingsProofs -----------------------
(***************************************************************************)
(* Proofs about SessionSettings, for any keys, agents, requests and        *)
(* faults: a session keeps its origin however often it is rebuilt, its     *)
(* conversation is its own, and its settings are those last said.         *)
(***************************************************************************)
EXTENDS SessionSettings, FiniteSetTheorems, TLAPS

\* Who works on a session that is made, and who makes a child of one.
AtPcs == {"apply", "turn", "persist"}
ChildPcs == {"origin", "choice", "engine", "restore", "inherit"}
RequestPcs == {"lock", "get", "model", "load", "apply", "publish"}
OnlyChildPcs == {"inherit", "store", "record", "recordChoice", "task"}
AtInv ==
  \A j \in Jobs :
    /\ pc[j] \in AtPcs => at[j] # None
    /\ IsChild(j) /\ pc[j] \in ChildPcs => at[j] # None
    /\ IsChild(j) => pc[j] \notin RequestPcs
    /\ pc[j] \in OnlyChildPcs => IsChild(j)

TypeInv == TypeOK /\ AtInv

ControlOK ==
  /\ situation \in Situations
  /\ pc \in [Jobs -> PCs] /\ at \in [Jobs -> Jobs \cup {None}]
  /\ live \in [Keys -> Jobs \cup {None}] /\ holder \in [Keys -> Jobs \cup {None}]
  /\ reaping \subseteq Keys /\ trees \subseteq {Tree} /\ faults \subseteq Faults
Saids == [prompt : Prompts, off : SUBSET Tools, cap : Nat, model : Models \cup {None}]
Files == [cap : Nat, off : SUBSET Tools, words : SUBSET Keys]
Marks == {"raced", "strayed", "renamed", "cut"}
RecordsOK ==
  /\ row \in [Keys -> Rows] /\ origin \in [Keys -> Origins] /\ said \in [Keys -> Saids]
  /\ file \in [Keys -> Files] /\ flags \in [Keys -> SUBSET Marks]
ObjOK == obj \in [Jobs -> Objects] /\ workspace \in [Agents -> SUBSET Keys]

-----------------------------------------------------------------------------
(* The operators.                                                          *)

\* The parts of the types.
LEMMA TypeParts == TypeOK <=> ControlOK /\ RecordsOK /\ ObjOK
  BY DEF TypeOK, ControlOK, RecordsOK, ObjOK, Saids, Files, Marks

\* A request says what a request can say.
LEMMA AskType ==
  ASSUME situation \in Situations, NEW j \in Jobs
  PROVE  /\ Ask(j) \in Asks /\ Key(j) \in Keys /\ situation.named \in Agents
         /\ Ask(j).kind \in Kinds /\ Ask(j).agent \in Agents \cup {None} /\ Ask(j).prompt \in Prompts
         /\ Ask(j).model \in Models /\ Ask(j).off \in SUBSET Tools /\ Ask(j).cap \in Nat
         /\ Ask(j).kind = "create" => Ask(j).agent # None /\ Above[Key(j)] = None
         /\ IsChild(j) => Above[Key(j)] \in Keys
         /\ \A i \in Jobs : IsChild(i) /\ IsChild(j) /\ Key(i) = Key(j) => i = j
<1>1. /\ situation.asks \in [Jobs -> Asks] /\ situation.named \in Agents
      /\ Above \in [Keys -> Keys \cup {None}]
      /\ \A i \in Jobs :
            /\ Ask(i).kind = "create" => Ask(i).agent # None /\ Above[Key(i)] = None
            /\ IsChild(i) =>
                 /\ Above[Key(i)] # None
                 /\ \A h \in Jobs : IsChild(h) /\ Key(h) = Key(i) => h = i
  BY SettingsAssumption DEF Ask, Key, IsChild
<1>2. Ask(j) \in Asks  BY <1>1 DEF Ask
<1>3. /\ Key(j) \in Keys /\ Ask(j).kind \in Kinds /\ Ask(j).agent \in Agents \cup {None}
      /\ Ask(j).prompt \in Prompts
      /\ Ask(j).model \in Models /\ Ask(j).off \in SUBSET Tools /\ Ask(j).cap \in Nat
  BY <1>2 DEF Asks, Key
<1> QED BY <1>1, <1>2, <1>3

\* A key begins with the key above it, and with all that one begins with; it
\* spells a depth, zero at the top.
LEMMA AboveIsAncestor ==
  ASSUME NEW k \in Keys
  PROVE  /\ Ancestors(k) \subseteq Keys /\ DepthSpelled(k) \in Nat
         /\ Above[k] = None => DepthSpelled(k) = 0
         /\ Above[k] # None => Above[k] \in Ancestors(k) /\ Ancestors(Above[k]) \subseteq Ancestors(k)
<1>0. Above[k] \in Keys \cup {None} /\ None \notin Keys  BY SettingsAssumption
<1>1. Ancestors(k) \subseteq Keys  BY DEF Ancestors
<1>2. IsFiniteSet(Ancestors(k))  BY <1>1, FS_Subset, SettingsAssumption
<1>3. DepthSpelled(k) \in Nat  BY <1>2, FS_CardinalityType DEF DepthSpelled
<1>4. ASSUME Above[k] = None PROVE DepthSpelled(k) = 0
  <2>1. Ancestors(k) = {}
    <3>1. ASSUME NEW a \in Ancestors(k) PROVE FALSE
      <4>1. {} \in SUBSET Keys  OBVIOUS
      <4> QED BY <1>4, <3>1, <4>1 DEF Ancestors
    <3> QED BY <3>1
  <2> QED BY <2>1, FS_EmptySet DEF DepthSpelled
<1>5. ASSUME Above[k] # None PROVE Above[k] \in Ancestors(k) /\ Ancestors(Above[k]) \subseteq Ancestors(k)
  <2>1. Above[k] \in Ancestors(k)  BY <1>0, <1>5 DEF Ancestors
  <2>2. ASSUME NEW a \in Ancestors(Above[k]) PROVE a \in Ancestors(k)
    <3>1. a \in Keys  BY <2>2 DEF Ancestors
    <3>2. ASSUME NEW X \in SUBSET Keys, Above[k] \in X \cup {None}, \A x \in X : Above[x] \in X \cup {None}
          PROVE  a \in X
      <4>1. Above[k] \in X  BY <1>5, <3>2
      <4>2. Above[Above[k]] \in X \cup {None}  BY <3>2, <4>1
      <4> QED BY <2>2, <3>2, <4>2 DEF Ancestors
    <3> QED BY <3>1, <3>2 DEF Ancestors
  <2> QED BY <2>1, <2>2
<1> QED BY <1>1, <1>3, <1>4, <1>5

\* Two tables that say the same of where sessions come from.
SameOrigins(rows, others) ==
  \A x \in Keys :
    /\ others[x].known = rows[x].known /\ OriginOf(others[x]) = OriginOf(rows[x])
    /\ ~rows[x].known => others[x] = rows[x]

\* An empty row is a row.
LEMMA NoRowType == NoRow \in Rows
  BY SettingsAssumption DEF NoRow, Rows

\* UpsertSession leaves a table of rows.
LEMMA UpsertType ==
  ASSUME row \in [Keys -> Rows], NEW k \in Keys, NEW a \in Agents, NEW p \in Keys \cup {None},
         NEW d \in Nat, NEW r \in {Home, Tree}
  PROVE  UpsertSession(k, a, p, d, r) \in [Keys -> Rows]
<1> DEFINE new == [NoRow EXCEPT !.known = TRUE, !.agent = a, !.parent = p, !.depth = d, !.roots = r]
<1>1. new \in Rows  BY NoRowType DEF Rows
<1>2. UpsertSession(k, a, p, d, r) = [row EXCEPT ![k] = IF row[k].known THEN row[k] ELSE new]
  BY DEF UpsertSession
<1> HIDE DEF new
<1> QED BY <1>1, <1>2

\* What the row of a top-level key says of where its session comes from.
Root(a) == [agent |-> a, parent |-> None, depth |-> 0, roots |-> Home]

\* A run and a new session insert the row of a root where there is none, and leave
\* a row that is there, and every other, as they are.
LEMMA RootValue ==
  ASSUME row \in [Keys -> Rows], NEW k \in Keys, NEW a \in Agents,
         NEW rows, rows = UpsertSession(k, a, None, 0, Home)
  PROVE  /\ rows \in [Keys -> Rows] /\ rows[k].known
         /\ \A x \in Keys \ {k} : rows[x] = row[x]
         /\ row[k].known => rows[k] = row[k]
         /\ ~row[k].known => OriginOf(rows[k]) = Root(a)
<1> DEFINE new == [NoRow EXCEPT !.known = TRUE, !.agent = a, !.parent = None, !.depth = 0, !.roots = Home]
<1>1. new \in Rows  BY NoRowType DEF Rows
<1>2. new.known /\ OriginOf(new) = Root(a)  BY DEF NoRow, OriginOf, Root
<1>3. rows = [row EXCEPT ![k] = IF row[k].known THEN row[k] ELSE new]  BY DEF UpsertSession
<1> HIDE DEF new
<1> QED BY <1>1, <1>2, <1>3

\* What a caller chooses is no part of where a session comes from.
LEMMA ChoiceValue ==
  ASSUME NEW rows \in [Keys -> Rows], NEW k \in Keys
  PROVE  /\ \A text \in Prompts :
              /\ SetSessionInjectedSystemPrompt(rows, k, text) \in [Keys -> Rows]
              /\ SameOrigins(rows, SetSessionInjectedSystemPrompt(rows, k, text))
         /\ \A model \in Models \cup {None} :
              /\ SetSessionSelectedModel(rows, k, model) \in [Keys -> Rows]
              /\ SameOrigins(rows, SetSessionSelectedModel(rows, k, model))
<1>1. ASSUME NEW text \in Prompts
      PROVE  LET other == SetSessionInjectedSystemPrompt(rows, k, text) IN
             other \in [Keys -> Rows] /\ SameOrigins(rows, other)
  <2> DEFINE new == [rows[k] EXCEPT !.prompt = text]
  <2>0. rows[k] \in Rows  OBVIOUS
  <2>1. new \in Rows /\ new.known = rows[k].known /\ OriginOf(new) = OriginOf(rows[k])
    BY <2>0 DEF Rows, OriginOf
  <2>2. SetSessionInjectedSystemPrompt(rows, k, text)
          = [rows EXCEPT ![k] = IF rows[k].known THEN new ELSE rows[k]]
    BY DEF SetSessionInjectedSystemPrompt
  <2> HIDE DEF new
  <2> QED BY <2>1, <2>2 DEF SameOrigins
<1>2. ASSUME NEW model \in Models \cup {None}
      PROVE  LET other == SetSessionSelectedModel(rows, k, model) IN
             other \in [Keys -> Rows] /\ SameOrigins(rows, other)
  <2> DEFINE new == [rows[k] EXCEPT !.model = model]
  <2>0. rows[k] \in Rows  OBVIOUS
  <2>1. new \in Rows /\ new.known = rows[k].known /\ OriginOf(new) = OriginOf(rows[k])
    BY <2>0 DEF Rows, OriginOf
  <2>2. SetSessionSelectedModel(rows, k, model)
          = [rows EXCEPT ![k] = IF rows[k].known THEN new ELSE rows[k]]
    BY DEF SetSessionSelectedModel
  <2> HIDE DEF new
  <2> QED BY <2>1, <2>2 DEF SameOrigins
<1> QED BY <1>1, <1>2

\* addSessionColumns finds nothing to add to a table of today.
LEMMA ColumnsAreThere == ASSUME NEW rows \in [Keys -> Rows] PROVE AddSessionColumns(rows) = rows
<1>1. ASSUME NEW k \in Keys
      PROVE  [c \in DOMAIN NoRow |-> IF c \in DOMAIN rows[k] THEN rows[k][c] ELSE NoRow[c]] = rows[k]
  <2>1. rows[k] \in Rows  OBVIOUS
  <2>2. DOMAIN NoRow = {"known", "agent", "parent", "depth", "roots", "prompt", "model"}
    BY DEF NoRow
  <2>3. DOMAIN rows[k] = {"known", "agent", "parent", "depth", "roots", "prompt", "model"}
        /\ rows[k] = [c \in DOMAIN rows[k] |-> rows[k][c]]
    BY <2>1 DEF Rows
  <2> QED BY <2>2, <2>3
<1> QED BY <1>1 DEF AddSessionColumns

\* The backfill gives a row its key's lineage where it has none, and leaves
\* every other row as it is.
LEMMA BackfillValue ==
  ASSUME NEW rows \in [Keys -> Rows], NEW k \in Keys
  PROVE  LET r == BackfillLineage(rows)[k] IN
         /\ BackfillLineage(rows) \in [Keys -> Rows]
         /\ r.known = rows[k].known /\ r.agent = rows[k].agent /\ r.roots = rows[k].roots
         /\ r.prompt = rows[k].prompt /\ r.model = rows[k].model
         /\ ~rows[k].known \/ Above[k] = None \/ rows[k].parent # None => r = rows[k]
         /\ rows[k].known /\ Above[k] # None /\ rows[k].parent = None /\ rows[k].depth = 0 =>
              r.parent = Above[k] /\ r.depth = DepthSpelled(k)
<1> DEFINE new(x) == [rows[x] EXCEPT !.parent = Above[x], !.depth = DepthSpelled(x)]
           lost(x) == rows[x].known /\ Above[x] # None /\ rows[x].parent = None /\ rows[x].depth = 0
<1>1. ASSUME NEW x \in Keys
      PROVE  /\ new(x) \in Rows /\ new(x).known = rows[x].known /\ new(x).agent = rows[x].agent
             /\ new(x).roots = rows[x].roots
             /\ new(x).prompt = rows[x].prompt /\ new(x).model = rows[x].model
             /\ new(x).parent = Above[x] /\ new(x).depth = DepthSpelled(x)
  <2>1. rows[x] \in Rows /\ Above[x] \in Keys \cup {None}  BY SettingsAssumption
  <2>2. DepthSpelled(x) \in Nat  BY AboveIsAncestor
  <2> QED BY <2>1, <2>2 DEF Rows
<1>2. BackfillLineage(rows) = [x \in Keys |-> IF lost(x) THEN new(x) ELSE rows[x]]
  BY DEF BackfillLineage
<1> HIDE DEF new
<1> QED BY <1>1, <1>2

\* Where a session comes from, and its words.
Kept(s, t) == OriginOf(t) = OriginOf(s) /\ t.words = s.words /\ t.copied = s.copied

\* The parts of a session.
LEMMA ObjectParts ==
  ASSUME NEW s \in Objects
  PROVE  /\ s.agent \in Agents /\ s.parent \in Keys \cup {None} /\ s.depth \in Nat
         /\ s.roots \in {Home, Tree} /\ s.prompt \in Prompts /\ s.model \in Models
         /\ s.off \in SUBSET Tools /\ s.tools \in SUBSET Tools /\ s.cap \in Nat
         /\ s.words \in SUBSET Keys /\ s.copied \in SUBSET Keys
         /\ OriginOf(s) \in Origins
  BY DEF Objects, OriginOf, Origins

\* A session that is started has an agent and nothing else of its own.
LEMMA NewObjValue ==
  ASSUME NEW a \in Agents
  PROVE  /\ NewObj(a) \in Objects /\ NewObj(a).agent = a /\ NewObj(a).roots = Home
         /\ NewObj(a).words = {} /\ NewObj(a).copied = {}
  BY SettingsAssumption DEF NewObj, Objects

\* The tools an engine is built with exist.
LEMMA ToolsType == ASSUME NEW a \in Agents PROVE InitTools(a) \in SUBSET Tools
<1>1. OwnTools[a] \in SUBSET Tools  BY SettingsAssumption
<1> QED BY <1>1 DEF InitTools, MergeExtraTools, BuildTools, BuildConfiguredTools, LoadAgentConfig, Tools

\* applyDisabledTools filters the tools and leaves the rest.
LEMMA FilterValue ==
  ASSUME NEW s \in Objects, NEW off \in SUBSET Tools
  PROVE  /\ ApplyDisabledTools(s) \in Objects /\ Kept(s, ApplyDisabledTools(s))
         /\ SetDisabledTools(s, off) \in Objects /\ Kept(s, SetDisabledTools(s, off))
<1>1. ASSUME NEW t \in Objects PROVE ApplyDisabledTools(t) \in Objects /\ Kept(t, ApplyDisabledTools(t))
  <2>1. InitTools(t.agent) \ t.off \in SUBSET Tools  BY ObjectParts, ToolsType
  <2> QED BY <2>1 DEF ApplyDisabledTools, SetToolSet, Kept, OriginOf, Objects
<1>2. [s EXCEPT !.off = off] \in Objects /\ Kept(s, [s EXCEPT !.off = off])
  BY DEF Objects, Kept, OriginOf
<1>3. SetDisabledTools(s, off) = ApplyDisabledTools([s EXCEPT !.off = off])
  BY DEF SetDisabledTools
<1> QED BY <1>1, <1>2, <1>3 DEF Kept

\* What a resume or a config sets is no part of where a session comes from.
LEMMA SetOnValue ==
  ASSUME situation \in Situations, NEW j \in Jobs, NEW s \in Objects
  PROVE  SetOn(s, j) \in Objects /\ Kept(s, SetOn(s, j))
<1> DEFINE t == IF Says(j, "off") THEN SetDisabledTools(s, Ask(j).off) ELSE s
           prompt == IF Says(j, "prompt") THEN Ask(j).prompt ELSE t.prompt
           model == IF Says(j, "model") THEN Ask(j).model ELSE t.model
           cap == IF Says(j, "cap") THEN Ask(j).cap ELSE t.cap
<1>1. t \in Objects /\ Kept(s, t)
  <2>1. Ask(j).off \in SUBSET Tools  BY AskType
  <2> QED BY <2>1, FilterValue DEF Kept
<1>2. prompt \in Prompts /\ model \in Models /\ cap \in Nat
  BY <1>1, AskType, ObjectParts
<1>3. SetOn(s, j) = [t EXCEPT !.prompt = prompt, !.model = model, !.cap = cap]
  BY DEF SetOn
<1> HIDE DEF t, prompt, model, cap
<1>4. [t EXCEPT !.prompt = prompt, !.model = model, !.cap = cap] \in Objects
      /\ Kept(t, [t EXCEPT !.prompt = prompt, !.model = model, !.cap = cap])
  BY <1>1, <1>2 DEF Objects, Kept, OriginOf
<1> QED BY <1>1, <1>3, <1>4 DEF Kept

\* The model and the cap a build chooses are a model and a cap.
LEMMA ChosenType ==
  ASSUME ControlOK, RecordsOK, NEW j \in Jobs, NEW agent \in Agents
  PROVE  LET cfg == ApplyRequestOverrides(j, WithSelectedModel(Key(j), EngineConfigFor(j, agent))) IN
         InitAgent(agent, cfg) \in Models /\ SetupLimits(agent, cfg) \in Nat
<1> DEFINE own == EngineConfigFor(j, agent)
           recorded == WithSelectedModel(Key(j), own)
           asked == ApplyRequestOverrides(j, recorded)
           Configs == [model : Models, chosen : BOOLEAN, cap : Nat]
<1>0. /\ OwnModel[agent] \in Models /\ OwnCap[agent] \in Nat
      /\ Ask(j).model \in Models /\ Ask(j).cap \in Nat /\ Key(j) \in Keys
  BY SettingsAssumption, AskType DEF ControlOK
<1>1. own \in Configs  BY <1>0 DEF EngineConfigFor
<1>2. recorded \in Configs
  <2>1. row[Key(j)] \in Rows  BY <1>0 DEF RecordsOK
  <2>2. SessionSelectedModel(Key(j)) \in Models \cup {None}  BY <2>1 DEF SessionSelectedModel, Rows
  <2> HIDE DEF own
  <2> QED BY <1>1, <2>2 DEF WithSelectedModel
<1>3. asked \in Configs
  <2> HIDE DEF recorded
  <2> QED BY <1>0, <1>2 DEF ApplyRequestOverrides
<1> HIDE DEF asked, recorded, own
<1>4. InitAgent(agent, asked) \in Models /\ SetupLimits(agent, asked) \in Nat
  BY <1>0, <1>3 DEF InitAgent, SetupLimits, LoadAgentConfig
<1> QED BY <1>4 DEF asked, recorded, own

\* What is restored from a key's files is no part of where a session comes from.
LEMMA RestoredValue ==
  ASSUME RecordsOK, NEW k \in Keys, NEW s \in Objects
  PROVE  LET t == RestoreDisabledTools(k, RestoreGuardState(k, s)) IN t \in Objects /\ Kept(s, t)
<1> DEFINE capped == RestoreGuardState(k, s)
<1>0. file[k].cap \in Nat /\ file[k].off \in SUBSET Tools
  <2>1. file[k] \in Files  BY DEF RecordsOK
  <2> QED BY <2>1 DEF Files
<1>1. capped \in Objects /\ Kept(s, capped)
  <2>1. ResumeState(LoadGuardState(k), s.cap) \in Nat
    BY <1>0, ObjectParts DEF ResumeState, LoadGuardState
  <2>2. capped = [s EXCEPT !.cap = ResumeState(LoadGuardState(k), s.cap)]  BY DEF RestoreGuardState
  <2> QED BY <2>1, <2>2 DEF Objects, Kept, OriginOf
<1> HIDE DEF capped
<1>2. LoadDisabledTools(k) \in SUBSET Tools  BY <1>0 DEF LoadDisabledTools
<1>3. RestoreDisabledTools(k, capped) \in Objects /\ Kept(s, RestoreDisabledTools(k, capped))
  BY <1>1, <1>2, FilterValue DEF RestoreDisabledTools, Kept
<1> QED BY <1>3 DEF capped

-----------------------------------------------------------------------------
(* What a step makes of a session.                                         *)

\* Whoever answers for a key is an agent, or nobody.
LEMMA AgentType ==
  ASSUME TypeInv, NEW k \in Keys
  PROVE  AgentForSession(k) \in Agents \cup {None} /\ AgentInKey(k) \in Agents \cup {None}
<1>1. situation \in Situations /\ live[k] \in Jobs \cup {None} /\ row[k] \in Rows
      /\ \A j \in Jobs : obj[j] \in Objects
  BY DEF TypeInv, TypeOK
<1>2. situation.named \in Agents  BY <1>1, SettingsAssumption
<1>3. row[k].agent \in Agents \cup {None}  BY <1>1 DEF Rows
<1>4. live[k] # None => obj[live[k]].agent \in Agents  BY <1>1, ObjectParts
<1> QED BY <1>2, <1>3, <1>4 DEF AgentForSession, AgentInKey, SessionAgent

\* A run and a resume start a new session for the key's agent.
LEMMA StartedValue ==
  ASSUME TypeInv, NEW j \in Jobs, StartRun(j) \/ ResumeLoad(j)
  PROVE  \/ obj' = obj
         \/ \E a \in Agents : obj' = [obj EXCEPT ![j] = NewObj(a)]
<1>1. Key(j) \in Keys /\ Ask(j).agent \in Agents \cup {None}  BY AskType DEF TypeInv, TypeOK
<1>2. AgentForSession(Key(j)) \in Agents \cup {None}  BY <1>1, AgentType
<1>3. CASE StartRun(j)  BY <1>1, <1>2, <1>3 DEF StartRun
<1>4. CASE ResumeLoad(j)  BY <1>1, <1>2, <1>4 DEF ResumeLoad
<1> QED BY <1>3, <1>4

\* A resume and a config leave where the session comes from.
LEMMA AppliedValue ==
  ASSUME TypeInv, NEW j \in Jobs, Apply(j)
  PROVE  /\ pc[j] = "apply" /\ at[j] \in Jobs
         /\ \E s \in Objects : Kept(obj[at[j]], s) /\ obj' = [obj EXCEPT ![at[j]] = s]
<1>1. pc[j] = "apply" /\ obj' = [obj EXCEPT ![at[j]] = SetOn(obj[at[j]], j)]
  BY DEF Apply, Goes
<1>2. at[j] \in Jobs  BY <1>1 DEF TypeInv, TypeOK, AtInv, AtPcs
<1>3. obj[at[j]] \in Objects /\ situation \in Situations  BY <1>2 DEF TypeInv, TypeOK
<1>4. SetOn(obj[at[j]], j) \in Objects /\ Kept(obj[at[j]], SetOn(obj[at[j]], j))
  BY <1>3, SetOnValue
<1> QED BY <1>1, <1>2, <1>4

\* createSession reads where the session works: in what a spawn has set, or else
\* in what its row says.
LEMMA OriginReadValue ==
  ASSUME TypeInv, NEW j \in Jobs, ReadOrigin(j)
  PROVE  \/ pc'[j] = "done" /\ obj' = obj
         \/ \E s \in Objects :
              /\ pc'[j] = "choice" /\ obj' = [obj EXCEPT ![j] = s]
              /\ s.agent = obj[j].agent /\ s.parent = obj[j].parent /\ s.depth = obj[j].depth
              /\ s.roots = IF obj[j].roots # Home THEN obj[j].roots ELSE row[Key(j)].roots
              /\ s.words = obj[j].words /\ s.copied = obj[j].copied
<1> DEFINE k == Key(j)
           s == [obj[j] EXCEPT !.roots = WorkspaceRootsForSession(j),
                               !.prompt = SessionInjectedSystemPrompt(k)]
<1>1. k \in Keys /\ row[k] \in Rows /\ obj[j] \in Objects /\ pc \in [Jobs -> PCs]
      /\ obj \in [Jobs -> Objects]
  BY AskType DEF TypeInv, TypeOK
<1>2. row[k].roots \in {Home, Tree} /\ row[k].prompt \in Prompts  BY <1>1 DEF Rows
<1>3. WorkspaceRootsForSession(j) = IF obj[j].roots # Home THEN obj[j].roots ELSE row[k].roots
  BY DEF WorkspaceRootsForSession, SessionWorkspaceRoots
<1>4. WorkspaceRootsForSession(j) \in {Home, Tree}  BY <1>1, <1>2, <1>3, ObjectParts
<1>5. SessionInjectedSystemPrompt(k) \in Prompts  BY <1>2 DEF SessionInjectedSystemPrompt
<1>6. /\ s \in Objects /\ s.agent = obj[j].agent /\ s.parent = obj[j].parent
      /\ s.depth = obj[j].depth /\ s.roots = WorkspaceRootsForSession(j)
      /\ s.words = obj[j].words /\ s.copied = obj[j].copied
  BY <1>1, <1>4, <1>5 DEF Objects
<1>7. \/ pc'[j] = "done" /\ obj' = obj
      \/ pc'[j] = "choice" /\ obj' = [obj EXCEPT ![j] = s]
  <2>1. CASE ~WorkspaceRootsStillOnDisk(j)  BY <1>1, <2>1 DEF ReadOrigin, Goes
  <2>2. CASE WorkspaceRootsStillOnDisk(j)
    <3>1. obj' = [obj EXCEPT ![j].roots = WorkspaceRootsForSession(j),
                             ![j].prompt = SessionInjectedSystemPrompt(k)]
      BY <2>2 DEF ReadOrigin
    <3>2. pc'[j] = "choice"  BY <1>1, <2>2 DEF ReadOrigin, Goes
    <3> QED BY <1>1, <3>1, <3>2
  <2> QED BY <2>1, <2>2
<1> HIDE DEF s, k
<1> QED BY <1>3, <1>6, <1>7 DEF k

\* Then its model and its cap.
LEMMA ChoiceReadValue ==
  ASSUME TypeInv, NEW j \in Jobs, ReadChoice(j)
  PROVE  \E s \in Objects : Kept(obj[j], s) /\ obj' = [obj EXCEPT ![j] = s]
<1> DEFINE agent == obj[j].agent
           cfg == ApplyRequestOverrides(j, WithSelectedModel(Key(j), EngineConfigFor(j, agent)))
           model == InitAgent(agent, cfg)
           cap == SetupLimits(agent, cfg)
           s == [obj[j] EXCEPT !.model = model, !.cap = cap]
<1>1. obj[j] \in Objects /\ obj \in [Jobs -> Objects]  BY DEF TypeInv, TypeOK
<1>2. agent \in Agents  BY <1>1, ObjectParts
<1>3. model \in Models /\ cap \in Nat  BY <1>2, ChosenType, TypeParts DEF TypeInv
<1>4. obj' = [obj EXCEPT ![j].model = model, ![j].cap = cap]  BY DEF ReadChoice
<1> HIDE DEF agent, cfg, model, cap
<1>5. obj' = [obj EXCEPT ![j] = s]  BY <1>1, <1>4
<1>6. s \in Objects /\ Kept(obj[j], s)  BY <1>1, <1>3 DEF Objects, Kept, OriginOf
<1> HIDE DEF s
<1> QED BY <1>5, <1>6

\* NewEngine filters the tools, and RestoreSession gives it the conversation of
\* its key, or none.
LEMMA BuiltValue ==
  ASSUME TypeInv, NEW j \in Jobs, BuildEngine(j)
  PROVE  \E s \in Objects :
           /\ obj' = [obj EXCEPT ![j] = s]
           /\ OriginOf(s) = OriginOf(obj[j]) /\ s.copied = obj[j].copied
           /\ s.words = {} \/ s.words = file[Key(j)].words
<1> DEFINE t == ApplyDisabledTools(obj[j])
           words == TranscriptToStartSessionFrom(j)
           s == [t EXCEPT !.words = words]
<1>1. /\ obj[j] \in Objects /\ obj \in [Jobs -> Objects] /\ file[Key(j)] \in Files
  BY AskType DEF TypeInv, TypeOK, Files
<1>2. t \in Objects /\ Kept(obj[j], t)  BY <1>1, FilterValue
<1>3. words \in SUBSET Keys /\ (words = {} \/ words = file[Key(j)].words)
  BY <1>1 DEF TranscriptToStartSessionFrom, Files
<1>4. obj' = [obj EXCEPT ![j] = s]  BY DEF BuildEngine, OpensWith
<1> HIDE DEF t, words
<1>5. s \in Objects /\ OriginOf(s) = OriginOf(t) /\ s.copied = t.copied /\ s.words = words
  BY <1>2, <1>3 DEF Objects, OriginOf
<1> HIDE DEF s
<1> QED BY <1>2, <1>3, <1>4, <1>5 DEF Kept

\* The restoration takes the lineage of the row.
LEMMA RestoreValue ==
  ASSUME TypeInv, NEW j \in Jobs, Restore(j)
  PROVE  \E s \in Objects :
           /\ obj' = [obj EXCEPT ![j] = s]
           /\ s.agent = obj[j].agent /\ s.roots = obj[j].roots
           /\ s.parent = row[Key(j)].parent /\ s.depth = row[Key(j)].depth
           /\ s.words = obj[j].words /\ s.copied = obj[j].copied
<1> DEFINE k == Key(j)
           t == RestoreDisabledTools(k, RestoreGuardState(k, obj[j]))
           s == [t EXCEPT !.parent = row[k].parent, !.depth = row[k].depth]
<1>1. /\ obj[j] \in Objects /\ obj \in [Jobs -> Objects] /\ row[k] \in Rows /\ k \in Keys
  BY AskType DEF TypeInv, TypeOK
<1>2. t \in Objects /\ Kept(obj[j], t)  BY <1>1, RestoredValue, TypeParts DEF TypeInv
<1>3. row[k].parent \in Keys \cup {None} /\ row[k].depth \in Nat  BY <1>1 DEF Rows
<1>4. obj' = [obj EXCEPT ![j] = s]  BY DEF Restore, LineageForSession, SessionLineage
<1> HIDE DEF t
<1>5. /\ s \in Objects /\ s.agent = t.agent /\ s.roots = t.roots
      /\ s.parent = row[k].parent /\ s.depth = row[k].depth /\ s.words = t.words /\ s.copied = t.copied
  BY <1>2, <1>3 DEF Objects
<1>6. /\ t.agent = obj[j].agent /\ t.roots = obj[j].roots
      /\ t.words = obj[j].words /\ t.copied = obj[j].copied
  BY <1>2 DEF Kept, OriginOf
<1> HIDE DEF s
<1> QED BY <1>4, <1>5, <1>6

\* A child is started under the session above it; a fork copies that one's words.
LEMMA ChildValue ==
  ASSUME TypeInv, NEW j \in Jobs, StartChild(j), pc'[j] # "done"
  PROVE  LET above == live[Above[Key(j)]] IN
         /\ above \in Jobs /\ at' = [at EXCEPT ![j] = above]
         /\ \E s \in Objects :
              /\ obj' = [obj EXCEPT ![j] = s]
              /\ s.words = {} /\ s.copied = IF Forks(j) THEN obj[above].words ELSE {}
<1> DEFINE k == Key(j)
           above == live[Above[k]]
           agent == IF Ask(j).agent = None THEN obj[above].agent ELSE Ask(j).agent
           copied == IF Forks(j) THEN obj[above].words ELSE {}
           roots(forged) == IF Forks(j) /\ obj[above].roots # Home THEN obj[above].roots
                            ELSE UseWorkspace(forged)
           s(forged) == [NewObj(agent) EXCEPT !.roots = roots(forged), !.copied = copied]
<1>1. /\ k \in Keys /\ Ask(j).agent \in Agents \cup {None} /\ Above[k] \in Keys
      /\ pc \in [Jobs -> PCs] /\ live \in [Keys -> Jobs \cup {None}] /\ obj \in [Jobs -> Objects]
  BY AskType DEF TypeInv, TypeOK, StartChild
<1>2. above \in Jobs  BY <1>1 DEF StartChild
<1>3. obj[above] \in Objects  BY <1>1, <1>2
<1>4. agent \in Agents /\ copied \in SUBSET Keys
  BY <1>1, <1>3, ObjectParts
<1>5. \A forged \in BOOLEAN : roots(forged) \in {Home, Tree}
  BY <1>3, ObjectParts DEF UseWorkspace
<1>6. PICK forged \in BOOLEAN : obj' = [obj EXCEPT ![j] = s(forged)] /\ at' = [at EXCEPT ![j] = above]
  <2>1. above # None  BY <1>2, SettingsAssumption
  <2> QED BY <2>1 DEF StartChild
<1>7. NewObj(agent) \in Objects /\ NewObj(agent).words = {}  BY <1>4, NewObjValue
<1>8. roots(forged) \in {Home, Tree}  BY <1>5
<1> HIDE DEF agent, copied, roots
<1>9. s(forged) \in Objects /\ s(forged).words = {} /\ s(forged).copied = copied
  BY <1>4, <1>7, <1>8 DEF Objects
<1> HIDE DEF s
<1> QED BY <1>2, <1>6, <1>9 DEF copied

\* Then it has the key above it for a parent, and a fork has the words it copied.
LEMMA InheritValue ==
  ASSUME TypeInv, NEW j \in Jobs, Inherit(j)
  PROVE  \E s \in Objects :
           /\ obj' = [obj EXCEPT ![j] = s]
           /\ s.agent = obj[j].agent /\ s.roots = obj[j].roots /\ s.parent = Above[Key(j)]
           /\ s.copied = obj[j].copied
           /\ s.words = IF Forks(j) THEN obj[j].copied ELSE obj[j].words
<1> DEFINE k == Key(j)
           above == obj[at[j]]
           model == SessionSelectedModel(Above[k])
           depth == above.depth + 1
           s == [obj[j] EXCEPT !.parent = Above[k], !.depth = depth]
           chosen == IF model # None /\ s.agent = above.agent THEN model ELSE s.model
           t == [s EXCEPT !.prompt = above.prompt, !.model = chosen, !.words = s.copied]
<1>1. pc[j] = "inherit"  BY DEF Inherit, Goes
<1>2. /\ IsChild(j) /\ at[j] \in Jobs /\ obj \in [Jobs -> Objects] /\ row \in [Keys -> Rows]
      /\ situation \in Situations
  BY <1>1 DEF TypeInv, TypeOK, AtInv, ChildPcs, OnlyChildPcs
<1>3. Above[k] \in Keys  BY <1>2, AskType
<1>4. above \in Objects /\ obj[j] \in Objects  BY <1>2
<1>5. depth \in Nat /\ above.prompt \in Prompts
  <2>1. above.depth \in Nat /\ above.prompt \in Prompts  BY <1>4, ObjectParts
  <2> QED BY <2>1
<1>6. model \in Models \cup {None}  BY <1>2, <1>3 DEF SessionSelectedModel, Rows
<1>7. obj' = [obj EXCEPT ![j] = IF ~Forks(j) THEN s ELSE t]  BY DEF Inherit
<1> HIDE DEF above, model, depth
<1>8. /\ s \in Objects /\ s.agent = obj[j].agent /\ s.roots = obj[j].roots /\ s.parent = Above[k]
      /\ s.copied = obj[j].copied /\ s.words = obj[j].words
  BY <1>3, <1>4, <1>5 DEF Objects
<1> HIDE DEF s
<1>9. chosen \in Models  BY <1>6, <1>8, ObjectParts
<1>10. s.copied \in SUBSET Keys  BY <1>8, ObjectParts
<1> HIDE DEF chosen
<1>11. /\ t \in Objects /\ t.agent = s.agent /\ t.roots = s.roots /\ t.parent = s.parent
       /\ t.copied = s.copied /\ t.words = s.copied
  BY <1>5, <1>8, <1>9, <1>10 DEF Objects
<1> HIDE DEF t
<1> QED BY <1>7, <1>8, <1>11

\* A turn adds its own words to the session's.
LEMMA TurnValue ==
  ASSUME TypeInv, NEW j \in Jobs, Turn(j)
  PROVE  /\ at[j] \in Jobs
         /\ workspace' \in [Agents -> SUBSET Keys]
         /\ \E s \in Objects :
              /\ obj' = [obj EXCEPT ![at[j]] = s]
              /\ OriginOf(s) = OriginOf(obj[at[j]]) /\ s.copied = obj[at[j]].copied
              /\ s.words = obj[at[j]].words \cup {Key(j)}
<1> DEFINE words == obj[at[j]].words \cup {Key(j)}
           s == [obj[at[j]] EXCEPT !.words = words]
<1>1. pc[j] = "turn"  BY DEF Turn, Goes
<1>2. /\ at[j] \in Jobs /\ obj \in [Jobs -> Objects] /\ Key(j) \in Keys
      /\ workspace \in [Agents -> SUBSET Keys]
  BY <1>1, AskType DEF TypeInv, TypeOK, AtInv, AtPcs
<1>3. obj[at[j]] \in Objects  BY <1>2
<1>4. words \in SUBSET Keys  BY <1>2, <1>3, ObjectParts
<1>5. /\ obj' = [obj EXCEPT ![at[j]].words = words]
      /\ workspace' = [workspace EXCEPT ![obj[at[j]].agent] = words]
  BY DEF Turn
<1> HIDE DEF words
<1>6. s \in Objects /\ OriginOf(s) = OriginOf(obj[at[j]]) /\ s.copied = obj[at[j]].copied
      /\ s.words = words
  BY <1>3, <1>4 DEF Objects, OriginOf
<1>7. obj' = [obj EXCEPT ![at[j]] = s]  BY <1>2, <1>5
<1>8. workspace' \in [Agents -> SUBSET Keys]  BY <1>2, <1>4, <1>5
<1> HIDE DEF s
<1> QED BY <1>2, <1>6, <1>7, <1>8 DEF words

\* The steps of a request that make something of a session, and the others.
Starts(j) == StartRun(j) \/ ResumeLoad(j)
Shapes(j) ==
  \/ Apply(j) \/ ReadOrigin(j) \/ ReadChoice(j) \/ BuildEngine(j) \/ Restore(j) \/ StartChild(j)
  \/ Inherit(j) \/ Turn(j)
Records(j) == Create(j) \/ ResumePrompt(j) \/ ResumeModel(j) \/ RecordChild(j) \/ RecordChoice(j)
Moves(j) ==
  \/ TakeLock(j) \/ GetSession(j) \/ Config(j) \/ RefuseEngine(j) \/ Publish(j) \/ StoreChild(j)
  \/ StartTask(j) \/ Persist(j)

\* These are all the steps of a request.
LEMMA JobSteps == ASSUME NEW j \in Jobs PROVE JobStep(j) => Starts(j) \/ Shapes(j) \/ Records(j) \/ Moves(j)
  BY DEF JobStep, Starts, Shapes, Records, Moves

\* Sessions and transcripts keep their types.
LEMMA ObjectsKeepType ==
  ASSUME TypeInv, NEW j \in Jobs, JobStep(j) PROVE ObjOK'
<1>0. /\ obj \in [Jobs -> Objects] /\ workspace \in [Agents -> SUBSET Keys]
      /\ Key(j) \in Keys /\ at \in [Jobs -> Jobs \cup {None}]
  BY AskType DEF TypeInv, TypeOK
<1>1. CASE Starts(j)
  <2>1. workspace' = workspace  BY <1>1 DEF Starts, StartRun, ResumeLoad, disk
  <2>2. obj' \in [Jobs -> Objects]
    <3>1. \/ obj' = obj \/ \E a \in Agents : obj' = [obj EXCEPT ![j] = NewObj(a)]
      BY <1>1, StartedValue DEF Starts
    <3> QED BY <1>0, <3>1, NewObjValue
  <2> QED BY <1>0, <2>1, <2>2 DEF ObjOK
<1>2. CASE Shapes(j)
  <2>1. \/ obj' = obj \/ \E x \in Jobs, s \in Objects : obj' = [obj EXCEPT ![x] = s]
    <3>1. CASE Apply(j)  BY <3>1, AppliedValue
    <3>2. CASE ReadOrigin(j)  BY <3>2, OriginReadValue
    <3>3. CASE ReadChoice(j)  BY <3>3, ChoiceReadValue
    <3>4. CASE BuildEngine(j)  BY <3>4, BuiltValue
    <3>5. CASE Restore(j)  BY <3>5, RestoreValue
    <3>6. CASE StartChild(j)
      <4>1. CASE pc'[j] # "done"  BY <3>6, <4>1, ChildValue
      <4>2. CASE pc'[j] = "done"
        <5>1. pc \in [Jobs -> PCs]  BY DEF TypeInv, TypeOK
        <5> QED BY <3>6, <4>2, <5>1 DEF StartChild
      <4> QED BY <4>1, <4>2
    <3>7. CASE Inherit(j)  BY <3>7, InheritValue
    <3>8. CASE Turn(j)  BY <3>8, TurnValue
    <3> QED BY <1>2, <3>1, <3>2, <3>3, <3>4, <3>5, <3>6, <3>7, <3>8 DEF Shapes
  <2>2. workspace' \in [Agents -> SUBSET Keys]
    <3>1. CASE Turn(j)  BY <3>1, TurnValue
    <3>2. CASE BuildEngine(j)  BY <1>0, <3>2 DEF BuildEngine, SetupSession
    <3>3. CASE ~Turn(j) /\ ~BuildEngine(j)
      BY <1>0, <1>2, <3>3 DEF Shapes, Apply, ReadOrigin, ReadChoice, Restore, StartChild, Inherit, disk
    <3> QED BY <3>1, <3>2, <3>3
  <2> QED BY <1>0, <2>1, <2>2 DEF ObjOK
<1>3. CASE Records(j)
  BY <1>0, <1>3 DEF Records, Create, ResumePrompt, ResumeModel, RecordChild, RecordChoice, memory, ObjOK
<1>4. CASE Moves(j)
  BY <1>0, <1>4
     DEF Moves, TakeLock, GetSession, Config, RefuseEngine, Publish, StoreChild, StartTask, Persist,
         disk, ObjOK
<1> QED BY <1>1, <1>2, <1>3, <1>4, JobSteps

-----------------------------------------------------------------------------
(* The types, step by step.                                                *)

\* Two tables that agree with a third agree.
LEMMA SameTwice ==
  ASSUME NEW r1, NEW r2, NEW r3, SameOrigins(r1, r2), SameOrigins(r2, r3)
  PROVE  SameOrigins(r1, r3)
  BY DEF SameOrigins

\* A request for a new session inserts its row, then the prompt and the model that
\* were chosen.
LEMMA CreatedRow ==
  ASSUME TypeInv, NEW j \in Jobs, Create(j)
  PROVE  /\ row' \in [Keys -> Rows]
         /\ SameOrigins(UpsertSession(Key(j), Ask(j).agent, None, 0, Home), row')
<1> DEFINE k == Key(j)
           rows == UpsertSession(k, Ask(j).agent, None, 0, Home)
           prompt == IF Says(j, "prompt") THEN Ask(j).prompt ELSE NoText
           model == IF Says(j, "model") THEN Ask(j).model ELSE None
           some == SetSessionInjectedSystemPrompt(rows, k, prompt)
<1>0. /\ row \in [Keys -> Rows] /\ k \in Keys /\ Ask(j).agent \in Agents
      /\ NoText \in Prompts /\ None \in Keys \cup {None} /\ 0 \in Nat /\ Home \in {Home, Tree}
      /\ Ask(j).model \in Models /\ Ask(j).prompt \in Prompts
  BY AskType, SettingsAssumption DEF TypeInv, TypeOK, Create
<1>1. row' = SetSessionSelectedModel(some, k, model)  BY DEF Create
<1>2. rows \in [Keys -> Rows]  BY <1>0, UpsertType
<1>3. prompt \in Prompts /\ model \in Models \cup {None}  BY <1>0
<1> HIDE DEF rows, prompt, model
<1>4. some \in [Keys -> Rows] /\ SameOrigins(rows, some)  BY <1>0, <1>2, <1>3, ChoiceValue
<1> HIDE DEF some
<1>5. row' \in [Keys -> Rows] /\ SameOrigins(some, row')  BY <1>0, <1>1, <1>3, <1>4, ChoiceValue
<1>6. SameOrigins(rows, row')  BY <1>4, <1>5, SameTwice
<1> QED BY <1>5, <1>6 DEF rows

\* What each step makes of the table: a request for a new session, a run and a
\* new child insert a row; what callers choose goes into the row there is.
LEMMA RowValue ==
  ASSUME TypeInv, NEW j \in Jobs, JobStep(j)
  PROVE  /\ row' \in [Keys -> Rows]
         /\ \/ SameOrigins(row, row')
            \/ /\ Create(j)
               /\ SameOrigins(UpsertSession(Key(j), Ask(j).agent, None, 0, Home), row')
            \/ /\ StartRun(j)
               /\ \E a \in Agents : /\ obj' = [obj EXCEPT ![j] = NewObj(a)]
                                    /\ row' = UpsertSession(Key(j), a, None, 0, Home)
            \/ /\ RecordChild(j)
               /\ row' = UpsertSession(Key(j), obj[j].agent, obj[j].parent, obj[j].depth, obj[j].roots)
<1> DEFINE k == Key(j)
<1>0. /\ row \in [Keys -> Rows] /\ k \in Keys /\ obj[j] \in Objects /\ situation \in Situations
      /\ NoText \in Prompts /\ None \in Keys \cup {None} /\ 0 \in Nat /\ Home \in {Home, Tree}
      /\ Ask(j).agent \in Agents \cup {None} /\ Ask(j).model \in Models /\ Ask(j).prompt \in Prompts
      /\ Ask(j).kind = "create" => Ask(j).agent # None
  BY AskType, SettingsAssumption DEF TypeInv, TypeOK
<1>1. SameOrigins(row, row)  BY DEF SameOrigins
<1>2. CASE Create(j)  BY <1>2, CreatedRow
<1>3. CASE StartRun(j)
  <2> DEFINE agent == IF Ask(j).agent # None THEN Ask(j).agent ELSE AgentForSession(k)
  <2>1. agent \in Agents \cup {None}  BY <1>0, AgentType
  <2>2. CASE agent = None  BY <1>0, <1>1, <1>3, <2>2 DEF StartRun
  <2>3. CASE agent # None
    <3>1. agent \in Agents /\ row' = UpsertSession(k, agent, None, 0, Home)
          /\ obj' = [obj EXCEPT ![j] = NewObj(agent)]
      BY <1>3, <2>1, <2>3 DEF StartRun
    <3> HIDE DEF agent
    <3>2. row' \in [Keys -> Rows]  BY <1>0, <3>1, RootValue
    <3> QED BY <1>3, <3>1, <3>2
  <2> QED BY <2>2, <2>3
<1>4. CASE RecordChild(j)
  <2>1. row' = UpsertSession(k, obj[j].agent, obj[j].parent, obj[j].depth, obj[j].roots)
    BY <1>4 DEF RecordChild
  <2>2. /\ obj[j].agent \in Agents /\ obj[j].parent \in Keys \cup {None} /\ obj[j].depth \in Nat
        /\ obj[j].roots \in {Home, Tree}
    BY <1>0, ObjectParts
  <2>3. row' \in [Keys -> Rows]  BY <1>0, <2>1, <2>2, UpsertType
  <2> QED BY <1>4, <2>1, <2>3
<1>5. CASE ResumePrompt(j)
  <2>1. row' = row \/ row' = SetSessionInjectedSystemPrompt(row, k, Ask(j).prompt)
    BY <1>5 DEF ResumePrompt
  <2> QED BY <1>0, <1>1, <2>1, ChoiceValue
<1>6. CASE ResumeModel(j)
  <2>1. row' = row \/ row' = SetSessionSelectedModel(row, k, Ask(j).model)
    BY <1>6 DEF ResumeModel
  <2> QED BY <1>0, <1>1, <2>1, ChoiceValue
<1>7. CASE RecordChoice(j)
  <2> DEFINE rows == IF obj[j].prompt = NoText THEN row
                     ELSE SetSessionInjectedSystemPrompt(row, k, obj[j].prompt)
  <2>1. \/ row' = rows
        \/ row' = SetSessionSelectedModel(rows, k, SessionSelectedModel(Above[k]))
           /\ Ask(j).kind = "fork"
    BY <1>7 DEF RecordChoice
  <2>2. rows \in [Keys -> Rows] /\ SameOrigins(row, rows)
    BY <1>0, <1>1, ChoiceValue, ObjectParts
  <2> HIDE DEF rows
  <2>3. CASE row' = rows  BY <2>2, <2>3
  <2>4. CASE row' = SetSessionSelectedModel(rows, k, SessionSelectedModel(Above[k]))
             /\ Ask(j).kind = "fork"
    <3>1. Above[k] \in Keys  BY <1>0, <2>4, AskType DEF IsChild, ChildKinds
    <3>2. SessionSelectedModel(Above[k]) \in Models \cup {None}
      BY <1>0, <3>1 DEF SessionSelectedModel, Rows
    <3>3. row' \in [Keys -> Rows] /\ SameOrigins(rows, row')  BY <1>0, <2>2, <2>4, <3>2, ChoiceValue
    <3> QED BY <2>2, <3>3, SameTwice
  <2> QED BY <2>1, <2>3, <2>4
<1>8. CASE ResumeLoad(j) \/ Shapes(j) \/ Moves(j)
  <2>1. row' = row
    BY <1>8 DEF ResumeLoad, Shapes, Moves, Apply, ReadOrigin, ReadChoice, BuildEngine, Restore, StartChild,
                Inherit, Turn, TakeLock, GetSession, Config, RefuseEngine, Publish, StoreChild, StartTask,
                Persist, disk
  <2> QED BY <1>0, <1>1, <2>1
<1> QED BY <1>2, <1>3, <1>4, <1>5, <1>6, <1>7, <1>8, JobSteps DEF Starts, Records

\* What a rebuild of a key would find can be said.
LEMMA RecordedType ==
  ASSUME TypeInv, NEW k \in Keys PROVE Recorded(k) \in Saids
<1> DEFINE agent == IF row[k].known THEN row[k].agent ELSE AgentInKey(k)
           model == IF row[k].model = None /\ agent # None THEN OwnModel[agent] ELSE row[k].model
<1>1. row[k] \in Rows /\ file[k] \in Files /\ said[k] \in Saids
  BY DEF TypeInv, TypeOK, Saids, Files
<1>2. row[k].agent \in Agents \cup {None} /\ row[k].model \in Models \cup {None}  BY <1>1 DEF Rows
<1>3. agent \in Agents \cup {None}  BY <1>2, AgentType
<1>4. model \in Models \cup {None}  BY <1>2, <1>3, SettingsAssumption
<1>5. said[k].prompt \in Prompts /\ file[k].off \in SUBSET Tools /\ file[k].cap \in Nat
  BY <1>1 DEF Saids, Files
<1>6. Recorded(k) = [prompt |-> said[k].prompt, off |-> file[k].off, cap |-> file[k].cap, model |-> model]
  BY DEF Recorded
<1> HIDE DEF model
<1> QED BY <1>4, <1>5, <1>6 DEF Saids

\* So can what is forgotten of any keys.
LEMMA ForgottenType == ASSUME TypeInv, NEW ks PROVE Forgotten(ks) \in [Keys -> Saids]
<1>1. said \in [Keys -> Saids]  BY DEF TypeInv, TypeOK, Saids
<1> QED BY <1>1, RecordedType DEF Forgotten

\* An agent in the origin of a key.
LEMMA NamedType ==
  ASSUME origin \in [Keys -> Origins], NEW k \in Keys, NEW a \in Agents
  PROVE  [origin EXCEPT ![k].agent = a] \in [Keys -> Origins]
<1>1. origin[k] \in Origins  OBVIOUS
<1>2. [origin[k] EXCEPT !.agent = a] \in Origins  BY <1>1 DEF Origins
<1>3. [origin EXCEPT ![k].agent = a] = [origin EXCEPT ![k] = [origin[k] EXCEPT !.agent = a]]  OBVIOUS
<1> QED BY <1>2, <1>3

\* A key is heard of once: by a request for a new session, by a run or a resume
\* of a top-level key, or when its child is stored.
LEMMA OriginValue ==
  ASSUME TypeInv, NEW j \in Jobs, JobStep(j)
  PROVE  /\ origin' \in [Keys -> Origins]
         /\ \/ origin' = origin
            \/ /\ Create(j) \/ StartRun(j) \/ ResumeLoad(j)
               /\ origin[Key(j)].agent = None
               /\ \E a \in Agents : origin' = [origin EXCEPT ![Key(j)].agent = a]
            \/ StoreChild(j) /\ origin' = [origin EXCEPT ![Key(j)] = OriginOf(obj[j])]
<1> DEFINE k == Key(j)
<1>0. /\ origin \in [Keys -> Origins] /\ k \in Keys /\ obj[j] \in Objects
      /\ Ask(j).agent \in Agents \cup {None} /\ (Ask(j).kind = "create" => Ask(j).agent # None)
      /\ AgentForSession(k) \in Agents \cup {None}
  BY AskType, AgentType DEF TypeInv, TypeOK
<1>1. CASE Create(j)
  <2>1. origin' = [origin EXCEPT ![k].agent = Ask(j).agent] /\ Ask(j).agent \in Agents
        /\ origin[k].agent = None
    BY <1>0, <1>1 DEF Create
  <2> QED BY <1>0, <1>1, <2>1, NamedType
<1>2. CASE StartRun(j)
  <2> DEFINE agent == IF Ask(j).agent # None THEN Ask(j).agent ELSE AgentForSession(k)
  <2>1. CASE origin' = origin  BY <1>0, <2>1
  <2>2. CASE origin' # origin
    <3>1. agent \in Agents /\ origin' = [origin EXCEPT ![k].agent = agent] /\ origin[k].agent = None
      BY <1>0, <1>2, <2>2 DEF StartRun, ghosts
    <3> QED BY <1>0, <1>2, <3>1, NamedType
  <2> QED BY <2>1, <2>2
<1>3. CASE ResumeLoad(j)
  <2>1. CASE origin' = origin  BY <1>0, <2>1
  <2>2. CASE origin' # origin
    <3>1. /\ AgentForSession(k) \in Agents /\ origin[k].agent = None
          /\ origin' = [origin EXCEPT ![k].agent = AgentForSession(k)]
      BY <1>0, <1>3, <2>2 DEF ResumeLoad
    <3> QED BY <1>0, <1>3, <3>1, NamedType
  <2> QED BY <2>1, <2>2
<1>4. CASE StoreChild(j)
  <2>1. origin' = [origin EXCEPT ![k] = OriginOf(obj[j])]  BY <1>4 DEF StoreChild
  <2>2. OriginOf(obj[j]) \in Origins  BY <1>0, ObjectParts
  <2> QED BY <1>0, <1>4, <2>1, <2>2
<1>5. CASE ~Create(j) /\ ~StartRun(j) /\ ~ResumeLoad(j) /\ ~StoreChild(j)
  <2>1. origin' = origin
    BY <1>5 DEF JobStep, ResumePrompt, ResumeModel, RecordChild, RecordChoice, Apply, ReadOrigin,
                ReadChoice, BuildEngine, Restore, StartChild, Inherit, Turn, TakeLock, GetSession, Config,
                RefuseEngine, Publish, StartTask, Persist, ghosts
  <2> QED BY <1>0, <2>1
<1> QED BY <1>1, <1>2, <1>3, <1>4, <1>5

\* What callers are told.
LEMMA SaidType ==
  ASSUME TypeInv, NEW j \in Jobs, JobStep(j) PROVE said' \in [Keys -> Saids]
<1> DEFINE k == Key(j)
           Tells(t) == said' = [said EXCEPT ![k] = t]
<1>0. /\ said \in [Keys -> Saids] /\ k \in Keys /\ obj[j] \in Objects /\ situation \in Situations
      /\ Ask(j).agent \in Agents \cup {None} /\ (Ask(j).kind = "create" => Ask(j).agent # None)
      /\ AgentForSession(k) \in Agents \cup {None} /\ OwnModel \in [Agents -> Models]
      /\ Ask(j).prompt \in Prompts /\ Ask(j).model \in Models /\ Ask(j).off \in SUBSET Tools
      /\ Ask(j).cap \in Nat /\ NoText \in Prompts
  BY AskType, AgentType, SettingsAssumption DEF TypeInv, TypeOK, Saids
<1>1. said[k] \in Saids  BY <1>0
<1>2. /\ said[k].prompt \in Prompts /\ said[k].off \in SUBSET Tools /\ said[k].cap \in Nat
      /\ said[k].model \in Models \cup {None}
  BY <1>1 DEF Saids
<1>3. ASSUME NEW t \in Saids, Tells(t) PROVE said' \in [Keys -> Saids]
  BY <1>0, <1>3
<1>4. ASSUME NEW p \in Prompts, NEW o \in SUBSET Tools, NEW c \in Nat, NEW m \in Models \cup {None}
      PROVE  /\ [prompt |-> p, off |-> o, cap |-> c, model |-> m] \in Saids
             /\ [said[k] EXCEPT !.prompt = p] \in Saids
             /\ [said[k] EXCEPT !.model = m] \in Saids
             /\ [said[k] EXCEPT !.prompt = p, !.model = m] \in Saids
             /\ [said[k] EXCEPT !.model = m, !.cap = c] \in Saids
             /\ [said[k] EXCEPT !.cap = c, !.off = o] \in Saids
  BY <1>1 DEF Saids
<1>5. CASE said' = said  BY <1>0, <1>5
<1>6. CASE Create(j)
  <2> DEFINE prompt == IF Says(j, "prompt") THEN Ask(j).prompt ELSE NoText
             model == IF Says(j, "model") THEN Ask(j).model ELSE None
             m == IF model # None THEN model ELSE OwnModel[Ask(j).agent]
  <2>1. prompt \in Prompts /\ m \in Models \cup {None}  BY <1>0, <1>6 DEF Create
  <2>2. said' = [said EXCEPT ![k].prompt = prompt, ![k].model = m]  BY <1>6 DEF Create
  <2> HIDE DEF prompt, m
  <2>3. Tells([said[k] EXCEPT !.prompt = prompt, !.model = m])  BY <1>0, <2>2
  <2>4. [said[k] EXCEPT !.prompt = prompt, !.model = m] \in Saids  BY <1>2, <1>4, <2>1
  <2> QED BY <1>3, <2>3, <2>4
<1>7. CASE (StartRun(j) \/ ResumeLoad(j)) /\ said' # said
  <2> DEFINE agent == IF StartRun(j) /\ Ask(j).agent # None THEN Ask(j).agent ELSE AgentForSession(k)
  <2>1. agent # None /\ said' = [said EXCEPT ![k].model = OwnModel[agent]]
    <3>1. CASE StartRun(j)  BY <1>7, <3>1 DEF StartRun, ghosts
    <3>2. CASE ~StartRun(j)  BY <1>7, <3>2 DEF ResumeLoad
    <3> QED BY <3>1, <3>2
  <2>2. OwnModel[agent] \in Models \cup {None}  BY <1>0, <2>1
  <2> HIDE DEF agent
  <2>3. Tells([said[k] EXCEPT !.model = OwnModel[agent]])  BY <1>0, <2>1
  <2>4. [said[k] EXCEPT !.model = OwnModel[agent]] \in Saids  BY <1>2, <1>4, <2>2
  <2> QED BY <1>3, <2>3, <2>4
<1>8. CASE TakeLock(j)
  <2>1. said' = said \/ said' = Forgotten({k})  BY <1>8 DEF TakeLock
  <2> QED BY <1>0, <2>1, ForgottenType
<1>9. CASE ResumePrompt(j) /\ said' # said
  <2>1. said' = [said EXCEPT ![k].prompt = Ask(j).prompt]  BY <1>9 DEF ResumePrompt
  <2>2. Tells([said[k] EXCEPT !.prompt = Ask(j).prompt])  BY <1>0, <2>1
  <2>3. [said[k] EXCEPT !.prompt = Ask(j).prompt] \in Saids  BY <1>0, <1>2, <1>4
  <2> QED BY <1>3, <2>2, <2>3
<1>10. CASE ResumeModel(j) /\ said' # said
  <2>1. said' = [said EXCEPT ![k].model = Ask(j).model]  BY <1>10 DEF ResumeModel
  <2>2. Tells([said[k] EXCEPT !.model = Ask(j).model])  BY <1>0, <2>1
  <2>3. [said[k] EXCEPT !.model = Ask(j).model] \in Saids  BY <1>0, <1>2, <1>4
  <2> QED BY <1>3, <2>2, <2>3
<1>11. CASE Apply(j) /\ said' # said
  <2> DEFINE p == IF Says(j, "prompt") THEN Ask(j).prompt ELSE said[k].prompt
             o == IF Says(j, "off") THEN Ask(j).off ELSE said[k].off
             c == IF Says(j, "cap") THEN Ask(j).cap ELSE said[k].cap
             m == IF Says(j, "model") THEN Ask(j).model ELSE said[k].model
  <2>1. Tells([prompt |-> p, off |-> o, cap |-> c, model |-> m])  BY <1>11 DEF Apply
  <2>2. p \in Prompts /\ o \in SUBSET Tools /\ c \in Nat /\ m \in Models \cup {None}  BY <1>0, <1>2
  <2> HIDE DEF p, o, c, m
  <2>3. [prompt |-> p, off |-> o, cap |-> c, model |-> m] \in Saids  BY <1>4, <2>2
  <2> QED BY <1>3, <2>1, <2>3
<1>12. CASE Publish(j) /\ said' # said
  <2> DEFINE m == IF Says(j, "model") THEN Ask(j).model ELSE said[k].model
             c == IF Says(j, "cap") THEN Ask(j).cap ELSE said[k].cap
  <2>1. Tells([said[k] EXCEPT !.model = m, !.cap = c])
    <3>1. said' = [said EXCEPT ![k].model = m, ![k].cap = c]
      BY <1>12 DEF Publish
    <3> QED BY <1>0, <3>1
  <2>2. m \in Models \cup {None} /\ c \in Nat  BY <1>0, <1>2
  <2> HIDE DEF m, c
  <2>3. [said[k] EXCEPT !.model = m, !.cap = c] \in Saids  BY <1>2, <1>4, <2>2
  <2> QED BY <1>3, <2>1, <2>3
<1>13. CASE StoreChild(j)
  <2>1. Tells([prompt |-> obj[j].prompt, off |-> obj[j].off, cap |-> obj[j].cap,
               model |-> obj[j].model])
    BY <1>13 DEF StoreChild
  <2>2. obj[j].prompt \in Prompts /\ obj[j].off \in SUBSET Tools /\ obj[j].cap \in Nat
        /\ obj[j].model \in Models \cup {None}
    BY <1>0, ObjectParts
  <2>3. [prompt |-> obj[j].prompt, off |-> obj[j].off, cap |-> obj[j].cap,
         model |-> obj[j].model] \in Saids
    BY <1>4, <2>2
  <2> QED BY <1>3, <2>1, <2>3
<1>14. CASE Persist(j) /\ said' # said
  <2> DEFINE x == obj[at[j]]
  <2>1. pc[j] = "persist"  BY <1>14 DEF Persist, Goes
  <2>2. at[j] \in Jobs  BY <2>1 DEF TypeInv, TypeOK, AtInv, AtPcs
  <2>3. x \in Objects  BY <2>2 DEF TypeInv, TypeOK
  <2>4. x.cap \in Nat /\ x.off \in SUBSET Tools  BY <2>3, ObjectParts
  <2>5. Tells([said[k] EXCEPT !.cap = x.cap, !.off = x.off])  BY <1>14 DEF Persist
  <2> HIDE DEF x
  <2>6. [said[k] EXCEPT !.cap = x.cap, !.off = x.off] \in Saids  BY <1>2, <1>4, <2>4
  <2> QED BY <1>3, <2>5, <2>6
<1>15. CASE \/ GetSession(j) \/ Config(j) \/ ReadOrigin(j) \/ ReadChoice(j) \/ BuildEngine(j) \/ RefuseEngine(j)
            \/ Restore(j) \/ StartChild(j) \/ Inherit(j) \/ RecordChild(j) \/ RecordChoice(j)
            \/ StartTask(j) \/ Turn(j)
  <2>1. said' = said
    BY <1>15 DEF GetSession, Config, ReadOrigin, ReadChoice, BuildEngine, RefuseEngine, Restore, StartChild,
                 Inherit, RecordChild, RecordChoice, StartTask, Turn, ghosts
  <2> QED BY <1>0, <2>1
<1> QED BY <1>5, <1>6, <1>7, <1>8, <1>9, <1>10, <1>11, <1>12, <1>13, <1>14, <1>15 DEF JobStep

\* What a turn leaves in the files of its key.
LEMMA FileValue ==
  ASSUME TypeInv, NEW j \in Jobs, JobStep(j)
  PROVE  /\ file' \in [Keys -> Files]
         /\ \/ file' = file
            \/ /\ Persist(j) /\ at[j] \in Jobs
               /\ file'[Key(j)].words = obj[at[j]].words
               /\ \A k \in Keys \ {Key(j)} : file'[k] = file[k]
<1>0. file \in [Keys -> Files] /\ Key(j) \in Keys  BY AskType DEF TypeInv, TypeOK, Files
<1>1. CASE Persist(j)
  <2> DEFINE x == obj[at[j]]
             saved == [cap |-> x.cap, off |-> x.off, words |-> x.words]
  <2>1. pc[j] = "persist"  BY <1>1 DEF Persist, Goes
  <2>2. at[j] \in Jobs  BY <2>1 DEF TypeInv, TypeOK, AtInv, AtPcs
  <2>3. x \in Objects  BY <2>2 DEF TypeInv, TypeOK
  <2>4. saved \in Files /\ saved.words = x.words  BY <2>3, ObjectParts DEF Files
  <2>5. file' = [file EXCEPT ![Key(j)] = saved]
    BY <1>1 DEF Persist, SaveGuardState, SaveDisabledTools, DisabledToolNames
  <2> HIDE DEF saved
  <2>6. file'[Key(j)] = saved  BY <1>0, <2>5
  <2> QED BY <1>0, <1>1, <2>2, <2>4, <2>5, <2>6
<1>2. CASE ~Persist(j)
  <2>1. file' = file
    BY <1>2 DEF JobStep, Create, StartRun, ResumeLoad, StoreChild, ResumePrompt, ResumeModel, RecordChild,
                RecordChoice, Apply, ReadOrigin,
                ReadChoice, BuildEngine, Restore, StartChild, Inherit, Turn, TakeLock, GetSession, Config,
                RefuseEngine, Publish, StartTask, disk
  <2> QED BY <1>0, <2>1
<1> QED BY <1>1, <1>2

\* Marks are made and never taken back.
LEMMA FlagsValue ==
  ASSUME TypeInv, NEW j \in Jobs, JobStep(j)
  PROVE  /\ flags' \in [Keys -> SUBSET Marks]
         /\ \A k \in Keys : flags[k] \subseteq flags'[k]
         /\ StartRun(j) \/ \A k \in Keys : flags'[k] \subseteq flags[k] \cup {"raced"}
<1>0. flags \in [Keys -> SUBSET Marks] /\ Key(j) \in Keys  BY AskType DEF TypeInv, TypeOK, Marks
<1>1. CASE StartRun(j)
  <2>1. \/ flags' = flags
        \/ \E more \in SUBSET {"strayed", "renamed"} : flags' = [flags EXCEPT ![Key(j)] = @ \cup more]
    <3> DEFINE k == Key(j)
               agent == IF Ask(j).agent # None THEN Ask(j).agent ELSE AgentForSession(k)
               strayed == IF ~row[k].known /\ Above[k] # None THEN {"strayed"} ELSE {}
               renamed == IF origin'[k].agent # agent THEN {"renamed"} ELSE {}
               more == strayed \cup renamed
    <3>1. flags' = flags \/ flags' = [flags EXCEPT ![k] = (@ \cup strayed) \cup renamed]
      BY <1>1 DEF StartRun, ghosts
    <3>2. more \in SUBSET {"strayed", "renamed"}  OBVIOUS
    <3> HIDE DEF strayed, renamed
    <3>3. flags' = flags \/ flags' = [flags EXCEPT ![k] = @ \cup more]  BY <1>0, <3>1
    <3> QED BY <3>2, <3>3
  <2> QED BY <1>0, <1>1, <2>1 DEF Marks
<1>2. CASE ~StartRun(j)
  <2>1. flags' = flags \/ flags' = [flags EXCEPT ![Key(j)] = flags[Key(j)] \cup {"raced"}]
    <3>1. CASE TakeLock(j)  BY <1>0, <3>1 DEF TakeLock, MarkIf
    <3>2. CASE Apply(j)  BY <1>0, <3>2 DEF Apply, MarkIf
    <3>3. CASE Publish(j)  BY <1>0, <3>3 DEF Publish, MarkIf
    <3>4. CASE Persist(j)  BY <1>0, <3>4 DEF Persist, MarkIf
    <3>5. CASE ReadOrigin(j)  BY <1>0, <3>5 DEF ReadOrigin, MarkIf
    <3>6. CASE RefuseEngine(j)  BY <1>0, <3>6 DEF RefuseEngine, MarkIf
    <3>7. CASE RecordChoice(j)  BY <1>0, <3>7 DEF RecordChoice, MarkIf
    <3>8. CASE /\ ~TakeLock(j) /\ ~Apply(j) /\ ~Publish(j) /\ ~Persist(j)
               /\ ~ReadOrigin(j) /\ ~RefuseEngine(j) /\ ~RecordChoice(j)
      BY <1>2, <3>8
         DEF JobStep, Create, ResumeLoad, StoreChild, ResumePrompt, ResumeModel, RecordChild,
             ReadChoice, BuildEngine, Restore, StartChild, Inherit, Turn, GetSession, Config,
             StartTask, ghosts
    <3> QED BY <3>1, <3>2, <3>3, <3>4, <3>5, <3>6, <3>7, <3>8
  <2> QED BY <1>0, <2>1 DEF Marks
<1> QED BY <1>1, <1>2

\* Where the requests stand, and what they hold.
LEMMA JobKeepsControl ==
  ASSUME TypeInv, NEW j \in Jobs, JobStep(j) PROVE ControlOK'
<1>0. ControlOK /\ Key(j) \in Keys  BY AskType, TypeParts DEF TypeInv, TypeOK
<1>1. situation' = situation
  BY DEF JobStep, Create, StartRun, ResumeLoad, StoreChild, ResumePrompt, ResumeModel, RecordChild,
         RecordChoice, Apply, ReadOrigin, ReadChoice, BuildEngine, Restore, StartChild, Inherit, Turn,
         TakeLock, GetSession, Config, RefuseEngine, Publish, StartTask, Persist
<1>2. pc' \in [Jobs -> PCs]
  <2>1. \/ pc' = pc
        \/ \E to \in PCs : pc' = [pc EXCEPT ![j] = to]
    BY <1>0
       DEF JobStep, Create, StartRun, ResumeLoad, StoreChild, ResumePrompt, ResumeModel, RecordChild,
           RecordChoice, Apply, ReadOrigin, ReadChoice, BuildEngine, Restore, StartChild, Inherit, Turn,
           TakeLock, GetSession, Config, RefuseEngine, Publish, StartTask, Persist, Goes, PCs, ControlOK
  <2> QED BY <1>0, <2>1 DEF ControlOK
<1>3. at' \in [Jobs -> Jobs \cup {None}]
  <2>1. live'[Key(j)] \in Jobs \cup {None} \/ ~Publish(j)
    BY <1>0 DEF Publish, ControlOK
  <2> QED
    <3>1. CASE Publish(j)
      <4>1. at' = [at EXCEPT ![j] = live'[Key(j)]]  BY <3>1 DEF Publish
      <4> QED BY <1>0, <2>1, <3>1, <4>1 DEF ControlOK
    <3>2. CASE StartChild(j)
      <4>1. situation \in Situations /\ IsChild(j)  BY <1>0, <3>2 DEF ControlOK, StartChild
      <4>2. Above[Key(j)] \in Keys  BY <4>1, AskType
      <4>3. at' = at \/ at' = [at EXCEPT ![j] = live[Above[Key(j)]]]  BY <3>2 DEF StartChild
      <4> QED BY <1>0, <4>2, <4>3 DEF ControlOK
    <3>3. CASE ~Publish(j) /\ ~StartChild(j)
      <4>1. \/ at' = at \/ at' = [at EXCEPT ![j] = live[Key(j)]] \/ at' = [at EXCEPT ![j] = j]
        BY <3>3
           DEF JobStep, Create, StartRun, ResumeLoad, StoreChild, ResumePrompt, ResumeModel, RecordChild,
               RecordChoice, Apply, ReadOrigin, ReadChoice, BuildEngine, Restore, Inherit, Turn,
               TakeLock, GetSession, Config, RefuseEngine, StartTask, Persist, memory
      <4> QED BY <1>0, <4>1 DEF ControlOK
    <3> QED BY <3>1, <3>2, <3>3
<1>4. live' \in [Keys -> Jobs \cup {None}]
  <2>1. \/ live' = live
        \/ \E x \in {j, None} : live' = [live EXCEPT ![Key(j)] = x]
    BY <1>0
       DEF JobStep, Create, StartRun, ResumeLoad, StoreChild, ResumePrompt, ResumeModel, RecordChild,
           RecordChoice, Apply, ReadOrigin, ReadChoice, BuildEngine, Restore, StartChild, Inherit, Turn,
           TakeLock, GetSession, Config, RefuseEngine, Publish, StartTask, Persist, memory, ControlOK
  <2> QED BY <1>0, <2>1 DEF ControlOK
<1>5. holder' \in [Keys -> Jobs \cup {None}]
  <2>1. Unlocked(j) \in [Keys -> Jobs \cup {None}]  BY <1>0 DEF Unlocked, ControlOK
  <2>2. \/ holder' = holder \/ holder' = Unlocked(j) \/ holder' = [holder EXCEPT ![Key(j)] = j]
    BY DEF JobStep, Create, StartRun, ResumeLoad, StoreChild, ResumePrompt, ResumeModel, RecordChild,
           RecordChoice, Apply, ReadOrigin, ReadChoice, BuildEngine, Restore, StartChild, Inherit, Turn,
           TakeLock, GetSession, Config, RefuseEngine, Publish, StartTask, Persist, memory
  <2> QED BY <1>0, <2>1, <2>2 DEF ControlOK
<1>6. reaping' \subseteq Keys /\ faults' \subseteq Faults /\ trees' \subseteq {Tree}
  <2>1. reaping' = reaping /\ faults' \subseteq faults /\ trees' \subseteq trees \cup {Tree}
    BY DEF JobStep, Create, StartRun, ResumeLoad, StoreChild, ResumePrompt, ResumeModel, RecordChild,
           RecordChoice, Apply, ReadOrigin, ReadChoice, BuildEngine, Restore, StartChild, Inherit, Turn,
           TakeLock, GetSession, Config, RefuseEngine, Publish, StartTask, Persist, memory, disk
  <2> QED BY <1>0, <2>1 DEF ControlOK
<1> QED BY <1>0, <1>1, <1>2, <1>3, <1>4, <1>5, <1>6 DEF ControlOK

\* A step of a request is its own: the others stand where they stood.
LEMMA JobMoves ==
  ASSUME TypeInv, NEW j \in Jobs, JobStep(j)
  PROVE  /\ situation' = situation /\ reaping' = reaping
         /\ \A i \in Jobs \ {j} : pc'[i] = pc[i] /\ at'[i] = at[i]
<1>0. pc \in [Jobs -> PCs] /\ at \in [Jobs -> Jobs \cup {None}]  BY DEF TypeInv, TypeOK
<1>1. situation' = situation /\ reaping' = reaping
  BY DEF JobStep, Create, StartRun, ResumeLoad, StoreChild, ResumePrompt, ResumeModel, RecordChild,
         RecordChoice, Apply, ReadOrigin, ReadChoice, BuildEngine, Restore, StartChild, Inherit, Turn,
         TakeLock, GetSession, Config, RefuseEngine, Publish, StartTask, Persist, memory
<1>2. pc' = [pc EXCEPT ![j] = pc'[j]]
  BY <1>0
     DEF JobStep, Create, StartRun, ResumeLoad, StoreChild, ResumePrompt, ResumeModel, RecordChild,
         RecordChoice, Apply, ReadOrigin, ReadChoice, BuildEngine, Restore, StartChild, Inherit, Turn,
         TakeLock, GetSession, Config, RefuseEngine, Publish, StartTask, Persist, Goes
<1>3. at' = [at EXCEPT ![j] = at'[j]]
  BY <1>0
     DEF JobStep, Create, StartRun, ResumeLoad, StoreChild, ResumePrompt, ResumeModel, RecordChild,
         RecordChoice, Apply, ReadOrigin, ReadChoice, BuildEngine, Restore, StartChild, Inherit, Turn,
         TakeLock, GetSession, Config, RefuseEngine, Publish, StartTask, Persist, memory
<1> QED BY <1>0, <1>1, <1>2, <1>3

\* Only requests look for a session, only children are recorded after they are
\* stored, and whoever works on a session has one.
LEMMA JobKeepsAt ==
  ASSUME TypeInv, NEW j \in Jobs, JobStep(j) PROVE AtInv'
<1> DEFINE Fits(p, a) ==
             /\ p \in AtPcs => a # None
             /\ IsChild(j) /\ p \in ChildPcs => a # None
             /\ IsChild(j) => p \notin RequestPcs
             /\ p \in OnlyChildPcs => IsChild(j)
<1>0. /\ pc \in [Jobs -> PCs] /\ at \in [Jobs -> Jobs \cup {None}] /\ Key(j) \in Keys
      /\ live \in [Keys -> Jobs \cup {None}] /\ None \notin Jobs /\ Fits(pc[j], at[j])
  BY AskType, SettingsAssumption DEF TypeInv, TypeOK, AtInv
<1>1. Fits(pc'[j], at'[j])
  <2>1. CASE Create(j) \/ StartRun(j) \/ TakeLock(j) \/ ResumePrompt(j) \/ ResumeModel(j)
    <3>1. pc'[j] \in {"done", "lock", "get", "model", "load"}
      BY <1>0, <2>1 DEF Create, StartRun, TakeLock, ResumePrompt, ResumeModel, Goes
    <3>2. ~IsChild(j)
      BY <1>0, <2>1 DEF Create, StartRun, TakeLock, ResumePrompt, ResumeModel, Goes, IsChild, ChildKinds,
                        RequestPcs
    <3> QED BY <3>1, <3>2 DEF AtPcs, OnlyChildPcs
  <2>2. CASE GetSession(j) \/ ResumeLoad(j) \/ Config(j)
    <3>1. ~IsChild(j)
      BY <1>0, <2>2 DEF GetSession, ResumeLoad, Config, Goes, IsChild, ChildKinds, RequestPcs
    <3>2. at'[j] = live[Key(j)]  BY <1>0, <2>2 DEF GetSession, ResumeLoad, Config
    <3>3. \/ pc'[j] \in {"origin", "done"}
          \/ pc'[j] \in {"turn", "apply"} /\ live[Key(j)] # None
      BY <1>0, <2>2 DEF GetSession, ResumeLoad, Config, Goes
    <3> QED BY <3>1, <3>2, <3>3 DEF AtPcs, OnlyChildPcs
  <2>3. CASE Apply(j) \/ RefuseEngine(j) \/ Persist(j)
    <3>1. pc'[j] = "done"  BY <1>0, <2>3 DEF Apply, RefuseEngine, Persist, Goes
    <3> QED BY <3>1 DEF AtPcs, ChildPcs, RequestPcs, OnlyChildPcs
  <2>4. CASE ReadOrigin(j) \/ ReadChoice(j) \/ BuildEngine(j) \/ Restore(j)
    <3>1. pc[j] \in ChildPcs /\ at' = at
      BY <2>4 DEF ReadOrigin, ReadChoice, BuildEngine, Restore, Goes, ChildPcs, memory
    <3>2. \/ pc'[j] \in {"choice", "engine", "restore", "done"}
          \/ pc'[j] = "inherit" /\ IsChild(j)
          \/ pc'[j] = "publish" /\ ~IsChild(j)
      BY <1>0, <2>4 DEF ReadOrigin, ReadChoice, BuildEngine, Restore, Goes
    <3> QED BY <1>0, <3>1, <3>2 DEF AtPcs, ChildPcs, RequestPcs, OnlyChildPcs
  <2>5. CASE Publish(j)
    <3>1. ~IsChild(j)  BY <1>0, <2>5 DEF Publish, Goes, RequestPcs
    <3>2. live'[Key(j)] # None  BY <1>0, <2>5 DEF Publish
    <3>3. at'[j] = live'[Key(j)]  BY <1>0, <2>5 DEF Publish
    <3>4. pc'[j] \in {"turn", "done"}  BY <1>0, <2>5 DEF Publish, Goes
    <3> QED BY <3>1, <3>2, <3>3, <3>4 DEF OnlyChildPcs
  <2>6. CASE StartChild(j)
    <3>1. CASE pc'[j] = "done"  BY <3>1 DEF AtPcs, ChildPcs, RequestPcs, OnlyChildPcs
    <3>2. CASE pc'[j] # "done"
      <4>1. at'[j] \in Jobs  BY <1>0, <2>6, <3>2, ChildValue
      <4>2. pc'[j] = "origin"  BY <1>0, <2>6, <3>2 DEF StartChild
      <4> QED BY <1>0, <4>1, <4>2 DEF AtPcs, ChildPcs, RequestPcs, OnlyChildPcs
    <3> QED BY <3>1, <3>2
  <2>7. CASE Inherit(j) \/ StoreChild(j) \/ RecordChild(j) \/ RecordChoice(j)
    <3>1. pc[j] \in OnlyChildPcs
      BY <2>7 DEF Inherit, StoreChild, RecordChild, RecordChoice, Goes, OnlyChildPcs
    <3>2. pc'[j] \in {"store", "record", "recordChoice", "task", "done"}
      BY <1>0, <2>7 DEF Inherit, StoreChild, RecordChild, RecordChoice, Goes
    <3> QED BY <1>0, <3>1, <3>2 DEF AtPcs, ChildPcs, RequestPcs, OnlyChildPcs
  <2>8. CASE StartTask(j)
    <3>1. at'[j] = j /\ pc'[j] = "turn"  BY <1>0, <2>8 DEF StartTask, Goes
    <3> QED BY <1>0, <3>1 DEF ChildPcs, RequestPcs, OnlyChildPcs
  <2>9. CASE Turn(j)
    <3>1. at' = at /\ pc[j] = "turn" /\ pc'[j] = "persist"  BY <1>0, <2>9 DEF Turn, Goes
    <3> QED BY <1>0, <3>1 DEF AtPcs, ChildPcs, RequestPcs, OnlyChildPcs
  <2> QED BY <2>1, <2>2, <2>3, <2>4, <2>5, <2>6, <2>7, <2>8, <2>9 DEF JobStep
<1>2. \A i \in Jobs : IsChild(i)' <=> IsChild(i)  BY JobMoves DEF IsChild, Ask
<1>3. ASSUME NEW i \in Jobs \ {j}
      PROVE  /\ pc'[i] \in AtPcs => at'[i] # None
             /\ IsChild(i)' /\ pc'[i] \in ChildPcs => at'[i] # None
             /\ IsChild(i)' => pc'[i] \notin RequestPcs
             /\ pc'[i] \in OnlyChildPcs => IsChild(i)'
  BY <1>2, <1>3, JobMoves DEF TypeInv, AtInv
<1> QED BY <1>1, <1>2, <1>3 DEF AtInv

\* A step of a request keeps the types.
LEMMA JobKeepsType == ASSUME TypeInv, NEW j \in Jobs, JobStep(j) PROVE TypeInv'
<1>1. ControlOK' /\ ObjOK' /\ AtInv'  BY JobKeepsControl, ObjectsKeepType, JobKeepsAt
<1>2. RecordsOK'  BY RowValue, OriginValue, SaidType, FileValue, FlagsValue DEF RecordsOK
<1>3. TypeOK'
  BY <1>1, <1>2 DEF TypeOK, ControlOK, RecordsOK, ObjOK, Saids, Files, Marks
<1> QED BY <1>1, <1>3 DEF TypeInv

\* The reaper, the removal of a worktree and a restart keep them as well.
LEMMA SystemKeepsType ==
  ASSUME TypeInv, (\E k \in Keys : ReapSession(k) \/ DeleteSession(k)) \/ RemoveTree \/ Restart
  PROVE  TypeInv'
<1>0. ControlOK /\ RecordsOK /\ ObjOK /\ AtInv /\ None \notin Jobs
  BY TypeParts, SettingsAssumption DEF TypeInv
<1>1. ASSUME NEW k \in Keys, ReapSession(k) PROVE TypeInv'
  <2>1. ControlOK'
    <3>1. live' \in [Keys -> Jobs \cup {None}]  BY <1>0, <1>1 DEF ReapSession, ControlOK
    <3> QED BY <1>0, <1>1, <3>1 DEF ReapSession, ControlOK, disk
  <2>2. said' \in [Keys -> Saids]  BY <1>1, ForgottenType DEF ReapSession
  <2>3. flags' \in [Keys -> SUBSET Marks]  BY <1>0, <1>1 DEF ReapSession, MarkIf, RecordsOK, Marks
  <2>4. RecordsOK' /\ ObjOK'
    BY <1>0, <1>1, <2>2, <2>3 DEF ReapSession, RecordsOK, ObjOK, disk
  <2>5. AtInv'  BY <1>0, <1>1 DEF ReapSession, AtInv, IsChild, Ask
  <2> QED BY <2>1, <2>4, <2>5 DEF TypeInv, TypeOK, ControlOK, RecordsOK, ObjOK, Saids, Files, Marks
<1>2. ASSUME NEW k \in Keys, DeleteSession(k) PROVE TypeInv'
  <2>1. ControlOK'  BY <1>0, <1>2 DEF DeleteSession, ControlOK
  <2>2. row' \in [Keys -> Rows]  BY <1>0, <1>2, NoRowType DEF DeleteSession, RecordsOK
  <2>3. said' \in [Keys -> Saids]
    <3> DEFINE a == AgentInKey(k)
               t == [said[k] EXCEPT !.prompt = NoText, !.model = OwnModel[a]]
    <3>1. said' = said \/ (a # None /\ said' = [said EXCEPT ![k].prompt = NoText, ![k].model = OwnModel[a]])
      BY <1>2 DEF DeleteSession
    <3>2. a \in Agents \cup {None}  BY AgentType
    <3>3. a # None => OwnModel[a] \in Models /\ NoText \in Prompts  BY <3>2, SettingsAssumption
    <3> HIDE DEF a
    <3>4. said[k] \in Saids  BY <1>0 DEF RecordsOK
    <3>5. a # None => t \in Saids  BY <3>3, <3>4 DEF Saids
    <3>6. said' = said \/ (a # None /\ said' = [said EXCEPT ![k] = t])  BY <1>0, <3>1 DEF RecordsOK
    <3> HIDE DEF t
    <3> QED BY <1>0, <3>5, <3>6 DEF RecordsOK
  <2>4. flags' \in [Keys -> SUBSET Marks]
    <3> DEFINE raced == IF live[k] # None \/ Building(k) THEN {"raced"} ELSE {}
               renamed == IF AgentInKey(k) # origin[k].agent THEN {"renamed"} ELSE {}
    <3>1. flags' = [flags EXCEPT ![k] = (flags[k] \cup raced) \cup renamed]
      BY <1>0, <1>2 DEF DeleteSession, RecordsOK
    <3>2. raced \subseteq Marks /\ renamed \subseteq Marks  BY DEF Marks
    <3> HIDE DEF raced, renamed
    <3> QED BY <1>0, <3>1, <3>2 DEF RecordsOK
  <2>5. RecordsOK' /\ ObjOK'
    BY <1>0, <1>2, <2>2, <2>3, <2>4 DEF DeleteSession, RecordsOK, ObjOK
  <2>6. AtInv'  BY <1>0, <1>2 DEF DeleteSession, AtInv, IsChild, Ask
  <2> QED BY <2>1, <2>5, <2>6 DEF TypeInv, TypeOK, ControlOK, RecordsOK, ObjOK, Saids, Files, Marks
<1>3. CASE RemoveTree
  <2>1. ControlOK' /\ RecordsOK' /\ ObjOK'
    BY <1>0, <1>3 DEF RemoveTree, ControlOK, RecordsOK, ObjOK, memory, ghosts
  <2>2. AtInv'  BY <1>0, <1>3 DEF RemoveTree, AtInv, IsChild, Ask, memory
  <2> QED BY <2>1, <2>2 DEF TypeInv, TypeOK, ControlOK, RecordsOK, ObjOK, Saids, Files, Marks
<1>4. CASE Restart
  <2>1. ControlOK'
    <3>1. pc' \in [Jobs -> PCs]  BY <1>4 DEF Restart, PCs
    <3> QED BY <1>0, <1>4, <3>1 DEF Restart, ControlOK
  <2>2. row' \in [Keys -> Rows]
    <3>1. CASE Keys = {}  BY <1>0, <1>4, <3>1 DEF Restart, MigrateGatewayDB, BackfillLineage, RecordsOK
    <3>2. CASE Keys # {}
      BY <1>0, <1>4, <3>2, ColumnsAreThere, BackfillValue DEF Restart, MigrateGatewayDB, RecordsOK
    <3> QED BY <3>1, <3>2
  <2>3. said' \in [Keys -> Saids]  BY <1>4, ForgottenType DEF Restart
  <2>4. flags' \in [Keys -> SUBSET Marks]  BY <1>0, <1>4 DEF Restart, RecordsOK, Marks
  <2>5. RecordsOK' /\ ObjOK'
    BY <1>0, <1>4, <2>2, <2>3, <2>4 DEF Restart, RecordsOK, ObjOK
  <2>6. AtInv'
    BY <1>4 DEF Restart, AtInv, IsChild, Ask, AtPcs, ChildPcs, RequestPcs, OnlyChildPcs
  <2> QED BY <2>1, <2>5, <2>6 DEF TypeInv, TypeOK, ControlOK, RecordsOK, ObjOK, Saids, Files, Marks
<1> QED BY <1>1, <1>2, <1>3, <1>4

\* A server starts with a table whose rows name their agents and have the
\* lineage their keys spell.
LEMMA StartRow ==
  ASSUME Init, NEW k \in Keys
  PROVE  /\ row \in [Keys -> Rows]
         /\ ~row[k].known => row[k] = NoRow
         /\ row[k].known => /\ row[k].agent \in Agents
                            /\ row[k].parent = Above[k] /\ row[k].depth = DepthSpelled(k)
                            /\ Above[k] = None => row[k].depth = 0 /\ row[k].roots = Home
<1> DEFINE rows == AddSessionColumns(situation.rows)
<1>1. /\ situation \in Situations /\ row = BackfillLineage(rows)
      /\ \A x \in Keys : /\ rows[x] \in Rows
                         /\ ~rows[x].known => rows[x] = NoRow
                         /\ rows[x].known => /\ rows[x].agent # None
                                             /\ Above[x] = None => rows[x].roots = Home
                                             /\ \/ rows[x].parent = None /\ rows[x].depth = 0
                                                \/ /\ rows[x].parent = Above[x]
                                                   /\ rows[x].depth = DepthSpelled(x)
  BY RowsAssumption DEF Init, MigrateGatewayDB
<1>2. rows \in [Keys -> Rows]
  <2>1. rows = [x \in Keys |-> rows[x]]  BY DEF AddSessionColumns
  <2> HIDE DEF rows
  <2> QED BY <1>1, <2>1
<1> HIDE DEF rows
<1>3. LET r == row[k] IN
      /\ row \in [Keys -> Rows]
      /\ r.known = rows[k].known /\ r.agent = rows[k].agent /\ r.roots = rows[k].roots
      /\ ~rows[k].known \/ Above[k] = None \/ rows[k].parent # None => r = rows[k]
      /\ rows[k].known /\ Above[k] # None /\ rows[k].parent = None /\ rows[k].depth = 0 =>
           r.parent = Above[k] /\ r.depth = DepthSpelled(k)
  BY <1>1, <1>2, BackfillValue
<1>4. rows[k] \in Rows /\ Above[k] \in Keys \cup {None} /\ None \notin Keys
  BY <1>2, SettingsAssumption
<1>5. rows[k].agent \in Agents \cup {None}  BY <1>4 DEF Rows
<1>6. Above[k] = None => DepthSpelled(k) = 0  BY AboveIsAncestor
<1>7. ASSUME ~row[k].known PROVE row[k] = NoRow  BY <1>1, <1>3, <1>7
<1>8. ASSUME row[k].known
      PROVE  /\ row[k].agent \in Agents
             /\ row[k].parent = Above[k] /\ row[k].depth = DepthSpelled(k)
             /\ Above[k] = None => row[k].depth = 0 /\ row[k].roots = Home
  <2>1. rows[k].known  BY <1>3, <1>8
  <2>2. row[k].agent \in Agents  BY <1>1, <1>3, <1>5, <2>1
  <2>3. CASE Above[k] = None  BY <1>1, <1>3, <1>6, <2>1, <2>2, <2>3
  <2>4. CASE Above[k] # None  BY <1>1, <1>3, <2>1, <2>2, <2>4
  <2> QED BY <2>3, <2>4
<1> QED BY <1>3, <1>7, <1>8

\* The types hold at the start.
LEMMA InitType == Init => TypeInv
<1> SUFFICES ASSUME Init PROVE TypeInv  OBVIOUS
<1>0. /\ situation \in Situations /\ situation.named \in Agents /\ situation.faults \subseteq Faults
      /\ Home \in {Home, Tree} /\ None \notin Keys /\ NoText \in Prompts
      /\ Above \in [Keys -> Keys \cup {None}] /\ OwnModel \in [Agents -> Models]
      /\ None \notin Agents
  BY SettingsAssumption DEF Init
<1>1. row \in [Keys -> Rows]
  <2>1. CASE Keys = {}
    <3>1. row = [k \in Keys |-> IF row[k].known THEN row[k] ELSE row[k]]
      BY <2>1 DEF Init, MigrateGatewayDB, BackfillLineage
    <3> QED BY <2>1, <3>1
  <2>2. CASE Keys # {}  BY <2>2, StartRow
  <2> QED BY <2>1, <2>2
<1>2. ASSUME NEW k \in Keys
      PROVE  /\ row[k].agent \in Agents \cup {None} /\ row[k].roots \in {Home, Tree}
             /\ row[k].prompt \in Prompts /\ row[k].model \in Models \cup {None}
             /\ row[k].known => row[k].agent \in Agents
             /\ DepthSpelled(k) \in Nat
  <2>1. row[k] \in Rows  BY <1>1
  <2> QED BY <2>1, StartRow, AboveIsAncestor DEF Rows
<1>3. origin \in [Keys -> Origins]
  <2>1. ASSUME NEW k \in Keys
        PROVE  [agent |-> row[k].agent, roots |-> row[k].roots,
                parent |-> IF row[k].known THEN Above[k] ELSE None,
                depth |-> IF row[k].known THEN DepthSpelled(k) ELSE 0] \in Origins
    BY <1>0, <1>2 DEF Origins
  <2> QED BY <2>1 DEF Init
<1>4. said \in [Keys -> Saids]
  <2>1. ASSUME NEW k \in Keys
        PROVE  [prompt |-> row[k].prompt, off |-> {}, cap |-> 0,
                model |-> IF row[k].known /\ row[k].model = None THEN OwnModel[row[k].agent]
                          ELSE row[k].model] \in Saids
    <3> DEFINE m == IF row[k].known /\ row[k].model = None THEN OwnModel[row[k].agent] ELSE row[k].model
    <3>1. m \in Models \cup {None}  BY <1>0, <1>2
    <3> HIDE DEF m
    <3> QED BY <1>2, <3>1 DEF Saids, m
  <2> QED BY <2>1 DEF Init
<1>5. /\ file \in [Keys -> Files] /\ flags \in [Keys -> SUBSET Marks]
      /\ workspace \in [Agents -> SUBSET Keys]
  BY DEF Init, Files
<1>6. obj \in [Jobs -> Objects]  BY <1>0, NewObjValue DEF Init
<1>7. ControlOK  BY <1>0 DEF Init, ControlOK, PCs
<1>8. AtInv  BY DEF Init, AtInv, AtPcs, ChildPcs, RequestPcs, OnlyChildPcs
<1> QED BY <1>1, <1>3, <1>4, <1>5, <1>6, <1>7, <1>8, TypeParts DEF RecordsOK, ObjOK, TypeInv

\* The types are inductive.
LEMMA NextKeepsType == TypeInv /\ [Next]_vars => TypeInv'
<1>1. ASSUME TypeInv, UNCHANGED vars PROVE TypeInv'
  BY <1>1 DEF vars, disk, memory, ghosts, TypeInv, TypeOK, AtInv, IsChild, Ask
<1>2. ASSUME TypeInv, Next PROVE TypeInv'
  <2>1. ASSUME NEW j \in Jobs, JobStep(j) PROVE TypeInv'  BY <1>2, <2>1, JobKeepsType
  <2>2. CASE (\E k \in Keys : ReapSession(k) \/ DeleteSession(k)) \/ RemoveTree \/ Restart
    BY <1>2, <2>2, SystemKeepsType
  <2> QED BY <1>2, <2>1, <2>2 DEF Next
<1> QED BY <1>1, <1>2

\* Every state of the sessions, of what is recorded of them and of the requests
\* at work on them has its type.
THEOREM SettingsTypes == Spec => []TypeOK
<1>1. Spec => []TypeInv  BY InitType, NextKeepsType, PTL DEF Spec
<1>2. TypeInv => TypeOK  BY DEF TypeInv
<1> QED BY <1>1, <1>2, PTL

-----------------------------------------------------------------------------
(* Which session is under a key.                                           *)

\* A session under a key was built for that key and is done being built; a turn,
\* a resume and a config work on a session of their own key.
MadePcs == {"record", "recordChoice", "task", "turn", "persist", "done"}
PlaceInv ==
  /\ \A k \in Keys : live[k] # None => Key(live[k]) = k /\ pc[live[k]] \in MadePcs
  /\ \A j \in Jobs : pc[j] \in AtPcs => Key(at[j]) = Key(j)

\* Who comes to be under a key is the request that built it, done with it.
LEMMA LiveValue ==
  ASSUME TypeInv, NEW j \in Jobs, JobStep(j), NEW k \in Keys
  PROVE  \/ live'[k] = live[k]
         \/ live'[k] = None
         \/ /\ Publish(j) \/ StoreChild(j)
            /\ k = Key(j) /\ live'[k] = j /\ pc'[j] \in MadePcs
<1>0. live \in [Keys -> Jobs \cup {None}] /\ pc \in [Jobs -> PCs] /\ Key(j) \in Keys
  BY AskType DEF TypeInv, TypeOK
<1>1. CASE Publish(j)
  <2>1. pc'[j] \in MadePcs  BY <1>0, <1>1 DEF Publish, Goes, MadePcs
  <2>2. live' = live \/ live' = [live EXCEPT ![Key(j)] = j]  BY <1>0, <1>1 DEF Publish
  <2> QED BY <1>0, <1>1, <2>1, <2>2
<1>2. CASE StoreChild(j)
  <2>1. pc'[j] \in MadePcs  BY <1>0, <1>2 DEF StoreChild, Goes, MadePcs
  <2>2. live' = [live EXCEPT ![Key(j)] = j]  BY <1>2 DEF StoreChild
  <2> QED BY <1>0, <1>2, <2>1, <2>2
<1>3. CASE TakeLock(j)
  <2>1. live' = live \/ live' = [live EXCEPT ![Key(j)] = None]  BY <1>3 DEF TakeLock
  <2> QED BY <1>0, <2>1
<1>4. CASE ~Publish(j) /\ ~StoreChild(j) /\ ~TakeLock(j)
  BY <1>4 DEF JobStep, Create, StartRun, ResumeLoad, ResumePrompt, ResumeModel, RecordChild,
              RecordChoice, Apply, ReadOrigin, ReadChoice, BuildEngine, Restore, StartChild, Inherit, Turn,
              GetSession, Config, RefuseEngine, StartTask, Persist, memory
<1> QED BY <1>1, <1>2, <1>3, <1>4

\* What is done being built stays so.
LEMMA MadeStays ==
  ASSUME TypeInv, NEW j \in Jobs, JobStep(j), NEW i \in Jobs, pc[i] \in MadePcs
  PROVE  pc'[i] \in MadePcs
<1>0. pc \in [Jobs -> PCs]  BY DEF TypeInv, TypeOK
<1>1. CASE i # j  BY <1>1, JobMoves
<1>2. CASE i = j
  <2>1. RecordChild(j) \/ RecordChoice(j) \/ StartTask(j) \/ Turn(j) \/ Persist(j)
    BY <1>2 DEF JobStep, Create, StartRun, ResumeLoad, StoreChild, ResumePrompt, ResumeModel, Apply,
                ReadOrigin, ReadChoice, BuildEngine, Restore, StartChild, Inherit, TakeLock, GetSession,
                Config, RefuseEngine, Publish, Goes, MadePcs
  <2> QED BY <1>0, <1>2, <2>1 DEF RecordChild, RecordChoice, StartTask, Turn, Persist, Goes, MadePcs
<1> QED BY <1>1, <1>2

\* A step of a request keeps everybody at a session of their key.
LEMMA JobKeepsPlace ==
  ASSUME TypeInv, PlaceInv, NEW j \in Jobs, JobStep(j) PROVE PlaceInv'
<1>0. /\ live \in [Keys -> Jobs \cup {None}] /\ pc \in [Jobs -> PCs] /\ at \in [Jobs -> Jobs \cup {None}]
      /\ Key(j) \in Keys /\ None \notin Jobs
  BY AskType, SettingsAssumption DEF TypeInv, TypeOK
<1>1. \A i \in Jobs \cup {None} : Key(i)' = Key(i)  BY JobMoves DEF Key, Ask
<1>2. ASSUME NEW k \in Keys, live'[k] # None PROVE Key(live'[k]) = k /\ pc'[live'[k]] \in MadePcs
  <2>1. CASE live'[k] = live[k]
    <3>1. live[k] \in Jobs /\ Key(live[k]) = k /\ pc[live[k]] \in MadePcs  BY <1>0, <1>2, <2>1 DEF PlaceInv
    <3> QED BY <2>1, <3>1, MadeStays
  <2>2. CASE live'[k] # live[k]  BY <1>2, <2>2, LiveValue
  <2> QED BY <2>1, <2>2
<1>3. ASSUME pc'[j] \in AtPcs PROVE Key(at'[j]) = Key(j)
  <2>1. CASE GetSession(j) \/ ResumeLoad(j) \/ Config(j)
    <3>1. at'[j] = live[Key(j)] /\ live[Key(j)] # None
      BY <1>0, <1>3, <2>1 DEF GetSession, ResumeLoad, Config, Goes, AtPcs
    <3> QED BY <1>0, <3>1 DEF PlaceInv
  <2>2. CASE Publish(j)
    <3>1. at'[j] = live'[Key(j)] /\ live'[Key(j)] # None  BY <1>0, <2>2 DEF Publish
    <3> QED BY <1>0, <1>2, <3>1
  <2>3. CASE StartTask(j)  BY <1>0, <2>3 DEF StartTask
  <2>4. CASE Turn(j)
    <3>1. at' = at /\ pc[j] \in AtPcs  BY <2>4 DEF Turn, Goes, AtPcs
    <3> QED BY <3>1 DEF PlaceInv
  <2>5. CASE /\ ~GetSession(j) /\ ~ResumeLoad(j) /\ ~Config(j) /\ ~Publish(j) /\ ~StartTask(j)
             /\ ~Turn(j)
    <3>1. pc'[j] \notin AtPcs
      BY <1>0, <2>5
         DEF JobStep, Create, StartRun, StoreChild, ResumePrompt, ResumeModel, RecordChild,
             RecordChoice, Apply, ReadOrigin, ReadChoice, BuildEngine, Restore, StartChild, Inherit,
             TakeLock, RefuseEngine, Persist, Goes, AtPcs
    <3> QED BY <1>3, <3>1
  <2> QED BY <2>1, <2>2, <2>3, <2>4, <2>5
<1>4. ASSUME NEW i \in Jobs \ {j}, pc'[i] \in AtPcs PROVE Key(at'[i]) = Key(i)
  BY <1>4, JobMoves DEF PlaceInv
<1>5. live' \in [Keys -> Jobs \cup {None}] /\ at' \in [Jobs -> Jobs \cup {None}]
  BY JobKeepsType DEF TypeInv, TypeOK
<1> QED BY <1>1, <1>2, <1>3, <1>4, <1>5 DEF PlaceInv

\* So do the reaper and a restart.
LEMMA SystemKeepsPlace ==
  ASSUME TypeInv, PlaceInv,
         (\E k \in Keys : ReapSession(k) \/ DeleteSession(k)) \/ RemoveTree \/ Restart
  PROVE  PlaceInv'
<1>0. live \in [Keys -> Jobs \cup {None}] /\ pc \in [Jobs -> PCs]  BY DEF TypeInv, TypeOK
<1>1. ASSUME NEW k \in Keys, ReapSession(k) PROVE PlaceInv'
  BY <1>0, <1>1 DEF ReapSession, PlaceInv, Key, Ask
<1>2. CASE (\E k \in Keys : DeleteSession(k)) \/ RemoveTree
  BY <1>2 DEF DeleteSession, RemoveTree, PlaceInv, Key, Ask, memory
<1>3. CASE Restart
  BY <1>0, <1>3 DEF Restart, PlaceInv, Key, Ask, AtPcs
<1> QED BY <1>1, <1>2, <1>3

-----------------------------------------------------------------------------
(* Whose words a session has.                                              *)

\* A session has words of its own key, and a fork has some of the keys above it;
\* so has what is saved of it.
Own(k) == {k} \cup {w \in Ancestors(k) : \E j \in Jobs : Key(j) = k /\ Forks(j)}
WordsOK(s, j) ==
  /\ s.words \subseteq Own(Key(j))
  /\ s.copied \subseteq Ancestors(Key(j)) /\ (s.copied # {} => Forks(j))
WordsInv ==
  /\ \A j \in Jobs : WordsOK(obj[j], j)
  /\ \A k \in Keys : file[k].words \subseteq Own(k)

\* What a step makes of a session leaves it words that are its own.
LEMMA WordsValue ==
  ASSUME TypeInv, PlaceInv, WordsInv, NEW j \in Jobs, JobStep(j)
  PROVE  \/ obj' = obj
         \/ \E x \in Jobs, s \in Objects : obj' = [obj EXCEPT ![x] = s] /\ WordsOK(s, x)
<1> DEFINE k == Key(j)
           Fits == \/ obj' = obj
                   \/ \E x \in Jobs, s \in Objects : obj' = [obj EXCEPT ![x] = s] /\ WordsOK(s, x)
<1>0. /\ k \in Keys /\ pc \in [Jobs -> PCs] /\ WordsOK(obj[j], j) /\ file[k].words \subseteq Own(k)
      /\ \A x \in Jobs : WordsOK(obj[x], x)
  BY AskType DEF TypeInv, TypeOK, WordsInv
<1>1. ASSUME NEW x \in Jobs, NEW s \in Objects, obj' = [obj EXCEPT ![x] = s], WordsOK(s, x) PROVE Fits
  BY <1>1
<1> SUFFICES Fits  OBVIOUS
<1> HIDE DEF Fits
<1>2. CASE obj' = obj  BY <1>2 DEF Fits
<1>3. CASE Starts(j)
  <2>1. CASE obj' # obj
    <3>1. PICK a \in Agents : obj' = [obj EXCEPT ![j] = NewObj(a)]
      BY <1>3, <2>1, StartedValue DEF Starts
    <3>2. NewObj(a) \in Objects /\ WordsOK(NewObj(a), j)  BY NewObjValue DEF WordsOK
    <3> QED BY <1>1, <3>1, <3>2
  <2> QED BY <1>2, <2>1
<1>4. CASE Apply(j)
  <2>1. PICK s \in Objects : /\ at[j] \in Jobs /\ Kept(obj[at[j]], s)
                             /\ obj' = [obj EXCEPT ![at[j]] = s]
    BY <1>4, AppliedValue
  <2>2. WordsOK(s, at[j])  BY <1>0, <2>1 DEF Kept, WordsOK
  <2> QED BY <1>1, <2>1, <2>2
<1>5. CASE ReadOrigin(j) /\ obj' # obj
  <2>1. PICK s \in Objects : /\ obj' = [obj EXCEPT ![j] = s]
                             /\ s.words = obj[j].words /\ s.copied = obj[j].copied
    BY <1>5, OriginReadValue
  <2>2. WordsOK(s, j)  BY <1>0, <2>1 DEF WordsOK
  <2> QED BY <1>1, <2>1, <2>2
<1>6. CASE ReadChoice(j)
  <2>1. PICK s \in Objects : Kept(obj[j], s) /\ obj' = [obj EXCEPT ![j] = s]
    BY <1>6, ChoiceReadValue
  <2>2. WordsOK(s, j)  BY <1>0, <2>1 DEF Kept, WordsOK
  <2> QED BY <1>1, <2>1, <2>2
<1>7. CASE BuildEngine(j)
  <2>1. PICK s \in Objects : /\ obj' = [obj EXCEPT ![j] = s] /\ s.copied = obj[j].copied
                             /\ s.words = {} \/ s.words = file[k].words
    BY <1>7, BuiltValue
  <2>2. WordsOK(s, j)  BY <1>0, <2>1 DEF WordsOK
  <2> QED BY <1>1, <2>1, <2>2
<1>8. CASE Restore(j)
  <2>1. PICK s \in Objects : /\ obj' = [obj EXCEPT ![j] = s]
                             /\ s.words = obj[j].words /\ s.copied = obj[j].copied
    BY <1>8, RestoreValue
  <2>2. WordsOK(s, j)  BY <1>0, <2>1 DEF WordsOK
  <2> QED BY <1>1, <2>1, <2>2
<1>9. CASE StartChild(j) /\ pc'[j] # "done"
  <2> DEFINE above == live[Above[k]]
  <2>1. IsChild(j) /\ Above[k] \in Keys /\ None \notin Jobs
    BY <1>9, AskType, SettingsAssumption DEF StartChild, TypeInv, TypeOK
  <2>2. PICK s \in Objects : /\ above \in Jobs /\ obj' = [obj EXCEPT ![j] = s] /\ s.words = {}
                             /\ s.copied = IF Forks(j) THEN obj[above].words ELSE {}
    BY <1>9, ChildValue
  <2>3. Key(above) = Above[k]  BY <2>1, <2>2 DEF PlaceInv
  <2>4. obj[above].words \subseteq Own(Above[k])  BY <1>0, <2>2, <2>3 DEF WordsOK
  <2>5. Own(Above[k]) \subseteq Ancestors(k)
    <3>1. Above[k] # None  BY <2>1, SettingsAssumption
    <3>2. Above[k] \in Ancestors(k) /\ Ancestors(Above[k]) \subseteq Ancestors(k)
      BY <1>0, <3>1, AboveIsAncestor
    <3> QED BY <3>2 DEF Own
  <2> HIDE DEF above
  <2>6. WordsOK(s, j)  BY <2>2, <2>4, <2>5 DEF WordsOK
  <2> QED BY <1>1, <2>2, <2>6
<1>10. CASE Inherit(j)
  <2>1. PICK s \in Objects : /\ obj' = [obj EXCEPT ![j] = s] /\ s.copied = obj[j].copied
                             /\ s.words = IF Forks(j) THEN obj[j].copied ELSE obj[j].words
    BY <1>10, InheritValue
  <2>2. WordsOK(s, j)  BY <1>0, <2>1 DEF WordsOK, Own
  <2> QED BY <1>1, <2>1, <2>2
<1>11. CASE Turn(j)
  <2>1. PICK s \in Objects : /\ at[j] \in Jobs /\ obj' = [obj EXCEPT ![at[j]] = s]
                             /\ s.copied = obj[at[j]].copied /\ s.words = obj[at[j]].words \cup {k}
    BY <1>11, TurnValue
  <2>2. Key(at[j]) = k  BY <1>11 DEF Turn, Goes, AtPcs, PlaceInv
  <2>3. WordsOK(s, at[j])  BY <1>0, <2>1, <2>2 DEF WordsOK, Own
  <2> QED BY <1>1, <2>1, <2>3
<1>12. CASE StartChild(j) /\ pc'[j] = "done"
  <2>1. obj' = obj  BY <1>0, <1>12 DEF StartChild
  <2> QED BY <1>2, <2>1
<1>13. CASE Records(j) \/ Moves(j)
  <2>1. obj' = obj
    BY <1>13
       DEF Records, Create, ResumePrompt, ResumeModel, RecordChild, RecordChoice, memory,
           Moves, TakeLock, GetSession, Config, RefuseEngine, Publish, StoreChild, StartTask, Persist
  <2> QED BY <1>2, <2>1
<1>14. CASE Shapes(j)
  <2>1. ReadOrigin(j) => Fits  BY <1>2, <1>5
  <2>2. StartChild(j) => Fits  BY <1>9, <1>12
  <2> QED BY <1>4, <1>6, <1>7, <1>8, <1>10, <1>11, <1>14, <2>1, <2>2 DEF Shapes
<1>15. Starts(j) \/ Shapes(j) \/ Records(j) \/ Moves(j)  BY JobSteps
<1> QED BY <1>3, <1>13, <1>14, <1>15

\* A step of a request leaves every session and every file with words of its own.
LEMMA JobKeepsWords ==
  ASSUME TypeInv, PlaceInv, WordsInv, NEW j \in Jobs, JobStep(j) PROVE WordsInv'
<1>0. obj \in [Jobs -> Objects]  BY DEF TypeInv, TypeOK
<1>1. /\ \A k \in Keys : Own(k)' = Own(k)
      /\ \A i \in Jobs : Key(i)' = Key(i) /\ (Forks(i)' <=> Forks(i))
  BY JobMoves DEF Own, Key, Forks, Ask
<1>2. \A i \in Jobs : WordsOK(obj'[i], i)
  <2>1. \A i \in Jobs : WordsOK(obj[i], i)  BY DEF WordsInv
  <2> QED BY <1>0, <2>1, WordsValue
<1>3. \A i \in Jobs : Key(i) \in Keys  BY AskType DEF TypeInv, TypeOK
<1>4. \A i \in Jobs : WordsOK(obj[i], i)'  BY <1>1, <1>2, <1>3 DEF WordsOK
<1>5. ASSUME NEW k \in Keys PROVE file'[k].words \subseteq Own(k)
  <2>1. CASE file'[k] = file[k]  BY <2>1 DEF WordsInv
  <2>2. CASE file'[k] # file[k]
    <3>1. Persist(j) /\ at[j] \in Jobs /\ k = Key(j) /\ file'[k].words = obj[at[j]].words
      BY <2>2, FileValue
    <3>2. Key(at[j]) = k  BY <3>1 DEF Persist, Goes, AtPcs, PlaceInv
    <3> QED BY <3>1, <3>2 DEF WordsInv, WordsOK
  <2> QED BY <2>1, <2>2
<1> QED BY <1>1, <1>4, <1>5 DEF WordsInv

\* So does everything else.
LEMMA SystemKeepsWords ==
  ASSUME TypeInv, WordsInv,
         (\E k \in Keys : ReapSession(k) \/ DeleteSession(k)) \/ RemoveTree \/ Restart
  PROVE  WordsInv'
<1>1. obj' = obj /\ file' = file /\ situation' = situation
  BY DEF ReapSession, DeleteSession, RemoveTree, Restart, disk, memory
<1> QED BY <1>1 DEF WordsInv, WordsOK, Own, Forks, Key, Ask

\* The invariant of the conversations.
SettingsInv == TypeInv /\ PlaceInv /\ WordsInv

\* It holds at the start.
LEMMA InitSettings == Init => SettingsInv
<1> SUFFICES ASSUME Init PROVE SettingsInv  OBVIOUS
<1>1. TypeInv  BY InitType
<1>2. PlaceInv  BY DEF Init, PlaceInv, AtPcs
<1>3. situation.named \in Agents  BY SettingsAssumption DEF Init
<1>4. WordsInv  BY <1>3, NewObjValue DEF Init, WordsInv, WordsOK
<1> QED BY <1>1, <1>2, <1>4 DEF SettingsInv

\* It is inductive.
LEMMA NextKeepsSettings == SettingsInv /\ [Next]_vars => SettingsInv'
<1>1. ASSUME SettingsInv, UNCHANGED vars PROVE SettingsInv'
  <2>1. TypeInv'  BY <1>1, NextKeepsType DEF SettingsInv
  <2> QED BY <1>1, <2>1 DEF vars, disk, memory, ghosts, SettingsInv, PlaceInv, WordsInv, WordsOK, Own,
                            Forks, Key, Ask
<1>2. ASSUME SettingsInv, Next PROVE SettingsInv'
  <2>1. ASSUME NEW j \in Jobs, JobStep(j) PROVE SettingsInv'
    BY <1>2, <2>1, JobKeepsType, JobKeepsPlace, JobKeepsWords DEF SettingsInv
  <2>2. CASE (\E k \in Keys : ReapSession(k) \/ DeleteSession(k)) \/ RemoveTree \/ Restart
    BY <1>2, <2>2, SystemKeepsType, SystemKeepsPlace, SystemKeepsWords DEF SettingsInv
  <2> QED BY <1>2, <2>1, <2>2 DEF Next
<1> QED BY <1>1, <1>2

\* Every session is of the key it is under, and no session and no saved
\* conversation has words that are not its key's or, for a fork, of the keys
\* above.
THEOREM SettingsInvariant == Spec => []SettingsInv
  BY InitSettings, NextKeepsSettings, PTL DEF Spec

\* A session's conversation is its own and, for a fork, that of the sessions
\* above it: createSession gives every engine the transcript of its key, be it
\* empty, and none is left with what another session wrote to the workspace.
THEOREM ConversationsAreOwn == Spec => []ConversationIsOnesOwn
<1>1. SettingsInv => ConversationIsOnesOwn
  <2> SUFFICES ASSUME SettingsInv, NEW k \in Keys, live[k] # None, NEW w \in obj[live[k]].words
               PROVE  w = k \/ (w \in Ancestors(k) /\ \E j \in Jobs : Key(j) = k /\ Forks(j))
    BY DEF ConversationIsOnesOwn
  <2>1. live[k] \in Jobs /\ Key(live[k]) = k  BY DEF SettingsInv, TypeInv, TypeOK, PlaceInv
  <2>2. w \in Own(k)  BY <2>1 DEF SettingsInv, WordsInv, WordsOK
  <2> QED BY <2>2 DEF Own
<1> QED BY <1>1, SettingsInvariant, PTL

-----------------------------------------------------------------------------
(* Where a session comes from.                                             *)

\* A key that was heard of, and one that has come from nowhere else.
Heard(k) == origin[k].agent # None
Clean(k) == flags[k] \cap {"strayed", "renamed"} = {}

\* A row is there with its agent or it is empty.  Of a key nobody has heard of
\* nothing is recorded and nothing is there.  A key has the lineage it spells.
\* What is recorded of it, or else what it says itself, is what it was made
\* with, and so is the session under it.
RowIsWhole(k) ==
  /\ row[k].known <=> row[k].agent # None
  /\ ~row[k].known => row[k] = NoRow
IsUnheard(k) ==
  ~Heard(k) =>
    /\ ~row[k].known /\ live[k] = None
    /\ origin[k] = [agent |-> None, parent |-> None, depth |-> 0, roots |-> Home]
HasLineage(k) ==
  Heard(k) =>
    /\ origin[k].parent = Above[k]
    /\ Above[k] = None => origin[k].depth = 0 /\ origin[k].roots = Home
IsRecorded(k) ==
  Clean(k) =>
    /\ row[k].known => OriginOf(row[k]) = origin[k]
    /\ Heard(k) /\ ~row[k].known /\ Above[k] = None => origin[k].agent = situation.named
    /\ live[k] # None => OriginOf(obj[live[k]]) = origin[k]
KeyOrigin(k) == RowIsWhole(k) /\ IsUnheard(k) /\ HasLineage(k) /\ IsRecorded(k)


\* A rebuild is of a key that was heard of, starts where sessions start and ends
\* with what the key was made with.  The key of a child that is not stored is
\* new, and what is recorded of one that is stored is what it was stored with.
BuildPcs == {"lock", "get", "origin", "choice", "engine", "restore", "publish"}
IsRebuilt(j) ==
  ~IsChild(j) /\ pc[j] \in BuildPcs =>
    /\ Heard(Key(j))
    /\ pc[j] \in {"lock", "get", "origin"} => obj[j].roots = Home
    /\ Clean(Key(j)) =>
         /\ obj[j].agent = origin[Key(j)].agent
         /\ Above[Key(j)] # None => row[Key(j)].known
         /\ pc[j] \in {"choice", "engine", "restore", "publish"} => obj[j].roots = origin[Key(j)].roots
         /\ pc[j] = "publish" => OriginOf(obj[j]) = origin[Key(j)]
IsMinted(j) ==
  /\ IsChild(j) /\ pc[j] \in ChildPcs \cup {"store"} => ~Heard(Key(j))
  /\ pc[j] = "store" => obj[j].parent = Above[Key(j)]
  /\ pc[j] = "record" => OriginOf(obj[j]) = origin[Key(j)]
JobOrigin(j) == IsRebuilt(j) /\ IsMinted(j)
OriginInv == (\A k \in Keys : KeyOrigin(k)) /\ (\A j \in Jobs : JobOrigin(j))

\* What a step makes of sessions leaves where they come from, but for the one
\* that is being started or built.
LEMMA ObjStays ==
  ASSUME TypeInv, NEW j \in Jobs, JobStep(j), NEW i \in Jobs,
         i # j \/ pc[j] \notin {"idle", "load", "origin", "restore", "inherit"}
  PROVE  OriginOf(obj'[i]) = OriginOf(obj[i])
<1>0. obj \in [Jobs -> Objects]  BY DEF TypeInv, TypeOK
<1>1. ASSUME NEW s, obj' = [obj EXCEPT ![j] = s], i # j PROVE OriginOf(obj'[i]) = OriginOf(obj[i])
  BY <1>0, <1>1
<1>2. ASSUME NEW x \in Jobs, NEW s, obj' = [obj EXCEPT ![x] = s], OriginOf(s) = OriginOf(obj[x])
      PROVE  OriginOf(obj'[i]) = OriginOf(obj[i])
  BY <1>0, <1>2
<1>3. CASE obj' = obj  BY <1>3
<1>4. CASE Starts(j) /\ obj' # obj
  <2>1. i # j  BY <1>4 DEF Starts, StartRun, ResumeLoad, Goes
  <2>2. PICK a \in Agents : obj' = [obj EXCEPT ![j] = NewObj(a)]
    BY <1>4, StartedValue DEF Starts
  <2> QED BY <1>1, <2>1, <2>2
<1>5. CASE (ReadOrigin(j) \/ Restore(j) \/ StartChild(j) \/ Inherit(j)) /\ obj' # obj
  <2>1. i # j  BY <1>5 DEF ReadOrigin, Restore, StartChild, Inherit, Goes
  <2>2. \E s \in Objects : obj' = [obj EXCEPT ![j] = s]
    <3>1. CASE ReadOrigin(j)  BY <1>5, <3>1, OriginReadValue
    <3>2. CASE Restore(j)  BY <3>2, RestoreValue
    <3>3. CASE Inherit(j)  BY <3>3, InheritValue
    <3>4. CASE StartChild(j)
      <4>1. pc \in [Jobs -> PCs]  BY DEF TypeInv, TypeOK
      <4>2. pc'[j] # "done"  BY <1>5, <3>4, <4>1 DEF StartChild
      <4> QED BY <3>4, <4>2, ChildValue
    <3> QED BY <1>5, <3>1, <3>2, <3>3, <3>4
  <2> QED BY <1>1, <2>1, <2>2
<1>6. CASE Apply(j)
  <2>1. PICK s \in Objects : at[j] \in Jobs /\ Kept(obj[at[j]], s) /\ obj' = [obj EXCEPT ![at[j]] = s]
    BY <1>6, AppliedValue
  <2> QED BY <1>2, <2>1 DEF Kept
<1>7. CASE ReadChoice(j)
  <2>1. PICK s \in Objects : Kept(obj[j], s) /\ obj' = [obj EXCEPT ![j] = s]
    BY <1>7, ChoiceReadValue
  <2> QED BY <1>2, <2>1 DEF Kept
<1>8. CASE BuildEngine(j)
  <2>1. PICK s \in Objects : OriginOf(s) = OriginOf(obj[j]) /\ obj' = [obj EXCEPT ![j] = s]
    BY <1>8, BuiltValue
  <2> QED BY <1>2, <2>1
<1>9. CASE Turn(j)
  <2>1. PICK s \in Objects : /\ at[j] \in Jobs /\ OriginOf(s) = OriginOf(obj[at[j]])
                             /\ obj' = [obj EXCEPT ![at[j]] = s]
    BY <1>9, TurnValue
  <2> QED BY <1>2, <2>1
<1>10. CASE Records(j) \/ Moves(j)
  <2>1. obj' = obj
    BY <1>10
       DEF Records, Create, ResumePrompt, ResumeModel, RecordChild, RecordChoice, memory,
           Moves, TakeLock, GetSession, Config, RefuseEngine, Publish, StoreChild, StartTask, Persist
  <2> QED BY <2>1
<1>11. CASE Shapes(j)
  BY <1>3, <1>5, <1>6, <1>7, <1>8, <1>9, <1>11 DEF Shapes
<1>12. Starts(j) \/ Shapes(j) \/ Records(j) \/ Moves(j)  BY JobSteps
<1> QED BY <1>3, <1>4, <1>10, <1>11, <1>12

\* A row that is there, and one of another key, keep what they say of where a
\* session comes from.
LEMMA RowStays ==
  ASSUME TypeInv, NEW j \in Jobs, JobStep(j), NEW k \in Keys,
         k # Key(j) \/ row[k].known \/ (~Create(j) /\ ~StartRun(j) /\ ~RecordChild(j))
  PROVE  /\ row'[k].known = row[k].known /\ OriginOf(row'[k]) = OriginOf(row[k])
         /\ ~row[k].known => row'[k] = row[k]
<1>0. row \in [Keys -> Rows]  BY DEF TypeInv, TypeOK
<1>1. CASE SameOrigins(row, row')  BY <1>1 DEF SameOrigins
<1>2. CASE ~SameOrigins(row, row')
  <2>1. \/ /\ Create(j)
           /\ SameOrigins(UpsertSession(Key(j), Ask(j).agent, None, 0, Home), row')
        \/ /\ StartRun(j)
           /\ \E a \in Agents : row' = UpsertSession(Key(j), a, None, 0, Home)
        \/ /\ RecordChild(j)
           /\ row' = UpsertSession(Key(j), obj[j].agent, obj[j].parent, obj[j].depth, obj[j].roots)
    BY <1>2, RowValue
  <2>2. k # Key(j) \/ row[k].known  BY <2>1
  <2>3. \A a, p, d, r : UpsertSession(Key(j), a, p, d, r)[k] = row[k]
    BY <1>0, <2>2 DEF UpsertSession
  <2>4. CASE Create(j) /\ SameOrigins(UpsertSession(Key(j), Ask(j).agent, None, 0, Home), row')
    <3>1. UpsertSession(Key(j), Ask(j).agent, None, 0, Home)[k] = row[k]
      BY <2>3
    <3> QED BY <2>4, <3>1 DEF SameOrigins
  <2>5. CASE \E a \in Agents : row' = UpsertSession(Key(j), a, None, 0, Home)
    BY <2>3, <2>5
  <2>6. CASE row' = UpsertSession(Key(j), obj[j].agent, obj[j].parent, obj[j].depth, obj[j].roots)
    BY <2>3, <2>6
  <2> QED BY <2>1, <2>4, <2>5, <2>6
<1> QED BY <1>1, <1>2

\* What was heard of a key stays, and only the request that mints it is the first
\* to be heard of for a child's.
LEMMA HeardStays ==
  ASSUME TypeInv, OriginInv, NEW j \in Jobs, JobStep(j), NEW k \in Keys
  PROVE  /\ Heard(k) \/ k # Key(j) => origin'[k] = origin[k]
         /\ Above[k] # None /\ ~StoreChild(j) => origin'[k] = origin[k]
<1>0. origin \in [Keys -> Origins] /\ Key(j) \in Keys  BY AskType DEF TypeInv, TypeOK
<1>1. CASE origin' = origin  BY <1>1
<1>2. CASE /\ Create(j) \/ StartRun(j) \/ ResumeLoad(j)
           /\ origin[Key(j)].agent = None
           /\ \E a \in Agents : origin' = [origin EXCEPT ![Key(j)].agent = a]
  <2>1. \A x \in Keys \ {Key(j)} : origin'[x] = origin[x]  BY <1>0, <1>2
  <2>2. ASSUME Above[Key(j)] # None PROVE origin' = origin
    <3>1. CASE Create(j)  BY <2>2, <3>1, AskType DEF Create, TypeInv, TypeOK
    <3>2. CASE StartRun(j)  BY <1>2, <2>2, <3>2 DEF StartRun
    <3>3. CASE ResumeLoad(j)
      <4>1. ~row[Key(j)].known  BY <1>0, <1>2 DEF OriginInv, KeyOrigin, IsUnheard, Heard
      <4>2. row[Key(j)].agent = None  BY <1>0, <4>1 DEF OriginInv, KeyOrigin, RowIsWhole
      <4>3. live[Key(j)] = None  BY <1>0, <1>2 DEF OriginInv, KeyOrigin, IsUnheard, Heard
      <4>4. AgentForSession(Key(j)) = None
        BY <2>2, <4>2, <4>3 DEF AgentForSession, SessionAgent, AgentInKey
      <4> QED BY <3>3, <4>4 DEF ResumeLoad
    <3> QED BY <1>2, <3>1, <3>2, <3>3
  <2> QED BY <1>2, <2>1, <2>2 DEF Heard
<1>3. CASE StoreChild(j) /\ origin' = [origin EXCEPT ![Key(j)] = OriginOf(obj[j])]
  <2>1. pc[j] = "store"  BY <1>3 DEF StoreChild, Goes
  <2>2. ~Heard(Key(j))
    BY <2>1 DEF TypeInv, AtInv, OnlyChildPcs, OriginInv, JobOrigin, IsMinted
  <2> QED BY <1>0, <1>3, <2>2
<1> QED BY <1>1, <1>2, <1>3, OriginValue

\* A key of which nothing has changed.
LEMMA KeyStays ==
  ASSUME NEW k \in Keys, KeyOrigin(k), situation' = situation, origin'[k] = origin[k],
         row'[k].known = row[k].known, row'[k].agent = row[k].agent,
         ~row[k].known => row'[k] = row[k],
         Clean(k)' => Clean(k) /\ (row[k].known => OriginOf(row'[k]) = OriginOf(row[k])),
         live'[k] # None => live'[k] = live[k] /\ OriginOf(obj'[live[k]]) = OriginOf(obj[live[k]])
  PROVE  KeyOrigin(k)'
<1>1. RowIsWhole(k)'  BY DEF KeyOrigin, RowIsWhole
<1>2. IsUnheard(k)'  BY DEF KeyOrigin, IsUnheard, Heard
<1>3. HasLineage(k)'  BY DEF KeyOrigin, HasLineage, Heard
<1>4. IsRecorded(k)'
  <2> SUFFICES ASSUME Clean(k)'
               PROVE  /\ row'[k].known => OriginOf(row'[k]) = origin'[k]
                      /\ Heard(k)' /\ ~row'[k].known /\ Above[k] = None
                           => origin'[k].agent = situation'.named
                      /\ live'[k] # None => OriginOf(obj'[live'[k]]) = origin'[k]
    BY DEF IsRecorded
  <2>1. Clean(k)  OBVIOUS
  <2> QED BY <2>1 DEF KeyOrigin, IsRecorded, Heard
<1> QED BY <1>1, <1>2, <1>3, <1>4 DEF KeyOrigin

\* A request that stands where it stood.
LEMMA JobStays ==
  ASSUME NEW i \in Jobs, JobOrigin(i), situation' = situation, pc'[i] = pc[i],
         OriginOf(obj'[i]) = OriginOf(obj[i]),
         Heard(Key(i)) => origin'[Key(i)] = origin[Key(i)],
         IsChild(i) /\ pc[i] \in ChildPcs \cup {"store"} /\ ~Heard(Key(i))
           => origin'[Key(i)] = origin[Key(i)],
         pc[i] = "record" => origin'[Key(i)] = origin[Key(i)],
         Clean(Key(i))' => Clean(Key(i)),
         Clean(Key(i))' /\ Above[Key(i)] # None /\ row[Key(i)].known => row'[Key(i)].known
  PROVE  JobOrigin(i)'
<1>1. Key(i)' = Key(i) /\ (IsChild(i)' <=> IsChild(i))  BY DEF Key, IsChild, Ask
<1>2. obj'[i].agent = obj[i].agent /\ obj'[i].roots = obj[i].roots /\ obj'[i].parent = obj[i].parent
  BY DEF OriginOf
<1>3. IsRebuilt(i)'
  <2> SUFFICES ASSUME ~IsChild(i), pc[i] \in BuildPcs
               PROVE  /\ origin'[Key(i)].agent # None
                      /\ pc[i] \in {"lock", "get", "origin"} => obj'[i].roots = Home
                      /\ Clean(Key(i))' =>
                           /\ obj'[i].agent = origin'[Key(i)].agent
                           /\ Above[Key(i)] # None => row'[Key(i)].known
                           /\ pc[i] \in {"choice", "engine", "restore", "publish"}
                                => obj'[i].roots = origin'[Key(i)].roots
                           /\ pc[i] = "publish" => OriginOf(obj'[i]) = origin'[Key(i)]
    BY <1>1 DEF IsRebuilt, Heard, Clean
  <2>1. origin'[Key(i)] = origin[Key(i)] /\ Heard(Key(i))  BY DEF JobOrigin, IsRebuilt
  <2> QED BY <1>2, <2>1 DEF JobOrigin, IsRebuilt, Heard
<1>4. IsMinted(i)'  BY <1>1, <1>2 DEF JobOrigin, IsMinted, Heard
<1> QED BY <1>3, <1>4 DEF JobOrigin

\* Marks are not taken back.
LEMMA CleanStays ==
  ASSUME TypeInv, NEW j \in Jobs, JobStep(j), NEW k \in Keys PROVE Clean(k)' => Clean(k)
  BY FlagsValue DEF Clean

\* The session under a key, where it stays, comes from where it came from.
LEMMA LiveStays ==
  ASSUME TypeInv, PlaceInv, NEW j \in Jobs, JobStep(j), NEW k \in Keys,
         k # Key(j) \/ (~Publish(j) /\ ~StoreChild(j)), live'[k] # None
  PROVE  live'[k] = live[k] /\ OriginOf(obj'[live[k]]) = OriginOf(obj[live[k]])
<1>1. live'[k] = live[k]  BY LiveValue
<1>2. live[k] \in Jobs /\ pc[live[k]] \in MadePcs  BY <1>1 DEF PlaceInv, TypeInv, TypeOK
<1> QED BY <1>1, <1>2, ObjStays DEF MadePcs

\* The step of a request is not felt at other keys.
LEMMA OtherKeysStay ==
  ASSUME TypeInv, PlaceInv, OriginInv, NEW j \in Jobs, JobStep(j), NEW k \in Keys,
         \/ k # Key(j)
         \/ /\ ~Create(j) /\ ~StartRun(j) /\ ~RecordChild(j)
            /\ ~ResumeLoad(j) /\ ~StoreChild(j) /\ ~Publish(j)
  PROVE  KeyOrigin(k)'
<1>1. KeyOrigin(k) /\ situation' = situation  BY JobMoves DEF OriginInv
<1>2. origin'[k] = origin[k]
  <2>1. CASE k # Key(j)  BY <2>1, HeardStays
  <2>2. CASE k = Key(j)  BY <2>2, OriginValue
  <2> QED BY <2>1, <2>2
<1>3. /\ row'[k].known = row[k].known /\ OriginOf(row'[k]) = OriginOf(row[k])
      /\ ~row[k].known => row'[k] = row[k]
  BY RowStays
<1>4. row'[k].agent = row[k].agent  BY <1>3 DEF OriginOf
<1>5. Clean(k)' => Clean(k)  BY CleanStays
<1>6. live'[k] # None => live'[k] = live[k] /\ OriginOf(obj'[live[k]]) = OriginOf(obj[live[k]])
  BY LiveStays
<1> QED BY <1>1, <1>2, <1>3, <1>4, <1>5, <1>6, KeyStays

\* Nor by other requests.
LEMMA OtherJobsStay ==
  ASSUME TypeInv, OriginInv, NEW j \in Jobs, JobStep(j), NEW i \in Jobs \ {j}
  PROVE  JobOrigin(i)'
<1>0. Key(i) \in Keys /\ obj[i] \in Objects /\ None \notin Agents
  BY AskType, SettingsAssumption DEF TypeInv, TypeOK
<1>1. JobOrigin(i) /\ situation' = situation /\ pc'[i] = pc[i]  BY JobMoves DEF OriginInv
<1>2. OriginOf(obj'[i]) = OriginOf(obj[i])  BY ObjStays
<1>3. Heard(Key(i)) => origin'[Key(i)] = origin[Key(i)]  BY <1>0, HeardStays
<1>4. ASSUME IsChild(i), pc[i] \in ChildPcs \cup {"store"}, ~Heard(Key(i))
      PROVE  origin'[Key(i)] = origin[Key(i)]
  <2>1. Above[Key(i)] # None
    BY <1>0, <1>4, AskType, SettingsAssumption DEF TypeInv, TypeOK
  <2>2. CASE StoreChild(j)
    <3>1. IsChild(j)  BY <2>2 DEF StoreChild, Goes, TypeInv, AtInv, OnlyChildPcs
    <3>2. Key(i) # Key(j)  BY <1>4, <3>1, AskType DEF TypeInv, TypeOK
    <3> QED BY <1>0, <3>2, HeardStays
  <2> QED BY <1>0, <2>1, <2>2, HeardStays
<1>5. pc[i] = "record" => origin'[Key(i)] = origin[Key(i)]
  <2>1. pc[i] = "record" => Heard(Key(i))
    BY <1>0, <1>1, ObjectParts DEF JobOrigin, IsMinted, OriginOf, Heard
  <2> QED BY <1>3, <2>1
<1>6. Clean(Key(i))' => Clean(Key(i))
  <2>1. Key(i)' = Key(i)  BY <1>1 DEF Key, Ask
  <2> QED BY <1>0, <2>1, FlagsValue DEF Clean
<1>7. row[Key(i)].known => row'[Key(i)].known  BY <1>0, RowStays
<1> QED BY <1>1, <1>2, <1>3, <1>4, <1>5, <1>6, <1>7, JobStays

\* What is under a key, and where that comes from, when a step starts a session
\* of another request or of none.
LEMMA StartedElsewhere ==
  ASSUME TypeInv, PlaceInv, NEW j \in Jobs, JobStep(j), NEW k \in Keys,
         ~Publish(j) /\ ~StoreChild(j), live[k] # None
  PROVE  OriginOf(obj'[live[k]]) = OriginOf(obj[live[k]])
<1>1. live[k] \in Jobs /\ pc[live[k]] \in MadePcs  BY DEF PlaceInv, TypeInv, TypeOK
<1> QED BY <1>1, ObjStays DEF MadePcs

\* A new session is made with what is recorded of it.
LEMMA CreateKeepsOrigin ==
  ASSUME TypeInv, OriginInv, NEW j \in Jobs, Create(j), NEW k \in Keys, k = Key(j)
  PROVE  KeyOrigin(k)'
<1> DEFINE new == Root(Ask(j).agent)
           rows == UpsertSession(k, Ask(j).agent, None, 0, Home)
<1>0. /\ k \in Keys /\ Ask(j).agent \in Agents /\ None \notin Agents /\ Above[k] = None
      /\ row \in [Keys -> Rows] /\ origin \in [Keys -> Origins]
      /\ None \in Keys \cup {None} /\ 0 \in Nat /\ Home \in {Home, Tree}
  BY AskType, SettingsAssumption DEF Create, TypeInv, TypeOK
<1>1. ~Heard(k) /\ live' = live /\ origin' = [origin EXCEPT ![k].agent = Ask(j).agent]
  BY DEF Create, Heard, memory
<1>2. /\ ~row[k].known /\ live[k] = None
      /\ origin[k] = [agent |-> None, parent |-> None, depth |-> 0, roots |-> Home]
  BY <1>0, <1>1 DEF OriginInv, KeyOrigin, IsUnheard
<1>3. origin'[k] = new  BY <1>0, <1>1, <1>2 DEF Root
<1>4. row'[k].known /\ OriginOf(row'[k]) = new
  <2>1. rows = UpsertSession(k, Ask(j).agent, None, 0, Home)  OBVIOUS
  <2>2. SameOrigins(rows, row')  BY CreatedRow
  <2> HIDE DEF rows
  <2>3. rows[k].known /\ OriginOf(rows[k]) = new
    BY <1>0, <1>2, <2>1, RootValue
  <2> HIDE DEF new
  <2> QED BY <1>0, <2>2, <2>3 DEF SameOrigins
<1>5. row'[k].agent = Ask(j).agent  BY <1>4 DEF OriginOf, Root
<1>6. /\ RowIsWhole(k)' /\ IsUnheard(k)' /\ HasLineage(k)' /\ IsRecorded(k)'
  BY <1>0, <1>1, <1>2, <1>3, <1>4, <1>5 DEF RowIsWhole, IsUnheard, HasLineage, IsRecorded, Heard, Root
<1> QED BY <1>6 DEF KeyOrigin

\* A run inserts the row that is missing with the agent it runs, and starts a
\* session of that agent.
LEMMA StartRunKeepsOrigin ==
  ASSUME TypeInv, PlaceInv, OriginInv, NEW j \in Jobs, StartRun(j), NEW k \in Keys, k = Key(j)
  PROVE  KeyOrigin(k)' /\ JobOrigin(j)'
<1> DEFINE agent == IF Ask(j).agent # None THEN Ask(j).agent ELSE AgentForSession(k)
           new == Root(agent)
<1>0. /\ k \in Keys /\ agent \in Agents \cup {None} /\ None \notin Agents \cup Jobs /\ pc \in [Jobs -> PCs]
      /\ row \in [Keys -> Rows] /\ origin \in [Keys -> Origins] /\ obj \in [Jobs -> Objects]
      /\ flags \in [Keys -> SUBSET Marks] /\ live[k] \in Jobs \cup {None}
      /\ None \in Keys \cup {None} /\ 0 \in Nat /\ Home \in {Home, Tree}
  BY AskType, AgentType, SettingsAssumption DEF TypeInv, TypeOK, Marks
<1>1. /\ JobStep(j) /\ situation' = situation /\ live' = live /\ pc[j] = "idle"
      /\ Ask(j).kind = "run"
  BY DEF StartRun, JobStep
<1>2. KeyOrigin(k)  BY <1>0 DEF OriginInv
<1>3. live[k] # None => OriginOf(obj'[live[k]]) = OriginOf(obj[live[k]])
  <2>1. ~Publish(j) /\ ~StoreChild(j)  BY <1>1 DEF Publish, StoreChild, Goes
  <2> QED BY <1>0, <1>1, <2>1, StartedElsewhere
<1>4. Clean(k)' => Clean(k)
  BY <1>0, <1>1, CleanStays
<1>5. CASE agent = None
  <2>1. row' = row /\ origin' = origin /\ pc'[j] = "done"  BY <1>0, <1>5 DEF StartRun, ghosts
  <2>2. JobOrigin(j)'
    BY <2>1 DEF JobOrigin, IsRebuilt, IsMinted, BuildPcs, ChildPcs
  <2> QED BY <1>0, <1>1, <1>2, <1>3, <1>4, <2>1, <2>2, KeyStays
<1>6. CASE agent # None
  <2>1. /\ agent \in Agents /\ pc'[j] = "lock" /\ row' = UpsertSession(k, agent, None, 0, Home)
        /\ obj' = [obj EXCEPT ![j] = NewObj(agent)]
        /\ origin' = IF ~row[k].known /\ Above[k] = None /\ origin[k].agent = None
                     THEN [origin EXCEPT ![k].agent = agent] ELSE origin
        /\ Above[k] # None => origin[k].agent # None
        /\ "strayed" \notin flags'[k] => row[k].known \/ Above[k] = None
        /\ "renamed" \notin flags'[k] => origin'[k].agent = agent
    BY <1>0, <1>6 DEF StartRun
  <2>2. Clean(k)' => (row[k].known \/ Above[k] = None) /\ origin'[k].agent = agent
    BY <2>1 DEF Clean
  <2> HIDE DEF agent
  <2>3. /\ row'[k].known /\ (row[k].known => row'[k] = row[k])
        /\ ~row[k].known => OriginOf(row'[k]) = new
    BY <1>0, <2>1, RootValue
  <2>4. row[k].known => Heard(k) /\ origin' = origin
    BY <1>2, <2>1 DEF KeyOrigin, IsUnheard, Heard
  <2>5. origin'[k].agent # None /\ (Heard(k) => origin'[k] = origin[k])
    BY <1>0, <2>1, <2>4 DEF Heard
  <2>6. KeyOrigin(k)'
    <3>1. CASE row[k].known
      BY <1>0, <1>1, <1>2, <1>3, <1>4, <2>3, <2>4, <3>1, KeyStays
    <3>2. CASE ~row[k].known
      <4>0. row'[k].agent = agent  BY <2>3, <3>2 DEF OriginOf, Root
      <4>1. RowIsWhole(k)' /\ IsUnheard(k)'
        BY <1>0, <2>1, <2>3, <2>5, <4>0 DEF RowIsWhole, IsUnheard, Heard
      <4>2. CASE Above[k] # None
        <5>1. Heard(k) /\ origin'[k] = origin[k]  BY <2>1, <2>5, <4>2 DEF Heard
        <5>2. HasLineage(k)'  BY <1>2, <5>1 DEF KeyOrigin, HasLineage, Heard
        <5>3. IsRecorded(k)'  BY <2>2, <3>2, <4>2 DEF IsRecorded, Clean
        <5> QED BY <4>1, <5>2, <5>3 DEF KeyOrigin
      <4>3. CASE Above[k] = None
        <5>1. /\ origin'[k].parent = None /\ origin'[k].depth = 0 /\ origin'[k].roots = Home
              /\ origin'[k] = [agent |-> origin'[k].agent, parent |-> None, depth |-> 0, roots |-> Home]
          <6>1. CASE Heard(k)
            <7>1. origin[k] \in Origins /\ origin'[k] = origin[k]  BY <1>0, <2>5, <6>1
            <7>2. origin[k].parent = None /\ origin[k].depth = 0 /\ origin[k].roots = Home
              BY <1>2, <4>3, <6>1 DEF KeyOrigin, HasLineage
            <7> QED BY <7>1, <7>2 DEF Origins
          <6>2. CASE ~Heard(k)
            <7>1. origin[k] = [agent |-> None, parent |-> None, depth |-> 0, roots |-> Home]
              BY <1>2, <6>2 DEF KeyOrigin, IsUnheard
            <7>2. origin' = [origin EXCEPT ![k].agent = agent]  BY <2>1, <3>2, <4>3, <6>2 DEF Heard
            <7> QED BY <1>0, <7>1, <7>2
          <6> QED BY <6>1, <6>2
        <5>2. HasLineage(k)'  BY <4>3, <5>1 DEF HasLineage
        <5>3. ASSUME Clean(k)' PROVE OriginOf(row'[k]) = origin'[k]
          BY <2>2, <2>3, <3>2, <5>1, <5>3 DEF Root
        <5>4. ASSUME Clean(k)', live[k] # None PROVE OriginOf(obj[live[k]]) = origin'[k]
          <6>1. Heard(k)  BY <1>2, <5>4 DEF KeyOrigin, IsUnheard
          <6> QED BY <1>2, <1>4, <2>5, <5>4, <6>1 DEF KeyOrigin, IsRecorded
        <5>5. IsRecorded(k)'  BY <1>1, <1>3, <2>3, <5>3, <5>4 DEF IsRecorded
        <5> QED BY <4>1, <5>2, <5>5 DEF KeyOrigin
      <4> QED BY <4>2, <4>3
    <3> QED BY <3>1, <3>2
  <2>7. JobOrigin(j)'
    <3>1. obj'[j].agent = agent /\ obj'[j].roots = Home  BY <1>0, <2>1, NewObjValue
    <3>2. Key(j)' = k  BY <1>1 DEF Key, Ask
    <3>3. IsRebuilt(j)'
      BY <2>1, <2>2, <2>3, <2>5, <3>1, <3>2 DEF IsRebuilt, Heard
    <3>4. IsMinted(j)'  BY <2>1 DEF IsMinted, ChildPcs
    <3> QED BY <3>3, <3>4 DEF JobOrigin
  <2> QED BY <2>6, <2>7
<1> QED BY <1>5, <1>6

\* A resume that builds starts a session of the agent that is recorded, or of the
\* one the key names.
LEMMA ResumeLoadKeepsOrigin ==
  ASSUME TypeInv, PlaceInv, OriginInv, NEW j \in Jobs, ResumeLoad(j), NEW k \in Keys, k = Key(j)
  PROVE  KeyOrigin(k)' /\ JobOrigin(j)'
<1> DEFINE agent == AgentForSession(k)
<1>0. /\ agent \in Agents \cup {None} /\ None \notin Agents \cup Jobs /\ pc \in [Jobs -> PCs]
      /\ row[k] \in Rows /\ origin \in [Keys -> Origins] /\ obj \in [Jobs -> Objects]
      /\ live[k] \in Jobs \cup {None}
  BY AgentType, SettingsAssumption DEF TypeInv, TypeOK
<1>1. /\ JobStep(j) /\ situation' = situation /\ live' = live /\ row' = row /\ flags' = flags
      /\ pc[j] = "load"
  BY DEF ResumeLoad, JobStep, Goes, disk
<1>2. KeyOrigin(k)  BY DEF OriginInv
<1>3. live[k] # None => OriginOf(obj'[live[k]]) = OriginOf(obj[live[k]])
  <2>1. ~Publish(j) /\ ~StoreChild(j)  BY <1>1 DEF Publish, StoreChild, Goes
  <2> QED BY <1>1, <2>1, StartedElsewhere
<1>4. Clean(k)' => Clean(k)  BY <1>1 DEF Clean
<1>5. CASE live[k] # None \/ agent = None
  <2>1. origin' = origin /\ pc'[j] \in {"apply", "done"}
    BY <1>0, <1>5 DEF ResumeLoad, Goes
  <2>2. JobOrigin(j)'
    BY <2>1 DEF JobOrigin, IsRebuilt, IsMinted, BuildPcs, ChildPcs
  <2> QED BY <1>1, <1>2, <1>3, <1>4, <2>1, <2>2, KeyStays
<1>6. CASE live[k] = None /\ agent # None
  <2>1. /\ agent \in Agents /\ pc'[j] = "origin" /\ obj' = [obj EXCEPT ![j] = NewObj(agent)]
        /\ origin' = IF ~Heard(k) THEN [origin EXCEPT ![k].agent = agent] ELSE origin
    BY <1>0, <1>6 DEF ResumeLoad, Goes, Heard
  <2>2. \/ row[k].known /\ agent = row[k].agent
        \/ ~row[k].known /\ Above[k] = None /\ agent = situation.named
    <3>1. row[k].known <=> row[k].agent # None  BY <1>2 DEF KeyOrigin, RowIsWhole
    <3> QED BY <1>6, <3>1 DEF AgentForSession, SessionAgent, AgentInKey
  <2> HIDE DEF agent
  <2>3. KeyOrigin(k)' /\ origin'[k].agent # None
    <3>1. CASE Heard(k)
      BY <1>1, <1>2, <1>3, <1>4, <2>1, <3>1, KeyStays DEF Heard
    <3>2. CASE ~Heard(k)
      <4>1. /\ ~row[k].known /\ origin'[k] = Root(agent)
        BY <1>0, <1>2, <2>1, <3>2 DEF KeyOrigin, IsUnheard, Root
      <4>2. origin'[k].agent = agent /\ origin'[k].parent = None /\ origin'[k].depth = 0
            /\ origin'[k].roots = Home
        BY <4>1 DEF Root
      <4>3. RowIsWhole(k)' /\ IsUnheard(k)' /\ HasLineage(k)' /\ IsRecorded(k)'
        BY <1>0, <1>1, <1>2, <1>6, <2>1, <2>2, <4>1, <4>2
           DEF KeyOrigin, RowIsWhole, IsUnheard, HasLineage, IsRecorded, Heard
      <4> QED BY <1>0, <2>1, <4>2, <4>3 DEF KeyOrigin
    <3> QED BY <3>1, <3>2
  <2>4. Clean(k) => origin'[k].agent = agent /\ (Above[k] # None => row[k].known)
    <3> SUFFICES ASSUME Clean(k) PROVE origin'[k].agent = agent
      BY <2>2
    <3>1. CASE ~Heard(k)  BY <1>0, <2>1, <3>1 DEF Origins
    <3>2. CASE Heard(k) /\ row[k].known
      <4>1. OriginOf(row[k]) = origin[k]  BY <1>2, <3>2 DEF KeyOrigin, IsRecorded
      <4> QED BY <2>1, <2>2, <3>2, <4>1 DEF OriginOf
    <3>3. CASE Heard(k) /\ ~row[k].known
      BY <1>2, <2>1, <2>2, <3>3 DEF KeyOrigin, IsRecorded
    <3> QED BY <3>1, <3>2, <3>3
  <2>5. JobOrigin(j)'
    <3>1. obj'[j].agent = agent /\ obj'[j].roots = Home  BY <1>0, <2>1, NewObjValue
    <3>2. Key(j)' = k  BY <1>1 DEF Key, Ask
    <3>3. IsRebuilt(j)'
      BY <1>1, <1>4, <2>1, <2>3, <2>4, <3>1, <3>2 DEF IsRebuilt, Heard
    <3>4. IsMinted(j)'
      <4>1. ~IsChild(j)  BY <1>1 DEF TypeInv, AtInv, RequestPcs
      <4>2. ~IsChild(j)'  BY <1>1, <4>1 DEF IsChild, Ask
      <4> QED BY <2>1, <4>2 DEF IsMinted
    <3> QED BY <3>3, <3>4 DEF JobOrigin
  <2> QED BY <2>3, <2>5
<1> QED BY <1>5, <1>6

\* What is built for a key and arrives first is what the key was made with.
LEMMA PublishKeepsOrigin ==
  ASSUME TypeInv, PlaceInv, OriginInv, NEW j \in Jobs, Publish(j), NEW k \in Keys, k = Key(j)
  PROVE  KeyOrigin(k)'
<1>0. live \in [Keys -> Jobs \cup {None}]  BY DEF TypeInv, TypeOK
<1>1. /\ situation' = situation /\ row' = row /\ obj' = obj /\ origin' = origin /\ pc[j] = "publish"
      /\ JobStep(j)
  BY DEF Publish, Goes, disk, JobStep
<1>2. ~IsChild(j)  BY <1>1 DEF TypeInv, AtInv, RequestPcs
<1>3. /\ Heard(k) /\ (Clean(k) => OriginOf(obj[j]) = origin[k])
  BY <1>1, <1>2 DEF OriginInv, JobOrigin, IsRebuilt, BuildPcs
<1>4. Clean(k)' => Clean(k)  BY <1>1, CleanStays
<1>5. live'[k] = IF live[k] = None THEN j ELSE live[k]  BY <1>0 DEF Publish
<1>6. KeyOrigin(k)  BY DEF OriginInv
<1>7. RowIsWhole(k)' /\ IsUnheard(k)' /\ HasLineage(k)'
  BY <1>1, <1>3, <1>6 DEF KeyOrigin, RowIsWhole, IsUnheard, HasLineage, Heard
<1>8. IsRecorded(k)'
  BY <1>1, <1>3, <1>4, <1>5, <1>6 DEF KeyOrigin, IsRecorded, Heard
<1> QED BY <1>7, <1>8 DEF KeyOrigin

\* A child's key is made with the child.
LEMMA StoreChildKeepsOrigin ==
  ASSUME TypeInv, PlaceInv, OriginInv, NEW j \in Jobs, StoreChild(j), NEW k \in Keys, k = Key(j)
  PROVE  KeyOrigin(k)' /\ JobOrigin(j)'
<1>0. /\ live \in [Keys -> Jobs \cup {None}] /\ origin \in [Keys -> Origins] /\ obj[j] \in Objects
      /\ pc \in [Jobs -> PCs] /\ situation \in Situations
  BY DEF TypeInv, TypeOK
<1>1. /\ situation' = situation /\ row' = row /\ obj' = obj /\ pc[j] = "store" /\ pc'[j] = "record"
      /\ live'[k] = j /\ origin'[k] = OriginOf(obj[j])
  BY <1>0 DEF StoreChild, Goes, disk
<1>2. IsChild(j)  BY <1>1 DEF TypeInv, AtInv, OnlyChildPcs
<1>3. ~Heard(k) /\ obj[j].parent = Above[k]
  BY <1>1, <1>2 DEF OriginInv, JobOrigin, IsMinted
<1>4. Above[k] # None  BY <1>0, <1>2, AskType, SettingsAssumption
<1>5. KeyOrigin(k) /\ ~row[k].known  BY <1>3 DEF OriginInv, KeyOrigin, IsUnheard
<1>6. obj[j].agent # None  BY <1>0, ObjectParts, SettingsAssumption
<1>7. RowIsWhole(k)' /\ IsUnheard(k)' /\ HasLineage(k)' /\ IsRecorded(k)'
  BY <1>1, <1>3, <1>4, <1>5, <1>6
     DEF KeyOrigin, RowIsWhole, IsUnheard, HasLineage, IsRecorded, Heard, OriginOf
<1>8. JobOrigin(j)'
  <2>1. Key(j)' = k  BY <1>1 DEF Key, Ask
  <2>2. IsRebuilt(j)' /\ IsMinted(j)'
    BY <1>1, <2>1 DEF IsRebuilt, IsMinted, BuildPcs, ChildPcs
  <2> QED BY <2>2 DEF JobOrigin
<1> QED BY <1>7, <1>8 DEF KeyOrigin

\* The row of a child says what the child was stored with.
LEMMA RecordChildKeepsOrigin ==
  ASSUME TypeInv, PlaceInv, OriginInv, NEW j \in Jobs, RecordChild(j), NEW k \in Keys, k = Key(j)
  PROVE  KeyOrigin(k)'
<1>0. /\ row \in [Keys -> Rows] /\ obj[j] \in Objects  BY DEF TypeInv, TypeOK
<1>1. /\ situation' = situation /\ live' = live /\ obj' = obj /\ origin' = origin /\ pc[j] = "record"
      /\ JobStep(j) /\ flags' = flags
      /\ row' = UpsertSession(k, obj[j].agent, obj[j].parent, obj[j].depth, obj[j].roots)
  BY DEF RecordChild, Goes, memory, ghosts, JobStep
<1>2. OriginOf(obj[j]) = origin[k]  BY <1>1 DEF OriginInv, JobOrigin, IsMinted
<1>3. /\ obj[j].agent \in Agents /\ obj[j].parent \in Keys \cup {None} /\ obj[j].depth \in Nat
      /\ obj[j].roots \in {Home, Tree} /\ None \notin Agents
  BY <1>0, ObjectParts, SettingsAssumption
<1>4. /\ row'[k].known /\ (row[k].known => row'[k] = row[k])
      /\ ~row[k].known => /\ row'[k].agent = obj[j].agent /\ row'[k].parent = obj[j].parent
                          /\ row'[k].depth = obj[j].depth /\ row'[k].roots = obj[j].roots
  <2> DEFINE s == obj[j]
             new == [NoRow EXCEPT !.known = TRUE, !.agent = s.agent, !.parent = s.parent,
                                  !.depth = s.depth, !.roots = s.roots]
  <2>1. /\ new.known /\ new.agent = s.agent /\ new.parent = s.parent
        /\ new.depth = s.depth /\ new.roots = s.roots
    BY DEF NoRow
  <2>2. row' = [row EXCEPT ![k] = IF row[k].known THEN row[k] ELSE new]  BY <1>1 DEF UpsertSession
  <2> HIDE DEF new
  <2> QED BY <1>0, <2>1, <2>2
<1>5. KeyOrigin(k)  BY DEF OriginInv
<1>6. Heard(k)  BY <1>2, <1>3 DEF OriginOf, Heard
<1>7. ~row[k].known => OriginOf(row'[k]) = origin[k] /\ row'[k].agent # None
  BY <1>2, <1>3, <1>4 DEF OriginOf
<1>8. RowIsWhole(k)' /\ IsUnheard(k)' /\ HasLineage(k)'
  BY <1>1, <1>4, <1>5, <1>6, <1>7 DEF KeyOrigin, RowIsWhole, IsUnheard, HasLineage, Heard
<1>9. IsRecorded(k)'
  BY <1>1, <1>4, <1>5, <1>7 DEF KeyOrigin, IsRecorded, Clean
<1> QED BY <1>8, <1>9 DEF KeyOrigin

\* A build reads what its key was made with, step by step.
LEMMA BuildKeepsOrigin ==
  ASSUME TypeInv, OriginInv, NEW j \in Jobs, NEW k \in Keys, k = Key(j),
         \/ TakeLock(j) \/ GetSession(j) \/ ReadOrigin(j) \/ ReadChoice(j) \/ BuildEngine(j) \/ Restore(j),
         pc'[j] \in BuildPcs, ~IsChild(j)
  PROVE  JobOrigin(j)'
<1>0. /\ pc \in [Jobs -> PCs] /\ obj \in [Jobs -> Objects] /\ row[k] \in Rows
      /\ origin[k] \in Origins
  BY DEF TypeInv, TypeOK
<1>1. /\ situation' = situation /\ row' = row /\ origin' = origin
  BY DEF TakeLock, GetSession, ReadOrigin, ReadChoice, BuildEngine, Restore, disk, ghosts
<1>2. Clean(k)' => Clean(k)
  <2>1. JobStep(j)  BY DEF JobStep
  <2> QED BY <2>1, CleanStays
<1>3. pc[j] \in BuildPcs
  BY DEF TakeLock, GetSession, ReadOrigin, ReadChoice, BuildEngine, Restore, Goes, BuildPcs
<1>4. KeyOrigin(k) /\ IsRebuilt(j)  BY DEF OriginInv, JobOrigin
<1>5. /\ Heard(k)
      /\ pc[j] \in {"lock", "get", "origin"} => obj[j].roots = Home
      /\ Clean(k) => /\ obj[j].agent = origin[k].agent
                     /\ Above[k] # None => row[k].known
                     /\ pc[j] \in {"choice", "engine", "restore"} => obj[j].roots = origin[k].roots
  BY <1>3, <1>4 DEF IsRebuilt
<1>6. Key(j)' = k /\ ~IsChild(j)'  BY <1>1 DEF Key, IsChild, Ask
<1>7. ASSUME Clean(k)
      PROVE  /\ row[k].known => row[k].roots = origin[k].roots /\ row[k].parent = origin[k].parent
                                /\ row[k].depth = origin[k].depth
             /\ ~row[k].known => origin[k] = Root(origin[k].agent) /\ row[k] = NoRow
  <2>1. row[k].known => OriginOf(row[k]) = origin[k]  BY <1>4, <1>7 DEF KeyOrigin, IsRecorded
  <2>2. ASSUME ~row[k].known PROVE origin[k] = Root(origin[k].agent) /\ row[k] = NoRow
    <3>1. Above[k] = None  BY <1>5, <1>7, <2>2
    <3>2. origin[k].parent = None /\ origin[k].depth = 0 /\ origin[k].roots = Home
      BY <1>4, <1>5, <3>1 DEF KeyOrigin, HasLineage
    <3>3. row[k] = NoRow  BY <1>4, <2>2 DEF KeyOrigin, RowIsWhole
    <3> QED BY <1>0, <3>2, <3>3 DEF Origins, Root
  <2> QED BY <2>1, <2>2 DEF OriginOf
<1>8. CASE TakeLock(j) \/ GetSession(j)
  <2>1. obj' = obj /\ pc[j] \in {"lock", "get"} /\ pc'[j] \in {"get", "origin"}
    BY <1>0, <1>8 DEF TakeLock, GetSession, Goes, BuildPcs
  <2>2. IsRebuilt(j)'  BY <1>1, <1>2, <1>5, <1>6, <2>1 DEF IsRebuilt, Heard
  <2>3. IsMinted(j)'  BY <1>6, <2>1 DEF IsMinted
  <2> QED BY <2>2, <2>3 DEF JobOrigin
<1>9. CASE ReadOrigin(j)
  <2>1. pc'[j] = "choice" /\ pc[j] = "origin"  BY <1>0, <1>9 DEF ReadOrigin, Goes, BuildPcs
  <2>2. /\ obj'[j].agent = obj[j].agent
        /\ obj'[j].roots = IF obj[j].roots # Home THEN obj[j].roots ELSE row[k].roots
    BY <1>0, <1>9, <2>1, OriginReadValue
  <2>3. obj'[j].roots = row[k].roots  BY <1>5, <2>1, <2>2
  <2>4. Clean(k) => row[k].roots = origin[k].roots
    <3>1. NoRow.roots = Home  BY DEF NoRow
    <3>2. \A a : Root(a).roots = Home  BY DEF Root
    <3>3. origin[k] = Root(origin[k].agent) => origin[k].roots = Home  BY <3>2
    <3> QED BY <1>7, <3>1, <3>3
  <2>5. IsRebuilt(j)'  BY <1>1, <1>2, <1>5, <1>6, <2>1, <2>2, <2>3, <2>4 DEF IsRebuilt, Heard
  <2>6. IsMinted(j)'  BY <1>6, <2>1 DEF IsMinted
  <2> QED BY <2>5, <2>6 DEF JobOrigin
<1>10. CASE ReadChoice(j) \/ BuildEngine(j)
  <2>1. /\ pc[j] \in {"choice", "engine"} /\ pc'[j] \in {"engine", "restore"}
    BY <1>0, <1>10 DEF ReadChoice, BuildEngine, Goes
  <2>2. OriginOf(obj'[j]) = OriginOf(obj[j])
    <3>1. JobStep(j)  BY <1>10 DEF JobStep
    <3> QED BY <2>1, <3>1, ObjStays
  <2>3. obj'[j].agent = obj[j].agent /\ obj'[j].roots = obj[j].roots  BY <2>2 DEF OriginOf
  <2>4. IsRebuilt(j)'  BY <1>1, <1>2, <1>5, <1>6, <2>1, <2>3 DEF IsRebuilt, Heard
  <2>5. IsMinted(j)'  BY <1>6, <2>1 DEF IsMinted
  <2> QED BY <2>4, <2>5 DEF JobOrigin
<1>11. CASE Restore(j)
  <2>1. /\ pc[j] = "restore" /\ pc'[j] = "publish"
    BY <1>0, <1>11 DEF Restore, Goes, BuildPcs
  <2>2. /\ obj'[j].agent = obj[j].agent /\ obj'[j].roots = obj[j].roots
        /\ obj'[j].parent = row[k].parent /\ obj'[j].depth = row[k].depth
    BY <1>0, <1>11, RestoreValue
  <2>3. Clean(k) => row[k].parent = origin[k].parent /\ row[k].depth = origin[k].depth
    <3>1. NoRow.parent = None /\ NoRow.depth = 0  BY DEF NoRow
    <3>2. \A a : Root(a).parent = None /\ Root(a).depth = 0  BY DEF Root
    <3>3. origin[k] = Root(origin[k].agent) => origin[k].parent = None /\ origin[k].depth = 0  BY <3>2
    <3> QED BY <1>7, <3>1, <3>3
  <2>4. Clean(k) => OriginOf(obj'[j]) = origin[k]
    BY <1>0, <1>5, <2>1, <2>2, <2>3 DEF OriginOf, Origins
  <2>5. IsRebuilt(j)'  BY <1>1, <1>2, <1>5, <1>6, <2>1, <2>2, <2>4 DEF IsRebuilt, Heard
  <2>6. IsMinted(j)'  BY <1>6, <2>1 DEF IsMinted
  <2> QED BY <2>5, <2>6 DEF JobOrigin
<1> QED BY <1>8, <1>9, <1>10, <1>11

\* The key of a child stays new until the child is stored.
LEMMA ChildKeepsOrigin ==
  ASSUME TypeInv, OriginInv, NEW j \in Jobs, NEW k \in Keys, k = Key(j),
         \/ StartChild(j) \/ ReadOrigin(j) \/ ReadChoice(j) \/ BuildEngine(j) \/ Restore(j) \/ Inherit(j),
         pc'[j] \in ChildPcs \cup {"store"}, IsChild(j)
  PROVE  JobOrigin(j)'
<1>0. /\ pc \in [Jobs -> PCs] /\ obj \in [Jobs -> Objects]  BY DEF TypeInv, TypeOK
<1>1. /\ situation' = situation /\ origin' = origin
  BY DEF StartChild, ReadOrigin, ReadChoice, BuildEngine, Restore, Inherit, ghosts
<1>2. ~Heard(k)
  <2>1. CASE StartChild(j)  BY <2>1 DEF StartChild, Heard
  <2>2. CASE ~StartChild(j)
    <3>1. pc[j] \in ChildPcs
      BY <2>2 DEF ReadOrigin, ReadChoice, BuildEngine, Restore, Inherit, Goes, ChildPcs
    <3> QED BY <3>1 DEF OriginInv, JobOrigin, IsMinted
  <2> QED BY <2>1, <2>2
<1>3. pc'[j] = "store" => obj'[j].parent = Above[k]
  <2>1. pc'[j] = "store" => Inherit(j)
    BY <1>0 DEF StartChild, ReadOrigin, ReadChoice, BuildEngine, Restore, Goes
  <2> QED BY <1>0, <2>1, InheritValue
<1>4. Key(j)' = k /\ IsChild(j)'  BY <1>1 DEF Key, IsChild, Ask
<1>5. IsRebuilt(j)'  BY <1>4 DEF IsRebuilt
<1>6. IsMinted(j)'  BY <1>1, <1>2, <1>3, <1>4 DEF IsMinted, Heard, ChildPcs
<1> QED BY <1>5, <1>6 DEF JobOrigin

\* A step of a request leaves every key and every request with its origin.
LEMMA JobKeepsOrigin ==
  ASSUME TypeInv, PlaceInv, OriginInv, NEW j \in Jobs, JobStep(j) PROVE OriginInv'
<1>0. pc \in [Jobs -> PCs] /\ Key(j) \in Keys  BY AskType DEF TypeInv, TypeOK
<1>1. PICK k \in Keys : k = Key(j)  BY <1>0
<1>2. KeyOrigin(k)'
  <2>1. CASE Create(j)  BY <1>1, <2>1, CreateKeepsOrigin
  <2>2. CASE StartRun(j)  BY <1>1, <2>2, StartRunKeepsOrigin
  <2>3. CASE ResumeLoad(j)  BY <1>1, <2>3, ResumeLoadKeepsOrigin
  <2>4. CASE Publish(j)  BY <1>1, <2>4, PublishKeepsOrigin
  <2>5. CASE StoreChild(j)  BY <1>1, <2>5, StoreChildKeepsOrigin
  <2>6. CASE RecordChild(j)  BY <1>1, <2>6, RecordChildKeepsOrigin
  <2>7. CASE /\ ~Create(j) /\ ~StartRun(j) /\ ~RecordChild(j)
             /\ ~ResumeLoad(j) /\ ~StoreChild(j) /\ ~Publish(j)
    BY <2>7, OtherKeysStay
  <2> QED BY <2>1, <2>2, <2>3, <2>4, <2>5, <2>6, <2>7
<1>3. \A x \in Keys \ {k} : KeyOrigin(x)'  BY <1>1, OtherKeysStay
<1>4. JobOrigin(j)'
  <2>1. CASE StartRun(j)  BY <1>1, <2>1, StartRunKeepsOrigin
  <2>2. CASE ResumeLoad(j)  BY <1>1, <2>2, ResumeLoadKeepsOrigin
  <2>3. CASE StoreChild(j)  BY <1>1, <2>3, StoreChildKeepsOrigin
  <2>4. CASE ~StartRun(j) /\ ~ResumeLoad(j) /\ ~StoreChild(j)
    <3>1. pc'[j] # "record"
      BY <1>0, <2>4
         DEF JobStep, Create, ResumePrompt, ResumeModel, RecordChild, RecordChoice, Apply, ReadOrigin,
             ReadChoice, BuildEngine, Restore, StartChild, Inherit, Turn, TakeLock, GetSession, Config,
             RefuseEngine, Publish, StartTask, Persist, Goes
    <3>2. CASE IsChild(j) /\ pc'[j] \in ChildPcs \cup {"store"}
      <4>1. \/ StartChild(j) \/ ReadOrigin(j) \/ ReadChoice(j) \/ BuildEngine(j) \/ Restore(j)
            \/ Inherit(j)
        <5>1. pc[j] \notin RequestPcs  BY <3>2 DEF TypeInv, AtInv
        <5> QED BY <1>0, <2>4, <3>2, <5>1
               DEF JobStep, Create, ResumePrompt, ResumeModel, RecordChild, RecordChoice, Apply, Turn,
                   TakeLock, GetSession, Config, RefuseEngine, Publish, StartTask, Persist, Goes,
                   ChildPcs, RequestPcs
      <4> QED BY <1>1, <3>2, <4>1, ChildKeepsOrigin
    <3>3. CASE ~IsChild(j) /\ pc'[j] \in BuildPcs
      <4>1. \/ TakeLock(j) \/ GetSession(j) \/ ReadOrigin(j) \/ ReadChoice(j) \/ BuildEngine(j)
            \/ Restore(j)
        BY <1>0, <2>4, <3>3
           DEF JobStep, Create, ResumePrompt, ResumeModel, RecordChild, RecordChoice, Apply, Turn,
               StartChild, Inherit, Config, RefuseEngine, Publish, StartTask, Persist, Goes, BuildPcs
      <4> QED BY <1>1, <3>3, <4>1, BuildKeepsOrigin
    <3>4. CASE /\ ~(IsChild(j) /\ pc'[j] \in ChildPcs \cup {"store"})
               /\ ~(~IsChild(j) /\ pc'[j] \in BuildPcs)
      <4>1. IsChild(j)' <=> IsChild(j)  BY JobMoves DEF IsChild, Ask
      <4>2. pc'[j] = "store" => IsChild(j)
        <5>1. pc'[j] = "store" => IsChild(j)'  BY JobKeepsType DEF TypeInv, AtInv, OnlyChildPcs
        <5> QED BY <4>1, <5>1
      <4> QED BY <3>1, <3>4, <4>1, <4>2 DEF JobOrigin, IsRebuilt, IsMinted
    <3> QED BY <3>2, <3>3, <3>4
  <2> QED BY <2>1, <2>2, <2>3, <2>4
<1>5. \A i \in Jobs \ {j} : JobOrigin(i)'  BY OtherJobsStay
<1> QED BY <1>2, <1>3, <1>4, <1>5 DEF OriginInv

\* The reaper takes no more than a session and its row, and marks a key that can
\* no longer tell whose it is; a restart gives no row another origin.
LEMMA SystemKeepsOrigin ==
  ASSUME TypeInv, PlaceInv, OriginInv,
         (\E k \in Keys : ReapSession(k) \/ DeleteSession(k)) \/ RemoveTree \/ Restart
  PROVE  OriginInv'
<1>0. /\ row \in [Keys -> Rows] /\ live \in [Keys -> Jobs \cup {None}] /\ flags \in [Keys -> SUBSET Marks]
      /\ pc \in [Jobs -> PCs] /\ \A i \in Jobs : Key(i) \in Keys
  BY AskType DEF TypeInv, TypeOK, Marks
<1>1. /\ situation' = situation /\ origin' = origin /\ obj' = obj
  BY DEF ReapSession, DeleteSession, RemoveTree, Restart, memory, ghosts
<1>2. \A i \in Jobs : Key(i)' = Key(i)  BY <1>1 DEF Key, Ask
<1>3. ASSUME NEW x \in Keys, ReapSession(x) PROVE OriginInv'
  <2>1. /\ row' = row /\ pc' = pc /\ \A k \in Keys : live'[k] \in {live[k], None}
        /\ \A k \in Keys : Clean(k)' => Clean(k)
    BY <1>0, <1>3 DEF ReapSession, disk, MarkIf, Clean
  <2>2. \A k \in Keys : KeyOrigin(k)'  BY <1>1, <2>1, KeyStays DEF OriginInv
  <2>3. ASSUME NEW i \in Jobs PROVE JobOrigin(i)'
    <3>1. Clean(Key(i))' => Clean(Key(i))
      BY <1>0, <1>2, <2>1 DEF Clean
    <3> QED BY <1>0, <1>1, <2>1, <3>1, JobStays DEF OriginInv
  <2> QED BY <2>2, <2>3 DEF OriginInv
<1>4. ASSUME NEW x \in Keys, DeleteSession(x) PROVE OriginInv'
  <2>1. /\ live' = live /\ pc' = pc /\ row'[x] = NoRow /\ \A k \in Keys \ {x} : row'[k] = row[k]
        /\ \A k \in Keys : Clean(k)' => Clean(k)
        /\ Clean(x)' => AgentInKey(x) = origin[x].agent
    BY <1>0, <1>4 DEF DeleteSession, Clean
  <2>2. ASSUME Clean(x)', Heard(x) PROVE Above[x] = None /\ origin[x].agent = situation.named
    BY <2>1, <2>2 DEF AgentInKey, Heard
  <2>3. \A k \in Keys \ {x} : KeyOrigin(k)'  BY <1>1, <2>1, KeyStays DEF OriginInv
  <2>4. KeyOrigin(x)'
    <3>0. KeyOrigin(x)  BY DEF OriginInv
    <3>1. ~NoRow.known /\ NoRow.agent = None  BY DEF NoRow
    <3>2. RowIsWhole(x)' /\ IsUnheard(x)' /\ HasLineage(x)'
      BY <1>1, <2>1, <3>0, <3>1 DEF KeyOrigin, RowIsWhole, IsUnheard, HasLineage, Heard
    <3>3. IsRecorded(x)'
      BY <1>1, <2>1, <2>2, <3>0, <3>1 DEF KeyOrigin, IsRecorded, Heard
    <3> QED BY <3>2, <3>3 DEF KeyOrigin
  <2>5. ASSUME NEW i \in Jobs PROVE JobOrigin(i)'
    <3>0. JobOrigin(i)  BY DEF OriginInv
    <3>1. CASE Key(i) # x
      <4>1. Clean(Key(i))' => Clean(Key(i))  BY <1>0, <1>2, <2>1 DEF Clean
      <4> QED BY <1>0, <1>1, <2>1, <3>0, <3>1, <4>1, JobStays
    <3>2. CASE Key(i) = x
      <4>1. IsChild(i)' <=> IsChild(i)  BY <1>1 DEF IsChild, Ask
      <4>2. Key(i)' = x /\ (Clean(Key(i))' <=> Clean(x)')  BY <1>2, <3>2 DEF Clean
      <4>3. IsRebuilt(i)'
        BY <1>1, <2>1, <2>2, <3>0, <3>2, <4>1, <4>2 DEF JobOrigin, IsRebuilt, Heard
      <4>4. IsMinted(i)'
        BY <1>1, <2>1, <3>0, <3>2, <4>1, <4>2 DEF JobOrigin, IsMinted, Heard
      <4> QED BY <4>3, <4>4 DEF JobOrigin
    <3> QED BY <3>1, <3>2
  <2> QED BY <2>3, <2>4, <2>5 DEF OriginInv
<1>5. CASE RemoveTree
  <2>1. /\ row' = row /\ pc' = pc /\ live' = live /\ flags' = flags
    BY <1>5 DEF RemoveTree, memory, ghosts
  <2>2. \A k \in Keys : KeyOrigin(k)'  BY <1>1, <2>1, KeyStays DEF OriginInv, Clean
  <2>3. ASSUME NEW i \in Jobs PROVE JobOrigin(i)'
    <3>1. Clean(Key(i))' => Clean(Key(i))  BY <1>0, <1>2, <2>1 DEF Clean
    <3> QED BY <1>0, <1>1, <2>1, <3>1, JobStays DEF OriginInv
  <2> QED BY <2>2, <2>3 DEF OriginInv
<1>6. CASE Restart
  <2>1. /\ \A k \in Keys : live'[k] = None
        /\ \A i \in Jobs : pc'[i] \in {"idle", "done"}
        /\ row' = BackfillLineage(AddSessionColumns(row))
        /\ \A k \in Keys : Clean(k)' => Clean(k)
    BY <1>0, <1>6 DEF Restart, MigrateGatewayDB, Clean
  <2>2. row' = BackfillLineage(row)  BY <1>0, <2>1, ColumnsAreThere
  <2>3. ASSUME NEW k \in Keys PROVE KeyOrigin(k)'
    <3>0. KeyOrigin(k) /\ None \notin Keys  BY SettingsAssumption DEF OriginInv
    <3>1. LET r == BackfillLineage(row)[k] IN
          /\ r.known = row[k].known /\ r.agent = row[k].agent /\ r.roots = row[k].roots
          /\ ~row[k].known \/ Above[k] = None \/ row[k].parent # None => r = row[k]
      BY <1>0, BackfillValue
    <3>2. Clean(k)' /\ row[k].known => row'[k] = row[k]
      <4> SUFFICES ASSUME Clean(k)', row[k].known, Above[k] # None PROVE row[k].parent # None
        BY <2>2, <3>1
      <4>1. OriginOf(row[k]) = origin[k] /\ Heard(k)
        BY <2>1, <3>0 DEF KeyOrigin, IsRecorded, IsUnheard
      <4> QED BY <3>0, <4>1 DEF KeyOrigin, HasLineage, OriginOf
    <3> QED BY <1>1, <2>1, <2>2, <3>0, <3>1, <3>2, KeyStays
  <2>4. \A i \in Jobs : JobOrigin(i)'
    BY <2>1 DEF JobOrigin, IsRebuilt, IsMinted, BuildPcs, ChildPcs
  <2> QED BY <2>3, <2>4 DEF OriginInv
<1> QED BY <1>3, <1>4, <1>5, <1>6

\* At the start a key comes from where its row says, and from nowhere without one.
LEMMA InitOrigin == Init => OriginInv
<1> SUFFICES ASSUME Init PROVE OriginInv  OBVIOUS
<1>1. ASSUME NEW k \in Keys PROVE KeyOrigin(k)
  <2>0. None \notin Agents /\ live[k] = None  BY SettingsAssumption DEF Init
  <2>1. /\ ~row[k].known => row[k] = NoRow
        /\ row[k].known => /\ row[k].agent \in Agents
                           /\ row[k].parent = Above[k] /\ row[k].depth = DepthSpelled(k)
                           /\ Above[k] = None => row[k].depth = 0 /\ row[k].roots = Home
    BY StartRow
  <2>2. origin[k] = [agent |-> row[k].agent, roots |-> row[k].roots,
                     parent |-> IF row[k].known THEN Above[k] ELSE None,
                     depth |-> IF row[k].known THEN DepthSpelled(k) ELSE 0]
    BY DEF Init
  <2>3. CASE row[k].known
    <3>1. OriginOf(row[k]) = origin[k]  BY <2>1, <2>2, <2>3 DEF OriginOf
    <3>2. origin[k].agent \in Agents /\ origin[k].parent = Above[k]
          /\ (Above[k] = None => origin[k].depth = 0 /\ origin[k].roots = Home)
      BY <2>1, <2>3, <3>1 DEF OriginOf
    <3> QED BY <2>0, <2>1, <2>3, <3>1, <3>2
            DEF KeyOrigin, RowIsWhole, IsUnheard, HasLineage, IsRecorded, Heard
  <2>4. CASE ~row[k].known
    <3>1. row[k] = NoRow /\ NoRow.agent = None /\ NoRow.roots = Home  BY <2>1, <2>4 DEF NoRow
    <3>2. origin[k] = [agent |-> None, parent |-> None, depth |-> 0, roots |-> Home]
      BY <2>2, <2>4, <3>1
    <3>3. origin[k].agent = None  BY <3>2
    <3> QED BY <2>0, <2>4, <3>1, <3>2, <3>3
            DEF KeyOrigin, RowIsWhole, IsUnheard, HasLineage, IsRecorded, Heard
  <2> QED BY <2>3, <2>4
<1>2. ASSUME NEW j \in Jobs PROVE JobOrigin(j)
  BY DEF Init, JobOrigin, IsRebuilt, IsMinted, BuildPcs, ChildPcs
<1> QED BY <1>1, <1>2 DEF OriginInv

\* The origins are kept by every step.
LEMMA NextKeepsOrigin == SettingsInv /\ OriginInv /\ [Next]_vars => OriginInv'
<1>1. ASSUME OriginInv, UNCHANGED vars PROVE OriginInv'
  <2>1. ASSUME NEW k \in Keys PROVE KeyOrigin(k)'
    <3>1. Clean(k)' => Clean(k)  BY <1>1 DEF vars, ghosts, Clean
    <3> QED BY <1>1, <3>1, KeyStays DEF OriginInv, vars, disk, memory, ghosts
  <2>2. ASSUME NEW i \in Jobs PROVE JobOrigin(i)'
    <3>1. Clean(Key(i))' => Clean(Key(i))  BY <1>1 DEF vars, ghosts, Clean, Key, Ask
    <3> QED BY <1>1, <3>1, JobStays DEF OriginInv, vars, disk, memory, ghosts
  <2> QED BY <2>1, <2>2 DEF OriginInv
<1>2. ASSUME SettingsInv, OriginInv, Next PROVE OriginInv'
  <2>1. ASSUME NEW j \in Jobs, JobStep(j) PROVE OriginInv'
    BY <1>2, <2>1, JobKeepsOrigin DEF SettingsInv
  <2>2. CASE (\E k \in Keys : ReapSession(k) \/ DeleteSession(k)) \/ RemoveTree \/ Restart
    BY <1>2, <2>2, SystemKeepsOrigin DEF SettingsInv
  <2> QED BY <1>2, <2>1, <2>2 DEF Next
<1> QED BY <1>1, <1>2

\* Where a key comes from, what is recorded of that, what the session under it has
\* and what a build of it has read so far agree.
THEOREM OriginsAgree == Spec => []OriginInv
  BY InitOrigin, SettingsInvariant, NextKeepsOrigin, PTL DEF Spec

\* A session, however often it is rebuilt, is the same agent's, at the same depth
\* under the same parent and works in the same repository: createSession reads
\* all of it from the row that the first request, or the child's recording, has
\* written, or from the key where the row was deleted.
THEOREM OriginsAreKept == Spec => []OriginIsKept
<1>1. OriginInv => OriginIsKept
  BY DEF OriginInv, KeyOrigin, IsRecorded, Clean, OriginIsKept
<1> QED BY <1>1, OriginsAgree, PTL

-----------------------------------------------------------------------------
(* What callers were last told.                                            *)

\* A key that nothing has happened to which the property excepts.  A build that has
\* read the row, and a resume that has written what it brings and has still to
\* give it to the session, or to build one, or to lose to one that is there.
Calm(k) == flags[k] = {}
Readers == {"choice", "engine", "restore", "publish"}
Owes(i, k, what) ==
  /\ Key(i) = k /\ Ask(i).kind = "resume" /\ Says(i, what)
  /\ \/ pc[i] \in {"load", "origin"} \cup Readers
     \/ pc[i] = "model" /\ what = "prompt"
     \/ pc[i] = "apply" /\ live[k] # None /\ at[i] = live[k]
Due(k, what) == row[k].known /\ \E i \in Jobs : Owes(i, k, what)
DueBeside(k, j, what) == row[k].known /\ \E i \in Jobs \ {j} : Owes(i, k, what)
Reads(j, k) == ~IsChild(j) /\ Key(j) = k /\ pc[j] \in Readers

\* The tools of a session are those of its agent without those taken away, as
\* long as it is one.  Only a resume or a config sets anything on it.
IsFiltered(j) ==
  /\ pc[j] \in {"lock", "get", "origin", "choice", "engine"} => obj[j].off = {}
  /\ pc[j] = "restore" => obj[j].off = {}
  /\ pc[j] \in {"restore", "publish", "inherit", "store"} \/ live[Key(j)] = j =>
       obj[j].tools = InitTools(obj[j].agent) \ obj[j].off
  /\ pc[j] \in {"model", "load"} => Ask(j).kind = "resume"
  /\ pc[j] = "apply" => Ask(j).kind \in {"resume", "config"}
  /\ pc[j] \in AtPcs => pc[at[j]] \in MadePcs
FilterInv == \A j \in Jobs : IsFiltered(j)

\* The prompt: what the row has is what was last said, but while a child is
\* recorded; so has the session, and a build that will be the session.
RowPrompts(k) == ~Unrecorded(k) => row[k].prompt = said[k].prompt
LivePrompts(k) == live[k] # None => obj[live[k]].prompt = said[k].prompt \/ Due(k, "prompt")
ReadPrompts(k) ==
  live[k] = None =>
    \A j \in Jobs : Reads(j, k) => obj[j].prompt = said[k].prompt \/ DueBeside(k, j, "prompt")
NewPrompts(k) ==
  \A j \in Jobs : Key(j) = k =>
    /\ pc[j] \in {"record", "recordChoice"} => live[k] = j
    /\ pc[j] = "record" => ~row[k].known /\ obj[j].prompt = said[k].prompt
    /\ pc[j] = "recordChoice" =>
         /\ row[k].known
         /\ \/ row[k].prompt = said[k].prompt
            \/ row[k].prompt = NoText /\ obj[j].prompt = said[k].prompt
KeyPrompts(k) ==
  Calm(k) => RowPrompts(k) /\ LivePrompts(k) /\ ReadPrompts(k) /\ NewPrompts(k)
PromptInv == \A k \in Keys : KeyPrompts(k)

\* The model: where there is no session, what a rebuild would find is what was last
\* said.
FoundModel(k) ==
  LET agent == IF row[k].known THEN row[k].agent ELSE AgentInKey(k) IN
  IF row[k].model = None /\ agent # None THEN OwnModel[agent] ELSE row[k].model
AsksModel(j) == Ask(j).kind = "run" /\ Says(j, "model")
RowModels(k) == live[k] = None /\ Heard(k) => said[k].model = FoundModel(k)
LiveModels(k) == live[k] # None => obj[live[k]].model = said[k].model \/ Due(k, "model")
ReadModels(k) ==
  live[k] = None =>
    \A j \in Jobs : Reads(j, k) /\ pc[j] # "choice" =>
      IF AsksModel(j) THEN obj[j].model = Ask(j).model
      ELSE obj[j].model = said[k].model \/ DueBeside(k, j, "model")
KeyModels(k) == Calm(k) => RowModels(k) /\ LiveModels(k) /\ ReadModels(k)
ModelInv == \A k \in Keys : KeyModels(k)

\* The caps and the tools taken away: where there is no session, what the last turn
\* saved is what was last said.
AskedCap(j, otherwise) == IF Ask(j).kind = "run" /\ Says(j, "cap") THEN Ask(j).cap ELSE otherwise
FileLimits(k) == live[k] = None => said[k].off = file[k].off /\ said[k].cap = file[k].cap
LiveLimits(k) ==
  live[k] # None => LET s == obj[live[k]] IN
    s.off = said[k].off /\ (OwnCap[s.agent] = 0 => s.cap = said[k].cap)
HasLimits(j) ==
  LET s == obj[j]
      saved == file[Key(j)] IN
  /\ pc[j] \in {"engine", "restore"} /\ OwnCap[s.agent] = 0 => s.cap = AskedCap(j, 0)
  /\ pc[j] = "publish" =>
       s.off = saved.off /\ (OwnCap[s.agent] = 0 => s.cap = AskedCap(j, saved.cap))
ReadLimits(k) == \A j \in Jobs : Reads(j, k) => HasLimits(j)
KeyLimits(k) == Calm(k) => FileLimits(k) /\ LiveLimits(k) /\ ReadLimits(k)
LimitInv == \A k \in Keys : KeyLimits(k)

-----------------------------------------------------------------------------
(* What a step makes of the settings of a session.                         *)

SameSettings(s, t) ==
  /\ t.agent = s.agent /\ t.prompt = s.prompt /\ t.model = s.model
  /\ t.off = s.off /\ t.tools = s.tools /\ t.cap = s.cap

\* Only a resume or a config sets anything on a session that somebody else works on,
\* and whoever builds one sets it only in its steps.
LEMMA SettingsStay ==
  ASSUME TypeInv, NEW j \in Jobs, JobStep(j), NEW i \in Jobs,
         i # j \/ pc[j] \notin {"idle", "load", "origin", "choice", "engine", "restore", "inherit"},
         ~Apply(j) \/ at[j] # i
  PROVE  SameSettings(obj[i], obj'[i])
<1>0. obj \in [Jobs -> Objects]  BY DEF TypeInv, TypeOK
<1>1. CASE obj' = obj  BY <1>1 DEF SameSettings
<1>2. ASSUME NEW s, obj' = [obj EXCEPT ![j] = s], i # j PROVE SameSettings(obj[i], obj'[i])
  BY <1>0, <1>2 DEF SameSettings
<1>3. CASE Starts(j) /\ obj' # obj
  <2>1. i # j  BY <1>3 DEF Starts, StartRun, ResumeLoad, Goes
  <2> QED BY <1>2, <1>3, <2>1, StartedValue DEF Starts
<1>4. CASE Apply(j)
  <2>1. obj' = [obj EXCEPT ![at[j]] = SetOn(obj[at[j]], j)]  BY <1>4 DEF Apply
  <2> QED BY <1>0, <1>4, <2>1 DEF SameSettings
<1>5. CASE Turn(j)
  <2>1. obj' = [obj EXCEPT ![at[j]].words = obj[at[j]].words \cup {Key(j)}]  BY <1>5 DEF Turn
  <2> QED BY <1>0, <2>1 DEF SameSettings, Objects
<1>6. CASE Shapes(j) /\ ~Apply(j) /\ ~Turn(j) /\ obj' # obj
  <2>1. i # j
    BY <1>6 DEF Shapes, ReadOrigin, ReadChoice, BuildEngine, Restore, StartChild, Inherit, Goes
  <2>2. \E s : obj' = [obj EXCEPT ![j] = s]
    <3>1. CASE ReadOrigin(j)  BY <1>6, <3>1, OriginReadValue
    <3>2. CASE ReadChoice(j)  BY <3>2, ChoiceReadValue
    <3>3. CASE BuildEngine(j)  BY <3>3, BuiltValue
    <3>4. CASE Restore(j)  BY <3>4, RestoreValue
    <3>5. CASE Inherit(j)  BY <3>5, InheritValue
    <3>6. CASE StartChild(j)
      <4>1. pc \in [Jobs -> PCs]  BY DEF TypeInv, TypeOK
      <4>2. pc'[j] # "done"  BY <1>6, <3>6, <4>1 DEF StartChild
      <4> QED BY <3>6, <4>2, ChildValue
    <3> QED BY <1>6, <3>1, <3>2, <3>3, <3>4, <3>5, <3>6 DEF Shapes
  <2> QED BY <1>2, <2>1, <2>2
<1>7. CASE Records(j) \/ Moves(j)
  <2>1. obj' = obj
    BY <1>7
       DEF Records, Create, ResumePrompt, ResumeModel, RecordChild, RecordChoice, memory,
           Moves, TakeLock, GetSession, Config, RefuseEngine, Publish, StoreChild, StartTask, Persist
  <2> QED BY <1>1, <2>1
<1> QED BY <1>1, <1>3, <1>4, <1>5, <1>6, <1>7, JobSteps

\* SetDisabledTools puts the set and filters the tools.
LEMMA DisabledValue ==
  ASSUME NEW s \in Objects, NEW off \in SUBSET Tools
  PROVE  LET t == SetDisabledTools(s, off) IN
         /\ t \in Objects /\ t.off = off /\ t.tools = InitTools(s.agent) \ off
         /\ t.agent = s.agent /\ t.prompt = s.prompt /\ t.model = s.model /\ t.cap = s.cap
<1> DEFINE u == [s EXCEPT !.off = off]
<1>1. /\ u \in Objects /\ u.off = off /\ u.agent = s.agent /\ u.prompt = s.prompt
      /\ u.model = s.model /\ u.cap = s.cap
  BY DEF Objects
<1>2. SetDisabledTools(s, off) = ApplyDisabledTools(u)  BY DEF SetDisabledTools
<1> HIDE DEF u
<1>3. ApplyDisabledTools(u) = [u EXCEPT !.tools = InitTools(u.agent) \ u.off]
  BY DEF ApplyDisabledTools, SetToolSet
<1>4. InitTools(u.agent) \ u.off \in SUBSET Tools  BY <1>1, ObjectParts, ToolsType
<1> QED BY <1>1, <1>2, <1>3, <1>4 DEF Objects

\* What a resume or a config sets is what it says.
LEMMA AppliedSettings ==
  ASSUME TypeInv, NEW j \in Jobs, Apply(j)
  PROVE  /\ at[j] \in Jobs /\ pc[j] = "apply"
         /\ LET s == obj[at[j]]
                t == obj'[at[j]] IN
            /\ t.agent = s.agent
            /\ t.prompt = IF Says(j, "prompt") THEN Ask(j).prompt ELSE s.prompt
            /\ t.model = IF Says(j, "model") THEN Ask(j).model ELSE s.model
            /\ t.cap = IF Says(j, "cap") THEN Ask(j).cap ELSE s.cap
            /\ t.off = IF Says(j, "off") THEN Ask(j).off ELSE s.off
            /\ t.tools = IF Says(j, "off") THEN InitTools(s.agent) \ Ask(j).off ELSE s.tools
<1> DEFINE s == obj[at[j]]
           u == IF Says(j, "off") THEN SetDisabledTools(s, Ask(j).off) ELSE s
           prompt == IF Says(j, "prompt") THEN Ask(j).prompt ELSE u.prompt
           model == IF Says(j, "model") THEN Ask(j).model ELSE u.model
           cap == IF Says(j, "cap") THEN Ask(j).cap ELSE u.cap
<1>1. at[j] \in Jobs /\ pc[j] = "apply"  BY AppliedValue
<1>2. obj \in [Jobs -> Objects] /\ s \in Objects /\ Ask(j).off \in SUBSET Tools
  BY <1>1, AskType DEF TypeInv, TypeOK
<1>3. /\ u \in Objects /\ u.agent = s.agent /\ u.prompt = s.prompt /\ u.model = s.model /\ u.cap = s.cap
      /\ u.off = IF Says(j, "off") THEN Ask(j).off ELSE s.off
      /\ u.tools = IF Says(j, "off") THEN InitTools(s.agent) \ Ask(j).off ELSE s.tools
  <2> HIDE DEF s
  <2> QED BY <1>2, DisabledValue
<1>4. obj'[at[j]] = [u EXCEPT !.prompt = prompt, !.model = model, !.cap = cap]
  BY <1>1, <1>2 DEF Apply, SetOn
<1> HIDE DEF u
<1>5. LET t == obj'[at[j]] IN
      /\ t.prompt = prompt /\ t.model = model /\ t.cap = cap
      /\ t.agent = u.agent /\ t.off = u.off /\ t.tools = u.tools
  BY <1>3, <1>4 DEF Objects
<1> QED BY <1>1, <1>3, <1>5

\* What a build starts with: the agent, and no tools taken away.
LEMMA StartedSettings ==
  ASSUME TypeInv, NEW j \in Jobs, StartRun(j) \/ ResumeLoad(j) \/ StartChild(j),
         pc'[j] \in {"lock", "origin"}
  PROVE  obj'[j].off = {}
<1>0. /\ pc \in [Jobs -> PCs] /\ obj \in [Jobs -> Objects] /\ situation \in Situations
  BY DEF TypeInv, TypeOK
<1>1. \A a \in Agents : NewObj(a).off = {}  BY DEF NewObj
<1>2. CASE StartRun(j)
  <2>1. PICK a : obj' = [obj EXCEPT ![j] = NewObj(a)]  BY <1>0, <1>2 DEF StartRun
  <2> QED BY <1>0, <2>1 DEF NewObj
<1>3. CASE ResumeLoad(j)
  <2>1. PICK a : obj' = [obj EXCEPT ![j] = NewObj(a)]  BY <1>0, <1>3 DEF ResumeLoad, Goes
  <2> QED BY <1>0, <2>1 DEF NewObj
<1>4. CASE StartChild(j)
  <2> DEFINE above == live[Above[Key(j)]]
             agent == IF Ask(j).agent = None THEN obj[above].agent ELSE Ask(j).agent
             copied == IF Forks(j) THEN obj[above].words ELSE {}
             roots(forged) == IF Forks(j) /\ obj[above].roots # Home THEN obj[above].roots
                              ELSE UseWorkspace(forged)
  <2>1. pc'[j] # "done"  BY <1>0, <1>4 DEF StartChild
  <2>2. PICK forged \in BOOLEAN :
          obj' = [obj EXCEPT ![j] = [NewObj(agent) EXCEPT !.roots = roots(forged), !.copied = copied]]
    BY <1>0, <1>4, <2>1 DEF StartChild
  <2> HIDE DEF agent, roots, copied
  <2> QED BY <1>0, <2>2 DEF NewObj
<1> QED BY <1>2, <1>3, <1>4

\* A build reads the prompt of the row, ...
LEMMA OriginReadSettings ==
  ASSUME TypeInv, NEW j \in Jobs, ReadOrigin(j), pc'[j] = "choice"
  PROVE  LET s == obj[j]
             t == obj'[j] IN
         /\ t.prompt = row[Key(j)].prompt
         /\ t.agent = s.agent /\ t.off = s.off
<1>1. obj \in [Jobs -> Objects] /\ pc \in [Jobs -> PCs]  BY DEF TypeInv, TypeOK
<1>2. obj' = [obj EXCEPT ![j].roots = WorkspaceRootsForSession(j),
                         ![j].prompt = SessionInjectedSystemPrompt(Key(j))]
  BY <1>1 DEF ReadOrigin, Goes
<1> QED BY <1>1, <1>2 DEF SessionInjectedSystemPrompt, Objects

\* ... then chooses a model: the one asked for, the one recorded, or the agent's;
\* and a cap: the one asked for, or the agent's.
LEMMA ChoiceReadSettings ==
  ASSUME TypeInv, NEW j \in Jobs, ReadChoice(j), ~IsChild(j)
  PROVE  LET s == obj[j]
             t == obj'[j]
             recorded == row[Key(j)].model IN
         /\ t.model = IF AsksModel(j) THEN Ask(j).model
                      ELSE IF recorded = None THEN OwnModel[s.agent] ELSE recorded
         /\ OwnCap[s.agent] = 0 => t.cap = AskedCap(j, 0)
         /\ t.agent = s.agent /\ t.prompt = s.prompt /\ t.off = s.off
<1> DEFINE agent == obj[j].agent
           recorded == row[Key(j)].model
           own == EngineConfigFor(j, agent)
           some == WithSelectedModel(Key(j), own)
           cfg == ApplyRequestOverrides(j, some)
           model == InitAgent(agent, cfg)
           cap == SetupLimits(agent, cfg)
<1>0. obj \in [Jobs -> Objects] /\ obj[j] \in Objects  BY DEF TypeInv, TypeOK
<1>1. own = [model |-> OwnModel[agent], chosen |-> FALSE, cap |-> 0]  BY DEF EngineConfigFor
<1>2. some = [model |-> IF recorded = None THEN OwnModel[agent] ELSE recorded,
              chosen |-> recorded # None, cap |-> 0]
  <2>1. some = IF recorded = None THEN own ELSE [own EXCEPT !.model = recorded, !.chosen = TRUE]
    BY DEF WithSelectedModel, SessionSelectedModel
  <2> HIDE DEF agent, recorded, own, some
  <2>2. CASE recorded = None  BY <1>1, <2>1, <2>2
  <2>3. CASE recorded # None  BY <1>1, <2>1, <2>3
  <2> QED BY <2>2, <2>3
<1>3. /\ cfg.model = IF AsksModel(j) THEN Ask(j).model
                     ELSE IF recorded = None THEN OwnModel[agent] ELSE recorded
      /\ cfg.chosen <=> (AsksModel(j) \/ recorded # None)
      /\ cfg.cap = AskedCap(j, 0)
  <2> HIDE DEF agent, recorded, some, own
  <2> QED BY <1>2 DEF ApplyRequestOverrides, AsksModel, AskedCap
<1>4. obj' = [obj EXCEPT ![j].model = model, ![j].cap = cap]  BY DEF ReadChoice
<1> HIDE DEF cfg
<1>5. /\ model = IF AsksModel(j) THEN Ask(j).model
                 ELSE IF recorded = None THEN OwnModel[agent] ELSE recorded
      /\ OwnCap[agent] = 0 => cap = AskedCap(j, 0)
  BY <1>3 DEF InitAgent, SetupLimits, LoadAgentConfig
<1> HIDE DEF model, cap
<1>6. LET t == obj'[j] IN /\ t.model = model /\ t.cap = cap /\ t.agent = obj[j].agent
                          /\ t.prompt = obj[j].prompt /\ t.off = obj[j].off
  BY <1>0, <1>4 DEF Objects
<1> QED BY <1>5, <1>6

\* The engine is built with the tools that are left.
LEMMA BuiltSettings ==
  ASSUME TypeInv, NEW j \in Jobs, BuildEngine(j)
  PROVE  LET s == obj[j]
             t == obj'[j] IN
         /\ t.tools = InitTools(s.agent) \ s.off
         /\ t.agent = s.agent /\ t.prompt = s.prompt /\ t.model = s.model /\ t.off = s.off
         /\ t.cap = s.cap
<1>0. obj \in [Jobs -> Objects] /\ obj[j] \in Objects  BY DEF TypeInv, TypeOK
<1> DEFINE words == TranscriptToStartSessionFrom(j)
           t == [obj[j] EXCEPT !.tools = InitTools(obj[j].agent) \ obj[j].off]
<1>1. obj'[j] = [t EXCEPT !.words = words]
  BY <1>0 DEF BuildEngine, OpensWith, ApplyDisabledTools, SetToolSet
<1> HIDE DEF words
<1>2. /\ t.tools = InitTools(obj[j].agent) \ obj[j].off /\ t.agent = obj[j].agent
      /\ t.prompt = obj[j].prompt /\ t.model = obj[j].model /\ t.off = obj[j].off /\ t.cap = obj[j].cap
      /\ DOMAIN t = DOMAIN obj[j]
  BY <1>0 DEF Objects
<1> QED BY <1>0, <1>1, <1>2 DEF Objects

\* The cap that is set outranks the one that was saved, and the tools that were
\* taken away are taken away again.
LEMMA RestoredSettings ==
  ASSUME TypeInv, NEW j \in Jobs, Restore(j),
         obj[j].off = {}, obj[j].tools = InitTools(obj[j].agent)
  PROVE  LET s == obj[j]
             t == obj'[j]
             k == Key(j) IN
         /\ t.off = file[k].off /\ t.tools = InitTools(s.agent) \ file[k].off
         /\ t.cap = IF s.cap # 0 THEN s.cap ELSE file[k].cap
         /\ t.agent = s.agent /\ t.prompt = s.prompt /\ t.model = s.model
<1> DEFINE k == Key(j)
           cap == ResumeState(LoadGuardState(k), obj[j].cap)
           u == RestoreGuardState(k, obj[j])
           v == RestoreDisabledTools(k, u)
<1>0. /\ obj \in [Jobs -> Objects] /\ obj[j] \in Objects /\ k \in Keys /\ file[k] \in Files
  BY AskType DEF TypeInv, TypeOK, Files
<1>1. file[k].off \in SUBSET Tools /\ file[k].cap \in Nat  BY <1>0 DEF Files
<1>2. cap = IF obj[j].cap # 0 THEN obj[j].cap ELSE file[k].cap
  BY DEF ResumeState, LoadGuardState
<1>3. cap \in Nat  BY <1>0, <1>1, <1>2, ObjectParts
<1>4. u = [obj[j] EXCEPT !.cap = cap]  BY DEF RestoreGuardState
<1> HIDE DEF cap
<1>5. /\ u \in Objects /\ u.cap = cap /\ u.off = obj[j].off /\ u.tools = obj[j].tools
      /\ u.agent = obj[j].agent /\ u.prompt = obj[j].prompt /\ u.model = obj[j].model
  BY <1>0, <1>3, <1>4 DEF Objects
<1> HIDE DEF u
<1>6. /\ v \in Objects /\ v.off = file[k].off /\ v.tools = InitTools(u.agent) \ file[k].off
      /\ v.agent = u.agent /\ v.prompt = u.prompt /\ v.model = u.model /\ v.cap = u.cap
  <2>1. CASE file[k].off = {}
    <3>1. v = u  BY <2>1 DEF RestoreDisabledTools, LoadDisabledTools
    <3> QED BY <1>5, <2>1, <3>1
  <2>2. CASE file[k].off # {}
    <3>1. v = SetDisabledTools(u, file[k].off)  BY <2>2 DEF RestoreDisabledTools, LoadDisabledTools
    <3> QED BY <1>1, <1>5, <3>1, DisabledValue
  <2> QED BY <2>1, <2>2
<1> HIDE DEF v
<1>7. obj'[j] = [v EXCEPT !.parent = row[k].parent, !.depth = row[k].depth]
  BY <1>0 DEF Restore, LineageForSession, SessionLineage, u, v
<1>8. LET t == obj'[j] IN
      /\ t.off = v.off /\ t.tools = v.tools /\ t.cap = v.cap
      /\ t.agent = v.agent /\ t.prompt = v.prompt /\ t.model = v.model
  BY <1>6, <1>7 DEF Objects
<1> QED BY <1>2, <1>5, <1>6, <1>8

\* A child inherits a prompt and a model, no tools and no cap.
LEMMA InheritedSettings ==
  ASSUME TypeInv, NEW j \in Jobs, Inherit(j)
  PROVE  /\ obj'[j].agent = obj[j].agent /\ obj'[j].off = obj[j].off
         /\ obj'[j].tools = obj[j].tools /\ obj'[j].cap = obj[j].cap
<1>0. obj \in [Jobs -> Objects] /\ obj[j] \in Objects  BY DEF TypeInv, TypeOK
<1>1. \E parent, depth, prompt, model, words :
        LET s == [obj[j] EXCEPT !.parent = parent, !.depth = depth] IN
        \/ obj' = [obj EXCEPT ![j] = s]
        \/ obj' = [obj EXCEPT ![j] = [s EXCEPT !.prompt = prompt, !.model = model, !.words = words]]
  BY DEF Inherit
<1>2. PICK parent, depth, prompt, model, words :
        LET s == [obj[j] EXCEPT !.parent = parent, !.depth = depth] IN
        \/ obj' = [obj EXCEPT ![j] = s]
        \/ obj' = [obj EXCEPT ![j] = [s EXCEPT !.prompt = prompt, !.model = model, !.words = words]]
  BY <1>1
<1> DEFINE s == [obj[j] EXCEPT !.parent = parent, !.depth = depth]
<1>3. /\ s.agent = obj[j].agent /\ s.off = obj[j].off /\ s.tools = obj[j].tools /\ s.cap = obj[j].cap
      /\ DOMAIN s = DOMAIN obj[j]
  BY <1>0 DEF Objects
<1>4. obj'[j] = s \/ obj'[j] = [s EXCEPT !.prompt = prompt, !.model = model, !.words = words]
  BY <1>0, <1>2
<1>5. CASE obj'[j] = s  BY <1>3, <1>5
<1>6. CASE obj'[j] = [s EXCEPT !.prompt = prompt, !.model = model, !.words = words]
  BY <1>0, <1>6 DEF Objects
<1> QED BY <1>4, <1>5, <1>6

\* What a request says, and what it cannot.
LEMMA SaysType ==
  ASSUME situation \in Situations, NEW j \in Jobs
  PROVE  /\ Ask(j).kind = "config" => ~Says(j, "prompt")
         /\ Says(j, "cap") => Ask(j).cap # 0
         /\ Ask(j).kind = "resume" /\ (\E what : Says(j, what)) => Brings(j)
         /\ IsChild(j) => Ask(j).kind \notin {"create", "run", "resume", "config"}
  BY SettingsAssumption DEF Ask, Says, Brings, IsChild, ChildKinds

\* What a step leaves as it is.
LEMMA AsksStay ==
  ASSUME situation' = situation, NEW j \in Jobs
  PROVE  /\ Ask(j)' = Ask(j) /\ Key(j)' = Key(j) /\ (IsChild(j)' <=> IsChild(j))
         /\ \A what : Says(j, what)' <=> Says(j, what)
  BY DEF Ask, Key, IsChild, Says

\* Of the sessions only those that are being built differ, and the one that a resume
\* or a config sets.
LEMMA JobKeepsFilter ==
  ASSUME TypeInv, PlaceInv, FilterInv, NEW j \in Jobs, JobStep(j) PROVE FilterInv'
<1>0. /\ pc \in [Jobs -> PCs] /\ at \in [Jobs -> Jobs \cup {None}] /\ obj \in [Jobs -> Objects]
      /\ live \in [Keys -> Jobs \cup {None}] /\ situation \in Situations
      /\ None \notin Jobs
  BY SettingsAssumption DEF TypeInv, TypeOK
<1>1. /\ \A i \in Jobs : Ask(i)' = Ask(i) /\ Key(i)' = Key(i) /\ Key(i) \in Keys
      /\ \A i \in Jobs \ {j} : pc'[i] = pc[i] /\ at'[i] = at[i]
  BY <1>0, JobMoves, AsksStay, AskType
<1>2. \A i \in Jobs : live'[Key(i)] = i => live[Key(i)] = i \/ ((Publish(i) \/ StoreChild(i)) /\ i = j)
  BY <1>0, <1>1, LiveValue
<1>3. \A i \in Jobs : live[Key(i)] = i => pc[i] \in MadePcs
  BY <1>0, <1>1 DEF PlaceInv
<1>4. ASSUME NEW i \in Jobs, pc[i] \in MadePcs PROVE pc'[i] \in MadePcs
  BY <1>4, MadeStays
<1>5. ASSUME NEW i \in Jobs \ {j}, ~Apply(j) \/ at[j] # i PROVE IsFiltered(i)'
  <2>1. SameSettings(obj[i], obj'[i])  BY <1>5, SettingsStay
  <2>2. pc[i] \in AtPcs => pc'[at[i]] \in MadePcs
    <3>1. pc[i] \in AtPcs => at[i] \in Jobs  BY <1>0 DEF TypeInv, AtInv
    <3> QED BY <1>4, <3>1 DEF FilterInv, IsFiltered
  <2> QED BY <1>1, <1>2, <2>1, <2>2 DEF FilterInv, IsFiltered, SameSettings
<1>6. ASSUME NEW i \in Jobs \ {j}, Apply(j), at[j] = i PROVE IsFiltered(i)'
  <2>1. LET s == obj[i]
            t == obj'[i] IN
        /\ t.agent = s.agent
        /\ t.off = IF Says(j, "off") THEN Ask(j).off ELSE s.off
        /\ t.tools = IF Says(j, "off") THEN InitTools(s.agent) \ Ask(j).off ELSE s.tools
    BY <1>6, AppliedSettings
  <2>2. pc[i] \in MadePcs  BY <1>6, AppliedSettings DEF FilterInv, IsFiltered, AtPcs
  <2>3. pc[i] \in AtPcs => pc'[at[i]] \in MadePcs
    <3>1. pc[i] \in AtPcs => at[i] \in Jobs  BY <1>0 DEF TypeInv, AtInv
    <3> QED BY <1>4, <3>1 DEF FilterInv, IsFiltered
  <2> QED BY <1>1, <1>2, <2>1, <2>2, <2>3 DEF FilterInv, IsFiltered, MadePcs
<1>7. IsFiltered(j)'
  <2>0. IsFiltered(j)  BY DEF FilterInv
  <2>1. CASE StartRun(j) \/ ResumeLoad(j) \/ StartChild(j)
    <3>1. pc[j] \notin MadePcs /\ live'[Key(j)] # j
      BY <1>0, <1>1, <1>3, <2>1 DEF StartRun, ResumeLoad, StartChild, Goes, MadePcs
    <3>2. pc'[j] \in {"lock", "origin"} => obj'[j].off = {}  BY <2>1, StartedSettings
    <3>3. \/ pc'[j] \in {"lock", "origin", "done"}
          \/ /\ ResumeLoad(j) /\ pc'[j] = "apply"
             /\ at'[j] = live[Key(j)] /\ live[Key(j)] # None
      BY <1>0, <2>1 DEF StartRun, ResumeLoad, StartChild, Goes
    <3>4. pc'[j] = "apply" => pc'[at'[j]] \in MadePcs /\ Ask(j).kind = "resume"
      <4> SUFFICES ASSUME pc'[j] = "apply" PROVE pc'[at'[j]] \in MadePcs /\ Ask(j).kind = "resume"
        OBVIOUS
      <4>1. at'[j] = live[Key(j)] /\ live[Key(j)] # None /\ pc[j] = "load"  BY <3>3 DEF ResumeLoad, Goes
      <4>2. live[Key(j)] \in Jobs /\ pc[live[Key(j)]] \in MadePcs  BY <1>0, <1>1, <4>1 DEF PlaceInv
      <4> QED BY <1>4, <2>0, <4>1, <4>2 DEF IsFiltered
    <3> QED BY <1>1, <3>1, <3>2, <3>3, <3>4 DEF IsFiltered, AtPcs
  <2>2. CASE ReadOrigin(j) \/ ReadChoice(j) \/ BuildEngine(j) \/ Restore(j) \/ Inherit(j)
    <3>1. pc[j] \in {"origin", "choice", "engine", "restore", "inherit"} /\ live'[Key(j)] # j
      BY <1>0, <1>1, <1>3, <2>2
         DEF ReadOrigin, ReadChoice, BuildEngine, Restore, Inherit, Goes, MadePcs
    <3>2. CASE ReadOrigin(j)
      <4>1. pc[j] = "origin" /\ pc'[j] \in {"choice", "done"}  BY <1>0, <3>2 DEF ReadOrigin, Goes
      <4>2. pc'[j] = "choice" => obj'[j].off = obj[j].off  BY <3>2, OriginReadSettings
      <4> QED BY <1>1, <2>0, <3>1, <4>1, <4>2 DEF IsFiltered, AtPcs
    <3>3. CASE ReadChoice(j)
      <4>1. pc[j] = "choice" /\ pc'[j] = "engine"  BY <1>0, <3>3 DEF ReadChoice, Goes
      <4>2. obj'[j].off = obj[j].off
        <5> DEFINE model == InitAgent(obj[j].agent, ApplyRequestOverrides(j, WithSelectedModel(Key(j), EngineConfigFor(j, obj[j].agent))))
                   cap == SetupLimits(obj[j].agent, ApplyRequestOverrides(j, WithSelectedModel(Key(j), EngineConfigFor(j, obj[j].agent))))
        <5>1. obj' = [obj EXCEPT ![j].model = model, ![j].cap = cap]  BY <3>3 DEF ReadChoice
        <5> HIDE DEF model, cap
        <5> QED BY <1>0, <5>1 DEF Objects
      <4> QED BY <1>1, <2>0, <3>1, <4>1, <4>2 DEF IsFiltered, AtPcs
    <3>4. CASE BuildEngine(j)
      <4>1. pc[j] = "engine" /\ pc'[j] = "restore"  BY <1>0, <3>4 DEF BuildEngine, Goes
      <4>2. /\ obj'[j].tools = InitTools(obj[j].agent) \ obj[j].off
            /\ obj'[j].agent = obj[j].agent /\ obj'[j].off = obj[j].off
        BY <3>4, BuiltSettings
      <4> QED BY <1>1, <2>0, <3>1, <4>1, <4>2 DEF IsFiltered, AtPcs
    <3>5. CASE Restore(j)
      <4>1. pc[j] = "restore" /\ pc'[j] \in {"inherit", "publish"}  BY <1>0, <3>5 DEF Restore, Goes
      <4>2. obj[j].off = {} /\ obj[j].tools = InitTools(obj[j].agent)  BY <2>0, <4>1 DEF IsFiltered
      <4>3. obj'[j].tools = InitTools(obj'[j].agent) \ obj'[j].off  BY <3>5, <4>2, RestoredSettings
      <4> QED BY <1>1, <2>0, <3>1, <4>1, <4>3 DEF IsFiltered, AtPcs
    <3>6. CASE Inherit(j)
      <4>1. pc[j] = "inherit" /\ pc'[j] = "store"  BY <1>0, <3>6 DEF Inherit, Goes
      <4>2. /\ obj'[j].agent = obj[j].agent /\ obj'[j].off = obj[j].off
            /\ obj'[j].tools = obj[j].tools
        BY <3>6, InheritedSettings
      <4> QED BY <1>1, <2>0, <3>1, <4>1, <4>2 DEF IsFiltered, AtPcs
    <3> QED BY <2>2, <3>2, <3>3, <3>4, <3>5, <3>6
  <2>3. CASE Apply(j)
    <3>1. pc[j] = "apply" /\ pc'[j] = "done" /\ live'[Key(j)] # j
      BY <1>0, <1>1, <1>3, <2>3 DEF Apply, Goes, MadePcs
    <3> QED BY <1>1, <3>1 DEF IsFiltered, AtPcs
  <2>4. CASE Create(j) \/ ResumePrompt(j) \/ ResumeModel(j) \/ Config(j) \/ RefuseEngine(j)
    <3>1. /\ pc[j] \in {"idle", "model", "engine"} /\ pc'[j] \in {"done", "model", "load", "apply"}
          /\ live' = live
      BY <1>0, <2>4 DEF Create, ResumePrompt, ResumeModel, Config, RefuseEngine, Goes, memory
    <3>2. live'[Key(j)] # j  BY <1>3, <3>1 DEF MadePcs
    <3>3. pc'[j] \in {"model", "load"} => Ask(j).kind = "resume"
      BY <1>0, <2>0, <2>4 DEF IsFiltered, Create, ResumePrompt, ResumeModel, Config, RefuseEngine, Goes
    <3>4. pc'[j] = "apply" => Ask(j).kind = "config" /\ pc'[at'[j]] \in MadePcs
      <4> SUFFICES ASSUME pc'[j] = "apply" PROVE Ask(j).kind = "config" /\ pc'[at'[j]] \in MadePcs
        OBVIOUS
      <4>1. Config(j)  BY <1>0, <2>4 DEF Create, ResumePrompt, ResumeModel, Config, RefuseEngine, Goes
      <4>2. Ask(j).kind = "config" /\ at'[j] = live[Key(j)] /\ live[Key(j)] # None
        BY <1>0, <4>1 DEF Config, Goes
      <4>3. live[Key(j)] \in Jobs /\ pc[live[Key(j)]] \in MadePcs  BY <1>0, <1>1, <4>2 DEF PlaceInv
      <4> QED BY <1>4, <4>2, <4>3
    <3> QED BY <1>1, <3>1, <3>2, <3>3, <3>4 DEF IsFiltered, AtPcs
  <2>5. CASE TakeLock(j) \/ GetSession(j) \/ Publish(j)
    <3>1. /\ pc[j] \in {"lock", "get", "publish"} /\ obj' = obj
          /\ pc'[j] \in {"get", "origin", "turn", "done"}
      BY <1>0, <2>5 DEF TakeLock, GetSession, Publish, Goes
    <3>2. pc'[j] = "turn" => pc'[at'[j]] \in MadePcs
      <4>1. CASE GetSession(j)
        <5>1. pc'[j] = "turn" => at'[j] = live[Key(j)] /\ live[Key(j)] # None
          BY <1>0, <4>1 DEF GetSession, Goes
        <5>2. live[Key(j)] # None => live[Key(j)] \in Jobs /\ pc[live[Key(j)]] \in MadePcs
          BY <1>0, <1>1 DEF PlaceInv
        <5> QED BY <1>4, <5>1, <5>2
      <4>2. CASE Publish(j)
        <5>1. at'[j] = IF live[Key(j)] = None THEN j ELSE live[Key(j)]
          BY <1>0, <1>1, <4>2 DEF Publish
        <5>2. live[Key(j)] # None => live[Key(j)] \in Jobs /\ pc[live[Key(j)]] \in MadePcs
          BY <1>0, <1>1 DEF PlaceInv
        <5> QED BY <1>4, <5>1, <5>2 DEF MadePcs
      <4>3. CASE TakeLock(j)  BY <1>0, <4>3 DEF TakeLock, Goes
      <4> QED BY <2>5, <4>1, <4>2, <4>3
    <3>3. live'[Key(j)] = j => Publish(j) /\ pc[j] = "publish"
      <4>1. live[Key(j)] # j  BY <1>3, <3>1 DEF MadePcs
      <4>2. ~StoreChild(j)  BY <3>1 DEF StoreChild, Goes
      <4> QED BY <1>2, <4>1, <4>2 DEF Publish, Goes
    <3>4. pc'[j] \in {"get", "origin"} => pc[j] \in {"lock", "get"}
      BY <1>0, <2>5 DEF TakeLock, GetSession, Publish, Goes
    <3> QED BY <1>1, <2>0, <3>1, <3>2, <3>3, <3>4 DEF IsFiltered, AtPcs
  <2>6. CASE StoreChild(j) \/ RecordChild(j) \/ RecordChoice(j) \/ StartTask(j) \/ Turn(j) \/ Persist(j)
    <3>1. /\ pc[j] \in {"store", "record", "recordChoice", "task", "turn", "persist"}
          /\ pc'[j] \in {"record", "recordChoice", "task", "turn", "persist", "done"}
      BY <1>0, <2>6 DEF StoreChild, RecordChild, RecordChoice, StartTask, Turn, Persist, Goes
    <3>2. SameSettings(obj[j], obj'[j])
      <4>1. ~Apply(j)  BY <3>1 DEF Apply, Goes
      <4> QED BY <3>1, <4>1, SettingsStay
    <3>3. live'[Key(j)] = j => live[Key(j)] = j \/ pc[j] = "store"
      <4>1. ~Publish(j)  BY <3>1 DEF Publish, Goes
      <4> QED BY <1>2, <4>1 DEF StoreChild, Goes
    <3>4. pc'[j] \in AtPcs => pc'[at'[j]] \in MadePcs
      <4>1. pc'[j] \in MadePcs  BY <3>1 DEF MadePcs
      <4>2. CASE StartTask(j)  BY <1>0, <4>1, <4>2 DEF StartTask
      <4>3. CASE Turn(j)
        <5>1. pc[j] = "turn" /\ at' = at  BY <4>3 DEF Turn, Goes
        <5>2. at[j] \in Jobs  BY <1>0, <5>1 DEF TypeInv, AtInv, AtPcs
        <5>3. pc[at[j]] \in MadePcs  BY <2>0, <5>1 DEF IsFiltered, AtPcs
        <5> QED BY <1>4, <5>1, <5>2, <5>3
      <4>4. CASE StoreChild(j) \/ RecordChild(j) \/ RecordChoice(j) \/ Persist(j)
        BY <1>0, <4>4 DEF StoreChild, RecordChild, RecordChoice, Persist, Goes, AtPcs
      <4> QED BY <2>6, <4>2, <4>3, <4>4
    <3> QED BY <1>1, <2>0, <3>1, <3>2, <3>3, <3>4 DEF IsFiltered, SameSettings, AtPcs
  <2> QED BY <2>1, <2>2, <2>3, <2>4, <2>5, <2>6 DEF JobStep
<1> QED BY <1>5, <1>6, <1>7 DEF FilterInv

\* The reaper and a restart touch no session's settings.
LEMMA SystemKeepsFilter ==
  ASSUME TypeInv, FilterInv,
         (\E k \in Keys : ReapSession(k) \/ DeleteSession(k)) \/ RemoveTree \/ Restart
  PROVE  FilterInv'
<1>0. /\ pc \in [Jobs -> PCs] /\ live \in [Keys -> Jobs \cup {None}] /\ None \notin Jobs
      /\ \A i \in Jobs : Key(i) \in Keys
  BY SettingsAssumption, AskType DEF TypeInv, TypeOK
<1>1. situation' = situation /\ obj' = obj /\ at' = at
  BY DEF ReapSession, DeleteSession, RemoveTree, Restart, memory
<1>2. /\ \A i \in Jobs : live'[Key(i)] = i => live[Key(i)] = i
      /\ pc' = pc \/ (live' = [k \in Keys |-> None] /\ \A i \in Jobs : pc'[i] \in {"idle", "done"})
  BY <1>0 DEF ReapSession, DeleteSession, RemoveTree, Restart, memory
<1>3. ASSUME NEW i \in Jobs PROVE IsFiltered(i)'
  <2>1. Ask(i)' = Ask(i) /\ Key(i)' = Key(i)  BY <1>1, AsksStay
  <2>2. CASE pc' = pc  BY <1>0, <1>1, <1>2, <2>1, <2>2 DEF FilterInv, IsFiltered
  <2>3. CASE live' = [k \in Keys |-> None] /\ \A h \in Jobs : pc'[h] \in {"idle", "done"}
    BY <1>0, <2>1, <2>3 DEF IsFiltered, AtPcs
  <2> QED BY <1>2, <2>2, <2>3
<1> QED BY <1>3 DEF FilterInv

\* At the start nobody works on anything.
LEMMA InitFilter == Init => FilterInv
<1> SUFFICES ASSUME Init, NEW j \in Jobs PROVE IsFiltered(j)  BY DEF FilterInv
<1>1. pc[j] = "idle" /\ None \notin Jobs /\ situation \in Situations
  BY SettingsAssumption DEF Init
<1>2. live[Key(j)] = None  BY <1>1, AskType DEF Init
<1> QED BY <1>1, <1>2 DEF IsFiltered, AtPcs

\* A step of a request touches the record of its own key alone.
LEMMA OtherKeys ==
  ASSUME TypeInv, NEW j \in Jobs, JobStep(j), NEW k \in Keys, k # Key(j)
  PROVE  /\ row'[k] = row[k] /\ file'[k] = file[k] /\ said'[k] = said[k] /\ flags'[k] = flags[k]
         /\ live'[k] = live[k] /\ origin'[k] = origin[k]
<1>0. /\ row \in [Keys -> Rows] /\ said \in [Keys -> Saids] /\ flags \in [Keys -> SUBSET Marks]
      /\ live \in [Keys -> Jobs \cup {None}] /\ origin \in [Keys -> Origins]
      /\ file \in [Keys -> Files]
  BY TypeParts DEF TypeInv, ControlOK, RecordsOK
<1>1. CASE Create(j)
  BY <1>0, <1>1
     DEF Create, UpsertSession, SetSessionInjectedSystemPrompt, SetSessionSelectedModel, memory
<1>2. CASE StartRun(j)
  BY <1>0, <1>2 DEF StartRun, UpsertSession, ghosts
<1>3. CASE TakeLock(j) \/ GetSession(j)
  BY <1>0, <1>3 DEF TakeLock, GetSession, Forgotten, MarkIf, disk, ghosts
<1>4. CASE ResumePrompt(j) \/ ResumeModel(j)
  BY <1>0, <1>4
     DEF ResumePrompt, ResumeModel, SetSessionInjectedSystemPrompt, SetSessionSelectedModel, memory
<1>5. CASE ResumeLoad(j) \/ Config(j)
  BY <1>0, <1>5 DEF ResumeLoad, Config, disk, ghosts
<1>6. CASE Apply(j) \/ ReadOrigin(j) \/ ReadChoice(j) \/ BuildEngine(j) \/ RefuseEngine(j) \/ Restore(j)
  BY <1>0, <1>6
     DEF Apply, ReadOrigin, ReadChoice, BuildEngine, RefuseEngine, Restore, MarkIf, disk, ghosts
<1>7. CASE Publish(j)
  BY <1>0, <1>7 DEF Publish, MarkIf, disk
<1>8. CASE StartChild(j) \/ Inherit(j) \/ StoreChild(j) \/ RecordChild(j)
  BY <1>0, <1>8 DEF StartChild, Inherit, StoreChild, RecordChild, UpsertSession, memory, disk, ghosts
<1>9. CASE RecordChoice(j)
  BY <1>0, <1>9
     DEF RecordChoice, SetSessionInjectedSystemPrompt, SetSessionSelectedModel, MarkIf, memory
<1>10. CASE StartTask(j) \/ Turn(j) \/ Persist(j)
  BY <1>0, <1>10 DEF StartTask, Turn, Persist, MarkIf, disk, ghosts
<1> QED BY <1>1, <1>2, <1>3, <1>4, <1>5, <1>6, <1>7, <1>8, <1>9, <1>10 DEF JobStep

\* What is in memory stays as it is under every step but one that sets it.
LEMMA OthersStay ==
  ASSUME TypeInv, PlaceInv, NEW j \in Jobs, JobStep(j), NEW i \in Jobs,
         Key(i) # Key(j) \/ ~Apply(j), i # j \/ pc[i] \in MadePcs
  PROVE  SameSettings(obj[i], obj'[i])
<1>1. pc[j] \in MadePcs => pc[j] \notin {"idle", "load", "origin", "choice", "engine", "restore", "inherit"}
  BY DEF MadePcs
<1>2. Apply(j) => Key(at[j]) = Key(j)
  BY DEF PlaceInv, Apply, Goes, AtPcs
<1> QED BY <1>1, <1>2, SettingsStay

\* A row that is there stays there, under every step of a request.
LEMMA KnownStays ==
  ASSUME TypeInv, NEW j \in Jobs, JobStep(j), NEW k \in Keys, row[k].known
  PROVE  row'[k].known /\ row'[k].agent = row[k].agent
  BY RowStays DEF OriginOf

\* A calm key was calm before.
LEMMA CalmStays ==
  ASSUME TypeInv, NEW j \in Jobs, JobStep(j), NEW k \in Keys, Calm(k)' PROVE Calm(k)
  BY FlagsValue DEF Calm

\* What a resume owes to a session, or beside another's build, it goes on to owe
\* until it gives it: should its own build be refused or lose, the key is marked.
LEMMA OweKept ==
  ASSUME TypeInv, OriginInv, NEW j \in Jobs, JobStep(j), NEW k \in Keys, NEW i \in Jobs, NEW what,
         Owes(i, k, what), row[k].known, Calm(k)', i # j \/ ~Apply(j), live'[k] = live[k],
         live[k] # None \/ \E h \in Jobs \ {i} : Key(h) = k /\ pc[h] \in Readers
  PROVE  Owes(i, k, what)'
<1>0. /\ pc \in [Jobs -> PCs] /\ at \in [Jobs -> Jobs \cup {None}] /\ situation \in Situations
      /\ live \in [Keys -> Jobs \cup {None}] /\ flags \in [Keys -> SUBSET Marks] /\ None \notin Jobs
  BY SettingsAssumption DEF TypeInv, TypeOK, Marks
<1>1. /\ situation' = situation /\ \A h \in Jobs \ {j} : pc'[h] = pc[h] /\ at'[h] = at[h]
      /\ Ask(i)' = Ask(i) /\ Key(i)' = Key(i) /\ (Says(i, what)' <=> Says(i, what))
  BY JobMoves, AsksStay
<1>2. CASE i # j  BY <1>1, <1>2 DEF Owes
<1>3. CASE i = j
  <2>1. Key(j) = k /\ ~IsChild(j) /\ CrossesABuild(j) /\ Ask(j).kind = "resume"
    BY <1>0, <1>3, SaysType DEF Owes, CrossesABuild, Readers
  <2>2. ~(flags' = [flags EXCEPT ![k] = flags[k] \cup {"raced"}])
    BY <1>0 DEF Calm
  <2>3. CASE pc[j] = "model" /\ what = "prompt"
    <3>1. ResumeModel(j)
      BY <2>3 DEF JobStep, Create, StartRun, TakeLock, GetSession, ResumePrompt, ResumeLoad, Config, Apply,
                  ReadOrigin, ReadChoice, BuildEngine, RefuseEngine, Restore, Publish, StartChild,
                  Inherit, StoreChild, RecordChild, RecordChoice, StartTask, Turn, Persist, Goes
    <3>2. pc'[j] = "load"  BY <1>0, <2>1, <3>1 DEF ResumeModel, Goes
    <3> QED BY <1>1, <1>3, <3>2 DEF Owes
  <2>4. CASE pc[j] = "load"
    <3>1. ResumeLoad(j)
      BY <2>4 DEF JobStep, Create, StartRun, TakeLock, GetSession, ResumePrompt, ResumeModel, Config, Apply,
                  ReadOrigin, ReadChoice, BuildEngine, RefuseEngine, Restore, Publish, StartChild,
                  Inherit, StoreChild, RecordChild, RecordChoice, StartTask, Turn, Persist, Goes
    <3>2. live[k] = None => AgentForSession(k) # None
      BY DEF AgentForSession, SessionAgent, OriginInv, KeyOrigin, RowIsWhole
    <3>3. \/ pc'[j] = "origin"
          \/ pc'[j] = "apply" /\ at'[j] = live[k] /\ live[k] # None
      BY <1>0, <2>1, <3>1, <3>2 DEF ResumeLoad, Goes
    <3> QED BY <1>1, <1>3, <3>3 DEF Owes
  <2>5. CASE pc[j] = "origin"
    <3>1. ReadOrigin(j)
      BY <2>5 DEF JobStep, Create, StartRun, TakeLock, GetSession, ResumePrompt, ResumeModel, Config, Apply,
                  ResumeLoad, ReadChoice, BuildEngine, RefuseEngine, Restore, Publish, StartChild,
                  Inherit, StoreChild, RecordChild, RecordChoice, StartTask, Turn, Persist, Goes
    <3>2. pc'[j] = "choice"  BY <1>0, <2>1, <2>2, <3>1 DEF ReadOrigin, Goes, MarkIf
    <3> QED BY <1>1, <1>3, <3>2 DEF Owes, Readers
  <2>6. CASE pc[j] \in Readers
    <3>1. ReadChoice(j) \/ BuildEngine(j) \/ RefuseEngine(j) \/ Restore(j) \/ Publish(j)
      BY <2>6 DEF JobStep, Create, StartRun, TakeLock, GetSession, ResumePrompt, ResumeModel, Config, Apply,
                  ResumeLoad, ReadOrigin, StartChild, Readers,
                  Inherit, StoreChild, RecordChild, RecordChoice, StartTask, Turn, Persist, Goes
    <3>2. ~RefuseEngine(j)  BY <2>1, <2>2 DEF RefuseEngine, MarkIf
    <3>3. ~Publish(j)
      <4> SUFFICES ASSUME Publish(j) PROVE FALSE  OBVIOUS
      <4>1. live[k] # None  BY <1>0, <2>1 DEF Publish
      <4> QED BY <2>1, <2>2, <4>1 DEF Publish, MarkIf
    <3>4. pc'[j] \in Readers
      BY <1>0, <2>1, <3>1, <3>2, <3>3 DEF ReadChoice, BuildEngine, Restore, Goes, Readers
    <3> QED BY <1>1, <1>3, <3>4 DEF Owes
  <2>7. pc[j] # "apply"
    <3> SUFFICES ASSUME pc[j] = "apply" PROVE FALSE  OBVIOUS
    <3>1. Apply(j)
      BY DEF JobStep, Create, StartRun, TakeLock, GetSession, ResumePrompt, ResumeModel, Config,
             ResumeLoad, ReadOrigin, ReadChoice, BuildEngine, RefuseEngine, Restore, Publish, StartChild,
             Inherit, StoreChild, RecordChild, RecordChoice, StartTask, Turn, Persist, Goes
    <3> QED BY <1>3, <3>1
  <2> QED BY <1>3, <2>3, <2>4, <2>5, <2>6, <2>7 DEF Owes
<1> QED BY <1>2, <1>3

-----------------------------------------------------------------------------
(* The prompt.                                                             *)

\* A step that leaves the prompt where it is recorded, said and in force leaves
\* what a key's prompts have to do with one another.
LEMMA PromptStays ==
  ASSUME TypeInv, PlaceInv, OriginInv, NEW j \in Jobs, JobStep(j), NEW k \in Keys, KeyPrompts(k),
         k # Key(j) \/ ~Apply(j), live'[k] = live[k],
         said'[k].prompt = said[k].prompt, row'[k].prompt = row[k].prompt,
         row'[k].known = row[k].known \/ ~Unrecorded(k),
         k = Key(j) =>
           /\ pc'[j] \in Readers =>
                \/ IsChild(j)
                \/ pc[j] \in Readers /\ obj'[j].prompt = obj[j].prompt
                \/ obj'[j].prompt = said'[k].prompt
                \/ live[k] # None
           /\ {pc[j], pc'[j]} \cap {"record", "recordChoice"} = {}
  PROVE  KeyPrompts(k)'
<1> SUFFICES ASSUME Calm(k)'
             PROVE  (RowPrompts(k) /\ LivePrompts(k) /\ ReadPrompts(k) /\ NewPrompts(k))'
  BY DEF KeyPrompts
<1>0. /\ pc \in [Jobs -> PCs] /\ live \in [Keys -> Jobs \cup {None}] /\ None \notin Jobs
      /\ live[k] # None => live[k] \in Jobs /\ Key(live[k]) = k /\ pc[live[k]] \in MadePcs
  BY SettingsAssumption DEF TypeInv, TypeOK, PlaceInv
<1>1. RowPrompts(k) /\ LivePrompts(k) /\ ReadPrompts(k) /\ NewPrompts(k)
  BY CalmStays DEF KeyPrompts
<1>2. /\ situation' = situation /\ \A h \in Jobs \ {j} : pc'[h] = pc[h]
      /\ \A h \in Jobs : Key(h)' = Key(h) /\ (IsChild(h)' <=> IsChild(h))
  BY JobMoves, AsksStay
<1>3. \A h \in Jobs : Key(h) = k /\ (h # j \/ pc[h] \in MadePcs) => obj'[h].prompt = obj[h].prompt
  BY OthersStay DEF SameSettings
<1>4. Unrecorded(k)' <=> Unrecorded(k)  BY <1>2 DEF Unrecorded
<1>5. RowPrompts(k)'  BY <1>1, <1>4 DEF RowPrompts
<1>6. ASSUME NEW i \in Jobs, Owes(i, k, "prompt"), row[k].known,
             live[k] # None \/ \E h \in Jobs \ {i} : Key(h) = k /\ pc[h] \in Readers
      PROVE  Owes(i, k, "prompt")'
  <2>1. i # j \/ ~Apply(j)  BY <1>6 DEF Owes
  <2> QED BY <1>6, <2>1, OweKept
<1>7. row[k].known => row'[k].known  BY KnownStays
<1>8. LivePrompts(k)'
  <2> SUFFICES ASSUME live'[k] # None PROVE obj'[live'[k]].prompt = said'[k].prompt \/ Due(k, "prompt")'
    BY DEF LivePrompts
  <2>1. obj'[live'[k]].prompt = obj[live[k]].prompt  BY <1>0, <1>3
  <2>2. Due(k, "prompt") => Due(k, "prompt")'  BY <1>6, <1>7 DEF Due
  <2> QED BY <1>1, <2>1, <2>2 DEF LivePrompts
<1>9. ReadPrompts(k)'
  <2> SUFFICES ASSUME live[k] = None, NEW i \in Jobs, Reads(i, k)'
               PROVE  obj'[i].prompt = said'[k].prompt \/ DueBeside(k, i, "prompt")'
    BY DEF ReadPrompts
  <2>1. Key(i) = k /\ ~IsChild(i) /\ pc'[i] \in Readers  BY <1>2 DEF Reads
  <2>2. \/ Reads(i, k) /\ obj'[i].prompt = obj[i].prompt
        \/ obj'[i].prompt = said'[k].prompt
    <3>1. CASE i = j  BY <2>1, <3>1 DEF Reads
    <3>2. CASE i # j  BY <1>2, <1>3, <2>1, <3>2 DEF Reads
    <3> QED BY <3>1, <3>2
  <2>3. Reads(i, k) /\ DueBeside(k, i, "prompt") => DueBeside(k, i, "prompt")'
    <3> SUFFICES ASSUME Reads(i, k), DueBeside(k, i, "prompt") PROVE DueBeside(k, i, "prompt")'
      OBVIOUS
    <3> SUFFICES ASSUME row[k].known, NEW h \in Jobs \ {i}, Owes(h, k, "prompt")
                 PROVE  DueBeside(k, i, "prompt")'
      BY DEF DueBeside
    <3>1. Owes(h, k, "prompt")'  BY <1>6 DEF Reads
    <3> QED BY <1>7, <3>1 DEF DueBeside
  <2> QED BY <1>1, <2>2, <2>3 DEF ReadPrompts
<1>10. NewPrompts(k)'
  <2> SUFFICES ASSUME NEW i \in Jobs, Key(i) = k, pc'[i] \in {"record", "recordChoice"}
               PROVE  /\ live'[k] = i
                      /\ pc'[i] = "record" => ~row'[k].known /\ obj'[i].prompt = said'[k].prompt
                      /\ pc'[i] = "recordChoice" =>
                           /\ row'[k].known
                           /\ \/ row'[k].prompt = said'[k].prompt
                              \/ row'[k].prompt = NoText /\ obj'[i].prompt = said'[k].prompt
    BY <1>2 DEF NewPrompts
  <2>1. i # j /\ pc[i] = pc'[i]  BY <1>2
  <2>2. Unrecorded(k)  BY <2>1 DEF Unrecorded
  <2>3. obj'[i].prompt = obj[i].prompt /\ row'[k].known = row[k].known  BY <1>3, <2>1, <2>2
  <2> QED BY <1>1, <2>1, <2>3 DEF NewPrompts
<1> QED BY <1>5, <1>8, <1>9, <1>10

\* What is written into a row.
LEMMA RowWrites ==
  ASSUME NEW rows \in [Keys -> Rows], NEW k \in Keys
  PROVE  /\ \A text \in Prompts :
              LET r == SetSessionInjectedSystemPrompt(rows, k, text)[k] IN
              /\ r.known = rows[k].known /\ r.agent = rows[k].agent /\ r.model = rows[k].model
              /\ r.prompt = IF rows[k].known THEN text ELSE rows[k].prompt
         /\ \A model \in Models \cup {None} :
              LET r == SetSessionSelectedModel(rows, k, model)[k] IN
              /\ r.known = rows[k].known /\ r.agent = rows[k].agent /\ r.prompt = rows[k].prompt
              /\ r.model = IF rows[k].known THEN model ELSE rows[k].model
<1>0. rows[k] \in Rows  OBVIOUS
<1>1. ASSUME NEW text \in Prompts
      PROVE  LET r == SetSessionInjectedSystemPrompt(rows, k, text)[k] IN
             /\ r.known = rows[k].known /\ r.agent = rows[k].agent /\ r.model = rows[k].model
             /\ r.prompt = IF rows[k].known THEN text ELSE rows[k].prompt
  <2> DEFINE new == [rows[k] EXCEPT !.prompt = text]
  <2>1. /\ new.known = rows[k].known /\ new.agent = rows[k].agent /\ new.model = rows[k].model
        /\ new.prompt = text
    BY <1>0 DEF Rows
  <2>2. SetSessionInjectedSystemPrompt(rows, k, text)[k] = IF rows[k].known THEN new ELSE rows[k]
    BY DEF SetSessionInjectedSystemPrompt
  <2> HIDE DEF new
  <2> QED BY <2>1, <2>2
<1>2. ASSUME NEW model \in Models \cup {None}
      PROVE  LET r == SetSessionSelectedModel(rows, k, model)[k] IN
             /\ r.known = rows[k].known /\ r.agent = rows[k].agent /\ r.prompt = rows[k].prompt
             /\ r.model = IF rows[k].known THEN model ELSE rows[k].model
  <2> DEFINE new == [rows[k] EXCEPT !.model = model]
  <2>1. /\ new.known = rows[k].known /\ new.agent = rows[k].agent /\ new.prompt = rows[k].prompt
        /\ new.model = model
    BY <1>0 DEF Rows
  <2>2. SetSessionSelectedModel(rows, k, model)[k] = IF rows[k].known THEN new ELSE rows[k]
    BY DEF SetSessionSelectedModel
  <2> HIDE DEF new
  <2> QED BY <2>1, <2>2
<1> QED BY <1>1, <1>2

\* A row that is inserted has no prompt and no model; one that is there is kept.
LEMMA RowInserts ==
  ASSUME row \in [Keys -> Rows], NEW k \in Keys, NEW a, NEW p, NEW d, NEW r
  PROVE  LET new == UpsertSession(k, a, p, d, r)[k] IN
         IF row[k].known THEN new = row[k]
         ELSE new.known /\ new.agent = a /\ new.prompt = NoText /\ new.model = None
<1> DEFINE new == [NoRow EXCEPT !.known = TRUE, !.agent = a, !.parent = p, !.depth = d, !.roots = r]
<1>1. new.known /\ new.agent = a /\ new.prompt = NoText /\ new.model = None  BY DEF NoRow
<1>2. UpsertSession(k, a, p, d, r)[k] = IF row[k].known THEN row[k] ELSE new  BY DEF UpsertSession
<1> HIDE DEF new
<1> QED BY <1>1, <1>2

\* What a step of a request does to its own row, and to what was said of the prompt.
LEMMA RowMoves ==
  ASSUME TypeInv, NEW j \in Jobs, JobStep(j), NEW k \in Keys, k = Key(j),
         ~Create(j), ~StartRun(j), ~ResumePrompt(j), ~ResumeModel(j), ~RecordChild(j), ~RecordChoice(j)
  PROVE  row' = row
BY DEF JobStep, TakeLock, GetSession, ResumeLoad, Config, Apply,
       ReadOrigin, ReadChoice, BuildEngine, RefuseEngine, Restore, Publish, StartChild,
       Inherit, StoreChild, StartTask, Turn, Persist, disk
\* What a step makes of what was last said: the prompt, the model, the tools and the
\* cap each change only where a request sets them.
LEMMA SaidMoves ==
  ASSUME TypeInv, NEW j \in Jobs, JobStep(j), NEW k \in Keys, k = Key(j)
  PROVE  /\ ~Create(j) /\ ~ResumePrompt(j) /\ ~Apply(j) /\ ~StoreChild(j) =>
              said'[k].prompt = said[k].prompt
         /\ \/ Create(j) \/ StartRun(j) \/ ResumeLoad(j) \/ ResumeModel(j) \/ Apply(j) \/ StoreChild(j)
            \/ TakeLock(j) \/ Publish(j) \/ said'[k].model = said[k].model
         /\ \/ Persist(j) \/ Apply(j) \/ StoreChild(j) \/ TakeLock(j) \/ Publish(j)
            \/ said'[k].off = said[k].off /\ said'[k].cap = said[k].cap
         /\ live'[k] = live[k] \/ TakeLock(j) \/ StoreChild(j) \/ Publish(j)
         /\ file' = file \/ Persist(j)
<1>0. said \in [Keys -> Saids] /\ live \in [Keys -> Jobs \cup {None}] /\ said[k] \in Saids
  BY TypeParts DEF TypeInv, ControlOK, RecordsOK
<1>1. CASE Create(j)  BY <1>0, <1>1 DEF Create, memory, Saids
<1>2. CASE StartRun(j)  BY <1>0, <1>2 DEF StartRun, ghosts, Saids
<1>3. CASE TakeLock(j)
  <2>1. Recorded(k).prompt = said[k].prompt  BY DEF Recorded
  <2> QED BY <1>0, <1>3, <2>1 DEF TakeLock, Forgotten, disk
<1>4. CASE ResumePrompt(j)  BY <1>0, <1>4 DEF ResumePrompt, memory, Saids
<1>5. CASE ResumeModel(j)  BY <1>0, <1>5 DEF ResumeModel, memory, Saids
<1>6. CASE ResumeLoad(j)  BY <1>0, <1>6 DEF ResumeLoad, disk, Saids
<1>7. CASE Apply(j)  BY <1>7 DEF Apply, disk
<1>8. CASE Publish(j)  BY <1>0, <1>8 DEF Publish, disk, Saids
<1>9. CASE StoreChild(j)  BY <1>9 DEF StoreChild, disk
<1>10. CASE Persist(j)  BY <1>0, <1>10 DEF Persist, Saids
<1>11. CASE \/ GetSession(j) \/ Config(j) \/ ReadOrigin(j) \/ ReadChoice(j) \/ BuildEngine(j)
            \/ RefuseEngine(j) \/ Restore(j) \/ StartChild(j) \/ Inherit(j) \/ RecordChild(j)
            \/ RecordChoice(j) \/ StartTask(j) \/ Turn(j)
  BY <1>11
     DEF GetSession, Config, ReadOrigin, ReadChoice, BuildEngine, RefuseEngine, Restore, StartChild,
         Inherit, RecordChild, RecordChoice, StartTask, Turn, ghosts, disk, memory
<1> QED BY <1>1, <1>2, <1>3, <1>4, <1>5, <1>6, <1>7, <1>8, <1>9, <1>10, <1>11 DEF JobStep

\* A key that nobody has heard of has no row and no session, and nobody builds one
\* but as a child.
LEMMA UnheardKey ==
  ASSUME TypeInv, PlaceInv, OriginInv, NEW k \in Keys, ~Heard(k)
  PROVE  /\ live[k] = None /\ row[k] = NoRow /\ ~row[k].known
         /\ \A i \in Jobs : ~Reads(i, k)
  BY DEF OriginInv, KeyOrigin, RowIsWhole, IsUnheard, JobOrigin, IsRebuilt, Reads, Readers, BuildPcs

\* Only children are recorded, and a key has one.
LEMMA OneChild ==
  ASSUME TypeInv, NEW i \in Jobs, NEW j \in Jobs, Key(i) = Key(j),
         pc[i] \in {"store", "record", "recordChoice"}
  PROVE  /\ IsChild(i) /\ Above[Key(i)] # None
         /\ IsChild(j) => i = j
  BY AskType, SettingsAssumption DEF TypeInv, TypeOK, AtInv, OnlyChildPcs

\* A create writes the row's prompt, or finds the row there and says what it has.
LEMMA CreateKeepsPrompts ==
  ASSUME TypeInv, PlaceInv, OriginInv, PromptInv, NEW j \in Jobs, Create(j), NEW k \in Keys, k = Key(j)
  PROVE  KeyPrompts(k)'
<1> SUFFICES ASSUME Calm(k)'
             PROVE  (RowPrompts(k) /\ LivePrompts(k) /\ ReadPrompts(k) /\ NewPrompts(k))'
  BY DEF KeyPrompts
<1> DEFINE prompt == IF Says(j, "prompt") THEN Ask(j).prompt ELSE NoText
           model == IF Says(j, "model") THEN Ask(j).model ELSE None
           first == UpsertSession(k, Ask(j).agent, None, 0, Home)
           second == SetSessionInjectedSystemPrompt(first, k, prompt)
<1>0. JobStep(j) /\ ~Heard(k)  BY DEF JobStep, Create, Heard
<1>1. /\ situation' = situation /\ \A h \in Jobs \ {j} : pc'[h] = pc[h]
      /\ \A h \in Jobs : Key(h)' = Key(h) /\ (IsChild(h)' <=> IsChild(h))
  BY <1>0, JobMoves, AsksStay
<1>2. /\ pc \in [Jobs -> PCs] /\ row \in [Keys -> Rows] /\ said \in [Keys -> Saids] /\ said[k] \in Saids
  BY TypeParts DEF TypeInv, ControlOK, RecordsOK
<1>3. /\ pc'[j] = "done" /\ live' = live /\ said'[k].prompt = prompt
      /\ row' = SetSessionSelectedModel(second, k, model)
  BY <1>2 DEF Create, Goes, memory, Saids
<1>4. row'[k].prompt = prompt
  <2>1. Ask(j).agent \in Agents /\ prompt \in Prompts /\ model \in Models \cup {None}
    BY AskType, SettingsAssumption DEF Create, TypeInv, TypeOK
  <2>2. first \in [Keys -> Rows] /\ first[k].known
    <3> HIDE DEF first
    <3>1. first = UpsertSession(k, Ask(j).agent, None, 0, Home)  BY DEF first
    <3> QED BY <1>2, <2>1, <3>1, RootValue
  <2> HIDE DEF first, prompt, model
  <2>3. second \in [Keys -> Rows] /\ second[k].known /\ second[k].prompt = prompt
    BY <2>1, <2>2, RowWrites, ChoiceValue
  <2> HIDE DEF second
  <2> QED BY <1>3, <2>1, <2>3, RowWrites
<1>5. live[k] = None /\ \A i \in Jobs : ~Reads(i, k)  BY <1>0, UnheardKey
<1>6. \A i \in Jobs : Key(i) = k => pc[i] \notin {"record", "recordChoice"}
  BY <1>0, <1>5, CalmStays, SettingsAssumption DEF PromptInv, KeyPrompts, NewPrompts
<1>7. RowPrompts(k)'  BY <1>3, <1>4 DEF RowPrompts
<1>8. LivePrompts(k)'  BY <1>3, <1>5 DEF LivePrompts
<1>9. ReadPrompts(k)'  BY <1>1, <1>3, <1>5 DEF ReadPrompts, Reads, Readers
<1>10. NewPrompts(k)'  BY <1>1, <1>3, <1>6 DEF NewPrompts
<1> QED BY <1>7, <1>8, <1>9, <1>10

\* A resume that brings a prompt writes it and owes it from then on.
LEMMA ResumeKeepsPrompts ==
  ASSUME TypeInv, PlaceInv, OriginInv, PromptInv, NEW j \in Jobs, ResumePrompt(j),
         NEW k \in Keys, k = Key(j)
  PROVE  KeyPrompts(k)'
<1>0. JobStep(j) /\ ~Apply(j) /\ KeyPrompts(k)  BY DEF JobStep, ResumePrompt, Apply, Goes, PromptInv
<1>1. /\ situation' = situation /\ \A h \in Jobs \ {j} : pc'[h] = pc[h]
      /\ \A h \in Jobs : Key(h)' = Key(h) /\ (IsChild(h)' <=> IsChild(h))
      /\ Ask(j)' = Ask(j) /\ (Says(j, "prompt")' <=> Says(j, "prompt"))
  BY <1>0, JobMoves, AsksStay
<1>2. /\ pc \in [Jobs -> PCs] /\ row \in [Keys -> Rows] /\ said \in [Keys -> Saids] /\ said[k] \in Saids
      /\ Ask(j).prompt \in Prompts
  BY TypeParts, AskType DEF TypeInv, ControlOK, RecordsOK
<1>3. pc[j] = "idle" /\ pc'[j] \in {"done", "model"} /\ live' = live  BY <1>2 DEF ResumePrompt, Goes, memory
<1>4. CASE ~(Says(j, "prompt") /\ row[k].known)
  <2>1. row' = row /\ said' = said  BY <1>4 DEF ResumePrompt
  <2> QED BY <1>0, <1>3, <2>1, PromptStays DEF Readers
<1>5. CASE Says(j, "prompt") /\ row[k].known
  <2> SUFFICES ASSUME Calm(k)'
               PROVE  (RowPrompts(k) /\ LivePrompts(k) /\ ReadPrompts(k) /\ NewPrompts(k))'
    BY DEF KeyPrompts
  <2>1. said'[k].prompt = Ask(j).prompt /\ row'[k].prompt = Ask(j).prompt /\ row'[k].known
    BY <1>2, <1>5, RowWrites DEF ResumePrompt, Saids
  <2>2. Owes(j, k, "prompt")' /\ pc'[j] = "model"
    BY <1>1, <1>2, <1>5 DEF Owes, ResumePrompt, Goes
  <2>3. NewPrompts(k)  BY <1>0, CalmStays DEF KeyPrompts
  <2>4. RowPrompts(k)'  BY <2>1 DEF RowPrompts
  <2>5. LivePrompts(k)'  BY <2>1, <2>2 DEF LivePrompts, Due
  <2>6. ReadPrompts(k)'
    <3>1. \A i \in Jobs : Reads(i, k)' => i # j  BY <2>2 DEF Reads, Readers
    <3> QED BY <2>1, <2>2, <3>1 DEF ReadPrompts, DueBeside
  <2>7. NewPrompts(k)'
    <3>1. \A i \in Jobs : Key(i) = k => pc[i] # "record"  BY <1>5, <2>3 DEF NewPrompts
    <3> QED BY <1>1, <1>3, <2>1, <2>3, <3>1 DEF NewPrompts
  <2> QED BY <2>4, <2>5, <2>6, <2>7
<1> QED BY <1>4, <1>5

\* A resume or a config: what it gives to the session its callers were told, unless
\* another resume has crossed it.
LEMMA ApplyKeepsPrompts ==
  ASSUME TypeInv, PlaceInv, OriginInv, FilterInv, PromptInv, NEW j \in Jobs, Apply(j),
         NEW k \in Keys, k = Key(j)
  PROVE  KeyPrompts(k)'
<1> SUFFICES ASSUME Calm(k)'
             PROVE  (RowPrompts(k) /\ LivePrompts(k) /\ ReadPrompts(k) /\ NewPrompts(k))'
  BY DEF KeyPrompts
<1>0. JobStep(j) /\ pc[j] = "apply"  BY DEF JobStep, Apply, Goes
<1>1. /\ situation' = situation /\ \A h \in Jobs \ {j} : pc'[h] = pc[h]
      /\ \A h \in Jobs : Key(h)' = Key(h) /\ (IsChild(h)' <=> IsChild(h))
  BY <1>0, JobMoves, AsksStay
<1>2. /\ pc \in [Jobs -> PCs] /\ at \in [Jobs -> Jobs \cup {None}] /\ flags \in [Keys -> SUBSET Marks]
      /\ said \in [Keys -> Saids] /\ obj \in [Jobs -> Objects] /\ situation \in Situations
      /\ live \in [Keys -> Jobs \cup {None}] /\ None \notin Jobs
      /\ live[k] # None => Key(live[k]) = k /\ pc[live[k]] \in MadePcs
  BY TypeParts, SettingsAssumption DEF TypeInv, ControlOK, RecordsOK, ObjOK, PlaceInv
<1>3. /\ pc'[j] = "done" /\ live' = live /\ row' = row
      /\ said'[k].prompt = IF live[k] = at[j] /\ Says(j, "prompt") THEN Ask(j).prompt ELSE said[k].prompt
  BY <1>2 DEF Apply, Goes, disk
<1>4. RowPrompts(k) /\ LivePrompts(k) /\ ReadPrompts(k) /\ NewPrompts(k)
  BY <1>0, CalmStays DEF PromptInv, KeyPrompts
<1>5. at[j] \in Jobs /\ Key(at[j]) = k /\ pc[at[j]] \in MadePcs
  BY <1>0, AppliedValue DEF PlaceInv, FilterInv, IsFiltered, AtPcs
<1>6. Says(j, "prompt") => Ask(j).kind = "resume" /\ row[k].prompt = Ask(j).prompt
  <2>1. Ask(j).kind \in {"resume", "config"}  BY <1>0 DEF FilterInv, IsFiltered
  <2>2. ~(flags' = [flags EXCEPT ![k] = flags[k] \cup {"raced"}])  BY <1>2 DEF Calm
  <2> QED BY <1>2, <2>1, <2>2, SaysType DEF Apply, MarkIf
<1>7. obj'[at[j]].prompt = IF Says(j, "prompt") THEN Ask(j).prompt ELSE obj[at[j]].prompt
  BY AppliedSettings
<1>8. \A i \in Jobs \ {at[j], j} : obj'[i].prompt = obj[i].prompt
  BY <1>0, SettingsStay DEF SameSettings
<1>9. \A i \in Jobs :
        /\ Key(i) = k /\ pc'[i] \in Readers \cup {"record", "recordChoice"} => i # j /\ pc[i] = pc'[i]
        /\ pc[i] \in Readers => i # at[j]
  BY <1>1, <1>3, <1>5 DEF Readers, MadePcs
<1>10. ASSUME NEW i \in Jobs, Owes(i, k, "prompt"), row[k].known, i # j,
              live[k] # None \/ \E h \in Jobs \ {i} : Key(h) = k /\ pc[h] \in Readers
       PROVE  Owes(i, k, "prompt")'
  BY <1>0, <1>3, <1>10, OweKept
<1>11. Owes(j, k, "prompt") => at[j] = live[k] /\ Says(j, "prompt")
  BY <1>0 DEF Owes, Readers
<1>12. Unrecorded(k)' <=> Unrecorded(k)  BY <1>0, <1>1, <1>3 DEF Unrecorded
<1>13. RowPrompts(k)'  BY <1>3, <1>4, <1>6, <1>12 DEF RowPrompts
<1>14. LivePrompts(k)'
  <2> SUFFICES ASSUME live[k] # None
               PROVE  obj'[live[k]].prompt = said'[k].prompt \/ Due(k, "prompt")'
    BY <1>3 DEF LivePrompts
  <2>1. CASE live[k] = at[j] /\ Says(j, "prompt")  BY <1>3, <1>7, <2>1
  <2>2. CASE ~(live[k] = at[j] /\ Says(j, "prompt"))
    <3>1. obj'[live[k]].prompt = obj[live[k]].prompt /\ said'[k].prompt = said[k].prompt
      <4>1. live[k] # j  BY <1>0, <1>2 DEF MadePcs
      <4> QED BY <1>2, <1>3, <1>7, <1>8, <2>2, <4>1
    <3>2. Due(k, "prompt") => Due(k, "prompt")'
      <4> SUFFICES ASSUME row[k].known, NEW i \in Jobs, Owes(i, k, "prompt")
                   PROVE  Due(k, "prompt")'
        BY DEF Due
      <4> QED BY <1>3, <1>10, <1>11, <2>2 DEF Due
    <3> QED BY <1>4, <3>1, <3>2 DEF LivePrompts
  <2> QED BY <2>1, <2>2
<1>15. ReadPrompts(k)'
  <2> SUFFICES ASSUME live[k] = None, NEW i \in Jobs, Reads(i, k)'
               PROVE  obj'[i].prompt = said'[k].prompt \/ DueBeside(k, i, "prompt")'
    BY <1>3 DEF ReadPrompts
  <2>1. Reads(i, k) /\ i # at[j] /\ i # j  BY <1>1, <1>9 DEF Reads
  <2>2. obj'[i].prompt = obj[i].prompt /\ said'[k].prompt = said[k].prompt
    BY <1>2, <1>3, <1>5, <1>8, <2>1
  <2>3. DueBeside(k, i, "prompt") => DueBeside(k, i, "prompt")'
    <3> SUFFICES ASSUME row[k].known, NEW h \in Jobs \ {i}, Owes(h, k, "prompt")
                 PROVE  DueBeside(k, i, "prompt")'
      BY DEF DueBeside
    <3>1. Owes(h, k, "prompt")'  BY <1>2, <1>5, <1>10, <1>11, <2>1 DEF Reads
    <3> QED BY <1>3, <3>1 DEF DueBeside
  <2> QED BY <1>4, <2>1, <2>2, <2>3 DEF ReadPrompts
<1>16. NewPrompts(k)'
  <2> SUFFICES ASSUME NEW i \in Jobs, Key(i) = k, pc'[i] \in {"record", "recordChoice"}
               PROVE  /\ live'[k] = i
                      /\ pc'[i] = "record" => ~row'[k].known /\ obj'[i].prompt = said'[k].prompt
                      /\ pc'[i] = "recordChoice" =>
                           /\ row'[k].known
                           /\ \/ row'[k].prompt = said'[k].prompt
                              \/ row'[k].prompt = NoText /\ obj'[i].prompt = said'[k].prompt
    BY <1>1 DEF NewPrompts
  <2>1. i # j /\ pc[i] = pc'[i] /\ live[k] = i  BY <1>4, <1>9 DEF NewPrompts
  <2>2. CASE at[j] = i  BY <1>3, <1>4, <1>6, <1>7, <2>1, <2>2 DEF NewPrompts
  <2>3. CASE at[j] # i  BY <1>3, <1>4, <1>8, <2>1, <2>3 DEF NewPrompts
  <2> QED BY <2>2, <2>3
<1> QED BY <1>13, <1>14, <1>15, <1>16

\* The session that is published has read the prompt that was last said, or else it
\* is due.
LEMMA PublishKeepsPrompts ==
  ASSUME TypeInv, PlaceInv, OriginInv, PromptInv, NEW j \in Jobs, Publish(j), NEW k \in Keys, k = Key(j)
  PROVE  KeyPrompts(k)'
<1>0. /\ JobStep(j) /\ ~Apply(j) /\ KeyPrompts(k) /\ pc[j] = "publish" /\ ~IsChild(j)
  BY DEF JobStep, Publish, Apply, Goes, PromptInv, TypeInv, AtInv, RequestPcs
<1>1. /\ situation' = situation /\ \A h \in Jobs \ {j} : pc'[h] = pc[h] /\ at'[h] = at[h]
      /\ \A h \in Jobs : /\ Key(h)' = Key(h) /\ Ask(h)' = Ask(h) /\ (IsChild(h)' <=> IsChild(h))
                         /\ Says(h, "prompt")' <=> Says(h, "prompt")
  BY <1>0, JobMoves, AsksStay
<1>2. /\ pc \in [Jobs -> PCs] /\ live \in [Keys -> Jobs \cup {None}] /\ None \notin Jobs
  BY SettingsAssumption DEF TypeInv, TypeOK
<1>3. /\ pc'[j] \in {"turn", "done"} /\ obj' = obj /\ row' = row /\ said'[k].prompt = said[k].prompt
      /\ live'[k] = IF live[k] = None THEN j ELSE live[k]
  <2>1. said'[k].prompt = said[k].prompt  BY <1>0, SaidMoves DEF Publish, Create, ResumePrompt, StoreChild, Goes
  <2> QED BY <1>2, <2>1 DEF Publish, Goes, disk
<1>4. CASE live[k] # None
  <2>1. live'[k] = live[k]  BY <1>3, <1>4
  <2> QED BY <1>0, <1>3, <2>1, PromptStays DEF Readers
<1>5. CASE live[k] = None
  <2> SUFFICES ASSUME Calm(k)'
               PROVE  (RowPrompts(k) /\ LivePrompts(k) /\ ReadPrompts(k) /\ NewPrompts(k))'
    BY DEF KeyPrompts
  <2>1. RowPrompts(k) /\ ReadPrompts(k) /\ NewPrompts(k)  BY <1>0, CalmStays DEF KeyPrompts
  <2>2. \A i \in Jobs : Key(i) = k => pc[i] \notin {"record", "recordChoice"}
    BY <1>2, <1>5, <2>1 DEF NewPrompts
  <2>3. ~Unrecorded(k) /\ ~Unrecorded(k)'  BY <1>1, <1>3, <2>2 DEF Unrecorded
  <2>4. RowPrompts(k)'  BY <1>3, <2>1, <2>3 DEF RowPrompts
  <2>5. LivePrompts(k)'
    <3>1. obj[j].prompt = said[k].prompt \/ DueBeside(k, j, "prompt")
      BY <1>0, <1>5, <2>1 DEF ReadPrompts, Reads, Readers
    <3>2. DueBeside(k, j, "prompt") => Due(k, "prompt")'
      BY <1>1, <1>3, <1>5 DEF DueBeside, Due, Owes
    <3> QED BY <1>3, <1>5, <3>1, <3>2 DEF LivePrompts
  <2>6. ReadPrompts(k)'  BY <1>2, <1>3, <1>5 DEF ReadPrompts
  <2>7. NewPrompts(k)'  BY <1>1, <1>3, <2>2 DEF NewPrompts
  <2> QED BY <2>4, <2>5, <2>6, <2>7
<1> QED BY <1>4, <1>5

\* A build reads from the row what was last said.
LEMMA ReadKeepsPrompts ==
  ASSUME TypeInv, PlaceInv, OriginInv, PromptInv, NEW j \in Jobs, ReadOrigin(j), NEW k \in Keys, k = Key(j)
  PROVE  KeyPrompts(k)'
<1> SUFFICES ASSUME Calm(k)' PROVE KeyPrompts(k)'  BY DEF KeyPrompts
<1>0. /\ JobStep(j) /\ ~Apply(j) /\ KeyPrompts(k)
  BY DEF JobStep, ReadOrigin, Apply, Goes, PromptInv
<1>1. /\ pc \in [Jobs -> PCs] /\ live \in [Keys -> Jobs \cup {None}] /\ None \notin Jobs
  BY SettingsAssumption DEF TypeInv, TypeOK
<1>2. /\ pc[j] = "origin" /\ pc'[j] \in {"choice", "done"} /\ row' = row /\ said' = said /\ live' = live
  BY <1>1 DEF ReadOrigin, Goes, disk
<1>3. pc'[j] = "choice" => obj'[j].prompt = said'[k].prompt \/ live[k] # None
  <2> SUFFICES ASSUME pc'[j] = "choice", live[k] = None PROVE obj'[j].prompt = said'[k].prompt
    OBVIOUS
  <2>1. obj'[j].prompt = row[k].prompt  BY OriginReadSettings
  <2>2. RowPrompts(k) /\ NewPrompts(k)  BY <1>0, CalmStays DEF KeyPrompts
  <2>3. ~Unrecorded(k)  BY <1>1, <2>2 DEF Unrecorded, NewPrompts
  <2> QED BY <1>2, <2>1, <2>2, <2>3 DEF RowPrompts
<1> QED BY <1>0, <1>2, <1>3, PromptStays DEF Readers

\* What ends a session while nobody builds one leaves the prompt of the row.
LEMMA EndKeepsPrompts ==
  ASSUME NEW k \in Keys, KeyPrompts(k), ~Building(k), Calm(k), situation' = situation, live'[k] = None,
         row'[k].prompt = row[k].prompt, said'[k].prompt = said[k].prompt,
         \A i \in Jobs : Key(i) = k => pc'[i] = pc[i] \/ pc'[i] \notin Readers \cup {"record", "recordChoice"}
  PROVE  KeyPrompts(k)'
<1>1. \A h \in Jobs : Key(h)' = Key(h) /\ (IsChild(h)' <=> IsChild(h))  BY AsksStay
<1>2. \A i \in Jobs : Key(i) = k => pc'[i] \notin Readers \cup {"record", "recordChoice"}
  BY DEF Building, Unrecorded, Readers
<1>3. RowPrompts(k) /\ ~Unrecorded(k)  BY DEF KeyPrompts, Building
<1>4. RowPrompts(k)'  BY <1>3 DEF RowPrompts
<1>5. LivePrompts(k)'  BY DEF LivePrompts
<1>6. ReadPrompts(k)'  BY <1>1, <1>2 DEF ReadPrompts, Reads
<1>7. NewPrompts(k)'  BY <1>1, <1>2 DEF NewPrompts
<1> QED BY <1>4, <1>5, <1>6, <1>7 DEF KeyPrompts

\* Taking the queue's lock builds nothing: the request starts a build or finds the session.
LEMMA LockKeepsPrompts ==
  ASSUME TypeInv, PlaceInv, OriginInv, PromptInv, NEW j \in Jobs, TakeLock(j), NEW k \in Keys, k = Key(j)
  PROVE  KeyPrompts(k)'
<1> SUFFICES ASSUME Calm(k)' PROVE KeyPrompts(k)'  BY DEF KeyPrompts
<1>0. /\ JobStep(j) /\ ~Apply(j) /\ KeyPrompts(k)
  BY DEF JobStep, TakeLock, Apply, Goes, PromptInv
<1>1. /\ pc \in [Jobs -> PCs] /\ live \in [Keys -> Jobs \cup {None}] /\ flags \in [Keys -> SUBSET Marks]
  BY DEF TypeInv, TypeOK, Marks
<1>2. /\ pc[j] = "lock" /\ pc'[j] = "get" /\ row' = row /\ obj' = obj
  BY <1>1 DEF TakeLock, Goes, disk
<1>3. said'[k].prompt = said[k].prompt
  BY <1>0, SaidMoves DEF TakeLock, Create, ResumePrompt, StoreChild, Goes
<1>4. CASE live'[k] = live[k]  BY <1>0, <1>2, <1>3, <1>4, PromptStays DEF Readers
<1>5. CASE live'[k] # live[k]
  <2>1. Says(j, "fresh") /\ live'[k] = None /\ MarkIf(k, Building(k), "raced")
    BY <1>1, <1>5 DEF TakeLock
  <2>2. ~Building(k)  BY <1>1, <2>1 DEF MarkIf, Calm
  <2>3. \A i \in Jobs : pc'[i] = pc[i] \/ pc'[i] \notin Readers \cup {"record", "recordChoice"}
    BY <1>0, <1>2, JobMoves DEF Readers
  <2> QED BY <1>0, <1>2, <1>3, <2>1, <2>2, <2>3, CalmStays, JobMoves, EndKeepsPrompts
<1> QED BY <1>4, <1>5

\* A child that is stored is what its callers are told.
LEMMA StoreKeepsPrompts ==
  ASSUME TypeInv, PlaceInv, OriginInv, PromptInv, NEW j \in Jobs, StoreChild(j), NEW k \in Keys, k = Key(j)
  PROVE  KeyPrompts(k)'
<1>0. JobStep(j) /\ pc[j] = "store"  BY DEF JobStep, StoreChild, Goes
<1>1. /\ situation' = situation /\ \A h \in Jobs \ {j} : pc'[h] = pc[h]
      /\ \A h \in Jobs : Key(h)' = Key(h) /\ (IsChild(h)' <=> IsChild(h))
  BY <1>0, JobMoves, AsksStay
<1>2. /\ pc \in [Jobs -> PCs] /\ live \in [Keys -> Jobs \cup {None}] /\ None \notin Jobs
      /\ said \in [Keys -> Saids]
  BY TypeParts, SettingsAssumption DEF TypeInv, ControlOK, RecordsOK
<1>3. /\ pc'[j] = "record" /\ obj' = obj /\ row' = row /\ live'[k] = j
      /\ said'[k].prompt = obj[j].prompt
  BY <1>2 DEF StoreChild, Goes, disk
<1>4. ~row[k].known
  <2>1. ~Heard(k)  BY <1>0, OneChild DEF OriginInv, JobOrigin, IsMinted
  <2> QED BY <2>1, UnheardKey
<1>5. Unrecorded(k)'  BY <1>1, <1>3 DEF Unrecorded
<1>6. \A i \in Jobs : Key(i) = k /\ pc'[i] \in {"record", "recordChoice"} => i = j
  BY <1>0, <1>1, OneChild
<1>7. RowPrompts(k)'  BY <1>5 DEF RowPrompts
<1>8. LivePrompts(k)'  BY <1>3 DEF LivePrompts
<1>9. ReadPrompts(k)'  BY <1>2, <1>3 DEF ReadPrompts
<1>10. NewPrompts(k)'  BY <1>1, <1>3, <1>4, <1>6 DEF NewPrompts
<1> QED BY <1>7, <1>8, <1>9, <1>10 DEF KeyPrompts

\* Its row comes with no prompt, ...
LEMMA RecordKeepsPrompts ==
  ASSUME TypeInv, PlaceInv, OriginInv, PromptInv, NEW j \in Jobs, RecordChild(j), NEW k \in Keys, k = Key(j)
  PROVE  KeyPrompts(k)'
<1> SUFFICES ASSUME Calm(k)'
             PROVE  (RowPrompts(k) /\ LivePrompts(k) /\ ReadPrompts(k) /\ NewPrompts(k))'
  BY DEF KeyPrompts
<1>0. JobStep(j) /\ pc[j] = "record"  BY DEF JobStep, RecordChild, Goes
<1>1. /\ situation' = situation /\ \A h \in Jobs \ {j} : pc'[h] = pc[h]
      /\ \A h \in Jobs : Key(h)' = Key(h) /\ (IsChild(h)' <=> IsChild(h))
  BY <1>0, JobMoves, AsksStay
<1>2. /\ pc \in [Jobs -> PCs] /\ None \notin Jobs /\ row \in [Keys -> Rows]
  BY SettingsAssumption DEF TypeInv, TypeOK
<1>3. /\ pc'[j] = "recordChoice" /\ obj' = obj /\ said' = said /\ live' = live
      /\ row' = UpsertSession(k, obj[j].agent, obj[j].parent, obj[j].depth, obj[j].roots)
  BY <1>2 DEF RecordChild, Goes, memory, ghosts
<1>4. live[k] = j /\ ~row[k].known /\ obj[j].prompt = said[k].prompt
  BY <1>0, CalmStays DEF PromptInv, KeyPrompts, NewPrompts
<1>5. row'[k].known /\ row'[k].prompt = NoText  BY <1>2, <1>3, <1>4, RowInserts
<1>6. Unrecorded(k)'  BY <1>1, <1>3 DEF Unrecorded
<1>7. \A i \in Jobs : Key(i) = k /\ pc'[i] \in {"record", "recordChoice"} => i = j
  BY <1>0, <1>1, OneChild
<1>8. RowPrompts(k)'  BY <1>6 DEF RowPrompts
<1>9. LivePrompts(k)'  BY <1>3, <1>4 DEF LivePrompts
<1>10. ReadPrompts(k)'  BY <1>2, <1>3, <1>4 DEF ReadPrompts
<1>11. NewPrompts(k)'  BY <1>1, <1>3, <1>4, <1>5, <1>7 DEF NewPrompts
<1> QED BY <1>8, <1>9, <1>10, <1>11

\* ... then gets the child's, if it has one.
LEMMA ChoiceKeepsPrompts ==
  ASSUME TypeInv, PlaceInv, OriginInv, PromptInv, NEW j \in Jobs, RecordChoice(j), NEW k \in Keys, k = Key(j)
  PROVE  KeyPrompts(k)'
<1> SUFFICES ASSUME Calm(k)'
             PROVE  (RowPrompts(k) /\ LivePrompts(k) /\ ReadPrompts(k) /\ NewPrompts(k))'
  BY DEF KeyPrompts
<1> DEFINE model == SessionSelectedModel(Above[k])
           prompt == obj[j].prompt
           rows == IF prompt = NoText THEN row ELSE SetSessionInjectedSystemPrompt(row, k, prompt)
<1>0. JobStep(j) /\ pc[j] = "recordChoice" /\ ~Apply(j)  BY DEF JobStep, RecordChoice, Apply, Goes
<1>1. /\ situation' = situation /\ \A h \in Jobs \ {j} : pc'[h] = pc[h]
      /\ \A h \in Jobs : Key(h)' = Key(h) /\ (IsChild(h)' <=> IsChild(h))
  BY <1>0, JobMoves, AsksStay
<1>2. /\ pc \in [Jobs -> PCs] /\ None \notin Jobs /\ row \in [Keys -> Rows]
      /\ flags \in [Keys -> SUBSET Marks] /\ obj \in [Jobs -> Objects]
  BY SettingsAssumption DEF TypeInv, TypeOK, Marks
<1>3. /\ pc'[j] \in {"done", "task"} /\ obj' = obj /\ said' = said /\ live' = live
      /\ row' \in {rows, SetSessionSelectedModel(rows, k, model)}
      /\ MarkIf(k, prompt # NoText /\ prompt # said[k].prompt, "raced")
  BY <1>2 DEF RecordChoice, Goes, memory
<1>4. /\ live[k] = j /\ row[k].known /\ LivePrompts(k)
      /\ row[k].prompt = said[k].prompt \/ (row[k].prompt = NoText /\ prompt = said[k].prompt)
  BY <1>0, CalmStays DEF PromptInv, KeyPrompts, NewPrompts
<1>5. row'[k].known /\ row'[k].prompt = IF prompt = NoText THEN row[k].prompt ELSE prompt
  <2>1. prompt \in Prompts /\ model \in Models \cup {None}
    <3>1. Above[k] \in Keys  BY <1>0, OneChild, AskType DEF TypeInv, TypeOK
    <3> QED BY <1>2, <3>1, ObjectParts DEF SessionSelectedModel, Rows
  <2> HIDE DEF model, prompt
  <2>2. rows \in [Keys -> Rows] /\ rows[k].known
        /\ rows[k].prompt = IF prompt = NoText THEN row[k].prompt ELSE prompt
    BY <1>2, <1>4, <2>1, RowWrites, ChoiceValue
  <2> HIDE DEF rows
  <2> QED BY <1>3, <2>1, <2>2, RowWrites
<1>6. row'[k].prompt = said'[k].prompt
  <2>1. prompt # NoText => prompt = said[k].prompt  BY <1>2, <1>3 DEF MarkIf, Calm
  <2> QED BY <1>3, <1>4, <1>5, <2>1
<1>7. \A i \in Jobs : Key(i) = k => pc'[i] \notin {"record", "recordChoice"}
  BY <1>0, <1>1, <1>3, OneChild
<1>8. RowPrompts(k)'  BY <1>6 DEF RowPrompts
<1>9. LivePrompts(k)'
  <2>1. Due(k, "prompt") => Due(k, "prompt")'
    <3> SUFFICES ASSUME NEW i \in Jobs, Owes(i, k, "prompt") PROVE Due(k, "prompt")'  BY DEF Due
    <3>1. Owes(i, k, "prompt")'  BY <1>0, <1>2, <1>3, <1>4, OweKept
    <3> QED BY <1>5, <3>1 DEF Due
  <2> QED BY <1>3, <1>4, <2>1 DEF LivePrompts
<1>10. ReadPrompts(k)'  BY <1>2, <1>3, <1>4 DEF ReadPrompts
<1>11. NewPrompts(k)'  BY <1>1, <1>7 DEF NewPrompts
<1> QED BY <1>8, <1>9, <1>10, <1>11

\* A run inserts a row without a prompt where there is none to be said.
LEMMA RunKeepsPrompts ==
  ASSUME TypeInv, PlaceInv, OriginInv, PromptInv, NEW j \in Jobs, StartRun(j), NEW k \in Keys, k = Key(j)
  PROVE  KeyPrompts(k)'
<1> SUFFICES ASSUME Calm(k)' PROVE KeyPrompts(k)'  BY DEF KeyPrompts
<1>0. /\ JobStep(j) /\ ~Apply(j) /\ KeyPrompts(k)
  BY DEF JobStep, StartRun, Apply, Goes, PromptInv
<1>1. /\ pc \in [Jobs -> PCs] /\ row \in [Keys -> Rows] /\ flags \in [Keys -> SUBSET Marks]
  BY DEF TypeInv, TypeOK, Marks
<1>2. /\ pc[j] = "idle" /\ pc'[j] \in {"lock", "done"} /\ live' = live
  BY <1>1 DEF StartRun
<1>3. said'[k].prompt = said[k].prompt
  BY <1>0, SaidMoves DEF StartRun, Create, ResumePrompt, StoreChild, Goes
<1>4. row'[k].prompt = row[k].prompt
  <2>1. row' = row \/ \E a : row' = UpsertSession(k, a, None, 0, Home)  BY DEF StartRun, ghosts
  <2>2. ~row[k].known => row[k].prompt = NoText
    BY DEF OriginInv, KeyOrigin, RowIsWhole, NoRow
  <2> QED BY <1>1, <2>1, <2>2, RowInserts
<1>5. row'[k].known = row[k].known \/ ~Unrecorded(k)
  <2> SUFFICES ASSUME row'[k].known # row[k].known PROVE ~Unrecorded(k)  OBVIOUS
  <2>1. row' # row /\ ~row[k].known
    <3>1. row[k].known => row'[k].known  BY <1>0, KnownStays
    <3>2. row[k].known \in BOOLEAN /\ row'[k].known \in BOOLEAN
      <4>1. row'[k] \in Rows /\ row[k] \in Rows  BY <1>0, <1>1, RowValue
      <4> QED BY <4>1 DEF Rows
    <3> QED BY <3>1, <3>2
  <2>2. Above[k] = None  BY <1>1, <2>1 DEF StartRun, Calm
  <2> QED BY <2>2, OneChild DEF Unrecorded
<1> QED BY <1>0, <1>2, <1>3, <1>4, <1>5, PromptStays DEF Readers

\* The steps of a build after the origin leave the prompt.
LEMMA BuildsAlike ==
  ASSUME TypeInv, NEW j \in Jobs, ReadChoice(j) \/ BuildEngine(j) \/ Restore(j), ~IsChild(j), FilterInv
  PROVE  obj'[j].prompt = obj[j].prompt /\ obj'[j].agent = obj[j].agent
<1>1. CASE ReadChoice(j)  BY <1>1, ChoiceReadSettings
<1>2. CASE BuildEngine(j)  BY <1>2, BuiltSettings
<1>3. CASE Restore(j)
  <2>1. obj[j].off = {} /\ obj[j].tools = InitTools(obj[j].agent)
    BY <1>3 DEF FilterInv, IsFiltered, Restore, Goes
  <2> QED BY <1>3, <2>1, RestoredSettings
<1> QED BY <1>1, <1>2, <1>3

\* The steps of requests keep the prompts.
LEMMA JobKeepsPrompts ==
  ASSUME TypeInv, PlaceInv, OriginInv, FilterInv, PromptInv, NEW j \in Jobs, JobStep(j)
  PROVE  PromptInv'
<1> SUFFICES ASSUME NEW k \in Keys PROVE KeyPrompts(k)'  BY DEF PromptInv
<1>0. KeyPrompts(k) /\ pc \in [Jobs -> PCs] /\ row \in [Keys -> Rows]
  BY DEF PromptInv, TypeInv, TypeOK
<1>1. CASE k # Key(j)
  <2>1. row'[k] = row[k] /\ said'[k] = said[k] /\ live'[k] = live[k]  BY <1>1, OtherKeys
  <2> QED BY <1>0, <1>1, <2>1, PromptStays
<1>2. CASE k = Key(j)
  <2>1. CASE \/ Create(j) \/ ResumePrompt(j) \/ Apply(j) \/ Publish(j) \/ ReadOrigin(j) \/ TakeLock(j)
             \/ StoreChild(j) \/ RecordChild(j) \/ RecordChoice(j) \/ StartRun(j)
    BY <1>2, <2>1, CreateKeepsPrompts, ResumeKeepsPrompts, ApplyKeepsPrompts, PublishKeepsPrompts,
       ReadKeepsPrompts, LockKeepsPrompts, StoreKeepsPrompts, RecordKeepsPrompts, ChoiceKeepsPrompts,
       RunKeepsPrompts
  <2>2. CASE /\ ~Create(j) /\ ~ResumePrompt(j) /\ ~Apply(j) /\ ~Publish(j) /\ ~ReadOrigin(j) /\ ~TakeLock(j)
             /\ ~StoreChild(j) /\ ~RecordChild(j) /\ ~RecordChoice(j) /\ ~StartRun(j)
    <3>1. \/ GetSession(j) \/ ResumeModel(j) \/ ResumeLoad(j) \/ Config(j) \/ ReadChoice(j)
          \/ BuildEngine(j) \/ RefuseEngine(j) \/ Restore(j) \/ StartChild(j) \/ Inherit(j)
          \/ StartTask(j) \/ Turn(j) \/ Persist(j)
      BY <2>2 DEF JobStep
    <3>2. said'[k].prompt = said[k].prompt /\ live'[k] = live[k]  BY <1>2, <2>2, SaidMoves
    <3>3. {pc[j], pc'[j]} \cap {"record", "recordChoice"} = {}
      BY <1>0, <3>1
         DEF GetSession, ResumeModel, ResumeLoad, Config, ReadChoice, BuildEngine, RefuseEngine, Restore,
             StartChild, Inherit, StartTask, Turn, Persist, Goes
    <3>4. pc'[j] \in Readers =>
            IsChild(j) \/ (pc[j] \in Readers /\ obj'[j].prompt = obj[j].prompt)
      <4> SUFFICES ASSUME pc'[j] \in Readers, ~IsChild(j)
                   PROVE  pc[j] \in Readers /\ obj'[j].prompt = obj[j].prompt
        OBVIOUS
      <4>1. ReadChoice(j) \/ BuildEngine(j) \/ Restore(j)
        BY <1>0, <3>1
           DEF GetSession, ResumeModel, ResumeLoad, Config, RefuseEngine,
               StartChild, Inherit, StartTask, Turn, Persist, Goes, Readers
      <4>2. pc[j] \in Readers  BY <4>1 DEF ReadChoice, BuildEngine, Restore, Goes, Readers
      <4> QED BY <4>1, <4>2, BuildsAlike
    <3>5. row'[k].prompt = row[k].prompt /\ row'[k].known = row[k].known
      <4>1. CASE ResumeModel(j)
        <5>1. Ask(j).model \in Models  BY AskType DEF TypeInv, TypeOK
        <5>2. row' = row \/ row' = SetSessionSelectedModel(row, k, Ask(j).model)
          BY <1>2, <4>1 DEF ResumeModel
        <5> QED BY <1>0, <5>1, <5>2, RowWrites
      <4>2. CASE ~ResumeModel(j)  BY <1>2, <2>2, <4>2, RowMoves
      <4> QED BY <4>1, <4>2
    <3> QED BY <1>0, <2>2, <3>2, <3>3, <3>4, <3>5, PromptStays
  <2> QED BY <2>1, <2>2
<1> QED BY <1>1, <1>2

\* A step of the reaper or of the disk that leaves a key's record leaves what its
\* settings have to do with one another.
LEMMA SystemLeaves ==
  ASSUME NEW k \in Keys, situation' = situation, pc' = pc, obj' = obj, at' = at,
         row'[k] = row[k], said'[k] = said[k], live'[k] = live[k], file'[k] = file[k],
         flags'[k] = flags[k], origin' = origin
  PROVE  /\ KeyPrompts(k) => KeyPrompts(k)'
         /\ KeyModels(k) => KeyModels(k)'
         /\ KeyLimits(k) => KeyLimits(k)'
<1>1. \A h \in Jobs : /\ Key(h)' = Key(h) /\ Ask(h)' = Ask(h) /\ (IsChild(h)' <=> IsChild(h))
                      /\ \A what : Says(h, what)' <=> Says(h, what)
  BY AsksStay
<1>2. \A i \in Jobs : \A what : Owes(i, k, what)' <=> Owes(i, k, what)  BY <1>1 DEF Owes
<1>3. \A what : Due(k, what)' <=> Due(k, what)  BY <1>2 DEF Due
<1>4. \A j, what : DueBeside(k, j, what)' <=> DueBeside(k, j, what)  BY <1>2 DEF DueBeside
<1>5. \A i \in Jobs : Reads(i, k)' <=> Reads(i, k)  BY <1>1 DEF Reads
<1>6. Calm(k)' <=> Calm(k)  BY DEF Calm
<1>7. KeyPrompts(k) => KeyPrompts(k)'
  <2>1. Unrecorded(k)' <=> Unrecorded(k)  BY <1>1 DEF Unrecorded
  <2>2. RowPrompts(k) => RowPrompts(k)'  BY <2>1 DEF RowPrompts
  <2>3. LivePrompts(k) => LivePrompts(k)'  BY <1>3 DEF LivePrompts
  <2>4. ReadPrompts(k) => ReadPrompts(k)'  BY <1>4, <1>5 DEF ReadPrompts
  <2>5. NewPrompts(k) => NewPrompts(k)'  BY <1>1 DEF NewPrompts
  <2> QED BY <1>6, <2>2, <2>3, <2>4, <2>5 DEF KeyPrompts
<1>8. KeyModels(k) => KeyModels(k)'
  <2>1. FoundModel(k)' = FoundModel(k)  BY DEF FoundModel, AgentInKey
  <2>2. RowModels(k) => RowModels(k)'  BY <2>1 DEF RowModels, Heard
  <2>3. LiveModels(k) => LiveModels(k)'  BY <1>3 DEF LiveModels
  <2>4. ReadModels(k) => ReadModels(k)'  BY <1>1, <1>4, <1>5 DEF ReadModels, AsksModel
  <2> QED BY <1>6, <2>2, <2>3, <2>4 DEF KeyModels
<1>9. KeyLimits(k) => KeyLimits(k)'
  <2>1. FileLimits(k) => FileLimits(k)'  BY DEF FileLimits
  <2>2. LiveLimits(k) => LiveLimits(k)'  BY DEF LiveLimits
  <2>3. ASSUME NEW j \in Jobs, Reads(j, k) PROVE HasLimits(j)' <=> HasLimits(j)
    BY <1>1, <2>3 DEF HasLimits, AskedCap, Reads
  <2>4. ReadLimits(k) => ReadLimits(k)'  BY <1>5, <2>3 DEF ReadLimits
  <2> QED BY <1>6, <2>1, <2>2, <2>4 DEF KeyLimits
<1> QED BY <1>7, <1>8, <1>9

-----------------------------------------------------------------------------
(* The model.                                                              *)

\* A step that leaves the model where it is recorded, said and in force leaves what
\* a key's models have to do with one another.
LEMMA ModelStays ==
  ASSUME TypeInv, PlaceInv, OriginInv, NEW j \in Jobs, JobStep(j), NEW k \in Keys, KeyModels(k),
         k # Key(j) \/ ~Apply(j), live'[k] = live[k], said'[k].model = said[k].model,
         live[k] # None \/ (FoundModel(k)' = FoundModel(k) /\ (Heard(k)' => Heard(k))),
         k = Key(j) /\ pc'[j] \in Readers \ {"choice"} =>
           \/ IsChild(j)
           \/ pc[j] \in Readers \ {"choice"} /\ obj'[j].model = obj[j].model
           \/ obj'[j].model = IF AsksModel(j) THEN Ask(j).model ELSE said'[k].model
           \/ live[k] # None
  PROVE  KeyModels(k)'
<1> SUFFICES ASSUME Calm(k)' PROVE (RowModels(k) /\ LiveModels(k) /\ ReadModels(k))'
  BY DEF KeyModels
<1>0. /\ pc \in [Jobs -> PCs] /\ live \in [Keys -> Jobs \cup {None}] /\ None \notin Jobs
      /\ live[k] # None => live[k] \in Jobs /\ Key(live[k]) = k /\ pc[live[k]] \in MadePcs
  BY SettingsAssumption DEF TypeInv, TypeOK, PlaceInv
<1>1. RowModels(k) /\ LiveModels(k) /\ ReadModels(k)  BY CalmStays DEF KeyModels
<1>2. /\ situation' = situation /\ \A h \in Jobs \ {j} : pc'[h] = pc[h]
      /\ \A h \in Jobs : /\ Key(h)' = Key(h) /\ Ask(h)' = Ask(h) /\ (IsChild(h)' <=> IsChild(h))
                         /\ AsksModel(h)' <=> AsksModel(h)
  BY JobMoves, AsksStay DEF AsksModel
<1>3. \A h \in Jobs : Key(h) = k /\ (h # j \/ pc[h] \in MadePcs) => obj'[h].model = obj[h].model
  BY OthersStay DEF SameSettings
<1>4. ASSUME NEW i \in Jobs, Owes(i, k, "model"), row[k].known,
             live[k] # None \/ \E h \in Jobs \ {i} : Key(h) = k /\ pc[h] \in Readers
      PROVE  Owes(i, k, "model")'
  <2>1. i # j \/ ~Apply(j)  BY <1>4 DEF Owes
  <2> QED BY <1>4, <2>1, OweKept
<1>5. row[k].known => row'[k].known  BY KnownStays
<1>6. RowModels(k)'  BY <1>1 DEF RowModels
<1>7. LiveModels(k)'
  <2> SUFFICES ASSUME live'[k] # None PROVE obj'[live'[k]].model = said'[k].model \/ Due(k, "model")'
    BY DEF LiveModels
  <2>1. obj'[live'[k]].model = obj[live[k]].model  BY <1>0, <1>3
  <2>2. Due(k, "model") => Due(k, "model")'  BY <1>4, <1>5 DEF Due
  <2> QED BY <1>1, <2>1, <2>2 DEF LiveModels
<1>8. ReadModels(k)'
  <2> SUFFICES ASSUME live[k] = None, NEW i \in Jobs, Reads(i, k)', pc'[i] # "choice"
               PROVE  IF AsksModel(i) THEN obj'[i].model = Ask(i).model
                      ELSE obj'[i].model = said'[k].model \/ DueBeside(k, i, "model")'
    BY <1>2 DEF ReadModels
  <2>1. Key(i) = k /\ ~IsChild(i) /\ pc'[i] \in Readers \ {"choice"}  BY <1>2 DEF Reads
  <2>2. \/ Reads(i, k) /\ pc[i] # "choice" /\ obj'[i].model = obj[i].model
        \/ obj'[i].model = IF AsksModel(i) THEN Ask(i).model ELSE said'[k].model
    <3>1. CASE i = j  BY <2>1, <3>1 DEF Reads
    <3>2. CASE i # j  BY <1>2, <1>3, <2>1, <3>2 DEF Reads
    <3> QED BY <3>1, <3>2
  <2>3. Reads(i, k) /\ DueBeside(k, i, "model") => DueBeside(k, i, "model")'
    <3> SUFFICES ASSUME Reads(i, k), DueBeside(k, i, "model") PROVE DueBeside(k, i, "model")'
      OBVIOUS
    <3> SUFFICES ASSUME row[k].known, NEW h \in Jobs \ {i}, Owes(h, k, "model")
                 PROVE  DueBeside(k, i, "model")'
      BY DEF DueBeside
    <3>1. Owes(h, k, "model")'  BY <1>4 DEF Reads
    <3> QED BY <1>5, <3>1 DEF DueBeside
  <2> QED BY <1>1, <2>2, <2>3 DEF ReadModels
<1> QED BY <1>6, <1>7, <1>8

\* A create writes the row's model, or finds the row there and says what it has.
LEMMA CreateKeepsModels ==
  ASSUME TypeInv, PlaceInv, OriginInv, NEW j \in Jobs, Create(j), NEW k \in Keys, k = Key(j)
  PROVE  KeyModels(k)'
<1> DEFINE prompt == IF Says(j, "prompt") THEN Ask(j).prompt ELSE NoText
           model == IF Says(j, "model") THEN Ask(j).model ELSE None
           agent == Ask(j).agent
           first == UpsertSession(k, agent, None, 0, Home)
           second == SetSessionInjectedSystemPrompt(first, k, prompt)
<1>0. JobStep(j) /\ ~Heard(k)  BY DEF JobStep, Create, Heard
<1>1. /\ situation' = situation /\ \A h \in Jobs \ {j} : pc'[h] = pc[h]
      /\ \A h \in Jobs : Key(h)' = Key(h) /\ (IsChild(h)' <=> IsChild(h))
  BY <1>0, JobMoves, AsksStay
<1>2. /\ pc \in [Jobs -> PCs] /\ row \in [Keys -> Rows] /\ said \in [Keys -> Saids] /\ said[k] \in Saids
  BY TypeParts DEF TypeInv, ControlOK, RecordsOK
<1>3. /\ pc'[j] = "done" /\ live' = live
      /\ said'[k].model = IF model # None THEN model ELSE OwnModel[agent]
      /\ row' = SetSessionSelectedModel(second, k, model)
  BY <1>2 DEF Create, Goes, memory, Saids
<1>4. /\ agent \in Agents /\ None \notin Agents /\ prompt \in Prompts /\ model \in Models \cup {None}
  BY AskType, SettingsAssumption DEF Create, TypeInv, TypeOK
<1>5. row'[k].known /\ row'[k].agent = agent /\ row'[k].model = model
  <2>0. ~row[k].known  BY <1>0, UnheardKey
  <2>1. first \in [Keys -> Rows] /\ first[k].known /\ first[k].agent = agent
    <3>1. first[k].known /\ first[k].agent = agent  BY <1>2, <2>0, RowInserts
    <3> HIDE DEF first
    <3>2. first = UpsertSession(k, agent, None, 0, Home)  BY DEF first
    <3> QED BY <1>2, <1>4, <3>1, <3>2, RootValue
  <2> HIDE DEF first, prompt, model
  <2>2. second \in [Keys -> Rows] /\ second[k].known /\ second[k].agent = agent
    BY <1>4, <2>1, RowWrites, ChoiceValue
  <2> HIDE DEF second
  <2> QED BY <1>3, <1>4, <2>2, RowWrites
<1>6. live[k] = None /\ \A i \in Jobs : ~Reads(i, k)  BY <1>0, UnheardKey
<1>7. RowModels(k)'
  <2>1. FoundModel(k)' = IF model = None THEN OwnModel[agent] ELSE model
    <3> HIDE DEF model, agent
    <3> QED BY <1>4, <1>5 DEF FoundModel
  <2> QED BY <1>3, <2>1 DEF RowModels
<1>8. LiveModels(k)'  BY <1>3, <1>6 DEF LiveModels
<1>9. ReadModels(k)'  BY <1>1, <1>3, <1>6 DEF ReadModels, Reads, Readers
<1> QED BY <1>7, <1>8, <1>9 DEF KeyModels

\* A run that inserts a row inserts what the key has found without it.
LEMMA RunKeepsModels ==
  ASSUME TypeInv, PlaceInv, OriginInv, ModelInv, NEW j \in Jobs, StartRun(j), NEW k \in Keys, k = Key(j)
  PROVE  KeyModels(k)'
<1> SUFFICES ASSUME Calm(k)' PROVE KeyModels(k)'  BY DEF KeyModels
<1> DEFINE agent == IF Ask(j).agent # None THEN Ask(j).agent ELSE AgentForSession(k)
<1>0. /\ JobStep(j) /\ ~Apply(j) /\ KeyModels(k)
  BY DEF JobStep, StartRun, Apply, Goes, ModelInv
<1>1. /\ pc \in [Jobs -> PCs] /\ row \in [Keys -> Rows] /\ flags \in [Keys -> SUBSET Marks]
      /\ origin \in [Keys -> Origins] /\ said \in [Keys -> Saids] /\ said[k] \in Saids
      /\ origin[k] \in Origins
  BY TypeParts DEF TypeInv, ControlOK, RecordsOK
<1>2. /\ pc[j] = "idle" /\ pc'[j] \in {"lock", "done"} /\ live' = live /\ situation' = situation
      /\ \A h \in Jobs \ {j} : pc'[h] = pc[h]
      /\ \A h \in Jobs : Key(h)' = Key(h) /\ (IsChild(h)' <=> IsChild(h))
  BY <1>0, <1>1, JobMoves, AsksStay DEF StartRun
<1>3. CASE row'[k] = row[k] /\ origin'[k] = origin[k] /\ said'[k].model = said[k].model
  <2>1. FoundModel(k)' = FoundModel(k) /\ (Heard(k)' => Heard(k))
    BY <1>2, <1>3 DEF FoundModel, AgentInKey, Heard
  <2> QED BY <1>0, <1>2, <1>3, <2>1, ModelStays DEF Readers
<1>4. CASE ~(row'[k] = row[k] /\ origin'[k] = origin[k] /\ said'[k].model = said[k].model)
  <2>1. agent # None  BY <1>4 DEF StartRun, ghosts
  <2>2. ~row[k].known
    <3> SUFFICES ASSUME row[k].known PROVE FALSE  OBVIOUS
    <3>1. row' = UpsertSession(k, agent, None, 0, Home) /\ origin' = origin /\ said' = said
      BY <2>1 DEF StartRun
    <3> QED BY <1>1, <1>4, <3>1, RowInserts
  <2>3. /\ row' = UpsertSession(k, agent, None, 0, Home)
        /\ Above[k] = None /\ origin'[k].agent = agent
    <3> DEFINE strays == IF ~row[k].known /\ Above[k] # None THEN {"strayed"} ELSE {}
               renames == IF origin'[k].agent # agent THEN {"renamed"} ELSE {}
    <3>1. /\ row' = UpsertSession(k, agent, None, 0, Home)
          /\ flags' = [flags EXCEPT ![k] = @ \cup strays \cup renames]
      BY <2>1 DEF StartRun
    <3>2. flags'[k] = {}  BY DEF Calm
    <3>3. strays = {} /\ renames = {}
      <4> HIDE DEF strays, renames
      <4> QED BY <1>1, <3>1, <3>2
    <3> QED BY <2>2, <3>1, <3>3
  <2>4. row'[k].known /\ row'[k].agent = agent /\ row'[k].model = None
    BY <1>1, <2>2, <2>3, RowInserts
  <2>5. FoundModel(k)' = OwnModel[agent]
    <3> HIDE DEF agent
    <3> QED BY <2>1, <2>4 DEF FoundModel
  <2>6. CASE Heard(k)
    <3>1. origin' = origin /\ said' = said  BY <2>1, <2>6 DEF StartRun, Heard
    <3>2. origin[k].agent = situation.named
      BY <2>2, <2>3, <2>6, <1>0, CleanStays DEF OriginInv, KeyOrigin, IsRecorded, Calm, Clean
    <3>3. row[k].model = None  BY <2>2 DEF OriginInv, KeyOrigin, RowIsWhole, NoRow
    <3>4. FoundModel(k) = OwnModel[situation.named]
      <4>1. situation.named # None  BY <2>6, <3>2 DEF Heard
      <4> QED BY <2>2, <2>3, <3>3, <4>1 DEF FoundModel, AgentInKey
    <3>5. FoundModel(k)' = FoundModel(k) /\ (Heard(k)' => Heard(k))
      BY <2>3, <2>5, <2>6, <3>1, <3>2, <3>4
    <3> QED BY <1>0, <1>2, <3>1, <3>5, ModelStays DEF Readers
  <2>7. CASE ~Heard(k)
    <3>1. live[k] = None /\ \A i \in Jobs : ~Reads(i, k)  BY <2>7, UnheardKey
    <3>2. said'[k].model = OwnModel[agent]
      BY <1>1, <2>1, <2>2, <2>3, <2>7 DEF StartRun, Heard, Saids
    <3>3. RowModels(k)'  BY <2>5, <3>2 DEF RowModels
    <3>4. LiveModels(k)'  BY <1>2, <3>1 DEF LiveModels
    <3>5. ReadModels(k)'  BY <1>2, <3>1 DEF ReadModels, Reads, Readers
    <3> QED BY <3>3, <3>4, <3>5 DEF KeyModels
  <2> QED BY <2>6, <2>7
<1> QED BY <1>3, <1>4

\* What a resume records of the model it owes to the session from then on.
LEMMA ResumeKeepsModels ==
  ASSUME TypeInv, PlaceInv, OriginInv, FilterInv, ModelInv, NEW j \in Jobs, ResumeModel(j),
         NEW k \in Keys, k = Key(j)
  PROVE  KeyModels(k)'
<1>0. JobStep(j) /\ ~Apply(j) /\ KeyModels(k)  BY DEF JobStep, ResumeModel, Apply, Goes, ModelInv
<1>1. /\ situation' = situation /\ \A h \in Jobs \ {j} : pc'[h] = pc[h]
      /\ \A h \in Jobs : /\ Key(h)' = Key(h) /\ Ask(h)' = Ask(h) /\ (IsChild(h)' <=> IsChild(h))
                         /\ (AsksModel(h)' <=> AsksModel(h)) /\ (Says(h, "model")' <=> Says(h, "model"))
  BY <1>0, JobMoves, AsksStay DEF AsksModel
<1>2. /\ pc \in [Jobs -> PCs] /\ row \in [Keys -> Rows] /\ said \in [Keys -> Saids] /\ said[k] \in Saids
      /\ Ask(j).model \in Models /\ None \notin Models
  BY TypeParts, AskType, SettingsAssumption DEF TypeInv, ControlOK, RecordsOK
<1>3. /\ pc[j] = "model" /\ pc'[j] \in {"done", "load"} /\ live' = live /\ obj' = obj /\ origin' = origin
  BY <1>2 DEF ResumeModel, Goes, memory
<1>4. CASE ~(Says(j, "model") /\ row[k].known)
  <2>1. row' = row /\ said' = said  BY <1>4 DEF ResumeModel
  <2>2. FoundModel(k)' = FoundModel(k) /\ (Heard(k)' => Heard(k))
    BY <1>1, <1>3, <2>1 DEF FoundModel, AgentInKey, Heard
  <2> QED BY <1>0, <1>3, <2>1, <2>2, ModelStays DEF Readers
<1>5. CASE Says(j, "model") /\ row[k].known
  <2> SUFFICES ASSUME Calm(k)' PROVE (RowModels(k) /\ LiveModels(k) /\ ReadModels(k))'
    BY DEF KeyModels
  <2>1. said'[k].model = Ask(j).model /\ row'[k].model = Ask(j).model /\ row'[k].known
    BY <1>2, <1>5, RowWrites DEF ResumeModel, Saids
  <2>2. Owes(j, k, "model")' /\ pc'[j] = "load"
    BY <1>1, <1>2, <1>3, <1>5 DEF Owes, ResumeModel, Goes, FilterInv, IsFiltered
  <2>3. ReadModels(k)  BY <1>0, CalmStays DEF KeyModels
  <2>4. RowModels(k)'  BY <1>2, <2>1 DEF RowModels, FoundModel
  <2>5. LiveModels(k)'  BY <2>1, <2>2 DEF LiveModels, Due
  <2>6. ReadModels(k)'
    <3>1. \A i \in Jobs : Reads(i, k)' => i # j /\ Reads(i, k) /\ pc'[i] = pc[i]
      BY <1>1, <2>2 DEF Reads, Readers
    <3>2. \A i \in Jobs \ {j} : DueBeside(k, i, "model")'  BY <2>1, <2>2 DEF DueBeside
    <3> QED BY <1>1, <1>3, <2>3, <3>1, <3>2 DEF ReadModels
  <2> QED BY <2>4, <2>5, <2>6
<1> QED BY <1>4, <1>5

\* A resume of a key that nobody has heard of builds it under the agent of its key.
LEMMA LoadKeepsModels ==
  ASSUME TypeInv, PlaceInv, OriginInv, ModelInv, NEW j \in Jobs, ResumeLoad(j), NEW k \in Keys, k = Key(j)
  PROVE  KeyModels(k)'
<1> DEFINE agent == AgentForSession(k)
<1>0. JobStep(j) /\ ~Apply(j) /\ KeyModels(k)  BY DEF JobStep, ResumeLoad, Apply, Goes, ModelInv
<1>1. /\ situation' = situation /\ \A h \in Jobs \ {j} : pc'[h] = pc[h]
      /\ \A h \in Jobs : Key(h)' = Key(h) /\ (IsChild(h)' <=> IsChild(h))
  BY <1>0, JobMoves, AsksStay
<1>2. /\ pc \in [Jobs -> PCs] /\ said \in [Keys -> Saids] /\ said[k] \in Saids
  BY TypeParts DEF TypeInv, ControlOK, RecordsOK
<1>3. /\ pc'[j] \in {"apply", "origin", "done"} /\ live' = live /\ row' = row
  BY <1>2 DEF ResumeLoad, Goes, disk
<1>4. CASE origin' = origin /\ said' = said
  <2>1. FoundModel(k)' = FoundModel(k) /\ (Heard(k)' => Heard(k))
    BY <1>1, <1>3, <1>4 DEF FoundModel, AgentInKey, Heard
  <2> QED BY <1>0, <1>3, <1>4, <2>1, ModelStays DEF Readers
<1>5. CASE ~(origin' = origin /\ said' = said)
  <2>1. live[k] = None /\ agent # None /\ ~Heard(k) /\ said'[k].model = OwnModel[agent]
    BY <1>2, <1>5 DEF ResumeLoad, Heard, Saids
  <2>2. ~row[k].known /\ row[k] = NoRow /\ \A i \in Jobs : ~Reads(i, k)  BY <2>1, UnheardKey
  <2>3. agent = AgentInKey(k)  BY <2>1, <2>2 DEF AgentForSession, SessionAgent, NoRow
  <2>4. FoundModel(k)' = OwnModel[agent]
    <3>1. AgentInKey(k)' = AgentInKey(k)  BY <1>1 DEF AgentInKey
    <3> HIDE DEF agent
    <3>2. NoRow.model = None  BY DEF NoRow
    <3> QED BY <1>3, <2>1, <2>2, <2>3, <3>1, <3>2 DEF FoundModel
  <2>5. RowModels(k)'  BY <2>1, <2>4 DEF RowModels
  <2>6. LiveModels(k)'  BY <1>3, <2>1 DEF LiveModels
  <2>7. ReadModels(k)'  BY <1>1, <1>3, <2>2 DEF ReadModels, Reads, Readers
  <2> QED BY <2>5, <2>6, <2>7 DEF KeyModels
<1> QED BY <1>4, <1>5

\* A resume or a config gives the session the model it brings.
LEMMA ApplyKeepsModels ==
  ASSUME TypeInv, PlaceInv, OriginInv, FilterInv, ModelInv, NEW j \in Jobs, Apply(j),
         NEW k \in Keys, k = Key(j)
  PROVE  KeyModels(k)'
<1> SUFFICES ASSUME Calm(k)' PROVE (RowModels(k) /\ LiveModels(k) /\ ReadModels(k))'
  BY DEF KeyModels
<1>0. JobStep(j) /\ pc[j] = "apply"  BY DEF JobStep, Apply, Goes
<1>1. /\ situation' = situation /\ \A h \in Jobs \ {j} : pc'[h] = pc[h]
      /\ \A h \in Jobs : /\ Key(h)' = Key(h) /\ Ask(h)' = Ask(h) /\ (IsChild(h)' <=> IsChild(h))
                         /\ (AsksModel(h)' <=> AsksModel(h))
  BY <1>0, JobMoves, AsksStay DEF AsksModel
<1>2. /\ pc \in [Jobs -> PCs] /\ at \in [Jobs -> Jobs \cup {None}]
      /\ said \in [Keys -> Saids] /\ obj \in [Jobs -> Objects]
      /\ live \in [Keys -> Jobs \cup {None}] /\ None \notin Jobs
      /\ live[k] # None => Key(live[k]) = k /\ pc[live[k]] \in MadePcs
  BY TypeParts, SettingsAssumption DEF TypeInv, ControlOK, RecordsOK, ObjOK, PlaceInv
<1>3. /\ pc'[j] = "done" /\ live' = live /\ row' = row /\ origin' = origin
      /\ said'[k].model = IF live[k] = at[j] /\ Says(j, "model") THEN Ask(j).model ELSE said[k].model
  BY <1>2 DEF Apply, Goes, disk
<1>4. RowModels(k) /\ LiveModels(k) /\ ReadModels(k)  BY <1>0, CalmStays DEF ModelInv, KeyModels
<1>5. at[j] \in Jobs /\ Key(at[j]) = k /\ pc[at[j]] \in MadePcs
  BY <1>0, AppliedValue DEF PlaceInv, FilterInv, IsFiltered, AtPcs
<1>6. obj'[at[j]].model = IF Says(j, "model") THEN Ask(j).model ELSE obj[at[j]].model
  BY AppliedSettings
<1>7. \A i \in Jobs \ {at[j], j} : obj'[i].model = obj[i].model
  BY <1>0, SettingsStay DEF SameSettings
<1>8. ASSUME NEW i \in Jobs, Owes(i, k, "model"), row[k].known, i # j,
             live[k] # None \/ \E h \in Jobs \ {i} : Key(h) = k /\ pc[h] \in Readers
      PROVE  Owes(i, k, "model")'
  BY <1>0, <1>3, <1>8, OweKept
<1>9. Owes(j, k, "model") => at[j] = live[k] /\ Says(j, "model")
  BY <1>0 DEF Owes, Readers
<1>10. RowModels(k)'
  <2>1. FoundModel(k)' = FoundModel(k) /\ (Heard(k)' <=> Heard(k))
    BY <1>1, <1>3 DEF FoundModel, AgentInKey, Heard
  <2> QED BY <1>2, <1>3, <1>4, <1>5, <2>1 DEF RowModels
<1>11. LiveModels(k)'
  <2> SUFFICES ASSUME live[k] # None
               PROVE  obj'[live[k]].model = said'[k].model \/ Due(k, "model")'
    BY <1>3 DEF LiveModels
  <2>1. CASE live[k] = at[j] /\ Says(j, "model")  BY <1>3, <1>6, <2>1
  <2>2. CASE ~(live[k] = at[j] /\ Says(j, "model"))
    <3>1. obj'[live[k]].model = obj[live[k]].model /\ said'[k].model = said[k].model
      <4>1. live[k] # j  BY <1>0, <1>2 DEF MadePcs
      <4> QED BY <1>2, <1>3, <1>6, <1>7, <2>2, <4>1
    <3>2. Due(k, "model") => Due(k, "model")'
      <4> SUFFICES ASSUME row[k].known, NEW i \in Jobs, Owes(i, k, "model")
                   PROVE  Due(k, "model")'
        BY DEF Due
      <4> QED BY <1>3, <1>8, <1>9, <2>2 DEF Due
    <3> QED BY <1>4, <3>1, <3>2 DEF LiveModels
  <2> QED BY <2>1, <2>2
<1>12. ReadModels(k)'
  <2> SUFFICES ASSUME live[k] = None, NEW i \in Jobs, Reads(i, k)', pc'[i] # "choice"
               PROVE  IF AsksModel(i) THEN obj'[i].model = Ask(i).model
                      ELSE obj'[i].model = said'[k].model \/ DueBeside(k, i, "model")'
    BY <1>1, <1>3 DEF ReadModels
  <2>1. Reads(i, k) /\ i # at[j] /\ i # j /\ pc[i] = pc'[i]
    BY <1>1, <1>3, <1>5 DEF Reads, Readers, MadePcs
  <2>2. obj'[i].model = obj[i].model /\ said'[k].model = said[k].model
    BY <1>2, <1>3, <1>5, <1>7, <2>1
  <2>3. DueBeside(k, i, "model") => DueBeside(k, i, "model")'
    <3> SUFFICES ASSUME row[k].known, NEW h \in Jobs \ {i}, Owes(h, k, "model")
                 PROVE  DueBeside(k, i, "model")'
      BY DEF DueBeside
    <3>1. Owes(h, k, "model")'  BY <1>2, <1>5, <1>8, <1>9, <2>1 DEF Reads
    <3> QED BY <1>3, <3>1 DEF DueBeside
  <2> QED BY <1>4, <2>1, <2>2, <2>3 DEF ReadModels
<1> QED BY <1>10, <1>11, <1>12

\* A build chooses the model that was last said, or the one it is asked for.
LEMMA ReadKeepsModels ==
  ASSUME TypeInv, PlaceInv, OriginInv, ModelInv, NEW j \in Jobs, ReadChoice(j), NEW k \in Keys, k = Key(j)
  PROVE  KeyModels(k)'
<1> SUFFICES ASSUME Calm(k)' PROVE KeyModels(k)'  BY DEF KeyModels
<1>0. JobStep(j) /\ ~Apply(j) /\ KeyModels(k)  BY DEF JobStep, ReadChoice, Apply, Goes, ModelInv
<1>1. /\ pc \in [Jobs -> PCs] /\ live \in [Keys -> Jobs \cup {None}] /\ None \notin Agents
      /\ obj[j] \in Objects
  BY SettingsAssumption DEF TypeInv, TypeOK
<1>2. /\ pc[j] = "choice" /\ pc'[j] = "engine" /\ row' = row /\ said' = said /\ live' = live
      /\ origin' = origin /\ situation' = situation
  BY <1>1 DEF ReadChoice, Goes, disk, ghosts
<1>3. FoundModel(k)' = FoundModel(k) /\ (Heard(k)' => Heard(k))
  BY <1>2 DEF FoundModel, AgentInKey, Heard
<1>4. ~IsChild(j) /\ live[k] = None =>
        obj'[j].model = IF AsksModel(j) THEN Ask(j).model ELSE said'[k].model
  <2> SUFFICES ASSUME ~IsChild(j), live[k] = None, ~AsksModel(j) PROVE obj'[j].model = said[k].model
    BY <1>2, ChoiceReadSettings
  <2>1. obj'[j].model = IF row[k].model = None THEN OwnModel[obj[j].agent] ELSE row[k].model
    BY ChoiceReadSettings
  <2>2. RowModels(k) /\ Clean(k)  BY <1>0, CalmStays DEF KeyModels, Calm, Clean
  <2>3. /\ Heard(k) /\ obj[j].agent = origin[k].agent
        /\ Above[k] # None => row[k].known
    BY <1>2, <2>2 DEF OriginInv, JobOrigin, IsRebuilt, BuildPcs
  <2>4. obj[j].agent = IF row[k].known THEN row[k].agent ELSE AgentInKey(k)
    <3>1. OriginOf(row[k]) = origin[k] => row[k].agent = origin[k].agent  BY DEF OriginOf
    <3> QED BY <2>2, <2>3, <3>1 DEF OriginInv, KeyOrigin, IsRecorded, AgentInKey
  <2>5. obj[j].agent # None  BY <1>1, ObjectParts
  <2> QED BY <2>1, <2>2, <2>3, <2>4, <2>5 DEF RowModels, FoundModel
<1> QED BY <1>0, <1>2, <1>3, <1>4, ModelStays

\* A build becomes the session with the model its callers were told.
LEMMA PublishKeepsModels ==
  ASSUME TypeInv, PlaceInv, OriginInv, ModelInv, NEW j \in Jobs, Publish(j), NEW k \in Keys, k = Key(j)
  PROVE  KeyModels(k)'
<1>0. /\ JobStep(j) /\ ~Apply(j) /\ KeyModels(k) /\ pc[j] = "publish" /\ ~IsChild(j)
  BY DEF JobStep, Publish, Apply, Goes, ModelInv, TypeInv, AtInv, RequestPcs
<1>1. /\ situation' = situation /\ \A h \in Jobs \ {j} : pc'[h] = pc[h] /\ at'[h] = at[h]
      /\ \A h \in Jobs : /\ Key(h)' = Key(h) /\ Ask(h)' = Ask(h) /\ (IsChild(h)' <=> IsChild(h))
                         /\ Says(h, "model")' <=> Says(h, "model")
  BY <1>0, JobMoves, AsksStay
<1>2. /\ pc \in [Jobs -> PCs] /\ live \in [Keys -> Jobs \cup {None}] /\ None \notin Jobs
      /\ said \in [Keys -> Saids] /\ said[k] \in Saids
  BY TypeParts, SettingsAssumption DEF TypeInv, ControlOK, RecordsOK
<1>3. /\ pc'[j] \in {"turn", "done"} /\ obj' = obj /\ row' = row /\ origin' = origin
      /\ live'[k] = IF live[k] = None THEN j ELSE live[k]
      /\ said'[k].model = IF live[k] = None /\ AsksModel(j) THEN Ask(j).model ELSE said[k].model
  BY <1>2 DEF Publish, Goes, disk, AsksModel, Saids
<1>4. CASE live[k] # None
  <2>1. live'[k] = live[k] /\ said'[k].model = said[k].model  BY <1>3, <1>4
  <2> QED BY <1>0, <1>3, <1>4, <2>1, ModelStays DEF Readers
<1>5. CASE live[k] = None
  <2> SUFFICES ASSUME Calm(k)' PROVE (RowModels(k) /\ LiveModels(k) /\ ReadModels(k))'
    BY DEF KeyModels
  <2>1. ReadModels(k)  BY <1>0, CalmStays DEF KeyModels
  <2>2. live'[k] = j /\ live'[k] # None  BY <1>2, <1>3, <1>5
  <2>3. LiveModels(k)'
    <3>1. IF AsksModel(j) THEN obj[j].model = Ask(j).model
          ELSE obj[j].model = said[k].model \/ DueBeside(k, j, "model")
      BY <1>0, <1>5, <2>1 DEF ReadModels, Reads, Readers
    <3>2. DueBeside(k, j, "model") => Due(k, "model")'
      BY <1>1, <1>3, <1>5 DEF DueBeside, Due, Owes
    <3> QED BY <1>3, <1>5, <2>2, <3>1, <3>2 DEF LiveModels
  <2> QED BY <2>2, <2>3 DEF RowModels, ReadModels
<1> QED BY <1>4, <1>5

\* What ends a session while nobody builds one leaves the model that a rebuild finds.
LEMMA EndKeepsModels ==
  ASSUME NEW k \in Keys, ~Building(k), situation' = situation, live'[k] = None,
         Heard(k)' => said'[k].model = FoundModel(k)',
         \A i \in Jobs : Key(i) = k => pc'[i] = pc[i] \/ pc'[i] \notin Readers
  PROVE  KeyModels(k)'
<1>1. \A h \in Jobs : Key(h)' = Key(h) /\ (IsChild(h)' <=> IsChild(h))  BY AsksStay
<1>2. \A i \in Jobs : Key(i) = k => pc'[i] \notin Readers  BY DEF Building, Readers
<1>3. RowModels(k)'  BY DEF RowModels
<1>4. LiveModels(k)'  BY DEF LiveModels
<1>5. ReadModels(k)'  BY <1>1, <1>2 DEF ReadModels, Reads
<1> QED BY <1>3, <1>4, <1>5 DEF KeyModels

\* Taking the queue's lock leaves the models.
LEMMA LockKeepsModels ==
  ASSUME TypeInv, PlaceInv, OriginInv, ModelInv, NEW j \in Jobs, TakeLock(j), NEW k \in Keys, k = Key(j)
  PROVE  KeyModels(k)'
<1> SUFFICES ASSUME Calm(k)' PROVE KeyModels(k)'  BY DEF KeyModels
<1>0. JobStep(j) /\ ~Apply(j) /\ KeyModels(k)  BY DEF JobStep, TakeLock, Apply, Goes, ModelInv
<1>1. /\ pc \in [Jobs -> PCs] /\ live \in [Keys -> Jobs \cup {None}] /\ flags \in [Keys -> SUBSET Marks]
      /\ said \in [Keys -> Saids]
  BY TypeParts DEF TypeInv, ControlOK, RecordsOK
<1>2. /\ pc[j] = "lock" /\ pc'[j] = "get" /\ row' = row /\ obj' = obj /\ origin' = origin
      /\ situation' = situation
  BY <1>1 DEF TakeLock, Goes, disk
<1>3. FoundModel(k)' = FoundModel(k) /\ (Heard(k)' => Heard(k))
  BY <1>2 DEF FoundModel, AgentInKey, Heard
<1>4. CASE live[k] = None \/ ~Says(j, "fresh")
  <2>1. live'[k] = live[k] /\ said'[k] = said[k]  BY <1>1, <1>4 DEF TakeLock, Forgotten
  <2> QED BY <1>0, <1>2, <1>3, <2>1, ModelStays DEF Readers
<1>5. CASE live[k] # None /\ Says(j, "fresh")
  <2>1. live'[k] = None /\ MarkIf(k, Building(k), "raced") /\ said'[k] = Recorded(k)
    BY <1>1, <1>5 DEF TakeLock, Forgotten
  <2>2. ~Building(k)  BY <1>1, <2>1 DEF MarkIf, Calm
  <2>3. said'[k].model = FoundModel(k)'  BY <1>3, <2>1 DEF Recorded, FoundModel
  <2>4. \A i \in Jobs : pc'[i] = pc[i] \/ pc'[i] \notin Readers
    BY <1>0, <1>2, JobMoves DEF Readers
  <2> QED BY <1>2, <2>1, <2>2, <2>3, <2>4, EndKeepsModels
<1> QED BY <1>4, <1>5

\* A child becomes the session with its model.
LEMMA StoreKeepsModels ==
  ASSUME TypeInv, NEW j \in Jobs, StoreChild(j), NEW k \in Keys, k = Key(j)
  PROVE  KeyModels(k)'
<1>1. /\ live \in [Keys -> Jobs \cup {None}] /\ None \notin Jobs /\ said \in [Keys -> Saids]
  BY TypeParts, SettingsAssumption DEF TypeInv, ControlOK, RecordsOK
<1>2. live'[k] = j /\ obj' = obj /\ said'[k].model = obj[j].model  BY <1>1 DEF StoreChild
<1> QED BY <1>1, <1>2 DEF KeyModels, RowModels, LiveModels, ReadModels

\* The steps of requests keep the models.
LEMMA JobKeepsModels ==
  ASSUME TypeInv, PlaceInv, OriginInv, FilterInv, PromptInv, ModelInv, NEW j \in Jobs, JobStep(j)
  PROVE  ModelInv'
<1> SUFFICES ASSUME NEW k \in Keys, Calm(k)' PROVE KeyModels(k)'  BY DEF ModelInv, KeyModels
<1>0. /\ KeyModels(k) /\ pc \in [Jobs -> PCs] /\ row \in [Keys -> Rows] /\ situation' = situation
      /\ None \notin Jobs
  BY JobMoves, SettingsAssumption DEF ModelInv, TypeInv, TypeOK
<1>1. CASE k # Key(j)
  <2>1. row'[k] = row[k] /\ said'[k] = said[k] /\ live'[k] = live[k] /\ origin'[k] = origin[k]
    BY <1>1, OtherKeys
  <2>2. FoundModel(k)' = FoundModel(k) /\ (Heard(k)' => Heard(k))
    BY <1>0, <2>1 DEF FoundModel, AgentInKey, Heard
  <2> QED BY <1>0, <1>1, <2>1, <2>2, ModelStays
<1>2. CASE k = Key(j)
  <2>1. CASE \/ Create(j) \/ StartRun(j) \/ ResumeModel(j) \/ ResumeLoad(j) \/ Apply(j) \/ ReadChoice(j)
             \/ Publish(j) \/ TakeLock(j) \/ StoreChild(j)
    BY <1>2, <2>1, CreateKeepsModels, RunKeepsModels, ResumeKeepsModels, LoadKeepsModels,
       ApplyKeepsModels, ReadKeepsModels, PublishKeepsModels, LockKeepsModels, StoreKeepsModels
  <2>2. CASE /\ ~Create(j) /\ ~StartRun(j) /\ ~ResumeModel(j) /\ ~ResumeLoad(j) /\ ~Apply(j)
             /\ ~ReadChoice(j) /\ ~Publish(j) /\ ~TakeLock(j) /\ ~StoreChild(j)
    <3>1. \/ ResumePrompt(j) \/ RecordChild(j) \/ RecordChoice(j) \/ GetSession(j) \/ Config(j)
          \/ ReadOrigin(j) \/ BuildEngine(j) \/ RefuseEngine(j) \/ Restore(j) \/ StartChild(j)
          \/ Inherit(j) \/ StartTask(j) \/ Turn(j) \/ Persist(j)
      BY <2>2 DEF JobStep
    <3>2. said'[k].model = said[k].model /\ live'[k] = live[k]  BY <1>2, <2>2, SaidMoves
    <3>3. live[k] # None \/ (FoundModel(k)' = FoundModel(k) /\ (Heard(k)' => Heard(k)))
      <4>1. CASE RecordChild(j) \/ RecordChoice(j)
        <5>1. pc[j] \in {"record", "recordChoice"}  BY <4>1 DEF RecordChild, RecordChoice, Goes
        <5> QED BY <1>0, <1>2, <5>1, CalmStays DEF PromptInv, KeyPrompts, NewPrompts
      <4>2. CASE ~RecordChild(j) /\ ~RecordChoice(j)
        <5>1. row'[k].known = row[k].known /\ row'[k].agent = row[k].agent /\ row'[k].model = row[k].model
          <6>1. CASE ResumePrompt(j)
            <7>1. Ask(j).prompt \in Prompts  BY AskType DEF TypeInv, TypeOK
            <7>2. row' = row \/ row' = SetSessionInjectedSystemPrompt(row, k, Ask(j).prompt)
              BY <1>2, <6>1 DEF ResumePrompt
            <7> QED BY <1>0, <7>1, <7>2, RowWrites
          <6>2. CASE ~ResumePrompt(j)  BY <1>2, <2>2, <4>2, <6>2, RowMoves
          <6> QED BY <6>1, <6>2
        <5>2. origin' = origin
          BY <3>1, <4>2
             DEF ResumePrompt, GetSession, Config, ReadOrigin, BuildEngine, RefuseEngine, Restore,
                 StartChild, Inherit, StartTask, Turn, Persist, ghosts
        <5> QED BY <1>0, <5>1, <5>2 DEF FoundModel, AgentInKey, Heard
      <4> QED BY <4>1, <4>2
    <3>4. pc'[j] \in Readers \ {"choice"} =>
            IsChild(j) \/ (pc[j] \in Readers \ {"choice"} /\ obj'[j].model = obj[j].model)
      <4> SUFFICES ASSUME pc'[j] \in Readers \ {"choice"}, ~IsChild(j)
                   PROVE  pc[j] \in Readers \ {"choice"} /\ obj'[j].model = obj[j].model
        OBVIOUS
      <4>1. BuildEngine(j) \/ Restore(j)
        BY <1>0, <3>1
           DEF ResumePrompt, RecordChild, RecordChoice, GetSession, Config, ReadOrigin, RefuseEngine,
               StartChild, Inherit, StartTask, Turn, Persist, Goes, Readers
      <4>2. pc[j] \in {"engine", "restore"}  BY <4>1 DEF BuildEngine, Restore, Goes
      <4>3. CASE BuildEngine(j)  BY <4>2, <4>3, BuiltSettings DEF Readers
      <4>4. CASE Restore(j)
        <5>1. obj[j].off = {} /\ obj[j].tools = InitTools(obj[j].agent)
          BY <4>4 DEF FilterInv, IsFiltered, Restore, Goes
        <5> QED BY <4>2, <4>4, <5>1, RestoredSettings DEF Readers
      <4> QED BY <4>1, <4>3, <4>4
    <3> QED BY <1>0, <2>2, <3>2, <3>3, <3>4, ModelStays
  <2> QED BY <2>1, <2>2
<1> QED BY <1>1, <1>2

-----------------------------------------------------------------------------
(* The caps and the tools taken away.                                      *)

\* A step that leaves the limits where they are saved, said and in force leaves what
\* a key's limits have to do with one another.
LEMMA LimitStays ==
  ASSUME TypeInv, PlaceInv, NEW j \in Jobs, JobStep(j), NEW k \in Keys, KeyLimits(k),
         k # Key(j) \/ ~Apply(j), live'[k] = live[k], file'[k] = file[k],
         said'[k].off = said[k].off, said'[k].cap = said[k].cap,
         k = Key(j) /\ pc'[j] \in Readers => IsChild(j) \/ HasLimits(j)'
  PROVE  KeyLimits(k)'
<1> SUFFICES ASSUME Calm(k)' PROVE (FileLimits(k) /\ LiveLimits(k) /\ ReadLimits(k))'
  BY DEF KeyLimits
<1>0. /\ pc \in [Jobs -> PCs] /\ live \in [Keys -> Jobs \cup {None}] /\ None \notin Jobs
      /\ live[k] # None => live[k] \in Jobs /\ Key(live[k]) = k /\ pc[live[k]] \in MadePcs
  BY SettingsAssumption DEF TypeInv, TypeOK, PlaceInv
<1>1. FileLimits(k) /\ LiveLimits(k) /\ ReadLimits(k)  BY CalmStays DEF KeyLimits
<1>2. /\ situation' = situation /\ \A h \in Jobs \ {j} : pc'[h] = pc[h]
      /\ \A h \in Jobs : /\ Key(h)' = Key(h) /\ Ask(h)' = Ask(h) /\ (IsChild(h)' <=> IsChild(h))
                         /\ \A what : Says(h, what)' <=> Says(h, what)
  BY JobMoves, AsksStay
<1>3. \A h \in Jobs : Key(h) = k /\ (h # j \/ pc[h] \in MadePcs) =>
        obj'[h].off = obj[h].off /\ obj'[h].cap = obj[h].cap /\ obj'[h].agent = obj[h].agent
  BY OthersStay DEF SameSettings
<1>4. FileLimits(k)'  BY <1>1 DEF FileLimits
<1>5. LiveLimits(k)'  BY <1>0, <1>1, <1>3 DEF LiveLimits
<1>6. ReadLimits(k)'
  <2> SUFFICES ASSUME NEW i \in Jobs, Reads(i, k)' PROVE HasLimits(i)'  BY DEF ReadLimits
  <2>1. Key(i) = k /\ ~IsChild(i) /\ pc'[i] \in Readers  BY <1>2 DEF Reads
  <2>2. CASE i = j  BY <2>1, <2>2
  <2>3. CASE i # j
    <3>1. HasLimits(i)  BY <1>1, <1>2, <2>1, <2>3 DEF ReadLimits, Reads
    <3> QED BY <1>2, <1>3, <2>1, <2>3, <3>1 DEF HasLimits, AskedCap
  <2> QED BY <2>2, <2>3
<1> QED BY <1>4, <1>5, <1>6

\* A resume or a config gives the session the tools and the cap it brings.
LEMMA ApplyKeepsLimits ==
  ASSUME TypeInv, PlaceInv, FilterInv, LimitInv, NEW j \in Jobs, Apply(j), NEW k \in Keys, k = Key(j)
  PROVE  KeyLimits(k)'
<1> SUFFICES ASSUME Calm(k)' PROVE (FileLimits(k) /\ LiveLimits(k) /\ ReadLimits(k))'
  BY DEF KeyLimits
<1>0. JobStep(j) /\ pc[j] = "apply"  BY DEF JobStep, Apply, Goes
<1>1. /\ situation' = situation /\ \A h \in Jobs \ {j} : pc'[h] = pc[h]
      /\ \A h \in Jobs : /\ Key(h)' = Key(h) /\ Ask(h)' = Ask(h) /\ (IsChild(h)' <=> IsChild(h))
                         /\ \A what : Says(h, what)' <=> Says(h, what)
  BY <1>0, JobMoves, AsksStay
<1>2. /\ pc \in [Jobs -> PCs] /\ at \in [Jobs -> Jobs \cup {None}]
      /\ said \in [Keys -> Saids] /\ obj \in [Jobs -> Objects]
      /\ live \in [Keys -> Jobs \cup {None}] /\ None \notin Jobs
      /\ live[k] # None => Key(live[k]) = k /\ pc[live[k]] \in MadePcs
  BY TypeParts, SettingsAssumption DEF TypeInv, ControlOK, RecordsOK, ObjOK, PlaceInv
<1>3. /\ pc'[j] = "done" /\ live' = live /\ file' = file
      /\ said'[k].off = IF live[k] = at[j] /\ Says(j, "off") THEN Ask(j).off ELSE said[k].off
      /\ said'[k].cap = IF live[k] = at[j] /\ Says(j, "cap") THEN Ask(j).cap ELSE said[k].cap
  BY <1>2 DEF Apply, Goes, disk
<1>4. FileLimits(k) /\ LiveLimits(k) /\ ReadLimits(k)  BY <1>0, CalmStays DEF LimitInv, KeyLimits
<1>5. at[j] \in Jobs /\ Key(at[j]) = k /\ pc[at[j]] \in MadePcs
  BY <1>0, AppliedValue DEF PlaceInv, FilterInv, IsFiltered, AtPcs
<1>6. LET s == obj[at[j]]
          t == obj'[at[j]] IN
      /\ t.agent = s.agent
      /\ t.off = IF Says(j, "off") THEN Ask(j).off ELSE s.off
      /\ t.cap = IF Says(j, "cap") THEN Ask(j).cap ELSE s.cap
  BY AppliedSettings
<1>7. \A i \in Jobs \ {at[j], j} : /\ obj'[i].off = obj[i].off /\ obj'[i].cap = obj[i].cap
                                   /\ obj'[i].agent = obj[i].agent
  BY <1>0, SettingsStay DEF SameSettings
<1>8. FileLimits(k)'  BY <1>2, <1>3, <1>4, <1>5 DEF FileLimits
<1>9. LiveLimits(k)'
  <2>1. CASE live[k] = at[j]  BY <1>2, <1>3, <1>4, <1>5, <1>6, <2>1 DEF LiveLimits
  <2>2. CASE live[k] # at[j]
    <3>1. live[k] # j  BY <1>0, <1>2 DEF MadePcs
    <3> QED BY <1>2, <1>3, <1>4, <1>7, <2>2, <3>1 DEF LiveLimits
  <2> QED BY <2>1, <2>2
<1>10. ReadLimits(k)'
  <2> SUFFICES ASSUME NEW i \in Jobs, Reads(i, k)' PROVE HasLimits(i)'  BY DEF ReadLimits
  <2>1. Reads(i, k) /\ i # at[j] /\ i # j /\ pc[i] = pc'[i] /\ Key(i) = k
    BY <1>1, <1>3, <1>5 DEF Reads, Readers, MadePcs
  <2>2. HasLimits(i)  BY <1>4, <2>1 DEF ReadLimits
  <2> QED BY <1>1, <1>3, <1>7, <2>1, <2>2 DEF HasLimits, AskedCap
<1> QED BY <1>8, <1>9, <1>10

\* A build restores what the last turn saved, but for the cap that it is asked for.
LEMMA BuildHasLimits ==
  ASSUME TypeInv, FilterInv, NEW j \in Jobs, ~IsChild(j), pc'[j] \in Readers,
         ReadOrigin(j) \/ ReadChoice(j) \/ BuildEngine(j) \/ Restore(j),
         pc[j] \in Readers => HasLimits(j)
  PROVE  HasLimits(j)'
<1>0. pc \in [Jobs -> PCs] /\ situation \in Situations  BY DEF TypeInv, TypeOK
<1>1. /\ situation' = situation /\ file' = file
      /\ Key(j)' = Key(j) /\ Ask(j)' = Ask(j) /\ (Says(j, "cap")' <=> Says(j, "cap"))
  BY AsksStay DEF ReadOrigin, ReadChoice, BuildEngine, Restore, disk
<1>2. CASE ReadOrigin(j)
  <2>1. pc'[j] = "choice"  BY <1>0, <1>2 DEF ReadOrigin, Goes, Readers
  <2> QED BY <2>1 DEF HasLimits
<1>3. CASE ReadChoice(j)
  <2>1. pc'[j] = "engine"  BY <1>0, <1>3 DEF ReadChoice, Goes
  <2>2. obj'[j].agent = obj[j].agent /\ (OwnCap[obj[j].agent] = 0 => obj'[j].cap = AskedCap(j, 0))
    BY <1>3, ChoiceReadSettings
  <2> QED BY <1>1, <2>1, <2>2 DEF HasLimits, AskedCap
<1>4. CASE BuildEngine(j)
  <2>1. pc[j] = "engine" /\ pc'[j] = "restore"  BY <1>0, <1>4 DEF BuildEngine, Goes
  <2>2. obj'[j].agent = obj[j].agent /\ obj'[j].cap = obj[j].cap  BY <1>4, BuiltSettings
  <2> QED BY <1>1, <2>1, <2>2 DEF HasLimits, AskedCap, Readers
<1>5. CASE Restore(j)
  <2>1. pc[j] = "restore" /\ pc'[j] = "publish"  BY <1>0, <1>5 DEF Restore, Goes
  <2>2. obj[j].off = {} /\ obj[j].tools = InitTools(obj[j].agent)
    BY <2>1 DEF FilterInv, IsFiltered
  <2>3. /\ obj'[j].agent = obj[j].agent /\ obj'[j].off = file[Key(j)].off
        /\ obj'[j].cap = IF obj[j].cap # 0 THEN obj[j].cap ELSE file[Key(j)].cap
    BY <1>5, <2>2, RestoredSettings
  <2>4. OwnCap[obj[j].agent] = 0 => obj[j].cap = AskedCap(j, 0)  BY <2>1 DEF HasLimits, Readers
  <2>5. OwnCap[obj[j].agent] = 0 => obj'[j].cap = AskedCap(j, file[Key(j)].cap)
    BY <1>0, <2>3, <2>4, SaysType DEF AskedCap
  <2> QED BY <1>1, <2>1, <2>3, <2>5 DEF HasLimits, AskedCap
<1> QED BY <1>2, <1>3, <1>4, <1>5

\* A build becomes the session with the tools and the cap it restored.
LEMMA PublishKeepsLimits ==
  ASSUME TypeInv, PlaceInv, LimitInv, NEW j \in Jobs, Publish(j), NEW k \in Keys, k = Key(j)
  PROVE  KeyLimits(k)'
<1>0. /\ JobStep(j) /\ ~Apply(j) /\ KeyLimits(k) /\ pc[j] = "publish" /\ ~IsChild(j)
  BY DEF JobStep, Publish, Apply, Goes, LimitInv, TypeInv, AtInv, RequestPcs
<1>1. /\ situation' = situation /\ \A h \in Jobs \ {j} : pc'[h] = pc[h]
      /\ \A h \in Jobs : /\ Key(h)' = Key(h) /\ Ask(h)' = Ask(h) /\ (IsChild(h)' <=> IsChild(h))
                         /\ Says(h, "cap")' <=> Says(h, "cap")
  BY <1>0, JobMoves, AsksStay
<1>2. /\ pc \in [Jobs -> PCs] /\ live \in [Keys -> Jobs \cup {None}] /\ None \notin Jobs
      /\ said \in [Keys -> Saids] /\ said[k] \in Saids
  BY TypeParts, SettingsAssumption DEF TypeInv, ControlOK, RecordsOK
<1>3. /\ pc'[j] \in {"turn", "done"} /\ obj' = obj /\ file' = file
      /\ live'[k] = IF live[k] = None THEN j ELSE live[k]
      /\ said'[k].off = said[k].off
      /\ said'[k].cap = IF live[k] = None THEN AskedCap(j, said[k].cap) ELSE said[k].cap
  BY <1>2 DEF Publish, Goes, disk, AskedCap, Saids
<1>4. CASE live[k] # None
  <2>1. live'[k] = live[k] /\ said'[k].cap = said[k].cap  BY <1>3, <1>4
  <2> QED BY <1>0, <1>3, <2>1, LimitStays DEF Readers
<1>5. CASE live[k] = None
  <2> SUFFICES ASSUME Calm(k)' PROVE (FileLimits(k) /\ LiveLimits(k) /\ ReadLimits(k))'
    BY DEF KeyLimits
  <2>1. FileLimits(k) /\ ReadLimits(k)  BY <1>0, CalmStays DEF KeyLimits
  <2>2. live'[k] = j /\ live'[k] # None  BY <1>2, <1>3, <1>5
  <2>3. HasLimits(j)  BY <1>0, <2>1 DEF ReadLimits, Reads, Readers
  <2>4. LiveLimits(k)'  BY <1>0, <1>3, <1>5, <2>1, <2>2, <2>3 DEF LiveLimits, FileLimits, HasLimits, AskedCap
  <2>5. ReadLimits(k)'
    <3> SUFFICES ASSUME NEW i \in Jobs, Reads(i, k)' PROVE HasLimits(i)'  BY DEF ReadLimits
    <3>1. Reads(i, k) /\ pc'[i] = pc[i]  BY <1>1, <1>3 DEF Reads, Readers
    <3>2. HasLimits(i)  BY <2>1, <3>1 DEF ReadLimits
    <3> QED BY <1>1, <1>3, <3>1, <3>2 DEF HasLimits, AskedCap
  <2> QED BY <2>2, <2>4, <2>5 DEF FileLimits
<1> QED BY <1>4, <1>5

\* What ends a session while nobody builds one leaves the limits that were saved.
LEMMA EndKeepsLimits ==
  ASSUME NEW k \in Keys, ~Building(k), situation' = situation, live'[k] = None,
         said'[k].off = file'[k].off, said'[k].cap = file'[k].cap,
         \A i \in Jobs : Key(i) = k => pc'[i] = pc[i] \/ pc'[i] \notin Readers
  PROVE  KeyLimits(k)'
<1>1. \A h \in Jobs : Key(h)' = Key(h) /\ (IsChild(h)' <=> IsChild(h))  BY AsksStay
<1>2. \A i \in Jobs : Key(i) = k => pc'[i] \notin Readers  BY DEF Building, Readers
<1>3. FileLimits(k)'  BY DEF FileLimits
<1>4. LiveLimits(k)'  BY DEF LiveLimits
<1>5. ReadLimits(k)'  BY <1>1, <1>2 DEF ReadLimits, Reads
<1> QED BY <1>3, <1>4, <1>5 DEF KeyLimits

\* Taking the queue's lock leaves the tools and the caps.
LEMMA LockKeepsLimits ==
  ASSUME TypeInv, PlaceInv, LimitInv, NEW j \in Jobs, TakeLock(j), NEW k \in Keys, k = Key(j)
  PROVE  KeyLimits(k)'
<1> SUFFICES ASSUME Calm(k)' PROVE KeyLimits(k)'  BY DEF KeyLimits
<1>0. JobStep(j) /\ ~Apply(j) /\ KeyLimits(k)  BY DEF JobStep, TakeLock, Apply, Goes, LimitInv
<1>1. /\ pc \in [Jobs -> PCs] /\ live \in [Keys -> Jobs \cup {None}] /\ flags \in [Keys -> SUBSET Marks]
      /\ said \in [Keys -> Saids]
  BY TypeParts DEF TypeInv, ControlOK, RecordsOK
<1>2. /\ pc[j] = "lock" /\ pc'[j] = "get" /\ file' = file /\ situation' = situation
  BY <1>1 DEF TakeLock, Goes, disk
<1>3. CASE live[k] = None \/ ~Says(j, "fresh")
  <2>1. live'[k] = live[k] /\ said'[k] = said[k]  BY <1>1, <1>3 DEF TakeLock, Forgotten
  <2> QED BY <1>0, <1>2, <2>1, LimitStays DEF Readers
<1>4. CASE live[k] # None /\ Says(j, "fresh")
  <2>1. live'[k] = None /\ MarkIf(k, Building(k), "raced") /\ said'[k] = Recorded(k)
    BY <1>1, <1>4 DEF TakeLock, Forgotten
  <2>2. ~Building(k)  BY <1>1, <2>1 DEF MarkIf, Calm
  <2>3. said'[k].off = file'[k].off /\ said'[k].cap = file'[k].cap  BY <1>2, <2>1 DEF Recorded
  <2>4. \A i \in Jobs : pc'[i] = pc[i] \/ pc'[i] \notin Readers
    BY <1>0, <1>2, JobMoves DEF Readers
  <2> QED BY <1>2, <2>1, <2>2, <2>3, <2>4, EndKeepsLimits
<1> QED BY <1>3, <1>4

\* A child becomes the session with its tools and its cap.
LEMMA StoreKeepsLimits ==
  ASSUME TypeInv, PlaceInv, LimitInv, NEW j \in Jobs, StoreChild(j), NEW k \in Keys, k = Key(j)
  PROVE  KeyLimits(k)'
<1> SUFFICES ASSUME Calm(k)' PROVE (FileLimits(k) /\ LiveLimits(k) /\ ReadLimits(k))'
  BY DEF KeyLimits
<1>0. JobStep(j) /\ KeyLimits(k)  BY DEF JobStep, LimitInv
<1>1. /\ pc \in [Jobs -> PCs] /\ live \in [Keys -> Jobs \cup {None}] /\ None \notin Jobs
      /\ said \in [Keys -> Saids]
  BY TypeParts, SettingsAssumption DEF TypeInv, ControlOK, RecordsOK
<1>2. /\ live'[k] = j /\ obj' = obj /\ file' = file /\ pc'[j] = "record"
      /\ said'[k].off = obj[j].off /\ said'[k].cap = obj[j].cap
  BY <1>1 DEF StoreChild, Goes, disk
<1>3. /\ \A h \in Jobs \ {j} : pc'[h] = pc[h]
      /\ \A h \in Jobs : /\ Key(h)' = Key(h) /\ Ask(h)' = Ask(h) /\ (IsChild(h)' <=> IsChild(h))
                         /\ Says(h, "cap")' <=> Says(h, "cap")
  BY <1>0, JobMoves, AsksStay
<1>4. ReadLimits(k)'
  <2> SUFFICES ASSUME NEW i \in Jobs, Reads(i, k)' PROVE HasLimits(i)'  BY DEF ReadLimits
  <2>1. Reads(i, k) /\ pc'[i] = pc[i]  BY <1>2, <1>3 DEF Reads, Readers
  <2>2. HasLimits(i)  BY <1>0, <2>1, CalmStays DEF KeyLimits, ReadLimits
  <2> QED BY <1>2, <1>3, <2>1, <2>2 DEF HasLimits, AskedCap
<1> QED BY <1>1, <1>2, <1>4 DEF FileLimits, LiveLimits

\* A turn saves what is in force; nobody who read what was there is about to
\* publish.
LEMMA PersistKeepsLimits ==
  ASSUME TypeInv, PlaceInv, LimitInv, NEW j \in Jobs, Persist(j), NEW k \in Keys, k = Key(j)
  PROVE  KeyLimits(k)'
<1> SUFFICES ASSUME Calm(k)' PROVE (FileLimits(k) /\ LiveLimits(k) /\ ReadLimits(k))'
  BY DEF KeyLimits
<1>0. JobStep(j) /\ KeyLimits(k) /\ pc[j] = "persist"  BY DEF JobStep, LimitInv, Persist, Goes
<1>1. /\ pc \in [Jobs -> PCs] /\ said \in [Keys -> Saids] /\ said[k] \in Saids /\ file \in [Keys -> Files]
      /\ flags \in [Keys -> SUBSET Marks]
  BY TypeParts DEF TypeInv, ControlOK, RecordsOK
<1>2. /\ live' = live /\ obj' = obj /\ pc'[j] = "done"
      /\ file'[k].off = obj[at[j]].off /\ file'[k].cap = obj[at[j]].cap
      /\ said'[k].off = IF live[k] # None THEN said[k].off ELSE obj[at[j]].off
      /\ said'[k].cap = IF live[k] # None THEN said[k].cap ELSE obj[at[j]].cap
      /\ MarkIf(k, \E i \in Jobs \ {j} : Key(i) = k /\ pc[i] = "publish", "raced")
  BY <1>1 DEF Persist, Goes, SaveGuardState, SaveDisabledTools, DisabledToolNames, Saids
<1>3. /\ \A h \in Jobs \ {j} : pc'[h] = pc[h]
      /\ \A h \in Jobs : /\ Key(h)' = Key(h) /\ Ask(h)' = Ask(h) /\ (IsChild(h)' <=> IsChild(h))
                         /\ Says(h, "cap")' <=> Says(h, "cap")
  BY <1>0, JobMoves, AsksStay
<1>4. LiveLimits(k) /\ ReadLimits(k)  BY <1>0, CalmStays DEF KeyLimits
<1>5. \A i \in Jobs \ {j} : Key(i) = k => pc[i] # "publish"
  BY <1>1, <1>2 DEF MarkIf, Calm
<1>6. ReadLimits(k)'
  <2> SUFFICES ASSUME NEW i \in Jobs, Reads(i, k)' PROVE HasLimits(i)'  BY DEF ReadLimits
  <2>1. Reads(i, k) /\ i # j /\ pc'[i] = pc[i] /\ pc[i] # "publish"
    BY <1>2, <1>3, <1>5 DEF Reads, Readers
  <2>2. HasLimits(i)  BY <1>4, <2>1 DEF ReadLimits
  <2> QED BY <1>2, <1>3, <2>1, <2>2 DEF HasLimits, AskedCap
<1> QED BY <1>2, <1>4, <1>6 DEF FileLimits, LiveLimits

\* The steps of requests keep the tools and the caps.
LEMMA JobKeepsLimits ==
  ASSUME TypeInv, PlaceInv, FilterInv, LimitInv, NEW j \in Jobs, JobStep(j)
  PROVE  LimitInv'
<1> SUFFICES ASSUME NEW k \in Keys, Calm(k)' PROVE KeyLimits(k)'  BY DEF LimitInv, KeyLimits
<1>0. KeyLimits(k) /\ pc \in [Jobs -> PCs]  BY DEF LimitInv, TypeInv, TypeOK
<1>1. CASE k # Key(j)
  <2>1. file'[k] = file[k] /\ said'[k] = said[k] /\ live'[k] = live[k]  BY <1>1, OtherKeys
  <2> QED BY <1>0, <1>1, <2>1, LimitStays
<1>2. CASE k = Key(j)
  <2>1. CASE Apply(j) \/ Publish(j) \/ TakeLock(j) \/ StoreChild(j) \/ Persist(j)
    BY <1>2, <2>1, ApplyKeepsLimits, PublishKeepsLimits, LockKeepsLimits, StoreKeepsLimits,
       PersistKeepsLimits
  <2>2. CASE ~Apply(j) /\ ~Publish(j) /\ ~TakeLock(j) /\ ~StoreChild(j) /\ ~Persist(j)
    <3>1. /\ said'[k].off = said[k].off /\ said'[k].cap = said[k].cap /\ live'[k] = live[k]
          /\ file' = file
      BY <1>2, <2>2, SaidMoves
    <3>2. pc'[j] \in Readers => IsChild(j) \/ HasLimits(j)'
      <4> SUFFICES ASSUME pc'[j] \in Readers, ~IsChild(j) PROVE HasLimits(j)'  OBVIOUS
      <4>1. ReadOrigin(j) \/ ReadChoice(j) \/ BuildEngine(j) \/ Restore(j)
        BY <1>0, <2>2
           DEF JobStep, Create, StartRun, GetSession, ResumePrompt, ResumeModel, ResumeLoad, Config,
               RefuseEngine, StartChild, Inherit, RecordChild, RecordChoice, StartTask, Turn, Goes, Readers
      <4>2. pc[j] \in Readers => HasLimits(j)
        BY <1>0, <1>2, CalmStays DEF KeyLimits, ReadLimits, Reads
      <4> QED BY <4>1, <4>2, BuildHasLimits
    <3> QED BY <1>0, <2>2, <3>1, <3>2, LimitStays
  <2> QED BY <2>1, <2>2
<1> QED BY <1>1, <1>2

-----------------------------------------------------------------------------
(* All of them.                                                            *)

SaidAlike == PromptInv /\ ModelInv /\ LimitInv
KeySaid(k) == KeyPrompts(k) /\ KeyModels(k) /\ KeyLimits(k)

\* What is kept of a key is kept for each key by itself.
LEMMA SaidParts == SaidAlike <=> \A k \in Keys : KeySaid(k)
  BY DEF SaidAlike, KeySaid, PromptInv, ModelInv, LimitInv

\* The reaper takes a session away and its callers are told what a rebuild finds; a
\* row that is deleted leaves what the key says of itself.
LEMMA SystemKeepsSaid ==
  ASSUME TypeInv, PlaceInv, OriginInv, SaidAlike,
         (\E k \in Keys : ReapSession(k) \/ DeleteSession(k)) \/ RemoveTree \/ Restart
  PROVE  SaidAlike'
<1> SUFFICES ASSUME NEW k \in Keys PROVE KeySaid(k)'
  BY SaidParts DEF SaidAlike, KeySaid, PromptInv, ModelInv, LimitInv
<1>0. /\ pc \in [Jobs -> PCs] /\ live \in [Keys -> Jobs \cup {None}] /\ flags \in [Keys -> SUBSET Marks]
      /\ said \in [Keys -> Saids] /\ said[k] \in Saids /\ row \in [Keys -> Rows]
  BY TypeParts DEF TypeInv, ControlOK, RecordsOK
<1>1. situation' = situation /\ obj' = obj /\ at' = at /\ file' = file /\ origin' = origin
  BY DEF ReapSession, DeleteSession, RemoveTree, Restart, memory, ghosts, disk
<1>2. KeyPrompts(k) /\ KeyModels(k) /\ KeyLimits(k)  BY SaidParts DEF KeySaid
<1>3. ASSUME pc' = pc, row'[k] = row[k], said'[k] = said[k], live'[k] = live[k], flags'[k] = flags[k]
      PROVE  KeySaid(k)'
  BY <1>1, <1>2, <1>3, SystemLeaves DEF KeySaid
<1>4. ~Calm(k)' => KeySaid(k)'  BY DEF KeySaid, KeyPrompts, KeyModels, KeyLimits
<1>5. CASE RemoveTree  BY <1>3, <1>5 DEF RemoveTree, memory, ghosts
<1>6. ASSUME NEW x \in Keys, ReapSession(x) PROVE KeySaid(k)'
  <2>0. pc' = pc /\ row' = row  BY <1>6 DEF ReapSession, disk
  <2>1. CASE x # k
    BY <1>0, <1>3, <1>6, <2>0, <2>1 DEF ReapSession, Forgotten, MarkIf
  <2>2. CASE x = k /\ Calm(k)'
    <3>1. /\ live'[k] = None /\ said'[k] = Recorded(k) /\ MarkIf(k, Building(k), "raced")
      BY <1>0, <1>6, <2>2 DEF ReapSession, Forgotten
    <3>2. ~Building(k) /\ Calm(k)  BY <1>0, <2>2, <3>1 DEF MarkIf, Calm
    <3>3. /\ said'[k].prompt = said[k].prompt /\ said'[k].off = file'[k].off
          /\ said'[k].cap = file'[k].cap /\ said'[k].model = FoundModel(k)
      BY <1>1, <3>1 DEF Recorded, FoundModel
    <3>4. FoundModel(k)' = FoundModel(k)  BY <1>1, <2>0 DEF FoundModel, AgentInKey
    <3>5. KeyPrompts(k)'
      <4>1. row'[k].prompt = row[k].prompt  BY <2>0
      <4> QED BY <1>1, <1>2, <2>0, <3>1, <3>2, <3>3, <4>1, EndKeepsPrompts
    <3>6. KeyModels(k)'  BY <1>1, <2>0, <3>1, <3>2, <3>3, <3>4, EndKeepsModels
    <3>7. KeyLimits(k)'  BY <1>1, <2>0, <3>1, <3>2, <3>3, EndKeepsLimits
    <3> QED BY <3>5, <3>6, <3>7 DEF KeySaid
  <2> QED BY <1>4, <2>1, <2>2
<1>7. ASSUME NEW x \in Keys, DeleteSession(x) PROVE KeySaid(k)'
  <2>0. pc' = pc /\ live' = live  BY <1>7 DEF DeleteSession
  <2>1. CASE x # k
    BY <1>0, <1>3, <1>7, <2>0, <2>1 DEF DeleteSession
  <2>2. CASE x = k /\ Calm(k)'
    <3>1. /\ Calm(k) /\ live[k] = None /\ ~Building(k) /\ AgentInKey(k) = origin[k].agent
      BY <1>0, <1>7, <2>2 DEF DeleteSession, Calm
    <3>2. /\ row'[k] = NoRow /\ said'[k].off = said[k].off /\ said'[k].cap = said[k].cap
          /\ AgentInKey(k) = None => said'[k] = said[k]
          /\ AgentInKey(k) # None =>
               said'[k].prompt = NoText /\ said'[k].model = OwnModel[AgentInKey(k)]
      BY <1>0, <1>7, <2>2 DEF DeleteSession, Saids
    <3>3. NoRow.prompt = NoText /\ NoRow.model = None /\ ~NoRow.known  BY DEF NoRow
    <3>4. said'[k].prompt = NoText
      <4>1. CASE AgentInKey(k) # None  BY <3>2, <4>1
      <4>2. CASE AgentInKey(k) = None
        <5>1. row[k] = NoRow  BY <3>1, <4>2, UnheardKey DEF Heard
        <5>2. RowPrompts(k) /\ ~Unrecorded(k)  BY <1>2, <3>1 DEF KeyPrompts, Building
        <5> QED BY <3>2, <3>3, <4>2, <5>1, <5>2 DEF RowPrompts
      <4> QED BY <4>1, <4>2
    <3>5. \A h \in Jobs : Key(h)' = Key(h) /\ (IsChild(h)' <=> IsChild(h))  BY <1>1, AsksStay
    <3>6. Heard(k)' => said'[k].model = FoundModel(k)'
      <4> SUFFICES ASSUME Heard(k)' PROVE said'[k].model = FoundModel(k)'  OBVIOUS
      <4>1. AgentInKey(k) # None /\ AgentInKey(k)' = AgentInKey(k)
        BY <1>1, <3>1 DEF Heard, AgentInKey
      <4> QED BY <3>2, <3>3, <4>1 DEF FoundModel
    <3>7. KeyPrompts(k)'
      <4>1. \A i \in Jobs : Key(i) = k => pc[i] \notin Readers \cup {"record", "recordChoice"}
        BY <3>1 DEF Building, Unrecorded, Readers
      <4>2. RowPrompts(k)'  BY <3>2, <3>3, <3>4 DEF RowPrompts
      <4>3. LivePrompts(k)'  BY <2>0, <3>1 DEF LivePrompts
      <4>4. ReadPrompts(k)'  BY <2>0, <3>5, <4>1 DEF ReadPrompts, Reads
      <4>5. NewPrompts(k)'  BY <2>0, <3>5, <4>1 DEF NewPrompts
      <4> QED BY <4>2, <4>3, <4>4, <4>5 DEF KeyPrompts
    <3>8. KeyModels(k)'  BY <1>1, <2>0, <3>1, <3>6, EndKeepsModels
    <3>9. KeyLimits(k)'
      <4>1. FileLimits(k)  BY <1>2, <3>1 DEF KeyLimits
      <4> QED BY <1>1, <2>0, <3>1, <3>2, <4>1, EndKeepsLimits DEF FileLimits
    <3> QED BY <3>7, <3>8, <3>9 DEF KeySaid
  <2> QED BY <1>4, <2>1, <2>2
<1>8. CASE Restart /\ Calm(k)'
  <2>1. /\ live'[k] = None /\ \A i \in Jobs : pc'[i] \in {"idle", "done"}
        /\ row' = BackfillLineage(AddSessionColumns(row))
        /\ Calm(k) /\ ~Unrecorded(k)
        /\ said'[k] = IF live[k] # None THEN Recorded(k) ELSE said[k]
    BY <1>0, <1>8 DEF Restart, MigrateGatewayDB, Forgotten, Calm
  <2>2. row' = BackfillLineage(row)  BY <1>0, <2>1, ColumnsAreThere
  <2>3. /\ row'[k].known = row[k].known /\ row'[k].agent = row[k].agent
        /\ row'[k].prompt = row[k].prompt /\ row'[k].model = row[k].model
    BY <1>0, <2>2, BackfillValue
  <2>4. FoundModel(k)' = FoundModel(k) /\ (Heard(k)' => Heard(k))
    BY <1>1, <2>3 DEF FoundModel, AgentInKey, Heard
  <2>5. /\ said'[k].prompt = said[k].prompt
        /\ live[k] # None => /\ said'[k].off = file[k].off /\ said'[k].cap = file[k].cap
                             /\ said'[k].model = FoundModel(k)
    BY <2>1 DEF Recorded, FoundModel
  <2>6. KeyPrompts(k)'
    <3>1. RowPrompts(k)'  BY <1>2, <2>1, <2>3, <2>5 DEF KeyPrompts, RowPrompts
    <3>2. LivePrompts(k)'  BY <2>1 DEF LivePrompts
    <3>3. ReadPrompts(k)'  BY <2>1 DEF ReadPrompts, Reads, Readers
    <3>4. NewPrompts(k)'  BY <2>1 DEF NewPrompts
    <3> QED BY <3>1, <3>2, <3>3, <3>4 DEF KeyPrompts
  <2>7. KeyModels(k)'
    <3>1. RowModels(k)'  BY <1>2, <2>1, <2>4, <2>5 DEF KeyModels, RowModels
    <3>2. LiveModels(k)'  BY <2>1 DEF LiveModels
    <3>3. ReadModels(k)'  BY <2>1 DEF ReadModels, Reads, Readers
    <3> QED BY <3>1, <3>2, <3>3 DEF KeyModels
  <2>8. KeyLimits(k)'
    <3>1. FileLimits(k)'  BY <1>1, <1>2, <2>1, <2>5 DEF KeyLimits, FileLimits
    <3>2. LiveLimits(k)'  BY <2>1 DEF LiveLimits
    <3>3. ReadLimits(k)'  BY <2>1 DEF ReadLimits, Reads, Readers
    <3> QED BY <3>1, <3>2, <3>3 DEF KeyLimits
  <2> QED BY <2>6, <2>7, <2>8 DEF KeySaid
<1> QED BY <1>4, <1>5, <1>6, <1>7, <1>8

\* At the start what was last said is what the table has.
LEMMA InitSaid == Init => SaidAlike
<1> SUFFICES ASSUME Init, NEW k \in Keys PROVE KeySaid(k)  BY SaidParts
<1>1. /\ live[k] = None /\ \A j \in Jobs : pc[j] = "idle"
      /\ file[k] = [cap |-> 0, off |-> {}, words |-> {}]
      /\ origin[k].agent = row[k].agent
      /\ said[k] = [prompt |-> row[k].prompt, off |-> {}, cap |-> 0,
                    model |-> IF row[k].known /\ row[k].model = None THEN OwnModel[row[k].agent]
                              ELSE row[k].model]
  BY DEF Init
<1>2. \A j \in Jobs : ~Reads(j, k)  BY <1>1 DEF Reads, Readers
<1>3. Heard(k) => row[k].known
  <2>1. NoRow.agent = None  BY DEF NoRow
  <2> QED BY <1>1, <2>1, StartRow DEF Heard
<1>4. KeyPrompts(k)  BY <1>1, <1>2 DEF KeyPrompts, RowPrompts, LivePrompts, ReadPrompts, NewPrompts
<1>5. KeyModels(k)  BY <1>1, <1>2, <1>3 DEF KeyModels, RowModels, LiveModels, ReadModels, FoundModel, Heard
<1>6. KeyLimits(k)  BY <1>1, <1>2 DEF KeyLimits, FileLimits, LiveLimits, ReadLimits
<1> QED BY <1>4, <1>5, <1>6 DEF KeySaid

\* Every step keeps them.
LEMMA NextKeepsSaid ==
  SettingsInv /\ OriginInv /\ FilterInv /\ SaidAlike /\ [Next]_vars => FilterInv' /\ SaidAlike'
<1>1. ASSUME FilterInv, SaidAlike, UNCHANGED vars PROVE FilterInv' /\ SaidAlike'
  <2>1. situation' = situation  BY <1>1 DEF vars
  <2>2. FilterInv'
    <3> SUFFICES ASSUME NEW j \in Jobs PROVE IsFiltered(j)'  BY DEF FilterInv
    <3>1. Ask(j)' = Ask(j) /\ Key(j)' = Key(j)  BY <2>1, AsksStay
    <3> QED BY <1>1, <3>1 DEF FilterInv, IsFiltered, vars, memory
  <2>3. \A k \in Keys : KeySaid(k) => KeySaid(k)'
    BY <1>1, SystemLeaves DEF KeySaid, vars, memory, disk, ghosts
  <2> QED BY <1>1, <2>2, <2>3, SaidParts DEF SaidAlike, KeySaid, PromptInv, ModelInv, LimitInv
<1>2. ASSUME SettingsInv, OriginInv, FilterInv, SaidAlike, Next PROVE FilterInv' /\ SaidAlike'
  <2>1. ASSUME NEW j \in Jobs, JobStep(j) PROVE FilterInv' /\ SaidAlike'
    BY <1>2, <2>1, JobKeepsFilter, JobKeepsPrompts, JobKeepsModels, JobKeepsLimits
       DEF SettingsInv, SaidAlike
  <2>2. CASE (\E k \in Keys : ReapSession(k) \/ DeleteSession(k)) \/ RemoveTree \/ Restart
    BY <1>2, <2>2, SystemKeepsFilter, SystemKeepsSaid DEF SettingsInv
  <2> QED BY <1>2, <2>1, <2>2 DEF Next
<1> QED BY <1>1, <1>2

\* What the row, the files, the session and the builds of a key have of its prompt,
\* its model, its tools and its cap agrees with what its callers were last told, as
\* far as no resume still owes it.
THEOREM SettingsAgree == Spec => [](FilterInv /\ SaidAlike)
  BY InitFilter, InitSaid, SettingsInvariant, OriginsAgree, NextKeepsSaid, PTL DEF Spec

\* When nobody is at work on a session its engine has the prompt, the model, the
\* tools and the cap that its callers last set, or that a rebuild found recorded:
\* createSession reads them from the row and the files, applyResume records before
\* it gives, and a turn saves what is in force.
THEOREM SettingsAreKept == Spec => []SettingsAreAsLastSaid
<1>1. SettingsInv /\ FilterInv /\ SaidAlike => SettingsAreAsLastSaid
  <2> SUFFICES ASSUME SettingsInv, FilterInv, SaidAlike, NEW k \in Keys,
                      live[k] # None, Quiet(k), flags[k] = {}
               PROVE  LET s == obj[live[k]] IN
                      /\ s.prompt = said[k].prompt /\ s.model = said[k].model
                      /\ s.tools = InitTools(s.agent) \ said[k].off
                      /\ OwnCap[s.agent] = 0 => s.cap = said[k].cap
    BY DEF SettingsAreAsLastSaid, ChoiceIsAsLastSaid, LimitsAreAsLastSaid
  <2>1. LivePrompts(k) /\ LiveModels(k) /\ LiveLimits(k)
    BY DEF SaidAlike, PromptInv, ModelInv, LimitInv, KeyPrompts, KeyModels, KeyLimits, Calm
  <2>2. \A what : ~Due(k, what)  BY DEF Due, Owes, Quiet, Readers
  <2>3. live[k] \in Jobs /\ Key(live[k]) = k
    BY DEF SettingsInv, TypeInv, TypeOK, PlaceInv
  <2>4. obj[live[k]].tools = InitTools(obj[live[k]].agent) \ obj[live[k]].off
    BY <2>3 DEF FilterInv, IsFiltered
  <2> QED BY <2>1, <2>2, <2>4 DEF LivePrompts, LiveModels, LiveLimits
<1> QED BY <1>1, SettingsInvariant, SettingsAgree, PTL

=============================================================================
