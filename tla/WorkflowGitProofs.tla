-------------------------- MODULE WorkflowGitProofs --------------------------
(***************************************************************************)
(* Theorems about WorkflowGit, for any number of sessions in one work      *)
(* tree, any files and branches, any configuration and any bounds.         *)
(***************************************************************************)
EXTENDS WorkflowGit, TLAPS

\* Once the closing session has staged its files, those nobody touched since are
\* in the index as they are in the tree ...
StagedSteps    == {"commitAll", "leftover", "branch", "ahead", "judge", "push"}
\* ... and once it has come past the commit, they are in one.
CommittedSteps == StagedSteps \ {"commitAll"}
ClosingSteps   == StagedSteps \cup {"addAll"}
NamedSteps     == {"ahead", "judge", "push"}

WorkInv(h) ==
  /\ pc[h] \in {"addFile", "commitFile"} \cup ClosingSteps => situation.autoCommit
  /\ pc[h] \in {"format", "addFile", "commitFile"} => file[h] \subseteq changed[h]
  /\ pc[h] \in ClosingSteps => found[h] \subseteq changed[h]
  /\ pc[h] \in StagedSteps => \A p \in kept[h] : index[p] = tree[p]
  /\ pc[h] \in CommittedSteps => \A p \in kept[h] : \E b \in Branches : tip[b][p] = tree[p]
  /\ pc[h] \in NamedSteps => on[h] \in Branches
  /\ pc[h] = "push" => situation.optIn \/ situation.named \notin {None, on[h]}

GitInv ==
  /\ TypeOK
  /\ \A h \in Sessions : WorkInv(h)
  /\ SharedBranchIsNotPublished

USE DEF Steps, StagedSteps, CommittedSteps, ClosingSteps, NamedSteps

-----------------------------------------------------------------------------
(* Types.                                                                  *)

\* The bounds and branches of a configuration.
LEMMA SituationTypes ==
  ASSUME situation \in Situations
  PROVE  /\ situation.autoCommit \in BOOLEAN /\ situation.optIn \in BOOLEAN
         /\ situation.upstream \subseteq Branches /\ situation.start \in Branches
         /\ situation.at \subseteq Sessions
         /\ situation.edits \in Nat \ {0} /\ situation.commits \in Nat
         /\ situation.faults \in Nat
  BY SituationsAssumption

\* When the session begins, the types hold.
LEMMA TypeInit == Init => TypeOK
<1> SUFFICES ASSUME Init PROVE TypeOK
  OBVIOUS
<1>1. situation \in Situations  BY DEF Init
<1>2. 0 \in Contents /\ 1 \in Contents  BY <1>1, SituationTypes DEF Contents
<1>3. tree \in [Paths -> Contents]  BY <1>2 DEF Init
<1> HIDE DEF Contents
<1> QED BY <1>1, <1>3, SituationTypes DEF Init, TypeOK

\* New content is a content, and the bound on it is the situation's.
LEMMA NextContent ==
  ASSUME TypeOK, edits < situation.edits
  PROVE  edits + 1 \in Contents /\ edits + 1 \in 1..situation.edits
  BY SituationTypes DEF TypeOK, Contents

\* A commit of some files is a commit like any other.
LEMMA CommitTypes ==
  ASSUME TypeOK, NEW ps \in SUBSET Paths, CommitPaths(ps)
  PROVE  /\ index' \in [Paths -> Contents] /\ tip' \in [Branches -> [Paths -> Contents]]
         /\ commits' \in [Branches -> 0 .. situation.commits]
         /\ \A b \in Branches : pub[b] <= commits'[b]
<1> USE DEF TypeOK, CommitPaths
<1>1. branch \in Branches /\ commits[branch] + 1 \in 0 .. situation.commits
  BY SituationTypes
<1>2. [p \in Paths |-> IF p \in ps THEN tree[p] ELSE tip[branch][p]] \in [Paths -> Contents]
  <2> HIDE DEF Contents
  <2> QED BY <1>1
<1>3. \A b \in Branches : commits'[b] \in Nat /\ commits[b] \in Nat /\ commits[b] <= commits'[b] /\ pub[b] \in Nat
  BY <1>1, SituationTypes
<1> HIDE DEF Contents
<1> QED BY <1>1, <1>2, <1>3

\* What a session's tools and hooks do keeps the types.
LEMMA SessionKeepsTypes ==
  ASSUME GitInv, NEW h \in Sessions, SessionStep(h)
  PROVE  TypeOK'
<1> USE DEF TypeOK, treeVars, repoVars, originVars, sessionVars, GoTo, Say, Stop, Summary, Fault
<1>0. TypeOK /\ WorkInv(h) /\ file[h] \in SUBSET Paths /\ found[h] \in SUBSET Paths
  BY DEF GitInv
<1>a. faults + 1 \in 0 .. situation.faults \/ ~(faults < situation.faults)
  BY <1>0, SituationTypes
<1>b. Contents' = Contents \/ situation' # situation  BY DEF Contents
<1> HIDE DEF Contents
<1>1. ASSUME NEW ps \in SUBSET Paths, ToolWrites(h, ps) PROVE TypeOK'
  BY <1>0, <1>b, <1>1, NextContent DEF ToolWrites, Rewrite
<1>2. CASE OnToolResult(h)  BY <1>0, <1>b, <1>2 DEF OnToolResult
<1>3. CASE FormatAndTest(h)
  <2>1. /\ tree' \in [Paths -> Contents] /\ edits' \in 1 .. situation.edits
        /\ kept' \in [Sessions -> SUBSET Paths] /\ \A g \in Sessions : kept'[g] \subseteq found[g]
    <3>1. CASE UNCHANGED treeVars  BY <1>0, <3>1
    <3>2. CASE edits < situation.edits /\ edits' = edits + 1 /\ Rewrite(file[h], edits')
      BY <1>0, <3>2, NextContent DEF Rewrite
    <3> QED BY <1>3, <3>1, <3>2 DEF FormatAndTest
  <2>2. pc' \in [Sessions -> Steps] /\ file' \in [Sessions -> SUBSET Paths]
    <3>1. CASE GoTo(h, "addFile") /\ UNCHANGED file  BY <1>0, <3>1
    <3>2. CASE GoTo(h, "idle") /\ file' = [file EXCEPT ![h] = {}]  BY <1>0, <3>2
    <3> QED BY <1>3, <3>1, <3>2 DEF FormatAndTest
  <2>3. UNCHANGED <<situation, repoVars, originVars, branch, faults, changed, found, on, said>>
    BY <1>3 DEF FormatAndTest
  <2> QED BY <1>0, <1>b, <2>1, <2>2, <2>3
<1>4. CASE AddFile(h)  BY <1>0, <1>a, <1>b, <1>4 DEF AddFile, Add
<1>5. CASE CommitFile(h)
  <2>1. CASE CommitPaths(file[h]) /\ UNCHANGED faults
    BY <1>0, <1>b, <1>5, <2>1, CommitTypes DEF CommitFile
  <2>2. CASE ~(CommitPaths(file[h]) /\ UNCHANGED faults)
    BY <1>0, <1>a, <1>b, <1>5, <2>2 DEF CommitFile
  <2> QED BY <2>1, <2>2
<1>6. CASE ReadStatus(h)
  <2>1. changed[h] \cap Differing \subseteq Paths  BY <1>0
  <2>2. UNCHANGED <<situation, tree, edits, repoVars, originVars, branch, changed, file, on>>
    BY <1>6 DEF ReadStatus
  <2>3. CASE GoTo(h, "closed") /\ UNCHANGED <<found, kept, said, faults>>
    BY <1>0, <1>b, <2>2, <2>3
  <2>4. CASE Fault /\ Stop(h, "unread") /\ UNCHANGED <<found, kept>>
    BY <1>0, <1>a, <1>b, <2>2, <2>4
  <2>5. CASE /\ found' = [found EXCEPT ![h] = changed[h] \cap Differing]
             /\ kept' = [kept EXCEPT ![h] = found'[h]]
             /\ GoTo(h, IF found'[h] = {} THEN "leftover" ELSE "addAll")
             /\ UNCHANGED <<said, faults>>
    BY <1>0, <1>b, <2>1, <2>2, <2>5
  <2> QED BY <1>6, <2>3, <2>4, <2>5 DEF ReadStatus
<1>7. CASE AddAll(h)
  <2>1. UNCHANGED <<situation, treeVars, tip, commits, originVars, branch, changed, file, found, on>>
    BY <1>7 DEF AddAll
  <2>2. CASE Add(found[h]) /\ GoTo(h, "commitAll") /\ UNCHANGED <<said, faults>>
    BY <1>0, <1>b, <2>1, <2>2 DEF Add
  <2>3. CASE (Fault \/ UNCHANGED faults) /\ Stop(h, "notStaged") /\ UNCHANGED index
    BY <1>0, <1>a, <1>b, <2>1, <2>3
  <2> QED BY <1>7, <2>2, <2>3 DEF AddAll
<1>8. CASE CommitAll(h)
  <2>1. CASE CommitPaths(found[h]) /\ GoTo(h, "leftover") /\ Say(h, "committed") /\ UNCHANGED faults
    BY <1>0, <1>b, <1>8, <2>1, CommitTypes DEF CommitAll
  <2>2. CASE ~(CommitPaths(found[h]) /\ GoTo(h, "leftover") /\ Say(h, "committed") /\ UNCHANGED faults)
    <3>1. UNCHANGED <<situation, treeVars, originVars, branch, changed, file, found, on, repoVars>>
      BY <1>8, <2>2 DEF CommitAll
    <3>2. CASE GoTo(h, "leftover") /\ UNCHANGED <<said, faults>>
      BY <1>0, <1>b, <3>1, <3>2
    <3>3. CASE (Fault \/ UNCHANGED faults) /\ Stop(h, "notCommitted")
      BY <1>0, <1>a, <1>b, <3>1, <3>3
    <3> QED BY <1>8, <2>2, <3>2, <3>3 DEF CommitAll
  <2> QED BY <2>1, <2>2
<1>9. CASE ReadLeftover(h)  BY <1>0, <1>a, <1>b, <1>9 DEF ReadLeftover
<1>10. CASE ReadBranch(h)  BY <1>0, <1>b, <1>10 DEF ReadBranch
<1>11. CASE CountAhead(h)  BY <1>0, <1>b, <1>11 DEF CountAhead
<1>12. CASE Judge(h)
  <2>1. UNCHANGED <<situation, treeVars, repoVars, originVars, branch, faults, changed, file, found, on>>
    BY <1>12 DEF Judge
  <2>2. CASE Stop(h, "held")  BY <1>0, <1>b, <2>1, <2>2
  <2>3. CASE GoTo(h, "push") /\ UNCHANGED said  BY <1>0, <1>b, <2>1, <2>3
  <2> QED BY <1>12, <2>2, <2>3 DEF Judge
<1>13. CASE Push(h)
  <2>1. on[h] \in Branches /\ commits[on[h]] \in Nat
    BY <1>0, <1>13, SituationTypes DEF Push, WorkInv
  <2>2. \A b \in Branches : commits[b] \in Nat  BY <1>0, SituationTypes
  <2>3. UNCHANGED <<situation, treeVars, repoVars, branch, changed, file, found, on>>
    BY <1>13 DEF Push
  <2>4. CASE /\ pub' = [pub EXCEPT ![on[h]] = commits[on[h]]]
             /\ upstream' = upstream \cup {on[h]}
             /\ Stop(h, "pushed") /\ UNCHANGED faults
    BY <1>0, <1>b, <2>1, <2>2, <2>3, <2>4
  <2>5. CASE Fault /\ Stop(h, "pushFailed") /\ UNCHANGED originVars
    BY <1>0, <1>a, <1>b, <2>3, <2>5
  <2> QED BY <1>13, <2>4, <2>5 DEF Push
<1> HIDE DEF TypeOK
<1> QED
  BY <1>1, <1>2, <1>3, <1>4, <1>5, <1>6, <1>7, <1>8, <1>9, <1>10, <1>11, <1>12,
     <1>13 DEF SessionStep

\* What others do in the tree keeps the types.
LEMMA OtherKeepsTypes ==
  ASSUME TypeOK, OtherStep
  PROVE  TypeOK'
<1> USE DEF TypeOK, treeVars, repoVars, originVars, sessionVars
<1>b. Contents' = Contents \/ situation' # situation  BY DEF Contents
<1>c. 0 \in Contents /\ \A b \in Branches : commits[b] \in Nat  BY SituationTypes DEF Contents
<1> HIDE DEF Contents
<1>1. ASSUME NEW p \in Paths, OtherEdits(p) PROVE TypeOK'
  <2>1. Committed[p] \in Contents  BY DEF Committed
  <2> QED BY <1>b, <1>c, <1>1, <2>1, NextContent DEF OtherEdits, Rewrite
<1>2. ASSUME NEW p \in Paths, OtherStages(p) PROVE TypeOK'
  BY <1>b, <1>2 DEF OtherStages, Add
<1>3. CASE OtherCommits
  <2>1. branch \in Branches /\ commits[branch] + 1 \in 0 .. situation.commits
    BY <1>3, SituationTypes DEF OtherCommits
  <2>2. \A b \in Branches : commits'[b] \in Nat /\ commits[b] \in Nat /\ commits[b] <= commits'[b] /\ pub[b] \in Nat
    BY <1>3, <1>c, <2>1 DEF OtherCommits
  <2> QED BY <1>b, <1>3, <2>1, <2>2 DEF OtherCommits
<1>4. ASSUME NEW b \in Branches, OtherSwitches(b) PROVE TypeOK'
  BY <1>b, <1>4 DEF OtherSwitches
<1> HIDE DEF TypeOK
<1> QED BY <1>1, <1>2, <1>3, <1>4 DEF OtherStep

-----------------------------------------------------------------------------
(* The sessions' work.                                                     *)

\* A step of git: files are staged or committed as the tree has them, or the index
\* is committed.  What is staged, and what is committed, stays so.
Faithful ==
  /\ \A p \in Paths : tree'[p] = tree[p] /\ index[p] = tree[p] => index'[p] = tree'[p]
  /\ \A p \in Paths, b \in Branches :
       tree'[p] = tree[p] /\ index[p] = tree[p] /\ tip[b][p] = tree[p] => tip'[b][p] = tree'[p]

\* A session has nothing to do with the step: it is where it was, and of the files
\* it keeps an eye on it keeps those nobody wrote.
Bystander(g) ==
  /\ pc'[g] = pc[g] /\ file'[g] = file[g] /\ changed'[g] = changed[g]
  /\ found'[g] = found[g] /\ on'[g] = on[g] /\ kept'[g] \subseteq kept[g]
  /\ \A p \in kept'[g] : tree'[p] = tree[p]

\* A bystander's work stays staged and committed.
LEMMA BystandersKeepTheirWork ==
  ASSUME NEW g \in Sessions, WorkInv(g), situation' = situation, Bystander(g), Faithful,
         kept[g] \subseteq Paths
  PROVE  WorkInv(g)'
<1> HIDE DEF StagedSteps, CommittedSteps, ClosingSteps, NamedSteps
<1>1. CommittedSteps \subseteq StagedSteps  BY DEF StagedSteps, CommittedSteps
<1>2. pc[g] \in StagedSteps => \A p \in kept'[g] : index'[p] = tree'[p]
  BY DEF WorkInv, Bystander, Faithful
<1>3. pc[g] \in CommittedSteps =>
        \A p \in kept'[g] : \E b \in Branches : tip'[b][p] = tree'[p]
  BY <1>1 DEF WorkInv, Bystander, Faithful
<1> QED BY <1>2, <1>3 DEF WorkInv, Bystander

\* Writing to files takes them out of everybody's sight.
LEMMA WritesAreSeen ==
  ASSUME TypeOK, NEW ps, NEW content, Rewrite(ps, content)
  PROVE  \A g \in Sessions : kept'[g] \subseteq kept[g] /\ \A p \in kept'[g] : tree'[p] = tree[p]
  BY DEF TypeOK, Rewrite

\* What is not touched is faithful.
LEMMA UntouchedIsFaithful ==
  ASSUME UNCHANGED <<index, tip>>
  PROVE  Faithful
  BY DEF Faithful

\* git add stages the tree's content.
LEMMA AddIsFaithful ==
  ASSUME TypeOK, NEW ps \in SUBSET Paths, Add(ps), UNCHANGED <<tree, tip>>
  PROVE  Faithful /\ (\A p \in ps : index'[p] = tree'[p]) /\ \A p \in Paths \ ps : index'[p] = index[p]
  BY DEF TypeOK, Faithful, Add

\* git commit -- ps commits the tree's content of ps, and nothing else.
LEMMA CommitIsFaithful ==
  ASSUME TypeOK, NEW ps \in SUBSET Paths, CommitPaths(ps), UNCHANGED tree
  PROVE  /\ Faithful
         /\ \A p \in ps : index'[p] = tree'[p] /\ tip'[branch][p] = tree'[p]
         /\ \A p \in Paths \ ps : index'[p] = index[p] /\ \A b \in Branches : tip'[b][p] = tip[b][p]
  BY DEF TypeOK, Faithful, CommitPaths

\* Every step of a session is faithful, and the other sessions stand by.
LEMMA SessionIsFaithful ==
  ASSUME GitInv, NEW h \in Sessions, SessionStep(h)
  PROVE  /\ Faithful /\ situation' = situation
         /\ \A g \in Sessions \ {h} : Bystander(g)
<1> USE DEF treeVars, repoVars, originVars, sessionVars, GoTo, Say, Stop, Fault, Bystander
<1>0. TypeOK /\ file[h] \in SUBSET Paths /\ found[h] \in SUBSET Paths
  BY DEF GitInv, TypeOK
<1>t. /\ pc \in [Sessions -> Steps] /\ file \in [Sessions -> SUBSET Paths]
      /\ changed \in [Sessions -> SUBSET Paths] /\ found \in [Sessions -> SUBSET Paths]
      /\ on \in [Sessions -> Branches \cup {None}] /\ kept \in [Sessions -> SUBSET Paths]
  BY <1>0 DEF TypeOK
<1> HIDE DEF Steps
<1>1. ASSUME NEW ps \in SUBSET Paths, ToolWrites(h, ps)
      PROVE  /\ Faithful /\ situation' = situation
             /\ \A g \in Sessions \ {h} : Bystander(g)
  BY <1>0, <1>t, <1>1, WritesAreSeen, UntouchedIsFaithful DEF ToolWrites
<1>2. CASE FormatAndTest(h)
  <2>1. \A g \in Sessions : kept'[g] \subseteq kept[g] /\ \A p \in kept'[g] : tree'[p] = tree[p]
    BY <1>0, <1>2, WritesAreSeen DEF FormatAndTest
  <2>2. /\ \A g \in Sessions \ {h} : pc'[g] = pc[g] /\ file'[g] = file[g]
        /\ UNCHANGED <<situation, changed, found, on, index, tip>>
    BY <1>t, <1>2 DEF FormatAndTest
  <2> QED BY <2>1, <2>2, UntouchedIsFaithful
<1>3. CASE AddFile(h) \/ AddAll(h)
  <2>1. Faithful  BY <1>0, <1>3, AddIsFaithful, UntouchedIsFaithful DEF AddFile, AddAll
  <2>2. /\ \A g \in Sessions \ {h} : pc'[g] = pc[g] /\ file'[g] = file[g]
        /\ UNCHANGED <<situation, tree, kept, changed, found, on>>
    BY <1>t, <1>3 DEF AddFile, AddAll
  <2> QED BY <2>1, <2>2
<1>4. CASE CommitFile(h) \/ CommitAll(h)
  <2>1. Faithful  BY <1>0, <1>4, CommitIsFaithful, UntouchedIsFaithful DEF CommitFile, CommitAll
  <2>2. /\ \A g \in Sessions \ {h} : pc'[g] = pc[g] /\ file'[g] = file[g]
        /\ UNCHANGED <<situation, tree, kept, changed, found, on>>
    BY <1>t, <1>4 DEF CommitFile, CommitAll
  <2> QED BY <2>1, <2>2
<1>5. CASE ReadStatus(h)
  <2>1. /\ \A g \in Sessions \ {h} : pc'[g] = pc[g] /\ kept'[g] = kept[g] /\ found'[g] = found[g]
        /\ UNCHANGED <<situation, tree, file, changed, on, index, tip>>
    BY <1>t, <1>5 DEF ReadStatus
  <2> QED BY <2>1, UntouchedIsFaithful
<1>6. CASE OnToolResult(h)
  BY <1>t, <1>6, UntouchedIsFaithful DEF OnToolResult
<1>7. CASE ReadLeftover(h) \/ ReadBranch(h) \/ CountAhead(h) \/ Judge(h) \/ Push(h)
  <2>1. /\ \A g \in Sessions \ {h} : pc'[g] = pc[g] /\ on'[g] = on[g]
        /\ UNCHANGED <<situation, tree, kept, file, changed, found, index, tip>>
    BY <1>t, <1>7 DEF ReadLeftover, ReadBranch, CountAhead, Judge, Push
  <2> QED BY <2>1, UntouchedIsFaithful
<1> HIDE DEF Bystander
<1> QED BY <1>1, <1>2, <1>3, <1>4, <1>5, <1>6, <1>7 DEF SessionStep

\* A session that is not past its status has nothing to answer for.
LEMMA EarlyWork ==
  ASSUME NEW h \in Sessions, pc'[h] \in {"idle", "wrote", "closed"}
  PROVE  WorkInv(h)'
  BY DEF WorkInv

\* A session's own step keeps its work: it stages what it found, commits what it
\* staged, and is let through to the push for a branch that is not the default.
LEMMA SessionKeepsItsWork ==
  ASSUME GitInv, TypeOK', NEW h \in Sessions, SessionStep(h)
  PROVE  WorkInv(h)'
<1> USE DEF treeVars, repoVars, originVars, sessionVars, GoTo, Say, Stop
<1>0. TypeOK /\ WorkInv(h) /\ Faithful /\ situation' = situation
  BY SessionIsFaithful DEF GitInv
<1>t. /\ pc \in [Sessions -> Steps] /\ file \in [Sessions -> SUBSET Paths]
      /\ changed \in [Sessions -> SUBSET Paths] /\ found \in [Sessions -> SUBSET Paths]
      /\ on \in [Sessions -> Branches \cup {None}] /\ kept \in [Sessions -> SUBSET Paths]
      /\ kept[h] \subseteq found[h] /\ branch \in Branches
  BY <1>0 DEF TypeOK
<1>1. ASSUME NEW ps \in SUBSET Paths, ToolWrites(h, ps) PROVE WorkInv(h)'
  <2>1. pc'[h] \in {"idle", "wrote"}  BY <1>t, <1>1 DEF ToolWrites
  <2> QED BY <2>1, EarlyWork
<1>2. CASE OnToolResult(h)
  BY <1>0, <1>t, <1>2 DEF OnToolResult, WorkInv
<1>3. CASE FormatAndTest(h)
  <2>1. \/ pc'[h] = "addFile" /\ situation.autoCommit /\ file' = file
        \/ pc'[h] = "idle"
    BY <1>t, <1>3 DEF FormatAndTest
  <2>2. pc[h] = "format" /\ changed' = changed  BY <1>3 DEF FormatAndTest
  <2> QED BY <1>0, <2>1, <2>2 DEF WorkInv
<1>4. CASE AddFile(h)
  <2>1. \/ pc'[h] = "commitFile" /\ file' = file
        \/ pc'[h] = "idle"
    BY <1>t, <1>4 DEF AddFile
  <2>2. pc[h] = "addFile" /\ changed' = changed  BY <1>4 DEF AddFile
  <2> QED BY <1>0, <2>1, <2>2 DEF WorkInv
<1>5. CASE CommitFile(h)
  <2>1. pc'[h] = "idle"  BY <1>t, <1>5 DEF CommitFile
  <2> QED BY <2>1, EarlyWork
<1>6. CASE ReadStatus(h)
  <2>1. \/ pc'[h] = "closed"
        \/ /\ pc'[h] = "addAll" /\ situation.autoCommit /\ found'[h] \subseteq changed[h]
        \/ /\ pc'[h] = "leftover" /\ situation.autoCommit /\ found'[h] = {} /\ kept'[h] = {}
    BY <1>t, <1>6 DEF ReadStatus
  <2>2. changed' = changed  BY <1>6 DEF ReadStatus
  <2> QED BY <1>0, <2>1, <2>2 DEF WorkInv
<1>7. CASE AddAll(h)
  <2>1. UNCHANGED <<kept, found, changed, tree, tip>> /\ pc[h] = "addAll"  BY <1>7 DEF AddAll
  <2>2. \/ pc'[h] = "commitAll" /\ Add(found[h])
        \/ pc'[h] = "closed"
    BY <1>t, <1>7 DEF AddAll
  <2>3. pc'[h] = "commitAll" => \A p \in kept[h] : index'[p] = tree'[p]
    BY <1>0, <1>t, <2>1, <2>2, AddIsFaithful
  <2> QED BY <1>0, <2>1, <2>2, <2>3 DEF WorkInv
<1>8. CASE CommitAll(h)
  <2>1. UNCHANGED <<kept, found, changed, tree, branch>> /\ pc[h] = "commitAll"
    BY <1>8 DEF CommitAll
  <2>2. \/ pc'[h] = "leftover" /\ CommitPaths(found[h])
        \/ pc'[h] = "leftover" /\ NothingIn(found[h]) /\ UNCHANGED <<index, tip>>
        \/ pc'[h] = "closed"
    BY <1>t, <1>8 DEF CommitAll
  <2>3. CASE pc'[h] = "leftover" /\ CommitPaths(found[h])
    <3>1. \A p \in kept[h] : index'[p] = tree'[p] /\ tip'[branch][p] = tree'[p]
      BY <1>0, <1>t, <2>1, <2>3, CommitIsFaithful
    <3>2. \A p \in kept[h] : \E b \in Branches : tip'[b][p] = tree'[p]  BY <1>t, <3>1
    <3> QED BY <1>0, <2>1, <2>3, <3>1, <3>2 DEF WorkInv
  <2>4. CASE pc'[h] = "leftover" /\ NothingIn(found[h]) /\ UNCHANGED <<index, tip>>
    <3>1. \A p \in kept[h] : tip'[branch][p] = tree'[p]
      BY <1>t, <2>1, <2>4 DEF NothingIn, Committed
    <3>2. \A p \in kept[h] : \E b \in Branches : tip'[b][p] = tree'[p]  BY <1>t, <3>1
    <3>3. \A p \in kept[h] : index'[p] = tree'[p]  BY <1>0, <2>1, <2>4 DEF WorkInv
    <3> QED BY <1>0, <2>1, <2>4, <3>2, <3>3 DEF WorkInv
  <2> QED BY <2>2, <2>3, <2>4, EarlyWork
<1>9. ASSUME UNCHANGED <<kept, found, changed, tree, index, tip>>,
             pc[h] \in CommittedSteps, pc'[h] \in CommittedSteps,
             pc'[h] \in NamedSteps => on'[h] \in Branches,
             pc'[h] = "push" => situation.optIn \/ situation.named \notin {None, on'[h]}
      PROVE  WorkInv(h)'
  BY <1>0, <1>9 DEF WorkInv
<1>10. CASE ReadLeftover(h)
  BY <1>t, <1>9, <1>10 DEF ReadLeftover
<1>11. CASE ReadBranch(h)
  BY <1>t, <1>9, <1>11 DEF ReadBranch
<1>12. CASE CountAhead(h)
  <2>1. pc'[h] \in {"judge", "closed"} /\ on' = on /\ pc[h] = "ahead"
        /\ UNCHANGED <<kept, found, changed, tree, index, tip>>
    BY <1>t, <1>12 DEF CountAhead
  <2>2. on[h] \in Branches  BY <1>0, <2>1 DEF WorkInv
  <2> QED BY <1>9, <2>1, <2>2, EarlyWork
<1>13. CASE Judge(h)
  <2>1. /\ on' = on /\ pc[h] = "judge"
        /\ UNCHANGED <<kept, found, changed, tree, index, tip>>
        /\ \/ pc'[h] = "closed"
           \/ pc'[h] = "push" /\ ~RefuseDefaultBranchPush(h)
    BY <1>t, <1>13 DEF Judge
  <2>2. on[h] \in Branches  BY <1>0, <2>1 DEF WorkInv
  <2>3. pc'[h] = "push" => situation.optIn \/ situation.named \notin {None, on'[h]}
    BY <2>1 DEF RefuseDefaultBranchPush
  <2> QED BY <1>9, <2>1, <2>2, <2>3, EarlyWork
<1>14. CASE Push(h)
  <2>1. pc'[h] = "closed"  BY <1>t, <1>14 DEF Push
  <2> QED BY <2>1, EarlyWork
<1> QED
  BY <1>1, <1>2, <1>3, <1>4, <1>5, <1>6, <1>7, <1>8, <1>10, <1>11, <1>12, <1>13,
     <1>14 DEF SessionStep

\* A person who edits, stages or commits leaves what is staged staged and what is
\* committed committed; switching branches leaves every session the files both
\* branches agree on, and those are in a commit of the new one.
LEMMA OtherKeepsWork ==
  ASSUME GitInv, OtherStep, NEW g \in Sessions
  PROVE  WorkInv(g)' /\ situation' = situation
<1> USE DEF treeVars, repoVars, originVars, sessionVars
<1>0. TypeOK /\ WorkInv(g)  BY DEF GitInv
<1>t. /\ kept \in [Sessions -> SUBSET Paths] /\ branch \in Branches
      /\ tip \in [Branches -> [Paths -> Contents]]
  BY <1>0 DEF TypeOK
<1> HIDE DEF Contents
<1>1. ASSUME NEW p \in Paths, OtherEdits(p) PROVE WorkInv(g)' /\ situation' = situation
  <2>1. Bystander(g)  BY <1>0, <1>1, WritesAreSeen DEF OtherEdits, Bystander
  <2>2. Faithful  BY <1>1, UntouchedIsFaithful DEF OtherEdits
  <2>3. situation' = situation  BY <1>1 DEF OtherEdits
  <2> QED BY <1>0, <1>t, <2>1, <2>2, <2>3, BystandersKeepTheirWork
<1>2. ASSUME NEW p \in Paths, OtherStages(p) PROVE WorkInv(g)' /\ situation' = situation
  <2>1. Bystander(g)  BY <1>2 DEF OtherStages, Bystander
  <2>2. Faithful  BY <1>0, <1>2, AddIsFaithful DEF OtherStages
  <2>3. situation' = situation  BY <1>2 DEF OtherStages
  <2> QED BY <1>0, <1>t, <2>1, <2>2, <2>3, BystandersKeepTheirWork
<1>3. CASE OtherCommits
  <2>1. Bystander(g) /\ situation' = situation  BY <1>3 DEF OtherCommits, Bystander
  <2>2. Faithful  BY <1>0, <1>3, <1>t DEF OtherCommits, Faithful
  <2> QED BY <1>0, <1>t, <2>1, <2>2, BystandersKeepTheirWork
<1>4. ASSUME NEW b \in Branches, OtherSwitches(b) PROVE WorkInv(g)' /\ situation' = situation
  <2>1. /\ UNCHANGED <<situation, tip, pc, file, changed, found, on>>
        /\ tree' = tip[b] /\ index' = tip[b] /\ kept'[g] \subseteq kept[g]
    BY <1>t, <1>4 DEF OtherSwitches
  <2>2. \A p \in kept'[g] : index'[p] = tree'[p] /\ \E d \in Branches : tip'[d][p] = tree'[p]
    BY <2>1
  <2> HIDE DEF StagedSteps, CommittedSteps, ClosingSteps, NamedSteps
  <2> QED BY <1>0, <2>1, <2>2 DEF WorkInv
<1> QED BY <1>1, <1>2, <1>3, <1>4 DEF OtherStep

-----------------------------------------------------------------------------
(* What origin gets.                                                       *)

\* Only a push changes what origin has, and it is of the branch it was judged for.
LEMMA PushesAreJudged ==
  ASSUME GitInv, Next
  PROVE  SharedBranchIsNotPublished'
<1> USE DEF treeVars, repoVars, originVars, sessionVars, SharedBranchIsNotPublished
<1>0. TypeOK /\ SharedBranchIsNotPublished  BY DEF GitInv
<1>1. ASSUME NEW h \in Sessions, Push(h) PROVE SharedBranchIsNotPublished'
  <2>1. WorkInv(h) /\ pc[h] = "push" /\ situation' = situation  BY <1>1 DEF GitInv, Push
  <2>2. pub \in [Branches -> Nat]  BY <1>0 DEF TypeOK
  <2>3. pub' = pub \/ pub' = [pub EXCEPT ![on[h]] = commits[on[h]]]  BY <1>1 DEF Push
  <2> QED BY <1>0, <2>1, <2>2, <2>3 DEF WorkInv
<1>2. CASE \A h \in Sessions : ~Push(h)
  <2>1. UNCHANGED <<situation, pub>>
    BY <1>2 DEF Next, SessionStep, OtherStep, ToolWrites, OnToolResult, FormatAndTest,
       AddFile, CommitFile, ReadStatus, AddAll, CommitAll, ReadLeftover, ReadBranch,
       CountAhead, Judge, OtherEdits, OtherStages, OtherCommits, OtherSwitches
  <2> QED BY <1>0, <2>1
<1> QED BY <1>1, <1>2

\* Before anything was written, nothing is committed, kept or published.
LEMMA GitInit == Init => GitInv
<1> SUFFICES ASSUME Init PROVE GitInv
  OBVIOUS
<1>1. \A h \in Sessions : pc[h] \in {"idle", "closed"}  BY DEF Init
<1>2. SharedBranchIsNotPublished  BY DEF Init, SharedBranchIsNotPublished
<1> QED BY <1>1, <1>2, TypeInit DEF GitInv, WorkInv

\* GitInv is inductive.
LEMMA GitStep == GitInv /\ [Next]_vars => GitInv'
<1> SUFFICES ASSUME GitInv, [Next]_vars PROVE GitInv'
  OBVIOUS
<1>1. CASE UNCHANGED vars
  <2> USE <1>1 DEF vars
  <2>1. TypeOK'  BY DEF GitInv, TypeOK, Contents
  <2>2. \A h \in Sessions : WorkInv(h)'  BY DEF GitInv, WorkInv
  <2>3. SharedBranchIsNotPublished'  BY DEF GitInv, SharedBranchIsNotPublished
  <2> QED BY <2>1, <2>2, <2>3 DEF GitInv
<1>2. ASSUME NEW h \in Sessions, SessionStep(h) PROVE GitInv'
  <2>1. TypeOK' /\ SharedBranchIsNotPublished'
    BY <1>2, SessionKeepsTypes, PushesAreJudged DEF Next
  <2>2. ASSUME NEW g \in Sessions PROVE WorkInv(g)'
    <3>1. CASE g = h  BY <1>2, <2>1, <3>1, SessionKeepsItsWork
    <3>2. CASE g # h
      <4>1. WorkInv(g) /\ kept[g] \subseteq Paths  BY DEF GitInv, TypeOK
      <4> QED BY <1>2, <3>2, <4>1, SessionIsFaithful, BystandersKeepTheirWork
    <3> QED BY <3>1, <3>2
  <2> QED BY <2>1, <2>2 DEF GitInv
<1>3. CASE OtherStep
  <2>1. TypeOK' /\ SharedBranchIsNotPublished'
    BY <1>3, OtherKeepsTypes, PushesAreJudged DEF Next, GitInv
  <2> QED BY <1>3, <2>1, OtherKeepsWork DEF GitInv
<1> QED BY <1>1, <1>2, <1>3 DEF Next

\* What the hooks of every session in a shared tree rest on, whatever others do
\* between two of their commands.
THEOREM GitInvariant == Spec => []GitInv
  BY GitInit, GitStep, PTL DEF Spec

\* Unless the configuration opts in, no session's close pushes to the branch that
\* origin serves, nor anywhere while origin does not say which that is
\* (refuseDefaultBranchPush), whatever is checked out between the commands.
THEOREM DefaultBranchIsSafe == Spec => []SharedBranchIsNotPublished
<1>1. GitInv => SharedBranchIsNotPublished  BY DEF GitInv
<1> QED BY <1>1, GitInvariant, PTL

\* A session's step changes no file in the index or in a commit but those it wrote.
LEMMA OwnFilesOnly ==
  ASSUME GitInv, NEW h \in Sessions, SessionStep(h)
  PROVE  \A p \in Paths \ (IF situation.autoCommit THEN changed[h] ELSE {}) :
           index'[p] = index[p] /\ \A b \in Branches : tip'[b][p] = tip[b][p]
<1> USE DEF treeVars, repoVars, originVars, sessionVars, Fault
<1>0. TypeOK /\ WorkInv(h) /\ file[h] \in SUBSET Paths /\ found[h] \in SUBSET Paths
  BY DEF GitInv, TypeOK
<1>1. CASE AddFile(h)
  <2>1. situation.autoCommit /\ file[h] \subseteq changed[h]  BY <1>0, <1>1 DEF AddFile, WorkInv
  <2>2. UNCHANGED <<tree, tip>> /\ (Add(file[h]) \/ UNCHANGED index)  BY <1>1 DEF AddFile
  <2> QED BY <1>0, <2>1, <2>2, AddIsFaithful
<1>2. CASE AddAll(h)
  <2>1. situation.autoCommit /\ found[h] \subseteq changed[h]  BY <1>0, <1>2 DEF AddAll, WorkInv
  <2>2. UNCHANGED <<tree, tip>> /\ (Add(found[h]) \/ UNCHANGED index)  BY <1>2 DEF AddAll
  <2> QED BY <1>0, <2>1, <2>2, AddIsFaithful
<1>3. CASE CommitFile(h)
  <2>1. situation.autoCommit /\ file[h] \subseteq changed[h]  BY <1>0, <1>3 DEF CommitFile, WorkInv
  <2>2. UNCHANGED tree /\ (CommitPaths(file[h]) \/ UNCHANGED <<index, tip>>)  BY <1>3 DEF CommitFile
  <2> QED BY <1>0, <2>1, <2>2, CommitIsFaithful
<1>4. CASE CommitAll(h)
  <2>1. situation.autoCommit /\ found[h] \subseteq changed[h]  BY <1>0, <1>4 DEF CommitAll, WorkInv
  <2>2. UNCHANGED tree /\ (CommitPaths(found[h]) \/ UNCHANGED <<index, tip>>)  BY <1>4 DEF CommitAll
  <2> QED BY <1>0, <2>1, <2>2, CommitIsFaithful
<1>5. CASE ~(AddFile(h) \/ AddAll(h) \/ CommitFile(h) \/ CommitAll(h))
  <2>1. UNCHANGED <<index, tip>>
    BY <1>5 DEF SessionStep, ToolWrites, OnToolResult, FormatAndTest, ReadStatus,
       ReadLeftover, ReadBranch, CountAhead, Judge, Push
  <2> QED BY <2>1
<1> QED BY <1>1, <1>2, <1>3, <1>4, <1>5

\* In any step a session that moves is the one whose step it is.
LEMMA MoversStep ==
  ASSUME GitInv, Next, NEW h \in Sessions, pc'[h] # pc[h] \/ said'[h] # said[h]
  PROVE  SessionStep(h)
<1>1. ASSUME NEW g \in Sessions, g # h, SessionStep(g) PROVE pc'[h] = pc[h] /\ said'[h] = said[h]
  <2>1. pc'[h] = pc[h]  BY <1>1, SessionIsFaithful DEF Bystander
  <2>2. said \in [Sessions -> SUBSET Summary]  BY DEF GitInv, TypeOK
  <2>3. said'[h] = said[h]
    BY <1>1, <2>2 DEF SessionStep, ToolWrites, OnToolResult, FormatAndTest, AddFile, CommitFile,
       ReadStatus, AddAll, CommitAll, ReadLeftover, ReadBranch, CountAhead, Judge, Push,
       Say, Stop, sessionVars
  <2> QED BY <2>1, <2>3
<1>2. CASE OtherStep
  <2>1. UNCHANGED <<pc, said>>
    BY <1>2 DEF OtherStep, OtherEdits, OtherStages, OtherCommits, OtherSwitches, sessionVars
  <2> QED BY <2>1
<1> QED BY <1>1, <1>2 DEF Next

\* "Pushed" is said by the push alone.
LEMMA OnlyPushSaysPushed ==
  ASSUME GitInv, NEW h \in Sessions, SessionStep(h), "pushed" \in said'[h] \ said[h]
  PROVE  pc[h] = "push"
<1>1. said \in [Sessions -> SUBSET Summary]  BY DEF GitInv, TypeOK
<1> QED
  BY <1>1 DEF SessionStep, ToolWrites, OnToolResult, FormatAndTest, AddFile, CommitFile,
     ReadStatus, AddAll, CommitAll, ReadLeftover, ReadBranch, CountAhead, Judge, Push,
     Say, Stop, sessionVars

\* A session stages, commits and publishes nothing but the files it recorded as
\* its own (commitFile, finishSessionGit), and says "pushed" only when what it
\* found changed at its close, and nobody has touched since, is in a commit.
THEOREM SessionsPublishOnlyTheirOwn == Spec => SessionsPublishTheirOwnWork
<1>1. GitInv /\ [Next]_vars =>
        [\A h \in Sessions : pc'[h] # pc[h] =>
           LET own == IF situation.autoCommit THEN changed[h] ELSE {} IN
           \A p \in Paths \ own :
             index'[p] = index[p] /\ \A b \in Branches : tip'[b][p] = tip[b][p]]_vars
  BY MoversStep, OwnFilesOnly
<1>2. GitInv /\ [Next]_vars =>
        [\A h \in Sessions : "pushed" \in said'[h] \ said[h] =>
           \A p \in kept[h] : \E b \in Branches : tip[b][p] = tree[p]]_vars
  <2> SUFFICES ASSUME GitInv, Next, NEW h \in Sessions, "pushed" \in said'[h] \ said[h]
               PROVE  \A p \in kept[h] : \E b \in Branches : tip[b][p] = tree[p]
    OBVIOUS
  <2>1. pc[h] = "push"  BY MoversStep, OnlyPushSaysPushed
  <2> QED BY <2>1 DEF GitInv, WorkInv
<1>3. Spec => OthersWorkIsLeftAlone
  BY <1>1, GitInvariant, PTL DEF Spec, OthersWorkIsLeftAlone
<1>4. Spec => PushedWorkIsCommitted
  BY <1>2, GitInvariant, PTL DEF Spec, PushedWorkIsCommitted
<1> QED BY <1>3, <1>4 DEF SessionsPublishTheirOwnWork
=============================================================================
