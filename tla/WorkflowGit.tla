----------------------------- MODULE WorkflowGit -----------------------------
(***************************************************************************)
(* The git work of a session: what WorkflowHooks records while the session *)
(* writes files, the commit after a single write, and the commit and push  *)
(* that Close makes, one git command at a time.  Several sessions share a  *)
(* work tree with each other and with a person, who edits, stages, commits *)
(* and switches branches between any two of those commands.                *)
(*                                                                         *)
(* A file's content is a number, 0 when the file is not there.  Git itself *)
(* is modelled from how it answers the commands the hooks give it.         *)
(***************************************************************************)
EXTENDS Naturals, FiniteSets

CONSTANTS
  Sessions,      \* engines whose hooks work in this tree
  Paths,         \* files of the repository
  Tracked,       \* those that are committed at the start
  Branches,      \* local branches
  None,          \* no branch
  Situations     \* configurations a run starts from

ASSUME PathsAssumption == Tracked \subseteq Paths

ASSUME SituationsAssumption ==
  \A s \in Situations :
    /\ s.autoCommit \in BOOLEAN      \* AutoWorkflowConfig.AutoCommit
    /\ s.optIn \in BOOLEAN           \* AutoWorkflowConfig.PushToDefaultBranch
    /\ s.project \in BOOLEAN         \* detectProject knows how to build it
    /\ s.single \in BOOLEAN          \* the session has a tool named write_file
    /\ s.named \in Branches \cup {None}   \* the branch origin's HEAD names
    /\ s.upstream \subseteq Branches \* branches that track one of origin's
    /\ s.start \in Branches          \* the branch checked out
    /\ s.person \subseteq {"edits", "stages", "commits", "switches"}
                                     \* what the person in the tree does
    /\ s.at \subseteq Sessions       \* the sessions of the run
    /\ s.edits \in Nat \ {0}        \* bound: new contents anybody writes
    /\ s.commits \in Nat            \* bound: commits on one branch
    /\ s.faults \in Nat             \* bound: commands failing on their own

VARIABLES
  situation,
  tree, index,   \* content of each file in the work tree and in the index
  tip,           \* content of each file in the last commit of each branch
  commits,       \* how many commits each branch got since the start
  pub,           \* how many of them origin has now
  upstream,      \* branches that track one of origin's
  branch,        \* the branch checked out
  edits, faults, \* new contents written, commands failed
  pc,            \* what each session's hooks do next
  changed,       \* h.changedFiles
  file,          \* the files of the write under way
  found,         \* sessionPathspecs, as the close-time commit read them
  kept,          \* (history) those nobody has touched since
  on,            \* the branch rev-parse named
  said           \* what the summary reports

treeVars == <<tree, edits, kept>>
repoVars == <<index, tip, commits>>
originVars == <<pub, upstream>>
sessionVars == <<pc, changed, file, found, on, said>>
vars == <<situation, tree, index, tip, commits, pub, upstream, branch, edits,
          faults, pc, changed, file, found, kept, on, said>>

Init ==
  /\ situation \in Situations
  /\ tree = [p \in Paths |-> IF p \in Tracked THEN 1 ELSE 0]
  /\ index = tree
  /\ tip = [b \in Branches |-> tree]
  /\ commits = [b \in Branches |-> 0]
  /\ pub = [b \in Branches |-> 0]
  /\ upstream = situation.upstream
  /\ branch = situation.start
  /\ edits = 1
  /\ faults = 0
  /\ pc = [h \in Sessions |-> IF h \in situation.at THEN "idle" ELSE "closed"]
  /\ changed = [h \in Sessions |-> {}]
  /\ file = [h \in Sessions |-> {}]
  /\ found = [h \in Sessions |-> {}]
  /\ kept = [h \in Sessions |-> {}]
  /\ on = [h \in Sessions |-> None]
  /\ said = [h \in Sessions |-> {}]

-----------------------------------------------------------------------------
(* Git. *)

Committed == tip[branch]

\* git status: the files that differ between tree, index and HEAD.
Differing == {p \in Paths : tree[p] # index[p] \/ index[p] # Committed[p]}

\* git add -- ps answers a fatal error, and stages nothing, for a file that
\* is neither there nor known.
Addable(ps) == \A p \in ps : tree[p] # 0 \/ index[p] # 0

Add(ps) == index' = [p \in Paths |-> IF p \in ps THEN tree[p] ELSE index[p]]

\* git commit -- ps commits the work tree's content of exactly these files,
\* whatever else is staged.
Committable(ps) == \A p \in ps : index[p] # 0 \/ Committed[p] # 0

\* Mutation of CommitPaths: git commit without files, after the add.
CommitIndex(ps) ==
  /\ commits[branch] < situation.commits
  /\ UNCHANGED index
  /\ tip' = [tip EXCEPT ![branch] = index]
  /\ commits' = [commits EXCEPT ![branch] = @ + 1]

CommitPaths(ps) ==
  /\ commits[branch] < situation.commits
  /\ index' = [p \in Paths |-> IF p \in ps THEN tree[p] ELSE index[p]]
  /\ tip' = [tip EXCEPT ![branch] =
       [p \in Paths |-> IF p \in ps THEN tree[p] ELSE @[p]]]
  /\ commits' = [commits EXCEPT ![branch] = @ + 1]

NothingIn(ps) == \A p \in ps : tree[p] = Committed[p]

\* With nothing in ps to commit git says "nothing to commit" only when the
\* rest of the tree is clean; otherwise it says "no changes added to commit"
\* or "nothing added to commit but untracked files present".
RestIsClean(ps) == Differing \subseteq ps

\* A command fails for a reason of its own: a lock another git holds, a hook
\* that refuses, a remote that cannot be reached.
Fault == faults < situation.faults /\ faults' = faults + 1

-----------------------------------------------------------------------------
(* Steps. *)

GoTo(h, to) == pc' = [pc EXCEPT ![h] = to]

Say(h, what) == said' = [said EXCEPT ![h] = @ \cup {what}]

Stop(h, what) == GoTo(h, "closed") /\ Say(h, what)

Rewrite(ps, content) ==
  /\ tree' = [p \in Paths |-> IF p \in ps THEN content ELSE tree[p]]
  /\ kept' = [h \in Sessions |-> kept[h] \ ps]

\* write_files, edit_files (or write_file): the tool puts new content into the
\* files it is given.
ToolWrites(h, ps) ==
  /\ pc[h] = "idle" /\ edits < situation.edits
  /\ edits' = edits + 1
  /\ Rewrite(ps, edits')
  /\ \/ GoTo(h, "wrote") /\ file' = [file EXCEPT ![h] = ps]
     \/ UNCHANGED <<pc, file>>   \* OnToolResult leaves at isError, or its
                                 \* input could not be read
  /\ UNCHANGED <<situation, repoVars, originVars, branch, faults, changed,
                 found, on, said>>

\* OnToolResult: the files are recorded; the automations run only for a tool
\* of the old name.
OnToolResult(h) ==
  /\ pc[h] = "wrote"
  /\ changed' = [changed EXCEPT ![h] = @ \cup file[h]]
  /\ IF situation.single /\ Cardinality(file[h]) = 1
       THEN GoTo(h, "format") /\ UNCHANGED file
       ELSE GoTo(h, "idle") /\ file' = [file EXCEPT ![h] = {}]
  /\ UNCHANGED <<situation, treeVars, repoVars, originVars, branch, faults,
                 found, on, said>>

\* formatFile and buildAndTest: a formatter may rewrite the file; a message of
\* either keeps the file from being committed.
FormatAndTest(h) ==
  /\ pc[h] = "format"
  /\ \/ UNCHANGED treeVars
     \/ /\ situation.project /\ edits < situation.edits
        /\ \A p \in file[h] : tree[p] # 0
        /\ edits' = edits + 1
        /\ Rewrite(file[h], edits')
  /\ \/ /\ situation.autoCommit
        /\ situation.project => \A p \in file[h] : tree[p] # 0
        /\ GoTo(h, "addFile") /\ UNCHANGED file
     \/ /\ ~situation.autoCommit \/ situation.project
        /\ GoTo(h, "idle") /\ file' = [file EXCEPT ![h] = {}]
  /\ UNCHANGED <<situation, repoVars, originVars, branch, faults, changed,
                 found, on, said>>

\* commitFile: git add of the one file.
AddFile(h) ==
  /\ pc[h] = "addFile"
  /\ \/ /\ Addable(file[h])
        /\ Add(file[h]) /\ GoTo(h, "commitFile") /\ UNCHANGED <<file, faults>>
     \/ /\ IF Addable(file[h]) THEN Fault ELSE UNCHANGED faults
        /\ GoTo(h, "idle") /\ file' = [file EXCEPT ![h] = {}]
        /\ UNCHANGED index
  /\ UNCHANGED <<situation, treeVars, tip, commits, originVars, branch, changed,
                 found, on, said>>

\* commitFile: git commit of the one file, which may have nothing to commit.
CommitFile(h) ==
  /\ pc[h] = "commitFile"
  /\ GoTo(h, "idle") /\ file' = [file EXCEPT ![h] = {}]
  /\ IF Committable(file[h]) /\ ~NothingIn(file[h])
       THEN \/ CommitPaths(file[h]) /\ UNCHANGED faults
            \/ Fault /\ UNCHANGED repoVars
       ELSE UNCHANGED <<repoVars, faults>>
  /\ UNCHANGED <<situation, treeVars, originVars, branch, changed, found,
                 on, said>>

-----------------------------------------------------------------------------
(* FinishSession, from Engine.Close. *)

\* sessionPathspecs: the recorded files that git status lists.
ReadStatus(h) ==
  /\ pc[h] = "idle"
  /\ \/ /\ ~situation.autoCommit
        /\ GoTo(h, "closed") /\ UNCHANGED <<found, kept, said, faults>>
     \/ situation.autoCommit /\ Fault /\ Stop(h, "unread") /\ UNCHANGED <<found, kept>>
     \/ /\ situation.autoCommit
        /\ found' = [found EXCEPT ![h] = changed[h] \cap Differing]
        /\ kept' = [kept EXCEPT ![h] = found'[h]]
        /\ GoTo(h, IF found'[h] = {} THEN "leftover" ELSE "addAll")
        /\ UNCHANGED <<said, faults>>
  /\ UNCHANGED <<situation, tree, edits, repoVars, originVars, branch, changed,
                 file, on>>

AddAll(h) ==
  /\ pc[h] = "addAll"
  /\ \/ /\ Addable(found[h])
        /\ Add(found[h]) /\ GoTo(h, "commitAll") /\ UNCHANGED <<said, faults>>
     \/ /\ IF Addable(found[h]) THEN Fault ELSE UNCHANGED faults
        /\ Stop(h, "notStaged")
        /\ UNCHANGED index
  /\ UNCHANGED <<situation, treeVars, tip, commits, originVars, branch, changed,
                 file, found, on>>

\* Mutation of CommitAll: every refused commit is taken for an empty one.
CommitAllRegardless(h) ==
  /\ pc[h] = "commitAll"
  /\ \/ /\ Committable(found[h]) /\ ~NothingIn(found[h])
        /\ CommitPaths(found[h])
        /\ GoTo(h, "leftover") /\ Say(h, "committed") /\ UNCHANGED faults
     \/ /\ IF NothingIn(found[h]) THEN UNCHANGED faults ELSE Fault
        /\ GoTo(h, "leftover") /\ UNCHANGED <<said, repoVars>>
  /\ UNCHANGED <<situation, treeVars, originVars, branch, changed, file,
                 found, on>>

CommitAll(h) ==
  /\ pc[h] = "commitAll"
  /\ \/ /\ Committable(found[h]) /\ ~NothingIn(found[h])
        /\ CommitPaths(found[h])
        /\ GoTo(h, "leftover") /\ Say(h, "committed") /\ UNCHANGED faults
     \/ /\ Committable(found[h]) /\ NothingIn(found[h]) /\ RestIsClean(found[h])
        /\ GoTo(h, "leftover") /\ UNCHANGED <<said, faults, repoVars>>
     \/ /\ IF ~Committable(found[h])
                \/ (NothingIn(found[h]) /\ ~RestIsClean(found[h]))
             THEN UNCHANGED faults ELSE Fault
        /\ Stop(h, "notCommitted") /\ UNCHANGED repoVars
  /\ UNCHANGED <<situation, treeVars, originVars, branch, changed, file,
                 found, on>>

\* What is still dirty is reported and left to whoever made it.
ReadLeftover(h) ==
  /\ pc[h] = "leftover"
  /\ \/ /\ said' = [said EXCEPT ![h] =
             @ \cup (IF Differing = {} THEN {} ELSE {"left"})]
        /\ UNCHANGED faults
     \/ Fault /\ UNCHANGED said
  /\ GoTo(h, "branch")
  /\ UNCHANGED <<situation, treeVars, repoVars, originVars, branch, changed,
                 file, found, on>>

ReadBranch(h) ==
  /\ pc[h] = "branch"
  /\ on' = [on EXCEPT ![h] = branch]
  /\ GoTo(h, "ahead")
  /\ UNCHANGED <<situation, treeVars, repoVars, originVars, branch, faults,
                 changed, file, found, said>>

\* rev-list --count @{u}.. counts on the branch that is checked out now, and
\* fails when that branch tracks nothing.
CountAhead(h) ==
  /\ pc[h] = "ahead"
  /\ GoTo(h, IF branch \in upstream /\ pub[branch] < commits[branch]
               THEN "judge" ELSE "closed")
  /\ UNCHANGED <<situation, treeVars, repoVars, originVars, branch, faults,
                 changed, file, found, on, said>>

\* Mutation of RefuseDefaultBranchPush: only the branch origin names is held.
RefuseKnownDefault(h) == ~situation.optIn /\ situation.named = on[h]

\* refuseDefaultBranchPush: unknown is refused as well as known-default.
RefuseDefaultBranchPush(h) ==
  ~situation.optIn /\ situation.named \in {None, on[h]}

Judge(h) ==
  /\ pc[h] = "judge"
  /\ IF RefuseDefaultBranchPush(h)
       THEN Stop(h, "held")
       ELSE GoTo(h, "push") /\ UNCHANGED said
  /\ UNCHANGED <<situation, treeVars, repoVars, originVars, branch, faults,
                 changed, file, found, on>>

\* git push --set-upstream origin <branch>: the whole branch.
Push(h) ==
  /\ pc[h] = "push"
  /\ \/ /\ pub' = [pub EXCEPT ![on[h]] = commits[on[h]]]
        /\ upstream' = upstream \cup {on[h]}
        /\ Stop(h, "pushed") /\ UNCHANGED faults
     \/ Fault /\ Stop(h, "pushFailed") /\ UNCHANGED originVars
  /\ UNCHANGED <<situation, treeVars, repoVars, branch, changed, file, found,
                 on>>

-----------------------------------------------------------------------------
(* Whoever else works in the tree. *)

\* An edit, a deletion or a revert, by a person or a session's own shell.
OtherEdits(p) ==
  /\ "edits" \in situation.person
  /\ \/ tree[p] # 0 /\ edits' = edits /\ Rewrite({p}, 0)
     \/ edits < situation.edits /\ edits' = edits + 1 /\ Rewrite({p}, edits')
     \/ tree[p] # Committed[p] /\ edits' = edits /\ Rewrite({p}, Committed[p])
  /\ UNCHANGED <<situation, repoVars, originVars, branch, faults, sessionVars>>

OtherStages(p) ==
  /\ "stages" \in situation.person
  /\ tree[p] # index[p]
  /\ Add({p})
  /\ UNCHANGED <<situation, treeVars, tip, commits, originVars, branch, faults,
                 sessionVars>>

\* git commit without files: everything staged.
OtherCommits ==
  LET staged == {p \in Paths : index[p] # Committed[p]} IN
  /\ "commits" \in situation.person
  /\ staged # {} /\ commits[branch] < situation.commits
  /\ tip' = [tip EXCEPT ![branch] = index]
  /\ commits' = [commits EXCEPT ![branch] = @ + 1]
  /\ UNCHANGED <<situation, treeVars, index, originVars, branch, faults,
                 sessionVars>>

OtherSwitches(b) ==
  /\ "switches" \in situation.person
  /\ b # branch /\ Differing = {}
  /\ branch' = b
  /\ tree' = tip[b] /\ index' = tip[b]
  /\ kept' = [h \in Sessions |-> {p \in kept[h] : tip[b][p] = tree[p]}]
  /\ UNCHANGED <<situation, tip, commits, originVars, edits, faults, sessionVars>>

-----------------------------------------------------------------------------
SessionStep(h) ==
  \/ \E ps \in SUBSET Paths \ {{}} : ToolWrites(h, ps)
  \/ OnToolResult(h) \/ FormatAndTest(h) \/ AddFile(h) \/ CommitFile(h)
  \/ ReadStatus(h) \/ AddAll(h) \/ CommitAll(h) \/ ReadLeftover(h)
  \/ ReadBranch(h) \/ CountAhead(h) \/ Judge(h) \/ Push(h)

OtherStep ==
  \/ \E p \in Paths : OtherEdits(p) \/ OtherStages(p)
  \/ OtherCommits
  \/ \E b \in Branches : OtherSwitches(b)

Next == (\E h \in Sessions : SessionStep(h)) \/ OtherStep

Spec == Init /\ [][Next]_vars

-----------------------------------------------------------------------------
Contents == 0 .. situation.edits
Steps == {"idle", "wrote", "format", "addFile", "commitFile", "addAll", "commitAll",
          "leftover", "branch", "ahead", "judge", "push", "closed"}
Summary == {"unread", "notStaged", "committed", "notCommitted", "left", "held", "pushed",
            "pushFailed"}

TypeOK ==
  /\ situation \in Situations
  /\ tree \in [Paths -> Contents] /\ index \in [Paths -> Contents]
  /\ tip \in [Branches -> [Paths -> Contents]]
  /\ commits \in [Branches -> 0 .. situation.commits] /\ pub \in [Branches -> Nat]
  /\ \A b \in Branches : pub[b] <= commits[b]
  /\ upstream \subseteq Branches /\ branch \in Branches
  /\ edits \in 1 .. situation.edits /\ faults \in 0 .. situation.faults
  /\ pc \in [Sessions -> Steps]
  /\ changed \in [Sessions -> SUBSET Paths]
  /\ file \in [Sessions -> SUBSET Paths]
  /\ found \in [Sessions -> SUBSET Paths]
  /\ kept \in [Sessions -> SUBSET Paths]
  /\ \A h \in Sessions : kept[h] \subseteq found[h]
  /\ on \in [Sessions -> Branches \cup {None}]
  /\ said \in [Sessions -> SUBSET Summary]

\* A session stages, commits and so publishes nothing but files it recorded as
\* written by itself: what another agent or a person has edited or staged in
\* the shared tree is neither committed under its name nor unstaged by it, and
\* with auto-commit off it leaves the index and the history alone
\* (engine/workflow_git.go, commitFile and finishSessionGit).
OthersWorkIsLeftAlone ==
  [][\A h \in Sessions : pc'[h] # pc[h] =>
       LET own == IF situation.autoCommit THEN changed[h] ELSE {} IN
       \A p \in Paths \ own :
         index'[p] = index[p] /\ \A b \in Branches : tip'[b][p] = tip[b][p]
    ]_vars

\* "Pushed" is never said over the session's own work lying uncommitted: a
\* file it found changed when it closed, and that nobody has touched since, is
\* in a commit when the push goes out, whoever committed it and whichever of
\* the stage and the commit failed.
PushedWorkIsCommitted ==
  [][\A h \in Sessions : "pushed" \in said'[h] \ said[h] =>
       \A p \in kept[h] : \E b \in Branches : tip[b][p] = tree[p]]_vars

\* What a session publishes is its own work, and all of it.
SessionsPublishTheirOwnWork == OthersWorkIsLeftAlone /\ PushedWorkIsCommitted

\* Nobody watches a session end, so unless its configuration opts in it
\* publishes nothing to the branch origin serves as its default, and nothing at
\* all while origin does not say which one that is - whatever branch is checked
\* out between the commands.
SharedBranchIsNotPublished ==
  ~situation.optIn =>
    \A b \in Branches : situation.named \in {None, b} => pub[b] = 0
=============================================================================
