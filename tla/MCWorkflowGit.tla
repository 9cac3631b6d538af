---------------------------- MODULE MCWorkflowGit ----------------------------
(* Instances of WorkflowGit for TLC: one or two sessions and a person in one *)
(* work tree of two files and two branches.                                  *)
EXTENDS WorkflowGit

CONSTANTS h1, h2, p1, p2, main, feat

Situation(autoCommit, optIn, single, named, start, person, at, writes, fails) ==
  [autoCommit |-> autoCommit, optIn |-> optIn, project |-> TRUE,
   single |-> single, named |-> named, upstream |-> IF "switches" \in person THEN {main} ELSE {main, feat},
   start |-> start, person |-> person, at |-> at,
   edits |-> writes, commits |-> 2, faults |-> fails]

Alone   == {}
Working == {"edits", "stages", "commits"}
Moving  == Working \cup {"switches"}

MCSituations ==
  { Situation(TRUE, FALSE, FALSE, main, feat, Alone, {h1, h2}, 3, 0),
    Situation(TRUE, FALSE, FALSE, main, feat, Working, {h1}, 3, 1),
    Situation(TRUE, FALSE, FALSE, main, feat, Moving, {h1}, 2, 0),
    Situation(TRUE, FALSE, TRUE, None, feat, Working, {h1}, 3, 0),
    Situation(TRUE, TRUE, FALSE, main, main, Working, {h1}, 2, 1),
    Situation(FALSE, FALSE, TRUE, main, feat, Working, {h1}, 3, 0) }

=============================================================================
