--------------------------- MODULE MCSessionTurns ---------------------------
(* Small instances of SessionTurns. *)
EXTENDS SessionTurns, TLC

CONSTANTS s1, s2, r1, r2, r3, n1, n2, n3

\* Everything on one session: two API requests, the work of a spawned child.
OneSession == [m \in Messages |-> s1]

\* Two sessions: r1 and r2 share one, in different lanes; r3 has the other.
TwoSessions == [m \in Messages |-> IF m = r3 THEN s2 ELSE s1]

OneLane    == [r \in Requests |-> "main"]
R2IsAChild == [r \in Requests |-> IF r = r2 THEN "subagent" ELSE "main"]

OneSlotEach == [l \in Lanes |-> 1]

NotePermutations == Permutations(Notes)
=============================================================================
