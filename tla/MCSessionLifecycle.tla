------------------------- MODULE MCSessionLifecycle -------------------------
(* Instance of SessionLifecycle for TLC. *)
EXTENDS SessionLifecycle

CONSTANTS j1, j2, j3

MCJobs == {j1, j2, j3}

Asking(a, b, c, bridge) ==
  [ask |-> [j \in MCJobs |-> IF j = j1 THEN a ELSE IF j = j2 THEN b ELSE c],
   bridge |-> bridge, mcp |-> bridge]

\* Two of the calls that build sessions, and a third call of any kind: on the
\* agent's main key, where new_session works, and on a bridge key, where the
\* reaper works and whose caller sends MCP servers.  Jobs are interchangeable,
\* so one order of each combination is enough.
MCSituations ==
  {Asking("run", "fresh", c, FALSE) : c \in Kinds}
  \cup {Asking("fresh", "resume", c, FALSE) : c \in {"resume", "interrupt", "compact"}}
  \cup {Asking("run", "resume", c, TRUE) : c \in Kinds \ {"run", "fresh", "resume"}}
=============================================================================
