---------------------------- MODULE MCMcpClient ----------------------------
(* Instance of McpClient for TLC. *)
EXTENDS McpClient

CONSTANTS c1, c2, k1, k2, k3, k4, b1, b2, b3

\* The session is built with one server; one resume sends it again, another
\* sends it and a second one.
MCServersOf == [b \in {b1, b2, b3} |-> CASE b = b1 -> <<k1>> [] b = b2 -> <<k2>> [] b = b3 -> <<k3, k4>>]
MCNameOf == [k \in {k1, k2, k3, k4} |-> IF k = k4 THEN "other" ELSE "server"]
MCWants == [c \in Calls |-> "server"]

\* Two calls beside each other on a server that says more than it is asked,
\* and beside the close of the session; resumes beside a call and the close.
MCSituations == {{c1, c2, k1}, {c1, c2, "close"}, {c1, b2}, {b3, "close"}}
=============================================================================
