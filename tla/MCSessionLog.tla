---------------------------- MODULE MCSessionLog ----------------------------
(* Instance of SessionLog for TLC. *)
EXTENDS SessionLog

CONSTANTS s1, s2, s3, p1, p2, p3

MCSessions == {s1, s2, s3}
MCProcesses == {p1, p2, p3}
MCProcessOf == s1 :> p1 @@ s2 :> p2 @@ s3 :> p3
\* The third process gets the pid of the first.
MCPidOf == p1 :> 1 @@ p2 :> 2 @@ p3 :> 1

Turns(n1, n2, n3) == s1 :> n1 @@ s2 :> n2 @@ s3 :> n3

Alone == [sessions |-> {s1}, turns |-> Turns(2, 0, 0), calls |-> 2, kinds |-> {"detached"},
          served |-> {"anthropic"}, tools |-> {}, crashes |-> {}, together |-> FALSE,
          overlap |-> FALSE, faults |-> {}]

\* Several sessions, one after the other or together.
Several == [Alone EXCEPT !.sessions = MCSessions, !.kinds = {"resumed"}, !.crashes = {p1, p2},
              !.calls = 1]

MCSituations ==
  { [Alone EXCEPT !.tools = {<<"chained">>, <<"chain dropped">>, <<"failed with chain">>,
                             <<"ran", "failed">>},
       !.crashes = {p1}],
    [Alone EXCEPT !.tools = {<<o>> : o \in Outcomes}, !.calls = 1,
       !.faults = {"guard", "context", "api", "stop", "empty"}],
    [Alone EXCEPT !.served = {"anthropic", "openai"}, !.tools = {<<"ran">>}, !.faults = {"api"}],
    [Alone EXCEPT !.tools = {<<"ran">>}, !.overlap = TRUE],
    [Several EXCEPT !.kinds = {"resumed", "fresh"}, !.turns = Turns(2, 1, 0),
       !.faults = {"disk", "cut"}],
    [Several EXCEPT !.together = TRUE, !.turns = Turns(1, 1, 0), !.faults = {"mode"}] }
=============================================================================
