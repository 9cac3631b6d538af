----------------------------- MODULE MCStreams -----------------------------
(* Instance of Streams for TLC. *)
EXTENDS Streams, TLC

CONSTANTS a, b, c, d

MCJobs == {a, b, c, d}
Plain == [kind |-> a :> "bus" @@ b :> "none" @@ c :> "none" @@ d :> "none",
          to |-> [j \in MCJobs |-> Main], says |-> {"text", "status"}, most |-> 1, faults |-> {}]

\* Messages of the bus beside a request, a turn with a sub-agent that outlives
\* it, a sub-agent with one of its own, and a request for the session of one.
MCSituations ==
  { [Plain EXCEPT !.kind = [@ EXCEPT ![b] = "bus"], !.says = {"text", "thinking", "tool"}, !.most = 2,
       !.faults = {"fail", "panic", "deadline", "full"}],
    [Plain EXCEPT !.kind = [@ EXCEPT ![b] = "bus", ![c] = "run"], !.faults = {"panic"}],
    [Plain EXCEPT !.kind = [@ EXCEPT ![b] = "stream", ![c] = "spawn"], !.says = {"text", "thinking"},
       !.faults = {"full"}],
    [Plain EXCEPT !.kind = a :> "bridge" @@ b :> "run" @@ c :> "spawn" @@ d :> "none", !.says = {"status"},
       !.faults = {"fail"}],
    [Plain EXCEPT !.kind = a :> "stream" @@ b :> "none" @@ c :> "spawn" @@ d :> "spawn",
       !.to = [@ EXCEPT ![d] = c], !.most = 0],
    [Plain EXCEPT !.kind = a :> "stream" @@ b :> "bridge" @@ c :> "spawn" @@ d :> "none",
       !.to = [@ EXCEPT ![b] = c]] }
=============================================================================
