----------------------------- MODULE MCTurnLoop -----------------------------
(* Instance of TurnLoop for TLC. *)
EXTENDS TurnLoop

CONSTANTS m1, m2

MCModels == {m1, m2}

Call(tool) == [tool |-> tool, then |-> None]
Chain(tool, then) == [tool |-> tool, then |-> then]

Asked(n) == User(<<Text("input", n)>>)
Said(n) == Assistant(<<Text("answer", n)>>)

\* Two exchanges, a turn that read the file, and one that was cut in the middle
\* of a call.
Talked == <<Asked(0), Said(1), Asked(0), Said(2)>>
ReadOnce == <<Asked(0), Assistant(<<Use(1, "read")>>), User(<<Result(1, "full", FALSE)>>), Said(2)>>
CutShort == <<Asked(0), Assistant(<<Text("answer", 1), Use(2, "write")>>)>>

Session(start, mode, limit, replies) ==
  [start |-> start, mode |-> mode, limit |-> limit, hooks |-> FALSE, store |-> FALSE,
   credentials |-> {m1}, replies |-> replies, turns |-> 2, sends |-> 0, upkeep |-> 0]

MCSituations ==
  { [Session(Talked, "autonomous", 0, {<<Call("part"), Call("write")>>})
        EXCEPT !.sends = 1, !.turns = 1, !.upkeep = 1],
    [Session(ReadOnce, "autonomous", 0, {<<Call("read")>>}) EXCEPT !.sends = 1],
    [Session(ReadOnce, "autonomous", 0, {<<Call("shell")>>}) EXCEPT !.upkeep = 1],
    [Session(CutShort, "autonomous", 1, {<<Call("write"), Call("read")>>})
       EXCEPT !.sends = 1, !.upkeep = 1],
    Session(<<>>, "observe", 0, {<<Chain("read", "write")>>, <<Chain("write", "read")>>}),
    [Session(<<>>, "assist", 0, {<<Call("nosuch")>>})
       EXCEPT !.store = TRUE, !.credentials = {m2}, !.upkeep = 1],
    [Session(ReadOnce, "autonomous", 0, {<<Chain("read", "write"), Chain("write", "read")>>})
       EXCEPT !.hooks = TRUE, !.turns = 1] }
=============================================================================
