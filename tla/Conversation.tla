---------------------------- MODULE Conversation ----------------------------
(***************************************************************************)
(* The conversation a session sends to its model, and every operation of  *)
(* the conversation package that rewrites it: the repairs, the            *)
(* deduplication of file reads, the pruning by age, the summary and the   *)
(* drop of its head, and the placing of the cache breakpoints.            *)
(*                                                                        *)
(* A message has a role and a sequence of blocks: texts, tool calls and   *)
(* their results.  What a block says is kept only as far as these         *)
(* operations tell it apart.  Every call works on one file; texts, images *)
(* and sizes are abstracted away, and so are thinking blocks.  Call ids   *)
(* grow, so the later of two calls is the one with the larger id.         *)
(*                                                                        *)
(* The source counts messages from 0 and keeps the length of a prefix;    *)
(* here messages count from 1 and a prefix is named by its last message.  *)
(***************************************************************************)
EXTENDS Naturals, Sequences, FiniteSets, SequencesExt

CONSTANTS
  KeepRecentTurns,  \* PruneConfig.KeepRecentTurns, compared with a number of messages
  ToolResultKeepFull, ToolResultDrop, ToolCallKeepFull, \* ages, in user messages
  TriggerMessages,  \* SummarizeConfig.TriggerMessages
  SummaryTurns      \* SummarizeConfig.KeepRecentTurns, in turns

ASSUME ConversationAssumption ==
  /\ KeepRecentTurns \in Nat /\ TriggerMessages \in Nat /\ SummaryTurns \in Nat
  /\ ToolResultKeepFull \in Nat /\ ToolResultDrop \in Nat /\ ToolCallKeepFull \in Nat

\* What a call is (its tool, or what became of its arguments), what a result
\* holds, and which text it is.
Calls == {"read", "part", "write", "shell", "nosuch", "_deduped", "_summary"}
Holds == {"full", "already", "superseded", "summary", "dropped", "said"}
Texts == {"input", "injected", "notice", "context", "hook", "answer", "cut", "summary", "continued"}

Blocks == [kind: {"text"}, id: Nat, says: Texts, failed: {FALSE}]
          \cup [kind: {"use"}, id: Nat, says: Calls, failed: {FALSE}]
          \cup [kind: {"result"}, id: Nat, says: Holds, failed: BOOLEAN]
Messages == [role: {"user", "assistant"}, blocks: Seq(Blocks)]

Text(says, n) == [kind |-> "text", id |-> n, says |-> says, failed |-> FALSE]
Use(id, tool) == [kind |-> "use", id |-> id, says |-> tool, failed |-> FALSE]
Result(id, says, failed) == [kind |-> "result", id |-> id, says |-> says, failed |-> failed]
User(blocks) == [role |-> "user", blocks |-> blocks]
Assistant(blocks) == [role |-> "assistant", blocks |-> blocks]

Is(m, role) == m.role = role
Ids(m, kind) == {b.id : b \in {c \in ToSet(m.blocks) : c.kind = kind}}
Prefix(ms, n) == SubSeq(ms, 1, IF n <= Len(ms) THEN n ELSE Len(ms))
Suffix(ms, n) == SubSeq(ms, n + 1, Len(ms))

\* The elements of s at these places, in their order.
Those(s, places) == FlattenSeq([i \in DOMAIN s |-> IF i \in places THEN <<s[i]>> ELSE <<>>])

\* f applied to every block of every message in that role.
Rewrite(ms, role, f(_, _)) ==
  [i \in DOMAIN ms |->
     IF Is(ms[i], role)
     THEN [ms[i] EXCEPT !.blocks = [j \in DOMAIN @ |-> f(i, @[j])]]
     ELSE ms[i]]

\* What the provider asks of a conversation: the user opens it, roles alternate,
\* every call is answered at the head of the next message, and every result
\* there answers a call of the message before it.
WellFormed(ms) ==
  /\ ms # <<>> => Is(ms[1], "user")
  /\ \A i \in 2 .. Len(ms) :
       LET before == ms[i - 1]
           blocks == ms[i].blocks
       IN /\ ms[i].role # before.role
          /\ Ids(before, "use") = Ids(ms[i], "result")
          /\ \A j, k \in DOMAIN blocks :
               (j < k /\ blocks[k].kind = "result") => blocks[j].kind = "result"

\* What the loop makes of one besides: no message is empty, and calls are the
\* assistant's, results the user's.
WellMade(ms) ==
  \A i \in DOMAIN ms :
    /\ ms[i].blocks # <<>>
    /\ Ids(ms[i], IF Is(ms[i], "user") THEN "use" ELSE "result") = {}

-----------------------------------------------------------------------------
(* Appending *)

\* blocks appended to the last message.
AppendToLast(ms, blocks) == [ms EXCEPT ![Len(ms)].blocks = @ \o blocks]

\* A user's text, merged into a trailing user message.
AppendInput(ms, text) ==
  IF ms # <<>> /\ Is(Last(ms), "user")
  THEN AppendToLast(ms, <<text>>)
  ELSE Append(ms, User(<<text>>))

\* The volatile context goes after the last result of the last message.
AfterResults(ms, text) ==
  LET blocks == Last(ms).blocks
      at == Cardinality({i \in DOMAIN blocks :
                           \E j \in i .. Len(blocks) : blocks[j].kind = "result"})
  IN [ms EXCEPT ![Len(ms)].blocks = Prefix(blocks, at) \o <<text>> \o Suffix(blocks, at)]

-----------------------------------------------------------------------------
(* Repairs *)

\* The results the calls of message m never got, in the order of the calls.
Synthesized(m, answered) ==
  LET dangling == Those(m.blocks, {i \in DOMAIN m.blocks : /\ m.blocks[i].kind = "use"
                                                           /\ m.blocks[i].id \notin answered})
  IN [i \in DOMAIN dangling |-> Result(dangling[i].id, "said", TRUE)]

\* Mutation of RepairMissingToolResults: the results go behind what the user says.
RepairMissingToolResultsAtTheEnd(ms) ==
  [i \in DOMAIN ms |->
     IF i > 1 /\ Is(ms[i], "user") /\ Is(ms[i - 1], "assistant")
     THEN User(ms[i].blocks \o Synthesized(ms[i - 1], Ids(ms[i], "result")))
     ELSE ms[i]]

\* The user message that follows a message with calls gets the results it
\* lacks, ahead of everything else in it.
RepairMissingToolResults(ms) ==
  [i \in DOMAIN ms |->
     IF i > 1 /\ Is(ms[i], "user") /\ Is(ms[i - 1], "assistant")
     THEN User(Synthesized(ms[i - 1], Ids(ms[i], "result")) \o ms[i].blocks)
     ELSE ms[i]]

\* Calls that no user message follows get one.
RepairDanglingToolUse(ms) ==
  LET unanswered(i) == /\ Is(ms[i], "assistant") /\ Ids(ms[i], "use") # {}
                       /\ ~(i < Len(ms) /\ Is(ms[i + 1], "user"))
  IN RepairMissingToolResults(FlattenSeq(
       [i \in DOMAIN ms |-> IF unanswered(i)
                            THEN <<ms[i], User(Synthesized(ms[i], {}))>>
                            ELSE <<ms[i]>>]))

\* Two users in a row are merged; two assistants get a placeholder between.
RepairAlternation(ms) ==
  LET join(before, m) ==
        IF before = <<>> \/ Last(before).role # m.role THEN Append(before, m)
        ELSE IF Is(m, "user") THEN AppendToLast(before, m.blocks)
        ELSE before \o <<User(<<Text("continued", 0)>>), m>>
      fixed[n \in 0 .. Len(ms)] == IF n = 0 THEN <<>> ELSE join(fixed[n - 1], ms[n])
  IN fixed[Len(ms)]

RepairEmptyContent(ms) == Those(ms, {i \in DOMAIN ms : ms[i].blocks # <<>>})

-----------------------------------------------------------------------------
(* Pruning *)

\* The age of message i: the user messages after it.
Age(ms, i) == Cardinality({j \in i + 1 .. Len(ms) : Is(ms[j], "user")})

\* Mutation of PruneToolResult: what replaces an old result is a fresh one.
PruneToolResultFresh(b, age) ==
  IF b.kind # "result" THEN b
  ELSE IF age >= ToolResultDrop THEN Result(b.id, "dropped", FALSE)
  ELSE IF age >= ToolResultKeepFull /\ b.says = "full" THEN [b EXCEPT !.says = "summary"]
  ELSE b

\* A result is kept, summarised or dropped by age; its is_error is kept.
\* Only a whole file is long enough to be summarised.
PruneToolResult(b, age) ==
  IF b.kind # "result" THEN b
  ELSE IF age >= ToolResultDrop THEN [b EXCEPT !.says = "dropped"]
  ELSE IF age >= ToolResultKeepFull /\ b.says = "full" THEN [b EXCEPT !.says = "summary"]
  ELSE b

PruneByAge(ms) == Rewrite(ms, "user", LAMBDA i, b : PruneToolResult(b, Age(ms, i)))

\* The calls that name the file.
FileCalls(ms) ==
  {b \in UNION {ToSet(ms[i].blocks) : i \in {j \in DOMAIN ms : Is(ms[j], "assistant")}} :
     b.kind = "use" /\ b.says \in {"read", "part", "write"}}

\* A write supersedes every earlier call on the file, a whole read every
\* earlier whole read or write.
Superseded(ms) ==
  {b.id : b \in {r \in FileCalls(ms) : \E q \in FileCalls(ms) :
                   /\ q.id > r.id
                   /\ q.says = "write" \/ (q.says = "read" /\ r.says # "part")}}

\* The result of a superseded call becomes a pointer to the later one, and
\* the call stops being a reference to the file.
DeduplicateFileRefs(ms) ==
  LET old == Superseded(ms)
      point(i, b) == IF b.kind = "result" /\ b.id \in old THEN [b EXCEPT !.says = "superseded"] ELSE b
      forget(i, b) == IF b.kind = "use" /\ b.id \in old THEN [b EXCEPT !.says = "_deduped"] ELSE b
  IN Rewrite(Rewrite(ms, "user", point), "assistant", forget)

\* Mutation of ManageStaging: the frozen prefix is managed with the rest.
ManageStagingOfAll(ms, frozen) == PruneByAge(DeduplicateFileRefs(ms))

\* Deduplication and pruning of what follows the frozen prefix.
ManageStaging(ms, frozen) ==
  Prefix(ms, frozen) \o PruneByAge(DeduplicateFileRefs(Suffix(ms, frozen)))

\* Is a file of the frozen prefix named again after it?
CrossZoneDedup(ms, frozen) ==
  /\ 0 < frozen /\ frozen < Len(ms)
  /\ FileCalls(Prefix(ms, frozen)) # {} /\ FileCalls(Suffix(ms, frozen)) # {}

\* The whole conversation managed: nothing to do when it is short.
ManageConversation(ms) ==
  LET shorten(i, b) ==
        IF b.kind = "use" /\ Age(ms, i) > ToolCallKeepFull THEN [b EXCEPT !.says = "_summary"] ELSE b
  IN IF Len(ms) <= KeepRecentTurns THEN ms
     ELSE Rewrite(PruneByAge(DeduplicateFileRefs(ms)), "assistant", shorten)

\* heavy: the conversation weighs more than its token budget.
ShouldPrune(ms, heavy) ==
  \/ Len(ms) > 2 * KeepRecentTurns
  \/ (Len(ms) > KeepRecentTurns /\ heavy)

\* Everything but a trailing user message may be frozen.
FreezePoint(ms) == IF ms # <<>> /\ Is(Last(ms), "user") THEN Len(ms) - 1 ELSE Len(ms)

-----------------------------------------------------------------------------
(* Cutting *)

StartsUserTurn(m) ==
  Is(m, "user") /\ (m.blocks = <<>> \/ \E b \in ToSet(m.blocks) : b.kind # "result")

Starts(ms) == {i \in DOMAIN ms : StartsUserTurn(ms[i])}

\* Mutation of HeadDrop: it stops wherever the count is reached.
HeadDropAnywhere(ms) ==
  IF Len(ms) <= 2 * KeepRecentTurns THEN 0 ELSE Len(ms) - 2 * KeepRecentTurns

\* How many messages the hard drop takes off the head: enough to get down to
\* twice KeepRecentTurns, and on to the next message that starts a turn.
HeadDrop(ms) ==
  LET cuts == {i - 1 : i \in {j \in Starts(ms) : j > Len(ms) - 2 * KeepRecentTurns}}
  IN IF Len(ms) <= 2 * KeepRecentTurns \/ cuts = {} THEN 0 ELSE Min(cuts)

\* The length of the prefix to summarise: all but the last turns, moved back
\* to a start of a turn that no result behind it is parted from its call by.
FindTurnBoundary(ms) ==
  LET recent == {i \in Starts(ms) : Cardinality({j \in Starts(ms) : j >= i}) >= SummaryTurns}
      split == IF recent = {} THEN 0 ELSE Max(recent) - 1
      parts(n) == \E i \in 1 .. n, j \in n + 1 .. Len(ms) :
                     Ids(ms[i], "use") \cap Ids(ms[j], "result") # {}
  IN Max({n \in {0} \cup {i - 1 : i \in Starts(ms)} : n <= split /\ ~parts(n)})

StripOrphanedToolResults(ms) ==
  LET calls == UNION {Ids(ms[i], "use") : i \in DOMAIN ms}
      kept(bs) == Those(bs, {j \in DOMAIN bs : bs[j].kind = "result" => bs[j].id \in calls})
      cleaned == [i \in DOMAIN ms |-> IF Is(ms[i], "user") THEN User(kept(ms[i].blocks)) ELSE ms[i]]
  IN Those(cleaned, {i \in DOMAIN ms : Is(ms[i], "assistant") \/ cleaned[i].blocks # <<>>})

\* The older turns exchanged for a summary and its acknowledgement.
SummarizeConversation(ms) ==
  LET n == FindTurnBoundary(ms)
  IN IF Len(ms) <= TriggerMessages \/ n = 0 THEN ms
     ELSE RepairAlternation(
            <<User(<<Text("summary", 0)>>), Assistant(<<Text("summary", 0)>>)>>
            \o StripOrphanedToolResults(Suffix(ms, n)))

-----------------------------------------------------------------------------
(* Indices into a conversation *)

\* An index after the first `dropped` messages went away; 0 when it is among them.
Shifted(i, dropped) == IF i > dropped THEN i - dropped ELSE 0

\* The messages a request marks for the prompt cache.
HistoryCacheBreakpointIndices(count, frozen, anchor) ==
  LET boundary == IF 0 < frozen /\ frozen <= count THEN {frozen} ELSE {}
      opening == IF 1 <= anchor THEN {anchor} ELSE {}
      fallback == IF boundary \cup opening = {} THEN {count - 1} ELSE {}
  IN IF count < 2 THEN {}
     ELSE boundary \cup {i \in opening \cup fallback :
                           i <= count /\ (boundary = {} \/ i > frozen)}
=============================================================================
