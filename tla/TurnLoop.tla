------------------------------ MODULE TurnLoop ------------------------------
(***************************************************************************)
(* The turns of one engine: Engine.RunTurn prepares the conversation,     *)
(* picks a model, and runs Agent.Run, which calls the model and runs the  *)
(* tools it asks for until it answers, fails, is canceled or reaches its  *)
(* cap.  Between turns the conversation may be compacted, or the engine   *)
(* rebuilt from it.                                                       *)
(*                                                                        *)
(* The model is an adversary: it answers with any text and any calls of   *)
(* `replies`, stops for any reason, fails in every way the loop tells     *)
(* apart.  The user may inject a message or cancel at any moment of the   *)
(* turn.  Tools work on one file, whose versions are numbered; sizes in   *)
(* tokens are a free choice.                                              *)
(*                                                                        *)
(* This is the loop for Anthropic models.  The thinking-signature retry   *)
(* of executeAgent is left out: it asks for an error whose whole text is  *)
(* "Error", and executeAPICall prefixes every error.                      *)
(***************************************************************************)
EXTENDS Conversation

CONSTANTS
  Models,             \* models of the fallback chain, all served by Anthropic's API
  Default,            \* the model the engine was built for
  None,
  MaxAPICallsPerTurn,
  FlushInterval,      \* turns between two freezes of the conversation
  Situations          \* set of records, see Situation

Modes == {"observe", "assist", "autonomous"}

\* What a session is created with: the transcript it starts from, the guard's
\* mode, its limit on tool calls (0: none), whether workflow hooks answer
\* writes, the health table's presence, the models it has credentials for,
\* and the calls a reply may carry: sequences of a tool and a chained tool.
\* turns, sends and upkeep bound its turns, the messages sent beside them, and
\* the compactions and rebuilds between them.
Situation ==
  [start: Seq(Messages), mode: Modes, limit: Nat, hooks: BOOLEAN, store: BOOLEAN,
   credentials: SUBSET Models, replies: SUBSET Seq([tool: Calls, then: Calls \cup {None}]),
   turns: Nat, sends: Nat, upkeep: Nat]

\* The first id a transcript leaves free.
FreshId(ms) == Cardinality(UNION {ToSet(ms[i].blocks) : i \in DOMAIN ms}) + 1

\* A transcript as earlier turns leave it: only the calls of its last message
\* may be unanswered, the results of a call agree, and ids to come are new.
Transcript(ms) ==
  LET blocks == UNION {ToSet(ms[i].blocks) : i \in DOMAIN ms}
      answers == {b \in blocks : b.kind = "result"}
  IN /\ ms \in Seq(Messages) /\ WellFormed(ms) /\ WellMade(ms)
     /\ \A b \in blocks : b.id < FreshId(ms)
     /\ \A b, c \in answers : b.id = c.id => b.failed = c.failed
     /\ ms # <<>> => \A b \in answers : b.id \notin Ids(Last(ms), "use")

ASSUME TurnLoopAssumption ==
  /\ Default \in Models /\ None \notin Models /\ None \notin Calls
  /\ IsFiniteSet(Models)
  /\ MaxAPICallsPerTurn \in Nat \ {0} /\ FlushInterval \in Nat \ {0}
  /\ \A s \in Situations :
       /\ DOMAIN s = {"start", "mode", "limit", "hooks", "store", "credentials", "replies",
                       "turns", "sends", "upkeep"}
       /\ Transcript(s.start)
       /\ s.replies \subseteq Seq([tool : Calls, then : Calls \cup {None}])
       /\ s.mode \in Modes /\ s.limit \in Nat /\ s.store \in BOOLEAN
       /\ s.credentials \subseteq Models
       /\ s.turns \in Nat /\ s.sends \in Nat /\ s.upkeep \in Nat

VARIABLES
  situation,   \* never changes
  pc,          \* "idle", "context", "model", "loop", "calling" or "tools"
  turn,        \* Turn.Counter
  messages,    \* Engine.Messages
  frozen,      \* staged.FrozenIdx: the length of the frozen prefix
  ticks,       \* staged.TurnsSinceFlush
  noted,       \* is a note queued for the volatile context?
  model,       \* Engine.Model: the model this turn is accounted to
  client,      \* the model of the installed client, or None: the engine's own
  health,      \* the health table: "unknown", "ok" or "bad"
  injections,  \* messages waiting in Engine.injections
  sent,        \* messages ever injected
  cancelled,   \* is the turn's context over?
  version,     \* the version of the file
  upkeep,      \* compactions and rebuilds so far
  nextId,      \* the id of the next call or answer
  \* the agent of the turn in flight
  volatile,    \* does it still hold the turn's volatile context?
  anchor,      \* turnAnchorIdx: the message the turn opened with, 0 when gone
  agentFrozen, \* its copy of FrozenIdx
  apiCalls, toolCalls,
  withheld,    \* does the request in flight carry no tools?
  retried,     \* is it the retry after a context-length error?
  todo,        \* the calls of the reply still to run
  results,     \* the results of those that ran
  hooked,      \* did a workflow hook answer one of them?
  cache,       \* the read cache: the version the model was shown, 0 for none
  \* history, read by properties and by nothing else
  boundary,    \* the last block of the frozen prefix, when it was frozen
  stale,       \* has a summary replaced messages since, FrozenIdx staying put?
  pass,        \* what the last step did to the whole: "none", "staging", "whole", "summary"
  succeeded,   \* the calls that succeeded
  shown,       \* the last text the user saw this turn, 0 for none
  answered, failed \* the models whose provider ever answered, ever failed

agent == <<volatile, anchor, agentFrozen, apiCalls, toolCalls, withheld, retried,
           todo, results, hooked, cache>>
conversation == <<messages, frozen, ticks, boundary, stale, pass>>
failover == <<model, client, health, answered, failed>>
bounds == <<situation, turn, sent, upkeep>>
vars == <<bounds, pc, conversation, noted, failover, injections, cancelled, version,
          nextId, agent, succeeded, shown>>

Init ==
  /\ situation \in Situations
  /\ pc = "idle" /\ turn = 0
  /\ messages = situation.start
  /\ frozen = FreezePoint(situation.start) /\ ticks = 0
  /\ noted = FALSE
  /\ model = Default /\ client = None
  /\ health = [m \in Models |-> "unknown"]
  /\ injections = 0 /\ sent = 0 /\ cancelled = FALSE
  /\ version = 1 /\ upkeep = 0
  /\ nextId = FreshId(situation.start)
  /\ volatile = FALSE /\ anchor = 0 /\ agentFrozen = 0
  /\ apiCalls = 0 /\ toolCalls = 0 /\ withheld = FALSE /\ retried = FALSE
  /\ todo = <<>> /\ results = <<>> /\ hooked = FALSE /\ cache = 0
  /\ boundary = IF FreezePoint(situation.start) = 0 THEN <<>>
                ELSE <<Last(situation.start[FreezePoint(situation.start)].blocks)>>
  /\ stale = FALSE /\ pass = "none"
  /\ succeeded = {b.id : b \in {c \in UNION {ToSet(situation.start[i].blocks) :
                                                i \in DOMAIN situation.start} :
                                   c.kind = "result" /\ ~c.failed}}
  /\ shown = 0 /\ answered = {} /\ failed = {}

Move(from, to) == pc = from /\ pc' = to

-----------------------------------------------------------------------------
(* Preparing a turn, and the same upkeep between turns *)

\* The prefix is frozen up to n, and the turns counted anew.
Flush(ms, n) ==
  /\ frozen' = n /\ ticks' = 0 /\ stale' = FALSE
  /\ boundary' = IF n = 0 THEN <<>> ELSE <<Last(ms[n].blocks)>>

\* summarizeIfNeeded, which may fail, then pruneIfNeeded on what it left:
\* the staging zone is managed, and everything when a flush is due or the
\* conversation is far over its budget.
Tidy(ms, summarized, emergency) ==
  LET short == IF summarized THEN SummarizeConversation(ms) ELSE ms
      staged == ManageStaging(short, frozen)
      whole == ManageConversation(staged)
      flush == ticks + 1 >= FlushInterval \/ emergency
  IN /\ messages' = IF flush THEN whole ELSE staged
     /\ pass' = IF short # ms THEN "summary" ELSE IF flush THEN "whole" ELSE "staging"
     /\ noted' = (noted \/ CrossZoneDedup(staged, frozen))
     /\ IF flush THEN Flush(whole, FreezePoint(whole))
        ELSE /\ ticks' = ticks + 1
             /\ stale' = (stale \/ short # ms)
             /\ UNCHANGED <<frozen, boundary>>

\* The input joins the conversation, which is repaired and tidied.
PrepareInput(summarized, emergency) ==
  /\ Move("idle", "context")
  /\ turn < situation.turns /\ turn' = turn + 1
  /\ Tidy(RepairDanglingToolUse(AppendInput(messages, Text("input", turn + 1))),
          summarized, emergency)
  /\ shown' = 0
  /\ UNCHANGED <<situation, sent, upkeep, failover, injections, cancelled, version,
                 nextId, agent, succeeded>>

\* The turn's volatile context: the queued notes, with or without more.
BuildTurnContext ==
  /\ Move("context", "model")
  /\ volatile' \in (IF noted THEN {TRUE} ELSE BOOLEAN)
  /\ noted' = FALSE /\ pass' = "none"
  /\ UNCHANGED <<bounds, messages, frozen, ticks, boundary, stale, failover, injections,
                 cancelled, version, nextId, anchor, agentFrozen, apiCalls, toolCalls,
                 withheld, retried, todo, results, hooked, cache, succeeded, shown>>

\* With no system prompt of an earlier turn to fall back on, the turn ends.
ContextFails ==
  /\ Move("context", "idle") /\ turn = 1
  /\ pass' = "none" /\ cancelled' = FALSE
  /\ UNCHANGED <<bounds, messages, frozen, ticks, boundary, stale, noted, failover,
                 injections, version, nextId, agent, succeeded, shown>>

\* CompactContext, asked for between turns.
CompactContext(summarized, emergency) ==
  /\ pc = "idle" /\ upkeep < situation.upkeep /\ upkeep' = upkeep + 1
  /\ Tidy(messages, summarized, emergency)
  /\ shown' = 0
  /\ UNCHANGED <<situation, turn, sent, pc, failover, injections, cancelled, version,
                 nextId, agent, succeeded>>

\* The session is rebuilt from its transcript: repaired, restored, frozen.
RestoreSession ==
  LET repaired == RepairAlternation(RepairDanglingToolUse(RepairEmptyContent(messages)))
  IN /\ pc = "idle" /\ upkeep < situation.upkeep /\ upkeep' = upkeep + 1
     /\ messages' = repaired
     /\ Flush(repaired, FreezePoint(repaired))
     /\ pass' = "whole" /\ noted' = FALSE /\ shown' = 0 /\ injections' = 0
     /\ model' = Default /\ client' = None
     /\ UNCHANGED <<situation, turn, sent, pc, health, answered, failed, cancelled, version,
                    nextId, agent, succeeded>>

-----------------------------------------------------------------------------
(* Choosing the model *)

\* Healthy, or never tried.  A record may also be too old to count.
Fit(m, old) == health[m] = "unknown" \/ (health[m] = "ok" /\ m \notin old)

\* The preferred model when it is fit or nothing else is.
SelectModel(old) ==
  IF ~situation.store \/ Fit(model, old) \/ ~\E m \in Models : Fit(m, old) THEN {model}
  ELSE {m \in Models : Fit(m, old)}

\* The model whose client serves the turn: the one selected when a client can
\* be had for it, else the one already installed, else the selected model's
\* name goes out through the engine's own client.
ResolveModelClient(selected) ==
  IF client = selected \/ selected \in situation.credentials \/ client = None
  THEN selected ELSE client

\* Agent.Run begins: this turn's agent, its indices into the conversation, and
\* an empty read cache.
StartAgent(old) ==
  /\ Move("model", "loop")
  /\ old \subseteq {m \in Models : health[m] = "ok"}
  /\ \E selected \in SelectModel(old) :
       /\ model' = ResolveModelClient(selected)
       /\ client' = IF selected \in situation.credentials THEN selected ELSE client
  /\ anchor' = Len(messages)
  /\ agentFrozen' = frozen
  /\ UNCHANGED <<bounds, conversation, noted, health, answered, failed, injections, cancelled,
                 version, nextId, volatile, apiCalls, toolCalls, withheld, retried, todo,
                 results, hooked, cache, succeeded, shown>>

-----------------------------------------------------------------------------
(* Ending a turn *)

\* The request has too many bytes, in whichever words it was refused.
IsRequestByteSizeLimitError(err) == err = "bytes"

\* Mutation of errorIsEvidenceAboutTheModel: a cancel counts against the model.
anyUpstreamErrorIsEvidence(err) == err \notin {"cap", "unconvertible", "bytes"}

\* Errors inber raises about itself or its request.
errorIsEvidenceAboutTheModel(err) ==
  err \notin {"canceled", "cap", "unconvertible"} /\ ~IsRequestByteSizeLimitError(err)

RecordModelHealth(err) ==
  health' = IF ~situation.store THEN health
            ELSE IF err = "none" THEN [health EXCEPT ![model] = "ok"]
            ELSE IF errorIsEvidenceAboutTheModel(err) THEN [health EXCEPT ![model] = "bad"]
            ELSE health

\* Run returns: the outcome is recorded against the model, and the agent and
\* the turn's context are gone.
Return(err) ==
  /\ pc' = "idle"
  /\ RecordModelHealth(err)
  /\ cancelled' = FALSE
  /\ volatile' = FALSE /\ anchor' = 0 /\ agentFrozen' = 0
  /\ apiCalls' = 0 /\ toolCalls' = 0 /\ withheld' = FALSE /\ retried' = FALSE
  /\ todo' = <<>> /\ results' = <<>> /\ hooked' = FALSE /\ cache' = 0
  /\ UNCHANGED <<bounds, frozen, ticks, boundary, stale, noted, model, client, injections,
                 version, succeeded>>
  /\ pass' = "none"

StopForCanceledTurn ==
  /\ pc = "loop" /\ cancelled
  /\ Return("canceled")
  /\ UNCHANGED <<messages, nextId, shown, answered, failed>>

StopForAPICallCap ==
  /\ pc = "loop" /\ ~cancelled /\ apiCalls = MaxAPICallsPerTurn
  /\ Return("cap")
  /\ UNCHANGED <<messages, nextId, shown, answered, failed>>

-----------------------------------------------------------------------------
(* One round trip *)

\* The agent asks the engine to prune before a request: what it would send
\* instead, and how many messages that drops off the head.  A prune that frees
\* nothing is not adopted, though the pointers of its deduplication stay: they
\* are written into the blocks the conversation shares.
BeforeRequest(ms, heavy, adopted) ==
  LET pruned == IF ShouldPrune(ms, heavy) THEN ManageConversation(ms) ELSE ms
      dropped == HeadDrop(pruned)
  IN [messages |-> IF dropped > 0 \/ adopted THEN Suffix(pruned, dropped)
                   ELSE IF ShouldPrune(ms, heavy) THEN DeduplicateFileRefs(ms)
                   ELSE ms,
      dropped |-> dropped]

\* Mutation of Adopt: the agent's copy of the boundary is forgotten.
AdoptForgettingTheAgent(prune) ==
  /\ messages' = prune.messages
  /\ anchor' = Shifted(anchor, prune.dropped)
  /\ agentFrozen' = agentFrozen
  /\ frozen' = Shifted(frozen, prune.dropped)
  /\ pass' = "whole"
  /\ UNCHANGED <<ticks, boundary, stale>>

\* Adopting it moves both copies of the frozen boundary and the anchor.
Adopt(prune) ==
  /\ messages' = prune.messages
  /\ anchor' = Shifted(anchor, prune.dropped)
  /\ agentFrozen' = Shifted(agentFrozen, prune.dropped)
  /\ frozen' = Shifted(frozen, prune.dropped)
  /\ pass' = "whole"
  /\ UNCHANGED <<ticks, boundary, stale>>

LimitReached == situation.limit > 0 /\ toolCalls >= situation.limit

\* The next request: after the first, what was injected and the notice of a
\* reached limit join the last message; then the volatile context, once; then
\* the guard against overflow.
NextCall(heavy, adopted) ==
  /\ Move("loop", "calling")
  /\ ~cancelled /\ apiCalls < MaxAPICallsPerTurn
  /\ LET later == apiCalls > 0
         heard == IF later THEN [i \in 1 .. injections |-> Text("injected", 0)] ELSE <<>>
         notice == IF later /\ LimitReached THEN <<Text("notice", 0)>> ELSE <<>>
         asked == AppendToLast(messages, heard \o notice)
         inject == volatile /\ Is(Last(asked), "user")
         sentOff == IF inject THEN AfterResults(asked, Text("context", turn)) ELSE asked
     IN /\ Adopt(BeforeRequest(sentOff, heavy, adopted))
        /\ injections' = IF later THEN 0 ELSE injections
        /\ withheld' = (later /\ LimitReached)
        /\ volatile' = (volatile /\ ~inject)
  /\ apiCalls' = apiCalls + 1
  /\ UNCHANGED <<bounds, noted, failover, cancelled, version, nextId, toolCalls, retried,
                 todo, results, hooked, cache, succeeded, shown>>

Serving == IF client = None THEN model ELSE client

\* The history of the providers matters where there is a health table.
Heard(models) == IF situation.store THEN models \cup {Serving} ELSE models

\* The calls of a reply as blocks.
AsUses(reply) == [i \in DOMAIN reply |-> Use(nextId + i, reply[i].tool)]

\* The model answers: with a text, with calls, for any stop reason.  Only a
\* reply that stops for its calls has them run.
Answer(stop, reply) ==
  LET text == IF stop = "tool_use" THEN <<>> ELSE <<Text("answer", nextId)>>
  IN /\ pc = "calling"
     /\ (stop = "tool_use") => reply # <<>>
     /\ (stop = "end_turn" \/ withheld) => reply = <<>>
     /\ messages' = Append(messages, Assistant(text \o AsUses(reply)))
     /\ nextId' = nextId + 1 + Len(reply)
     /\ shown' = IF stop = "tool_use" THEN shown ELSE nextId
     /\ answered' = Heard(answered)
     /\ failed' = IF stop = "other" THEN Heard(failed) ELSE failed
     /\ IF stop = "tool_use"
        THEN /\ pc' = "tools" /\ pass' = "none" /\ retried' = FALSE
             /\ todo' = [i \in DOMAIN reply |->
                           [id |-> nextId + i, tool |-> reply[i].tool, then |-> reply[i].then]]
             /\ results' = <<>> /\ hooked' = FALSE
             /\ UNCHANGED <<bounds, frozen, ticks, boundary, stale, noted, model, client, health,
                            injections, cancelled, version, volatile, anchor, agentFrozen,
                            apiCalls, toolCalls, withheld, cache, succeeded>>
        ELSE Return(IF stop = "other" THEN "unexpected" ELSE "none")

\* Mutation of KeepDelivered: a failed call leaves nothing.
KeepNothing(ms, text) == ms

\* A message that keeps what the user already read of a reply that was cut.
KeepDelivered(ms, text) ==
  IF text THEN Append(ms, Assistant(<<Text("answer", nextId), Text("cut", 0)>>)) ELSE ms

\* The call fails, perhaps with text already delivered: for a reason of the
\* provider's, because the request has too many bytes, because the turn was
\* canceled, because the reply holds a block this build cannot store.
CallFails(err, text) ==
  /\ pc = "calling"
  /\ (err = "canceled") => cancelled
  /\ text => (err # "bytes" /\ ~retried)
  /\ messages' = KeepDelivered(messages, text)
  /\ nextId' = nextId + 1
  /\ shown' = IF text THEN nextId ELSE shown
  /\ failed' = IF err = "provider" THEN Heard(failed) ELSE failed
  /\ answered' = IF err \in {"bytes", "unconvertible"} THEN Heard(answered) ELSE answered
  /\ Return(err)

\* A context-length error prunes harder and tries once more.
RetryPruned(heavy) ==
  LET prune == BeforeRequest(messages, heavy, TRUE)
  IN /\ pc = "calling" /\ ~retried
     /\ prune.messages # messages
     /\ Adopt(prune)
     /\ retried' = TRUE
     /\ UNCHANGED <<bounds, pc, noted, failover, injections, cancelled, version, nextId,
                    volatile, apiCalls, toolCalls, withheld, todo, results, hooked, cache,
                    succeeded, shown>>

-----------------------------------------------------------------------------
(* Running the calls of a reply *)

Readers == {"read", "part"}
Writers == {"write", "shell"}

\* Guard.CheckTool, with nobody to approve.
Allowed(tool) ==
  CASE situation.mode = "observe" -> tool \in Readers
    [] situation.mode = "assist" -> tool \notin Writers
    [] OTHER -> TRUE

Known(tool) == tool \in Readers \cup Writers

IsFullRead(tool) == tool = "read"
IsPartialRead(tool) == tool = "part"
Check == cache # 0

\* The read cache answers a read of the file it holds, in place of the tool.
Cached(tool) == (IsFullRead(tool) \/ IsPartialRead(tool)) /\ Check

\* A call writes the file it names, or may have written any.
WritesNamedPaths(tool) == tool = "write"
InvalidatesEverything(tool) == tool = "shell"
MayWrite(tool) == WritesNamedPaths(tool) \/ InvalidatesEverything(tool)

\* Mutation of Remembered: a writer that failed has changed nothing.
RememberedPastFailures(c, v, tool, worked) ==
  IF MayWrite(tool) /\ worked THEN 0 ELSE IF IsFullRead(tool) /\ worked THEN v ELSE c

\* What a tool that ran leaves of the file and of the cache: a writer forgets
\* the file even when it failed, and a whole read that worked records it.
Bumped(v, tool, touched) == IF MayWrite(tool) /\ touched THEN v + 1 ELSE v
Remembered(c, v, tool, worked) ==
  IF MayWrite(tool) THEN 0 ELSE IF IsFullRead(tool) /\ worked THEN v ELSE c

\* The next call is answered.
Answered(result) ==
  /\ todo' = Tail(todo)
  /\ results' = Append(results, result)
  /\ toolCalls' = toolCalls + 1
  /\ pass' = "none"
  /\ UNCHANGED <<bounds, pc, messages, frozen, ticks, boundary, stale, noted, failover,
                 injections, cancelled, nextId, volatile, anchor, agentFrozen, apiCalls,
                 withheld, retried, shown>>

\* A call that is refused, or that names no tool, runs nothing: neither its
\* tool nor what was chained to it.
CallNotRun ==
  /\ pc = "tools" /\ todo # <<>>
  /\ LET c == Head(todo)
     IN /\ ~Allowed(c.tool) \/ (~Cached(c.tool) /\ ~Known(c.tool))
        /\ Answered(Result(c.id, "said", TRUE))
  /\ UNCHANGED <<version, cache, succeeded, hooked>>

\* A call that fails may have done part of its work; its chain does not run.
ToolFails(touched) ==
  /\ pc = "tools" /\ todo # <<>>
  /\ LET c == Head(todo)
     IN /\ Allowed(c.tool) /\ Known(c.tool) /\ ~Cached(c.tool)
        /\ version' = Bumped(version, c.tool, touched)
        /\ cache' = Remembered(cache, version, c.tool, FALSE)
        /\ Answered(Result(c.id, "said", TRUE))
  /\ UNCHANGED <<succeeded, hooked>>

\* The tool chained to a call; None without one, and where it cannot be read.
ExtractChain(c) == c.then

\* Mutation of ChainRuns: the guard is asked about the call only.
ChainRunsUnasked(c) == Known(ExtractChain(c))

\* Does what is chained to c run?
ChainRuns(c) == Known(ExtractChain(c)) /\ Allowed(ExtractChain(c))

\* A call that works, or that the cache answers, and then what is chained to
\* it, whose failure does not make the result one.
ToolWorks(touched, chainWorks) ==
  /\ pc = "tools" /\ todo # <<>>
  /\ LET c == Head(todo)
         first == IF Cached(c.tool) THEN version ELSE Bumped(version, c.tool, touched)
         kept == IF Cached(c.tool) THEN cache ELSE Remembered(cache, first, c.tool, TRUE)
         second == Bumped(first, ExtractChain(c), touched)
     IN /\ Allowed(c.tool) /\ (Cached(c.tool) \/ Known(c.tool))
        /\ version' = IF ChainRuns(c) THEN second ELSE first
        /\ cache' = IF ChainRuns(c) THEN Remembered(kept, second, ExtractChain(c), chainWorks) ELSE kept
        /\ Answered(Result(c.id, CASE Cached(c.tool) -> "already"
                                   [] IsFullRead(c.tool) -> "full"
                                   [] OTHER -> "said", FALSE))
        /\ succeeded' = succeeded \cup {c.id}
        /\ hooked' = (hooked \/ (situation.hooks /\ c.tool = "write"))

\* All calls are answered, in one user message.
SendResults ==
  /\ Move("tools", "loop") /\ todo = <<>>
  /\ messages' = Append(messages, User(results \o (IF hooked THEN <<Text("hook", 0)>> ELSE <<>>)))
  /\ results' = <<>> /\ hooked' = FALSE /\ pass' = "none"
  /\ UNCHANGED <<bounds, frozen, ticks, boundary, stale, noted, failover, injections,
                 cancelled, version, nextId, volatile, anchor, agentFrozen, apiCalls,
                 toolCalls, withheld, retried, todo, cache, succeeded, shown>>

-----------------------------------------------------------------------------
(* Beside the turn *)

\* The user sends a message while the agent works, or stops it.
InjectMessage ==
  /\ pc \in {"loop", "calling", "tools"} /\ sent < situation.sends
  /\ injections' = injections + 1 /\ sent' = sent + 1
  /\ pass' = "none"
  /\ UNCHANGED <<situation, turn, upkeep, pc, messages, frozen, ticks, boundary, stale, noted,
                 failover, cancelled, version, nextId, agent, succeeded, shown>>

Cancel ==
  /\ pc # "idle" /\ ~cancelled
  /\ cancelled' = TRUE
  /\ pass' = "none"
  /\ UNCHANGED <<bounds, pc, messages, frozen, ticks, boundary, stale, noted, failover,
                 injections, version, nextId, agent, succeeded, shown>>

Errors == {"provider", "bytes", "canceled", "unconvertible"}

Next ==
  \/ \E summarized, emergency \in BOOLEAN :
       \/ PrepareInput(summarized, emergency)
       \/ CompactContext(summarized, emergency)
  \/ RestoreSession
  \/ BuildTurnContext \/ ContextFails
  \/ \E old \in SUBSET Models : StartAgent(old)
  \/ StopForCanceledTurn \/ StopForAPICallCap
  \/ \E heavy, adopted \in BOOLEAN : NextCall(heavy, adopted)
  \/ \E stop \in {"end_turn", "max_tokens", "tool_use", "other"},
        reply \in situation.replies \cup {<<>>} : Answer(stop, reply)
  \/ \E err \in Errors, text \in BOOLEAN : CallFails(err, text)
  \/ \E heavy \in BOOLEAN : RetryPruned(heavy)
  \/ CallNotRun
  \/ \E touched \in BOOLEAN : ToolFails(touched)
  \/ \E touched, chainWorks \in BOOLEAN : ToolWorks(touched, chainWorks)
  \/ SendResults
  \/ InjectMessage \/ Cancel

Spec == Init /\ [][Next]_vars

-----------------------------------------------------------------------------
(* Properties *)

\* Types: the conversation, its indices, the agent of the turn and the tables
\* (engine/engine.go, agent/agent.go, conversation/staged.go).
TypeOK ==
  /\ pc \in {"idle", "context", "model", "loop", "calling", "tools"}
  /\ messages \in Seq(Messages) /\ results \in Seq(Blocks)
  /\ \A i \in DOMAIN todo : todo[i].tool \in Calls /\ todo[i].then \in Calls \cup {None}
  /\ {turn, frozen, ticks, injections, sent, version, upkeep, nextId, anchor, agentFrozen,
      apiCalls, toolCalls, cache, shown} \subseteq Nat
  /\ ticks < FlushInterval /\ apiCalls <= MaxAPICallsPerTurn
  /\ {noted, cancelled, volatile, withheld, retried, hooked, stale} \subseteq BOOLEAN
  /\ model \in Models /\ client \in Models \cup {None}
  /\ health \in [Models -> {"unknown", "ok", "bad"}]
  /\ answered \subseteq Models /\ failed \subseteq Models /\ succeeded \subseteq Nat
  /\ pass \in {"none", "staging", "whole", "summary"}

\* Results at the head of the first message whose calls are gone: what a hard
\* drop leaves when it stops at a message of results the user, the limit or a
\* hook added a text to.
HeadIsOrphaned == messages # <<>> /\ Ids(messages[1], "result") # {}

\* Every request is one the provider takes: it opens and closes with the user,
\* roles alternate, every call is answered at the head of the next message,
\* and every result answers a call of the message before it.  Only the first
\* message may be orphaned, see HeadIsOrphaned.  Interrupted turns, repairs,
\* summaries and prunes inside the turn all have to keep it so
\* (agent/agent_run.go buildRequest; conversation/repair.go).
RequestsAreWellFormed ==
  pc = "calling" => messages # <<>> /\ Is(Last(messages), "user") /\ WellFormed(messages)

\* Same block, whatever became of what it says.
SameBlock(a, b) == a.kind = b.kind /\ a.id = b.id

\* A request's cache breakpoints are on the messages they were meant for: the
\* anchor on the message with this turn's input, the other on the last message
\* that was frozen, and both copies of the boundary agree, also after a head
\* drop in the middle of the turn.  A summary leaves FrozenIdx where it was, so
\* until the next flush the boundary is not asked about
\* (agent/agent.go shiftBreakpointIndicesAfterHeadDrop; conversation/staged.go).
BreakpointsFollowTheirMessages ==
  pc = "calling" =>
    /\ agentFrozen = frozen
    /\ \A i \in HistoryCacheBreakpointIndices(Len(messages), agentFrozen, anchor) :
         \/ i = anchor /\ Text("input", turn) \in ToSet(messages[i].blocks)
         \/ i = frozen /\ (stale \/ SameBlock(Last(messages[i].blocks), boundary[1]))
         \/ anchor = 0 /\ (frozen = 0 \/ stale) /\ i = Len(messages) - 1

\* The frozen prefix does not change, not a block of it, except when the whole
\* conversation is managed or summarized: between flushes deduplication,
\* pruning, repairs and appends stay behind it.  Not asked while a summary has
\* left FrozenIdx behind (conversation/staged.go "never mutated").
FrozenPrefixIsStable ==
  [][pass' \in {"none", "staging"} /\ ~stale =>
       /\ frozen' = frozen
       /\ Prefix(messages', frozen) = Prefix(messages, frozen)]_vars

\* A file the read cache vouches for is the file the model was shown: no call
\* of this turn, failed, chained or behind a cached read, changed it since
\* (agent/read_cache.go; agent/agent_run.go executeTools).
ReadCacheNeverStale == cache # 0 => cache = version

\* In observe mode nothing the model asks for changes the file, neither as a
\* call nor chained to one, whether that one ran or was answered by the cache
\* (agent/chain.go executeWithChain; guard/guard.go CheckTool).
ObserveChangesNothing == situation.mode = "observe" => version = 1

\* The shared health table marks a model down only if its own provider ever
\* failed, and up only if it ever answered: not for a cancel, the cap, a
\* request too big or a block this build does not know, and never for another
\* model's failure (engine/failover.go; engine/model_client.go).
HealthNeedsEvidence ==
  \A m \in Models : /\ health[m] = "bad" => m \in failed
                    /\ health[m] = "ok" => m \in answered

\* A result says it failed exactly when its call did not succeed: through the
\* repairs of interrupted calls, deduplication, summaries and both kinds of
\* pruning (conversation/manage_tool_pruning.go replaceToolResultText).
FailuresStayMarked ==
  \A i \in DOMAIN messages : \A b \in ToSet(messages[i].blocks) :
    b.kind = "result" => (b.failed <=> b.id \notin succeeded)

\* When a turn is over, the last text the user read of it is in the
\* conversation, however the turn ended (agent/agent_run.go deliveredText).
ShownTextIsKept ==
  (pc = "idle" /\ shown # 0) =>
    \E i \in DOMAIN messages : Text("answer", shown) \in ToSet(messages[i].blocks)

\* Every request of a turn carries what the user asked in it, unless a hard
\* drop has cut inside the turn (engine/build.go: the drop stops at the start
\* of a turn).
TurnsKeepTheirInput ==
  pc = "calling" =>
    \/ \E i \in DOMAIN messages : Text("input", turn) \in ToSet(messages[i].blocks)
    \/ HeadIsOrphaned

\* What the turns did is in the conversation they leave behind.
ConversationKeepsTheTurn == FailuresStayMarked /\ ShownTextIsKept /\ TurnsKeepTheirInput
=============================================================================
