----------------------------- MODULE Providers -----------------------------
(***************************************************************************)
(* Which model serves a turn of a session, and what its provider is sent. *)
(*                                                                        *)
(* The name a session runs on is set by its user, at any moment, and by   *)
(* failover; each turn turns it into a client.  A client speaks one of    *)
(* three protocols: Anthropic's, chat completions, and OpenAI's Responses *)
(* (with an API key, or with the token of a subscription).  The           *)
(* conversation is kept in Anthropic's form whoever served it, and the    *)
(* ids of the calls in it tell which provider made them, as far as they   *)
(* bear a mark.  Every request to the others is a translation of it, and  *)
(* the reply is translated back.                                          *)
(*                                                                        *)
(* A text is a number.  The loop of the Anthropic provider is here only   *)
(* as far as it writes the conversation; TurnLoop has the whole of it.    *)
(***************************************************************************)
EXTENDS Serving, Sequences, FiniteSets, SequencesExt

CONSTANT MaxAPICallsPerTurn

ASSUME ProvidersAssumption ==
  /\ ServedModels \subseteq Names /\ Resolve \in [Names -> ServedModels]
  /\ \A m \in ServedModels : Resolve[m] = m
  /\ ProviderOf \in [ServedModels -> {"anthropic", "openai", "openrouter"}]
  /\ MaxAPICallsPerTurn \in Nat \ {0}
  /\ \A c \in Scenarios :
       /\ c.start \in ServedModels /\ c.chosen \subseteq Names /\ c.fallbacks \subseteq ServedModels
       /\ c.settings \in Nat /\ c.turns \in Nat /\ c.changes \in Nat
       /\ c.subscription \in BOOLEAN
       /\ c.marks \subseteq {"call", "plain", "none"}
       /\ c.most \in Nat
       /\ c.faults \subseteq {"silent", "stop", "cut", "hook", "image", "cancel", "arguments",
                              "fail", "race"}

VARIABLES
  settings,            \* how often the user chose
  token,               \* the subscription's
  selected,            \* the name the turn read
  messages,            \* the conversation
  reply,               \* what has arrived of a reply: text, calls, and how it finished
  calls, next,         \* calls of the provider in this turn, and a fresh number
  said                 \* the texts of the conversation, in order

turnVars == <<stage, selected, sentAs, messages, reply, turns, calls, next, said>>
setVars == <<name, explicit, chosen, settings, raced, modelClient>>
credentialVars == <<keys, token, changes>>
vars == <<scenario, setVars, credentialVars, turnVars>>

C == INSTANCE Conversation
       WITH KeepRecentTurns <- 0, ToolResultKeepFull <- 0, ToolResultDrop <- 0,
            ToolCallKeepFull <- 0, TriggerMessages <- 0, SummaryTurns <- 0

IsOpenAI == modelClient.kind # "anthropic"

-----------------------------------------------------------------------------
(* Ids of calls *)

Id(mark, n) == [mark |-> mark, n |-> n]

\* An id is made legal: dots and colons go, the mark stays, and an empty id
\* becomes tool_0, whichever call it was.
Sanitize(raw) == IF raw.mark = "none" THEN Id("call", 0) ELSE raw

isAnthropicToolID(id) == id.mark = "toolu"
isOpenAIToolID(id) == id.mark = "call"

-----------------------------------------------------------------------------
(* Translations *)

Kept(blocks, drop(_)) == SelectSeq(blocks, LAMBDA b : b.kind = "text" \/ ~drop(b.id))

\* Mutation of FilterMessagesForAnthropic: a message that loses a block is lost.
FilterMessagesThatShrink(ms) ==
  SelectSeq(ms, LAMBDA m : Kept(m.blocks, isOpenAIToolID) = m.blocks)

\* Calls of OpenAI's providers and their results are taken out for Anthropic,
\* and the messages that are left with nothing.
FilterMessagesForAnthropic(ms) ==
  LET filtered(m) == [m EXCEPT !.blocks = Kept(@, isOpenAIToolID)]
      emptied(m) == filtered(m).blocks = <<>> /\ m.blocks # <<>>
      kept == SelectSeq(ms, LAMBDA m : ~emptied(m))
  IN [i \in DOMAIN kept |-> filtered(kept[i])]

Item(role, texts, uses, answers) ==
  [role |-> role, texts |-> texts, calls |-> uses, answers |-> answers, image |-> FALSE]

TextsOf(blocks) ==
  LET texts == SelectSeq(blocks, LAMBDA b : b.kind = "text") IN [i \in DOMAIN texts |-> texts[i].id]
Foreign(blocks, kind) ==
  SelectSeq(blocks, LAMBDA b : b.kind = kind /\ ~isAnthropicToolID(b.id))

\* A message for a provider that is not Anthropic: its calls are left out.  Of
\* a user's message the text comes first, wherever it stood, then the results.
ItemsOf(m) ==
  LET uses == Foreign(m.blocks, "use")
      results == Foreign(m.blocks, "result")
  IN IF C!Is(m, "assistant")
     THEN <<Item("assistant", TextsOf(m.blocks), [i \in DOMAIN uses |-> uses[i].id], Id("none", 0))>>
     ELSE (IF TextsOf(m.blocks) = <<>> THEN <<>>
           ELSE <<Item("user", TextsOf(m.blocks), <<>>, Id("none", 0))>>)
          \o [i \in DOMAIN results |->
                [Item("tool", <<>>, <<>>, results[i].id) EXCEPT !.image = results[i].says = "full"]]

\* Mutation of ConvertAnthropicMessagesToOpenAI: the results of Anthropic's
\* calls stay, without the calls.
ConvertKeepingResults(ms) ==
  LET items(m) ==
        IF C!Is(m, "assistant") THEN ItemsOf(m)
        ELSE [i \in DOMAIN m.blocks |->
                IF m.blocks[i].kind = "text" THEN Item("user", <<m.blocks[i].id>>, <<>>, Id("none", 0))
                ELSE Item("tool", <<>>, <<>>, m.blocks[i].id)]
  IN FlattenSeq([i \in DOMAIN ms |-> items(ms[i])])

ConvertAnthropicMessagesToOpenAI(ms) == FlattenSeq([i \in DOMAIN ms |-> ItemsOf(ms[i])])

\* Chat completions take no image in a tool message: those of a run of tool
\* messages follow it in a message of the user.
WithToolImages(items) ==
  LET pictured(i) == items[i].role = "tool" /\ items[i].image
      ends(i) == items[i].role = "tool" /\ (i = Len(items) \/ items[i + 1].role # "tool")
      run(i) == {j \in 1 .. i : \A k \in j .. i : items[k].role = "tool"}
  IN FlattenSeq([i \in DOMAIN items |->
       IF ends(i) /\ \E j \in run(i) : pictured(j)
       THEN <<items[i], Item("user", <<>>, <<>>, Id("none", 0))>>
       ELSE <<items[i]>>])

\* The Responses endpoint takes a message's text and each of its calls as an
\* item of its own, and an assistant without text is only its calls.
ResponsesInput(items) ==
  LET parts(e) ==
        IF e.role # "assistant" THEN <<e>>
        ELSE (IF e.texts = <<>> THEN <<>> ELSE <<[e EXCEPT !.calls = <<>>]>>)
             \o [i \in DOMAIN e.calls |-> Item("assistant", <<>>, <<e.calls[i]>>, Id("none", 0))]
  IN FlattenSeq([i \in DOMAIN items |-> parts(items[i])])

\* What the client sends.
Request ==
  LET items == ConvertAnthropicMessagesToOpenAI(messages)
  IN IF modelClient.kind = "chat" THEN WithToolImages(items) ELSE ResponsesInput(items)

-----------------------------------------------------------------------------
(* Who serves a turn *)

\* The user chooses a model.  A turn that is running has read the name already.
SetModel ==
  /\ settings < scenario.settings
  /\ stage = "idle" \/ "race" \in scenario.faults
  /\ \E m \in scenario.chosen : name' = m /\ chosen' = m
  /\ explicit' = TRUE /\ settings' = settings + 1
  /\ raced' = IF stage = "idle" THEN 0 ELSE turns
  /\ UNCHANGED <<scenario, modelClient, credentialVars, turnVars>>

\* aiauth's profiles and the subscription's file change under the process.
CredentialsChange ==
  /\ changes < scenario.changes
  /\ changes' = changes + 1
  /\ \/ /\ \E p \in {"anthropic", "openai", "openrouter"} :
             keys' = IF p \in keys THEN keys \ {p} ELSE keys \cup {p}
        /\ UNCHANGED token
     \/ /\ scenario.subscription
        /\ token' \in {"valid", "expired", "unreadable"} \ {token}
        /\ UNCHANGED keys
  /\ UNCHANGED <<scenario, setVars, turnVars>>

Move(from, to) == stage = from /\ stage' = to

\* prepareInput: the text joins a trailing user message, and calls that were
\* never answered are.
PrepareInput ==
  /\ Move("idle", "selecting")
  /\ turns < scenario.turns
  /\ turns' = turns + 1 /\ next' = next + 1 /\ calls' = 0
  /\ messages' = C!RepairDanglingToolUse(C!AppendInput(messages, C!Text("input", next)))
  /\ said' = Append(said, next)
  /\ UNCHANGED <<scenario, setVars, credentialVars, selected, sentAs, reply>>

\* Mutation of SelectModel: a name that was chosen is passed over as well.
SelectAnyModel ==
  /\ Move("selecting", "resolving")
  /\ selected' \in {name} \cup scenario.fallbacks
  /\ UNCHANGED <<scenario, setVars, credentialVars, sentAs, messages, reply, turns, calls, next, said>>

\* selectModel: a name that was not chosen may be passed over for a model of
\* the chain; whose health says so is the host's, and any of them may be.
SelectModel ==
  /\ Move("selecting", "resolving")
  /\ selected' \in {name} \cup IF explicit THEN {} ELSE scenario.fallbacks
  /\ UNCHANGED <<scenario, setVars, credentialVars, sentAs, messages, reply, turns, calls, next, said>>

\* Mutation of ResolveModelClient: a turn whose client could not be built keeps
\* the name that was selected.
ResolveRelabelling ==
  /\ Move("resolving", "starting")
  /\ IF modelClient.model # selected /\ CanBuild(Resolve[selected])
     THEN modelClient' = Client(KindOf(Resolve[selected]), Resolve[selected])
     ELSE UNCHANGED modelClient
  /\ name' = selected
  /\ UNCHANGED <<scenario, explicit, chosen, settings, raced, credentialVars, selected, sentAs,
                 messages, reply, turns, calls, next, said>>

\* resolveModelClient: the client is the one of the name, or a new one, or,
\* when that one cannot be built, the old one, and then the turn goes by the
\* name of its model.
ResolveModelClient ==
  /\ Move("resolving", "starting")
  /\ IF modelClient.model = selected
     THEN name' = selected /\ UNCHANGED modelClient
     ELSE IF CanBuild(Resolve[selected])
     THEN /\ modelClient' = Client(KindOf(Resolve[selected]), Resolve[selected])
          /\ name' = selected
     ELSE name' = modelClient.model /\ UNCHANGED modelClient
  /\ UNCHANGED <<scenario, explicit, chosen, settings, raced, credentialVars, selected, sentAs,
                 messages, reply, turns, calls, next, said>>

\* executeAgent: Agent.Run is handed the name read a second time, the loop for
\* the others uses the name of the client.
Route ==
  /\ Move("starting", "calling")
  /\ IF IsOpenAI
     THEN sentAs' = modelClient.model /\ UNCHANGED messages
     ELSE /\ sentAs' = name
          /\ messages' = FilterMessagesForAnthropic(messages)
  /\ UNCHANGED <<scenario, setVars, credentialVars, selected, reply, turns, calls, next, said>>

-----------------------------------------------------------------------------
(* A call of the provider *)

Nothing == [text |-> FALSE, calls |-> <<>>, readable |-> TRUE, finish |-> "none"]

turnRest == <<scenario, setVars, credentialVars, selected, sentAs, turns, next, said>>

\* The head of the loop: the turn was cancelled, has had its calls, or calls.
StopTurn ==
  /\ Move("calling", "idle")
  /\ calls >= MaxAPICallsPerTurn \/ "cancel" \in scenario.faults
  /\ UNCHANGED <<turnRest, messages, reply, calls>>

\* The subscription's token is read for every call, and one that is past its
\* time is not sent.
Call ==
  /\ calls < MaxAPICallsPerTurn
  /\ IF modelClient.kind = "subscription" /\ token # "valid"
     THEN Move("calling", "idle")
     ELSE Move("calling", "asked")
  /\ calls' = calls + 1
  /\ reply' = Nothing
  /\ UNCHANGED <<turnRest, messages>>

\* The call fails: the request, the stream, an error event in it, or a stream
\* that ends before its response did.  What had arrived is dropped.
CallFails ==
  /\ "fail" \in scenario.faults
  /\ Move("asked", "idle")
  /\ UNCHANGED <<turnRest, messages, reply, calls>>

\* A piece of the reply arrives: its text, or a call.
OutputItem ==
  /\ stage = "asked" /\ reply.finish = "none"
  /\ \/ /\ ~reply.text
        /\ reply' = [reply EXCEPT !.text = TRUE]
        /\ UNCHANGED next
     \/ /\ Len(reply.calls) < scenario.most
        /\ \E mark \in IF IsOpenAI THEN scenario.marks ELSE {"toolu"} :
           \E readable \in BOOLEAN :
             /\ ~readable => "arguments" \in scenario.faults
             /\ reply' = [reply EXCEPT !.calls = Append(@, Id(mark, next)),
                                       !.readable = @ /\ readable]
        /\ next' = next + 1
  /\ UNCHANGED <<scenario, setVars, credentialVars, stage, selected, sentAs, messages, turns, calls, said>>

\* It ends, and why.  The Responses endpoint says whether it was cut short, and
\* its other replies have a reason made for them; the others name a reason,
\* which need not be the one the reply looks like.
OutputEnds ==
  /\ stage = "asked" /\ reply.finish = "none"
  /\ reply.text \/ reply.calls # <<>> \/ "silent" \in scenario.faults
  /\ \E why \in {"stop", "length", "tool_calls"} :
       /\ why = "length" => "cut" \in scenario.faults
       /\ (why # "length" /\ (modelClient.kind # "chat" \/ "stop" \notin scenario.faults)) =>
             (why = "tool_calls" <=> reply.calls # <<>>)
       /\ reply' = [reply EXCEPT !.finish = why]
  /\ UNCHANGED <<turnRest, stage, messages, calls>>

\* The reply is translated and joins the conversation: its text, then its
\* calls.  A call whose arguments cannot be read fails the turn, and the reply
\* is nowhere.  A turn goes on only for a reply that says it made calls.
ConvertReply ==
  /\ stage = "asked" /\ reply.finish # "none"
  /\ LET texts == IF reply.text THEN <<next>> ELSE <<>>
         spoken == [i \in DOMAIN texts |-> C!Text("answer", texts[i])]
         uses == [i \in DOMAIN reply.calls |-> C!Use(Sanitize(reply.calls[i]), "shell")]
     IN IF ~reply.readable /\ IsOpenAI
        THEN stage' = "idle" /\ UNCHANGED <<messages, said>>
        ELSE /\ messages' = Append(messages, C!Assistant(spoken \o uses))
             /\ said' = said \o texts
             /\ stage' = IF reply.finish = "tool_calls" THEN "dispatching" ELSE "idle"
  /\ next' = next + 1
  /\ UNCHANGED <<scenario, setVars, credentialVars, selected, sentAs, reply, turns, calls>>

\* Every call is run in turn; what they return is one message, with what the
\* hooks after a write have to say at its end.  An image is a result in full.
DispatchTools ==
  /\ Move("dispatching", "calling")
  /\ LET uses == SelectSeq(Last(messages).blocks, LAMBDA b : b.kind = "use")
     IN \E hooked, pictured \in BOOLEAN :
          /\ hooked => "hook" \in scenario.faults /\ uses # <<>>
          /\ pictured => "image" \in scenario.faults /\ uses # <<>>
          /\ LET results == [i \in DOMAIN uses |->
                               C!Result(uses[i].id, IF pictured /\ i = 1 THEN "full" ELSE "said", FALSE)]
                 hook == IF hooked THEN <<C!Text("hook", next)>> ELSE <<>>
             IN messages' = Append(messages, C!User(results \o hook))
          /\ said' = IF hooked THEN Append(said, next) ELSE said
  /\ next' = next + 1
  /\ UNCHANGED <<scenario, setVars, credentialVars, selected, sentAs, reply, turns, calls>>

-----------------------------------------------------------------------------
(* Specification *)

Init ==
  /\ scenario \in Scenarios
  /\ name = scenario.start /\ chosen = name
  /\ explicit = FALSE /\ settings = 0 /\ raced = 0
  /\ modelClient = Client(KindOf(name), name)
  /\ keys = {"anthropic", "openai", "openrouter"} /\ token = "valid" /\ changes = 0
  /\ stage = "idle" /\ selected = name /\ sentAs = name
  /\ messages = <<>> /\ said = <<>> /\ reply = Nothing
  /\ turns = 0 /\ calls = 0 /\ next = 1

Next ==
  \/ SetModel \/ CredentialsChange
  \/ PrepareInput \/ SelectModel \/ ResolveModelClient \/ Route
  \/ StopTurn \/ Call \/ CallFails \/ OutputItem \/ OutputEnds \/ ConvertReply
  \/ DispatchTools

Spec == Init /\ [][Next]_vars

-----------------------------------------------------------------------------
(* Properties *)

Texts(ms) == FlattenSeq([i \in DOMAIN ms |-> TextsOf(ms[i].blocks)])
ItemTexts(items) == FlattenSeq([i \in DOMAIN items |-> items[i].texts])

\* Neighbours of one role are one message to Anthropic.
Joined(ms) ==
  FoldLeft(LAMBDA joined, m :
             IF joined # <<>> /\ C!Is(Last(joined), m.role)
             THEN C!AppendToLast(joined, m.blocks) ELSE Append(joined, m),
           <<>>, ms)

\* No provider is asked to speak for itself: a reply that says nothing, or says
\* it made calls and made none, leaves an empty message nothing takes out.
AnthropicAccepts(ms) ==
  /\ C!WellFormed(Joined(ms))
  /\ \/ \E m \in ToSet(ms) : m.blocks = <<>> /\ {"silent", "stop"} \cap scenario.faults # {}
     \/ \A m \in ToSet(ms) : m.blocks # <<>>

Times(id, seq) == Cardinality({i \in DOMAIN seq : seq[i] = id})

\* Chat completions want the answers to the calls of a message right behind it.
ChatAccepts(items) ==
  \A i \in DOMAIN items :
    LET run == {j \in i + 1 .. Len(items) : \A k \in i + 1 .. j : items[k].role = "tool"}
        answers == [n \in 1 .. Cardinality(run) |-> items[i + n].answers]
    IN /\ items[i].role = "assistant" =>
            \A id \in ToSet(items[i].calls) \cup ToSet(answers) :
              Times(id, items[i].calls) = Times(id, answers)
       /\ items[i].role = "user" => run = {}

\* The Responses endpoint wants each answer behind its call, and one for each.
ResponsesAccept(items) ==
  LET called(id, n) == {i \in 1 .. n : id \in ToSet(items[i].calls)}
      answered(id, n) == {i \in 1 .. n : items[i].role = "tool" /\ items[i].answers = id}
      ids == UNION {ToSet(items[i].calls) : i \in DOMAIN items}
  IN /\ \A i \in DOMAIN items : items[i].role = "tool" =>
          Cardinality(answered(items[i].answers, i)) <= Cardinality(called(items[i].answers, i))
     /\ \A id \in ids :
          Cardinality(answered(id, Len(items))) = Cardinality(called(id, Len(items)))

\* Results in one message with text: what a turn that was stopped or cut leaves
\* when the user writes again, and what a hook after a write makes.
Mixed(ms) ==
  \E m \in ToSet(ms) : C!Is(m, "user") /\ TextsOf(m.blocks) # <<>> /\ Foreign(m.blocks, "result") # <<>>

\* Whoever served the turns before, a request answers every call it shows and
\* shows every call it answers, where its provider looks for them.  Chat
\* completions get the text of a mixed message between a call and its answer,
\* which they refuse: the translation puts text first (agent/openai_conversion.go
\* ConvertAnthropicMessagesToOpenAI, FilterMessagesForAnthropic;
\* agent/codex_subscription.go responsesRequestFromChatCompletion).
RequestsPairUp ==
  stage = "asked" =>
    CASE modelClient.kind = "anthropic" -> AnthropicAccepts(messages)
      [] modelClient.kind = "chat" -> Mixed(messages) \/ ChatAccepts(Request)
      [] OTHER -> ResponsesAccept(Request)

\* Everything that was said is in every later request, once and in order: no
\* switch of provider, repair or translation loses a text, and none keeps what
\* had arrived of a reply that failed (the same functions, and
\* engine/turn_openai.go runOpenAITurn).
RequestsHoldWhatWasSaid ==
  stage = "asked" =>
    said = IF IsOpenAI THEN ItemTexts(Request) ELSE Texts(messages)
=============================================================================
