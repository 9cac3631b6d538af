------------------------------ MODULE Serving ------------------------------
(***************************************************************************)
(* Who serves a turn, and under which name.                               *)
(*                                                                        *)
(* A session goes by the name of a model, set by its user or by failover; *)
(* each turn turns the name into a client.  This is the part of the state *)
(* the choice is made of and what a turn may expect of it; the steps are  *)
(* in Providers.                                                          *)
(***************************************************************************)
EXTENDS Naturals

CONSTANTS
  ServedModels, Names, \* the models, and the names they go by, their own included
  Resolve, ProviderOf, \* the model of a name (the model store's), its provider
  Scenarios            \* the cases explored, one of them per behaviour

VARIABLES
  scenario,            \* the case, chosen at the start
  name, explicit,      \* Engine.Model, and whether its user chose it
  chosen,              \* the last name the user chose
  raced,               \* the turn that was running when they last did, if one was
  modelClient,         \* Engine.modelClient
  keys,                \* the providers with a credential
  changes,             \* of keys and of the subscription's token, so far
  stage, sentAs,       \* where the turn stands; the name it asks for
  turns                \* turns so far

Client(kind, model) == [kind |-> kind, model |-> model]

\* What NewModelClient builds for a model: OpenAI's own models go through the
\* subscription when there is one and to the Responses endpoint when not.
KindOf(model) ==
  CASE ProviderOf[model] = "anthropic" -> "anthropic"
    [] ProviderOf[model] = "openai" -> IF scenario.subscription THEN "subscription" ELSE "responses"
    [] OTHER -> "chat"

\* It fails without a credential; the subscription's is not looked at before
\* a request is sent.
CanBuild(model) == KindOf(model) = "subscription" \/ ProviderOf[model] \in keys

\* The name a turn goes by, under which its cost and the health of its model
\* are recorded, the name it asks for, and the client it asks mean one model.
\* Not so in a turn in which the user chose another (engine/model_client.go
\* resolveModelClient; engine/turn_execute.go executeAgent).
TurnRunsOnItsLabel ==
  (stage \in {"calling", "asked", "dispatching"} /\ raced # turns) =>
    /\ Resolve[name] = modelClient.model /\ Resolve[sentAs] = modelClient.model
    /\ modelClient.kind = KindOf(modelClient.model)

\* A model its user chose stays chosen: no failover replaces it.  One chosen
\* while a turn was looking for its client is overwritten, and one whose
\* credential is missing gives way to the model that answers (engine/failover.go
\* selectModel; engine/turn_execute.go executeAgent).
ChoiceIsKept ==
  (explicit /\ raced = 0 /\ changes = 0) => name = chosen

\* The model a turn runs on is the one it is billed as and the one the user chose.
TurnRunsAsChosen == TurnRunsOnItsLabel /\ ChoiceIsKept
=============================================================================
