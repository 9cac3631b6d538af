---------------------------- MODULE MCProviders ----------------------------
(* Instance of Providers for TLC. *)
EXTENDS Providers, TLC

MCModels == {"opus", "haiku", "gpt", "kimi"}
MCNames == MCModels \cup {"fast"}
MCResolve == [n \in MCNames |-> IF n = "fast" THEN "haiku" ELSE n]
MCProviderOf == "opus" :> "anthropic" @@ "haiku" :> "anthropic" @@ "gpt" :> "openai" @@ "kimi" :> "openrouter"

Plain == [start |-> "opus", chosen |-> {}, fallbacks |-> {}, settings |-> 0, turns |-> 2, changes |-> 0,
          subscription |-> FALSE, marks |-> {"call"}, most |-> 1, faults |-> {}]

\* The user goes from one provider to the next, with everything that can
\* happen to a reply; then aliases, a chain of fallbacks, and credentials.
MCScenarios ==
  { [Plain EXCEPT !.chosen = {"opus", "kimi"}, !.settings = 2, !.turns = 3, !.marks = {"call", "plain"}],
    [Plain EXCEPT !.chosen = {"opus", "gpt"}, !.settings = 2, !.turns = 3, !.faults = {"hook"}],
    [Plain EXCEPT !.start = "kimi", !.chosen = {"gpt", "opus"}, !.settings = 1, !.most = 2, !.marks = {"call", "none"}],
    [Plain EXCEPT !.start = "kimi", !.chosen = {"gpt"}, !.settings = 1, !.most = 2, !.faults = {"image"}],
    [Plain EXCEPT !.start = "kimi", !.chosen = {"opus"}, !.settings = 1,
       !.faults = {"stop", "silent", "cancel", "fail", "arguments", "cut", "hook"}],
    [Plain EXCEPT !.start = "gpt", !.subscription = TRUE, !.changes = 2, !.settings = 1, !.chosen = {"opus"},
       !.faults = {"fail", "arguments", "cancel"}],
    [Plain EXCEPT !.chosen = {"fast", "kimi"}, !.fallbacks = {"haiku", "gpt"},
       !.settings = 2, !.turns = 3, !.most = 0, !.faults = {"race"}],
    [Plain EXCEPT !.chosen = {"kimi"}, !.fallbacks = {"haiku", "kimi"},
       !.settings = 1, !.changes = 2, !.turns = 3, !.most = 0, !.faults = {"fail"}] }
=============================================================================
