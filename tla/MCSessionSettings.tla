------------------------- MODULE MCSessionSettings -------------------------
(* Instance of SessionSettings for TLC: a session, a child and a child of that *)
(* one, of an agent and of a helper that has projects and a cap of its own.   *)
EXTENDS SessionSettings, TLC

CONSTANTS a, b, c, d, root, child, grand, main, helper

MCJobs == {a, b, c, d}
MCKeys == {root, child, grand}
MCAgents == {main, helper}
MCAbove == root :> None @@ child :> root @@ grand :> child
MCModels == {"sonnet", "haiku", "opus"}
MCPrompts == {"none", "host", "new"}
MCOwnModel == main :> "sonnet" @@ helper :> "haiku"
MCOwnCap == main :> 0 @@ helper :> 3
MCProjects == {helper}
MCOwnTools == main :> {} @@ helper :> {"read"}

\* One request, what it says, and what it says it with.
To(kind, key, says) == [kind |-> kind, key |-> key, says |-> says, agent |-> None, prompt |-> "host",
                        model |-> "opus", off |-> {"shell"}, cap |-> 5]
Nothing == To("none", root, {})
Of(ask, agent) == [ask EXCEPT !.agent = agent]
With(ask, prompt, model, off) == [ask EXCEPT !.prompt = prompt, !.model = model, !.off = off]

Known(agent, prompt, model) == [NoRow EXCEPT !.known = TRUE, !.agent = agent, !.prompt = prompt, !.model = model]
NoRows == [k \in MCKeys |-> NoRow]
Case(w, x, y, z, rows, fs) ==
  [asks |-> a :> w @@ b :> x @@ c :> y @@ d :> z, rows |-> rows, faults |-> fs, named |-> main]

RootChosen == [NoRows EXCEPT ![root] = Known(main, "host", "opus")]
OldRows == [RootChosen EXCEPT ![child] = [known |-> TRUE, agent |-> main]]

MCSituations ==
  { \* created, run, resumed and configured
    Case(Of(To("create", root, {"prompt", "model"}), main), To("run", root, {}),
         With(To("resume", root, {"prompt", "model"}), "new", "sonnet", {}),
         To("config", root, {"model", "off", "cap"}), NoRows, {"reap"}),
    \* runs that say everything beside configs that give the tools back
    Case(To("run", root, {"model", "cap"}), To("config", root, {"off"}),
         To("run", root, {"fresh"}), With(To("config", root, {"off"}), "host", "opus", {}), NoRows, {"crash"}),
    \* a fork over HTTP, resumed and run
    Case(To("run", root, {}), To("fork", child, {}), To("resume", child, {"prompt"}), To("run", child, {}),
         RootChosen, {"crash", "reap"}),
    \* a spawn that works in a worktree
    Case(To("resume", root, {}), Of(To("spawn", child, {"model"}), helper), To("resume", child, {}),
         To("run", child, {}), RootChosen, {"crash", "tree", "forge"}),
    \* a spawn that forks, then a spawn of the same agent below it
    Case(To("run", root, {}), To("spawnfork", child, {}), To("resume", child, {}),
         To("spawn", grand, {}), RootChosen, {"crash"}),
    \* a child from before the lineage was recorded, and one below it
    Case(To("resume", child, {"model"}), To("spawn", grand, {}), To("resume", grand, {}), To("run", grand, {}),
         OldRows, {"crash", "engine"}),
    \* a run that names another agent, and resumes that cross
    Case(Of(To("run", root, {}), helper), To("run", root, {}), To("resume", root, {"model"}),
         With(To("resume", root, {"model"}), "host", "sonnet", {}), NoRows, {"reap"}),
    \* a resume of a key nobody has heard of, which its name says the agent of
    Case(To("resume", root, {}), To("run", root, {}), Of(To("run", root, {}), helper), Nothing,
         NoRows, {"crash", "reap"}),
    \* a resume whose own build may fail beside a run's
    Case(To("run", root, {}), With(To("resume", root, {"prompt", "model"}), "new", "sonnet", {}),
         To("run", root, {"cap"}), Nothing, RootChosen, {"engine", "reap"}),
    \* a fork that is resumed and closed while it is recorded
    Case(To("run", root, {}), To("fork", child, {}), With(To("resume", child, {"prompt"}), "new", "opus", {}),
         To("run", child, {}), RootChosen, {"reap", "engine"}) }
=============================================================================
