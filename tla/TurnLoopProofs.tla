---------------------------- MODULE TurnLoopProofs ----------------------------
(***************************************************************************)
(* Theorems about TurnLoop, for any models and situations, any thresholds  *)
(* of the conversation, any cap, and any number of turns; and about        *)
(* Providers, whose loop is the same one seen from the client it calls.    *)
(*                                                                         *)
(* Its first part is about the file, the health table and the operators of *)
(* Conversation: what flattening does, which operations leave a            *)
(* conversation as it is but for what its blocks say, and what appending,  *)
(* repairing, cutting and summarizing leave of it.  The invariant LoopInv  *)
(* stands on these, and the theorems about requests, breakpoints, the      *)
(* frozen prefix and what a turn leaves behind stand on it.                *)
(***************************************************************************)
EXTENDS TurnLoop, Serving, FiniteSetTheorems, WellFoundedInduction, TLAPS

USE DEF Move

\* The steps that run a call.
RunsACall ==
  \/ \E touched \in BOOLEAN : ToolFails(touched)
  \/ \E touched, chainWorks \in BOOLEAN : ToolWorks(touched, chainWorks)

-----------------------------------------------------------------------------
(* The file the tools work on.                                             *)

\* Nothing else touches the file, and the read cache is kept or forgotten.
LEMMA OnlyCallsTouchTheFile ==
  ASSUME [Next]_vars, ~RunsACall
  PROVE  UNCHANGED <<situation, version>> /\ cache' \in {cache, 0}
<1> USE DEF agent, bounds, vars
<1>1. CASE UNCHANGED vars  BY <1>1
<1>2. ASSUME NEW summarized, NEW emergency,
             PrepareInput(summarized, emergency) \/ CompactContext(summarized, emergency)
      PROVE  UNCHANGED <<situation, version, cache>>
  BY <1>2 DEF PrepareInput, CompactContext
<1>3. CASE RestoreSession \/ BuildTurnContext \/ ContextFails
  BY <1>3 DEF RestoreSession, BuildTurnContext, ContextFails
<1>4. ASSUME NEW old, StartAgent(old) PROVE UNCHANGED <<situation, version, cache>>
  BY <1>4 DEF StartAgent
<1>5. ASSUME NEW err, Return(err) PROVE UNCHANGED <<situation, version>> /\ cache' = 0
  BY <1>5 DEF Return
<1>6. CASE StopForCanceledTurn \/ StopForAPICallCap
  BY <1>5, <1>6 DEF StopForCanceledTurn, StopForAPICallCap
<1>7. ASSUME NEW heavy, NEW adopted, NextCall(heavy, adopted)
      PROVE  UNCHANGED <<situation, version, cache>>
  BY <1>7 DEF NextCall
<1>8. ASSUME NEW stop, NEW reply, Answer(stop, reply)
      PROVE  UNCHANGED <<situation, version>> /\ cache' \in {cache, 0}
  BY <1>5, <1>8 DEF Answer
<1>9. ASSUME NEW err, NEW text, CallFails(err, text)
      PROVE  UNCHANGED <<situation, version>> /\ cache' \in {cache, 0}
  BY <1>5, <1>9 DEF CallFails
<1>10. ASSUME NEW heavy, RetryPruned(heavy) PROVE UNCHANGED <<situation, version, cache>>
  BY <1>10 DEF RetryPruned
<1>11. CASE CallNotRun \/ SendResults \/ InjectMessage \/ Cancel
  BY <1>11 DEF CallNotRun, Answered, SendResults, InjectMessage, Cancel
<1> QED BY <1>1, <1>2, <1>3, <1>4, <1>6, <1>7, <1>8, <1>9, <1>10, <1>11 DEF Next, RunsACall

\* A read cache that vouches for the file vouches for what is on disk, through
\* failed writers, chained calls and answers of the cache itself.
THEOREM CacheSafe == Spec => []ReadCacheNeverStale
<1>1. Init => ReadCacheNeverStale  BY DEF Init, ReadCacheNeverStale
<1>2. ReadCacheNeverStale /\ [Next]_vars => ReadCacheNeverStale'
  <2> SUFFICES ASSUME ReadCacheNeverStale, [Next]_vars PROVE ReadCacheNeverStale'  OBVIOUS
  <2> USE DEF ReadCacheNeverStale
  <2>1. CASE ~RunsACall  BY <2>1, OnlyCallsTouchTheFile
  <2>2. ASSUME NEW touched, ToolFails(touched) PROVE ReadCacheNeverStale'
    <3>1. PICK tool : /\ Known(tool) /\ ~Cached(tool)
                      /\ version' = Bumped(version, tool, touched)
                      /\ cache' = Remembered(cache, version, tool, FALSE)
      BY <2>2 DEF ToolFails
    <3> QED BY <3>1 DEF Bumped, Remembered, MayWrite
  <2>3. ASSUME NEW touched, NEW chainWorks, ToolWorks(touched, chainWorks)
        PROVE  ReadCacheNeverStale'
    <3> DEFINE c == Head(todo)
               first == IF Cached(c.tool) THEN version ELSE Bumped(version, c.tool, touched)
               kept == IF Cached(c.tool) THEN cache ELSE Remembered(cache, first, c.tool, TRUE)
               second == Bumped(first, ExtractChain(c), touched)
    <3>1. /\ version' = IF ChainRuns(c) THEN second ELSE first
          /\ cache' = IF ChainRuns(c) THEN Remembered(kept, second, ExtractChain(c), chainWorks) ELSE kept
      BY <2>3 DEF ToolWorks
    <3>2. kept # 0 => kept = first  BY DEF Bumped, Remembered, MayWrite
    <3> HIDE DEF c, first, kept
    <3> QED BY <3>1, <3>2 DEF Bumped, Remembered, MayWrite
  <2> QED BY <2>1, <2>2, <2>3 DEF RunsACall
<1> QED BY <1>1, <1>2, PTL DEF Spec

\* In observe mode the file stays as it was: the guard is asked about a call
\* and about what is chained to it.
THEOREM ObserveSafe == Spec => []ObserveChangesNothing
<1>1. Init => ObserveChangesNothing  BY DEF Init, ObserveChangesNothing
<1>2. ObserveChangesNothing /\ [Next]_vars => ObserveChangesNothing'
  <2> SUFFICES ASSUME ObserveChangesNothing, [Next]_vars,
                      situation'.mode = "observe"
               PROVE  version' = 1
    BY DEF ObserveChangesNothing
  <2>1. CASE ~RunsACall  BY <2>1, OnlyCallsTouchTheFile DEF ObserveChangesNothing
  <2>2. ASSUME RunsACall PROVE situation' = situation
    BY <2>2 DEF RunsACall, ToolFails, ToolWorks, Answered, bounds
  <2>3. ASSUME situation' = situation, NEW tool, Allowed(tool), NEW v, NEW touched
        PROVE  Bumped(v, tool, touched) = v
    BY <2>3 DEF Allowed, Bumped, MayWrite, WritesNamedPaths, InvalidatesEverything, Readers, Writers
  <2>4. ASSUME NEW touched, ToolFails(touched) PROVE version' = 1
    <3>1. situation' = situation /\ version = 1  BY <2>2, <2>4 DEF RunsACall, ToolFails, Answered, bounds, ObserveChangesNothing
    <3> QED BY <2>3, <2>4, <3>1 DEF ToolFails
  <2>5. ASSUME NEW touched, NEW chainWorks, ToolWorks(touched, chainWorks) PROVE version' = 1
    <3>1. situation' = situation /\ version = 1
      BY <2>5 DEF ToolWorks, Answered, bounds, ObserveChangesNothing
    <3> DEFINE c == Head(todo)
               first == IF Cached(c.tool) THEN version ELSE Bumped(version, c.tool, touched)
               second == Bumped(first, ExtractChain(c), touched)
    <3>2. Allowed(c.tool) /\ version' = IF ChainRuns(c) THEN second ELSE first
      BY <2>5 DEF ToolWorks
    <3>3. first = version  BY <2>3, <3>1, <3>2
    <3>4. ChainRuns(c) => second = first  BY <2>3, <3>1 DEF ChainRuns
    <3> QED BY <3>1, <3>2, <3>3, <3>4
  <2> QED BY <2>1, <2>4, <2>5 DEF RunsACall
<1> QED BY <1>1, <1>2, PTL DEF Spec

-----------------------------------------------------------------------------
(* The health of the models.                                               *)

\* The engine runs on its own client or on one for the model it names, so an
\* outcome is recorded against the model that was called.
ServedInv ==
  /\ model \in Models /\ client \in {None, model}
  /\ health \in [Models -> {"unknown", "ok", "bad"}]

\* Where no outcome is recorded, no evidence is lost.
LEMMA SameEvidence ==
  ASSUME HealthNeedsEvidence, health' = health, answered \subseteq answered', failed \subseteq failed'
  PROVE  HealthNeedsEvidence'
  BY DEF HealthNeedsEvidence

\* An outcome is recorded with its evidence, or leaves the table alone.
LEMMA RecordingKeepsHealth ==
  ASSUME ServedInv, HealthNeedsEvidence, NEW err, Return(err),
         answered \subseteq answered', failed \subseteq failed',
         situation.store /\ err = "none" => model \in answered',
         situation.store /\ err \in {"provider", "unexpected"} => model \in failed',
         err \in {"none", "provider", "unexpected", "canceled", "cap", "unconvertible", "bytes"}
  PROVE  ServedInv' /\ HealthNeedsEvidence'
<1>1. UNCHANGED <<model, client>> /\ RecordModelHealth(err)  BY DEF Return
<1>2. \/ health' = health
      \/ situation.store /\ err = "none" /\ health' = [health EXCEPT ![model] = "ok"]
      \/ /\ situation.store /\ err \in {"provider", "unexpected"}
         /\ health' = [health EXCEPT ![model] = "bad"]
  BY <1>1 DEF RecordModelHealth, errorIsEvidenceAboutTheModel, IsRequestByteSizeLimitError
<1>3. ServedInv'  BY <1>1, <1>2 DEF ServedInv
<1>4. ASSUME NEW m \in Models
      PROVE  (health'[m] = "bad" => m \in failed') /\ (health'[m] = "ok" => m \in answered')
  BY <1>2 DEF ServedInv, HealthNeedsEvidence
<1> QED BY <1>3, <1>4 DEF HealthNeedsEvidence

\* The model whose client is resolved is the one the turn is accounted to.
LEMMA StartingServes ==
  ASSUME ServedInv, NEW old, StartAgent(old)
  PROVE  ServedInv'
<1>1. PICK selected \in SelectModel(old) :
        /\ model' = ResolveModelClient(selected)
        /\ client' = IF selected \in situation.credentials THEN selected ELSE client
  BY DEF StartAgent
<1>2. selected \in Models  BY DEF SelectModel, ServedInv
<1>3. health' = health  BY DEF StartAgent
<1> QED BY <1>1, <1>2, <1>3, TurnLoopAssumption DEF ResolveModelClient, ServedInv

\* The health table says of no model what its own provider did not show.
THEOREM HealthSafe == Spec => []HealthNeedsEvidence
<1>1. Init => ServedInv /\ HealthNeedsEvidence
  BY TurnLoopAssumption DEF Init, ServedInv, HealthNeedsEvidence
<1>2. ServedInv /\ HealthNeedsEvidence /\ [Next]_vars => (ServedInv /\ HealthNeedsEvidence)'
  <2> SUFFICES ASSUME ServedInv, HealthNeedsEvidence, [Next]_vars
               PROVE  ServedInv' /\ HealthNeedsEvidence'
    OBVIOUS
  <2>1. ASSUME UNCHANGED failover PROVE ServedInv' /\ HealthNeedsEvidence'
    BY <2>1, SameEvidence DEF failover, ServedInv
  <2>2. CASE UNCHANGED vars  BY <2>1, <2>2 DEF vars
  <2>3. ASSUME NEW summarized, NEW emergency,
               PrepareInput(summarized, emergency) \/ CompactContext(summarized, emergency)
        PROVE  UNCHANGED failover
    BY <2>3 DEF PrepareInput, CompactContext
  <2>4. CASE RestoreSession
    BY <2>4, SameEvidence, TurnLoopAssumption DEF RestoreSession, ServedInv
  <2>5. CASE BuildTurnContext \/ ContextFails
    BY <2>1, <2>5 DEF BuildTurnContext, ContextFails
  <2>6. ASSUME NEW old, StartAgent(old) PROVE ServedInv' /\ HealthNeedsEvidence'
    <3>1. UNCHANGED <<health, answered, failed>>  BY <2>6 DEF StartAgent
    <3> QED BY <2>6, <3>1, StartingServes, SameEvidence
  <2>7. CASE StopForCanceledTurn \/ StopForAPICallCap
    BY <2>7, RecordingKeepsHealth DEF StopForCanceledTurn, StopForAPICallCap
  <2>8. ASSUME NEW heavy, NEW adopted, NextCall(heavy, adopted) PROVE UNCHANGED failover
    BY <2>8 DEF NextCall
  <2>s. Serving = model  BY DEF Serving, ServedInv
  <2>h. ASSUME NEW models
        PROVE  models \subseteq Heard(models) /\ (situation.store => model \in Heard(models))
    BY <2>s DEF Heard
  <2>9. ASSUME NEW stop \in {"end_turn", "max_tokens", "tool_use", "other"}, NEW reply,
               Answer(stop, reply)
        PROVE  ServedInv' /\ HealthNeedsEvidence'
    <3>1. answered' = Heard(answered) /\ failed' = IF stop = "other" THEN Heard(failed) ELSE failed
      BY <2>9 DEF Answer
    <3>2. CASE stop = "tool_use"
      <4>1. UNCHANGED <<model, client, health>>  BY <2>9, <3>2 DEF Answer
      <4> QED BY <2>h, <3>1, <4>1, SameEvidence DEF ServedInv
    <3>3. CASE stop # "tool_use"
      <4>1. Return(IF stop = "other" THEN "unexpected" ELSE "none")  BY <2>9, <3>3 DEF Answer
      <4>2. CASE stop = "other"  BY <2>h, <3>1, <4>1, <4>2, RecordingKeepsHealth
      <4>3. CASE stop # "other"  BY <2>h, <3>1, <4>1, <4>3, RecordingKeepsHealth
      <4> QED BY <4>2, <4>3
    <3> QED BY <3>2, <3>3
  <2>10. ASSUME NEW err \in Errors, NEW text, CallFails(err, text)
         PROVE  ServedInv' /\ HealthNeedsEvidence'
    <3>1. /\ Return(err)
          /\ failed' = IF err = "provider" THEN Heard(failed) ELSE failed
          /\ answered' = IF err \in {"bytes", "unconvertible"} THEN Heard(answered) ELSE answered
      BY <2>10 DEF CallFails
    <3> QED BY <2>h, <3>1, RecordingKeepsHealth DEF Errors
  <2>11. ASSUME NEW heavy, RetryPruned(heavy) PROVE UNCHANGED failover
    BY <2>11 DEF RetryPruned
  <2>12. ASSUME \/ CallNotRun \/ SendResults \/ InjectMessage \/ Cancel
                \/ \E touched \in BOOLEAN : ToolFails(touched)
                \/ \E touched, chainWorks \in BOOLEAN : ToolWorks(touched, chainWorks)
         PROVE  UNCHANGED failover
    BY <2>12 DEF CallNotRun, ToolFails, ToolWorks, Answered, SendResults, InjectMessage, Cancel
  <2> QED BY <2>1, <2>2, <2>3, <2>4, <2>5, <2>6, <2>7, <2>8, <2>9, <2>10, <2>11, <2>12 DEF Next
<1> QED BY <1>1, <1>2, PTL DEF Spec

-----------------------------------------------------------------------------
(* Sequences of sequences, put in a row *)

\* What holds at 0 and of the next number whenever of a number is true of all.
LEMMA NatSetInduction ==
  ASSUME NEW S, 0 \in S, \A n \in Nat : n \in S => n + 1 \in S
  PROVE  \A n \in Nat : n \in S
<1> DEFINE T == Nat \ S
           R == OpToRel(<, Nat)
<1>1. \A x, y \in Nat : y < x => <<y, x>> \in R
  BY DEF OpToRel
<1>2. SUFFICES ASSUME T # {} PROVE FALSE  OBVIOUS
<1>3. IsWellFoundedOn(R, Nat)  BY NatLessThanWellFounded
<1> HIDE DEF R
<1>4. PICK x \in T : \A y \in T : <<y, x>> \notin R
  <2> HIDE DEF T
  <2>1. T \subseteq Nat BY DEF T
  <2> QED BY <1>2, <1>3, <2>1, WFMin
<1>5. x # 0 /\ x - 1 \in Nat /\ x - 1 < x  BY <1>4
<1>6. x - 1 \in S BY <1>1, <1>4, <1>5
<1>7. (x - 1) + 1 \in S BY <1>5, <1>6
<1> QED BY <1>4, <1>7

\* The equation flattening is defined by, with f[i] the first i parts in a row.
Flattens(f, ss) ==
  f = [i \in 1 .. Len(ss) |-> IF i = 1 THEN ss[i] ELSE f[i - 1] \o ss[i]]

\* The equation has a solution, and the solution for one part more goes on
\* from it.
LEMMA FlatteningExists ==
  ASSUME NEW T
  PROVE  \A n \in Nat : \A ss \in Seq(Seq(T)) : Len(ss) = n =>
           \E f \in [1 .. n -> Seq(T)] : Flattens(f, ss)
<1> DEFINE S == {n \in Nat : \A ss \in Seq(Seq(T)) : Len(ss) = n =>
                    \E f \in [1 .. n -> Seq(T)] : Flattens(f, ss)}
<1>1. 0 \in S
  <2> SUFFICES ASSUME NEW ss \in Seq(Seq(T)), Len(ss) = 0
               PROVE  \E f \in [1 .. 0 -> Seq(T)] : Flattens(f, ss)
    OBVIOUS
  <2> DEFINE f == [i \in 1 .. 0 |-> <<>>]
  <2>1. f \in [1 .. 0 -> Seq(T)] /\ f = [i \in 1 .. Len(ss) |-> IF i = 1 THEN ss[i] ELSE f[i - 1] \o ss[i]]
    OBVIOUS
  <2> QED BY <2>1 DEF Flattens
<1>2. ASSUME NEW n \in Nat, n \in S PROVE n + 1 \in S
  <2> SUFFICES ASSUME NEW ss \in Seq(Seq(T)), Len(ss) = n + 1
               PROVE  \E f \in [1 .. n + 1 -> Seq(T)] : Flattens(f, ss)
    OBVIOUS
  <2> DEFINE tt == [i \in 1 .. n |-> ss[i]]
  <2>1. tt \in Seq(Seq(T)) /\ Len(tt) = n  OBVIOUS
  <2>2. PICK g \in [1 .. n -> Seq(T)] : Flattens(g, tt)
    BY <1>2, <2>1
  <2> DEFINE f == [i \in 1 .. n + 1 |-> IF i = n + 1 THEN IF n = 0 THEN ss[1] ELSE g[n] \o ss[n + 1]
                                        ELSE g[i]]
  <2>3. f \in [1 .. n + 1 -> Seq(T)]
    <3>1. \A i \in 1 .. n + 1 : ss[i] \in Seq(T)  OBVIOUS
    <3>2. n # 0 => g[n] \o ss[n + 1] \in Seq(T)  BY <3>1
    <3> QED BY <3>1, <3>2
  <2>4. ASSUME NEW i \in 1 .. n + 1
        PROVE  f[i] = IF i = 1 THEN ss[i] ELSE f[i - 1] \o ss[i]
    <3>1. CASE i = n + 1 /\ n = 0  BY <3>1
    <3>2. CASE i = n + 1 /\ n # 0
      <4>1. i # 1 /\ i - 1 = n /\ n \in 1 .. n + 1 /\ n # n + 1  BY <3>2
      <4> QED BY <3>2, <4>1
    <3>3. CASE i # n + 1
      <4>1. i \in 1 .. n /\ f[i] = g[i] /\ tt[i] = ss[i]  BY <3>3
      <4>2. g[i] = IF i = 1 THEN tt[i] ELSE g[i - 1] \o tt[i]
        BY <2>1, <2>2, <4>1 DEF Flattens
      <4>3. i # 1 => i - 1 \in 1 .. n /\ f[i - 1] = g[i - 1]  BY <4>1
      <4> QED BY <4>1, <4>2, <4>3
    <3> QED BY <3>1, <3>2, <3>3
  <2>5. Flattens(f, ss)
    <3> HIDE DEF f
    <3> DEFINE h == [i \in 1 .. Len(ss) |-> IF i = 1 THEN ss[i] ELSE f[i - 1] \o ss[i]]
    <3>1. DOMAIN f = 1 .. n + 1 /\ f = [i \in 1 .. n + 1 |-> f[i]]  BY <2>3
    <3>2. \A i \in 1 .. n + 1 : f[i] = h[i]  BY <2>4
    <3>3. f = h  BY <3>1, <3>2
    <3> QED BY <3>3 DEF Flattens
  <2> HIDE DEF f
  <2> QED BY <2>3, <2>5
<1> HIDE DEF S
<1>3. \A n \in Nat : n \in S  BY <1>1, <1>2, NatSetInduction
<1> QED BY <1>3 DEF S

Agree(f, g, n) == \A i \in 1 .. n : f[i] = g[i]

\* Two solutions agree as far as their sequences do.
LEMMA FlatteningIsUnique ==
  ASSUME NEW T, NEW ss \in Seq(Seq(T)), NEW tt \in Seq(Seq(T)), NEW n \in Nat,
         n <= Len(ss), n <= Len(tt), Agree(ss, tt, n)
  PROVE  \A f, g : Flattens(f, ss) /\ Flattens(g, tt) => Agree(f, g, n)
<1> USE DEF Agree
<1> SUFFICES ASSUME NEW f, Flattens(f, ss), NEW g, Flattens(g, tt)
             PROVE  \A i \in 1 .. n : f[i] = g[i]
  OBVIOUS
<1> DEFINE S == {m \in Nat : m \in 1 .. n => f[m] = g[m]}
<1>1. 0 \in S  OBVIOUS
<1>2. ASSUME NEW m \in Nat, m \in S PROVE m + 1 \in S
  <2> SUFFICES ASSUME m + 1 \in 1 .. n PROVE f[m + 1] = g[m + 1]  OBVIOUS
  <2>1. /\ f[m + 1] = IF m + 1 = 1 THEN ss[m + 1] ELSE f[(m + 1) - 1] \o ss[m + 1]
        /\ g[m + 1] = IF m + 1 = 1 THEN tt[m + 1] ELSE g[(m + 1) - 1] \o tt[m + 1]
    <3>1. m + 1 \in 1 .. Len(ss) /\ m + 1 \in 1 .. Len(tt)  OBVIOUS
    <3> QED BY <3>1 DEF Flattens
  <2>2. (m + 1) - 1 = m /\ (m + 1 # 1 => m \in 1 .. n)  OBVIOUS
  <2>3. m + 1 # 1 => f[m] = g[m]  BY <1>2, <2>2
  <2> QED BY <2>1, <2>2, <2>3
<1> HIDE DEF S
<1>3. \A m \in Nat : m \in S  BY <1>1, <1>2, NatSetInduction
<1> QED BY <1>3 DEF S

\* Flattening is a solution, read at its end.
LEMMA FlattenIs ==
  ASSUME NEW T, NEW ss \in Seq(Seq(T)), ss # <<>>
  PROVE  \E f \in [1 .. Len(ss) -> Seq(T)] : Flattens(f, ss) /\ FlattenSeq(ss) = f[Len(ss)]
<1> DEFINE F == CHOOSE f : Flattens(f, ss)
<1>1. Len(ss) \in Nat /\ Len(ss) # 0  OBVIOUS
<1>2. \E f : Flattens(f, ss)  BY <1>1, FlatteningExists
<1>3. Flattens(F, ss)  BY <1>2
<1>4. FlattenSeq(ss) = F[Len(ss)]  BY <1>1 DEF FlattenSeq, Flattens
<1>5. PICK g \in [1 .. Len(ss) -> Seq(T)] : Flattens(g, ss)  BY <1>1, FlatteningExists
<1> HIDE DEF F
<1>6. \A i \in 1 .. Len(ss) : F[i] = g[i]
  <2>1. Agree(ss, ss, Len(ss))  BY DEF Agree
  <2>2. Len(ss) \in Nat /\ Len(ss) <= Len(ss)  BY <1>1
  <2>3. Agree(F, g, Len(ss))
    <3>1. \A f, h : Flattens(f, ss) /\ Flattens(h, ss) => Agree(f, h, Len(ss))
      BY ONLY ss \in Seq(Seq(T)), <2>1, <2>2, FlatteningIsUnique
    <3> QED BY <1>3, <1>5, <3>1
  <2> QED BY <2>3 DEF Agree
<1>7. FlattenSeq(ss) = g[Len(ss)]  BY <1>1, <1>4, <1>6
<1> QED BY <1>5, <1>7

\* No parts make an empty sequence.
LEMMA FlattenEmpty == FlattenSeq(<<>>) = <<>>
BY DEF FlattenSeq

\* Sequences in a row are a sequence of the same things.
LEMMA FlattenType ==
  ASSUME NEW T, NEW ss \in Seq(Seq(T))
  PROVE  FlattenSeq(ss) \in Seq(T)
<1>1. CASE ss = <<>>
  <2>1. <<>> \in Seq(T)  OBVIOUS
  <2> QED BY <1>1, <2>1, FlattenEmpty
<1>2. CASE ss # <<>>
  <2>1. PICK f \in [1 .. Len(ss) -> Seq(T)] : FlattenSeq(ss) = f[Len(ss)]  BY <1>2, FlattenIs
  <2>2. Len(ss) \in 1 .. Len(ss)  BY <1>2
  <2> QED BY <2>1, <2>2
<1> QED BY <1>1, <1>2


\* Two sequences of the same elements.
LEMMA SameSequence ==
  ASSUME NEW T, NEW s \in Seq(T), NEW t \in Seq(T), Len(s) = Len(t), \A i \in 1 .. Len(s) : s[i] = t[i]
  PROVE  s = t
OBVIOUS

\* What is defined from 1 to n is a sequence.
LEMMA IsSequence ==
  ASSUME NEW T, NEW n \in Nat, NEW f, f = [i \in 1 .. n |-> f[i]], \A i \in 1 .. n : f[i] \in T
  PROVE  f \in Seq(T) /\ Len(f) = n
OBVIOUS

\* A sequence is its front and its last element.
LEMMA FrontAndLast ==
  ASSUME NEW T, NEW s \in Seq(T), s # <<>>
  PROVE  SubSeq(s, 1, Len(s) - 1) \o <<s[Len(s)]>> = s
OBVIOUS

\* The equation, at one place.
LEMMA FlattenStep ==
  ASSUME NEW f, NEW ss, Flattens(f, ss), NEW i \in 1 .. Len(ss)
  PROVE  f[i] = IF i = 1 THEN ss[i] ELSE f[i - 1] \o ss[i]
BY DEF Flattens

\* All but the last are single elements.
LEMMA FlattenTail ==
  ASSUME NEW T, NEW ms \in Seq(T), ms # <<>>, NEW tail \in Seq(T), NEW ss \in Seq(Seq(T)),
         Len(ss) = Len(ms), ss[Len(ms)] = tail,
         \A i \in 1 .. Len(ms) - 1 : ss[i] = <<ms[i]>>
  PROVE  FlattenSeq(ss) = SubSeq(ms, 1, Len(ms) - 1) \o tail
<1>1. Len(ms) \in Nat /\ Len(ms) # 0 /\ ss # <<>>  OBVIOUS
<1>2. PICK f \in [1 .. Len(ss) -> Seq(T)] : Flattens(f, ss) /\ FlattenSeq(ss) = f[Len(ss)]
  BY <1>1, FlattenIs
<1> DEFINE S == {n \in Nat : n \in 1 .. Len(ms) - 1 => f[n] = SubSeq(ms, 1, n)}
<1>3. 0 \in S  OBVIOUS
<1>4. ASSUME NEW n \in Nat, n \in S PROVE n + 1 \in S
  <2> SUFFICES ASSUME n + 1 \in 1 .. Len(ms) - 1 PROVE f[n + 1] = SubSeq(ms, 1, n + 1)
    OBVIOUS
  <2>1. f[n + 1] = IF n + 1 = 1 THEN ss[n + 1] ELSE f[(n + 1) - 1] \o ss[n + 1]
    <3>1. n + 1 \in 1 .. Len(ss)  BY <1>1
    <3> QED BY <1>2, <3>1, FlattenStep
  <2>2. (n + 1) - 1 = n /\ ss[n + 1] = <<ms[n + 1]>> /\ ms[n + 1] \in T  OBVIOUS
  <2>3. CASE n = 0
    <3>1. SubSeq(ms, 1, 1) = <<ms[1]>>
      <4>1. ms[1] \in T /\ Len(SubSeq(ms, 1, 1)) = 1 /\ SubSeq(ms, 1, 1)[1] = ms[1]  BY <1>1
      <4>2. SubSeq(ms, 1, 1) \in Seq(T) /\ <<ms[1]>> \in Seq(T)  BY <1>1, <4>1
      <4>3. Len(<<ms[1]>>) = 1 /\ <<ms[1]>>[1] = ms[1]  OBVIOUS
      <4>4. \A i \in 1 .. Len(SubSeq(ms, 1, 1)) : SubSeq(ms, 1, 1)[i] = <<ms[1]>>[i]  BY <4>1, <4>3
      <4> QED BY <4>1, <4>2, <4>3, <4>4, SameSequence
    <3> QED BY <2>1, <2>2, <2>3, <3>1
  <2>4. CASE n # 0
    <3>1. f[n] = SubSeq(ms, 1, n)  BY <1>4, <2>4
    <3>2. SubSeq(ms, 1, n) \o <<ms[n + 1]>> = SubSeq(ms, 1, n + 1)  BY <1>1
    <3> QED BY <2>1, <2>2, <2>4, <3>1, <3>2
  <2> QED BY <2>3, <2>4
<1> HIDE DEF S
<1>5. \A n \in Nat : n \in S  BY <1>3, <1>4, NatSetInduction
<1>6. f[Len(ms)] = IF Len(ms) = 1 THEN ss[Len(ms)] ELSE f[Len(ms) - 1] \o ss[Len(ms)]
  <2> DEFINE n == Len(ms)
  <2>1. n \in 1 .. Len(ss)  BY <1>1
  <2> HIDE DEF n
  <2>2. f[n] = IF n = 1 THEN ss[n] ELSE f[n - 1] \o ss[n]  BY ONLY <1>2, <2>1, FlattenStep
  <2> QED BY <2>2 DEF n
<1>7. CASE Len(ms) = 1
  <2>1. SubSeq(ms, 1, Len(ms) - 1) = <<>>  BY <1>7
  <2>2. <<>> \o tail = tail  OBVIOUS
  <2> QED BY <1>2, <1>6, <1>7, <2>1, <2>2
<1>8. CASE Len(ms) # 1
  <2>1. Len(ms) - 1 \in Nat /\ Len(ms) - 1 \in 1 .. Len(ms) - 1  BY <1>1, <1>8
  <2>2. f[Len(ms) - 1] = SubSeq(ms, 1, Len(ms) - 1)  BY <1>5, <2>1 DEF S
  <2> QED BY <1>2, <1>6, <1>8, <2>2
<1> QED BY <1>7, <1>8

\* With every place chosen nothing is left out.
LEMMA ThoseAll ==
  ASSUME NEW T, NEW s \in Seq(T), NEW places, DOMAIN s \subseteq places
  PROVE  Those(s, places) = s
<1> DEFINE ss == [i \in DOMAIN s |-> IF i \in places THEN <<s[i]>> ELSE <<>>]
<1>0. Those(s, places) = FlattenSeq(ss)  BY DEF Those
<1>1. CASE s = <<>>
  <2>1. ss = <<>>  BY <1>1
  <2> QED BY <1>0, <1>1, <2>1, FlattenEmpty
<1>2. CASE s # <<>>
  <2>1. ss \in Seq(Seq(T)) /\ Len(ss) = Len(s) /\ \A i \in 1 .. Len(s) : ss[i] = <<s[i]>>
    <3>1. \A i \in 1 .. Len(s) : i \in places /\ s[i] \in T /\ <<s[i]>> \in Seq(T)  OBVIOUS
    <3>2. \A i \in 1 .. Len(s) : ss[i] = <<s[i]>>  BY <3>1
    <3>3. \A i \in 1 .. Len(s) : ss[i] \in Seq(T)  BY <3>1, <3>2
    <3>4. DOMAIN ss = 1 .. Len(s) /\ Len(s) \in Nat  OBVIOUS
    <3>5. ss \in Seq(Seq(T))  BY <3>3, <3>4
    <3>6. Len(ss) = Len(s)  BY <3>4
    <3> HIDE DEF ss
    <3> QED BY <3>2, <3>5, <3>6
  <2>2. Len(s) \in 1 .. Len(s) /\ <<s[Len(s)]>> \in Seq(T)  BY <1>2
  <2> HIDE DEF ss
  <2>3. FlattenSeq(ss) = SubSeq(s, 1, Len(s) - 1) \o <<s[Len(s)]>>
    <3>1. \A i \in 1 .. Len(s) - 1 : ss[i] = <<s[i]>>  BY <2>1
    <3>2. ss[Len(s)] = <<s[Len(s)]>>  BY <2>1, <2>2
    <3> QED BY <1>2, <2>1, <2>2, <3>1, <3>2, FlattenTail
  <2>4. SubSeq(s, 1, Len(s) - 1) \o <<s[Len(s)]>> = s  BY <1>2
  <2> QED BY <1>0, <2>3, <2>4
<1> QED BY <1>1, <1>2

\* What a sequence has, it has at some place.
LEMMA ToSetHas ==
  ASSUME NEW T, NEW s \in Seq(T), NEW x
  PROVE  x \in ToSet(s) <=> \E i \in 1 .. Len(s) : s[i] = x
<1>1. DOMAIN s = 1 .. Len(s)  OBVIOUS
<1> QED BY <1>1, Zenon DEF ToSet

\* What two sequences in a row have.
LEMMA ToSetJoined ==
  ASSUME NEW T, NEW a \in Seq(T), NEW b \in Seq(T)
  PROVE  ToSet(a \o b) = ToSet(a) \cup ToSet(b)
<1> DEFINE c == a \o b
<1>1. /\ c \in Seq(T) /\ Len(c) = Len(a) + Len(b) /\ Len(a) \in Nat /\ Len(b) \in Nat
      /\ \A i \in 1 .. Len(a) : c[i] = a[i]
      /\ \A i \in 1 .. Len(b) : c[Len(a) + i] = b[i]
  OBVIOUS
<1> HIDE DEF c
<1>2. ASSUME NEW x \in ToSet(a) PROVE x \in ToSet(c)
  <2>1. PICK i \in 1 .. Len(a) : a[i] = x  BY <1>2, ToSetHas
  <2>2. i \in 1 .. Len(c) /\ c[i] = x  BY <1>1, <2>1
  <2> QED BY <1>1, <2>2, ToSetHas
<1>3. ASSUME NEW x \in ToSet(b) PROVE x \in ToSet(c)
  <2>1. PICK i \in 1 .. Len(b) : b[i] = x  BY <1>3, ToSetHas
  <2>2. Len(a) + i \in 1 .. Len(c) /\ c[Len(a) + i] = x  BY <1>1, <2>1
  <2> QED BY <1>1, <2>2, ToSetHas
<1>4. ASSUME NEW x \in ToSet(c) PROVE x \in ToSet(a) \cup ToSet(b)
  <2>1. PICK i \in 1 .. Len(c) : c[i] = x  BY <1>1, <1>4, ToSetHas
  <2>2. CASE i <= Len(a)
    <3>1. i \in 1 .. Len(a) /\ a[i] = x  BY <1>1, <2>1, <2>2
    <3> QED BY <3>1, ToSetHas
  <2>3. CASE i > Len(a)
    <3>1. i - Len(a) \in 1 .. Len(b) /\ Len(a) + (i - Len(a)) = i  BY <1>1, <2>3
    <3>2. b[i - Len(a)] = x  BY <1>1, <2>1, <3>1
    <3> QED BY <3>1, <3>2, ToSetHas
  <2> QED BY <1>1, <2>2, <2>3
<1> QED BY <1>2, <1>3, <1>4 DEF c

\* Nothing but what stands at the places, and all of it.
LEMMA ThoseHave ==
  ASSUME NEW T, NEW s \in Seq(T), NEW places
  PROVE  /\ Those(s, places) \in Seq(T)
         /\ ToSet(Those(s, places)) = {s[i] : i \in DOMAIN s \cap places}
<1> DEFINE ss == [i \in DOMAIN s |-> IF i \in places THEN <<s[i]>> ELSE <<>>]
<1>0. Those(s, places) = FlattenSeq(ss)  BY DEF Those
<1>1. CASE s = <<>>
  <2>1. ss = <<>> /\ DOMAIN s = {}  BY <1>1
  <2>2. Those(s, places) = <<>>  BY <1>0, <2>1, FlattenEmpty
  <2> QED BY <2>1, <2>2 DEF ToSet
<1>2. CASE s # <<>>
  <2>1. ss \in Seq(Seq(T)) /\ Len(ss) = Len(s) /\ ss # <<>>
    <3>1. \A i \in 1 .. Len(s) : s[i] \in T /\ <<s[i]>> \in Seq(T) /\ <<>> \in Seq(T)  OBVIOUS
    <3>2. \A i \in 1 .. Len(s) : ss[i] \in Seq(T)  BY <3>1
    <3>3. DOMAIN ss = 1 .. Len(s) /\ Len(s) \in Nat /\ Len(s) # 0  BY <1>2
    <3>4. ss \in Seq(Seq(T))  BY <3>2, <3>3
    <3>5. Len(ss) = Len(s)  BY <3>3
    <3> HIDE DEF ss
    <3> QED BY <3>3, <3>4, <3>5
  <2>2. \A i \in 1 .. Len(s) : ss[i] = IF i \in places THEN <<s[i]>> ELSE <<>>  OBVIOUS
  <2> HIDE DEF ss
  <2>3. PICK f \in [1 .. Len(ss) -> Seq(T)] : Flattens(f, ss) /\ FlattenSeq(ss) = f[Len(ss)]
    BY <2>1, FlattenIs
  <2> DEFINE S == {n \in Nat : n \in 1 .. Len(s) => ToSet(f[n]) = {s[i] : i \in 1 .. n \cap places}}
  <2>4. 0 \in S  OBVIOUS
  <2>5. ASSUME NEW n \in Nat, n \in S PROVE n + 1 \in S
    <3> SUFFICES ASSUME n + 1 \in 1 .. Len(s)
                 PROVE  ToSet(f[n + 1]) = {s[i] : i \in 1 .. n + 1 \cap places}
      BY SMTT(20)
    <3>1. f[n + 1] = IF n + 1 = 1 THEN ss[n + 1] ELSE f[(n + 1) - 1] \o ss[n + 1]
      <4>1. n + 1 \in 1 .. Len(ss)  BY <2>1
      <4> QED BY <2>3, <4>1, FlattenStep
    <3>2. (n + 1) - 1 = n  OBVIOUS
    <3>3. ToSet(ss[n + 1]) = {s[i] : i \in {n + 1} \cap places}
      <4>1. ToSet(<<>>) = {} /\ ToSet(<<s[n + 1]>>) = {s[n + 1]}  BY DEF ToSet
      <4>2. CASE n + 1 \in places
        <5>1. {n + 1} \cap places = {n + 1} /\ ss[n + 1] = <<s[n + 1]>>  BY <2>2, <4>2
        <5> QED BY <4>1, <5>1
      <4>3. CASE n + 1 \notin places
        <5>1. {n + 1} \cap places = {} /\ ss[n + 1] = <<>>  BY <2>2, <4>3
        <5> QED BY <4>1, <5>1
      <4> QED BY <4>2, <4>3
    <3>4. CASE n = 0  BY <3>1, <3>3, <3>4
    <3>5. CASE n # 0
      <4>1. ToSet(f[n]) = {s[i] : i \in 1 .. n \cap places}  BY <2>5, <3>5
      <4>2. f[n] \in Seq(T) /\ ss[n + 1] \in Seq(T)  
        <5>1. n \in 1 .. Len(ss) /\ n + 1 \in 1 .. Len(ss)  BY <2>1, <3>5
        <5>2. f[n] \in Seq(T)  BY <2>3, <5>1
        <5>3. ss[n + 1] \in Seq(T)
          <6>1. ss \in Seq(Seq(T))  BY <2>1
          <6> QED BY <5>1, <6>1
        <5> QED BY <5>2, <5>3
      <4>3. f[n + 1] = f[n] \o ss[n + 1]
        <5>1. n + 1 # 1  BY <3>5
        <5> QED BY <3>1, <3>2, <5>1
      <4>4. ToSet(f[n] \o ss[n + 1]) = ToSet(f[n]) \cup ToSet(ss[n + 1])
        <5>1. \A a, b \in Seq(T) : ToSet(a \o b) = ToSet(a) \cup ToSet(b)  BY ToSetJoined
        <5> QED BY <4>2, <5>1
      <4>5. 1 .. n + 1 = 1 .. n \cup {n + 1}  OBVIOUS
      <4> QED BY <3>3, <4>1, <4>3, <4>4, <4>5
    <3> QED BY <3>4, <3>5
  <2> HIDE DEF S
  <2>6. \A n \in Nat : n \in S  BY <2>4, <2>5, NatSetInduction
  <2>7. Len(s) \in 1 .. Len(s)  BY <1>2
  <2>8. ToSet(f[Len(s)]) = {s[i] : i \in 1 .. Len(s) \cap places}
    <3>1. Len(s) \in S  BY <2>6
    <3> QED BY <2>7, <3>1 DEF S
  <2>9. f[Len(s)] \in Seq(T) /\ FlattenSeq(ss) = f[Len(s)] /\ DOMAIN s = 1 .. Len(s)
    <3>1. Len(s) \in 1 .. Len(ss) /\ DOMAIN s = 1 .. Len(s)  BY <2>1, <2>7
    <3>2. f[Len(s)] \in Seq(T)  BY <2>3, <3>1
    <3> QED BY <2>1, <2>3, <3>1, <3>2
  <2> QED BY <1>0, <2>8, <2>9
<1> QED BY <1>1, <1>2

-----------------------------------------------------------------------------
(* Messages and what keeps their shape *)

\* Roles take turns.
Alternates(ms) == \A i \in 2 .. Len(ms) : ms[i].role # ms[i - 1].role

\* One message more of an alternation.
Join(before, m) ==
  IF before = <<>> \/ Last(before).role # m.role THEN Append(before, m)
  ELSE IF Is(m, "user") THEN AppendToLast(before, m.blocks)
  ELSE before \o <<User(<<Text("continued", 0)>>), m>>
Joins(f, ms) == f = [n \in 0 .. Len(ms) |-> IF n = 0 THEN <<>> ELSE Join(f[n - 1], ms[n])]

\* Roles that take turns need no repair.
LEMMA AlternationStays ==
  ASSUME NEW ms \in Seq(Messages), Alternates(ms)
  PROVE  RepairAlternation(ms) = ms
<1> DEFINE F == CHOOSE f : Joins(f, ms)
           g == [n \in 0 .. Len(ms) |-> SubSeq(ms, 1, n)]
<1>1. RepairAlternation(ms) = F[Len(ms)]  BY DEF RepairAlternation, Joins, Join
<1>2. ASSUME NEW n \in 1 .. Len(ms)
      PROVE  Join(SubSeq(ms, 1, n - 1), ms[n]) = SubSeq(ms, 1, n)
  <2> DEFINE p == SubSeq(ms, 1, n - 1)
  <2>1. p \in Seq(Messages) /\ Len(p) = n - 1 /\ \A i \in 1 .. n - 1 : p[i] = ms[i]  OBVIOUS
  <2>2. Append(p, ms[n]) = SubSeq(ms, 1, n)
    <3>1. ms[n] \in Messages /\ SubSeq(ms, 1, n) \in Seq(Messages) /\ Append(p, ms[n]) \in Seq(Messages)
      BY <2>1
    <3>2. Len(SubSeq(ms, 1, n)) = n /\ Len(Append(p, ms[n])) = n  BY <2>1
    <3>3. \A i \in 1 .. n : Append(p, ms[n])[i] = SubSeq(ms, 1, n)[i]
      <4> TAKE i \in 1 .. n
      <4>1. SubSeq(ms, 1, n)[i] = ms[i]  OBVIOUS
      <4>2. CASE i = n  BY <2>1, <4>1, <4>2
      <4>3. CASE i # n  BY <2>1, <4>1, <4>3
      <4> QED BY <4>2, <4>3
    <3> QED BY <3>1, <3>2, <3>3, SameSequence
  <2>3. p = <<>> \/ Last(p).role # ms[n].role
    <3>1. CASE n = 1  BY <2>1, <3>1
    <3>2. CASE n # 1
      <4>1. Last(p) = ms[n - 1]  BY <2>1, <3>2 DEF Last
      <4>2. n \in 2 .. Len(ms)  BY <3>2
      <4> QED BY <4>1, <4>2 DEF Alternates
    <3> QED BY <3>1, <3>2
  <2> QED BY <2>2, <2>3 DEF Join
<1>3. Joins(g, ms)
  <2>1. ASSUME NEW n \in 0 .. Len(ms)
        PROVE  g[n] = IF n = 0 THEN <<>> ELSE Join(g[n - 1], ms[n])
    <3>1. CASE n = 0  BY <3>1
    <3>2. CASE n # 0
      <4>1. n \in 1 .. Len(ms) /\ n - 1 \in 0 .. Len(ms)  BY <3>2
      <4>2. g[n] = SubSeq(ms, 1, n) /\ g[n - 1] = SubSeq(ms, 1, n - 1)  BY <4>1
      <4> HIDE DEF g
      <4> QED BY <1>2, <3>2, <4>1, <4>2
    <3> QED BY <3>1, <3>2
  <2> DEFINE h == [n \in 0 .. Len(ms) |-> IF n = 0 THEN <<>> ELSE Join(g[n - 1], ms[n])]
  <2>2. g = [n \in 0 .. Len(ms) |-> g[n]]  OBVIOUS
  <2> HIDE DEF g
  <2>3. \A n \in 0 .. Len(ms) : g[n] = h[n]  BY <2>1
  <2>4. g = h  BY <2>2, <2>3
  <2> QED BY <2>4 DEF Joins
<1>4. Joins(F, ms)  BY <1>3
<1> HIDE DEF F, g
<1> DEFINE S == {n \in Nat : n \in 0 .. Len(ms) => F[n] = SubSeq(ms, 1, n)}
<1>5. \A n \in 0 .. Len(ms) : F[n] = IF n = 0 THEN <<>> ELSE Join(F[n - 1], ms[n])
  BY <1>4 DEF Joins
<1>6. 0 \in S
  <2>1. Len(ms) \in Nat /\ 0 \in 0 .. Len(ms)  OBVIOUS
  <2>2. F[0] = <<>>  BY <1>5, <2>1
  <2>3. SubSeq(ms, 1, 0) = <<>>  OBVIOUS
  <2> QED BY <2>2, <2>3
<1>7. ASSUME NEW n \in Nat, n \in S PROVE n + 1 \in S
  <2> SUFFICES ASSUME n + 1 \in 0 .. Len(ms) PROVE F[n + 1] = SubSeq(ms, 1, n + 1)  OBVIOUS
  <2>1. F[n + 1] = Join(F[n], ms[n + 1])
    <3>1. n + 1 # 0 /\ (n + 1) - 1 = n  OBVIOUS
    <3> QED BY <1>5, <3>1
  <2>2. F[n] = SubSeq(ms, 1, n)  BY <1>7
  <2>3. n + 1 \in 1 .. Len(ms) /\ (n + 1) - 1 = n  OBVIOUS
  <2>4. Join(SubSeq(ms, 1, (n + 1) - 1), ms[n + 1]) = SubSeq(ms, 1, n + 1)  BY <1>2, <2>3
  <2> QED BY <2>1, <2>2, <2>3, <2>4
<1> HIDE DEF S
<1>8. \A n \in Nat : n \in S  BY <1>6, <1>7, NatSetInduction
<1>9. F[Len(ms)] = SubSeq(ms, 1, Len(ms))
  <2>1. Len(ms) \in S /\ Len(ms) \in 0 .. Len(ms)  BY <1>8
  <2> QED BY <2>1 DEF S
<1> QED BY <1>1, <1>9

\* The ids of a message, read off its blocks.
LEMMA IdsAre ==
  ASSUME NEW m, NEW kind, NEW n
  PROVE  n \in Ids(m, kind) <=> \E j \in DOMAIN m.blocks : m.blocks[j].kind = kind /\ m.blocks[j].id = n
BY DEF Ids, ToSet

\* A message with no ids of a kind has no block of it.
LEMMA NoIds ==
  ASSUME NEW m, NEW kind, Ids(m, kind) = {}
  PROVE  \A j \in DOMAIN m.blocks : m.blocks[j].kind # kind
<1>1. \A x : x \notin Ids(m, kind)  OBVIOUS
<1>2. \A x : ~\E j \in DOMAIN m.blocks : m.blocks[j].kind = kind /\ m.blocks[j].id = x
  <2> TAKE x
  <2>1. x \notin Ids(m, kind)  BY <1>1
  <2> QED BY <2>1, IdsAre
<1> QED BY <1>2

\* A block that differs, if at all, in what it says, and not when it is a text.
Alike(a, b) ==
  /\ b.kind = a.kind /\ b.id = a.id /\ b.failed = a.failed
  /\ a.kind = "text" => b = a

AlikeMessage(m, n) ==
  /\ n.role = m.role
  /\ DOMAIN n.blocks = DOMAIN m.blocks
  /\ \A j \in DOMAIN m.blocks : Alike(m.blocks[j], n.blocks[j])

\* Messages that differ in nothing but that.
AlikeAll(ms, ns) ==
  /\ Len(ns) = Len(ms)
  /\ \A i \in 1 .. Len(ms) : AlikeMessage(ms[i], ns[i])

\* Messages that are alike have the same ids.
LEMMA AlikeIds ==
  ASSUME NEW m, NEW n, AlikeMessage(m, n)
  PROVE  /\ \A kind : Ids(n, kind) = Ids(m, kind)
         /\ \A j \in DOMAIN m.blocks : n.blocks[j].kind = m.blocks[j].kind
<1>1. \A j \in DOMAIN m.blocks : n.blocks[j].kind = m.blocks[j].kind /\ n.blocks[j].id = m.blocks[j].id
  BY DEF AlikeMessage, Alike
<1>2. DOMAIN n.blocks = DOMAIN m.blocks  BY DEF AlikeMessage
<1>3. ASSUME NEW kind PROVE Ids(n, kind) = Ids(m, kind)
  <2>1. \A x : x \in Ids(n, kind) <=> x \in Ids(m, kind)  BY <1>1, <1>2, IdsAre
  <2> QED BY <2>1
<1> QED BY <1>1, <1>3

\* Being alike is reflexive.
LEMMA AlikeItself ==
  ASSUME NEW ms \in Seq(Messages)
  PROVE  AlikeAll(ms, ms)
BY DEF AlikeAll, AlikeMessage, Alike

\* And transitive.
LEMMA AlikeThrice ==
  ASSUME NEW ms, NEW ns, NEW os, AlikeAll(ms, ns), AlikeAll(ns, os)
  PROVE  AlikeAll(ms, os)
BY DEF AlikeAll, AlikeMessage, Alike

\* The shape is what a conversation is well-formed by, and where its turns start.
LEMMA AlikeShape ==
  ASSUME NEW ms \in Seq(Messages), NEW ns \in Seq(Messages), AlikeAll(ms, ns)
  PROVE  /\ WellFormed(ms) => WellFormed(ns)
         /\ WellMade(ms) => WellMade(ns)
         /\ Starts(ns) = Starts(ms)
<1>1. /\ Len(ns) = Len(ms) /\ Len(ms) \in Nat
      /\ \A i \in 1 .. Len(ms) : /\ AlikeMessage(ms[i], ns[i]) /\ ns[i].role = ms[i].role
                                 /\ DOMAIN ns[i].blocks = DOMAIN ms[i].blocks
                                 /\ \A kind : Ids(ns[i], kind) = Ids(ms[i], kind)
                                 /\ \A j \in DOMAIN ms[i].blocks : ns[i].blocks[j].kind = ms[i].blocks[j].kind
  <2>1. Len(ns) = Len(ms) /\ Len(ms) \in Nat  BY DEF AlikeAll
  <2>2. ASSUME NEW i \in 1 .. Len(ms)
        PROVE  /\ AlikeMessage(ms[i], ns[i]) /\ ns[i].role = ms[i].role
               /\ DOMAIN ns[i].blocks = DOMAIN ms[i].blocks
               /\ \A kind : Ids(ns[i], kind) = Ids(ms[i], kind)
               /\ \A j \in DOMAIN ms[i].blocks : ns[i].blocks[j].kind = ms[i].blocks[j].kind
    <3>1. AlikeMessage(ms[i], ns[i])  BY DEF AlikeAll
    <3>2. ns[i].role = ms[i].role /\ DOMAIN ns[i].blocks = DOMAIN ms[i].blocks
      BY <3>1 DEF AlikeMessage
    <3> QED BY <3>1, <3>2, AlikeIds
  <2> QED BY <2>1, <2>2
<1>2. \A i \in 1 .. Len(ms) : /\ ms[i].blocks \in Seq(Blocks) /\ ns[i].blocks \in Seq(Blocks)
                              /\ ms[i].blocks = <<>> <=> ns[i].blocks = <<>>
  <2> TAKE i \in 1 .. Len(ms)
  <2>1. ms[i] \in Messages /\ ns[i] \in Messages  BY <1>1
  <2>2. ms[i].blocks \in Seq(Blocks) /\ ns[i].blocks \in Seq(Blocks)  BY <2>1 DEF Messages
  <2>3. \A s \in Seq(Blocks) : s = <<>> <=> DOMAIN s = {}  OBVIOUS
  <2> QED BY <1>1, <2>2, <2>3
<1>3. WellFormed(ms) => WellFormed(ns)
  <2> SUFFICES ASSUME WellFormed(ms) PROVE WellFormed(ns)  OBVIOUS
  <2>1. ns # <<>> => Is(ns[1], "user")
    <3>1. ns # <<>> => ms # <<>> /\ 1 \in 1 .. Len(ms)  BY <1>1
    <3> QED BY <1>1, <3>1 DEF WellFormed, Is
  <2>2. ASSUME NEW i \in 2 .. Len(ns)
        PROVE  /\ ns[i].role # ns[i - 1].role
               /\ Ids(ns[i - 1], "use") = Ids(ns[i], "result")
               /\ \A j, k \in DOMAIN ns[i].blocks :
                    (j < k /\ ns[i].blocks[k].kind = "result") => ns[i].blocks[j].kind = "result"
    <3>1. i \in 2 .. Len(ms) /\ i \in 1 .. Len(ms) /\ i - 1 \in 1 .. Len(ms)  BY <1>1
    <3>2. /\ ms[i].role # ms[i - 1].role
          /\ Ids(ms[i - 1], "use") = Ids(ms[i], "result")
          /\ \A j, k \in DOMAIN ms[i].blocks :
               (j < k /\ ms[i].blocks[k].kind = "result") => ms[i].blocks[j].kind = "result"
      BY <3>1 DEF WellFormed
    <3>3. ns[i].role = ms[i].role /\ ns[i - 1].role = ms[i - 1].role  BY <1>1, <3>1
    <3>4. /\ Ids(ns[i - 1], "use") = Ids(ms[i - 1], "use")
          /\ Ids(ns[i], "result") = Ids(ms[i], "result")
      BY <1>1, <3>1
    <3>5. /\ DOMAIN ns[i].blocks = DOMAIN ms[i].blocks
          /\ \A j \in DOMAIN ms[i].blocks : ns[i].blocks[j].kind = ms[i].blocks[j].kind
      BY <1>1, <3>1
    <3> QED BY <3>2, <3>3, <3>4, <3>5
  <2> QED BY <2>1, <2>2 DEF WellFormed
<1>4. WellMade(ms) => WellMade(ns)
  <2> SUFFICES ASSUME WellMade(ms) PROVE WellMade(ns)  OBVIOUS
  <2>1. DOMAIN ms = 1 .. Len(ms) /\ DOMAIN ns = 1 .. Len(ms)  BY <1>1
  <2>2. ASSUME NEW i \in 1 .. Len(ms)
        PROVE  ns[i].blocks # <<>> /\ Ids(ns[i], IF Is(ns[i], "user") THEN "use" ELSE "result") = {}
    BY <1>1, <1>2, <2>1 DEF WellMade, Is
  <2> QED BY <2>1, <2>2 DEF WellMade
<1>5. Starts(ns) = Starts(ms)
  <2>1. DOMAIN ms = 1 .. Len(ms) /\ DOMAIN ns = 1 .. Len(ms)  BY <1>1
  <2>2. ASSUME NEW i \in 1 .. Len(ms) PROVE StartsUserTurn(ns[i]) <=> StartsUserTurn(ms[i])
    <3>1. /\ ns[i].role = ms[i].role /\ DOMAIN ns[i].blocks = DOMAIN ms[i].blocks
          /\ \A j \in DOMAIN ms[i].blocks : ns[i].blocks[j].kind = ms[i].blocks[j].kind
          /\ ms[i].blocks = <<>> <=> ns[i].blocks = <<>>
      BY <1>1, <1>2
    <3>2. \A m : (\E b \in ToSet(m.blocks) : b.kind # "result")
                  <=> \E j \in DOMAIN m.blocks : m.blocks[j].kind # "result"
      BY DEF ToSet
    <3> QED BY <3>1, <3>2 DEF StartsUserTurn, Is
  <2> QED BY <2>1, <2>2 DEF Starts
<1> QED BY <1>3, <1>4, <1>5

\* A message of a conversation, and its blocks.
LEMMA BlocksOf ==
  ASSUME NEW ms \in Seq(Messages), NEW i \in 1 .. Len(ms)
  PROVE  /\ ms[i] \in Messages /\ ms[i].blocks \in Seq(Blocks) /\ ms[i].role \in {"user", "assistant"}
         /\ DOMAIN ms[i].blocks = 1 .. Len(ms[i].blocks)
         /\ \A j \in DOMAIN ms[i].blocks : ms[i].blocks[j] \in Blocks
<1>1. ms[i] \in Messages  OBVIOUS
<1>2. ms[i].blocks \in Seq(Blocks) /\ ms[i].role \in {"user", "assistant"}  BY <1>1 DEF Messages
<1>3. \A s \in Seq(Blocks) : DOMAIN s = 1 .. Len(s) /\ \A j \in DOMAIN s : s[j] \in Blocks  OBVIOUS
<1> QED BY <1>1, <1>2, <1>3

\* What a result holds, or what became of a call, may change.
LEMMA SaysOtherwise ==
  ASSUME NEW b \in Blocks
  PROVE  /\ b.kind = "result" => \A says \in Holds : /\ [b EXCEPT !.says = says] \in Blocks
                                                     /\ Alike(b, [b EXCEPT !.says = says])
         /\ b.kind = "use" => \A says \in Calls : /\ [b EXCEPT !.says = says] \in Blocks
                                                  /\ Alike(b, [b EXCEPT !.says = says])
BY DEF Blocks, Alike

\* Rewriting every block of one role into one that is like it.
LEMMA RewriteAlike ==
  ASSUME NEW ms \in Seq(Messages), NEW role, NEW g, NEW ns,
         ns = [i \in DOMAIN ms |->
                 IF Is(ms[i], role)
                 THEN [ms[i] EXCEPT !.blocks = [j \in DOMAIN ms[i].blocks |-> g[i][j]]]
                 ELSE ms[i]],
         \A i \in DOMAIN ms : Is(ms[i], role) =>
           \A j \in DOMAIN ms[i].blocks : g[i][j] \in Blocks /\ Alike(ms[i].blocks[j], g[i][j])
  PROVE  ns \in Seq(Messages) /\ AlikeAll(ms, ns)
<1>1. DOMAIN ms = 1 .. Len(ms) /\ Len(ms) \in Nat  OBVIOUS
<1>2. ASSUME NEW i \in 1 .. Len(ms)
      PROVE  ns[i] \in Messages /\ AlikeMessage(ms[i], ns[i])
  <2>1. ms[i] \in Messages  BY <1>1
  <2>2. CASE Is(ms[i], role)
    <3> DEFINE bs == [j \in DOMAIN ms[i].blocks |-> g[i][j]]
    <3>1. ns[i] = [ms[i] EXCEPT !.blocks = bs]  BY <1>1, <2>2
    <3>2. ms[i].blocks \in Seq(Blocks)  BY <2>1 DEF Messages
    <3>3. \A j \in DOMAIN ms[i].blocks : bs[j] \in Blocks /\ Alike(ms[i].blocks[j], bs[j])
      BY <1>1, <2>2
    <3>4. DOMAIN bs = DOMAIN ms[i].blocks  OBVIOUS
    <3>5. bs \in Seq(Blocks)
      <4>1. DOMAIN ms[i].blocks = 1 .. Len(ms[i].blocks) /\ Len(ms[i].blocks) \in Nat  BY <3>2
      <4> DEFINE n == Len(ms[i].blocks)
      <4>2. bs = [j \in 1 .. n |-> bs[j]] /\ \A j \in 1 .. n : bs[j] \in Blocks  BY <3>3, <4>1
      <4> HIDE DEF bs
      <4> QED BY <4>1, <4>2, IsSequence
    <3> HIDE DEF bs
    <3>6. ns[i] \in Messages /\ ns[i].blocks = bs /\ ns[i].role = ms[i].role
      <4> DEFINE m == ms[i]  n == ns[i]
      <4>1. m \in Messages /\ n = [m EXCEPT !.blocks = bs]  BY <2>1, <3>1
      <4> HIDE DEF m, n
      <4>2. n \in Messages /\ n.blocks = bs /\ n.role = m.role  BY <3>5, <4>1 DEF Messages
      <4> QED BY <4>2 DEF m, n
    <3> QED BY <3>3, <3>4, <3>6 DEF AlikeMessage
  <2>3. CASE ~Is(ms[i], role)
    <3>1. ns[i] = ms[i]  BY <1>1, <2>3
    <3> QED BY <2>1, <3>1 DEF AlikeMessage, Alike
  <2> QED BY <2>2, <2>3
<1>3. DOMAIN ns = 1 .. Len(ms)  BY <1>1
<1>4. ns \in Seq(Messages) /\ Len(ns) = Len(ms)
  <2> HIDE DEF Messages
  <2>1. ns = [i \in 1 .. Len(ms) |-> ns[i]]  BY <1>3
  <2> QED BY <1>1, <1>2, <2>1
<1> QED BY <1>2, <1>4 DEF AlikeAll

\* A pruned result says something else, and is still its call's.
LEMMA PruneToolResultAlike ==
  ASSUME NEW b \in Blocks, NEW age
  PROVE  PruneToolResult(b, age) \in Blocks /\ Alike(b, PruneToolResult(b, age))
<1>1. Alike(b, b)  BY DEF Alike
<1>2. {"dropped", "summary"} \subseteq Holds  BY DEF Holds
<1>3. CASE b.kind # "result"  BY <1>1, <1>3 DEF PruneToolResult
<1>4. CASE b.kind = "result"
  <2>1. PruneToolResult(b, age) \in {b, [b EXCEPT !.says = "dropped"], [b EXCEPT !.says = "summary"]}
    BY <1>4 DEF PruneToolResult
  <2>2. /\ [b EXCEPT !.says = "dropped"] \in Blocks /\ Alike(b, [b EXCEPT !.says = "dropped"])
        /\ [b EXCEPT !.says = "summary"] \in Blocks /\ Alike(b, [b EXCEPT !.says = "summary"])
    BY <1>2, <1>4, SaysOtherwise
  <2> QED BY <1>1, <2>1, <2>2
<1> QED BY <1>3, <1>4

\* So is each result, and each call, of a conversation pruned by age.
LEMMA PruneByAgeAlike ==
  ASSUME NEW ms \in Seq(Messages)
  PROVE  PruneByAge(ms) \in Seq(Messages) /\ AlikeAll(ms, PruneByAge(ms))
<1> DEFINE g == [i \in DOMAIN ms |-> [j \in DOMAIN ms[i].blocks |->
                    PruneToolResult(ms[i].blocks[j], Age(ms, i))]]
<1>1. PruneByAge(ms) = [i \in DOMAIN ms |->
         IF Is(ms[i], "user")
         THEN [ms[i] EXCEPT !.blocks = [j \in DOMAIN ms[i].blocks |-> g[i][j]]]
         ELSE ms[i]]
  BY DEF PruneByAge, Rewrite
<1>2. \A i \in DOMAIN ms : \A j \in DOMAIN ms[i].blocks : ms[i].blocks[j] \in Blocks
  BY BlocksOf
<1>3. \A i \in DOMAIN ms : \A j \in DOMAIN ms[i].blocks :
        g[i][j] \in Blocks /\ Alike(ms[i].blocks[j], g[i][j])
  BY <1>2, PruneToolResultAlike
<1> HIDE DEF g
<1> QED BY <1>1, <1>3, RewriteAlike

\* And of one whose file reads were deduplicated.
LEMMA DeduplicateAlike ==
  ASSUME NEW ms \in Seq(Messages)
  PROVE  DeduplicateFileRefs(ms) \in Seq(Messages) /\ AlikeAll(ms, DeduplicateFileRefs(ms))
<1> DEFINE old == Superseded(ms)
           point(b) == IF b.kind = "result" /\ b.id \in old THEN [b EXCEPT !.says = "superseded"] ELSE b
           forget(b) == IF b.kind = "use" /\ b.id \in old THEN [b EXCEPT !.says = "_deduped"] ELSE b
           g == [i \in DOMAIN ms |-> [j \in DOMAIN ms[i].blocks |-> point(ms[i].blocks[j])]]
           ns == [i \in DOMAIN ms |->
                    IF Is(ms[i], "user")
                    THEN [ms[i] EXCEPT !.blocks = [j \in DOMAIN ms[i].blocks |-> point(ms[i].blocks[j])]]
                    ELSE ms[i]]
           h == [i \in DOMAIN ns |-> [j \in DOMAIN ns[i].blocks |-> forget(ns[i].blocks[j])]]
           os == [i \in DOMAIN ns |->
                    IF Is(ns[i], "assistant")
                    THEN [ns[i] EXCEPT !.blocks = [j \in DOMAIN ns[i].blocks |-> forget(ns[i].blocks[j])]]
                    ELSE ns[i]]
<1>1. DeduplicateFileRefs(ms) = os  BY DEF DeduplicateFileRefs, Rewrite
<1>2. \A b \in Blocks : Alike(b, b)  BY DEF Alike
<1>3. "superseded" \in Holds /\ "_deduped" \in Calls  BY DEF Holds, Calls
<1>4. \A b \in Blocks : /\ point(b) \in Blocks /\ Alike(b, point(b))
                        /\ forget(b) \in Blocks /\ Alike(b, forget(b))
  <2> TAKE b \in Blocks
  <2>1. b.kind = "result" => /\ [b EXCEPT !.says = "superseded"] \in Blocks
                             /\ Alike(b, [b EXCEPT !.says = "superseded"])
    BY <1>3, SaysOtherwise
  <2>2. b.kind = "use" => /\ [b EXCEPT !.says = "_deduped"] \in Blocks
                          /\ Alike(b, [b EXCEPT !.says = "_deduped"])
    BY <1>3, SaysOtherwise
  <2> QED BY <1>2, <2>1, <2>2
<1>5. \A ls \in Seq(Messages) : \A i \in DOMAIN ls : \A j \in DOMAIN ls[i].blocks : ls[i].blocks[j] \in Blocks
  BY BlocksOf
<1> HIDE DEF point, forget
<1>6. ns \in Seq(Messages) /\ AlikeAll(ms, ns)
  <2>1. \A i \in DOMAIN ms : \A j \in DOMAIN ms[i].blocks :
          g[i][j] \in Blocks /\ Alike(ms[i].blocks[j], g[i][j])
    BY <1>4, <1>5
  <2>2. ns = [i \in DOMAIN ms |->
                IF Is(ms[i], "user")
                THEN [ms[i] EXCEPT !.blocks = [j \in DOMAIN ms[i].blocks |-> g[i][j]]]
                ELSE ms[i]]
    OBVIOUS
  <2> HIDE DEF g, ns
  <2> QED BY <2>1, <2>2, RewriteAlike
<1> HIDE DEF ns
<1>7. os \in Seq(Messages) /\ AlikeAll(ns, os)
  <2>1. \A i \in DOMAIN ns : \A j \in DOMAIN ns[i].blocks :
          h[i][j] \in Blocks /\ Alike(ns[i].blocks[j], h[i][j])
    BY <1>4, <1>5, <1>6
  <2>2. os = [i \in DOMAIN ns |->
                IF Is(ns[i], "assistant")
                THEN [ns[i] EXCEPT !.blocks = [j \in DOMAIN ns[i].blocks |-> h[i][j]]]
                ELSE ns[i]]
    OBVIOUS
  <2> HIDE DEF h, os
  <2> QED BY <1>6, <2>1, <2>2, RewriteAlike
<1> HIDE DEF os
<1>8. AlikeAll(ms, os)  BY <1>6, <1>7, AlikeThrice
<1> QED BY <1>1, <1>7, <1>8

\* And of one that was managed as a whole.
LEMMA ManageConversationAlike ==
  ASSUME NEW ms \in Seq(Messages)
  PROVE  ManageConversation(ms) \in Seq(Messages) /\ AlikeAll(ms, ManageConversation(ms))
<1> DEFINE ns == PruneByAge(DeduplicateFileRefs(ms))
           shorten(i, b) ==
             IF b.kind = "use" /\ Age(ms, i) > ToolCallKeepFull THEN [b EXCEPT !.says = "_summary"] ELSE b
           h == [i \in DOMAIN ns |-> [j \in DOMAIN ns[i].blocks |-> shorten(i, ns[i].blocks[j])]]
           os == [i \in DOMAIN ns |->
                    IF Is(ns[i], "assistant")
                    THEN [ns[i] EXCEPT !.blocks = [j \in DOMAIN ns[i].blocks |-> h[i][j]]]
                    ELSE ns[i]]
<1>1. ManageConversation(ms) = IF Len(ms) <= KeepRecentTurns THEN ms ELSE os
  BY DEF ManageConversation, Rewrite
<1>2. ns \in Seq(Messages) /\ AlikeAll(ms, ns)
  BY DeduplicateAlike, PruneByAgeAlike, AlikeThrice
<1> HIDE DEF ns
<1>3. \A i : \A b \in Blocks : shorten(i, b) \in Blocks /\ Alike(b, shorten(i, b))
  <2>1. "_summary" \in Calls /\ \A b \in Blocks : Alike(b, b)  BY DEF Calls, Alike
  <2> QED BY <2>1, SaysOtherwise
<1> HIDE DEF shorten
<1>4. os \in Seq(Messages) /\ AlikeAll(ns, os)
  <2>1. \A i \in DOMAIN ns : \A j \in DOMAIN ns[i].blocks : ns[i].blocks[j] \in Blocks
    BY <1>2, BlocksOf
  <2>2. \A i \in DOMAIN ns : \A j \in DOMAIN ns[i].blocks :
          h[i][j] \in Blocks /\ Alike(ns[i].blocks[j], h[i][j])
    BY <1>3, <2>1
  <2> HIDE DEF h
  <2> QED BY <1>2, <2>2, RewriteAlike
<1> HIDE DEF os
<1>5. AlikeAll(ms, os)  BY <1>2, <1>4, AlikeThrice
<1>6. AlikeAll(ms, ms)  BY AlikeItself
<1> QED BY <1>1, <1>4, <1>5, <1>6

\* A prefix and what is alike to the rest.
LEMMA ManageStagingAlike ==
  ASSUME NEW ms \in Seq(Messages), NEW n \in Nat
  PROVE  /\ ManageStaging(ms, n) \in Seq(Messages) /\ AlikeAll(ms, ManageStaging(ms, n))
         /\ Prefix(ManageStaging(ms, n), n) = Prefix(ms, n)
<1> DEFINE rest == PruneByAge(DeduplicateFileRefs(Suffix(ms, n)))
           k == IF n <= Len(ms) THEN n ELSE Len(ms)
           front == SubSeq(ms, 1, k)
           ns == front \o rest
<1>1. Suffix(ms, n) \in Seq(Messages) /\ Len(Suffix(ms, n)) = Len(ms) - k
      /\ \A i \in 1 .. Len(ms) - k : Suffix(ms, n)[i] = ms[k + i]
  <2>1. CASE n <= Len(ms)
    <3>1. k = n /\ n + 1 \in 1 .. Len(ms) + 1 /\ Len(ms) \in Nat  BY <2>1
    <3>2. /\ SubSeq(ms, n + 1, Len(ms)) \in Seq(Messages)
          /\ Len(SubSeq(ms, n + 1, Len(ms))) = Len(ms) - n
          /\ \A i \in 1 .. Len(ms) - n : SubSeq(ms, n + 1, Len(ms))[i] = ms[n + i]
      BY <3>1
    <3> QED BY <3>1, <3>2 DEF Suffix
  <2>2. CASE n > Len(ms)
    <3>1. SubSeq(ms, n + 1, Len(ms)) = <<>> /\ k = Len(ms)  BY <2>2
    <3>2. Suffix(ms, n) = <<>> /\ <<>> \in Seq(Messages) /\ Len(<<>>) = 0 /\ Len(ms) - k = 0
      BY <3>1 DEF Suffix
    <3> QED BY <3>2
  <2>3. n <= Len(ms) \/ n > Len(ms)  OBVIOUS
  <2> HIDE DEF k
  <2> QED BY <2>1, <2>2, <2>3
<1>2. rest \in Seq(Messages) /\ AlikeAll(Suffix(ms, n), rest)
  BY <1>1, DeduplicateAlike, PruneByAgeAlike, AlikeThrice
<1>3. k \in Nat /\ k <= Len(ms) /\ Len(ms) \in Nat  OBVIOUS
<1>4. ManageStaging(ms, n) = ns /\ Prefix(ms, n) = front  BY DEF ManageStaging, Prefix
<1> HIDE DEF rest
<1>5. front \in Seq(Messages) /\ Len(front) = k /\ \A i \in 1 .. k : front[i] = ms[i]
  BY <1>3
<1>6. Len(rest) = Len(ms) - k
      /\ \A i \in 1 .. Len(ms) - k : AlikeMessage(ms[k + i], rest[i])
  BY <1>1, <1>2 DEF AlikeAll
<1> HIDE DEF k, front
<1>7. ns \in Seq(Messages) /\ Len(ns) = Len(ms)
      /\ (\A i \in 1 .. k : ns[i] = front[i]) /\ (\A i \in 1 .. Len(ms) - k : ns[k + i] = rest[i])
  BY <1>2, <1>3, <1>5, <1>6
<1> HIDE DEF ns
<1>8. AlikeAll(ms, ns)
  <2>1. ASSUME NEW i \in 1 .. Len(ms) PROVE AlikeMessage(ms[i], ns[i])
    <3>1. CASE i <= k
      <4>1. ns[i] = ms[i]  BY <1>3, <1>5, <1>7, <3>1
      <4> QED BY <4>1 DEF AlikeMessage, Alike
    <3>2. CASE i > k
      <4>1. i - k \in 1 .. Len(ms) - k /\ k + (i - k) = i  BY <1>3, <3>2
      <4>2. ns[i] = rest[i - k] /\ AlikeMessage(ms[i], rest[i - k])  BY <1>6, <1>7, <4>1
      <4> QED BY <4>2
    <3> QED BY <1>3, <3>1, <3>2
  <2> QED BY <1>7, <2>1 DEF AlikeAll
<1>9. Prefix(ns, n) = front
  <2>1. Prefix(ns, n) = SubSeq(ns, 1, k)  BY <1>7 DEF Prefix, k
  <2>2. SubSeq(ns, 1, k) \in Seq(Messages) /\ Len(SubSeq(ns, 1, k)) = k
        /\ \A i \in 1 .. k : SubSeq(ns, 1, k)[i] = ns[i]
    BY <1>3, <1>7
  <2>3. SubSeq(ns, 1, k) = front  BY <1>5, <1>7, <2>2, SameSequence
  <2> QED BY <2>1, <2>3
<1> QED BY <1>4, <1>7, <1>8, <1>9

-----------------------------------------------------------------------------
(* Well-formed conversations, and what the loop appends to them *)

Well(ms) == ms \in Seq(Messages) /\ WellFormed(ms) /\ WellMade(ms)

ResultsFirst(m) ==
  \A j, k \in DOMAIN m.blocks :
    (j < k /\ m.blocks[k].kind = "result") => m.blocks[j].kind = "result"

\* A message the loop may put into a conversation.
Sound(m) ==
  /\ m \in Messages /\ m.blocks # <<>> /\ ResultsFirst(m)
  /\ Ids(m, IF Is(m, "user") THEN "use" ELSE "result") = {}

\* The calls nothing answers yet.
Dangling(ms) == IF ms = <<>> THEN {} ELSE Ids(Last(ms), "use")

\* The last message of a conversation that has one.
LEMMA LastIs ==
  ASSUME NEW ms \in Seq(Messages), ms # <<>>
  PROVE  Len(ms) \in Nat \ {0} /\ Len(ms) \in 1 .. Len(ms) /\ Last(ms) = ms[Len(ms)] /\ Last(ms) \in Messages
BY DEF Last

\* Two messages in a row of a well-formed conversation.
LEMMA WellPair ==
  ASSUME NEW ms, Well(ms), NEW i \in 2 .. Len(ms)
  PROVE  /\ ms[i].role # ms[i - 1].role
         /\ Ids(ms[i - 1], "use") = Ids(ms[i], "result")
         /\ ResultsFirst(ms[i])
BY DEF Well, WellFormed, ResultsFirst

\* And each on its own.
LEMMA WellAlone ==
  ASSUME NEW ms, Well(ms), NEW i \in 1 .. Len(ms)
  PROVE  /\ ms[i] \in Messages /\ ms[i].blocks # <<>>
         /\ ms[i].role \in {"user", "assistant"}
         /\ Is(ms[i], "user") => Ids(ms[i], "use") = {}
         /\ Is(ms[i], "assistant") => Ids(ms[i], "result") = {}
<1>1. ms \in Seq(Messages) /\ i \in DOMAIN ms  BY DEF Well
<1>2. ms[i].role \in {"user", "assistant"}  BY <1>1, BlocksOf
<1>3. ms[i].blocks # <<>> /\ Ids(ms[i], IF Is(ms[i], "user") THEN "use" ELSE "result") = {}
  BY <1>1 DEF Well, WellMade
<1>4. Is(ms[i], "assistant") => ~Is(ms[i], "user")  BY DEF Is
<1> QED BY <1>1, <1>2, <1>3, <1>4

\* The other way round.
LEMMA WellWhen ==
  ASSUME NEW ms \in Seq(Messages),
         ms # <<>> => Is(ms[1], "user"),
         \A i \in 1 .. Len(ms) : Sound(ms[i]) \/ (i = 1 /\ ms[1].blocks # <<>> /\ Ids(ms[1], "use") = {}),
         \A i \in 2 .. Len(ms) : ms[i].role # ms[i - 1].role /\ Ids(ms[i - 1], "use") = Ids(ms[i], "result")
  PROVE  Well(ms)
<1>1. \A i \in 2 .. Len(ms) : ResultsFirst(ms[i])
  <2> TAKE i \in 2 .. Len(ms)
  <2>1. i \in 1 .. Len(ms) /\ i # 1  OBVIOUS
  <2> QED BY <2>1 DEF Sound
<1>2. WellFormed(ms)  BY <1>1 DEF WellFormed, ResultsFirst
<1>3. \A i \in 1 .. Len(ms) : /\ ms[i].blocks # <<>>
                              /\ Ids(ms[i], IF Is(ms[i], "user") THEN "use" ELSE "result") = {}
  <2> TAKE i \in 1 .. Len(ms)
  <2>1. CASE Sound(ms[i])  BY <2>1 DEF Sound
  <2>2. CASE i = 1 /\ ms[1].blocks # <<>> /\ Ids(ms[1], "use") = {}
    <3>1. ms # <<>>  OBVIOUS
    <3> QED BY <2>2, <3>1
  <2> QED BY <2>1, <2>2
<1>4. DOMAIN ms = 1 .. Len(ms)  OBVIOUS
<1>5. WellMade(ms)  BY <1>3, <1>4 DEF WellMade
<1> QED BY <1>2, <1>5 DEF Well

\* A message whose blocks are out of place only if it is the first.
LEMMA WellSound ==
  ASSUME NEW ms, Well(ms), NEW i \in 1 .. Len(ms)
  PROVE  Sound(ms[i]) \/ (i = 1 /\ ms[1].blocks # <<>> /\ Ids(ms[1], "use") = {})
<1>1. ms \in Seq(Messages) /\ ms # <<>>  BY DEF Well
<1>2. CASE i = 1
  <2>1. Is(ms[1], "user")  BY <1>1 DEF Well, WellFormed
  <2> QED BY <1>2, <2>1, WellAlone
<1>3. CASE i # 1
  <2>1. i \in 2 .. Len(ms)  BY <1>3
  <2>2. ResultsFirst(ms[i])  BY <2>1, WellPair
  <2>3. Is(ms[i], "user") \/ Is(ms[i], "assistant")  BY WellAlone DEF Is
  <2> QED BY <2>2, <2>3, WellAlone DEF Sound, Is
<1> QED BY <1>2, <1>3

\* A conversation with a message appended.
LEMMA AppendIs ==
  ASSUME NEW ms \in Seq(Messages), NEW m \in Messages
  PROVE  /\ Append(ms, m) \in Seq(Messages) /\ Len(Append(ms, m)) = Len(ms) + 1
         /\ Append(ms, m) # <<>> /\ Last(Append(ms, m)) = m /\ Append(ms, m)[Len(ms) + 1] = m
         /\ \A i \in 1 .. Len(ms) : Append(ms, m)[i] = ms[i]
BY DEF Last

\* It stays well-formed when the message answers what dangles.
LEMMA AppendWell ==
  ASSUME NEW ms, Well(ms), NEW m, Sound(m),
         ms = <<>> => Is(m, "user"),
         ms # <<>> => Last(ms).role # m.role,
         Ids(m, "result") = Dangling(ms)
  PROVE  Well(Append(ms, m))
<1> DEFINE ns == Append(ms, m)
<1>0. ms \in Seq(Messages) /\ m \in Messages /\ Len(ms) \in Nat  BY DEF Well, Sound
<1>1. /\ ns \in Seq(Messages) /\ Len(ns) = Len(ms) + 1 /\ ns[Len(ms) + 1] = m
      /\ \A i \in 1 .. Len(ms) : ns[i] = ms[i]
  BY <1>0, AppendIs
<1> HIDE DEF ns
<1>2. Is(ns[1], "user")
  <2>1. CASE ms = <<>>  BY <1>1, <2>1
  <2>2. CASE ms # <<>>
    <3>1. 1 \in 1 .. Len(ms)  BY <1>0, <2>2
    <3> QED BY <1>1, <2>2, <3>1 DEF Well, WellFormed
  <2> QED BY <2>1, <2>2
<1>3. \A i \in 1 .. Len(ns) : Sound(ns[i]) \/ (i = 1 /\ ns[1].blocks # <<>> /\ Ids(ns[1], "use") = {})
  <2> TAKE i \in 1 .. Len(ns)
  <2>1. CASE i = Len(ms) + 1  BY <1>1, <2>1
  <2>2. CASE i # Len(ms) + 1
    <3>1. i \in 1 .. Len(ms) /\ ns[i] = ms[i]  BY <1>0, <1>1, <2>2
    <3> QED BY <3>1, WellSound
  <2> QED BY <2>1, <2>2
<1>4. \A i \in 2 .. Len(ns) : ns[i].role # ns[i - 1].role /\ Ids(ns[i - 1], "use") = Ids(ns[i], "result")
  <2> TAKE i \in 2 .. Len(ns)
  <2>1. CASE i = Len(ms) + 1
    <3>1. ms # <<>> /\ i - 1 = Len(ms) /\ Len(ms) \in 1 .. Len(ms)  BY <1>0, <2>1
    <3>2. ns[i] = m /\ ns[i - 1] = Last(ms)  BY <1>1, <2>1, <3>1 DEF Last
    <3> QED BY <3>1, <3>2 DEF Dangling
  <2>2. CASE i # Len(ms) + 1
    <3>1. i \in 2 .. Len(ms) /\ i \in 1 .. Len(ms) /\ i - 1 \in 1 .. Len(ms)  BY <1>0, <1>1, <2>2
    <3>2. ns[i] = ms[i] /\ ns[i - 1] = ms[i - 1]  BY <1>1, <3>1
    <3> QED BY <3>1, <3>2, WellPair
  <2> QED BY <2>1, <2>2
<1>5. Well(ns)  BY <1>1, <1>2, <1>3, <1>4, WellWhen
<1> QED BY <1>5 DEF ns

\* The last message made another with the same results.
LEMMA ReplaceWell ==
  ASSUME NEW ms, Well(ms), ms # <<>>, NEW m \in Messages, m.role = Last(ms).role,
         m.blocks # <<>>, ResultsFirst(Last(ms)) => ResultsFirst(m),
         Ids(m, IF Is(m, "user") THEN "use" ELSE "result") = {},
         Ids(m, "result") = Ids(Last(ms), "result")
  PROVE  /\ Well([ms EXCEPT ![Len(ms)] = m])
         /\ Len([ms EXCEPT ![Len(ms)] = m]) = Len(ms)
         /\ Last([ms EXCEPT ![Len(ms)] = m]) = m
         /\ \A i \in 1 .. Len(ms) - 1 : [ms EXCEPT ![Len(ms)] = m][i] = ms[i]
<1> DEFINE ns == [ms EXCEPT ![Len(ms)] = m]
<1>0. ms \in Seq(Messages) /\ Len(ms) \in Nat \ {0} /\ Last(ms) = ms[Len(ms)] /\ Len(ms) \in 1 .. Len(ms)
  BY LastIs DEF Well
<1>1. /\ ns \in Seq(Messages) /\ Len(ns) = Len(ms) /\ ns[Len(ms)] = m
      /\ \A i \in 1 .. Len(ms) - 1 : ns[i] = ms[i]
  BY <1>0
<1>2. Last(ns) = m  BY <1>1 DEF Last
<1> HIDE DEF ns
<1>3. Is(ns[1], "user")
  <2>1. Is(ms[1], "user")  BY DEF Well, WellFormed
  <2>2. CASE Len(ms) = 1  BY <1>0, <1>1, <2>1, <2>2 DEF Is
  <2>3. CASE Len(ms) # 1  BY <1>0, <1>1, <2>1, <2>3
  <2> QED BY <2>2, <2>3
<1>4. \A i \in 1 .. Len(ns) : Sound(ns[i]) \/ (i = 1 /\ ns[1].blocks # <<>> /\ Ids(ns[1], "use") = {})
  <2> TAKE i \in 1 .. Len(ns)
  <2>1. CASE i = Len(ms)
    <3>1. CASE i = 1
      <4>1. ns[1] = m /\ Is(m, "user")  BY <1>1, <1>3, <2>1, <3>1
      <4> QED BY <3>1, <4>1
    <3>2. CASE i # 1
      <4>1. i \in 2 .. Len(ms)  BY <1>0, <2>1, <3>2
      <4>2. ResultsFirst(ms[i])  BY <4>1, WellPair
      <4> QED BY <1>0, <1>1, <2>1, <4>2 DEF Sound
    <3> QED BY <3>1, <3>2
  <2>2. CASE i # Len(ms)
    <3>1. i \in 1 .. Len(ms) /\ ns[i] = ms[i]  BY <1>0, <1>1, <2>2
    <3> QED BY <3>1, WellSound
  <2> QED BY <2>1, <2>2
<1>5. \A i \in 2 .. Len(ns) : ns[i].role # ns[i - 1].role /\ Ids(ns[i - 1], "use") = Ids(ns[i], "result")
  <2> TAKE i \in 2 .. Len(ns)
  <2>0. i \in 2 .. Len(ms) /\ i - 1 \in 1 .. Len(ms) - 1 /\ ns[i - 1] = ms[i - 1]  BY <1>0, <1>1
  <2>1. ms[i].role # ms[i - 1].role /\ Ids(ms[i - 1], "use") = Ids(ms[i], "result")  BY <2>0, WellPair
  <2>2. CASE i = Len(ms)  BY <1>0, <1>1, <2>0, <2>1, <2>2
  <2>3. CASE i # Len(ms)
    <3>1. i \in 1 .. Len(ms) - 1  BY <1>0, <2>0, <2>3
    <3> QED BY <1>1, <2>0, <2>1, <3>1
  <2> QED BY <2>2, <2>3
<1>6. Well(ns)  BY <1>1, <1>3, <1>4, <1>5, WellWhen
<1> QED BY <1>1, <1>2, <1>6 DEF ns

\* What is left of a conversation when its head is cut.
LEMMA SuffixIs ==
  ASSUME NEW ms \in Seq(Messages), NEW n \in 0 .. Len(ms)
  PROVE  /\ Suffix(ms, n) \in Seq(Messages) /\ Len(Suffix(ms, n)) = Len(ms) - n
         /\ \A i \in 1 .. Len(ms) - n : Suffix(ms, n)[i] = ms[n + i]
         /\ n < Len(ms) => Last(Suffix(ms, n)) = Last(ms) /\ Suffix(ms, n) # <<>>
<1>1. Len(ms) \in Nat /\ n \in Nat /\ n + 1 \in 1 .. Len(ms) + 1  OBVIOUS
<1>2. /\ Suffix(ms, n) \in Seq(Messages) /\ Len(Suffix(ms, n)) = Len(ms) - n
      /\ \A i \in 1 .. Len(ms) - n : Suffix(ms, n)[i] = ms[n + i]
  BY <1>1 DEF Suffix
<1>3. n < Len(ms) => Last(Suffix(ms, n)) = Last(ms) /\ Suffix(ms, n) # <<>>
  <2> SUFFICES ASSUME n < Len(ms) PROVE Last(Suffix(ms, n)) = Last(ms) /\ Suffix(ms, n) # <<>>
    OBVIOUS
  <2>1. Len(ms) - n \in 1 .. Len(ms) - n /\ n + (Len(ms) - n) = Len(ms)  BY <1>1
  <2>2. Suffix(ms, n)[Len(ms) - n] = ms[Len(ms)]  BY <1>2, <2>1
  <2> HIDE DEF Suffix
  <2>3. Suffix(ms, n) # <<>>  BY <1>2, <2>1
  <2> QED BY <1>2, <2>2, <2>3 DEF Last
<1> QED BY <1>2, <1>3

\* What is left when the head is cut off before a message of the user's.
LEMMA SuffixWell ==
  ASSUME NEW ms, Well(ms), NEW n \in 0 .. Len(ms) - 1, Is(ms[n + 1], "user")
  PROVE  Well(Suffix(ms, n))
<1> DEFINE ns == Suffix(ms, n)
<1>0. ms \in Seq(Messages) /\ Len(ms) \in Nat /\ n \in 0 .. Len(ms)  BY DEF Well
<1>1. /\ ns \in Seq(Messages) /\ Len(ns) = Len(ms) - n
      /\ \A i \in 1 .. Len(ms) - n : ns[i] = ms[n + i]
  BY <1>0, SuffixIs
<1> HIDE DEF ns
<1>2. Is(ns[1], "user") /\ ns[1] = ms[n + 1] /\ n + 1 \in 1 .. Len(ms)  BY <1>0, <1>1
<1>3. \A i \in 1 .. Len(ns) : Sound(ns[i]) \/ (i = 1 /\ ns[1].blocks # <<>> /\ Ids(ns[1], "use") = {})
  <2> TAKE i \in 1 .. Len(ns)
  <2>1. n + i \in 1 .. Len(ms) /\ ns[i] = ms[n + i]  BY <1>0, <1>1
  <2>2. CASE i = 1  BY <1>2, <2>2, WellAlone
  <2>3. CASE i # 1
    <3>1. n + i # 1  BY <1>0, <2>3
    <3> QED BY <2>1, <3>1, WellSound
  <2> QED BY <2>2, <2>3
<1>4. \A i \in 2 .. Len(ns) : ns[i].role # ns[i - 1].role /\ Ids(ns[i - 1], "use") = Ids(ns[i], "result")
  <2> TAKE i \in 2 .. Len(ns)
  <2>1. n + i \in 2 .. Len(ms) /\ (n + i) - 1 = n + (i - 1) /\ i \in 1 .. Len(ms) - n /\ i - 1 \in 1 .. Len(ms) - n
    BY <1>0, <1>1
  <2>2. ns[i] = ms[n + i] /\ ns[i - 1] = ms[(n + i) - 1]  BY <1>1, <2>1
  <2> QED BY <2>1, <2>2, WellPair
<1>5. Well(ns)  BY <1>1, <1>2, <1>3, <1>4, WellWhen
<1> QED BY <1>5 DEF ns

-----------------------------------------------------------------------------
(* The repairs of a conversation *)

\* A result is a block, with the id and the mark it was given.
LEMMA ResultIs ==
  ASSUME NEW id \in Nat, NEW says \in Holds, NEW bad \in BOOLEAN
  PROVE  /\ Result(id, says, bad) \in Blocks
         /\ Result(id, says, bad).kind = "result" /\ Result(id, says, bad).id = id
         /\ Result(id, says, bad).failed = bad
BY DEF Result, Blocks

\* Synthesized answers the calls nothing answered, as failed, and only those.
LEMMA SynthesizedAre ==
  ASSUME NEW m \in Messages, NEW given
  PROVE  /\ Synthesized(m, given) \in Seq(Blocks)
         /\ \A j \in DOMAIN Synthesized(m, given) :
              /\ Synthesized(m, given)[j].kind = "result" /\ Synthesized(m, given)[j].failed = TRUE
              /\ Synthesized(m, given)[j].id \in Ids(m, "use") \ given
         /\ \A n \in Ids(m, "use") \ given :
              \E j \in DOMAIN Synthesized(m, given) : Synthesized(m, given)[j].id = n
<1> DEFINE places == {i \in DOMAIN m.blocks : m.blocks[i].kind = "use" /\ m.blocks[i].id \notin given}
           d == Those(m.blocks, places)
           r == [i \in DOMAIN d |-> Result(d[i].id, "said", TRUE)]
<1>0. m.blocks \in Seq(Blocks)  BY DEF Messages
<1>1. Synthesized(m, given) = r  BY DEF Synthesized
<1>2. d \in Seq(Blocks) /\ ToSet(d) = {m.blocks[i] : i \in DOMAIN m.blocks \cap places}
  BY <1>0, ThoseHave
<1>3. \A i \in DOMAIN d : \E j \in DOMAIN m.blocks :
        d[i] = m.blocks[j] /\ m.blocks[j].kind = "use" /\ m.blocks[j].id \notin given
  <2> TAKE i \in DOMAIN d
  <2>1. d[i] \in ToSet(d)  BY DEF ToSet
  <2> HIDE DEF d
  <2> QED BY <1>2, <2>1
<1>4. \A j \in DOMAIN m.blocks : (m.blocks[j].kind = "use" /\ m.blocks[j].id \notin given) =>
        \E i \in DOMAIN d : d[i] = m.blocks[j]
  <2> SUFFICES ASSUME NEW j \in DOMAIN m.blocks, m.blocks[j].kind = "use", m.blocks[j].id \notin given
               PROVE  \E i \in DOMAIN d : d[i] = m.blocks[j]
    OBVIOUS
  <2>1. m.blocks[j] \in {m.blocks[i] : i \in DOMAIN m.blocks \cap places}  OBVIOUS
  <2> HIDE DEF d, places
  <2>2. m.blocks[j] \in ToSet(d)  BY <1>2, <2>1
  <2> QED BY <2>2 DEF ToSet
<1> HIDE DEF d
<1>5. \A i \in DOMAIN d : d[i] \in Blocks /\ d[i].id \in Nat
  <2>1. \A i \in DOMAIN d : d[i] \in Blocks  BY <1>2
  <2>2. \A b \in Blocks : b.id \in Nat  BY DEF Blocks
  <2> QED BY <2>1, <2>2
<1>6. "said" \in Holds  BY DEF Holds
<1>7. \A i \in DOMAIN d : /\ r[i] \in Blocks /\ r[i].kind = "result" /\ r[i].failed = TRUE
                          /\ r[i].id = d[i].id
  BY <1>5, <1>6, ResultIs
<1>8. DOMAIN r = DOMAIN d /\ DOMAIN d = 1 .. Len(d) /\ Len(d) \in Nat  BY <1>2
<1>9. r = [i \in 1 .. Len(d) |-> r[i]]  BY <1>8
<1> HIDE DEF r
<1>10. r \in Seq(Blocks)  BY <1>7, <1>8, <1>9, IsSequence
<1>11. \A i \in DOMAIN r : r[i].id \in Ids(m, "use") \ given
  BY <1>3, <1>7, <1>8, IdsAre
<1>12. \A n \in Ids(m, "use") \ given : \E i \in DOMAIN r : r[i].id = n
  BY <1>4, <1>7, <1>8, IdsAre
<1> QED BY <1>1, <1>7, <1>8, <1>10, <1>11, <1>12

\* Where everything is answered nothing is synthesized.
LEMMA NothingSynthesized ==
  ASSUME NEW m \in Messages, NEW given, Ids(m, "use") \subseteq given
  PROVE  Synthesized(m, given) = <<>>
<1>1. Synthesized(m, given) \in Seq(Blocks)  BY SynthesizedAre
<1>2. Ids(m, "use") \ given = {}  OBVIOUS
<1>3. \A j \in DOMAIN Synthesized(m, given) : FALSE  BY <1>2, SynthesizedAre
<1>4. DOMAIN Synthesized(m, given) = {}  BY <1>3
<1>5. \A s \in Seq(Blocks) : DOMAIN s = {} => s = <<>>  OBVIOUS
<1> QED BY <1>1, <1>4, <1>5

\* The message repaired: what is synthesized, ahead of everything else.
LEMMA MissingAt ==
  ASSUME NEW ms \in Seq(Messages)
  PROVE  /\ DOMAIN RepairMissingToolResults(ms) = DOMAIN ms
         /\ \A i \in 1 .. Len(ms) :
              \/ /\ i > 1 /\ Is(ms[i], "user") /\ Is(ms[i - 1], "assistant")
                 /\ RepairMissingToolResults(ms)[i] =
                      User(Synthesized(ms[i - 1], Ids(ms[i], "result")) \o ms[i].blocks)
              \/ /\ ~(i > 1 /\ Is(ms[i], "user") /\ Is(ms[i - 1], "assistant"))
                 /\ RepairMissingToolResults(ms)[i] = ms[i]
BY DEF RepairMissingToolResults

\* A message that answers all calls before it is left alone.
LEMMA MissingNothing ==
  ASSUME NEW ms \in Seq(Messages), NEW i \in 2 .. Len(ms),
         Is(ms[i], "user"), Ids(ms[i - 1], "use") \subseteq Ids(ms[i], "result")
  PROVE  User(Synthesized(ms[i - 1], Ids(ms[i], "result")) \o ms[i].blocks) = ms[i]
<1>1. i \in 1 .. Len(ms) /\ i - 1 \in 1 .. Len(ms)  OBVIOUS
<1>2. ms[i] \in Messages /\ ms[i - 1] \in Messages /\ ms[i].blocks \in Seq(Blocks)  BY <1>1, BlocksOf
<1>3. Synthesized(ms[i - 1], Ids(ms[i], "result")) = <<>>  BY <1>2, NothingSynthesized
<1>4. <<>> \o ms[i].blocks = ms[i].blocks  BY <1>2
<1>5. User(ms[i].blocks) = ms[i]  BY <1>2 DEF Messages, User, Is
<1> QED BY <1>3, <1>4, <1>5

\* Nothing is missing.
LEMMA MissingStays ==
  ASSUME NEW ms \in Seq(Messages),
         \A i \in 2 .. Len(ms) : Is(ms[i], "user") /\ Is(ms[i - 1], "assistant") =>
                                   Ids(ms[i - 1], "use") \subseteq Ids(ms[i], "result")
  PROVE  RepairMissingToolResults(ms) = ms
<1> DEFINE ns == RepairMissingToolResults(ms)
<1>1. ns = [i \in DOMAIN ms |-> ns[i]]  BY DEF RepairMissingToolResults
<1>2. ASSUME NEW i \in 1 .. Len(ms) PROVE ns[i] = ms[i]
  <2>1. CASE i > 1 /\ Is(ms[i], "user") /\ Is(ms[i - 1], "assistant")
    <3>1. i \in 2 .. Len(ms)  BY <2>1
    <3> QED BY <2>1, <3>1, MissingAt, MissingNothing
  <2>2. CASE ~(i > 1 /\ Is(ms[i], "user") /\ Is(ms[i - 1], "assistant"))  BY <2>2, MissingAt
  <2> QED BY <2>1, <2>2
<1>3. ms = [i \in DOMAIN ms |-> ms[i]] /\ DOMAIN ms = 1 .. Len(ms)  OBVIOUS
<1> HIDE DEF ns
<1>4. ns = ms  BY <1>1, <1>2, <1>3
<1> QED BY <1>4 DEF ns

\* Of a conversation whose last message has just been said, only that one is
\* repaired.
LEMMA MissingLast ==
  ASSUME NEW ms, Well(ms), ms # <<>>, Is(Last(ms), "assistant"), NEW bs \in Seq(Blocks)
  PROVE  RepairMissingToolResults(Append(ms, User(bs)))
           = Append(ms, User(Synthesized(Last(ms), Ids(User(bs), "result")) \o bs))
<1> DEFINE m == User(bs)
           ls == Append(ms, m)
           ns == RepairMissingToolResults(ls)
           o == User(Synthesized(Last(ms), Ids(m, "result")) \o bs)
           os == Append(ms, o)
<1>0. /\ ms \in Seq(Messages) /\ Len(ms) \in Nat \ {0} /\ Last(ms) = ms[Len(ms)]
      /\ Last(ms) \in Messages /\ Len(ms) \in 1 .. Len(ms)
  BY LastIs DEF Well
<1>1. m \in Messages /\ m.blocks = bs /\ Is(m, "user")  BY DEF User, Messages, Is
<1>2. Synthesized(Last(ms), Ids(m, "result")) \o bs \in Seq(Blocks)
  <2>1. Synthesized(Last(ms), Ids(m, "result")) \in Seq(Blocks)  BY <1>0, SynthesizedAre
  <2>2. \A a, b \in Seq(Blocks) : a \o b \in Seq(Blocks)  OBVIOUS
  <2> QED BY <2>1, <2>2
<1>3. o \in Messages  BY <1>2 DEF User, Messages
<1> HIDE DEF m, o
<1>4. /\ ls \in Seq(Messages) /\ Len(ls) = Len(ms) + 1 /\ ls[Len(ms) + 1] = m
      /\ \A i \in 1 .. Len(ms) : ls[i] = ms[i]
  BY <1>0, <1>1, AppendIs
<1>5. /\ os \in Seq(Messages) /\ Len(os) = Len(ms) + 1 /\ os[Len(ms) + 1] = o
      /\ \A i \in 1 .. Len(ms) : os[i] = ms[i]
  BY <1>0, <1>3, AppendIs
<1> HIDE DEF ls, os
<1>6. ns = [i \in 1 .. Len(ls) |-> ns[i]]
  <2>1. DOMAIN ls = 1 .. Len(ls)  BY <1>4
  <2> QED BY <2>1 DEF RepairMissingToolResults
<1>7. ASSUME NEW i \in 1 .. Len(ls) PROVE ns[i] = os[i]
  <2>1. CASE i = Len(ls)
    <3>1. i > 1 /\ i = Len(ms) + 1 /\ i - 1 = Len(ms) /\ ls[i] = m /\ ls[i - 1] = Last(ms) /\ os[i] = o
      BY <1>0, <1>4, <1>5, <2>1
    <3>2. ns[i] = User(Synthesized(ls[i - 1], Ids(ls[i], "result")) \o ls[i].blocks)
      BY <1>1, <1>4, <3>1, MissingAt
    <3> QED BY <1>1, <3>1, <3>2 DEF o
  <2>2. CASE i # Len(ls)
    <3>1. i \in 1 .. Len(ms) /\ ls[i] = ms[i] /\ os[i] = ms[i]  BY <1>0, <1>4, <1>5, <2>2
    <3>2. CASE i > 1 /\ Is(ls[i], "user") /\ Is(ls[i - 1], "assistant")
      <4>1. i \in 2 .. Len(ms) /\ i - 1 \in 1 .. Len(ms) /\ ls[i - 1] = ms[i - 1] /\ i \in 2 .. Len(ls)
        BY <1>0, <1>4, <3>1, <3>2
      <4>2. Ids(ls[i - 1], "use") \subseteq Ids(ls[i], "result")  BY <3>1, <4>1, WellPair
      <4>3. User(Synthesized(ls[i - 1], Ids(ls[i], "result")) \o ls[i].blocks) = ls[i]
        BY <1>4, <3>2, <4>1, <4>2, MissingNothing
      <4>4. ns[i] = User(Synthesized(ls[i - 1], Ids(ls[i], "result")) \o ls[i].blocks)
        BY <1>4, <3>2, MissingAt
      <4> QED BY <3>1, <4>3, <4>4
    <3>3. CASE ~(i > 1 /\ Is(ls[i], "user") /\ Is(ls[i - 1], "assistant"))
      BY <1>4, <3>1, <3>3, MissingAt
    <3> QED BY <3>2, <3>3
  <2> QED BY <2>1, <2>2
<1>8. os = [i \in 1 .. Len(ls) |-> os[i]]  BY <1>4, <1>5
<1> HIDE DEF ns
<1>9. ns = os  BY <1>6, <1>7, <1>8
<1> QED BY <1>9 DEF ns, os, ls, m, o

\* When no call but those of the last message is without a message of the
\* user's behind it, only the last one may get a message of its own.
LEMMA DanglingFlat ==
  ASSUME NEW ms \in Seq(Messages), ms # <<>>,
         \A i \in 1 .. Len(ms) - 1 : Is(ms[i], "assistant") => Is(ms[i + 1], "user")
  PROVE  RepairDanglingToolUse(ms) =
           IF Is(Last(ms), "assistant") /\ Ids(Last(ms), "use") # {}
           THEN RepairMissingToolResults(Append(ms, User(Synthesized(Last(ms), {}))))
           ELSE RepairMissingToolResults(ms)
<1> DEFINE unanswered(i) == /\ Is(ms[i], "assistant") /\ Ids(ms[i], "use") # {}
                            /\ ~(i < Len(ms) /\ Is(ms[i + 1], "user"))
           ss == [i \in DOMAIN ms |-> IF unanswered(i)
                                      THEN <<ms[i], User(Synthesized(ms[i], {}))>>
                                      ELSE <<ms[i]>>]
           u == User(Synthesized(Last(ms), {}))
           tail == IF unanswered(Len(ms)) THEN <<Last(ms), u>> ELSE <<Last(ms)>>
<1>0. /\ Len(ms) \in Nat \ {0} /\ Last(ms) = ms[Len(ms)]
      /\ Last(ms) \in Messages /\ Len(ms) \in 1 .. Len(ms) /\ DOMAIN ms = 1 .. Len(ms)
  BY LastIs
<1>1. RepairDanglingToolUse(ms) = RepairMissingToolResults(FlattenSeq(ss))
  BY DEF RepairDanglingToolUse
<1>2. \A m \in Messages : User(Synthesized(m, {})) \in Messages
  BY SynthesizedAre DEF User, Messages
<1>3. u \in Messages /\ tail \in Seq(Messages)  BY <1>0, <1>2
<1>4. \A i \in 1 .. Len(ms) : ss[i] \in Seq(Messages)
  <2> TAKE i \in 1 .. Len(ms)
  <2>1. ms[i] \in Messages /\ User(Synthesized(ms[i], {})) \in Messages  BY <1>2
  <2>2. <<ms[i]>> \in Seq(Messages) /\ <<ms[i], User(Synthesized(ms[i], {}))>> \in Seq(Messages)  BY <2>1
  <2> HIDE DEF unanswered
  <2> QED BY <2>2
<1>5. ss = [i \in 1 .. Len(ms) |-> ss[i]]  BY <1>0
<1>6. \A i \in 1 .. Len(ms) - 1 : ss[i] = <<ms[i]>>
  <2> TAKE i \in 1 .. Len(ms) - 1
  <2>1. i \in DOMAIN ms /\ i < Len(ms)  BY <1>0
  <2>2. ~unanswered(i)  BY <2>1
  <2> HIDE DEF unanswered
  <2> QED BY <2>1, <2>2
<1>7. ss[Len(ms)] = tail  BY <1>0
<1> HIDE DEF ss
<1>8. ss \in Seq(Seq(Messages)) /\ Len(ss) = Len(ms)  BY <1>0, <1>4, <1>5, IsSequence
<1>9. FlattenSeq(ss) = SubSeq(ms, 1, Len(ms) - 1) \o tail
  <2> HIDE DEF tail
  <2> QED BY <1>3, <1>6, <1>7, <1>8, FlattenTail
<1>10. SubSeq(ms, 1, Len(ms) - 1) \o <<Last(ms)>> = ms  BY <1>0, FrontAndLast
<1>11. SubSeq(ms, 1, Len(ms) - 1) \o <<Last(ms), u>> = Append(ms, u)
  <2>1. SubSeq(ms, 1, Len(ms) - 1) \in Seq(Messages) /\ <<Last(ms)>> \in Seq(Messages) /\ <<u>> \in Seq(Messages)
    BY <1>0, <1>3
  <2>2. <<Last(ms), u>> = <<Last(ms)>> \o <<u>>  BY <1>0, <1>3
  <2>3. \A a, b, c \in Seq(Messages) : a \o (b \o c) = (a \o b) \o c  OBVIOUS
  <2>4. SubSeq(ms, 1, Len(ms) - 1) \o <<Last(ms), u>> = ms \o <<u>>  
    <3> DEFINE front == SubSeq(ms, 1, Len(ms) - 1)
    <3>1. front \o (<<Last(ms)>> \o <<u>>) = (front \o <<Last(ms)>>) \o <<u>>
      <4> HIDE DEF front, u
      <4> QED BY <2>1, <2>3 DEF front
    <3> QED BY <1>10, <2>2, <3>1
  <2>5. ms \o <<u>> = Append(ms, u)  BY <1>3
  <2> QED BY <2>4, <2>5
<1>12. unanswered(Len(ms)) <=> Is(Last(ms), "assistant") /\ Ids(Last(ms), "use") # {}  BY <1>0
<1> HIDE DEF unanswered, u
<1>13. tail = IF unanswered(Len(ms)) THEN <<Last(ms), u>> ELSE <<Last(ms)>>  OBVIOUS
<1> HIDE DEF tail
<1>14. FlattenSeq(ss) = IF unanswered(Len(ms)) THEN Append(ms, u) ELSE ms  BY <1>9, <1>10, <1>11, <1>13
<1> QED BY <1>1, <1>12, <1>14 DEF u

-----------------------------------------------------------------------------
(* What becomes of a message's blocks *)

\* Every call and every result of ns is one of ms, as far as its id and its mark
\* go, or a failed result of a call in D.
From(ms, ns, D) ==
  \A i \in 1 .. Len(ns) : \A j \in DOMAIN ns[i].blocks :
    ns[i].blocks[j].kind # "text" =>
      \/ \E k \in 1 .. Len(ms) : \E l \in DOMAIN ms[k].blocks :
           /\ ms[k].blocks[l].kind = ns[i].blocks[j].kind
           /\ ms[k].blocks[l].id = ns[i].blocks[j].id
           /\ ms[k].blocks[l].failed = ns[i].blocks[j].failed
      \/ /\ ns[i].blocks[j].kind = "result" /\ ns[i].blocks[j].failed = TRUE
         /\ ns[i].blocks[j].id \in D

\* Conversations that are alike have the same calls and results.
LEMMA FromAlike ==
  ASSUME NEW ms, NEW ns, AlikeAll(ms, ns)
  PROVE  From(ms, ns, {})
BY DEF AlikeAll, AlikeMessage, Alike, From

\* What comes from what came comes from the first.
LEMMA FromThrice ==
  ASSUME NEW ms, NEW ns, NEW os, NEW D, From(ms, ns, D), From(ns, os, {})
  PROVE  From(ms, os, D)
<1> SUFFICES ASSUME NEW i \in 1 .. Len(os), NEW j \in DOMAIN os[i].blocks, os[i].blocks[j].kind # "text"
             PROVE  \/ \E k \in 1 .. Len(ms) : \E l \in DOMAIN ms[k].blocks :
                         /\ ms[k].blocks[l].kind = os[i].blocks[j].kind
                         /\ ms[k].blocks[l].id = os[i].blocks[j].id
                         /\ ms[k].blocks[l].failed = os[i].blocks[j].failed
                    \/ /\ os[i].blocks[j].kind = "result" /\ os[i].blocks[j].failed = TRUE
                       /\ os[i].blocks[j].id \in D
  BY DEF From
<1>0. PICK p \in 1 .. Len(ns) : \E q \in DOMAIN ns[p].blocks :
        /\ ns[p].blocks[q].kind = os[i].blocks[j].kind
        /\ ns[p].blocks[q].id = os[i].blocks[j].id
        /\ ns[p].blocks[q].failed = os[i].blocks[j].failed
  BY DEF From
<1>1. PICK q \in DOMAIN ns[p].blocks :
        /\ ns[p].blocks[q].kind = os[i].blocks[j].kind
        /\ ns[p].blocks[q].id = os[i].blocks[j].id
        /\ ns[p].blocks[q].failed = os[i].blocks[j].failed
  BY <1>0
<1>2. \/ \E k \in 1 .. Len(ms) : \E l \in DOMAIN ms[k].blocks :
           /\ ms[k].blocks[l].kind = ns[p].blocks[q].kind
           /\ ms[k].blocks[l].id = ns[p].blocks[q].id
           /\ ms[k].blocks[l].failed = ns[p].blocks[q].failed
      \/ /\ ns[p].blocks[q].kind = "result" /\ ns[p].blocks[q].failed = TRUE
         /\ ns[p].blocks[q].id \in D
  BY <1>1 DEF From
<1> QED BY <1>1, <1>2

\* A conversation comes from itself.
LEMMA FromItself ==
  ASSUME NEW ms
  PROVE  From(ms, ms, {})
BY DEF From

\* So does what is left when its head is cut.
LEMMA FromSuffix ==
  ASSUME NEW ms \in Seq(Messages), NEW n \in 0 .. Len(ms)
  PROVE  From(ms, Suffix(ms, n), {})
<1>1. /\ Len(Suffix(ms, n)) = Len(ms) - n
      /\ \A i \in 1 .. Len(ms) - n : Suffix(ms, n)[i] = ms[n + i]
  BY SuffixIs
<1>2. \A i \in 1 .. Len(ms) - n : n + i \in 1 .. Len(ms)  OBVIOUS
<1> QED BY <1>1, <1>2 DEF From

\* One message more, whose calls and results are from D or its own.
LEMMA FromAppend ==
  ASSUME NEW ms \in Seq(Messages), NEW m \in Messages, NEW D,
         \A j \in DOMAIN m.blocks : m.blocks[j].kind # "text" =>
           /\ m.blocks[j].kind = "result" /\ m.blocks[j].failed = TRUE
           /\ m.blocks[j].id \in D
  PROVE  From(ms, Append(ms, m), D)
<1>1. /\ Len(Append(ms, m)) = Len(ms) + 1 /\ Append(ms, m)[Len(ms) + 1] = m
      /\ \A i \in 1 .. Len(ms) : Append(ms, m)[i] = ms[i]
  BY AppendIs
<1> SUFFICES ASSUME NEW i \in 1 .. Len(ms) + 1 
             PROVE  \A j \in DOMAIN Append(ms, m)[i].blocks : 
                      Append(ms, m)[i].blocks[j].kind # "text" =>
                      \/ \E k \in 1 .. Len(ms) : \E l \in DOMAIN ms[k].blocks :
                           /\ ms[k].blocks[l].kind = Append(ms, m)[i].blocks[j].kind
                           /\ ms[k].blocks[l].id = Append(ms, m)[i].blocks[j].id
                           /\ ms[k].blocks[l].failed = Append(ms, m)[i].blocks[j].failed
                      \/ /\ Append(ms, m)[i].blocks[j].kind = "result"
                         /\ Append(ms, m)[i].blocks[j].failed = TRUE
                         /\ Append(ms, m)[i].blocks[j].id \in D
  BY <1>1 DEF From
<1>2. CASE i = Len(ms) + 1  BY <1>1, <1>2
<1>3. CASE i # Len(ms) + 1
  <2>1. i \in 1 .. Len(ms)  BY <1>3
  <2>2. Append(ms, m)[i] = ms[i]  BY <1>1, <2>1
  <2> QED BY <2>1, <2>2
<1> QED BY <1>2, <1>3

\* The last message made another, of the same calls and results.
LEMMA FromReplace ==
  ASSUME NEW ms \in Seq(Messages), ms # <<>>, NEW m \in Messages,
         \A j \in DOMAIN m.blocks : m.blocks[j].kind # "text" =>
           \E l \in DOMAIN Last(ms).blocks : Last(ms).blocks[l] = m.blocks[j]
  PROVE  From(ms, [ms EXCEPT ![Len(ms)] = m], {})
<1> DEFINE ns == [ms EXCEPT ![Len(ms)] = m]
<1>1. Len(ms) \in 1 .. Len(ms) /\ Last(ms) = ms[Len(ms)] /\ Len(ms) \in Nat  BY LastIs
<1>2. Len(ns) = Len(ms) /\ ns[Len(ms)] = m /\ \A i \in 1 .. Len(ms) : i # Len(ms) => ns[i] = ms[i]
  BY <1>1
<1> HIDE DEF ns
<1>3. ASSUME NEW i \in 1 .. Len(ms), NEW j \in DOMAIN ns[i].blocks, ns[i].blocks[j].kind # "text"
      PROVE  \E k \in 1 .. Len(ms) : \E l \in DOMAIN ms[k].blocks : ms[k].blocks[l] = ns[i].blocks[j]
  <2>1. CASE i = Len(ms)  BY <1>1, <1>2, <1>3, <2>1
  <2>2. CASE i # Len(ms)  BY <1>2, <2>2
  <2> QED BY <2>1, <2>2
<1>4. From(ms, ns, {})  BY <1>2, <1>3 DEF From
<1> QED BY <1>4 DEF ns

\* A text is a block.
LEMMA TextIs ==
  ASSUME NEW says \in Texts, NEW n \in Nat
  PROVE  Text(says, n) \in Blocks /\ Text(says, n).kind = "text"
BY DEF Text, Blocks

\* Blocks in a row, and where each of them comes from.
LEMMA BlocksJoined ==
  ASSUME NEW a \in Seq(Blocks), NEW b \in Seq(Blocks)
  PROVE  /\ a \o b \in Seq(Blocks) /\ Len(a \o b) = Len(a) + Len(b)
         /\ \A i \in 1 .. Len(a) : (a \o b)[i] = a[i]
         /\ \A i \in 1 .. Len(b) : (a \o b)[Len(a) + i] = b[i]
         /\ \A j \in DOMAIN (a \o b) : (\E i \in DOMAIN a : (a \o b)[j] = a[i])
                                       \/ (\E i \in DOMAIN b : (a \o b)[j] = b[i])
         /\ ToSet(a) \subseteq ToSet(a \o b) /\ ToSet(b) \subseteq ToSet(a \o b)
<1>1. /\ a \o b \in Seq(Blocks) /\ Len(a \o b) = Len(a) + Len(b)
      /\ \A i \in 1 .. Len(a) : (a \o b)[i] = a[i]
      /\ \A i \in 1 .. Len(b) : (a \o b)[Len(a) + i] = b[i]
      /\ DOMAIN a = 1 .. Len(a) /\ DOMAIN b = 1 .. Len(b) /\ DOMAIN (a \o b) = 1 .. Len(a) + Len(b)
      /\ Len(a) \in Nat /\ Len(b) \in Nat
  OBVIOUS
<1>2. ASSUME NEW j \in DOMAIN (a \o b)
      PROVE  (\E i \in DOMAIN a : (a \o b)[j] = a[i]) \/ (\E i \in DOMAIN b : (a \o b)[j] = b[i])
  <2>1. CASE j <= Len(a)
    <3>1. j \in 1 .. Len(a)  BY <1>1, <2>1
    <3> QED BY <1>1, <3>1
  <2>2. CASE j > Len(a)
    <3>1. j - Len(a) \in 1 .. Len(b) /\ Len(a) + (j - Len(a)) = j  BY <1>1, <2>2
    <3> QED BY <1>1, <3>1
  <2> QED BY <1>1, <2>1, <2>2
<1>3. ToSet(a) \subseteq ToSet(a \o b)
  <2> SUFFICES ASSUME NEW i \in 1 .. Len(a) PROVE a[i] \in ToSet(a \o b)  BY <1>1 DEF ToSet
  <2>1. i \in DOMAIN (a \o b)  BY <1>1
  <2> QED BY <1>1, <2>1 DEF ToSet
<1>4. ToSet(b) \subseteq ToSet(a \o b)
  <2> SUFFICES ASSUME NEW i \in 1 .. Len(b) PROVE b[i] \in ToSet(a \o b)  BY <1>1 DEF ToSet
  <2>1. Len(a) + i \in DOMAIN (a \o b)  BY <1>1
  <2> QED BY <1>1, <2>1 DEF ToSet
<1> QED BY <1>1, <1>2, <1>3, <1>4

Wordy(ts) == ts \in Seq(Blocks) /\ \A i \in DOMAIN ts : ts[i].kind = "text"

\* Texts at the end of a message.
LEMMA TextsFollow ==
  ASSUME NEW m \in Messages, NEW ts, Wordy(ts)
  PROVE  LET n == [m EXCEPT !.blocks = @ \o ts]
         IN /\ n \in Messages /\ n.role = m.role /\ n.blocks = m.blocks \o ts
            /\ m.blocks # <<>> \/ ts # <<>> => n.blocks # <<>>
            /\ ResultsFirst(m) => ResultsFirst(n)
            /\ \A kind : kind # "text" => Ids(n, kind) = Ids(m, kind)
            /\ \A j \in DOMAIN n.blocks : n.blocks[j].kind # "text" =>
                 \E l \in DOMAIN m.blocks : m.blocks[l] = n.blocks[j]
<1> DEFINE n == [m EXCEPT !.blocks = @ \o ts]
           a == m.blocks
<1>1. a \in Seq(Blocks) /\ ts \in Seq(Blocks)  BY DEF Messages, Wordy
<1>2. /\ a \o ts \in Seq(Blocks) /\ Len(a \o ts) = Len(a) + Len(ts)
      /\ \A i \in 1 .. Len(a) : (a \o ts)[i] = a[i]
      /\ \A i \in 1 .. Len(ts) : (a \o ts)[Len(a) + i] = ts[i]
      /\ \A j \in DOMAIN (a \o ts) : (\E i \in DOMAIN a : (a \o ts)[j] = a[i])
                                       \/ (\E i \in DOMAIN ts : (a \o ts)[j] = ts[i])
  BY <1>1, BlocksJoined
<1>3. n \in Messages /\ n.role = m.role /\ n.blocks = a \o ts  BY <1>2 DEF Messages
<1> HIDE DEF n
<1>4. a # <<>> \/ ts # <<>> => n.blocks # <<>>
  <2>1. \A s \in Seq(Blocks) : s = <<>> <=> Len(s) = 0  OBVIOUS
  <2>2. Len(a) \in Nat /\ Len(ts) \in Nat  BY <1>1
  <2> HIDE DEF a
  <2> QED BY <1>1, <1>2, <1>3, <2>1, <2>2
<1>5. ASSUME NEW j \in DOMAIN n.blocks, n.blocks[j].kind # "text"
      PROVE  j \in 1 .. Len(a) /\ n.blocks[j] = a[j]
  <2>1. j \in 1 .. Len(a) + Len(ts) /\ Len(a) \in Nat /\ Len(ts) \in Nat  BY <1>1, <1>2, <1>3
  <2>2. CASE j <= Len(a)  BY <1>2, <1>3, <2>1, <2>2
  <2>3. CASE j > Len(a)
    <3>1. j - Len(a) \in 1 .. Len(ts) /\ Len(a) + (j - Len(a)) = j  BY <2>1, <2>3
    <3>2. n.blocks[j] = ts[j - Len(a)]  BY <1>2, <1>3, <3>1
    <3>3. ts[j - Len(a)].kind = "text"  BY <1>1, <3>1 DEF Wordy
    <3> QED BY <1>5, <3>2, <3>3
  <2> QED BY <2>1, <2>2, <2>3
<1>6. DOMAIN a = 1 .. Len(a) /\ DOMAIN n.blocks = 1 .. Len(a) + Len(ts) /\ Len(a) \in Nat /\ Len(ts) \in Nat
      /\ \A i \in 1 .. Len(a) : i \in DOMAIN n.blocks /\ n.blocks[i] = a[i]
  BY <1>1, <1>2, <1>3
<1>7. ResultsFirst(m) => ResultsFirst(n)
  <2> SUFFICES ASSUME ResultsFirst(m), NEW j \in DOMAIN n.blocks, NEW k \in DOMAIN n.blocks,
                      j < k, n.blocks[k].kind = "result"
               PROVE  n.blocks[j].kind = "result"
    BY DEF ResultsFirst
  <2>1. k \in 1 .. Len(a) /\ n.blocks[k] = a[k]  BY <1>5
  <2>2. j \in 1 .. Len(a)  BY <1>6, <2>1
  <2>3. a[j].kind = "result"  BY <1>6, <2>1, <2>2 DEF ResultsFirst
  <2> QED BY <1>6, <2>2, <2>3
<1>8. ASSUME NEW kind, kind # "text" PROVE Ids(n, kind) = Ids(m, kind)
  <2>1. \A x : x \in Ids(n, kind) => x \in Ids(m, kind)
    <3> TAKE x
    <3> HAVE x \in Ids(n, kind)
    <3>1. PICK j \in DOMAIN n.blocks : n.blocks[j].kind = kind /\ n.blocks[j].id = x  BY IdsAre
    <3>2. j \in DOMAIN a /\ n.blocks[j] = a[j]  BY <1>5, <1>6, <1>8, <3>1
    <3> QED BY <3>1, <3>2, IdsAre
  <2>2. \A x : x \in Ids(m, kind) => x \in Ids(n, kind)  BY <1>6, IdsAre
  <2> QED BY <2>1, <2>2
<1> QED BY <1>3, <1>4, <1>5, <1>6, <1>7, <1>8 DEF n

\* Texts at the end of the last message.
LEMMA AppendToLastWell ==
  ASSUME NEW ms, Well(ms), ms # <<>>, NEW ts, Wordy(ts)
  PROVE  LET ns == AppendToLast(ms, ts)
         IN /\ Well(ns) /\ Len(ns) = Len(ms) /\ Last(ns).role = Last(ms).role
            /\ Last(ns).blocks = Last(ms).blocks \o ts
            /\ \A i \in 1 .. Len(ms) - 1 : ns[i] = ms[i]
            /\ Ids(Last(ns), "result") = Ids(Last(ms), "result")
            /\ Ids(Last(ns), "use") = Ids(Last(ms), "use")
            /\ From(ms, ns, {})
<1> DEFINE m == [Last(ms) EXCEPT !.blocks = @ \o ts]
           ns == [ms EXCEPT ![Len(ms)] = m]
<1>0. /\ ms \in Seq(Messages) /\ Last(ms) \in Messages /\ Last(ms) = ms[Len(ms)]
      /\ Len(ms) \in 1 .. Len(ms) /\ Len(ms) \in Nat
  BY LastIs DEF Well
<1>1. AppendToLast(ms, ts) = ns  BY <1>0 DEF AppendToLast
<1>2. /\ m \in Messages /\ m.role = Last(ms).role /\ m.blocks = Last(ms).blocks \o ts
      /\ Last(ms).blocks # <<>> \/ ts # <<>> => m.blocks # <<>>
      /\ ResultsFirst(Last(ms)) => ResultsFirst(m)
      /\ \A kind : kind # "text" => Ids(m, kind) = Ids(Last(ms), kind)
      /\ \A j \in DOMAIN m.blocks : m.blocks[j].kind # "text" =>
           \E l \in DOMAIN Last(ms).blocks : Last(ms).blocks[l] = m.blocks[j]
  BY <1>0, TextsFollow
<1> HIDE DEF m
<1>3. m.blocks # <<>>  BY <1>0, <1>2, WellAlone
<1>4. Ids(m, "use") = Ids(Last(ms), "use") /\ Ids(m, "result") = Ids(Last(ms), "result")  BY <1>2
<1>5. Ids(m, IF Is(m, "user") THEN "use" ELSE "result") = {}
  <2>1. ms[Len(ms)].role \in {"user", "assistant"}  BY <1>0, WellAlone
  <2> QED BY <1>0, <1>2, <1>4, <2>1, WellAlone DEF Is
<1>6. Well(ns) /\ Len(ns) = Len(ms) /\ Last(ns) = m /\ \A i \in 1 .. Len(ms) - 1 : ns[i] = ms[i]
  BY <1>2, <1>3, <1>4, <1>5, ReplaceWell
<1>7. From(ms, ns, {})  BY <1>0, <1>2, FromReplace
<1> QED BY <1>1, <1>2, <1>4, <1>6, <1>7

\* An initial part of the numbers up to n is the numbers up to its size.
LEMMA SizeOfInitial ==
  ASSUME NEW n \in Nat, NEW S \in SUBSET (1 .. n), \A i \in S : 1 .. i \subseteq S
  PROVE  Cardinality(S) \in Nat /\ S = 1 .. Cardinality(S)
<1> DEFINE T == {k \in Nat : k > n \/ k \notin S \/ k = 0}
           R == {k \in Nat : S \subseteq 1 .. k => S = 1 .. Cardinality(S)}
<1>1. 0 \in R
  <2>1. 1 .. 0 = {} /\ Cardinality({}) = 0  BY FS_EmptySet
  <2> QED BY <2>1
<1>2. ASSUME NEW k \in Nat, k \in R PROVE k + 1 \in R
  <2> SUFFICES ASSUME S \subseteq 1 .. k + 1 PROVE S = 1 .. Cardinality(S)  OBVIOUS
  <2>1. CASE k + 1 \in S
    <3>1. S = 1 .. k + 1  BY <2>1
    <3>2. Cardinality(1 .. k + 1) = k + 1
      <4>1. Cardinality(1 .. k + 1) = IF 1 > k + 1 THEN 0 ELSE (k + 1) - 1 + 1
        <5>1. 1 \in Int /\ k + 1 \in Int  OBVIOUS
        <5> QED BY <5>1, FS_Interval
      <4> QED BY <4>1
    <3> QED BY <3>1, <3>2
  <2>2. CASE k + 1 \notin S
    <3>1. S \subseteq 1 .. k
      <4> SUFFICES ASSUME NEW i \in S PROVE i \in 1 .. k  OBVIOUS
      <4>1. i \in 1 .. k + 1 /\ i # k + 1  BY <2>2
      <4> QED BY <4>1
    <3> QED BY <1>2, <3>1
  <2> QED BY <2>1, <2>2
<1> HIDE DEF R
<1>3. \A k \in Nat : k \in R  BY <1>1, <1>2, NatSetInduction
<1>4. S = 1 .. Cardinality(S)
  <2>1. n \in R  BY <1>3
  <2> QED BY <2>1 DEF R
<1>5. IsFiniteSet(S)
  <2>1. IsFiniteSet(1 .. n)
    <3>1. 1 \in Int /\ n \in Int  OBVIOUS
    <3> QED BY <3>1, FS_Interval
  <2> QED BY <2>1, FS_Subset
<1> QED BY <1>4, <1>5, FS_CardinalityType

\* A text behind the results of a message.
LEMMA TextInside ==
  ASSUME NEW m \in Messages, NEW at \in 0 .. Len(m.blocks), NEW text \in Blocks, text.kind = "text",
         \A i \in at + 1 .. Len(m.blocks) : m.blocks[i].kind # "result"
  PROVE  LET n == [m EXCEPT !.blocks = Prefix(m.blocks, at) \o <<text>> \o Suffix(m.blocks, at)]
         IN /\ n \in Messages /\ n.role = m.role /\ n.blocks # <<>>
            /\ ResultsFirst(m) => ResultsFirst(n)
            /\ \A kind : kind # "text" => Ids(n, kind) = Ids(m, kind)
            /\ \A j \in DOMAIN n.blocks : n.blocks[j].kind # "text" =>
                 \E l \in DOMAIN m.blocks : m.blocks[l] = n.blocks[j]
            /\ ToSet(m.blocks) \subseteq ToSet(n.blocks)
<1> DEFINE a == m.blocks
           bs == Prefix(a, at) \o <<text>> \o Suffix(a, at)
           n == [m EXCEPT !.blocks = bs]
<1>1. a \in Seq(Blocks) /\ Len(a) \in Nat /\ DOMAIN a = 1 .. Len(a)  BY DEF Messages
<1> HIDE DEF a
<1>2. /\ Prefix(a, at) \in Seq(Blocks) /\ Len(Prefix(a, at)) = at
      /\ \A i \in 1 .. at : Prefix(a, at)[i] = a[i]
  BY <1>1 DEF Prefix, a
<1>3. /\ Suffix(a, at) \in Seq(Blocks) /\ Len(Suffix(a, at)) = Len(a) - at
      /\ \A i \in 1 .. Len(a) - at : Suffix(a, at)[i] = a[at + i]
  BY <1>1 DEF Suffix, a
<1>4. at \in Nat /\ at <= Len(a)  BY <1>1 DEF a
<1> DEFINE p == Prefix(a, at)  q == Suffix(a, at)
<1> HIDE DEF p, q
<1>5. /\ p \in Seq(Blocks) /\ Len(p) = at /\ \A i \in 1 .. at : p[i] = a[i]
  BY <1>2 DEF p
<1>6. /\ q \in Seq(Blocks) /\ Len(q) = Len(a) - at /\ \A i \in 1 .. Len(a) - at : q[i] = a[at + i]
  BY <1>3 DEF q
<1>7. bs = p \o <<text>> \o q  BY DEF p, q
<1>8. <<text>> \in Seq(Blocks)  OBVIOUS
<1>9. /\ bs \in Seq(Blocks) /\ Len(bs) = Len(a) + 1
      /\ \A i \in 1 .. at : bs[i] = a[i]
      /\ bs[at + 1] = text
      /\ \A i \in at + 2 .. Len(a) + 1 : bs[i] = a[i - 1]
  <2>1. /\ p \o <<text>> \in Seq(Blocks) /\ Len(p \o <<text>>) = at + 1
        /\ (\A i \in 1 .. at : (p \o <<text>>)[i] = p[i]) /\ (p \o <<text>>)[at + 1] = text
    BY <1>4, <1>5, <1>8
  <2> DEFINE r == p \o <<text>>
  <2> HIDE DEF r
  <2>2. r \in Seq(Blocks) /\ Len(r) = at + 1 /\ (\A i \in 1 .. at : r[i] = p[i]) /\ r[at + 1] = text
    BY <2>1 DEF r
  <2>3. bs = r \o q  BY <1>7 DEF r
  <2>4. /\ r \o q \in Seq(Blocks) /\ Len(r \o q) = Len(r) + Len(q)
        /\ \A i \in 1 .. Len(r) : (r \o q)[i] = r[i]
        /\ \A i \in 1 .. Len(q) : (r \o q)[Len(r) + i] = q[i]
    BY <1>6, <2>2, BlocksJoined
  <2>5. \A i \in at + 2 .. Len(a) + 1 : bs[i] = a[i - 1]
    <3> TAKE i \in at + 2 .. Len(a) + 1
    <3>1. i - (at + 1) \in 1 .. Len(q) /\ (at + 1) + (i - (at + 1)) = i /\ at + (i - (at + 1)) = i - 1
      BY <1>1, <1>4, <1>6
    <3>2. (r \o q)[i] = q[i - (at + 1)]  BY <2>2, <2>4, <3>1
    <3>3. q[i - (at + 1)] = a[i - 1]  BY <1>6, <3>1
    <3> QED BY <2>3, <3>2, <3>3
  <2>6. \A i \in 1 .. at : i \in 1 .. Len(r)  BY <1>4, <2>2
  <2>7. at + 1 \in 1 .. Len(r)  BY <1>4, <2>2
  <2>8. Len(r) + Len(q) = Len(a) + 1  BY <1>1, <1>4, <1>6, <2>2
  <2>9. \A i \in 1 .. at : (r \o q)[i] = a[i]  BY <1>5, <2>2, <2>4, <2>6
  <2>10. (r \o q)[at + 1] = text  BY <2>2, <2>4, <2>7
  <2> QED BY <2>3, <2>4, <2>5, <2>8, <2>9, <2>10
<1> HIDE DEF bs
<1>10. n \in Messages /\ n.role = m.role /\ n.blocks = bs  BY <1>9 DEF Messages
<1> HIDE DEF n
<1>11. n.blocks # <<>> /\ DOMAIN bs = 1 .. Len(a) + 1  BY <1>1, <1>9, <1>10
<1>12. ASSUME NEW j \in DOMAIN bs, bs[j].kind # "text"
       PROVE  \E l \in DOMAIN a : /\ a[l] = bs[j] /\ (j <= at => l = j) /\ (j > at => l = j - 1 /\ l > at)
                                  /\ (j > at => bs[j].kind # "result")
  <2>1. CASE j <= at
    <3>1. j \in 1 .. at /\ j \in DOMAIN a  BY <1>1, <1>4, <1>11, <2>1
    <3> QED BY <1>9, <2>1, <3>1
  <2>2. CASE j = at + 1  BY <1>9, <1>12, <2>2
  <2>3. CASE j > at + 1
    <3>1. j \in at + 2 .. Len(a) + 1 /\ j - 1 \in at + 1 .. Len(a) /\ j - 1 \in DOMAIN a
      BY <1>1, <1>4, <1>11, <2>3
    <3>2. bs[j] = a[j - 1]  BY <1>9, <3>1
    <3>3. a[j - 1].kind # "result"  BY <3>1 DEF a
    <3>4. j > at /\ ~(j <= at) /\ j - 1 > at  BY <1>4, <2>3, <3>1
    <3> QED BY <3>1, <3>2, <3>3, <3>4
  <2>4. j \in Nat  BY <1>1, <1>11
  <2> QED BY <1>4, <2>1, <2>2, <2>3, <2>4
<1>13. ASSUME NEW l \in DOMAIN a
       PROVE  \E j \in DOMAIN bs : bs[j] = a[l]
  <2>1. CASE l <= at
    <3>1. l \in 1 .. at /\ l \in DOMAIN bs  BY <1>1, <1>4, <1>11, <2>1
    <3> QED BY <1>9, <3>1
  <2>2. CASE l > at
    <3>1. l + 1 \in at + 2 .. Len(a) + 1 /\ l + 1 \in DOMAIN bs /\ (l + 1) - 1 = l  BY <1>1, <1>4, <1>11, <2>2
    <3>2. bs[l + 1] = a[l]  BY <1>9, <3>1
    <3> QED BY <3>1, <3>2
  <2>3. l \in Nat  BY <1>1
  <2> QED BY <1>4, <2>1, <2>2, <2>3
<1>14. ResultsFirst(m) => ResultsFirst(n)
  <2> SUFFICES ASSUME ResultsFirst(m), NEW j \in DOMAIN bs, NEW k \in DOMAIN bs, j < k, bs[k].kind = "result"
               PROVE  bs[j].kind = "result"
    BY <1>10 DEF ResultsFirst
  <2>0. j \in Nat /\ k \in Nat  BY <1>1, <1>11
  <2>1. k <= at  BY <1>4, <1>12, <2>0
  <2>2. k \in 1 .. at /\ j \in 1 .. at /\ j \in DOMAIN a /\ k \in DOMAIN a  BY <1>1, <1>4, <1>11, <2>0, <2>1
  <2>3. bs[k] = a[k] /\ bs[j] = a[j]  BY <1>9, <2>2
  <2> QED BY <2>2, <2>3 DEF ResultsFirst, a
<1>15. ASSUME NEW kind, kind # "text" PROVE Ids(n, kind) = Ids(m, kind)
  <2>1. \A x : x \in Ids(n, kind) => x \in Ids(m, kind)
    <3> TAKE x
    <3> HAVE x \in Ids(n, kind)
    <3>1. PICK j \in DOMAIN bs : bs[j].kind = kind /\ bs[j].id = x  BY <1>10, IdsAre
    <3>2. \E l \in DOMAIN a : a[l] = bs[j]  BY <1>12, <1>15, <3>1
    <3> QED BY <3>1, <3>2, IdsAre DEF a
  <2>2. \A x : x \in Ids(m, kind) => x \in Ids(n, kind)
    <3> TAKE x
    <3> HAVE x \in Ids(m, kind)
    <3>1. PICK l \in DOMAIN a : a[l].kind = kind /\ a[l].id = x  BY IdsAre DEF a
    <3>2. \E j \in DOMAIN bs : bs[j] = a[l]  BY <1>13
    <3> QED BY <1>10, <3>1, <3>2, IdsAre
  <2> QED BY <2>1, <2>2
<1>16. ToSet(a) \subseteq ToSet(bs)  BY <1>13 DEF ToSet
<1>17. \A j \in DOMAIN n.blocks : n.blocks[j].kind # "text" => \E l \in DOMAIN m.blocks : m.blocks[l] = n.blocks[j]
  BY <1>10, <1>12 DEF a
<1> QED BY <1>10, <1>11, <1>14, <1>15, <1>16, <1>17 DEF n, bs, a

\* The volatile context in a conversation.
LEMMA AfterResultsWell ==
  ASSUME NEW ms, Well(ms), ms # <<>>, NEW text \in Blocks, text.kind = "text"
  PROVE  LET ns == AfterResults(ms, text)
         IN /\ Well(ns) /\ Len(ns) = Len(ms) /\ Last(ns).role = Last(ms).role
            /\ ToSet(Last(ms).blocks) \subseteq ToSet(Last(ns).blocks)
            /\ \A i \in 1 .. Len(ms) - 1 : ns[i] = ms[i]
            /\ Ids(Last(ns), "result") = Ids(Last(ms), "result")
            /\ Ids(Last(ns), "use") = Ids(Last(ms), "use")
            /\ From(ms, ns, {})
<1> DEFINE blocks == Last(ms).blocks
           S == {i \in DOMAIN blocks : \E j \in i .. Len(blocks) : blocks[j].kind = "result"}
           at == Cardinality(S)
           m == [Last(ms) EXCEPT !.blocks = Prefix(blocks, at) \o <<text>> \o Suffix(blocks, at)]
           ns == [ms EXCEPT ![Len(ms)] = m]
<1>0. /\ ms \in Seq(Messages) /\ Last(ms) \in Messages /\ Last(ms) = ms[Len(ms)]
      /\ Len(ms) \in 1 .. Len(ms) /\ Len(ms) \in Nat
  BY LastIs DEF Well
<1>1. AfterResults(ms, text) = ns  BY <1>0 DEF AfterResults
<1>2. blocks \in Seq(Blocks) /\ Len(blocks) \in Nat /\ DOMAIN blocks = 1 .. Len(blocks)
  BY <1>0 DEF Messages
<1>3. at \in Nat /\ S = 1 .. at
  <2>1. S \in SUBSET (1 .. Len(blocks))  BY <1>2
  <2>2. \A i \in S : 1 .. i \subseteq S
    <3> SUFFICES ASSUME NEW i \in S, NEW k \in 1 .. i PROVE k \in S  OBVIOUS
    <3>1. PICK j \in i .. Len(blocks) : blocks[j].kind = "result"  OBVIOUS
    <3>2. k \in DOMAIN blocks /\ j \in k .. Len(blocks)  BY <1>2
    <3> QED BY <3>1, <3>2
  <2> HIDE DEF S, blocks
  <2> QED BY <1>2, <2>1, <2>2, SizeOfInitial
<1>4. at \in 0 .. Len(blocks)
  <2>1. at # 0 => at \in S
    <3>1. \A n \in Nat : n # 0 => n \in 1 .. n  OBVIOUS
    <3> HIDE DEF at, S
    <3> QED BY <1>3, <3>1
  <2>2. at # 0 => at \in 1 .. Len(blocks)  BY <1>2, <2>1
  <2> HIDE DEF at
  <2> QED BY <1>2, <1>3, <2>2
<1>5. \A i \in at + 1 .. Len(blocks) : blocks[i].kind # "result"
  <2> SUFFICES ASSUME NEW i \in at + 1 .. Len(blocks), blocks[i].kind = "result" PROVE FALSE  OBVIOUS
  <2>1. i \in DOMAIN blocks /\ i \in i .. Len(blocks) /\ i > at  BY <1>2, <1>3
  <2>2. i \in S  BY <2>1
  <2> HIDE DEF S, at
  <2> QED BY <1>3, <2>1, <2>2
<1> HIDE DEF S
<1>6. /\ m \in Messages /\ m.role = Last(ms).role /\ m.blocks # <<>>
      /\ ResultsFirst(Last(ms)) => ResultsFirst(m)
      /\ \A kind : kind # "text" => Ids(m, kind) = Ids(Last(ms), kind)
      /\ \A j \in DOMAIN m.blocks : m.blocks[j].kind # "text" =>
           \E l \in DOMAIN Last(ms).blocks : Last(ms).blocks[l] = m.blocks[j]
      /\ ToSet(Last(ms).blocks) \subseteq ToSet(m.blocks)
  <2> HIDE DEF at
  <2> QED BY <1>0, <1>4, <1>5, TextInside
<1> HIDE DEF m
<1>7. Ids(m, "use") = Ids(Last(ms), "use") /\ Ids(m, "result") = Ids(Last(ms), "result")  BY <1>6
<1>8. Ids(m, IF Is(m, "user") THEN "use" ELSE "result") = {}
  <2>1. ms[Len(ms)].role \in {"user", "assistant"}  BY <1>0, WellAlone
  <2> QED BY <1>0, <1>6, <1>7, <2>1, WellAlone DEF Is
<1>9. Well(ns) /\ Len(ns) = Len(ms) /\ Last(ns) = m /\ \A i \in 1 .. Len(ms) - 1 : ns[i] = ms[i]
  BY <1>6, <1>7, <1>8, ReplaceWell
<1>10. From(ms, ns, {})  BY <1>0, <1>6, FromReplace
<1> QED BY <1>1, <1>6, <1>7, <1>9, <1>10

-----------------------------------------------------------------------------
(* The repairs of a well-formed conversation *)

\* Roles take turns, every message of the user's answers what is before it.
LEMMA WellTurns ==
  ASSUME NEW ms, Well(ms)
  PROVE  /\ Alternates(ms)
         /\ \A i \in 1 .. Len(ms) - 1 : Is(ms[i], "assistant") => Is(ms[i + 1], "user")
         /\ \A i \in 2 .. Len(ms) : Is(ms[i], "user") /\ Is(ms[i - 1], "assistant") =>
                                      Ids(ms[i - 1], "use") \subseteq Ids(ms[i], "result")
<1>0. ms \in Seq(Messages) /\ Len(ms) \in Nat  BY DEF Well
<1>1. Alternates(ms)  BY WellPair DEF Alternates
<1>2. \A i \in 1 .. Len(ms) - 1 : Is(ms[i], "assistant") => Is(ms[i + 1], "user")
  <2> TAKE i \in 1 .. Len(ms) - 1
  <2>1. i + 1 \in 2 .. Len(ms) /\ i + 1 \in 1 .. Len(ms) /\ (i + 1) - 1 = i  BY <1>0
  <2>2. ms[i + 1].role # ms[i].role  BY <2>1, WellPair
  <2>3. ms[i + 1].role \in {"user", "assistant"}  BY <2>1, WellAlone
  <2> QED BY <2>2, <2>3 DEF Is
<1>3. \A i \in 2 .. Len(ms) : Ids(ms[i - 1], "use") = Ids(ms[i], "result")  BY WellPair
<1> QED BY <1>1, <1>2, <1>3

\* A message of the user's leaves nothing dangling.
LEMMA UserLast ==
  ASSUME NEW ms, Well(ms), ms # <<>>
  PROVE  /\ Last(ms).role \in {"user", "assistant"}
         /\ Is(Last(ms), "user") => Dangling(ms) = {}
         /\ Dangling(ms) = Ids(Last(ms), "use")
<1>1. ms \in Seq(Messages)  BY DEF Well
<1>2. Len(ms) \in 1 .. Len(ms) /\ Last(ms) = ms[Len(ms)]  BY <1>1, LastIs
<1> QED BY <1>2, WellAlone DEF Dangling

\* A conversation nothing dangles from is left alone.
LEMMA RepairedWhole ==
  ASSUME NEW ms, Well(ms), Dangling(ms) = {}
  PROVE  RepairDanglingToolUse(ms) = ms
<1>0. ms \in Seq(Messages)  BY DEF Well
<1>1. RepairMissingToolResults(ms) = ms  BY <1>0, WellTurns, MissingStays
<1>2. CASE ms = <<>>
  <2> DEFINE unanswered(i) == /\ Is(ms[i], "assistant") /\ Ids(ms[i], "use") # {}
                              /\ ~(i < Len(ms) /\ Is(ms[i + 1], "user"))
             ss == [i \in DOMAIN ms |-> IF unanswered(i)
                                        THEN <<ms[i], User(Synthesized(ms[i], {}))>>
                                        ELSE <<ms[i]>>]
  <2>1. RepairDanglingToolUse(ms) = RepairMissingToolResults(FlattenSeq(ss))
    BY DEF RepairDanglingToolUse
  <2>2. ss = <<>>  BY <1>2
  <2> HIDE DEF ss
  <2> QED BY <1>1, <1>2, <2>1, <2>2, FlattenEmpty
<1>3. CASE ms # <<>>
  <2>1. RepairDanglingToolUse(ms) =
           IF Is(Last(ms), "assistant") /\ Ids(Last(ms), "use") # {}
           THEN RepairMissingToolResults(Append(ms, User(Synthesized(Last(ms), {}))))
           ELSE RepairMissingToolResults(ms)
    BY <1>0, <1>3, WellTurns, DanglingFlat
  <2> QED BY <1>1, <1>3, <2>1, UserLast
<1> QED BY <1>2, <1>3

\* The answers synthesized for the calls of m, with perhaps a text behind them.
LEMMA Answering ==
  ASSUME NEW m \in Messages, NEW ts, Wordy(ts), Ids(m, "use") # {} \/ ts # <<>>
  PROVE  LET n == User(Synthesized(m, {}) \o ts)
         IN /\ Sound(n) /\ Is(n, "user") /\ n.blocks = Synthesized(m, {}) \o ts
            /\ Ids(n, "result") = Ids(m, "use")
            /\ ToSet(ts) \subseteq ToSet(n.blocks)
            /\ \A j \in DOMAIN n.blocks : n.blocks[j].kind # "text" =>
                 /\ n.blocks[j].kind = "result" /\ n.blocks[j].failed = TRUE
                 /\ n.blocks[j].id \in Ids(m, "use")
<1> DEFINE a == Synthesized(m, {})
           bs == a \o ts
           n == User(bs)
<1>1. /\ a \in Seq(Blocks)
      /\ \A j \in DOMAIN a : a[j].kind = "result" /\ a[j].failed = TRUE /\ a[j].id \in Ids(m, "use")
      /\ \A x \in Ids(m, "use") : \E j \in DOMAIN a : a[j].id = x
  <2>1. Ids(m, "use") \ {} = Ids(m, "use")  OBVIOUS
  <2> HIDE DEF a
  <2> QED BY <2>1, SynthesizedAre DEF a
<1> HIDE DEF a
<1>2. ts \in Seq(Blocks) /\ \A i \in DOMAIN ts : ts[i].kind = "text"  BY DEF Wordy
<1>3. /\ bs \in Seq(Blocks) /\ Len(bs) = Len(a) + Len(ts)
      /\ \A i \in 1 .. Len(a) : bs[i] = a[i]
      /\ \A i \in 1 .. Len(ts) : bs[Len(a) + i] = ts[i]
      /\ \A j \in DOMAIN bs : (\E i \in DOMAIN a : bs[j] = a[i]) \/ (\E i \in DOMAIN ts : bs[j] = ts[i])
      /\ ToSet(a) \subseteq ToSet(bs) /\ ToSet(ts) \subseteq ToSet(bs)
  BY <1>1, <1>2, BlocksJoined
<1>4. /\ Len(a) \in Nat /\ Len(ts) \in Nat /\ DOMAIN a = 1 .. Len(a) /\ DOMAIN ts = 1 .. Len(ts)
      /\ DOMAIN bs = 1 .. Len(a) + Len(ts)
  BY <1>1, <1>2, <1>3
<1> HIDE DEF bs
<1>5. n \in Messages /\ n.blocks = bs /\ n.role = "user"  BY <1>3 DEF User, Messages
<1> HIDE DEF n
<1>6. \A j \in DOMAIN bs : bs[j].kind \in {"text", "result"}  BY <1>1, <1>2, <1>3
<1>7. ResultsFirst(n)
  <2> SUFFICES ASSUME NEW j \in DOMAIN bs, NEW k \in DOMAIN bs, j < k, bs[k].kind = "result"
               PROVE  bs[j].kind = "result"
    BY <1>5 DEF ResultsFirst
  <2>1. k <= Len(a)
    <3> SUFFICES ASSUME k > Len(a) PROVE FALSE  BY <1>4
    <3>1. k - Len(a) \in 1 .. Len(ts) /\ Len(a) + (k - Len(a)) = k  BY <1>4
    <3>2. bs[k] = ts[k - Len(a)]  BY <1>3, <3>1
    <3> QED BY <1>2, <1>4, <3>1, <3>2
  <2>2. j \in 1 .. Len(a)  BY <1>4, <2>1
  <2> QED BY <1>1, <1>3, <1>4, <2>2
<1>8. \A x : x \in Ids(n, "result") <=> x \in Ids(m, "use")
  <2> TAKE x
  <2>1. ASSUME x \in Ids(n, "result") PROVE x \in Ids(m, "use")
    <3>1. PICK j \in DOMAIN bs : bs[j].kind = "result" /\ bs[j].id = x  BY <1>5, <2>1, IdsAre
    <3> QED BY <1>1, <1>2, <1>3, <3>1
  <2>2. ASSUME x \in Ids(m, "use") PROVE x \in Ids(n, "result")
    <3>1. PICK j \in DOMAIN a : a[j].id = x  BY <1>1, <2>2
    <3>2. j \in DOMAIN bs /\ bs[j] = a[j]  BY <1>3, <1>4
    <3> QED BY <1>1, <1>5, <3>1, <3>2, IdsAre
  <2> QED BY <2>1, <2>2
<1>9. Ids(n, "use") = {}
  <2>1. \A x : x \notin Ids(n, "use")  BY <1>5, <1>6, IdsAre
  <2> QED BY <2>1
<1>10. bs # <<>>
  <2>1. CASE ts # <<>>
    <3>1. Len(ts) # 0  BY <1>2, <2>1
    <3>2. 1 \in DOMAIN ts  BY <1>4, <3>1
    <3>3. DOMAIN bs # {}  BY <1>4, <3>2
    <3> QED BY <3>3
  <2>2. CASE Ids(m, "use") # {}
    <3>1. PICK j : j \in DOMAIN a  BY <1>1, <2>2
    <3>2. j \in DOMAIN bs  BY <1>4, <3>1
    <3> QED BY <3>2
  <2> QED BY <2>1, <2>2
<1>11. \A j \in DOMAIN bs : bs[j].kind # "text" =>
         bs[j].kind = "result" /\ bs[j].failed = TRUE /\ bs[j].id \in Ids(m, "use")
  BY <1>1, <1>2, <1>3
<1>12. Sound(n)  BY <1>5, <1>7, <1>9, <1>10 DEF Sound, Is
<1> QED BY <1>3, <1>5, <1>8, <1>11, <1>12 DEF n, bs, a, Is

\* An empty text.
LEMMA NoWords == Wordy(<<>>)
BY DEF Wordy

\* Calls that dangle get a message of results.
LEMMA RestoredTail ==
  ASSUME NEW ms, Well(ms), Dangling(ms) # {}
  PROVE  LET ns == RepairDanglingToolUse(ms)
         IN /\ Well(ns) /\ Dangling(ns) = {} /\ Is(Last(ns), "user") /\ ns # <<>>
            /\ From(ms, ns, Dangling(ms))
<1> DEFINE bs == Synthesized(Last(ms), {})
           n == User(bs \o <<>>)
<1>0. ms \in Seq(Messages) /\ ms # <<>>  BY DEF Well, Dangling
<1>1. Last(ms) \in Messages /\ bs \in Seq(Blocks)  BY <1>0, LastIs, SynthesizedAre
<1>2. Dangling(ms) = Ids(Last(ms), "use") /\ Is(Last(ms), "assistant")
  BY <1>0, UserLast DEF Is
<1>3. bs \o <<>> = bs  BY <1>1
<1>4. /\ Sound(n) /\ Is(n, "user") /\ n.blocks = bs \o <<>> /\ Ids(n, "result") = Ids(Last(ms), "use")
      /\ \A j \in DOMAIN n.blocks : n.blocks[j].kind # "text" =>
           n.blocks[j].kind = "result" /\ n.blocks[j].failed = TRUE /\ n.blocks[j].id \in Ids(Last(ms), "use")
  BY <1>1, <1>2, NoWords, Answering
<1>5. n = User(bs)  BY <1>3
<1> HIDE DEF n
<1>6. RepairDanglingToolUse(ms) = RepairMissingToolResults(Append(ms, User(bs)))
  BY <1>0, <1>2, WellTurns, DanglingFlat
<1> HIDE DEF bs
<1>7. RepairMissingToolResults(Append(ms, User(bs)))
        = Append(ms, User(Synthesized(Last(ms), Ids(User(bs), "result")) \o bs))
  BY <1>0, <1>1, <1>2, MissingLast
<1>8. Synthesized(Last(ms), Ids(User(bs), "result")) = <<>>
  BY <1>1, <1>4, <1>5, NothingSynthesized
<1>9. RepairDanglingToolUse(ms) = Append(ms, n)
  <2>1. <<>> \o bs = bs  BY <1>1
  <2> QED BY <1>5, <1>6, <1>7, <1>8, <2>1
<1>10. Well(Append(ms, n))  BY <1>0, <1>2, <1>4, AppendWell DEF Is
<1>11. n \in Messages  BY <1>4 DEF Sound
<1>12. Last(Append(ms, n)) = n /\ Append(ms, n) # <<>>  BY <1>0, <1>11, AppendIs
<1>13. From(ms, Append(ms, n), Dangling(ms))  BY <1>0, <1>2, <1>4, <1>11, FromAppend
<1> QED BY <1>4, <1>9, <1>10, <1>12, <1>13, UserLast

\* A rebuilt session's conversation: what dangles is answered, nothing else
\* changes.
LEMMA Restored ==
  ASSUME NEW ms, Well(ms)
  PROVE  LET ns == RepairAlternation(RepairDanglingToolUse(RepairEmptyContent(ms)))
         IN /\ Well(ns) /\ Dangling(ns) = {}
            /\ From(ms, ns, Dangling(ms))
<1>0. ms \in Seq(Messages)  BY DEF Well
<1>1. RepairEmptyContent(ms) = ms
  <2> DEFINE P == {i \in DOMAIN ms : ms[i].blocks # <<>>}
  <2>1. DOMAIN ms \subseteq P  BY DEF Well, WellMade
  <2>2. Those(ms, P) = ms
    <3> HIDE DEF P
    <3> QED BY <1>0, <2>1, ThoseAll
  <2> QED BY <2>2 DEF RepairEmptyContent
<1> DEFINE ns == RepairDanglingToolUse(ms)
<1>2. Well(ns) /\ Dangling(ns) = {} /\ From(ms, ns, Dangling(ms))
  <2>1. CASE Dangling(ms) = {}  BY <2>1, RepairedWhole, FromItself
  <2>2. CASE Dangling(ms) # {}  BY <2>2, RestoredTail
  <2> QED BY <2>1, <2>2
<1> HIDE DEF ns
<1>3. RepairAlternation(ns) = ns  BY <1>2, WellTurns, AlternationStays DEF Well
<1> QED BY <1>1, <1>2, <1>3 DEF ns

\* The input in the conversation.
LEMMA InputPrepared ==
  ASSUME NEW ms, Well(ms), NEW text \in Blocks, text.kind = "text"
  PROVE  LET ns == RepairDanglingToolUse(AppendInput(ms, text))
         IN /\ Well(ns) /\ ns # <<>> /\ Is(Last(ns), "user") /\ Dangling(ns) = {}
            /\ text \in ToSet(Last(ns).blocks)
            /\ Len(ns) = FreezePoint(ms) + 1
            /\ \A i \in 1 .. FreezePoint(ms) : ns[i] = ms[i]
            /\ From(ms, ns, Dangling(ms))
<1> DEFINE ts == <<text>>
           ls == AppendInput(ms, text)
           ns == RepairDanglingToolUse(ls)
<1>0. ms \in Seq(Messages) /\ Len(ms) \in Nat  BY DEF Well
<1>1. Wordy(ts) /\ ts # <<>> /\ text \in ToSet(ts)  BY DEF Wordy, ToSet
<1>2. CASE ms # <<>> /\ Is(Last(ms), "user")
  <2>0. ls = AppendToLast(ms, ts) /\ FreezePoint(ms) = Len(ms) - 1  BY <1>2 DEF AppendInput, FreezePoint
  <2>1. /\ Well(ls) /\ Len(ls) = Len(ms) /\ Last(ls).role = Last(ms).role
        /\ Last(ls).blocks = Last(ms).blocks \o ts
        /\ \A i \in 1 .. Len(ms) - 1 : ls[i] = ms[i]
        /\ From(ms, ls, {})
    <3> HIDE DEF ls, ts
    <3> QED BY <1>1, <1>2, <2>0, AppendToLastWell
  <2> HIDE DEF ls, ts
  <2>2. ls # <<>> /\ Is(Last(ls), "user")
    <3>1. Len(ms) # 0  BY <1>0, <1>2
    <3>2. ls # <<>>  BY <2>1, <3>1
    <3> QED BY <1>2, <2>1, <3>2 DEF Is
  <2>3. Dangling(ls) = {} /\ Dangling(ms) = {}  BY <1>2, <2>1, <2>2, UserLast
  <2>4. ns = ls  BY <2>1, <2>3, RepairedWhole
  <2>5. text \in ToSet(Last(ls).blocks)
    <3>1. Last(ms).blocks \in Seq(Blocks) /\ ts \in Seq(Blocks)
      BY <1>0, <1>1, <1>2, LastIs DEF Messages, Wordy
    <3> QED BY <1>1, <2>1, <3>1, BlocksJoined
  <2>6. Len(ls) = FreezePoint(ms) + 1  BY <1>0, <2>0, <2>1
  <2> QED BY <2>0, <2>1, <2>2, <2>3, <2>4, <2>5, <2>6 DEF ls
<1>3. CASE ~(ms # <<>> /\ Is(Last(ms), "user"))
  <2>0. ls = Append(ms, User(ts)) /\ FreezePoint(ms) = Len(ms)  BY <1>3 DEF AppendInput, FreezePoint
  <2>1. User(ts) \in Messages /\ Is(User(ts), "user") /\ User(ts).blocks = ts  BY DEF User, Messages, Is
  <2> HIDE DEF ts
  <2>2. Ids(User(ts), "result") = {} /\ Ids(User(ts), "use") = {}
    <3>1. \A j \in DOMAIN ts : ts[j].kind = "text"  BY <1>1 DEF Wordy
    <3>2. \A x : x \notin Ids(User(ts), "result") /\ x \notin Ids(User(ts), "use")
      BY <2>1, <3>1, IdsAre
    <3> QED BY <3>2
  <2>3. PICK n : /\ ns = Append(ms, n) /\ Sound(n) /\ Is(n, "user") /\ Ids(n, "result") = Dangling(ms)
                 /\ text \in ToSet(n.blocks)
                 /\ \A j \in DOMAIN n.blocks : n.blocks[j].kind # "text" =>
                      /\ n.blocks[j].kind = "result" /\ n.blocks[j].failed = TRUE
                      /\ n.blocks[j].id \in Dangling(ms)
    <3>1. CASE ms = <<>>
      <4>1. Dangling(ms) = {}  BY <3>1 DEF Dangling
      <4>2. ResultsFirst(User(ts)) /\ \A j \in DOMAIN ts : ts[j].kind = "text"
        BY <1>1, <2>1 DEF ResultsFirst, Wordy
      <4>3. Sound(User(ts))  BY <1>1, <2>1, <2>2, <4>2 DEF Sound
      <4>4. Well(ls)  BY <2>0, <2>1, <2>2, <3>1, <4>1, <4>3, AppendWell
      <4>5. Last(ls) = User(ts) /\ ls # <<>>  BY <1>0, <2>0, <2>1, AppendIs
      <4> HIDE DEF ls
      <4>6. ns = ls  BY <2>1, <4>4, <4>5, UserLast, RepairedWhole
      <4> QED BY <1>1, <2>0, <2>1, <2>2, <4>1, <4>2, <4>3, <4>6
    <3>2. CASE ms # <<>> /\ Is(Last(ms), "assistant")
      <4>0. Last(ms) \in Messages /\ ts \in Seq(Blocks) /\ Dangling(ms) = Ids(Last(ms), "use")
        BY <1>0, <1>1, <3>2, LastIs, UserLast DEF Wordy
      <4> DEFINE n == User(Synthesized(Last(ms), {}) \o ts)
      <4>1. /\ Sound(n) /\ Is(n, "user") /\ Ids(n, "result") = Ids(Last(ms), "use")
            /\ n.blocks = Synthesized(Last(ms), {}) \o ts
            /\ ToSet(ts) \subseteq ToSet(n.blocks)
            /\ \A j \in DOMAIN n.blocks : n.blocks[j].kind # "text" =>
                 /\ n.blocks[j].kind = "result" /\ n.blocks[j].failed = TRUE
                 /\ n.blocks[j].id \in Ids(Last(ms), "use")
        BY <1>1, <4>0, Answering
      <4> HIDE DEF n
      <4>2. /\ ls \in Seq(Messages) /\ Len(ls) = Len(ms) + 1 /\ ls # <<>> /\ Last(ls) = User(ts)
            /\ ls[Len(ms) + 1] = User(ts)
            /\ \A i \in 1 .. Len(ms) : ls[i] = ms[i]
        BY <1>0, <2>0, <2>1, AppendIs
      <4> HIDE DEF ls
      <4>3. \A i \in 1 .. Len(ls) - 1 : Is(ls[i], "assistant") => Is(ls[i + 1], "user")
        <5> TAKE i \in 1 .. Len(ls) - 1
        <5>1. CASE i = Len(ms)  BY <2>1, <4>2, <5>1
        <5>2. CASE i # Len(ms)
          <6>1. i \in 1 .. Len(ms) - 1 /\ i \in 1 .. Len(ms) /\ i + 1 \in 1 .. Len(ms)  BY <1>0, <4>2, <5>2
          <6>2. ls[i] = ms[i] /\ ls[i + 1] = ms[i + 1]  BY <4>2, <6>1
          <6> QED BY <6>1, <6>2, WellTurns
        <5> QED BY <5>1, <5>2
      <4>4. ~Is(Last(ls), "assistant")  BY <2>1, <4>2 DEF Is
      <4>5. ns = RepairMissingToolResults(ls)  BY <4>2, <4>3, <4>4, DanglingFlat
      <4>6. RepairMissingToolResults(Append(ms, User(ts)))
              = Append(ms, User(Synthesized(Last(ms), Ids(User(ts), "result")) \o ts))
        BY <3>2, <4>0, MissingLast
      <4>7. ns = Append(ms, n)  BY <2>0, <2>2, <4>5, <4>6 DEF n
      <4> QED BY <1>1, <4>0, <4>1, <4>7
    <3>3. ms # <<>> => Is(Last(ms), "assistant")  BY <1>3, UserLast DEF Is
    <3> QED BY <3>1, <3>2, <3>3
  <2> HIDE DEF ns
  <2>4. n \in Messages  BY <2>3 DEF Sound
  <2>5. /\ Len(ns) = Len(ms) + 1 /\ ns # <<>> /\ Last(ns) = n
        /\ \A i \in 1 .. Len(ms) : ns[i] = ms[i]
    BY <1>0, <2>3, <2>4, AppendIs
  <2>6. Well(ns)
    <3>1. ms # <<>> => Last(ms).role # n.role  BY <1>3, <2>3 DEF Is
    <3> QED BY <2>3, <3>1, AppendWell
  <2>7. From(ms, ns, Dangling(ms))  BY <1>0, <2>3, <2>4, FromAppend
  <2>8. Dangling(ns) = {}  BY <2>3, <2>5, <2>6, UserLast
  <2> QED BY <2>0, <2>3, <2>5, <2>6, <2>7, <2>8 DEF ns, ls
<1> QED BY <1>2, <1>3

-----------------------------------------------------------------------------
(* Where a conversation is cut *)

\* A set of numbers that is not empty has a least one.
LEMMA LeastOf ==
  ASSUME NEW S \in SUBSET Nat, S # {}
  PROVE  Min(S) \in S
<1> DEFINE R == OpToRel(<, Nat)
<1>1. \A x, y \in Nat : y < x => <<y, x>> \in R
  BY DEF OpToRel
<1>2. IsWellFoundedOn(R, Nat)  BY NatLessThanWellFounded
<1> HIDE DEF R
<1>3. PICK x \in S : \A y \in S : <<y, x>> \notin R  BY <1>2, WFMin
<1>4. \A y \in S : x <= y
  <2> SUFFICES ASSUME NEW y \in S, ~(x <= y) PROVE FALSE  OBVIOUS
  <2>1. x \in Nat /\ y \in Nat  OBVIOUS
  <2>2. y < x  BY <2>1
  <2> QED BY <1>1, <1>3, <2>1, <2>2
<1> QED BY <1>4 DEF Min

\* And a greatest one, when it is bounded.
LEMMA GreatestOf ==
  ASSUME NEW n \in Nat, NEW S \in SUBSET (0 .. n), S # {}
  PROVE  Max(S) \in S
<1> DEFINE T == {k \in Nat : n - k \in S}
           R == OpToRel(<, Nat)
<1>1. \A x, y \in Nat : y < x => <<y, x>> \in R
  BY DEF OpToRel
<1>2. IsWellFoundedOn(R, Nat)  BY NatLessThanWellFounded
<1> HIDE DEF R
<1>3. \A y \in S : n - y \in T /\ n - (n - y) = y  OBVIOUS
<1>4. T # {}  BY <1>3
<1>5. PICK k \in T : \A l \in T : <<l, k>> \notin R
  <2>1. T \subseteq Nat  OBVIOUS
  <2> HIDE DEF T
  <2> QED BY <1>2, <1>4, <2>1, WFMin
<1>6. n - k \in S /\ k \in Nat  OBVIOUS
<1>7. \A y \in S : n - k >= y
  <2> SUFFICES ASSUME NEW y \in S, n - k < y PROVE FALSE  BY <1>6
  <2>1. n - y \in T /\ n - y \in Nat /\ n - y < k  BY <1>3, <1>6
  <2> QED BY <1>1, <1>5, <1>6, <2>1
<1> QED BY <1>6, <1>7 DEF Max

\* The head is dropped up to a message that starts a turn, never all of it.
LEMMA HeadDropIs ==
  ASSUME NEW ms \in Seq(Messages)
  PROVE  \/ HeadDrop(ms) = 0
         \/ /\ HeadDrop(ms) \in 1 .. Len(ms) - 1 /\ HeadDrop(ms) + 1 \in 1 .. Len(ms)
            /\ Is(ms[HeadDrop(ms) + 1], "user")
<1> DEFINE J == {j \in Starts(ms) : j > Len(ms) - 2 * KeepRecentTurns}
           cuts == {i - 1 : i \in J}
<1>1. HeadDrop(ms) = IF Len(ms) <= 2 * KeepRecentTurns \/ cuts = {} THEN 0 ELSE Min(cuts)
  BY DEF HeadDrop
<1>2. DOMAIN ms = 1 .. Len(ms) /\ Len(ms) \in Nat  OBVIOUS
<1>3. \A j \in J : j \in 1 .. Len(ms) /\ Is(ms[j], "user")  BY <1>2 DEF Starts, StartsUserTurn
<1> HIDE DEF J
<1>4. \A c \in cuts : c \in Nat /\ c + 1 \in J
  <2> TAKE c \in cuts
  <2>1. PICK i \in J : c = i - 1  OBVIOUS
  <2>2. i \in 1 .. Len(ms)  BY <1>3
  <2> QED BY <2>1, <2>2
<1> HIDE DEF cuts
<1>5. cuts # {} => Min(cuts) \in cuts  BY <1>4, LeastOf
<1>6. CASE HeadDrop(ms) # 0
  <2> DEFINE d == HeadDrop(ms)
  <2>1. d \in Nat /\ d + 1 \in J  BY <1>1, <1>4, <1>5, <1>6
  <2>2. d + 1 \in 1 .. Len(ms) /\ Is(ms[d + 1], "user")  BY <1>3, <2>1
  <2> HIDE DEF d
  <2>3. d # 0  BY <1>6 DEF d
  <2>4. d \in 1 .. Len(ms) - 1  BY <1>2, <2>1, <2>2, <2>3
  <2> QED BY <2>2, <2>4 DEF d
<1> QED BY <1>6

\* A text is still there in a message like it.
LEMMA AlikeTexts ==
  ASSUME NEW m, NEW n, AlikeMessage(m, n), NEW t \in ToSet(m.blocks), t.kind = "text"
  PROVE  t \in ToSet(n.blocks)
<1>1. PICK j \in DOMAIN m.blocks : t = m.blocks[j]  BY DEF ToSet
<1>2. j \in DOMAIN n.blocks /\ n.blocks[j] = t  BY <1>1 DEF AlikeMessage, Alike
<1> QED BY <1>2 DEF ToSet

\* The last block of a message like it is the same block.
LEMMA AlikeEnds ==
  ASSUME NEW m \in Messages, NEW n \in Messages, AlikeMessage(m, n), m.blocks # <<>>
  PROVE  SameBlock(Last(n.blocks), Last(m.blocks))
<1>1. m.blocks \in Seq(Blocks) /\ n.blocks \in Seq(Blocks)  BY DEF Messages
<1>2. Len(n.blocks) = Len(m.blocks) /\ Len(m.blocks) \in DOMAIN m.blocks
  <2>1. DOMAIN m.blocks = 1 .. Len(m.blocks) /\ DOMAIN n.blocks = 1 .. Len(n.blocks)
        /\ Len(m.blocks) \in Nat \ {0} /\ Len(n.blocks) \in Nat
    BY <1>1
  <2>2. 1 .. Len(m.blocks) = 1 .. Len(n.blocks)  BY <2>1 DEF AlikeMessage
  <2>3. Len(m.blocks) \in 1 .. Len(n.blocks)  BY <2>1, <2>2
  <2>4. Len(n.blocks) \in 1 .. Len(m.blocks)  BY <2>1, <2>2, <2>3
  <2> QED BY <2>1, <2>3, <2>4
<1> QED BY <1>2 DEF Last, AlikeMessage, Alike, SameBlock

\* Whatever is alike a well-formed conversation is one, and ends as it does.
LEMMA AlikeWell ==
  ASSUME NEW ms, Well(ms), NEW ns \in Seq(Messages), AlikeAll(ms, ns)
  PROVE  /\ Well(ns) /\ Len(ns) = Len(ms) /\ Dangling(ns) = Dangling(ms) /\ From(ms, ns, {})
         /\ FreezePoint(ns) = FreezePoint(ms)
         /\ ms # <<>> => ns # <<>> /\ AlikeMessage(Last(ms), Last(ns)) /\ Last(ns).role = Last(ms).role
<1>0. ms \in Seq(Messages) /\ Len(ns) = Len(ms)  BY DEF Well, AlikeAll
<1>1. Well(ns)  BY <1>0, AlikeShape DEF Well
<1>2. CASE ms = <<>>
  <2>1. ns = <<>>  BY <1>0, <1>2
  <2> QED BY <1>0, <1>1, <1>2, <2>1, FromAlike
<1>3. CASE ms # <<>>
  <2>1. ns # <<>> /\ Len(ms) \in 1 .. Len(ms)  BY <1>0, <1>3
  <2>2. AlikeMessage(Last(ms), Last(ns))  BY <1>0, <2>1 DEF AlikeAll, Last
  <2>3. Ids(Last(ns), "use") = Ids(Last(ms), "use")  BY <2>2, AlikeIds
  <2>4. Last(ns).role = Last(ms).role  BY <2>2 DEF AlikeMessage
  <2>5. FreezePoint(ns) = FreezePoint(ms)  BY <1>0, <1>3, <2>1, <2>4 DEF FreezePoint, Is
  <2> QED BY <1>0, <1>1, <1>3, <2>1, <2>2, <2>3, <2>4, <2>5, FromAlike DEF Dangling
<1> QED BY <1>2, <1>3

\* What is sent instead of a conversation: one like it, without its head.
LEMMA PrunedLike ==
  ASSUME NEW ms \in Seq(Messages), ms # <<>>, NEW heavy, NEW adopted
  PROVE  LET p == BeforeRequest(ms, heavy, adopted)
         IN \E ks \in Seq(Messages) :
              /\ AlikeAll(ms, ks) /\ p.messages = Suffix(ks, p.dropped)
              /\ p.dropped \in 0 .. Len(ms) - 1
              /\ p.dropped # 0 => Is(ks[p.dropped + 1], "user")
<1> DEFINE pruned == IF ShouldPrune(ms, heavy) THEN ManageConversation(ms) ELSE ms
           d == HeadDrop(pruned)
           left == IF d > 0 \/ adopted THEN Suffix(pruned, d)
                   ELSE IF ShouldPrune(ms, heavy) THEN DeduplicateFileRefs(ms)
                   ELSE ms
           p == BeforeRequest(ms, heavy, adopted)
<1>1. p = [messages |-> left, dropped |-> d]  BY DEF BeforeRequest
<1>2. pruned \in Seq(Messages) /\ AlikeAll(ms, pruned)  BY ManageConversationAlike, AlikeItself
<1> HIDE DEF pruned
<1>3. d = 0 \/ (d \in 1 .. Len(pruned) - 1 /\ Is(pruned[d + 1], "user"))
  BY <1>2, HeadDropIs
<1>4. Len(pruned) = Len(ms) /\ Len(ms) \in Nat \ {0}  BY <1>2 DEF AlikeAll
<1> HIDE DEF d
<1>5. d \in 0 .. Len(ms) - 1  BY <1>3, <1>4
<1>6. CASE d > 0 \/ adopted  BY <1>1, <1>2, <1>3, <1>5, <1>6
<1>7. CASE ~(d > 0 \/ adopted)
  <2>1. d = 0  BY <1>5, <1>7
  <2> DEFINE ks == IF ShouldPrune(ms, heavy) THEN DeduplicateFileRefs(ms) ELSE ms
  <2>2. ks \in Seq(Messages) /\ AlikeAll(ms, ks)  BY DeduplicateAlike, AlikeItself
  <2>3. left = ks  BY <1>7
  <2> HIDE DEF ks, left
  <2>4. Suffix(ks, 0) = ks
    <3>1. SubSeq(ks, 1, Len(ks)) = ks  BY <2>2
    <3> QED BY <3>1 DEF Suffix
  <2> QED BY <1>1, <1>5, <2>1, <2>2, <2>3, <2>4
<1> QED BY <1>6, <1>7

\* A prune before a request, adopted or not: alike, without its head.
LEMMA Pruned ==
  ASSUME NEW ms, Well(ms), ms # <<>>, NEW heavy, NEW adopted
  PROVE  LET p == BeforeRequest(ms, heavy, adopted)
         IN /\ Well(p.messages) /\ p.messages # <<>>
            /\ p.dropped \in 0 .. Len(ms) - 1 /\ Len(p.messages) = Len(ms) - p.dropped
            /\ \A i \in 1 .. Len(p.messages) : AlikeMessage(ms[p.dropped + i], p.messages[i])
            /\ From(ms, p.messages, {}) /\ Dangling(p.messages) = Dangling(ms)
            /\ Last(p.messages).role = Last(ms).role
<1> DEFINE p == BeforeRequest(ms, heavy, adopted)
<1>0. ms \in Seq(Messages) /\ Len(ms) \in Nat \ {0}  BY DEF Well
<1>1. PICK ks \in Seq(Messages) :
              /\ AlikeAll(ms, ks) /\ p.messages = Suffix(ks, p.dropped)
              /\ p.dropped \in 0 .. Len(ms) - 1
              /\ p.dropped # 0 => Is(ks[p.dropped + 1], "user")
  BY <1>0, PrunedLike
<1> DEFINE d == p.dropped
           ns == p.messages
<1> HIDE DEF p
<1>2. /\ Well(ks) /\ Len(ks) = Len(ms) /\ Dangling(ks) = Dangling(ms) /\ From(ms, ks, {})
      /\ ks # <<>> /\ Last(ks).role = Last(ms).role
  BY <1>1, AlikeWell
<1>3. d \in 0 .. Len(ks) - 1 /\ d \in 0 .. Len(ks) /\ d < Len(ks)  BY <1>0, <1>1, <1>2
<1> HIDE DEF d, ns
<1>4. ns = Suffix(ks, d) /\ (d # 0 => Is(ks[d + 1], "user"))  BY <1>1 DEF d, ns
<1>5. Is(ks[d + 1], "user")
  <2>1. CASE d = 0  BY <1>2, <2>1 DEF Well, WellFormed
  <2> QED BY <1>4, <2>1
<1>6. Well(ns)  BY <1>2, <1>3, <1>4, <1>5, SuffixWell
<1>7. /\ Len(ns) = Len(ks) - d /\ ns # <<>> /\ Last(ns) = Last(ks)
      /\ \A i \in 1 .. Len(ks) - d : ns[i] = ks[d + i]
  BY <1>1, <1>3, <1>4, SuffixIs
<1>8. From(ms, ns, {})
  <2>1. From(ks, ns, {})  BY <1>1, <1>3, <1>4, FromSuffix
  <2> QED BY <1>2, <2>1, FromThrice
<1>9. Dangling(ns) = Dangling(ks)  BY <1>2, <1>7 DEF Dangling
<1>10. \A i \in 1 .. Len(ns) : AlikeMessage(ms[d + i], ns[i])
  <2> TAKE i \in 1 .. Len(ns)
  <2>1. d + i \in 1 .. Len(ms) /\ ns[i] = ks[d + i]  BY <1>0, <1>2, <1>3, <1>7
  <2> QED BY <1>1, <2>1 DEF AlikeAll
<1>11. d \in 0 .. Len(ms) - 1 /\ Len(ns) = Len(ms) - d  BY <1>2, <1>3, <1>7
<1> QED BY <1>2, <1>6, <1>7, <1>8, <1>9, <1>10, <1>11 DEF d, ns, p

-----------------------------------------------------------------------------
(* The summary of a conversation's older turns *)

\* The boundary is a start of a turn no result behind it is parted from its
\* call by.
LEMMA BoundaryIs ==
  ASSUME NEW ms \in Seq(Messages)
  PROVE  LET n == FindTurnBoundary(ms)
         IN n # 0 => /\ n \in 1 .. Len(ms) - 1 /\ Is(ms[n + 1], "user")
                     /\ Ids(ms[n], "use") \cap Ids(ms[n + 1], "result") = {}
<1> DEFINE recent == {i \in Starts(ms) : Cardinality({j \in Starts(ms) : j >= i}) >= SummaryTurns}
           split == IF recent = {} THEN 0 ELSE Max(recent) - 1
           parts(n) == \E i \in 1 .. n, j \in n + 1 .. Len(ms) :
                         Ids(ms[i], "use") \cap Ids(ms[j], "result") # {}
           S == {n \in {0} \cup {i - 1 : i \in Starts(ms)} : n <= split /\ ~parts(n)}
<1>1. FindTurnBoundary(ms) = Max(S)  BY DEF FindTurnBoundary
<1>2. DOMAIN ms = 1 .. Len(ms) /\ Len(ms) \in Nat  OBVIOUS
<1>3. \A i \in Starts(ms) : i \in 1 .. Len(ms) /\ Is(ms[i], "user")  BY <1>2 DEF Starts, StartsUserTurn
<1>4. split >= 0
  <2>1. recent \subseteq 0 .. Len(ms) /\ \A i \in recent : i >= 1  BY <1>2, <1>3
  <2> HIDE DEF recent
  <2>2. recent # {} => Max(recent) \in recent  BY <1>2, <2>1, GreatestOf
  <2>3. recent # {} => Max(recent) >= 1 /\ Max(recent) \in 0 .. Len(ms)  BY <2>1, <2>2
  <2> QED BY <1>2, <2>3
<1> HIDE DEF split
<1>5. 0 \in S
  <2>1. ~parts(0)  OBVIOUS
  <2> HIDE DEF parts
  <2> QED BY <1>4, <2>1
<1>6. \A n \in S : n \in 0 .. Len(ms) /\ (n # 0 => n + 1 \in Starts(ms)) /\ ~parts(n)
  <2> TAKE n \in S
  <2> HIDE DEF parts
  <2>1. CASE n = 0  BY <1>2, <2>1
  <2>2. CASE n # 0
    <3>1. PICK i \in Starts(ms) : n = i - 1  BY <2>2
    <3>2. i \in 1 .. Len(ms)  BY <1>3
    <3> QED BY <1>2, <3>1, <3>2
  <2> QED BY <2>1, <2>2
<1>7. Max(S) \in S
  <2>1. S \subseteq 0 .. Len(ms)  BY <1>6
  <2> HIDE DEF S
  <2> QED BY <1>2, <1>5, <2>1, GreatestOf
<1> DEFINE n == FindTurnBoundary(ms)
<1>8. n \in 0 .. Len(ms) /\ (n # 0 => n + 1 \in Starts(ms)) /\ ~parts(n)  BY <1>1, <1>6, <1>7
<1> HIDE DEF n
<1>9. n # 0 => /\ n \in 1 .. Len(ms) - 1 /\ Is(ms[n + 1], "user")
               /\ Ids(ms[n], "use") \cap Ids(ms[n + 1], "result") = {}
  <2> SUFFICES ASSUME n # 0
               PROVE  /\ n \in 1 .. Len(ms) - 1 /\ Is(ms[n + 1], "user")
                      /\ Ids(ms[n], "use") \cap Ids(ms[n + 1], "result") = {}
    OBVIOUS
  <2>1. n + 1 \in 1 .. Len(ms) /\ Is(ms[n + 1], "user")  BY <1>3, <1>8
  <2>2. n \in 1 .. n /\ n + 1 \in n + 1 .. Len(ms) /\ n \in 1 .. Len(ms) - 1  BY <1>2, <1>8, <2>1
  <2> QED BY <1>8, <2>1, <2>2
<1> QED BY <1>9 DEF n

\* Where every result answers a call of the message before it none is an
\* orphan.
LEMMA NoneStripped ==
  ASSUME NEW ms, Well(ms), ms # <<>> => Ids(ms[1], "result") = {}
  PROVE  StripOrphanedToolResults(ms) = ms
<1> DEFINE calls == UNION {Ids(ms[i], "use") : i \in DOMAIN ms}
           matched(bs) == {j \in DOMAIN bs : bs[j].kind = "result" => bs[j].id \in calls}
           kept(bs) == Those(bs, matched(bs))
           cleaned == [i \in DOMAIN ms |-> IF Is(ms[i], "user") THEN User(kept(ms[i].blocks)) ELSE ms[i]]
           places == {i \in DOMAIN ms : Is(ms[i], "assistant") \/ cleaned[i].blocks # <<>>}
<1>0. ms \in Seq(Messages) /\ DOMAIN ms = 1 .. Len(ms) /\ Len(ms) \in Nat  BY DEF Well
<1>1. StripOrphanedToolResults(ms) = Those(cleaned, places)  BY DEF StripOrphanedToolResults
<1>2. ASSUME NEW i \in 1 .. Len(ms), Is(ms[i], "user")
      PROVE  User(kept(ms[i].blocks)) = ms[i]
  <2>0. ms[i] \in Messages /\ ms[i].blocks \in Seq(Blocks)  BY <1>0, BlocksOf
  <2>1. Ids(ms[i], "result") \subseteq calls
    <3>1. CASE i = 1
      <4>1. ms # <<>>  BY <1>0
      <4> HIDE DEF calls
      <4> QED BY <3>1, <4>1
    <3>2. CASE i # 1
      <4>1. i \in 2 .. Len(ms) /\ i - 1 \in DOMAIN ms  BY <1>0, <3>2
      <4>2. Ids(ms[i - 1], "use") = Ids(ms[i], "result")  BY <4>1, WellPair
      <4> QED BY <4>1, <4>2
    <3> QED BY <3>1, <3>2
  <2> HIDE DEF calls
  <2>2. DOMAIN ms[i].blocks \subseteq matched(ms[i].blocks)  BY <2>1, IdsAre
  <2> HIDE DEF matched
  <2>3. kept(ms[i].blocks) = ms[i].blocks  BY <2>0, <2>2, ThoseAll
  <2>4. User(ms[i].blocks) = ms[i]  BY <1>2, <2>0 DEF Messages, User, Is
  <2> QED BY <2>3, <2>4
<1> HIDE DEF kept
<1>3. cleaned = ms
  <2>1. \A i \in DOMAIN ms : cleaned[i] = ms[i]  BY <1>0, <1>2
  <2>2. cleaned = [i \in DOMAIN ms |-> cleaned[i]] /\ ms = [i \in DOMAIN ms |-> ms[i]]  BY <1>0
  <2> HIDE DEF cleaned
  <2> QED BY <2>1, <2>2
<1> HIDE DEF cleaned
<1>4. DOMAIN ms \subseteq places  BY <1>3 DEF Well, WellMade
<1> HIDE DEF places
<1>5. Those(ms, places) = ms  BY <1>0, <1>4, ThoseAll
<1> QED BY <1>1, <1>3, <1>5

\* Two messages in front of a conversation.
LEMMA Introduced ==
  ASSUME NEW ms, Well(ms), ms # <<>>, Ids(ms[1], "result") = {},
         NEW u, Sound(u), Is(u, "user"), NEW a, Sound(a), Is(a, "assistant"),
         Ids(u, "result") = {}, Ids(a, "use") = {}
  PROVE  /\ Well(<<u, a>> \o ms) /\ <<u, a>> \o ms # <<>> /\ Last(<<u, a>> \o ms) = Last(ms)
         /\ From(ms, <<u, a>> \o ms, {})
<1> DEFINE ns == <<u, a>> \o ms
<1>0. ms \in Seq(Messages) /\ Len(ms) \in Nat \ {0} /\ u \in Messages /\ a \in Messages
  BY DEF Well, Sound
<1>1. /\ ns \in Seq(Messages) /\ Len(ns) = Len(ms) + 2 /\ ns[1] = u /\ ns[2] = a
      /\ \A i \in 1 .. Len(ms) : ns[i + 2] = ms[i]
  <2>1. <<u, a>> \in Seq(Messages) /\ Len(<<u, a>>) = 2 /\ <<u, a>>[1] = u /\ <<u, a>>[2] = a  BY <1>0
  <2> QED BY <1>0, <2>1
<1> HIDE DEF ns
<1>2. ns # <<>> /\ Last(ns) = Last(ms)
  <2>1. Len(ms) \in 1 .. Len(ms)  BY <1>0
  <2>2. ns[Len(ms) + 2] = ms[Len(ms)]  BY <1>1, <2>1
  <2> QED BY <1>0, <1>1, <2>2 DEF Last
<1>3. Sound(ms[1]) /\ Is(ms[1], "user")
  <2>1. Is(ms[1], "user") /\ 1 \in 1 .. Len(ms)  BY <1>0 DEF Well, WellFormed
  <2>2. ms[1] \in Messages /\ ms[1].blocks # <<>> /\ Ids(ms[1], "use") = {}  BY <2>1, WellAlone
  <2>3. \A j \in DOMAIN ms[1].blocks : ms[1].blocks[j].kind # "result"  BY NoIds
  <2> QED BY <2>1, <2>2, <2>3 DEF Sound, ResultsFirst
<1>4. \A i \in 1 .. Len(ms) : Sound(ms[i])  BY <1>3, WellSound
<1>5. \A i \in 3 .. Len(ns) : i - 2 \in 1 .. Len(ms) /\ ns[i] = ms[i - 2]
  <2> TAKE i \in 3 .. Len(ns)
  <2>1. i - 2 \in 1 .. Len(ms) /\ (i - 2) + 2 = i  BY <1>0, <1>1
  <2> QED BY <1>1, <2>1
<1>6. \A i \in 1 .. Len(ns) : Sound(ns[i]) \/ (i = 1 /\ ns[1].blocks # <<>> /\ Ids(ns[1], "use") = {})
  <2> TAKE i \in 1 .. Len(ns)
  <2>1. CASE i = 1  BY <1>1, <2>1
  <2>2. CASE i = 2  BY <1>1, <2>2
  <2>3. CASE i \in 3 .. Len(ns)  BY <1>4, <1>5, <2>3
  <2>4. i = 1 \/ i = 2 \/ i \in 3 .. Len(ns)  BY <1>0, <1>1
  <2> QED BY <2>1, <2>2, <2>3, <2>4
<1>7. \A i \in 2 .. Len(ns) : ns[i].role # ns[i - 1].role /\ Ids(ns[i - 1], "use") = Ids(ns[i], "result")
  <2> TAKE i \in 2 .. Len(ns)
  <2>1. CASE i = 2
    <3>1. Ids(u, "use") = {} /\ Ids(a, "result") = {}  BY DEF Sound, Is
    <3>2. i - 1 = 1  BY <2>1
    <3> QED BY <1>1, <2>1, <3>1, <3>2 DEF Is
  <2>2. CASE i = 3
    <3>1. i - 1 = 2 /\ i - 2 = 1 /\ ns[3] = ms[1]  BY <1>5, <2>2
    <3> QED BY <1>1, <1>3, <2>2, <3>1 DEF Is
  <2>3. CASE i # 2 /\ i # 3
    <3>1. i \in 3 .. Len(ns) /\ i - 1 \in 3 .. Len(ns) /\ i - 2 \in 2 .. Len(ms) /\ (i - 1) - 2 = (i - 2) - 1
      BY <1>0, <1>1, <2>3
    <3>2. ns[i] = ms[i - 2] /\ ns[i - 1] = ms[(i - 2) - 1]  BY <1>5, <3>1
    <3> QED BY <3>1, <3>2, WellPair
  <2> QED BY <2>1, <2>2, <2>3
<1>8. Well(ns)  BY <1>1, <1>6, <1>7, WellWhen
<1>9. From(ms, ns, {})
  <2>0. Ids(u, "result") = {} /\ Ids(a, "use") = {}  OBVIOUS
  <2>1. \A j \in DOMAIN u.blocks : u.blocks[j].kind = "text"
    <3>1. Ids(u, "use") = {}  BY DEF Sound
    <3>2. \A j \in DOMAIN u.blocks : u.blocks[j].kind \notin {"use", "result"}  BY <2>0, <3>1, NoIds
    <3>3. \A j \in DOMAIN u.blocks : u.blocks[j].kind \in {"text", "use", "result"}
      <4>1. \A j \in DOMAIN u.blocks : u.blocks[j] \in Blocks  BY <1>0 DEF Messages
      <4>2. \A b \in Blocks : b.kind \in {"text", "use", "result"}  BY DEF Blocks
      <4> QED BY <4>1, <4>2
    <3> QED BY <3>2, <3>3
  <2>2. \A j \in DOMAIN a.blocks : a.blocks[j].kind = "text"
    <3>1. Ids(a, "result") = {}  BY DEF Sound, Is
    <3>2. \A j \in DOMAIN a.blocks : a.blocks[j].kind \notin {"use", "result"}  BY <2>0, <3>1, NoIds
    <3>3. \A j \in DOMAIN a.blocks : a.blocks[j].kind \in {"text", "use", "result"}
      <4>1. \A j \in DOMAIN a.blocks : a.blocks[j] \in Blocks  BY <1>0 DEF Messages
      <4>2. \A b \in Blocks : b.kind \in {"text", "use", "result"}  BY DEF Blocks
      <4> QED BY <4>1, <4>2
    <3> QED BY <3>2, <3>3
  <2>3. ASSUME NEW i \in 1 .. Len(ns), NEW j \in DOMAIN ns[i].blocks, ns[i].blocks[j].kind # "text"
        PROVE  \E k \in 1 .. Len(ms) : ns[i] = ms[k]
    <3>1. i # 1 /\ i # 2  BY <1>1, <2>1, <2>2, <2>3
    <3>2. i \in 3 .. Len(ns)  BY <1>0, <1>1, <3>1
    <3> QED BY <1>5, <3>2
  <2> QED BY <2>3 DEF From
<1> QED BY <1>2, <1>8, <1>9 DEF ns

\* A message that is one text.
LEMMA OneText ==
  ASSUME NEW role \in {"user", "assistant"}, NEW t \in Blocks, t.kind = "text",
         NEW m, m = [role |-> role, blocks |-> <<t>>]
  PROVE  /\ Sound(m) /\ m.role = role /\ m.blocks = <<t>>
         /\ Ids(m, "use") = {} /\ Ids(m, "result") = {}
<1>1. m \in Messages /\ m.role = role /\ m.blocks = <<t>>  BY DEF Messages
<1>2. <<t>> # <<>> /\ DOMAIN <<t>> = {1} /\ <<t>>[1] = t  OBVIOUS
<1>3. \A x : x \notin Ids(m, "use") /\ x \notin Ids(m, "result")  BY <1>1, <1>2, IdsAre
<1>4. Ids(m, "use") = {} /\ Ids(m, "result") = {}  BY <1>3
<1> QED BY <1>1, <1>2, <1>4 DEF Sound, ResultsFirst

\* The summary takes the place of whole turns.
LEMMA Summarized ==
  ASSUME NEW ms, Well(ms)
  PROVE  LET ns == SummarizeConversation(ms)
         IN /\ Well(ns) /\ Dangling(ns) = Dangling(ms) /\ From(ms, ns, {})
            /\ ms # <<>> => ns # <<>> /\ Last(ns) = Last(ms)
<1> DEFINE n == FindTurnBoundary(ms)
           rest == Suffix(ms, n)
           u == User(<<Text("summary", 0)>>)
           a == Assistant(<<Text("summary", 0)>>)
           ns == SummarizeConversation(ms)
<1>0. ms \in Seq(Messages) /\ Len(ms) \in Nat  BY DEF Well
<1>1. CASE ns = ms
  <2> HIDE DEF ns
  <2> QED BY <1>1, FromItself DEF ns
<1>2. CASE ns # ms
  <2>1. n # 0 /\ ns = RepairAlternation(<<u, a>> \o StripOrphanedToolResults(rest))
    BY <1>2 DEF SummarizeConversation
  <2>2. /\ n \in 1 .. Len(ms) - 1 /\ Is(ms[n + 1], "user")
        /\ Ids(ms[n], "use") \cap Ids(ms[n + 1], "result") = {}
    BY <1>0, <2>1, BoundaryIs
  <2> HIDE DEF n
  <2>3. Ids(ms[n + 1], "result") = {}
    <3>1. n + 1 \in 2 .. Len(ms) /\ (n + 1) - 1 = n  BY <1>0, <2>2
    <3>2. Ids(ms[n], "use") = Ids(ms[n + 1], "result")  BY <3>1, WellPair
    <3> QED BY <2>2, <3>2
  <2>4. n \in 0 .. Len(ms) - 1 /\ n \in 0 .. Len(ms) /\ n < Len(ms)  BY <1>0, <2>2
  <2>5. Well(rest)  BY <2>2, <2>4, SuffixWell
  <2>6. /\ rest # <<>> /\ Last(rest) = Last(ms) /\ rest[1] = ms[n + 1] /\ From(ms, rest, {})
    <3>1. 1 \in 1 .. Len(ms) - n  BY <1>0, <2>4
    <3> HIDE DEF rest
    <3> QED BY <1>0, <2>4, <3>1, SuffixIs, FromSuffix DEF rest
  <2> HIDE DEF rest
  <2>7. StripOrphanedToolResults(rest) = rest  BY <2>3, <2>5, <2>6, NoneStripped
  <2>8. /\ Sound(u) /\ Is(u, "user") /\ Ids(u, "result") = {}
        /\ Sound(a) /\ Is(a, "assistant") /\ Ids(a, "use") = {}
    <3>1. Text("summary", 0) \in Blocks /\ Text("summary", 0).kind = "text"
      <4>1. "summary" \in Texts  BY DEF Texts
      <4> QED BY <4>1, TextIs
    <3> DEFINE t == Text("summary", 0)
    <3> HIDE DEF t
    <3>2. u = [role |-> "user", blocks |-> <<t>>] /\ a = [role |-> "assistant", blocks |-> <<t>>]
      BY DEF User, Assistant, t
    <3> HIDE DEF u, a
    <3> QED BY <3>1, <3>2, OneText DEF t, Is
  <2> HIDE DEF u, a
  <2> DEFINE os == <<u, a>> \o rest
  <2>9. Well(os) /\ os # <<>> /\ Last(os) = Last(rest) /\ From(rest, os, {})
    BY <2>3, <2>5, <2>6, <2>8, Introduced
  <2> HIDE DEF os
  <2>10. RepairAlternation(os) = os  BY <2>9, WellTurns, AlternationStays DEF Well
  <2>11. ns = os  BY <2>1, <2>7, <2>10 DEF os
  <2>12. From(ms, os, {})  BY <2>6, <2>9, FromThrice
  <2>13. ms # <<>> => Dangling(os) = Dangling(ms)  BY <2>6, <2>9 DEF Dangling
  <2>14. ms # <<>>  BY <1>0, <2>4
  <2> HIDE DEF ns
  <2> QED BY <2>6, <2>9, <2>11, <2>12, <2>13, <2>14 DEF ns
<1> QED BY <1>1, <1>2

-----------------------------------------------------------------------------
(* What a step makes of the calls and results, and of the frozen prefix *)

\* Ids below n.
IdsBelow(ms, n) ==
  \A i \in 1 .. Len(ms) : \A j \in DOMAIN ms[i].blocks :
    ms[i].blocks[j].kind # "text" => ms[i].blocks[j].id < n

\* Results say they failed exactly when their calls are not in S.
Marked(ms, S) ==
  \A i \in 1 .. Len(ms) : \A j \in DOMAIN ms[i].blocks :
    ms[i].blocks[j].kind = "result" => (ms[i].blocks[j].failed = TRUE <=> ms[i].blocks[j].id \notin S)

\* A call that dangles is in the last message.
LEMMA DanglingAre ==
  ASSUME NEW ms \in Seq(Messages), NEW x \in Dangling(ms)
  PROVE  /\ ms # <<>> /\ Len(ms) \in 1 .. Len(ms)
         /\ \E j \in DOMAIN ms[Len(ms)].blocks : /\ ms[Len(ms)].blocks[j].kind = "use"
                                                 /\ ms[Len(ms)].blocks[j].id = x
<1>1. ms # <<>>  BY DEF Dangling
<1>2. Len(ms) \in 1 .. Len(ms) /\ Last(ms) = ms[Len(ms)]  BY <1>1, LastIs
<1>3. x \in Ids(ms[Len(ms)], "use")  BY <1>1, <1>2 DEF Dangling
<1> QED BY <1>1, <1>2, <1>3, IdsAre

\* Its id is one of those given out.
LEMMA DanglingBelow ==
  ASSUME NEW ms \in Seq(Messages), NEW n, IdsBelow(ms, n), NEW x \in Dangling(ms)
  PROVE  x < n
<1>1. PICK j \in DOMAIN ms[Len(ms)].blocks : /\ ms[Len(ms)].blocks[j].kind = "use"
                                             /\ ms[Len(ms)].blocks[j].id = x
  BY DanglingAre
<1>2. Len(ms) \in 1 .. Len(ms)  BY DanglingAre
<1> QED BY <1>1, <1>2 DEF IdsBelow

\* Nothing that comes from a conversation has a new id.
LEMMA FromBelow ==
  ASSUME NEW ms \in Seq(Messages), NEW ns, NEW D \in SUBSET Dangling(ms), From(ms, ns, D),
         NEW n, IdsBelow(ms, n)
  PROVE  IdsBelow(ns, n)
<1> SUFFICES ASSUME NEW i \in 1 .. Len(ns), NEW j \in DOMAIN ns[i].blocks, ns[i].blocks[j].kind # "text"
             PROVE  ns[i].blocks[j].id < n
  BY DEF IdsBelow
<1>1. CASE \E k \in 1 .. Len(ms) : \E l \in DOMAIN ms[k].blocks :
             /\ ms[k].blocks[l].kind = ns[i].blocks[j].kind
             /\ ms[k].blocks[l].id = ns[i].blocks[j].id
  BY <1>1 DEF IdsBelow
<1>2. CASE ns[i].blocks[j].id \in D
  <2>1. ns[i].blocks[j].id \in Dangling(ms)  BY <1>2
  <2> QED BY <2>1, DanglingBelow
<1> QED BY <1>1, <1>2 DEF From

\* And its results are marked as before.
LEMMA FromMarked ==
  ASSUME NEW ms, NEW ns, NEW D, From(ms, ns, D), NEW S, Marked(ms, S), D \cap S = {}
  PROVE  Marked(ns, S)
<1> SUFFICES ASSUME NEW i \in 1 .. Len(ns), NEW j \in DOMAIN ns[i].blocks, ns[i].blocks[j].kind = "result"
             PROVE  ns[i].blocks[j].failed = TRUE <=> ns[i].blocks[j].id \notin S
  BY DEF Marked
<1>1. CASE \E k \in 1 .. Len(ms) : \E l \in DOMAIN ms[k].blocks :
             /\ ms[k].blocks[l].kind = ns[i].blocks[j].kind
             /\ ms[k].blocks[l].id = ns[i].blocks[j].id
             /\ ms[k].blocks[l].failed = ns[i].blocks[j].failed
  <2>1. PICK k \in 1 .. Len(ms) : \E l \in DOMAIN ms[k].blocks :
             /\ ms[k].blocks[l].kind = ns[i].blocks[j].kind
             /\ ms[k].blocks[l].id = ns[i].blocks[j].id
             /\ ms[k].blocks[l].failed = ns[i].blocks[j].failed
    BY <1>1
  <2>2. PICK l \in DOMAIN ms[k].blocks :
             /\ ms[k].blocks[l].kind = ns[i].blocks[j].kind
             /\ ms[k].blocks[l].id = ns[i].blocks[j].id
             /\ ms[k].blocks[l].failed = ns[i].blocks[j].failed
    BY <2>1
  <2>3. ms[k].blocks[l].failed = TRUE <=> ms[k].blocks[l].id \notin S  BY <2>2 DEF Marked
  <2> QED BY <2>2, <2>3
<1>2. CASE ns[i].blocks[j].failed = TRUE /\ ns[i].blocks[j].id \in D  BY <1>2
<1>3. ns[i].blocks[j].kind # "text"  OBVIOUS
<1> QED BY <1>1, <1>2, <1>3 DEF From

\* The prefix up to n ends in block b, and a user's last message is behind it.
FreezeHolds(ms, n, b) ==
  n <= FreezePoint(ms) /\ (n # 0 => b # <<>> /\ SameBlock(Last(ms[n].blocks), b[1]))

\* The whole is frozen but for what the user says last.
LEMMA FreezePointIs ==
  ASSUME NEW ms \in Seq(Messages)
  PROVE  /\ FreezePoint(ms) \in 0 .. Len(ms)
         /\ ms # <<>> /\ Is(Last(ms), "user") => FreezePoint(ms) = Len(ms) - 1
<1>1. Len(ms) \in Nat /\ (ms # <<>> => Len(ms) # 0)  OBVIOUS
<1> QED BY <1>1 DEF FreezePoint

\* A sequence of one element.
LEMMA JustOne ==
  ASSUME NEW x
  PROVE  <<x>> # <<>> /\ <<x>>[1] = x
OBVIOUS

\* A freeze puts the boundary on the last message frozen.
LEMMA FrozenHere ==
  ASSUME NEW ms \in Seq(Messages), NEW b,
         b = IF FreezePoint(ms) = 0 THEN <<>> ELSE <<Last(ms[FreezePoint(ms)].blocks)>>
  PROVE  FreezeHolds(ms, FreezePoint(ms), b)
<1> DEFINE n == FreezePoint(ms)
<1>1. n \in Nat  BY FreezePointIs
<1> HIDE DEF n
<1>2. n # 0 => b # <<>> /\ b[1] = Last(ms[n].blocks)
  <2> SUFFICES ASSUME n # 0 PROVE b # <<>> /\ b[1] = Last(ms[n].blocks)  OBVIOUS
  <2> DEFINE x == Last(ms[n].blocks)
  <2>1. b = <<x>>  BY DEF n
  <2> HIDE DEF x
  <2>2. b # <<>> /\ b[1] = x  BY <2>1, JustOne
  <2> QED BY <2>2 DEF x
<1> QED BY <1>1, <1>2 DEF FreezeHolds, n, SameBlock

\* Messages like those of before up to n, and a freeze point not before it.
LEMMA FrozenStays ==
  ASSUME NEW ms, Well(ms), NEW ns \in Seq(Messages), NEW n \in Nat, NEW b, FreezeHolds(ms, n, b),
         n <= FreezePoint(ns), n # 0 => AlikeMessage(ms[n], ns[n])
  PROVE  FreezeHolds(ns, n, b)
<1>1. CASE n = 0  BY <1>1 DEF FreezeHolds
<1>2. CASE n # 0
  <2>0. ms \in Seq(Messages)  BY DEF Well
  <2>1. FreezePoint(ms) \in 0 .. Len(ms) /\ FreezePoint(ns) \in 0 .. Len(ns)
        /\ Len(ms) \in Nat /\ Len(ns) \in Nat
    BY <2>0, FreezePointIs
  <2>2. n \in 1 .. Len(ms) /\ n \in 1 .. Len(ns)  BY <1>2, <2>1 DEF FreezeHolds
  <2>3. ms[n] \in Messages /\ ns[n] \in Messages /\ ms[n].blocks # <<>>  BY <2>0, <2>2, WellAlone
  <2>4. SameBlock(Last(ns[n].blocks), Last(ms[n].blocks))  BY <1>2, <2>3, AlikeEnds
  <2> QED BY <1>2, <2>4 DEF FreezeHolds, SameBlock
<1> QED BY <1>1, <1>2

\* A prefix unchanged under what happens behind it.
LEMMA SamePrefix ==
  ASSUME NEW ms \in Seq(Messages), NEW ns \in Seq(Messages), NEW n \in Nat,
         n <= Len(ms), n <= Len(ns), \A i \in 1 .. n : ns[i] = ms[i]
  PROVE  Prefix(ns, n) = Prefix(ms, n)
<1>1. Prefix(ms, n) = SubSeq(ms, 1, n) /\ Prefix(ns, n) = SubSeq(ns, 1, n)  BY DEF Prefix
<1>2. /\ SubSeq(ms, 1, n) \in Seq(Messages) /\ Len(SubSeq(ms, 1, n)) = n
      /\ \A i \in 1 .. n : SubSeq(ms, 1, n)[i] = ms[i]
  OBVIOUS
<1>3. /\ SubSeq(ns, 1, n) \in Seq(Messages) /\ Len(SubSeq(ns, 1, n)) = n
      /\ \A i \in 1 .. n : SubSeq(ns, 1, n)[i] = ns[i]
  OBVIOUS
<1>4. SubSeq(ns, 1, n) = SubSeq(ms, 1, n)  BY <1>2, <1>3, SameSequence
<1> QED BY <1>1, <1>4

\* What tidying does to a conversation.
LEMMA Tidied ==
  ASSUME NEW ms, Well(ms), frozen \in Nat, NEW summarized \in BOOLEAN, NEW emergency \in BOOLEAN,
         Tidy(ms, summarized, emergency)
  PROVE  /\ Well(messages') /\ Dangling(messages') = Dangling(ms) /\ From(ms, messages', {})
         /\ ms # <<>> => /\ messages' # <<>> /\ Last(messages').role = Last(ms).role
                         /\ \A t \in ToSet(Last(ms).blocks) :
                              t.kind = "text" => t \in ToSet(Last(messages').blocks)
         /\ \/ FreezeHolds(messages', frozen', boundary') /\ frozen' \in Nat
            \/ /\ frozen' = frozen /\ boundary' = boundary
               /\ ~stale' => ~stale /\ AlikeAll(ms, messages')
         /\ pass' \in {"none", "staging"} =>
              frozen' = frozen /\ Prefix(messages', frozen) = Prefix(ms, frozen)
         /\ pass' \in {"staging", "whole", "summary"}
<1> DEFINE short == IF summarized THEN SummarizeConversation(ms) ELSE ms
           staged == ManageStaging(short, frozen)
           whole == ManageConversation(staged)
           flush == ticks + 1 >= FlushInterval \/ emergency
<1>0. /\ messages' = IF flush THEN whole ELSE staged
      /\ pass' = IF short # ms THEN "summary" ELSE IF flush THEN "whole" ELSE "staging"
      /\ flush => Flush(whole, FreezePoint(whole))
      /\ ~flush => stale' = (stale \/ short # ms) /\ frozen' = frozen /\ boundary' = boundary
  BY DEF Tidy
<1>1. /\ Well(short) /\ Dangling(short) = Dangling(ms) /\ From(ms, short, {})
      /\ ms # <<>> => short # <<>> /\ Last(short) = Last(ms)
  <2>1. CASE summarized
    <3> DEFINE s == SummarizeConversation(ms)
    <3>1. /\ Well(s) /\ Dangling(s) = Dangling(ms) /\ From(ms, s, {})
          /\ ms # <<>> => s # <<>> /\ Last(s) = Last(ms)
      BY Summarized
    <3>2. short = s  BY <2>1
    <3> HIDE DEF s, short
    <3> QED BY <3>1, <3>2
  <2>2. CASE ~summarized
    <3>1. short = ms  BY <2>2
    <3> HIDE DEF short
    <3> QED BY <3>1, FromItself
  <2> QED BY <2>1, <2>2
<1> HIDE DEF short
<1>2. short \in Seq(Messages)  BY <1>1 DEF Well
<1>3. /\ staged \in Seq(Messages) /\ AlikeAll(short, staged) /\ Prefix(staged, frozen) = Prefix(short, frozen)
  BY <1>2, ManageStagingAlike
<1> HIDE DEF staged
<1>4. whole \in Seq(Messages) /\ AlikeAll(short, whole)
  <2>1. whole \in Seq(Messages) /\ AlikeAll(staged, whole)  BY <1>3, ManageConversationAlike
  <2> HIDE DEF whole
  <2> QED BY <1>3, <2>1, AlikeThrice
<1> HIDE DEF whole
<1>5. messages' \in Seq(Messages) /\ AlikeAll(short, messages')  BY <1>0, <1>3, <1>4
<1>6. /\ Well(messages') /\ Dangling(messages') = Dangling(short) /\ From(short, messages', {})
      /\ short # <<>> => /\ messages' # <<>> /\ AlikeMessage(Last(short), Last(messages'))
                         /\ Last(messages').role = Last(short).role
  BY <1>1, <1>5, AlikeWell
<1>7. From(ms, messages', {})  BY <1>1, <1>6, FromThrice
<1>8. ms # <<>> => /\ messages' # <<>> /\ Last(messages').role = Last(ms).role
                   /\ \A t \in ToSet(Last(ms).blocks) :
                        t.kind = "text" => t \in ToSet(Last(messages').blocks)
  BY <1>1, <1>6, AlikeTexts
<1>9. CASE flush
  <2>1. messages' = whole  BY <1>0, <1>9
  <2>2. /\ frozen' = FreezePoint(whole)
        /\ boundary' = IF FreezePoint(whole) = 0 THEN <<>> ELSE <<Last(whole[FreezePoint(whole)].blocks)>>
    BY <1>0, <1>9 DEF Flush
  <2>3. FreezeHolds(whole, FreezePoint(whole), boundary')  BY <1>4, <2>2, FrozenHere
  <2>4. FreezePoint(whole) \in Nat  BY <1>4, FreezePointIs
  <2>5. pass' \in {"whole", "summary"}  BY <1>0, <1>9
  <2> QED BY <1>1, <1>6, <1>7, <1>8, <2>1, <2>2, <2>3, <2>4, <2>5
<1>10. CASE ~flush
  <2>1. /\ messages' = staged /\ frozen' = frozen /\ boundary' = boundary
        /\ stale' = (stale \/ short # ms)
    BY <1>0, <1>10
  <2>2. ~stale' => ~stale /\ short = ms  BY <2>1
  <2>3. ~stale' => ~stale /\ AlikeAll(ms, messages')  BY <1>5, <2>2
  <2>4. pass' = IF short # ms THEN "summary" ELSE "staging"  BY <1>0, <1>10
  <2>5. pass' \in {"none", "staging"} => short = ms  BY <2>4
  <2>6. pass' \in {"none", "staging"} => Prefix(messages', frozen) = Prefix(ms, frozen)
    BY <1>3, <2>1, <2>5
  <2> QED BY <1>1, <1>6, <1>7, <1>8, <2>1, <2>3, <2>4, <2>6
<1> QED BY <1>9, <1>10

-----------------------------------------------------------------------------
(* The inductive invariant *)

Pending == [id : Nat, tool : Calls, then : Calls \cup {None}]
Results == [kind : {"result"}, id : Nat, says : Holds, failed : BOOLEAN]

\* The conversation is whole but for the calls of its last message.
ConversationOK == situation \in Situations /\ Well(messages)

\* Ids to come are new, and results are marked by what their calls came to.
IdsOK ==
  /\ nextId \in Nat /\ succeeded \subseteq Nat
  /\ IdsBelow(messages, nextId) /\ Marked(messages, succeeded)
  /\ \A n \in succeeded : n < nextId
  /\ pc # "tools" => Dangling(messages) \cap succeeded = {}

\* While a reply's calls run, they are the last message's: each of them ran and
\* has its result, or is still to run.
ToolsOK ==
  /\ todo \in Seq(Pending) /\ results \in Seq(Results)
  /\ pc = "tools" =>
       /\ messages # <<>> /\ Is(Last(messages), "assistant") /\ Dangling(messages) # {}
       /\ Dangling(messages) = {results[j].id : j \in DOMAIN results} \cup {todo[j].id : j \in DOMAIN todo}
       /\ \A j, k \in DOMAIN todo : j < k => todo[j].id # todo[k].id
       /\ \A j \in DOMAIN todo :
            /\ todo[j].id \notin succeeded
            /\ \A k \in DOMAIN results : results[k].id # todo[j].id
            /\ \A k \in 1 .. Len(messages) : todo[j].id \notin Ids(messages[k], "result")
       /\ \A j \in DOMAIN results : results[j].failed = TRUE <=> results[j].id \notin succeeded

\* The turn's input is in the conversation, at its anchor when it has one, and
\* what the user said since came with results.
TurnOK ==
  /\ {turn, anchor, agentFrozen, frozen, injections} \subseteq Nat
  /\ pc \in {"idle", "context", "model", "loop", "calling", "tools"}
  /\ pc # "idle" => shown = 0
  /\ pc \in {"context", "model", "loop", "calling"} => messages # <<>> /\ Is(Last(messages), "user")
  /\ pc \in {"context", "model"} => Text("input", turn) \in ToSet(Last(messages).blocks)
  /\ pc \in {"loop", "calling", "tools"} =>
       /\ agentFrozen = frozen /\ anchor <= Len(messages)
       /\ anchor # 0 => Text("input", turn) \in ToSet(messages[anchor].blocks)
       /\ \A i \in anchor + 1 .. Len(messages) :
            Is(messages[i], "user") => Ids(messages[i], "result") # {}

\* The boundary is on the message that was frozen.
FrozenOK == ~stale => FreezeHolds(messages, frozen, boundary)

LoopInv == ConversationOK /\ IdsOK /\ ToolsOK /\ TurnOK /\ FrozenOK /\ ShownTextIsKept

\* The values of a function on finitely many arguments.
LEMMA FiniteImage ==
  ASSUME NEW S, IsFiniteSet(S), NEW f, f \in [S -> {f[x] : x \in S}]
  PROVE  IsFiniteSet({f[x] : x \in S})
<1> DEFINE T == {f[x] : x \in S}
<1>1. f \in [S -> T] /\ \A t \in T : \E x \in S : f[x] = t  OBVIOUS
<1> HIDE DEF T
<1>2. f \in Surjection(S, T)  BY <1>1 DEF Surjection
<1>3. IsFiniteSet(T)  BY <1>2, FS_Surjection
<1> QED BY <1>3 DEF T

\* The id a transcript leaves free is a number.
LEMMA FreshIdIs ==
  ASSUME NEW ms \in Seq(Messages)
  PROVE  FreshId(ms) \in Nat
<1> DEFINE parts == {ToSet(ms[i].blocks) : i \in DOMAIN ms}
<1>1. \A i \in DOMAIN ms : IsFiniteSet(ToSet(ms[i].blocks))
  <2> TAKE i \in DOMAIN ms
  <2> DEFINE s == ms[i].blocks
  <2>1. s \in Seq(Blocks)  BY BlocksOf
  <2> HIDE DEF s
  <2>2. DOMAIN s = 1 .. Len(s) /\ 1 \in Int /\ Len(s) \in Int  BY <2>1
  <2>3. IsFiniteSet(DOMAIN s)  BY <2>2, FS_Interval
  <2>4. ToSet(s) = {s[j] : j \in DOMAIN s}  BY DEF ToSet
  <2> HIDE DEF ToSet
  <2>5. s \in [DOMAIN s -> {s[j] : j \in DOMAIN s}]  BY <2>1
  <2>6. IsFiniteSet({s[j] : j \in DOMAIN s})  BY <2>3, <2>5, FiniteImage
  <2> QED BY <2>4, <2>6 DEF s
<1>2. IsFiniteSet(parts)
  <2>1. DOMAIN ms = 1 .. Len(ms) /\ 1 \in Int /\ Len(ms) \in Int  OBVIOUS
  <2>2. IsFiniteSet(DOMAIN ms)  BY <2>1, FS_Interval
  <2> DEFINE f == [i \in DOMAIN ms |-> ToSet(ms[i].blocks)]
  <2>3. f \in [DOMAIN ms -> {f[i] : i \in DOMAIN ms}] /\ parts = {f[i] : i \in DOMAIN ms}  OBVIOUS
  <2> HIDE DEF f, parts
  <2>4. IsFiniteSet({f[i] : i \in DOMAIN ms})  BY <2>2, <2>3, FiniteImage
  <2> QED BY <2>3, <2>4
<1>3. \A p \in parts : IsFiniteSet(p)  BY <1>1
<1> HIDE DEF parts
<1>4. IsFiniteSet(UNION parts)  BY <1>2, <1>3, FS_UNION
<1>5. Cardinality(UNION parts) \in Nat  BY <1>4, FS_CardinalityType
<1> QED BY <1>5 DEF FreshId, parts

\* A session starts from what earlier turns left.
LEMMA InitLoop ==
  ASSUME Init
  PROVE  LoopInv
<1> DEFINE ms == situation.start
           blocks == UNION {ToSet(ms[i].blocks) : i \in DOMAIN ms}
           answers == {b \in blocks : b.kind = "result"}
<1>1. situation \in Situations /\ messages = ms /\ Transcript(ms)  BY TurnLoopAssumption DEF Init
<1> HIDE DEF ms
<1>2. /\ Well(ms) /\ ms \in Seq(Messages)
      /\ \A b \in blocks : b.id < FreshId(ms)
      /\ \A b, c \in answers : b.id = c.id => b.failed = c.failed
      /\ ms # <<>> => \A b \in answers : b.id \notin Ids(Last(ms), "use")
  BY <1>1 DEF Transcript, Well
<1>3. \A i \in 1 .. Len(ms) : \A j \in DOMAIN ms[i].blocks :
        ms[i].blocks[j] \in blocks /\ ms[i].blocks[j] \in Blocks
  <2> TAKE i \in 1 .. Len(ms)
  <2> TAKE j \in DOMAIN ms[i].blocks
  <2>1. ms[i].blocks[j] \in Blocks  BY <1>2, BlocksOf
  <2>2. ms[i].blocks[j] \in ToSet(ms[i].blocks) /\ i \in DOMAIN ms  BY <1>2 DEF ToSet
  <2> QED BY <2>1, <2>2
<1>4. \A b \in blocks : b \in Blocks
  <2> TAKE b \in blocks
  <2>1. PICK i \in DOMAIN ms : b \in ToSet(ms[i].blocks)  OBVIOUS
  <2>2. PICK j \in DOMAIN ms[i].blocks : b = ms[i].blocks[j]  BY <2>1 DEF ToSet
  <2> QED BY <1>2, <2>1, <2>2, BlocksOf
<1> HIDE DEF blocks
<1>5. \A b \in Blocks : b.id \in Nat /\ b.failed \in BOOLEAN  BY DEF Blocks
<1>6. succeeded = {b.id : b \in {c \in blocks : c.kind = "result" /\ ~c.failed}}
  BY DEF Init, ms, blocks
<1>7. nextId = FreshId(ms) /\ FreshId(ms) \in Nat  BY <1>2, FreshIdIs DEF Init, ms
<1>8. ConversationOK  BY <1>1, <1>2 DEF ConversationOK
<1>9. IdsOK
  <2>1. succeeded \subseteq Nat /\ \A n \in succeeded : n < nextId  BY <1>2, <1>4, <1>5, <1>6, <1>7
  <2>2. IdsBelow(ms, nextId)  BY <1>2, <1>3, <1>7 DEF IdsBelow
  <2>3. Marked(ms, succeeded)
    <3> SUFFICES ASSUME NEW b \in blocks, b.kind = "result"
                 PROVE  b.failed = TRUE <=> b.id \notin succeeded
      BY <1>3 DEF Marked
    <3>1. b.failed \in BOOLEAN /\ b \in answers  BY <1>4, <1>5
    <3>2. CASE b.failed = TRUE
      <4> SUFFICES ASSUME b.id \in succeeded PROVE FALSE  BY <3>2
      <4>1. PICK c \in blocks : c.kind = "result" /\ ~c.failed /\ c.id = b.id  BY <1>6
      <4>2. c \in answers  BY <4>1
      <4> QED BY <1>2, <3>1, <3>2, <4>1, <4>2
    <3>3. CASE b.failed = FALSE
      <4>1. b \in {c \in blocks : c.kind = "result" /\ ~c.failed}  BY <3>3
      <4>2. b.id \in succeeded  BY <1>6, <4>1
      <4> QED BY <3>3, <4>2
    <3> QED BY <3>1, <3>2, <3>3
  <2>4. Dangling(ms) \cap succeeded = {}
    <3> SUFFICES ASSUME NEW n \in Dangling(ms), n \in succeeded PROVE FALSE  OBVIOUS
    <3>1. ms # <<>> /\ n \in Ids(Last(ms), "use")  BY DEF Dangling
    <3>2. PICK c \in blocks : c.kind = "result" /\ c.id = n  BY <1>6
    <3>3. c \in answers  BY <3>2
    <3> QED BY <1>2, <3>1, <3>2, <3>3
  <2> QED BY <1>1, <1>7, <2>1, <2>2, <2>3, <2>4 DEF IdsOK
<1>10. ToolsOK  BY DEF Init, ToolsOK
<1>11. TurnOK
  <2>1. frozen \in Nat
    <3>1. frozen = FreezePoint(ms)  BY DEF Init, ms
    <3> QED BY <1>2, <3>1, FreezePointIs
  <2> QED BY <2>1 DEF Init, TurnOK
<1>12. FrozenOK
  <2>1. /\ frozen = FreezePoint(ms)
        /\ boundary = IF FreezePoint(ms) = 0 THEN <<>> ELSE <<Last(ms[FreezePoint(ms)].blocks)>>
    BY DEF Init, ms
  <2>2. FreezeHolds(ms, FreezePoint(ms), boundary)  BY <1>2, <2>1, FrozenHere
  <2> QED BY <1>1, <2>1, <2>2 DEF FrozenOK
<1>13. ShownTextIsKept  BY DEF Init, ShownTextIsKept
<1> QED BY <1>8, <1>9, <1>10, <1>11, <1>12, <1>13 DEF LoopInv

-----------------------------------------------------------------------------
(* The steps keep it *)

\* Ids below a number are below a greater one.
LEMMA BelowGrows ==
  ASSUME NEW ms \in Seq(Messages), NEW m \in Nat, NEW n \in Nat, m <= n, IdsBelow(ms, m)
  PROVE  IdsBelow(ms, n)
<1> SUFFICES ASSUME NEW i \in 1 .. Len(ms), NEW j \in DOMAIN ms[i].blocks, ms[i].blocks[j].kind # "text"
             PROVE  ms[i].blocks[j].id < n
  BY DEF IdsBelow
<1>1. ms[i].blocks[j].id < m  BY DEF IdsBelow
<1>2. ms[i].blocks[j] \in Blocks  BY BlocksOf
<1>3. ms[i].blocks[j].id \in Nat  BY <1>2 DEF Blocks
<1> QED BY <1>1, <1>3

\* The calls and results a step leaves are those there were, but for the
\* answers to what dangled.
LEMMA IdsKept ==
  ASSUME ConversationOK, IdsOK, NEW D \in SUBSET Dangling(messages), From(messages, messages', D),
         UNCHANGED <<nextId, succeeded>>, pc # "tools",
         Dangling(messages') \subseteq Dangling(messages)
  PROVE  IdsOK'
<1>1. messages \in Seq(Messages)  BY DEF ConversationOK, Well
<1>2. IdsBelow(messages', nextId)  BY <1>1, FromBelow DEF IdsOK
<1>3. D \cap succeeded = {}  BY DEF IdsOK
<1>4. Marked(messages', succeeded)  BY <1>3, FromMarked DEF IdsOK
<1>5. Dangling(messages') \cap succeeded = {}  BY DEF IdsOK
<1> QED BY <1>2, <1>4, <1>5 DEF IdsOK

\* A step that leaves the conversation alone.
LEMMA SameConversation ==
  ASSUME ConversationOK, IdsOK, FrozenOK,
         UNCHANGED <<situation, messages, frozen, boundary, stale, nextId, succeeded>>,
         pc' = "tools" \/ pc # "tools"
  PROVE  ConversationOK' /\ IdsOK' /\ FrozenOK'
<1>1. ConversationOK'  BY DEF ConversationOK
<1>2. IdsOK'  BY DEF IdsOK
<1>3. FrozenOK'  BY DEF FrozenOK
<1> QED BY <1>1, <1>2, <1>3

\* What is asked of calls in flight holds when none is.
LEMMA NoCallsRun ==
  ASSUME todo' \in Seq(Pending), results' \in Seq(Results), pc' # "tools"
  PROVE  ToolsOK'
BY DEF ToolsOK

\* The input joins the conversation, which is repaired and tidied.
LEMMA InputStep ==
  ASSUME LoopInv, NEW summarized \in BOOLEAN, NEW emergency \in BOOLEAN,
         PrepareInput(summarized, emergency)
  PROVE  LoopInv' /\ (pass' \in {"none", "staging"} /\ ~stale =>
                        frozen' = frozen /\ Prefix(messages', frozen) = Prefix(messages, frozen))
<1> DEFINE text == Text("input", turn + 1)
           ms == RepairDanglingToolUse(AppendInput(messages, text))
<1>1. /\ pc = "idle" /\ pc' = "context" /\ turn' = turn + 1 /\ Tidy(ms, summarized, emergency) /\ shown' = 0
      /\ UNCHANGED <<situation, injections, nextId, succeeded, agent>>
  BY DEF PrepareInput, Move
<1>2. UNCHANGED <<anchor, agentFrozen, todo, results>>  BY <1>1 DEF agent
<1>3. turn \in Nat /\ frozen \in Nat /\ {anchor, agentFrozen, injections} \subseteq Nat  BY DEF LoopInv, TurnOK
<1>4. text \in Blocks /\ text.kind = "text"
  <2>1. "input" \in Texts /\ turn + 1 \in Nat  BY <1>3 DEF Texts
  <2> QED BY <2>1, TextIs
<1>5. Well(messages) /\ messages \in Seq(Messages)  BY DEF LoopInv, ConversationOK, Well
<1> HIDE DEF text
<1>6. /\ Well(ms) /\ ms # <<>> /\ Is(Last(ms), "user") /\ Dangling(ms) = {}
      /\ text \in ToSet(Last(ms).blocks)
      /\ Len(ms) = FreezePoint(messages) + 1
      /\ \A i \in 1 .. FreezePoint(messages) : ms[i] = messages[i]
      /\ From(messages, ms, Dangling(messages))
  BY <1>4, <1>5, InputPrepared
<1> HIDE DEF ms
<1>7. /\ Well(messages') /\ Dangling(messages') = Dangling(ms) /\ From(ms, messages', {})
      /\ ms # <<>> => /\ messages' # <<>> /\ Last(messages').role = Last(ms).role
                      /\ \A t \in ToSet(Last(ms).blocks) :
                           t.kind = "text" => t \in ToSet(Last(messages').blocks)
      /\ \/ FreezeHolds(messages', frozen', boundary') /\ frozen' \in Nat
         \/ /\ frozen' = frozen /\ boundary' = boundary
            /\ ~stale' => ~stale /\ AlikeAll(ms, messages')
      /\ pass' \in {"none", "staging"} =>
           frozen' = frozen /\ Prefix(messages', frozen) = Prefix(ms, frozen)
  BY <1>1, <1>3, <1>6, Tidied
<1>8. ms \in Seq(Messages) /\ messages' \in Seq(Messages)  BY <1>6, <1>7 DEF Well
<1>9. ConversationOK'  BY <1>1, <1>7 DEF LoopInv, ConversationOK
<1>10. IdsOK'
  <2>1. From(messages, messages', Dangling(messages))  BY <1>6, <1>7, FromThrice
  <2>2. Dangling(messages') \subseteq Dangling(messages)  BY <1>6, <1>7
  <2> QED BY <1>1, <2>1, <2>2, IdsKept DEF LoopInv
<1>11. ToolsOK'
  <2>1. todo' \in Seq(Pending) /\ results' \in Seq(Results)  BY <1>2 DEF LoopInv, ToolsOK
  <2> QED BY <1>1, <2>1, NoCallsRun
<1>12. frozen' \in Nat  BY <1>3, <1>7
<1>13. TurnOK'
  <2>1. messages' # <<>> /\ Is(Last(messages'), "user") /\ text \in ToSet(Last(messages').blocks)
    BY <1>4, <1>6, <1>7 DEF Is
  <2> QED BY <1>1, <1>2, <1>3, <1>12, <2>1 DEF TurnOK, text
<1>14. ~stale => /\ frozen <= FreezePoint(messages) /\ FreezePoint(messages) \in 0 .. Len(messages)
                 /\ FreezePoint(ms) = FreezePoint(messages)
  <2>1. FreezePoint(ms) = Len(ms) - 1 /\ FreezePoint(messages) \in 0 .. Len(messages)
    BY <1>5, <1>6, <1>8, FreezePointIs
  <2> QED BY <1>6, <2>1 DEF LoopInv, FrozenOK, FreezeHolds
<1>15. FrozenOK'
  <2>1. CASE FreezeHolds(messages', frozen', boundary')  BY <2>1 DEF FrozenOK
  <2>2. CASE /\ frozen' = frozen /\ boundary' = boundary
             /\ ~stale' => ~stale /\ AlikeAll(ms, messages')
    <3> SUFFICES ASSUME ~stale' PROVE FreezeHolds(messages', frozen, boundary)  BY <2>2 DEF FrozenOK
    <3>1. ~stale /\ AlikeAll(ms, messages') /\ FreezeHolds(messages, frozen, boundary)
      BY <2>2 DEF LoopInv, FrozenOK
    <3>2. FreezePoint(messages') = FreezePoint(ms)  BY <1>6, <1>8, <3>1, AlikeWell
    <3>3. frozen # 0 => AlikeMessage(messages[frozen], messages'[frozen])
      <4> SUFFICES ASSUME frozen # 0 PROVE AlikeMessage(messages[frozen], messages'[frozen])  OBVIOUS
      <4>1. frozen \in 1 .. FreezePoint(messages) /\ frozen \in 1 .. Len(ms)
        BY <1>3, <1>6, <1>14, <3>1
      <4>2. ms[frozen] = messages[frozen]  BY <1>6, <4>1
      <4> QED BY <3>1, <4>1, <4>2 DEF AlikeAll
    <3> QED BY <1>3, <1>5, <1>8, <1>14, <3>1, <3>2, <3>3, FrozenStays
  <2> QED BY <1>7, <2>1, <2>2
<1>16. ShownTextIsKept'  BY <1>1 DEF ShownTextIsKept
<1>17. pass' \in {"none", "staging"} /\ ~stale =>
         frozen' = frozen /\ Prefix(messages', frozen) = Prefix(messages, frozen)
  <2> SUFFICES ASSUME pass' \in {"none", "staging"}, ~stale
               PROVE  Prefix(ms, frozen) = Prefix(messages, frozen)
    BY <1>7
  <2>1. frozen <= Len(ms) /\ frozen <= Len(messages) /\ \A i \in 1 .. frozen : i \in 1 .. FreezePoint(messages)
    BY <1>3, <1>5, <1>6, <1>14
  <2> QED BY <1>3, <1>5, <1>6, <1>8, <2>1, SamePrefix
<1> QED BY <1>9, <1>10, <1>11, <1>13, <1>15, <1>16, <1>17 DEF LoopInv

\* The conversation is compacted between turns.
LEMMA CompactStep ==
  ASSUME LoopInv, NEW summarized \in BOOLEAN, NEW emergency \in BOOLEAN,
         CompactContext(summarized, emergency)
  PROVE  LoopInv' /\ (pass' \in {"none", "staging"} /\ ~stale =>
                        frozen' = frozen /\ Prefix(messages', frozen) = Prefix(messages, frozen))
<1>1. /\ pc = "idle" /\ pc' = "idle" /\ Tidy(messages, summarized, emergency) /\ shown' = 0
      /\ UNCHANGED <<situation, turn, injections, nextId, succeeded, agent>>
  BY DEF CompactContext
<1>2. UNCHANGED <<anchor, agentFrozen, todo, results>>  BY <1>1 DEF agent
<1>3. frozen \in Nat /\ {turn, anchor, agentFrozen, injections} \subseteq Nat  BY DEF LoopInv, TurnOK
<1>4. Well(messages) /\ messages \in Seq(Messages)  BY DEF LoopInv, ConversationOK, Well
<1>5. /\ Well(messages') /\ Dangling(messages') = Dangling(messages) /\ From(messages, messages', {})
      /\ \/ FreezeHolds(messages', frozen', boundary') /\ frozen' \in Nat
         \/ /\ frozen' = frozen /\ boundary' = boundary
            /\ ~stale' => ~stale /\ AlikeAll(messages, messages')
      /\ pass' \in {"none", "staging"} =>
           frozen' = frozen /\ Prefix(messages', frozen) = Prefix(messages, frozen)
  BY <1>1, <1>3, <1>4, Tidied
<1>6. messages' \in Seq(Messages)  BY <1>5 DEF Well
<1>7. ConversationOK'  BY <1>1, <1>5 DEF LoopInv, ConversationOK
<1>8. IdsOK'
  <2>1. {} \in SUBSET Dangling(messages) /\ Dangling(messages') \subseteq Dangling(messages)  BY <1>5
  <2> QED BY <1>1, <1>5, <2>1, IdsKept DEF LoopInv
<1>9. ToolsOK'
  <2>1. todo' \in Seq(Pending) /\ results' \in Seq(Results)  BY <1>2 DEF LoopInv, ToolsOK
  <2> QED BY <1>1, <2>1, NoCallsRun
<1>10. TurnOK'
  <2>1. frozen' \in Nat  BY <1>3, <1>5
  <2> QED BY <1>1, <1>2, <1>3, <2>1 DEF TurnOK
<1>11. FrozenOK'
  <2>1. CASE FreezeHolds(messages', frozen', boundary')  BY <2>1 DEF FrozenOK
  <2>2. CASE /\ frozen' = frozen /\ boundary' = boundary
             /\ ~stale' => ~stale /\ AlikeAll(messages, messages')
    <3> SUFFICES ASSUME ~stale' PROVE FreezeHolds(messages', frozen, boundary)  BY <2>2 DEF FrozenOK
    <3>1. ~stale /\ AlikeAll(messages, messages') /\ FreezeHolds(messages, frozen, boundary)
      BY <2>2 DEF LoopInv, FrozenOK
    <3>2. FreezePoint(messages') = FreezePoint(messages)  BY <1>4, <1>6, <3>1, AlikeWell
    <3>3. frozen # 0 => AlikeMessage(messages[frozen], messages'[frozen])
      <4> SUFFICES ASSUME frozen # 0 PROVE AlikeMessage(messages[frozen], messages'[frozen])  OBVIOUS
      <4>1. frozen \in 1 .. Len(messages)  BY <1>3, <1>4, <3>1, FreezePointIs DEF FreezeHolds
      <4> QED BY <3>1, <4>1 DEF AlikeAll
    <3> QED BY <1>3, <1>4, <1>6, <3>1, <3>2, <3>3, FrozenStays DEF FreezeHolds
  <2> QED BY <1>5, <2>1, <2>2
<1>12. ShownTextIsKept'  BY <1>1 DEF ShownTextIsKept
<1> QED BY <1>5, <1>7, <1>8, <1>9, <1>10, <1>11, <1>12 DEF LoopInv

\* The engine is rebuilt from its transcript.
LEMMA RestoreStep ==
  ASSUME LoopInv, RestoreSession
  PROVE  LoopInv' /\ pass' = "whole"
<1> DEFINE ns == RepairAlternation(RepairDanglingToolUse(RepairEmptyContent(messages)))
<1>1. /\ pc = "idle" /\ pc' = "idle" /\ messages' = ns /\ Flush(ns, FreezePoint(ns))
      /\ pass' = "whole" /\ shown' = 0 /\ injections' = 0
      /\ UNCHANGED <<situation, turn, nextId, succeeded, agent>>
  BY DEF RestoreSession
<1>2. UNCHANGED <<anchor, agentFrozen, todo, results>>  BY <1>1 DEF agent
<1>3. Well(messages)  BY DEF LoopInv, ConversationOK
<1>4. Well(ns) /\ Dangling(ns) = {} /\ From(messages, ns, Dangling(messages))  BY <1>3, Restored
<1> HIDE DEF ns
<1>5. ns \in Seq(Messages)  BY <1>4 DEF Well
<1>6. /\ frozen' = FreezePoint(ns)
      /\ boundary' = IF FreezePoint(ns) = 0 THEN <<>> ELSE <<Last(ns[FreezePoint(ns)].blocks)>>
  BY <1>1 DEF Flush
<1>7. FreezeHolds(ns, FreezePoint(ns), boundary') /\ FreezePoint(ns) \in Nat
  BY <1>5, <1>6, FrozenHere, FreezePointIs
<1>8. ConversationOK'  BY <1>1, <1>4 DEF LoopInv, ConversationOK
<1>9. IdsOK'
  <2>1. Dangling(messages') \subseteq Dangling(messages)  BY <1>1, <1>4
  <2> QED BY <1>1, <1>4, <2>1, IdsKept DEF LoopInv
<1>10. ToolsOK'
  <2>1. todo' \in Seq(Pending) /\ results' \in Seq(Results)  BY <1>2 DEF LoopInv, ToolsOK
  <2> QED BY <1>1, <2>1, NoCallsRun
<1>11. TurnOK'  BY <1>1, <1>2, <1>6, <1>7 DEF LoopInv, TurnOK
<1>12. FrozenOK'  BY <1>1, <1>6, <1>7 DEF FrozenOK
<1>13. ShownTextIsKept'  BY <1>1 DEF ShownTextIsKept
<1> QED BY <1>1, <1>8, <1>9, <1>10, <1>11, <1>12, <1>13 DEF LoopInv

\* What the provider's answer is prepared for: the turn's context, its model,
\* or the end of it.
LEMMA ContextSteps ==
  ASSUME LoopInv, BuildTurnContext \/ ContextFails \/ \E old \in SUBSET Models : StartAgent(old)
  PROVE  LoopInv' /\ UNCHANGED <<messages, frozen>>
<1>1. /\ UNCHANGED <<situation, turn, messages, frozen, boundary, stale, injections, nextId, succeeded,
                     todo, results, shown>>
      /\ \/ pc = "context" /\ pc' = "model" /\ UNCHANGED <<anchor, agentFrozen>>
         \/ pc = "context" /\ pc' = "idle" /\ UNCHANGED <<anchor, agentFrozen>>
         \/ pc = "model" /\ pc' = "loop" /\ anchor' = Len(messages) /\ agentFrozen' = frozen
  BY DEF BuildTurnContext, ContextFails, StartAgent, Move, agent, bounds, conversation
<1>2. ConversationOK' /\ IdsOK' /\ FrozenOK'  BY <1>1, SameConversation DEF LoopInv
<1>3. ToolsOK'
  <2>1. todo' \in Seq(Pending) /\ results' \in Seq(Results)  BY <1>1 DEF LoopInv, ToolsOK
  <2> QED BY <1>1, <2>1, NoCallsRun
<1>4. messages \in Seq(Messages)  BY DEF LoopInv, ConversationOK, Well
<1>5. TurnOK'
  <2> USE DEF LoopInv, TurnOK
  <2>1. CASE pc = "context" /\ pc' = "model" /\ UNCHANGED <<anchor, agentFrozen>>  BY <1>1, <2>1
  <2>2. CASE pc = "context" /\ pc' = "idle" /\ UNCHANGED <<anchor, agentFrozen>>  BY <1>1, <2>2
  <2>3. CASE pc = "model" /\ pc' = "loop" /\ anchor' = Len(messages) /\ agentFrozen' = frozen
    <3>1. messages # <<>> /\ Last(messages) = messages[Len(messages)] /\ Len(messages) \in Nat \ {0}
      BY <1>4, <2>3, LastIs
    <3>2. Text("input", turn) \in ToSet(messages[anchor'].blocks)  BY <2>3, <3>1
    <3>3. anchor' + 1 .. Len(messages') = {}  BY <1>1, <2>3, <3>1
    <3>4. anchor' \in Nat /\ agentFrozen' \in Nat  BY <2>3, <3>1
    <3> QED BY <1>1, <2>3, <3>1, <3>2, <3>3, <3>4
  <2> QED BY <1>1, <2>1, <2>2, <2>3
<1>6. ShownTextIsKept'
  <2>1. shown' = 0  BY <1>1 DEF LoopInv, TurnOK
  <2> QED BY <2>1 DEF ShownTextIsKept
<1> QED BY <1>1, <1>2, <1>3, <1>5, <1>6 DEF LoopInv

\* Run returns, with the conversation as it is.
LEMMA StopSteps ==
  ASSUME LoopInv, StopForCanceledTurn \/ StopForAPICallCap
  PROVE  LoopInv' /\ UNCHANGED <<messages, frozen>>
<1>1. /\ pc = "loop" /\ pc' = "idle"
      /\ UNCHANGED <<situation, turn, messages, frozen, boundary, stale, injections, nextId, succeeded, shown>>
      /\ anchor' = 0 /\ agentFrozen' = 0 /\ todo' = <<>> /\ results' = <<>>
  BY DEF StopForCanceledTurn, StopForAPICallCap, Return, bounds
<1>2. ConversationOK' /\ IdsOK' /\ FrozenOK'  BY <1>1, SameConversation DEF LoopInv
<1>3. ToolsOK'
  <2>1. todo' \in Seq(Pending) /\ results' \in Seq(Results)  BY <1>1
  <2> QED BY <1>1, <2>1, NoCallsRun
<1>4. TurnOK'  BY <1>1 DEF LoopInv, TurnOK
<1>5. ShownTextIsKept'
  <2>1. shown' = 0  BY <1>1 DEF LoopInv, TurnOK
  <2> QED BY <2>1 DEF ShownTextIsKept
<1> QED BY <1>1, <1>2, <1>3, <1>4, <1>5 DEF LoopInv

\* The user beside the turn, and a step that is none.
LEMMA BesideSteps ==
  ASSUME LoopInv, InjectMessage \/ Cancel \/ UNCHANGED vars
  PROVE  LoopInv' /\ UNCHANGED <<messages, frozen>>
<1>1. /\ UNCHANGED <<situation, turn, pc, messages, frozen, boundary, stale, nextId, succeeded, shown,
                     anchor, agentFrozen, todo, results>>
      /\ injections' \in {injections, injections + 1}
  BY DEF InjectMessage, Cancel, vars, bounds, conversation, agent
<1>2. ConversationOK' /\ IdsOK' /\ FrozenOK'  BY <1>1, SameConversation DEF LoopInv
<1>3. ToolsOK'
  <2>1. ToolsOK  BY DEF LoopInv
  <2> QED BY <1>1, <2>1 DEF ToolsOK
<1>4. TurnOK'
  <2>1. TurnOK  BY DEF LoopInv
  <2>2. injections' \in Nat  BY <1>1, <2>1 DEF TurnOK
  <2> QED BY <1>1, <2>1, <2>2 DEF TurnOK
<1>5. ShownTextIsKept'  BY <1>1 DEF LoopInv, ShownTextIsKept
<1> QED BY <1>1, <1>2, <1>3, <1>4, <1>5 DEF LoopInv

\* A request is prepared: the last message may have got texts, the whole may be
\* pruned and its head dropped, and the indices move with it.
LEMMA AdoptStep ==
  ASSUME LoopInv, pc \in {"loop", "calling"}, pc' = "calling",
         UNCHANGED <<situation, turn, nextId, succeeded, todo, results, shown>>, injections' \in Nat,
         NEW ms, Well(ms), Len(ms) = Len(messages), Last(ms).role = Last(messages).role,
         \A i \in 1 .. Len(messages) - 1 : ms[i] = messages[i],
         \A t \in ToSet(Last(messages).blocks) : t.kind = "text" => t \in ToSet(Last(ms).blocks),
         Ids(Last(ms), "result") = Ids(Last(messages), "result"), From(messages, ms, {}),
         NEW heavy, NEW adopted, Adopt(BeforeRequest(ms, heavy, adopted))
  PROVE  LoopInv' /\ pass' = "whole"
<1> DEFINE p == BeforeRequest(ms, heavy, adopted)
           d == p.dropped
           L == Len(messages)
<1>1. /\ messages' = p.messages /\ pass' = "whole" /\ UNCHANGED <<boundary, stale>>
      /\ anchor' = Shifted(anchor, d) /\ agentFrozen' = Shifted(agentFrozen, d)
      /\ frozen' = Shifted(frozen, d)
  BY DEF Adopt
<1>2. Well(messages) /\ messages \in Seq(Messages) /\ ms \in Seq(Messages)
  BY DEF LoopInv, ConversationOK, Well
<1>3. messages # <<>> /\ Is(Last(messages), "user")  BY DEF LoopInv, TurnOK
<1>4. L \in Nat \ {0} /\ Last(messages) = messages[L] /\ L \in 1 .. L  BY <1>2, <1>3, LastIs
<1>5. ms # <<>> /\ Last(ms) = ms[L]
  <2>1. Len(ms) # 0  BY <1>4
  <2>2. ms # <<>>  BY <2>1
  <2> QED BY <2>2 DEF Last
<1>6. /\ Well(p.messages) /\ p.messages # <<>>
      /\ d \in 0 .. Len(ms) - 1 /\ Len(p.messages) = Len(ms) - d
      /\ \A i \in 1 .. Len(p.messages) : AlikeMessage(ms[d + i], p.messages[i])
      /\ From(ms, p.messages, {}) /\ Dangling(p.messages) = Dangling(ms)
      /\ Last(p.messages).role = Last(ms).role
  <2>1. Well(ms) /\ ms # <<>>  BY <1>5
  <2> HIDE DEF L
  <2> QED BY ONLY <2>1, Pruned, Zenon
<1> HIDE DEF p
<1>7. d \in 0 .. L - 1 /\ Len(messages') = L - d /\ messages' \in Seq(Messages)
  BY <1>1, <1>6 DEF Well
<1>8. \A i \in 1 .. L - d : d + i \in 1 .. L /\ AlikeMessage(ms[d + i], messages'[i])
  <2>1. \A i \in 1 .. L - d : d + i \in 1 .. L
    <3> HIDE DEF d, L
    <3> QED BY <1>4, <1>7
  <2>2. \A i \in 1 .. L - d : AlikeMessage(ms[d + i], messages'[i])
    <3>1. 1 .. L - d = 1 .. Len(p.messages)  BY <1>1, <1>7
    <3> HIDE DEF d
    <3> QED BY <1>1, <1>6, <3>1
  <2> QED BY <2>1, <2>2
<1> HIDE DEF d
<1>9. \A k \in 1 .. L : /\ ms[k].role = messages[k].role
                        /\ Ids(ms[k], "result") = Ids(messages[k], "result")
                        /\ \A t \in ToSet(messages[k].blocks) : t.kind = "text" => t \in ToSet(ms[k].blocks)
  <2> TAKE k \in 1 .. L
  <2>1. CASE k = L  BY <1>4, <1>5, <2>1
  <2>2. CASE k # L
    <3>1. k \in 1 .. L - 1  BY <1>4, <2>2
    <3> QED BY <3>1
  <2> QED BY <2>1, <2>2
<1> HIDE DEF L
<1>10. ASSUME NEW k \in 1 .. L, k > d
       PROVE  /\ k - d \in 1 .. Len(messages')
              /\ \A t \in ToSet(messages[k].blocks) : t.kind = "text" => t \in ToSet(messages'[k - d].blocks)
              /\ AlikeMessage(ms[k], messages'[k - d])
  <2>1. k - d \in 1 .. L - d /\ d + (k - d) = k  BY <1>4, <1>7, <1>10
  <2>2. AlikeMessage(ms[k], messages'[k - d])  BY <1>8, <2>1
  <2>3. \A t \in ToSet(ms[k].blocks) : t.kind = "text" => t \in ToSet(messages'[k - d].blocks)
    BY <2>2, AlikeTexts
  <2> QED BY <1>7, <1>9, <2>1, <2>2, <2>3
<1>11. ConversationOK'  BY <1>1, <1>6 DEF LoopInv, ConversationOK
<1>12. IdsOK'
  <2>1. Dangling(ms) = {} /\ Dangling(messages) = {}
    BY <1>2, <1>3, <1>5, UserLast DEF Is
  <2>2. From(messages, messages', {})  BY <1>1, <1>6, FromThrice
  <2>3. Dangling(messages') \subseteq Dangling(messages)  BY <1>1, <1>6, <2>1
  <2>4. {} \in SUBSET Dangling(messages)  OBVIOUS
  <2> QED BY <2>2, <2>3, <2>4, IdsKept DEF LoopInv
<1>13. ToolsOK'
  <2>1. todo' \in Seq(Pending) /\ results' \in Seq(Results)  BY DEF LoopInv, ToolsOK
  <2> QED BY <2>1, NoCallsRun
<1>14. /\ {turn, anchor, agentFrozen, frozen} \subseteq Nat /\ agentFrozen = frozen /\ anchor <= L
       /\ anchor # 0 => Text("input", turn) \in ToSet(messages[anchor].blocks)
       /\ \A i \in anchor + 1 .. L : Is(messages[i], "user") => Ids(messages[i], "result") # {}
       /\ shown = 0
  BY DEF LoopInv, TurnOK, L
<1>15. TurnOK'
  <2>1. /\ anchor' = IF anchor > d THEN anchor - d ELSE 0
        /\ frozen' = IF frozen > d THEN frozen - d ELSE 0
        /\ agentFrozen' = frozen'
    BY <1>1, <1>14 DEF Shifted
  <2>2. anchor' \in Nat /\ frozen' \in Nat /\ anchor' <= L - d
    <3>1. L \in Nat /\ d \in Nat /\ d <= L /\ anchor \in Nat /\ frozen \in Nat /\ anchor <= L
      BY <1>4, <1>7, <1>14
    <3> QED BY <2>1, <3>1
  <2>3. anchor' # 0 => Text("input", turn) \in ToSet(messages'[anchor'].blocks)
    <3> SUFFICES ASSUME anchor' # 0 PROVE Text("input", turn) \in ToSet(messages'[anchor'].blocks)
      OBVIOUS
    <3>1. anchor > d /\ anchor' = anchor - d /\ anchor \in 1 .. L /\ anchor # 0  BY <1>4, <1>7, <1>14, <2>1
    <3>2. Text("input", turn).kind = "text"  BY DEF Text
    <3> QED BY <1>10, <1>14, <3>1, <3>2
  <2>4. \A i \in anchor' + 1 .. Len(messages') :
          Is(messages'[i], "user") => Ids(messages'[i], "result") # {}
    <3> SUFFICES ASSUME NEW i \in anchor' + 1 .. Len(messages'), Is(messages'[i], "user")
                 PROVE  Ids(messages'[i], "result") # {}
      OBVIOUS
    <3>1. i \in 1 .. L - d /\ d + i \in anchor + 1 .. L /\ d + i \in 1 .. L
      BY <1>4, <1>7, <1>14, <2>1, <2>2
    <3>2. AlikeMessage(ms[d + i], messages'[i])  BY <1>8, <3>1
    <3>3. messages'[i].role = ms[d + i].role  BY <3>2 DEF AlikeMessage
    <3>4. Is(messages[d + i], "user")  BY <1>9, <3>1, <3>3 DEF Is
    <3>5. Ids(messages'[i], "result") = Ids(ms[d + i], "result")  BY <3>2, AlikeIds
    <3> QED BY <1>9, <1>14, <3>1, <3>4, <3>5
  <2>5. messages' # <<>> /\ Is(Last(messages'), "user")  BY <1>1, <1>3, <1>6 DEF Is
  <2> QED BY <1>7, <1>14, <2>1, <2>2, <2>3, <2>4, <2>5 DEF TurnOK
<1>16. FrozenOK'
  <2> SUFFICES ASSUME ~stale PROVE FreezeHolds(messages', frozen', boundary)  BY <1>1 DEF FrozenOK
  <2>1. FreezeHolds(messages, frozen, boundary)  BY DEF LoopInv, FrozenOK
  <2>2. FreezePoint(messages) = L - 1  BY <1>2, <1>3, FreezePointIs DEF L
  <2>3. frozen <= L - 1 /\ frozen' = IF frozen > d THEN frozen - d ELSE 0
    BY <1>1, <2>1, <2>2 DEF FreezeHolds, Shifted
  <2>4. FreezePoint(messages') = L - d - 1
    <3>1. messages' # <<>> /\ Is(Last(messages'), "user")  BY <1>1, <1>3, <1>6 DEF Is
    <3> QED BY <1>7, <3>1, FreezePointIs
  <2>5. frozen' <= L - d - 1  BY <1>4, <1>7, <1>14, <2>3
  <2>6. ASSUME frozen' # 0
        PROVE  boundary # <<>> /\ SameBlock(Last(messages'[frozen'].blocks), boundary[1])
    <3>1. frozen > d /\ frozen' = frozen - d /\ frozen \in 1 .. L - 1 /\ frozen \in 1 .. L /\ frozen # 0
      BY <1>4, <1>7, <1>14, <2>3, <2>6
    <3>2. AlikeMessage(ms[frozen], messages'[frozen']) /\ frozen' \in 1 .. Len(messages')  BY <1>10, <3>1
    <3>3. ms[frozen] = messages[frozen]  BY <3>1 DEF L
    <3>4. messages[frozen] \in Messages /\ messages'[frozen'] \in Messages
      BY <1>2, <1>7, <3>1, <3>2 DEF L
    <3>5. messages[frozen].blocks # <<>>  BY <1>2, <3>1, WellAlone DEF L
    <3>6. SameBlock(Last(messages'[frozen'].blocks), Last(messages[frozen].blocks))
      BY <3>2, <3>3, <3>4, <3>5, AlikeEnds
    <3> QED BY <2>1, <3>1, <3>6 DEF FreezeHolds, SameBlock
  <2> QED BY <2>4, <2>5, <2>6 DEF FreezeHolds
<1>17. ShownTextIsKept'  BY DEF ShownTextIsKept
<1> QED BY <1>1, <1>11, <1>12, <1>13, <1>15, <1>16, <1>17 DEF LoopInv

\* The request is pruned harder and tried again.
LEMMA RetryStep ==
  ASSUME LoopInv, NEW heavy, RetryPruned(heavy)
  PROVE  LoopInv' /\ pass' = "whole"
<1>1. /\ pc = "calling" /\ pc' = "calling" /\ Adopt(BeforeRequest(messages, heavy, TRUE))
      /\ UNCHANGED <<situation, turn, nextId, succeeded, todo, results, shown, injections>>
  BY DEF RetryPruned, bounds
<1>2. Well(messages) /\ injections' \in Nat /\ From(messages, messages, {})
  BY <1>1, FromItself DEF LoopInv, ConversationOK, TurnOK
<1> QED BY <1>1, <1>2, AdoptStep

\* The next request is put together and sent.
LEMMA CallStep ==
  ASSUME LoopInv, NEW heavy, NEW adopted, NextCall(heavy, adopted)
  PROVE  LoopInv' /\ pass' = "whole"
<1> DEFINE later == apiCalls > 0
           heard == IF later THEN [i \in 1 .. injections |-> Text("injected", 0)] ELSE <<>>
           notice == IF later /\ LimitReached THEN <<Text("notice", 0)>> ELSE <<>>
           asked == AppendToLast(messages, heard \o notice)
           inject == volatile /\ Is(Last(asked), "user")
           sentOff == IF inject THEN AfterResults(asked, Text("context", turn)) ELSE asked
<1>1. /\ pc = "loop" /\ pc' = "calling" /\ Adopt(BeforeRequest(sentOff, heavy, adopted))
      /\ UNCHANGED <<situation, turn, nextId, succeeded, todo, results, shown>>
      /\ injections' = IF later THEN 0 ELSE injections
  BY DEF NextCall, Move, bounds
<1>2. /\ Well(messages) /\ messages # <<>> /\ injections \in Nat /\ turn \in Nat
  BY <1>1 DEF LoopInv, ConversationOK, TurnOK
<1>3. Wordy(heard \o notice)
  <2>1. /\ Text("injected", 0) \in Blocks /\ Text("injected", 0).kind = "text"
        /\ Text("notice", 0) \in Blocks /\ Text("notice", 0).kind = "text"
    <3>1. "injected" \in Texts /\ "notice" \in Texts  BY DEF Texts
    <3> QED BY <3>1, TextIs
  <2> DEFINE x == Text("injected", 0)  y == Text("notice", 0)
             many == [i \in 1 .. injections |-> x]
  <2> HIDE DEF x, y
  <2>2. x \in Blocks /\ x.kind = "text" /\ y \in Blocks /\ y.kind = "text"  BY <2>1 DEF x, y
  <2>3. many \in Seq(Blocks) /\ \A i \in DOMAIN many : many[i].kind = "text"  BY <1>2, <2>2
  <2>4. <<y>> \in Seq(Blocks) /\ \A i \in DOMAIN <<y>> : <<y>>[i].kind = "text"  BY <2>2
  <2>5. <<>> \in Seq(Blocks) /\ DOMAIN <<>> = {}  OBVIOUS
  <2>6. heard \in {many, <<>>} /\ notice \in {<<y>>, <<>>}  BY DEF x, y
  <2> HIDE DEF heard, notice, many, later
  <2>7. heard \in Seq(Blocks) /\ \A i \in DOMAIN heard : heard[i].kind = "text"  BY <2>3, <2>5, <2>6
  <2>8. notice \in Seq(Blocks) /\ \A i \in DOMAIN notice : notice[i].kind = "text"  BY <2>4, <2>5, <2>6
  <2>9. /\ heard \o notice \in Seq(Blocks)
        /\ \A j \in DOMAIN (heard \o notice) : (\E i \in DOMAIN heard : (heard \o notice)[j] = heard[i])
                                        \/ (\E i \in DOMAIN notice : (heard \o notice)[j] = notice[i])
    BY <2>7, <2>8, BlocksJoined
  <2> QED BY <2>7, <2>8, <2>9 DEF Wordy
<1> DEFINE ts == heard \o notice
<1> HIDE DEF ts, heard, notice
<1>4. asked = AppendToLast(messages, ts)  BY DEF ts
<1> HIDE DEF asked
<1>5. /\ Well(asked) /\ Len(asked) = Len(messages) /\ Last(asked).role = Last(messages).role
      /\ Last(asked).blocks = Last(messages).blocks \o ts
      /\ \A i \in 1 .. Len(messages) - 1 : asked[i] = messages[i]
      /\ Ids(Last(asked), "result") = Ids(Last(messages), "result")
      /\ From(messages, asked, {})
  BY <1>2, <1>3, <1>4, AppendToLastWell DEF ts
<1>6. \A t \in ToSet(Last(messages).blocks) : t \in ToSet(Last(asked).blocks)
  <2>1. messages \in Seq(Messages)  BY <1>2 DEF Well
  <2>2. Last(messages) \in Messages  BY <1>2, <2>1, LastIs
  <2>3. Last(messages).blocks \in Seq(Blocks) /\ ts \in Seq(Blocks)
    BY <1>3, <2>2 DEF Messages, Wordy, ts
  <2>4. ToSet(Last(messages).blocks) \subseteq ToSet(Last(asked).blocks)  BY <1>5, <2>3, BlocksJoined
  <2> QED BY <2>4
<1>7. asked # <<>>
  <2>1. messages \in Seq(Messages) /\ asked \in Seq(Messages)  BY <1>2, <1>5 DEF Well
  <2>2. Len(messages) # 0  BY <1>2, <2>1
  <2> QED BY <1>5, <2>1, <2>2
<1>8. /\ Well(sentOff) /\ Len(sentOff) = Len(messages) /\ Last(sentOff).role = Last(messages).role
      /\ \A i \in 1 .. Len(messages) - 1 : sentOff[i] = messages[i]
      /\ \A t \in ToSet(Last(messages).blocks) : t.kind = "text" => t \in ToSet(Last(sentOff).blocks)
      /\ Ids(Last(sentOff), "result") = Ids(Last(messages), "result")
      /\ From(messages, sentOff, {})
  <2>1. CASE ~inject
    <3>1. sentOff = asked  BY <2>1
    <3> HIDE DEF sentOff
    <3> QED BY <1>5, <1>6, <3>1
  <2>2. CASE inject
    <3> DEFINE text == Text("context", turn)
               ns == AfterResults(asked, text)
    <3>1. sentOff = ns  BY <2>2
    <3>2. text \in Blocks /\ text.kind = "text"
      <4>1. "context" \in Texts  BY DEF Texts
      <4> QED BY <1>2, <4>1, TextIs
    <3> HIDE DEF sentOff, text
    <3>3. /\ Well(ns) /\ Len(ns) = Len(asked) /\ Last(ns).role = Last(asked).role
          /\ ToSet(Last(asked).blocks) \subseteq ToSet(Last(ns).blocks)
          /\ \A i \in 1 .. Len(asked) - 1 : ns[i] = asked[i]
          /\ Ids(Last(ns), "result") = Ids(Last(asked), "result")
          /\ From(asked, ns, {})
      BY <1>5, <1>7, <3>2, AfterResultsWell
    <3> HIDE DEF ns
    <3>4. From(messages, ns, {})  BY <1>5, <3>3, FromThrice
    <3> QED BY <1>5, <1>6, <3>1, <3>3, <3>4
  <2> QED BY <2>1, <2>2
<1> HIDE DEF sentOff
<1>9. injections' \in Nat  BY <1>1, <1>2
<1> QED BY <1>1, <1>8, <1>9, AdoptStep

-----------------------------------------------------------------------------
(* A message is appended *)

\* The frozen prefix stays what it was.
LEMMA FrozenAppend ==
  ASSUME messages \in Seq(Messages), Well(messages), FrozenOK, frozen \in Nat,
         NEW m \in Messages, messages' = Append(messages, m), UNCHANGED <<frozen, boundary, stale>>
  PROVE  /\ FrozenOK'
         /\ ~stale => frozen' = frozen /\ Prefix(messages', frozen) = Prefix(messages, frozen)
<1>1. /\ messages' \in Seq(Messages) /\ Len(messages') = Len(messages) + 1 /\ messages' # <<>>
      /\ \A i \in 1 .. Len(messages) : messages'[i] = messages[i]
  BY AppendIs
<1> SUFFICES ASSUME ~stale
             PROVE  /\ FreezeHolds(messages', frozen', boundary')
                    /\ Prefix(messages', frozen) = Prefix(messages, frozen)
  BY DEF FrozenOK
<1>2. FreezeHolds(messages, frozen, boundary)  BY DEF FrozenOK
<1>3. Len(messages) \in Nat /\ FreezePoint(messages) \in 0 .. Len(messages)  BY FreezePointIs
<1>4. frozen <= Len(messages)  BY <1>2, <1>3 DEF FreezeHolds
<1>5. FreezePoint(messages') \in {Len(messages), Len(messages) + 1}  BY <1>1, <1>3 DEF FreezePoint
<1>6. frozen <= FreezePoint(messages')  BY <1>3, <1>4, <1>5
<1>7. frozen # 0 => AlikeMessage(messages[frozen], messages'[frozen])
  <2>1. frozen # 0 => frozen \in 1 .. Len(messages)  BY <1>3, <1>4
  <2> QED BY <1>1, <2>1 DEF AlikeMessage, Alike
<1>8. FreezeHolds(messages', frozen, boundary)  BY <1>1, <1>2, <1>6, <1>7, FrozenStays
<1>9. \A i \in 1 .. frozen : messages'[i] = messages[i]  BY <1>1, <1>3, <1>4
<1>10. frozen <= Len(messages')  BY <1>1, <1>3, <1>4
<1> QED BY <1>1, <1>4, <1>8, <1>9, <1>10, SamePrefix

\* Its calls are new, its results marked.
LEMMA IdsAppend ==
  ASSUME messages \in Seq(Messages), IdsOK,
         NEW m \in Messages, messages' = Append(messages, m),
         nextId' \in Nat, nextId <= nextId', UNCHANGED succeeded,
         \A j \in DOMAIN m.blocks : m.blocks[j].kind # "text" => m.blocks[j].id < nextId',
         \A j \in DOMAIN m.blocks : m.blocks[j].kind = "result" =>
           (m.blocks[j].failed = TRUE <=> m.blocks[j].id \notin succeeded),
         Ids(m, "use") \cap succeeded = {}
  PROVE  IdsOK' /\ Dangling(messages') = Ids(m, "use")
<1>1. /\ messages' \in Seq(Messages) /\ Len(messages') = Len(messages) + 1 /\ messages' # <<>>
      /\ Last(messages') = m /\ messages'[Len(messages) + 1] = m
      /\ \A i \in 1 .. Len(messages) : messages'[i] = messages[i]
  BY AppendIs
<1>2. Len(messages) \in Nat /\ \A i \in 1 .. Len(messages') : i \in 1 .. Len(messages) \/ i = Len(messages) + 1
  BY <1>1
<1>3. Dangling(messages') = Ids(m, "use")  BY <1>1 DEF Dangling
<1>4. IdsBelow(messages, nextId')  BY BelowGrows DEF IdsOK
<1>5. IdsBelow(messages', nextId')
  <2> SUFFICES ASSUME NEW i \in 1 .. Len(messages'), NEW j \in DOMAIN messages'[i].blocks,
                      messages'[i].blocks[j].kind # "text"
               PROVE  messages'[i].blocks[j].id < nextId'
    BY DEF IdsBelow
  <2>1. CASE i \in 1 .. Len(messages)  BY <1>1, <1>4, <2>1 DEF IdsBelow
  <2>2. CASE i = Len(messages) + 1  BY <1>1, <2>2
  <2> QED BY <1>2, <2>1, <2>2
<1>6. Marked(messages', succeeded')
  <2> SUFFICES ASSUME NEW i \in 1 .. Len(messages'), NEW j \in DOMAIN messages'[i].blocks,
                      messages'[i].blocks[j].kind = "result"
               PROVE  messages'[i].blocks[j].failed = TRUE <=> messages'[i].blocks[j].id \notin succeeded
    BY DEF Marked
  <2>1. CASE i \in 1 .. Len(messages)  BY <1>1, <2>1 DEF IdsOK, Marked
  <2>2. CASE i = Len(messages) + 1  BY <1>1, <2>2
  <2> QED BY <1>2, <2>1, <2>2
<1>7. \A n \in succeeded : n < nextId'
  <2> TAKE n \in succeeded
  <2>1. n \in Nat /\ n < nextId /\ nextId \in Nat  BY DEF IdsOK
  <2> QED BY <2>1
<1> QED BY <1>3, <1>5, <1>6, <1>7 DEF IdsOK

\* A call a reply may carry.
Chainable == [tool : Calls, then : Calls \cup {None}]

\* What the model says, and the calls it makes.
LEMMA AnswerIs ==
  ASSUME NEW reply \in Seq(Chainable), nextId \in Nat,
         NEW ts, Wordy(ts), ts # <<>> \/ reply # <<>>
  PROVE  LET m == Assistant(ts \o AsUses(reply))
         IN /\ Sound(m) /\ Is(m, "assistant") /\ Ids(m, "result") = {}
            /\ Ids(m, "use") = {nextId + i : i \in 1 .. Len(reply)}
            /\ ToSet(ts) \subseteq ToSet(m.blocks)
            /\ \A j \in DOMAIN m.blocks : m.blocks[j].kind # "text" =>
                 m.blocks[j].kind = "use" /\ \E i \in 1 .. Len(reply) : m.blocks[j].id = nextId + i
<1> DEFINE us == AsUses(reply)
           bs == ts \o us
           m == Assistant(bs)
<1>1. Len(reply) \in Nat /\ DOMAIN reply = 1 .. Len(reply)
      /\ \A i \in 1 .. Len(reply) : reply[i].tool \in Calls
  <2>1. \A c \in Chainable : c.tool \in Calls  BY DEF Chainable
  <2> QED BY <2>1
<1>2. \A i \in 1 .. Len(reply) : /\ Use(nextId + i, reply[i].tool) \in Blocks
                                 /\ Use(nextId + i, reply[i].tool).kind = "use"
                                 /\ Use(nextId + i, reply[i].tool).id = nextId + i
  BY <1>1 DEF Use, Blocks
<1>3. us = [i \in 1 .. Len(reply) |-> Use(nextId + i, reply[i].tool)]  BY <1>1 DEF AsUses
<1>4. us \in Seq(Blocks) /\ Len(us) = Len(reply) /\ DOMAIN us = 1 .. Len(reply)
      /\ \A i \in 1 .. Len(reply) : us[i].kind = "use" /\ us[i].id = nextId + i
  BY <1>1, <1>2, <1>3
<1> HIDE DEF us
<1>5. ts \in Seq(Blocks) /\ (\A i \in DOMAIN ts : ts[i].kind = "text")  BY DEF Wordy
<1>6. /\ bs \in Seq(Blocks) /\ Len(bs) = Len(ts) + Len(us)
      /\ \A i \in 1 .. Len(us) : bs[Len(ts) + i] = us[i]
      /\ \A j \in DOMAIN bs : (\E i \in DOMAIN ts : bs[j] = ts[i]) \/ (\E i \in DOMAIN us : bs[j] = us[i])
      /\ ToSet(ts) \subseteq ToSet(bs)
  BY <1>4, <1>5, BlocksJoined
<1>7. bs # <<>>
  <2>1. Len(ts) \in Nat /\ (ts # <<>> => Len(ts) # 0) /\ (reply # <<>> => Len(reply) # 0)  BY <1>5
  <2>2. Len(bs) # 0  BY <1>1, <1>4, <1>6, <2>1
  <2> QED BY <2>2
<1> HIDE DEF bs
<1>8. m \in Messages /\ Is(m, "assistant") /\ ~Is(m, "user") /\ m.blocks = bs
  BY <1>6 DEF Assistant, Messages, Is
<1>9. \A j \in DOMAIN bs : bs[j].kind # "text" =>
         bs[j].kind = "use" /\ \E i \in 1 .. Len(reply) : bs[j].id = nextId + i
  <2> TAKE j \in DOMAIN bs
  <2>1. CASE \E i \in DOMAIN ts : bs[j] = ts[i]  BY <1>5, <2>1
  <2>2. CASE \E i \in DOMAIN us : bs[j] = us[i]  BY <1>4, <2>2
  <2> QED BY <1>6, <2>1, <2>2
<1>10. \A j \in DOMAIN bs : bs[j].kind # "result"  BY <1>9
<1> HIDE DEF m
<1>11. Ids(m, "result") = {}  BY <1>8, <1>10, IdsAre
<1>12. ResultsFirst(m)  BY <1>8, <1>10 DEF ResultsFirst
<1>13. Sound(m)  BY <1>7, <1>8, <1>11, <1>12 DEF Sound
<1>14. Ids(m, "use") = {nextId + i : i \in 1 .. Len(reply)}
  <2>1. ASSUME NEW x \in Ids(m, "use") PROVE x \in {nextId + i : i \in 1 .. Len(reply)}
    <3>1. PICK j \in DOMAIN bs : bs[j].kind = "use" /\ bs[j].id = x  BY <1>8, <2>1, IdsAre
    <3>2. bs[j].kind # "text"  BY <3>1
    <3> QED BY <1>9, <3>1, <3>2
  <2>2. ASSUME NEW i \in 1 .. Len(reply) PROVE nextId + i \in Ids(m, "use")
    <3>1. bs[Len(ts) + i] = us[i] /\ us[i].kind = "use" /\ us[i].id = nextId + i  BY <1>4, <1>6
    <3>2. Len(ts) + i \in 1 .. Len(bs) /\ DOMAIN bs = 1 .. Len(bs)  BY <1>1, <1>4, <1>5, <1>6
    <3> QED BY <1>8, <3>1, <3>2, IdsAre
  <2> QED BY <2>1, <2>2
<1> QED BY <1>6, <1>8, <1>9, <1>11, <1>13, <1>14 DEF m, bs, us

\* The model answers, and its calls are run or the turn is over.
LEMMA AnswerStep ==
  ASSUME LoopInv, NEW stop, NEW reply \in situation.replies \cup {<<>>}, Answer(stop, reply)
  PROVE  LoopInv' /\ (~stale => frozen' = frozen /\ Prefix(messages', frozen) = Prefix(messages, frozen))
<1> DEFINE ts == IF stop = "tool_use" THEN <<>> ELSE <<Text("answer", nextId)>>
           m == Assistant(ts \o AsUses(reply))
           new == {nextId + i : i \in 1 .. Len(reply)}
<1>1. /\ pc = "calling" /\ messages' = Append(messages, m) /\ nextId' = nextId + 1 + Len(reply)
      /\ stop = "tool_use" => reply # <<>>
      /\ shown' = IF stop = "tool_use" THEN shown ELSE nextId
      /\ UNCHANGED <<situation, turn, frozen, boundary, stale, injections, succeeded>>
  BY DEF Answer, Return, bounds
<1>2. stop = "tool_use" =>
        /\ pc' = "tools" /\ results' = <<>> /\ UNCHANGED <<anchor, agentFrozen>>
        /\ todo' = [i \in DOMAIN reply |->
                      [id |-> nextId + i, tool |-> reply[i].tool, then |-> reply[i].then]]
  BY DEF Answer
<1>3. stop # "tool_use" => /\ pc' = "idle" /\ anchor' = 0 /\ agentFrozen' = 0
                           /\ todo' = <<>> /\ results' = <<>>
  BY DEF Answer, Return
<1>4. /\ Well(messages) /\ messages \in Seq(Messages) /\ messages # <<>> /\ Is(Last(messages), "user")
      /\ Len(messages) \in Nat /\ nextId \in Nat /\ situation \in Situations /\ shown = 0
      /\ Dangling(messages) = {}
  <2>1. /\ Well(messages) /\ messages # <<>> /\ Is(Last(messages), "user")
        /\ nextId \in Nat /\ situation \in Situations /\ shown = 0
    BY <1>1 DEF LoopInv, ConversationOK, IdsOK, TurnOK
  <2> QED BY <2>1, UserLast DEF Well
<1>5. reply \in Seq(Chainable)
  <2>1. CASE reply = <<>>  BY <2>1
  <2>2. CASE reply \in situation.replies  BY <1>4, <2>2, TurnLoopAssumption DEF Chainable
  <2> QED BY <2>1, <2>2
<1>6. Len(reply) \in Nat /\ DOMAIN reply = 1 .. Len(reply) /\ (reply # <<>> => Len(reply) # 0)  BY <1>5
<1>7. Wordy(ts) /\ (stop # "tool_use" => ts # <<>> /\ Text("answer", nextId) \in ToSet(ts))
  <2>1. CASE stop = "tool_use"  BY <2>1, NoWords
  <2>2. CASE stop # "tool_use"
    <3> DEFINE x == Text("answer", nextId)
    <3>1. x \in Blocks /\ x.kind = "text"
      <4>1. "answer" \in Texts  BY DEF Texts
      <4> QED BY <1>4, <4>1, TextIs
    <3> HIDE DEF x
    <3>2. <<x>> \in Seq(Blocks) /\ <<x>> # <<>> /\ 1 \in DOMAIN <<x>>
          /\ (\A i \in DOMAIN <<x>> : <<x>>[i] = x)
      BY <3>1
    <3>3. x \in ToSet(<<x>>)  BY <3>2 DEF ToSet
    <3>4. ts = <<x>>  BY <2>2 DEF x
    <3> HIDE DEF ts
    <3> QED BY <3>1, <3>2, <3>3, <3>4 DEF Wordy, x
  <2> QED BY <2>1, <2>2
<1> HIDE DEF ts
<1>8. ts # <<>> \/ reply # <<>>  BY <1>1, <1>7
<1>9. /\ Sound(m) /\ Is(m, "assistant") /\ Ids(m, "result") = {} /\ Ids(m, "use") = new
      /\ ToSet(ts) \subseteq ToSet(m.blocks)
      /\ \A j \in DOMAIN m.blocks : m.blocks[j].kind # "text" =>
           m.blocks[j].kind = "use" /\ \E i \in 1 .. Len(reply) : m.blocks[j].id = nextId + i
  BY <1>4, <1>5, <1>7, <1>8, AnswerIs, SMT
<1> HIDE DEF m
<1>10. m \in Messages  BY <1>9 DEF Sound
<1>11. /\ messages' \in Seq(Messages) /\ Len(messages') = Len(messages) + 1 /\ messages' # <<>>
       /\ Last(messages') = m /\ messages'[Len(messages) + 1] = m
       /\ \A i \in 1 .. Len(messages) : messages'[i] = messages[i]
  BY <1>1, <1>4, <1>10, AppendIs
<1>12. ConversationOK'
  <2>1. Last(messages).role # m.role  BY <1>4, <1>9 DEF Is
  <2>2. Well(messages')  BY <1>1, <1>4, <1>9, <2>1, AppendWell
  <2> QED BY <1>1, <1>4, <2>2 DEF ConversationOK
<1>13. \A x \in new : x \in Nat /\ nextId <= x /\ x < nextId'  BY <1>1, <1>4, <1>6
<1>14. \A n \in succeeded : n \in Nat /\ n < nextId  BY DEF LoopInv, IdsOK
<1>15. new \cap succeeded = {}
  <2> SUFFICES ASSUME NEW x \in new, x \in succeeded PROVE FALSE  OBVIOUS
  <2> QED BY <1>4, <1>13, <1>14
<1> HIDE DEF new
<1>16. IdsOK' /\ Dangling(messages') = new
  <2>1. nextId' \in Nat /\ nextId <= nextId'  BY <1>1, <1>4, <1>6
  <2>2. \A j \in DOMAIN m.blocks : m.blocks[j].kind # "text" => m.blocks[j].id < nextId'
    <3> TAKE j \in DOMAIN m.blocks
    <3> HAVE m.blocks[j].kind # "text"
    <3> QED BY <1>9, <1>13 DEF new
  <2>3. \A j \in DOMAIN m.blocks : m.blocks[j].kind # "result"  BY <1>9
  <2> QED BY <1>1, <1>4, <1>9, <1>10, <1>15, <2>1, <2>2, <2>3, IdsAppend DEF LoopInv
<1>17. FrozenOK' /\ (~stale => frozen' = frozen /\ Prefix(messages', frozen) = Prefix(messages, frozen))
  <2>1. frozen \in Nat  BY DEF LoopInv, TurnOK
  <2> QED BY <1>1, <1>4, <1>10, <2>1, FrozenAppend DEF LoopInv
<1>18. ToolsOK'
  <2>1. CASE stop # "tool_use"
    <3>1. todo' \in Seq(Pending) /\ results' \in Seq(Results) /\ pc' # "tools"  BY <1>3, <2>1
    <3> QED BY <3>1, NoCallsRun
  <2>2. CASE stop = "tool_use"
    <3>1. /\ DOMAIN todo' = 1 .. Len(reply)
          /\ \A j \in 1 .. Len(reply) : todo'[j].id = nextId + j
      BY <1>2, <1>6, <2>2
    <3>2. todo' \in Seq(Pending)
      <4>1. \A j \in 1 .. Len(reply) :
              [id |-> nextId + j, tool |-> reply[j].tool, then |-> reply[j].then] \in Pending
        <5> TAKE j \in 1 .. Len(reply)
        <5>1. \A c \in Chainable : c.tool \in Calls /\ c.then \in Calls \cup {None}  BY DEF Chainable
        <5>2. reply[j].tool \in Calls /\ reply[j].then \in Calls \cup {None}  BY <1>5, <1>6, <5>1
        <5>3. nextId + j \in Nat  BY <1>4
        <5> QED BY <5>2, <5>3 DEF Pending
      <4> QED BY <1>2, <1>6, <2>2, <4>1
    <3>3. results' \in Seq(Results) /\ DOMAIN results' = {}  BY <1>2, <2>2
    <3>4. new = {todo'[j].id : j \in DOMAIN todo'} /\ new # {}
      <4>1. new = {todo'[j].id : j \in DOMAIN todo'}  BY <3>1 DEF new
      <4>2. 1 \in DOMAIN todo'  BY <1>1, <1>6, <2>2, <3>1
      <4> QED BY <4>1, <4>2
    <3>5. \A j, k \in DOMAIN todo' : j < k => todo'[j].id # todo'[k].id  BY <1>4, <3>1
    <3>6. ASSUME NEW j \in DOMAIN todo'
          PROVE  /\ todo'[j].id \notin succeeded'
                 /\ \A k \in 1 .. Len(messages') : todo'[j].id \notin Ids(messages'[k], "result")
      <4>1. todo'[j].id \in new /\ todo'[j].id \in Nat /\ nextId <= todo'[j].id
        <5>1. todo'[j].id \in new  BY <3>4
        <5> QED BY <1>13, <5>1
      <4>2. todo'[j].id \notin succeeded'  BY <1>1, <1>15, <4>1
      <4>3. ASSUME NEW k \in 1 .. Len(messages'), todo'[j].id \in Ids(messages'[k], "result") PROVE FALSE
        <5>1. k # Len(messages) + 1  BY <1>9, <1>11, <4>3
        <5>2. k \in 1 .. Len(messages)  BY <1>4, <1>11, <5>1
        <5>3. PICK l \in DOMAIN messages[k].blocks :
                 messages[k].blocks[l].kind = "result" /\ messages[k].blocks[l].id = todo'[j].id
          BY <1>11, <4>3, <5>2, IdsAre
        <5>4. messages[k].blocks[l].id < nextId  BY <5>2, <5>3 DEF LoopInv, IdsOK, IdsBelow
        <5> QED BY <1>4, <4>1, <5>3, <5>4
      <4> QED BY <4>2, <4>3
    <3>7. Is(Last(messages'), "assistant")  BY <1>9, <1>11
    <3>8. {results'[j].id : j \in DOMAIN results'} = {}  BY <3>3
    <3> QED BY <1>11, <1>16, <3>2, <3>3, <3>4, <3>5, <3>6, <3>7, <3>8 DEF ToolsOK
  <2> QED BY <2>1, <2>2
<1>19. TurnOK'
  <2>1. /\ {turn, anchor, agentFrozen, frozen, injections} \subseteq Nat
        /\ agentFrozen = frozen /\ anchor <= Len(messages)
        /\ anchor # 0 => Text("input", turn) \in ToSet(messages[anchor].blocks)
        /\ \A i \in anchor + 1 .. Len(messages) : Is(messages[i], "user") => Ids(messages[i], "result") # {}
    BY <1>1 DEF LoopInv, TurnOK
  <2>2. CASE stop # "tool_use"  BY <1>1, <1>3, <2>1, <2>2 DEF TurnOK
  <2>3. CASE stop = "tool_use"
    <3>1. anchor' = anchor /\ agentFrozen' = frozen' /\ pc' = "tools" /\ shown' = 0
      BY <1>1, <1>2, <1>4, <2>1, <2>3
    <3>2. anchor' # 0 => Text("input", turn') \in ToSet(messages'[anchor'].blocks)
      <4>1. anchor # 0 => anchor \in 1 .. Len(messages)  BY <1>4, <2>1
      <4> QED BY <1>1, <1>11, <2>1, <3>1, <4>1
    <3>3. \A i \in anchor' + 1 .. Len(messages') :
            Is(messages'[i], "user") => Ids(messages'[i], "result") # {}
      <4> SUFFICES ASSUME NEW i \in anchor + 1 .. Len(messages'), Is(messages'[i], "user")
                   PROVE  Ids(messages'[i], "result") # {}
        BY <3>1
      <4>1. i # Len(messages) + 1  BY <1>9, <1>11 DEF Is
      <4>2. i \in anchor + 1 .. Len(messages) /\ i \in 1 .. Len(messages)  BY <1>4, <1>11, <2>1, <4>1
      <4> QED BY <1>11, <2>1, <4>2
    <3>4. anchor' <= Len(messages')  BY <1>4, <1>11, <2>1, <3>1
    <3>5. {turn', anchor', agentFrozen', frozen', injections'} \subseteq Nat  BY <1>1, <2>1, <3>1
    <3> QED BY <3>1, <3>2, <3>3, <3>4, <3>5 DEF TurnOK
  <2> QED BY <2>2, <2>3
<1>20. ShownTextIsKept'
  <2>1. CASE stop = "tool_use"  BY <1>1, <1>4, <2>1 DEF ShownTextIsKept
  <2>2. CASE stop # "tool_use"
    <3>1. Text("answer", shown') \in ToSet(messages'[Len(messages) + 1].blocks)
      BY <1>1, <1>7, <1>9, <1>11, <2>2
    <3>2. Len(messages) + 1 \in DOMAIN messages'  BY <1>4, <1>11
    <3> QED BY <3>1, <3>2 DEF ShownTextIsKept
  <2> QED BY <2>1, <2>2
<1> QED BY <1>12, <1>16, <1>17, <1>18, <1>19, <1>20 DEF LoopInv

\* A message of texts.
LEMMA SaidIs ==
  ASSUME NEW ts, Wordy(ts), ts # <<>>
  PROVE  LET m == Assistant(ts)
         IN /\ Sound(m) /\ Is(m, "assistant") /\ m.blocks = ts
            /\ Ids(m, "result") = {} /\ Ids(m, "use") = {}
<1> DEFINE m == Assistant(ts)
<1>1. ts \in Seq(Blocks) /\ \A i \in DOMAIN ts : ts[i].kind = "text"  BY DEF Wordy
<1>2. m \in Messages /\ Is(m, "assistant") /\ ~Is(m, "user") /\ m.blocks = ts
  BY <1>1 DEF Assistant, Messages, Is
<1> HIDE DEF m
<1>3. Ids(m, "result") = {} /\ Ids(m, "use") = {}
  <2>1. \A j \in DOMAIN m.blocks : m.blocks[j].kind # "result" /\ m.blocks[j].kind # "use"  BY <1>1, <1>2
  <2> QED BY <2>1, IdsAre
<1>4. ResultsFirst(m)  BY <1>1, <1>2 DEF ResultsFirst
<1>5. Sound(m)  BY <1>2, <1>3, <1>4 DEF Sound
<1> QED BY <1>2, <1>3, <1>5 DEF m

\* A call fails, and what the user read of its reply is kept.
LEMMA FailStep ==
  ASSUME LoopInv, NEW err, NEW text \in BOOLEAN, CallFails(err, text)
  PROVE  LoopInv' /\ (~stale => frozen' = frozen /\ Prefix(messages', frozen) = Prefix(messages, frozen))
<1> DEFINE ts == <<Text("answer", nextId), Text("cut", 0)>>
           m == Assistant(ts)
<1>1. /\ pc = "calling" /\ pc' = "idle" /\ nextId' = nextId + 1
      /\ messages' = IF text THEN Append(messages, m) ELSE messages
      /\ shown' = IF text THEN nextId ELSE shown
      /\ anchor' = 0 /\ agentFrozen' = 0 /\ todo' = <<>> /\ results' = <<>>
      /\ UNCHANGED <<situation, turn, frozen, boundary, stale, injections, succeeded>>
  BY DEF CallFails, KeepDelivered, Return, bounds
<1>2. /\ Well(messages) /\ messages \in Seq(Messages) /\ messages # <<>> /\ Is(Last(messages), "user")
      /\ Len(messages) \in Nat /\ nextId \in Nat /\ situation \in Situations /\ shown = 0
      /\ Dangling(messages) = {}
  <2>1. /\ Well(messages) /\ messages # <<>> /\ Is(Last(messages), "user")
        /\ nextId \in Nat /\ situation \in Situations /\ shown = 0
    BY <1>1 DEF LoopInv, ConversationOK, IdsOK, TurnOK
  <2> QED BY <2>1, UserLast DEF Well
<1>3. Wordy(ts) /\ ts # <<>> /\ Text("answer", nextId) \in ToSet(ts)
  <2> DEFINE x == Text("answer", nextId)  y == Text("cut", 0)
  <2>1. x \in Blocks /\ x.kind = "text" /\ y \in Blocks /\ y.kind = "text"
    <3>1. "answer" \in Texts /\ "cut" \in Texts  BY DEF Texts
    <3> QED BY <1>2, <3>1, TextIs
  <2>2. ts = <<x, y>>  OBVIOUS
  <2> HIDE DEF x, y, ts
  <2>3. /\ ts \in Seq(Blocks) /\ ts # <<>> /\ DOMAIN ts = {1, 2} /\ ts[1] = x /\ ts[2] = y
    BY <2>1, <2>2
  <2>4. x \in ToSet(ts)  BY <2>3 DEF ToSet
  <2> QED BY <2>1, <2>3, <2>4 DEF Wordy, x
<1> HIDE DEF ts
<1>4. /\ Sound(m) /\ Is(m, "assistant") /\ m.blocks = ts /\ Ids(m, "result") = {} /\ Ids(m, "use") = {}
  BY <1>3, SaidIs
<1> HIDE DEF m
<1>5. m \in Messages /\ \A j \in DOMAIN m.blocks : m.blocks[j].kind = "text"
  BY <1>3, <1>4 DEF Sound, Wordy
<1>6. frozen \in Nat /\ {turn, injections} \subseteq Nat  BY DEF LoopInv, TurnOK
<1>7. nextId' \in Nat /\ nextId <= nextId' /\ nextId < nextId'  BY <1>1, <1>2
<1>8. ToolsOK'
  <2>1. todo' \in Seq(Pending) /\ results' \in Seq(Results) /\ pc' # "tools"  BY <1>1
  <2> QED BY <2>1, NoCallsRun
<1>9. TurnOK'  BY <1>1, <1>6 DEF TurnOK
<1>10. CASE text
  <2>1. /\ messages' = Append(messages, m)  BY <1>1, <1>10
  <2>2. ConversationOK'
    <3>1. Last(messages).role # m.role  BY <1>2, <1>4 DEF Is
    <3>2. Well(messages')  BY <1>2, <1>4, <2>1, <3>1, AppendWell
    <3> QED BY <1>1, <1>2, <3>2 DEF ConversationOK
  <2>3. IdsOK'
    <3>1. \A j \in DOMAIN m.blocks : m.blocks[j].kind # "result" /\ ~(m.blocks[j].kind # "text")  BY <1>5
    <3> QED BY <1>1, <1>2, <1>4, <1>5, <1>7, <2>1, <3>1, IdsAppend DEF LoopInv
  <2>4. FrozenOK' /\ (~stale => frozen' = frozen /\ Prefix(messages', frozen) = Prefix(messages, frozen))
    BY <1>1, <1>2, <1>5, <1>6, <2>1, FrozenAppend DEF LoopInv
  <2>5. ShownTextIsKept'
    <3>1. /\ Len(messages') = Len(messages) + 1 /\ messages'[Len(messages) + 1] = m
          /\ messages' \in Seq(Messages)
      BY <1>2, <1>5, <2>1, AppendIs
    <3>2. Text("answer", shown') \in ToSet(messages'[Len(messages) + 1].blocks)
      BY <1>1, <1>3, <1>4, <1>10, <3>1
    <3>3. Len(messages) + 1 \in DOMAIN messages'  BY <1>2, <3>1
    <3> QED BY <3>2, <3>3 DEF ShownTextIsKept
  <2> QED BY <1>8, <1>9, <2>2, <2>3, <2>4, <2>5 DEF LoopInv
<1>11. CASE ~text
  <2>1. messages' = messages /\ shown' = 0  BY <1>1, <1>2, <1>11
  <2>2. ConversationOK'  BY <1>1, <2>1 DEF LoopInv, ConversationOK
  <2>3. FrozenOK'  BY <1>1, <2>1 DEF LoopInv, FrozenOK
  <2>4. IdsOK'
    <3>1. IdsBelow(messages, nextId')  BY <1>2, <1>7, BelowGrows DEF LoopInv, IdsOK
    <3>2. \A n \in succeeded : n < nextId'
      <4> TAKE n \in succeeded
      <4>1. n \in Nat /\ n < nextId  BY DEF LoopInv, IdsOK
      <4> QED BY <1>2, <1>7, <4>1
    <3>3. IdsOK  BY DEF LoopInv
    <3> QED BY <1>1, <1>2, <1>7, <2>1, <3>1, <3>2, <3>3 DEF IdsOK
  <2>5. ShownTextIsKept'  BY <2>1 DEF ShownTextIsKept
  <2> QED BY <1>1, <1>8, <1>9, <2>1, <2>2, <2>3, <2>4, <2>5 DEF LoopInv
<1> QED BY <1>10, <1>11

-----------------------------------------------------------------------------
(* The calls of a reply are run *)

\* The next call has its result, which says it failed unless it succeeded now.
LEMMA AnsweredStep ==
  ASSUME LoopInv, pc = "tools", todo # <<>>, NEW b \in Results, b.id = Head(todo).id, Answered(b),
         succeeded' = IF b.failed = TRUE THEN succeeded ELSE succeeded \cup {b.id}
  PROVE  LoopInv' /\ UNCHANGED <<messages, frozen>>
<1> DEFINE x == b.id
<1>1. /\ todo' = Tail(todo) /\ results' = Append(results, b) /\ pc' = "tools"
      /\ UNCHANGED <<situation, turn, messages, frozen, boundary, stale, injections, nextId,
                     anchor, agentFrozen, shown>>
  BY DEF Answered, bounds
<1>2. /\ todo \in Seq(Pending) /\ results \in Seq(Results)
      /\ messages # <<>> /\ Is(Last(messages), "assistant") /\ Dangling(messages) # {}
      /\ Dangling(messages) = {results[j].id : j \in DOMAIN results} \cup {todo[j].id : j \in DOMAIN todo}
      /\ \A j, k \in DOMAIN todo : j < k => todo[j].id # todo[k].id
      /\ \A j \in DOMAIN todo :
           /\ todo[j].id \notin succeeded
           /\ \A k \in DOMAIN results : results[k].id # todo[j].id
           /\ \A k \in 1 .. Len(messages) : todo[j].id \notin Ids(messages[k], "result")
      /\ \A j \in DOMAIN results : results[j].failed = TRUE <=> results[j].id \notin succeeded
  BY DEF LoopInv, ToolsOK
<1>3. /\ DOMAIN todo = 1 .. Len(todo) /\ Len(todo) \in Nat \ {0} /\ 1 \in DOMAIN todo /\ Head(todo) = todo[1]
      /\ todo' \in Seq(Pending) /\ DOMAIN todo' = 1 .. Len(todo) - 1
      /\ \A j \in DOMAIN todo' : todo'[j] = todo[j + 1]
  BY <1>1, <1>2
<1>4. x = todo[1].id /\ x \in Nat /\ x \in Dangling(messages) /\ x \notin succeeded
  <2>1. x = todo[1].id  BY <1>3
  <2>2. x \in Nat  BY DEF Results
  <2> QED BY <1>2, <1>3, <2>1, <2>2
<1>5. /\ results' \in Seq(Results) /\ DOMAIN results = 1 .. Len(results) /\ Len(results) \in Nat
      /\ DOMAIN results' = 1 .. Len(results) + 1
      /\ \A j \in DOMAIN results : results'[j] = results[j]
      /\ results'[Len(results) + 1] = b
  BY <1>1, <1>2
<1>6. \A j \in DOMAIN results' : j \in DOMAIN results \/ j = Len(results) + 1  BY <1>5
<1>7. \A j \in DOMAIN todo' : j + 1 \in DOMAIN todo /\ 1 < j + 1 /\ todo'[j].id # x
  <2> TAKE j \in DOMAIN todo'
  <2>1. j + 1 \in DOMAIN todo /\ 1 < j + 1  BY <1>3
  <2>2. todo[1].id # todo[j + 1].id  BY <1>2, <1>3, <2>1
  <2> QED BY <1>3, <1>4, <2>1, <2>2
<1> HIDE DEF x
<1>8. succeeded' = (IF b.failed = TRUE THEN succeeded ELSE succeeded \cup {x}) /\ b.id = x  BY DEF x
<1>9. messages \in Seq(Messages)  BY DEF LoopInv, ConversationOK, Well
<1>10. ConversationOK'  BY <1>1 DEF LoopInv, ConversationOK
<1>11. IdsOK'
  <2>1. /\ nextId \in Nat /\ succeeded \subseteq Nat
        /\ IdsBelow(messages, nextId) /\ Marked(messages, succeeded)
        /\ \A n \in succeeded : n < nextId
    BY DEF LoopInv, IdsOK
  <2>2. x < nextId  BY <1>4, <1>9, <2>1, DanglingBelow
  <2>3. succeeded' \subseteq Nat /\ \A n \in succeeded' : n < nextId  BY <1>4, <1>8, <2>1, <2>2
  <2>4. Marked(messages, succeeded')
    <3> SUFFICES ASSUME NEW i \in 1 .. Len(messages), NEW j \in DOMAIN messages[i].blocks,
                        messages[i].blocks[j].kind = "result"
                 PROVE  messages[i].blocks[j].failed = TRUE <=> messages[i].blocks[j].id \notin succeeded'
      BY DEF Marked
    <3>1. messages[i].blocks[j].failed = TRUE <=> messages[i].blocks[j].id \notin succeeded
      BY <2>1 DEF Marked
    <3>2. messages[i].blocks[j].id # x
      <4>1. x \notin Ids(messages[i], "result")  BY <1>2, <1>3, <1>4
      <4> QED BY <4>1, IdsAre
    <3> QED BY <1>8, <3>1, <3>2
  <2> QED BY <1>1, <2>1, <2>3, <2>4 DEF IdsOK
<1>12. FrozenOK'  BY <1>1 DEF LoopInv, FrozenOK
<1>13. ToolsOK'
  <2>1. Dangling(messages') = {results'[j].id : j \in DOMAIN results'} \cup {todo'[j].id : j \in DOMAIN todo'}
    <3> DEFINE D == Dangling(messages)
               R == {results[j].id : j \in DOMAIN results}
               T == {todo[j].id : j \in DOMAIN todo}
               S == {results'[j].id : j \in DOMAIN results'}
               U == {todo'[j].id : j \in DOMAIN todo'}
    <3>1. S = R \cup {x}
      <4>1. ASSUME NEW j \in DOMAIN results' PROVE results'[j].id \in R \cup {x}
        BY <1>5, <1>6, <1>8
      <4>2. ASSUME NEW j \in DOMAIN results PROVE results[j].id \in S
        <5>1. j \in DOMAIN results' /\ results'[j] = results[j]  BY <1>5
        <5> QED BY <5>1
      <4>3. x \in S
        <5>1. Len(results) + 1 \in DOMAIN results' /\ results'[Len(results) + 1].id = x  BY <1>5, <1>8
        <5> QED BY <5>1
      <4> QED BY <4>1, <4>2, <4>3
    <3>2. U \subseteq T /\ T \subseteq U \cup {x}
      <4>1. ASSUME NEW j \in DOMAIN todo' PROVE todo'[j].id \in T
        <5>1. todo'[j] = todo[j + 1] /\ j + 1 \in DOMAIN todo  BY <1>3, <1>7
        <5> QED BY <5>1
      <4>2. ASSUME NEW j \in DOMAIN todo PROVE todo[j].id \in U \cup {x}
        <5>1. CASE j = 1  BY <1>4, <5>1
        <5>2. CASE j # 1
          <6>1. j - 1 \in DOMAIN todo' /\ (j - 1) + 1 = j  BY <1>3, <5>2
          <6>2. todo'[j - 1] = todo[j]  BY <1>3, <6>1
          <6> QED BY <6>1, <6>2
        <5> QED BY <5>1, <5>2
      <4> QED BY <4>1, <4>2
    <3>3. D = R \cup T /\ x \in D  BY <1>2, <1>4
    <3>4. messages' = messages  BY <1>1
    <3> HIDE DEF R, S, T, U
    <3>5. D = S \cup U
      <4> HIDE DEF D
      <4> QED BY <3>1, <3>2, <3>3
    <3> QED BY <3>4, <3>5 DEF S, U
  <2>2. \A j, k \in DOMAIN todo' : j < k => todo'[j].id # todo'[k].id
    <3> TAKE j, k \in DOMAIN todo'
    <3> HAVE j < k
    <3>1. j + 1 < k + 1 /\ j + 1 \in DOMAIN todo /\ k + 1 \in DOMAIN todo  BY <1>3, <1>7
    <3> QED BY <1>2, <1>3, <3>1
  <2>3. ASSUME NEW j \in DOMAIN todo'
        PROVE  /\ todo'[j].id \notin succeeded'
               /\ \A k \in DOMAIN results' : results'[k].id # todo'[j].id
               /\ \A k \in 1 .. Len(messages) : todo'[j].id \notin Ids(messages[k], "result")
    <3>1. todo'[j] = todo[j + 1] /\ j + 1 \in DOMAIN todo /\ todo'[j].id # x  BY <1>3, <1>7
    <3>2. todo'[j].id \notin succeeded'  BY <1>2, <1>8, <3>1
    <3>3. \A k \in DOMAIN results' : results'[k].id # todo'[j].id
      <4> TAKE k \in DOMAIN results'
      <4>1. CASE k \in DOMAIN results  BY <1>2, <1>5, <3>1, <4>1
      <4>2. CASE k = Len(results) + 1  BY <1>5, <1>8, <3>1, <4>2
      <4> QED BY <1>6, <4>1, <4>2
    <3> QED BY <1>2, <3>1, <3>2, <3>3
  <2>4. ASSUME NEW j \in DOMAIN results'
        PROVE  results'[j].failed = TRUE <=> results'[j].id \notin succeeded'
    <3>1. CASE j \in DOMAIN results
      <4>1. results'[j] = results[j] /\ results[j].id # x  BY <1>2, <1>3, <1>4, <1>5, <3>1
      <4>2. results[j].failed = TRUE <=> results[j].id \notin succeeded  BY <1>2, <3>1
      <4> QED BY <1>8, <4>1, <4>2
    <3>2. CASE j = Len(results) + 1
      <4>1. results'[j] = b  BY <1>5, <3>2
      <4> QED BY <1>4, <1>8, <4>1
    <3> QED BY <1>6, <3>1, <3>2
  <2> QED BY <1>1, <1>2, <1>3, <1>5, <2>1, <2>2, <2>3, <2>4 DEF ToolsOK
<1>14. TurnOK'  BY <1>1 DEF LoopInv, TurnOK
<1>15. ShownTextIsKept'
  <2>1. shown' = 0  BY <1>1 DEF LoopInv, TurnOK
  <2> QED BY <2>1 DEF ShownTextIsKept
<1> QED BY <1>1, <1>10, <1>11, <1>12, <1>13, <1>14, <1>15 DEF LoopInv

\* The result of a call that was still to run.
LEMMA ResultFits ==
  ASSUME NEW c \in Pending, NEW says \in Holds, NEW bad \in BOOLEAN
  PROVE  LET b == Result(c.id, says, bad)
         IN b \in Results /\ b.id = c.id /\ (b.failed = TRUE <=> bad = TRUE)
<1>1. c.id \in Nat  BY DEF Pending
<1> QED BY <1>1 DEF Result, Results

\* A call is refused, fails, or works.
LEMMA ToolSteps ==
  ASSUME LoopInv, NEW touched, NEW chainWorks,
         CallNotRun \/ ToolFails(touched) \/ ToolWorks(touched, chainWorks)
  PROVE  LoopInv' /\ UNCHANGED <<messages, frozen>>
<1> DEFINE c == Head(todo)
<1>1. pc = "tools" /\ todo # <<>>  BY DEF CallNotRun, ToolFails, ToolWorks
<1>2. c \in Pending
  <2>1. todo \in Seq(Pending)  BY DEF LoopInv, ToolsOK
  <2> QED BY <1>1, <2>1
<1>3. CASE CallNotRun \/ ToolFails(touched)
  <2> DEFINE b == Result(c.id, "said", TRUE)
  <2>1. Answered(b) /\ UNCHANGED succeeded  BY <1>3 DEF CallNotRun, ToolFails
  <2>2. "said" \in Holds  BY DEF Holds
  <2>3. b \in Results /\ b.id = c.id /\ b.failed = TRUE  BY <1>2, <2>2, ResultFits
  <2> HIDE DEF b
  <2> QED BY <1>1, <2>1, <2>3, AnsweredStep
<1>4. CASE ToolWorks(touched, chainWorks)
  <2> DEFINE says == CASE Cached(c.tool) -> "already"
                       [] IsFullRead(c.tool) -> "full"
                       [] OTHER -> "said"
             b == Result(c.id, says, FALSE)
  <2>1. Answered(b) /\ succeeded' = succeeded \cup {c.id}  BY <1>4 DEF ToolWorks
  <2>2. says \in Holds  BY DEF Holds
  <2> HIDE DEF says
  <2>3. b \in Results /\ b.id = c.id /\ ~(b.failed = TRUE)  BY <1>2, <2>2, ResultFits
  <2> HIDE DEF b
  <2> QED BY <1>1, <2>1, <2>3, AnsweredStep
<1> QED BY <1>3, <1>4

\* Results, and texts behind them.
LEMMA ResultsAre ==
  ASSUME NEW rs \in Seq(Results), rs # <<>>, NEW ts, Wordy(ts)
  PROVE  LET m == User(rs \o ts)
         IN /\ Sound(m) /\ Is(m, "user") /\ Ids(m, "use") = {}
            /\ Ids(m, "result") = {rs[j].id : j \in DOMAIN rs}
            /\ \A j \in DOMAIN m.blocks : m.blocks[j].kind # "text" =>
                 \E i \in DOMAIN rs : m.blocks[j] = rs[i]
<1> DEFINE bs == rs \o ts
           m == User(bs)
<1>1. \A b \in Results : b \in Blocks /\ b.kind = "result"  BY DEF Results, Blocks
<1>2. /\ rs \in Seq(Blocks) /\ DOMAIN rs = 1 .. Len(rs) /\ Len(rs) \in Nat \ {0}
      /\ \A i \in DOMAIN rs : rs[i].kind = "result"
  BY <1>1
<1>3. ts \in Seq(Blocks) /\ \A i \in DOMAIN ts : ts[i].kind = "text"  BY DEF Wordy
<1>4. /\ bs \in Seq(Blocks) /\ Len(bs) = Len(rs) + Len(ts)
      /\ \A i \in 1 .. Len(rs) : bs[i] = rs[i]
      /\ \A i \in 1 .. Len(ts) : bs[Len(rs) + i] = ts[i]
      /\ \A j \in DOMAIN bs : (\E i \in DOMAIN rs : bs[j] = rs[i]) \/ (\E i \in DOMAIN ts : bs[j] = ts[i])
  BY <1>2, <1>3, BlocksJoined
<1>5. Len(ts) \in Nat /\ DOMAIN ts = 1 .. Len(ts) /\ DOMAIN bs = 1 .. Len(bs)  BY <1>3, <1>4
<1> HIDE DEF bs
<1>6. m \in Messages /\ Is(m, "user") /\ m.blocks = bs  BY <1>4 DEF User, Messages, Is
<1> HIDE DEF m
<1>7. bs # <<>>
  <2>1. Len(bs) # 0  BY <1>2, <1>4, <1>5
  <2> QED BY <2>1
<1>8. \A j \in DOMAIN bs : bs[j].kind # "text" => j <= Len(rs)
  <2> SUFFICES ASSUME NEW j \in DOMAIN bs, bs[j].kind # "text", ~(j <= Len(rs)) PROVE FALSE  OBVIOUS
  <2>1. j - Len(rs) \in 1 .. Len(ts) /\ Len(rs) + (j - Len(rs)) = j  BY <1>2, <1>4, <1>5
  <2>2. bs[j] = ts[j - Len(rs)]  BY <1>4, <2>1
  <2> QED BY <1>3, <1>5, <2>1, <2>2
<1>9. \A j \in DOMAIN bs : bs[j].kind # "text" => \E i \in DOMAIN rs : bs[j] = rs[i]
  <2> TAKE j \in DOMAIN bs
  <2> HAVE bs[j].kind # "text"
  <2>1. j \in 1 .. Len(rs)  BY <1>2, <1>5, <1>8
  <2> QED BY <1>2, <1>4, <2>1
<1>10. ResultsFirst(m)
  <2> SUFFICES ASSUME NEW j \in DOMAIN bs, NEW k \in DOMAIN bs, j < k, bs[k].kind = "result"
               PROVE  bs[j].kind = "result"
    BY <1>6 DEF ResultsFirst
  <2>1. k <= Len(rs)  BY <1>8
  <2>2. j \in 1 .. Len(rs)  BY <1>2, <1>5, <2>1
  <2> QED BY <1>2, <1>4, <2>2
<1>11. Ids(m, "use") = {}
  <2>1. \A j \in DOMAIN bs : bs[j].kind # "use"
    <3> SUFFICES ASSUME NEW j \in DOMAIN bs, bs[j].kind = "use" PROVE FALSE  OBVIOUS
    <3>1. PICK i \in DOMAIN rs : bs[j] = rs[i]  BY <1>9
    <3> QED BY <1>2, <3>1
  <2> QED BY <1>6, <2>1, IdsAre
<1>12. Ids(m, "result") = {rs[j].id : j \in DOMAIN rs}
  <2>1. ASSUME NEW x \in Ids(m, "result") PROVE x \in {rs[j].id : j \in DOMAIN rs}
    <3>1. PICK j \in DOMAIN bs : bs[j].kind = "result" /\ bs[j].id = x  BY <1>6, <2>1, IdsAre
    <3>2. bs[j].kind # "text"  BY <3>1
    <3> QED BY <1>9, <3>1, <3>2
  <2>2. ASSUME NEW j \in DOMAIN rs PROVE rs[j].id \in Ids(m, "result")
    <3>1. j \in DOMAIN bs /\ bs[j] = rs[j] /\ bs[j].kind = "result"  BY <1>2, <1>4, <1>5
    <3> QED BY <1>6, <3>1, IdsAre
  <2> QED BY <2>1, <2>2
<1>13. Sound(m)  BY <1>6, <1>7, <1>10, <1>11 DEF Sound
<1> QED BY <1>6, <1>9, <1>11, <1>12, <1>13 DEF m, bs

\* The results go back to the model.
LEMMA ResultsStep ==
  ASSUME LoopInv, SendResults
  PROVE  LoopInv' /\ (~stale => frozen' = frozen /\ Prefix(messages', frozen) = Prefix(messages, frozen))
<1> DEFINE ts == IF hooked THEN <<Text("hook", 0)>> ELSE <<>>
           m == User(results \o ts)
<1>1. /\ pc = "tools" /\ pc' = "loop" /\ todo = <<>>
      /\ messages' = Append(messages, m) /\ results' = <<>>
      /\ UNCHANGED <<situation, turn, frozen, boundary, stale, injections, nextId, anchor, agentFrozen,
                     todo, succeeded, shown>>
  BY DEF SendResults, Move, bounds
<1>2. /\ Well(messages) /\ messages \in Seq(Messages) /\ Len(messages) \in Nat
      /\ nextId \in Nat /\ situation \in Situations
  BY DEF LoopInv, ConversationOK, IdsOK, Well
<1>3. /\ results \in Seq(Results) /\ messages # <<>> /\ Is(Last(messages), "assistant")
      /\ Dangling(messages) = {results[j].id : j \in DOMAIN results} /\ Dangling(messages) # {}
      /\ \A j \in DOMAIN results : results[j].failed = TRUE <=> results[j].id \notin succeeded
  <2>1. /\ results \in Seq(Results) /\ messages # <<>> /\ Is(Last(messages), "assistant")
        /\ Dangling(messages) # {}
        /\ Dangling(messages) = {results[j].id : j \in DOMAIN results} \cup {todo[j].id : j \in DOMAIN todo}
        /\ \A j \in DOMAIN results : results[j].failed = TRUE <=> results[j].id \notin succeeded
    BY <1>1 DEF LoopInv, ToolsOK
  <2>2. DOMAIN todo = {}  BY <1>1
  <2>3. {todo[j].id : j \in DOMAIN todo} = {}  BY <2>2
  <2> QED BY <2>1, <2>3
<1>4. results # <<>>
  <2>1. results = <<>> => DOMAIN results = {}  OBVIOUS
  <2>2. results = <<>> => {results[j].id : j \in DOMAIN results} = {}  BY <2>1
  <2> QED BY <1>3, <2>2
<1>5. Wordy(ts)
  <2> DEFINE x == Text("hook", 0)
  <2>1. "hook" \in Texts  BY DEF Texts
  <2>2. x \in Blocks /\ x.kind = "text"  BY <2>1, TextIs
  <2>3. ts \in {<<x>>, <<>>}  OBVIOUS
  <2> HIDE DEF x, ts
  <2>4. <<x>> \in Seq(Blocks) /\ \A i \in DOMAIN <<x>> : <<x>>[i].kind = "text"  BY <2>2
  <2> QED BY <2>3, <2>4, NoWords DEF Wordy
<1> HIDE DEF ts
<1>6. /\ Sound(m) /\ Is(m, "user") /\ Ids(m, "use") = {}
      /\ Ids(m, "result") = {results[j].id : j \in DOMAIN results}
      /\ \A j \in DOMAIN m.blocks : m.blocks[j].kind # "text" =>
           \E i \in DOMAIN results : m.blocks[j] = results[i]
  BY <1>3, <1>4, <1>5, ResultsAre
<1> HIDE DEF m
<1>7. m \in Messages  BY <1>6 DEF Sound
<1>8. /\ messages' \in Seq(Messages) /\ Len(messages') = Len(messages) + 1 /\ messages' # <<>>
      /\ Last(messages') = m /\ messages'[Len(messages) + 1] = m
      /\ \A i \in 1 .. Len(messages) : messages'[i] = messages[i]
  BY <1>1, <1>2, <1>7, AppendIs
<1>9. ConversationOK'
  <2>1. Last(messages).role # m.role  BY <1>3, <1>6 DEF Is
  <2>2. Well(messages')  BY <1>1, <1>2, <1>3, <1>6, <2>1, AppendWell
  <2> QED BY <1>1, <1>2, <2>2 DEF ConversationOK
<1>10. IdsOK'
  <2>1. \A j \in DOMAIN m.blocks : m.blocks[j].kind # "text" => m.blocks[j].id < nextId'
    <3> TAKE j \in DOMAIN m.blocks
    <3> HAVE m.blocks[j].kind # "text"
    <3>1. PICK i \in DOMAIN results : m.blocks[j] = results[i]  BY <1>6
    <3>2. results[i].id \in Dangling(messages)  BY <1>3
    <3>3. IdsBelow(messages, nextId)  BY DEF LoopInv, IdsOK
    <3>4. results[i].id < nextId  BY <1>2, <3>2, <3>3, DanglingBelow
    <3> QED BY <1>1, <3>1, <3>4
  <2>2. \A j \in DOMAIN m.blocks : m.blocks[j].kind = "result" =>
          (m.blocks[j].failed = TRUE <=> m.blocks[j].id \notin succeeded)
    <3> TAKE j \in DOMAIN m.blocks
    <3> HAVE m.blocks[j].kind = "result"
    <3>1. PICK i \in DOMAIN results : m.blocks[j] = results[i]  BY <1>6
    <3> QED BY <1>3, <3>1
  <2>3. nextId' \in Nat /\ nextId <= nextId' /\ UNCHANGED succeeded  BY <1>1, <1>2
  <2> QED BY <1>1, <1>2, <1>6, <1>7, <2>1, <2>2, <2>3, IdsAppend DEF LoopInv
<1>11. FrozenOK' /\ (~stale => frozen' = frozen /\ Prefix(messages', frozen) = Prefix(messages, frozen))
  <2>1. frozen \in Nat  BY DEF LoopInv, TurnOK
  <2> QED BY <1>1, <1>2, <1>7, <2>1, FrozenAppend DEF LoopInv
<1>12. ToolsOK'
  <2>1. todo' \in Seq(Pending) /\ results' \in Seq(Results) /\ pc' # "tools"  BY <1>1
  <2> QED BY <2>1, NoCallsRun
<1>13. TurnOK'
  <2>1. /\ {turn, anchor, agentFrozen, frozen, injections} \subseteq Nat
        /\ agentFrozen = frozen /\ anchor <= Len(messages) /\ shown = 0
        /\ anchor # 0 => Text("input", turn) \in ToSet(messages[anchor].blocks)
        /\ \A i \in anchor + 1 .. Len(messages) : Is(messages[i], "user") => Ids(messages[i], "result") # {}
    BY <1>1 DEF LoopInv, TurnOK
  <2>2. anchor # 0 => Text("input", turn) \in ToSet(messages'[anchor].blocks)
    <3>1. anchor # 0 => anchor \in 1 .. Len(messages)  BY <1>2, <2>1
    <3> QED BY <1>8, <2>1, <3>1
  <2>3. \A i \in anchor + 1 .. Len(messages') : Is(messages'[i], "user") => Ids(messages'[i], "result") # {}
    <3> TAKE i \in anchor + 1 .. Len(messages')
    <3> HAVE Is(messages'[i], "user")
    <3>1. CASE i = Len(messages) + 1  BY <1>3, <1>6, <1>8, <3>1
    <3>2. CASE i # Len(messages) + 1
      <4>1. i \in anchor + 1 .. Len(messages) /\ i \in 1 .. Len(messages)  BY <1>2, <1>8, <2>1, <3>2
      <4> QED BY <1>8, <2>1, <4>1
    <3> QED BY <3>1, <3>2
  <2>4. anchor <= Len(messages')  BY <1>2, <1>8, <2>1
  <2> QED BY <1>1, <1>6, <1>8, <2>1, <2>2, <2>3, <2>4 DEF TurnOK
<1>14. ShownTextIsKept'
  <2>1. shown' = 0  BY <1>1 DEF LoopInv, TurnOK
  <2> QED BY <2>1 DEF ShownTextIsKept
<1> QED BY <1>9, <1>10, <1>11, <1>12, <1>13, <1>14 DEF LoopInv

-----------------------------------------------------------------------------
(* Every step keeps the invariant *)

\* And every step but a management of the whole or a summary keeps the frozen
\* prefix.
LEMMA StepKeepsLoop ==
  ASSUME LoopInv, [Next]_vars
  PROVE  /\ LoopInv'
         /\ pass' \in {"none", "staging"} /\ ~stale =>
              frozen' = frozen /\ Prefix(messages', frozen) = Prefix(messages, frozen)
<1> DEFINE Same == frozen' = frozen /\ Prefix(messages', frozen) = Prefix(messages, frozen)
           Kept == LoopInv' /\ (pass' \in {"none", "staging"} /\ ~stale => Same)
<1> SUFFICES Kept  OBVIOUS
<1>1. UNCHANGED <<messages, frozen>> => Same  OBVIOUS
<1>2. ASSUME NEW summarized \in BOOLEAN, NEW emergency \in BOOLEAN,
             PrepareInput(summarized, emergency)
      PROVE  Kept
  BY <1>2, InputStep
<1>3. ASSUME NEW summarized \in BOOLEAN, NEW emergency \in BOOLEAN,
             CompactContext(summarized, emergency)
      PROVE  Kept
  BY <1>3, CompactStep
<1> HIDE DEF Same
<1>4. CASE RestoreSession
  <2>1. LoopInv' /\ pass' = "whole"  BY <1>4, RestoreStep
  <2> QED BY <2>1
<1>5. CASE BuildTurnContext \/ ContextFails \/ \E old \in SUBSET Models : StartAgent(old)
  BY <1>1, <1>5, ContextSteps
<1>6. CASE StopForCanceledTurn \/ StopForAPICallCap  BY <1>1, <1>6, StopSteps
<1>7. ASSUME NEW heavy, NEW adopted, NextCall(heavy, adopted) PROVE Kept
  <2>1. LoopInv' /\ pass' = "whole"  BY <1>7, CallStep
  <2> QED BY <2>1
<1>8. ASSUME NEW stop, NEW reply \in situation.replies \cup {<<>>}, Answer(stop, reply) PROVE Kept
  BY <1>8, AnswerStep DEF Same
<1>9. ASSUME NEW err, NEW text \in BOOLEAN, CallFails(err, text) PROVE Kept
  BY <1>9, FailStep DEF Same
<1>10. ASSUME NEW heavy, RetryPruned(heavy) PROVE Kept
  <2>1. LoopInv' /\ pass' = "whole"  BY <1>10, RetryStep
  <2> QED BY <2>1
<1>11. ASSUME NEW touched, NEW chainWorks,
              CallNotRun \/ ToolFails(touched) \/ ToolWorks(touched, chainWorks)
       PROVE  Kept
  BY <1>1, <1>11, ToolSteps
<1>12. CASE SendResults  BY <1>12, ResultsStep DEF Same
<1>13. CASE InjectMessage \/ Cancel \/ UNCHANGED vars  BY <1>1, <1>13, BesideSteps
<1> HIDE DEF Kept
<1>14. CASE Next
  <2>1. \/ \E summarized, emergency \in BOOLEAN : PrepareInput(summarized, emergency)
        \/ \E summarized, emergency \in BOOLEAN : CompactContext(summarized, emergency)
        \/ RestoreSession
        \/ BuildTurnContext \/ ContextFails \/ \E old \in SUBSET Models : StartAgent(old)
        \/ StopForCanceledTurn \/ StopForAPICallCap
        \/ \E heavy, adopted \in BOOLEAN : NextCall(heavy, adopted)
        \/ \E stop, reply : reply \in situation.replies \cup {<<>>} /\ Answer(stop, reply)
        \/ \E err : \E text \in BOOLEAN : CallFails(err, text)
        \/ \E heavy \in BOOLEAN : RetryPruned(heavy)
        \/ \E touched, chainWorks : CallNotRun \/ ToolFails(touched) \/ ToolWorks(touched, chainWorks)
        \/ SendResults
        \/ InjectMessage \/ Cancel
    BY <1>14, Zenon DEF Next
  <2> QED BY <1>2, <1>3, <1>4, <1>5, <1>6, <1>7, <1>8, <1>9, <1>10, <1>11, <1>12, <1>13, <2>1, Zenon
<1>15. Next \/ UNCHANGED vars  OBVIOUS
<1> QED BY <1>13, <1>14, <1>15

\* LoopInv is an invariant of the loop.
LEMMA LoopInvariant == Spec => []LoopInv
<1>1. Init => LoopInv  BY InitLoop
<1>2. LoopInv /\ [Next]_vars => LoopInv'  BY StepKeepsLoop
<1> QED BY <1>1, <1>2, PTL DEF Spec

\* Whatever repairs, summaries, prunes and head drops made of the conversation,
\* every request is one the provider takes.
THEOREM RequestsWellFormed == Spec => []RequestsAreWellFormed
<1>1. LoopInv => RequestsAreWellFormed
  BY DEF LoopInv, ConversationOK, TurnOK, Well, RequestsAreWellFormed
<1> QED BY <1>1, LoopInvariant, PTL

\* A request's cache breakpoints are on the messages they were meant for, also
\* after heads were dropped in the middle of the turn.
THEOREM BreakpointsFollow == Spec => []BreakpointsFollowTheirMessages
<1>1. LoopInv => BreakpointsFollowTheirMessages
  <2> SUFFICES ASSUME LoopInv, pc = "calling",
                      NEW i \in HistoryCacheBreakpointIndices(Len(messages), agentFrozen, anchor)
               PROVE  /\ agentFrozen = frozen
                      /\ \/ i = anchor /\ Text("input", turn) \in ToSet(messages[i].blocks)
                         \/ i = frozen /\ (stale \/ SameBlock(Last(messages[i].blocks), boundary[1]))
                         \/ anchor = 0 /\ (frozen = 0 \/ stale) /\ i = Len(messages) - 1
    <3>1. LoopInv /\ pc = "calling" => agentFrozen = frozen  BY DEF LoopInv, TurnOK
    <3> QED BY <3>1 DEF BreakpointsFollowTheirMessages
  <2> DEFINE L == Len(messages)
             opening == IF 0 < frozen /\ frozen <= L THEN {frozen} ELSE {}
  <2>1. /\ agentFrozen = frozen /\ {anchor, frozen} \subseteq Nat
        /\ anchor # 0 => Text("input", turn) \in ToSet(messages[anchor].blocks)
    BY DEF LoopInv, TurnOK
  <2>2. messages \in Seq(Messages) /\ L \in Nat  BY DEF LoopInv, ConversationOK, Well
  <2>3. ~stale => frozen <= L /\ (frozen # 0 => SameBlock(Last(messages[frozen].blocks), boundary[1]))
    <3> SUFFICES ASSUME ~stale
                 PROVE  frozen <= L /\ (frozen # 0 => SameBlock(Last(messages[frozen].blocks), boundary[1]))
      OBVIOUS
    <3>1. FreezeHolds(messages, frozen, boundary)  BY DEF LoopInv, FrozenOK
    <3>2. FreezePoint(messages) \in 0 .. L  BY <2>2, FreezePointIs
    <3>3. frozen <= L  BY <2>1, <2>2, <3>1, <3>2 DEF FreezeHolds
    <3> QED BY <3>1, <3>3 DEF FreezeHolds
  <2>4. \/ i = frozen /\ 0 < frozen /\ frozen <= L
        \/ i = anchor /\ 1 <= anchor
        \/ i = L - 1 /\ ~(1 <= anchor) /\ ~(0 < frozen /\ frozen <= L)
    BY <2>1 DEF HistoryCacheBreakpointIndices
  <2>5. CASE i = frozen /\ 0 < frozen /\ frozen <= L  BY <2>1, <2>3, <2>5
  <2>6. CASE i = anchor /\ 1 <= anchor  BY <2>1, <2>6
  <2>7. CASE i = L - 1 /\ ~(1 <= anchor) /\ ~(0 < frozen /\ frozen <= L)
    <3>1. anchor = 0  BY <2>1, <2>7
    <3>2. frozen = 0 \/ stale  BY <2>1, <2>2, <2>3, <2>7
    <3> QED BY <2>1, <2>7, <3>1, <3>2
  <2> QED BY <2>4, <2>5, <2>6, <2>7
<1> QED BY <1>1, LoopInvariant, PTL

\* Between flushes nothing reaches into the frozen prefix: not the repairs, not
\* staging, not an answer or a result that is appended.
THEOREM FrozenPrefixStable == Spec => FrozenPrefixIsStable
<1>1. LoopInv /\ [Next]_vars =>
        [pass' \in {"none", "staging"} /\ ~stale =>
           frozen' = frozen /\ Prefix(messages', frozen) = Prefix(messages, frozen)]_vars
  BY StepKeepsLoop
<1> QED BY <1>1, LoopInvariant, PTL DEF Spec, FrozenPrefixIsStable

\* Results stay marked as what their calls came to, the text the user read
\* stays, and requests carry what was asked.
THEOREM ConversationKept == Spec => []ConversationKeepsTheTurn
<1>1. LoopInv => FailuresStayMarked
  <2> SUFFICES ASSUME LoopInv, NEW i \in DOMAIN messages, NEW j \in DOMAIN messages[i].blocks,
                      messages[i].blocks[j].kind = "result"
               PROVE  messages[i].blocks[j].failed <=> messages[i].blocks[j].id \notin succeeded
    BY DEF FailuresStayMarked, ToSet
  <2>1. messages \in Seq(Messages) /\ i \in 1 .. Len(messages)  BY DEF LoopInv, ConversationOK, Well
  <2>2. messages[i].blocks[j] \in Blocks  BY <2>1, BlocksOf
  <2>3. messages[i].blocks[j].failed \in BOOLEAN  BY <2>2 DEF Blocks
  <2>4. messages[i].blocks[j].failed = TRUE <=> messages[i].blocks[j].id \notin succeeded
    BY <2>1 DEF LoopInv, IdsOK, Marked
  <2> QED BY <2>3, <2>4
<1>2. LoopInv => TurnsKeepTheirInput
  <2> SUFFICES ASSUME LoopInv, pc = "calling"
               PROVE  \/ \E i \in DOMAIN messages : Text("input", turn) \in ToSet(messages[i].blocks)
                      \/ HeadIsOrphaned
    BY DEF TurnsKeepTheirInput
  <2>1. /\ messages \in Seq(Messages) /\ messages # <<>> /\ Is(messages[1], "user")
        /\ anchor \in Nat /\ anchor <= Len(messages)
        /\ anchor # 0 => Text("input", turn) \in ToSet(messages[anchor].blocks)
        /\ \A i \in anchor + 1 .. Len(messages) : Is(messages[i], "user") => Ids(messages[i], "result") # {}
    BY DEF LoopInv, ConversationOK, TurnOK, Well, WellFormed
  <2>2. CASE anchor # 0
    <3>1. anchor \in DOMAIN messages  BY <2>1, <2>2
    <3> QED BY <2>1, <2>2, <3>1
  <2>3. CASE anchor = 0
    <3>1. 1 \in anchor + 1 .. Len(messages)  BY <2>1, <2>3
    <3> QED BY <2>1, <3>1 DEF HeadIsOrphaned
  <2> QED BY <2>2, <2>3
<1>3. LoopInv => ConversationKeepsTheTurn  BY <1>1, <1>2 DEF LoopInv, ConversationKeepsTheTurn
<1> QED BY <1>3, LoopInvariant, PTL

\* Nothing moves one copy of the frozen boundary without the other
\* (agent/agent.go shiftBreakpointIndicesAfterHeadDrop; engine/build.go).
CopiesAgree == pc \in {"loop", "calling", "tools"} => agentFrozen = frozen

\* The part of BreakpointsFollowTheirMessages that holds all through a turn: the
\* agent's copy is the engine's, however its prunes cut the head.
THEOREM BoundaryCopiesAgree == Spec => []CopiesAgree
<1>1. LoopInv => CopiesAgree  BY DEF LoopInv, TurnOK, CopiesAgree
<1> QED BY <1>1, LoopInvariant, PTL

-----------------------------------------------------------------------------
(* Who serves a turn: the module Providers, beside the loop.               *)

CONSTANT CallCap
VARIABLES settings, token, selected, transcript, reply, calls, next, said

P == INSTANCE Providers WITH MaxAPICallsPerTurn <- CallCap, messages <- transcript

\* What a turn goes by: types, and that a turn is counted as long as it runs.
NamesOK ==
  /\ scenario \in Scenarios
  /\ {name, chosen, selected} \subseteq Names /\ explicit \in BOOLEAN
  /\ modelClient.model \in ServedModels
  /\ turns \in Nat /\ changes \in Nat
  /\ changes = 0 => keys = {"anthropic", "openai", "openrouter"}
  /\ stage # "idle" => turns > 0

\* From the step that finds the client on, the name and the client are of one
\* model, unless the user speaks up in this very turn.
LabelInv ==
  /\ modelClient.kind = KindOf(modelClient.model)
  /\ (stage \in {"starting", "calling", "asked", "dispatching"} /\ raced # turns) =>
       Resolve[name] = modelClient.model
  /\ (stage \in {"calling", "asked", "dispatching"} /\ raced # turns) =>
       Resolve[sentAs] = modelClient.model

\* A chosen name is what a turn selects, and what it finds a client for.
ChoiceInv ==
  (explicit /\ raced = 0 /\ changes = 0) =>
    name = chosen /\ (stage = "resolving" => selected = chosen)

ChosenInv == NamesOK /\ LabelInv /\ ChoiceInv

\* Providers speaks of clients as Serving does.
LEMMA SameClients ==
  /\ \A kind, m : P!Client(kind, m) = Client(kind, m)
  /\ \A m : P!KindOf(m) = KindOf(m)
  /\ \A m : P!CanBuild(m) = CanBuild(m)
<1>1. \A kind, m : P!Client(kind, m) = Client(kind, m)  BY DEF P!Client, Client
<1>2. \A m : P!KindOf(m) = KindOf(m)  BY DEF P!KindOf, KindOf
<1>3. \A m : P!CanBuild(m) = CanBuild(m)  BY <1>2 DEF P!CanBuild, CanBuild
<1> QED BY <1>1, <1>2, <1>3

\* A new client is of the kind its model asks for.
LEMMA ClientOfModel ==
  ASSUME NEW m
  PROVE  Client(KindOf(m), m).model = m /\ Client(KindOf(m), m).kind = KindOf(m)
<1> HIDE DEF KindOf
<1> QED BY DEF Client

\* The steps that neither choose nor find a client.
LEMMA NextKeepsNames ==
  ASSUME ChosenInv,
         UNCHANGED <<scenario, name, explicit, chosen, raced, modelClient, keys, changes, turns, selected, sentAs>>,
         stage' = stage \/ (stage \in {"calling", "asked", "dispatching"} /\ stage' \notin {"resolving", "starting"})
  PROVE  ChosenInv'
<1>1. NamesOK'  BY DEF ChosenInv, NamesOK
<1>2. \A m : KindOf(m)' = KindOf(m)  BY DEF KindOf
<1>3. LabelInv'  BY <1>2 DEF ChosenInv, LabelInv
<1>4. ChoiceInv'  BY DEF ChosenInv, ChoiceInv
<1> QED BY <1>1, <1>3, <1>4 DEF ChosenInv

LEMMA NextKeepsChosen ==
  ASSUME P!ProvidersAssumption, ChosenInv, [P!Next]_P!vars
  PROVE  ChosenInv'
<1> USE DEF P!setVars, P!credentialVars, P!turnVars, P!turnRest, P!Move
<1>0. /\ ServedModels \subseteq Names /\ Resolve \in [Names -> ServedModels]
      /\ \A m \in ServedModels : Resolve[m] = m
      /\ \A m \in ServedModels : ProviderOf[m] \in {"anthropic", "openai", "openrouter"}
      /\ \A c \in Scenarios : c.chosen \subseteq Names /\ c.fallbacks \subseteq ServedModels
  BY DEF P!ProvidersAssumption
<1>k. \A m : scenario' = scenario => KindOf(m)' = KindOf(m)  BY DEF KindOf
<1>1. CASE P!SetModel
  <2>1. NamesOK'  BY <1>0, <1>1 DEF P!SetModel, ChosenInv, NamesOK
  <2>2. LabelInv'  BY <1>1, <1>k DEF P!SetModel, ChosenInv, NamesOK, LabelInv
  <2>3. ChoiceInv'  BY <1>1 DEF P!SetModel, ChosenInv, NamesOK, ChoiceInv
  <2> QED BY <2>1, <2>2, <2>3 DEF ChosenInv
<1>2. CASE P!CredentialsChange
  <2>1. NamesOK'  BY <1>2 DEF P!CredentialsChange, ChosenInv, NamesOK
  <2>2. LabelInv'  BY <1>2, <1>k DEF P!CredentialsChange, ChosenInv, LabelInv
  <2>3. ChoiceInv'  BY <1>2 DEF P!CredentialsChange, ChosenInv, NamesOK, ChoiceInv
  <2> QED BY <2>1, <2>2, <2>3 DEF ChosenInv
<1>3. CASE P!PrepareInput
  <2>0. /\ turns' = turns + 1 /\ stage' = "selecting"
        /\ UNCHANGED <<scenario, name, explicit, chosen, raced, modelClient, keys, changes, selected, sentAs>>
    BY <1>3 DEF P!PrepareInput
  <2>1. NamesOK'  BY <2>0 DEF ChosenInv, NamesOK
  <2>2. LabelInv'  BY <2>0, <1>k DEF ChosenInv, LabelInv
  <2>3. ChoiceInv'  BY <2>0 DEF ChosenInv, ChoiceInv
  <2> QED BY <2>1, <2>2, <2>3 DEF ChosenInv
<1>4. CASE P!SelectModel
  <2>1. NamesOK'  BY <1>0, <1>4 DEF P!SelectModel, ChosenInv, NamesOK
  <2>2. LabelInv'  BY <1>4, <1>k DEF P!SelectModel, ChosenInv, LabelInv
  <2>3. ChoiceInv'  BY <1>4 DEF P!SelectModel, ChosenInv, NamesOK, ChoiceInv
  <2> QED BY <2>1, <2>2, <2>3 DEF ChosenInv
<1>5. CASE P!ResolveModelClient
  <2>0. /\ stage = "resolving" /\ stage' = "starting"
        /\ UNCHANGED <<scenario, explicit, chosen, raced, keys, changes, turns, selected, sentAs>>
        /\ \/ modelClient.model = selected /\ name' = selected /\ modelClient' = modelClient
           \/ /\ name' = selected
              /\ modelClient' = Client(KindOf(Resolve[selected]), Resolve[selected])
           \/ /\ ~CanBuild(Resolve[selected])
              /\ name' = modelClient.model /\ modelClient' = modelClient
    BY <1>5, SameClients DEF P!ResolveModelClient
  <2>1. /\ name' \in Names /\ modelClient'.model \in ServedModels
        /\ Resolve[name'] = modelClient'.model /\ modelClient'.kind = KindOf(modelClient'.model)
    BY <1>0, <2>0, ClientOfModel DEF ChosenInv, NamesOK, LabelInv
  <2>2. changes = 0 => name' = selected
    BY <1>0, <2>0 DEF ChosenInv, NamesOK, CanBuild
  <2>3. NamesOK'  BY <2>0, <2>1 DEF ChosenInv, NamesOK
  <2>4. LabelInv'  BY <2>0, <2>1, <1>k DEF ChosenInv, LabelInv
  <2>5. ChoiceInv'  BY <2>0, <2>2 DEF ChosenInv, ChoiceInv
  <2> QED BY <2>3, <2>4, <2>5 DEF ChosenInv
<1>6. CASE P!Route
  <2>0. /\ stage = "starting" /\ stage' = "calling" /\ sentAs' \in {modelClient.model, name}
        /\ UNCHANGED <<scenario, name, explicit, chosen, raced, modelClient, keys, changes, turns, selected>>
    BY <1>6 DEF P!Route
  <2>1. NamesOK'  BY <2>0 DEF ChosenInv, NamesOK
  <2>2. LabelInv'  BY <1>0, <2>0, <1>k DEF ChosenInv, NamesOK, LabelInv
  <2>3. ChoiceInv'  BY <2>0 DEF ChosenInv, ChoiceInv
  <2> QED BY <2>1, <2>2, <2>3 DEF ChosenInv
<1>7. CASE P!StopTurn \/ P!Call \/ P!CallFails \/ P!OutputItem \/ P!OutputEnds \/ P!ConvertReply
             \/ P!DispatchTools \/ UNCHANGED P!vars
  <2>1. UNCHANGED <<scenario, name, explicit, chosen, raced, modelClient, keys, changes, turns, selected, sentAs>>
    BY <1>7 DEF P!StopTurn, P!Call, P!CallFails, P!OutputItem, P!OutputEnds, P!ConvertReply,
         P!DispatchTools, P!vars
  <2>2. \/ stage' = stage
        \/ /\ stage \in {"calling", "asked", "dispatching"}
           /\ stage' \in {"idle", "asked", "dispatching", "calling"}
    BY <1>7 DEF P!StopTurn, P!Call, P!CallFails, P!OutputItem, P!OutputEnds, P!ConvertReply,
         P!DispatchTools, P!vars
  <2> QED BY <2>1, <2>2, NextKeepsNames
<1> QED BY <1>1, <1>2, <1>3, <1>4, <1>5, <1>6, <1>7 DEF P!Next

\* The name a turn is billed under, the name it asks for and the client it asks
\* are of one model, and a model its user chose stays chosen, for any models,
\* names, credentials and races.
THEOREM TurnsRunAsChosen ==
  ASSUME P!ProvidersAssumption
  PROVE  P!Spec => []TurnRunsAsChosen
<1>1. P!Init => ChosenInv
  <2> SUFFICES ASSUME P!Init PROVE ChosenInv  OBVIOUS
  <2>1. scenario \in Scenarios /\ scenario.start \in ServedModels /\ scenario.start \in Names
    BY DEF P!Init, P!ProvidersAssumption
  <2>2. NamesOK  BY <2>1, ClientOfModel, SameClients DEF P!Init, NamesOK
  <2>3. LabelInv  BY ClientOfModel, SameClients DEF P!Init, LabelInv
  <2>4. ChoiceInv  BY DEF P!Init, ChoiceInv
  <2> QED BY <2>2, <2>3, <2>4 DEF ChosenInv
<1>2. ChosenInv /\ [P!Next]_P!vars => ChosenInv'  BY NextKeepsChosen
<1>3. ChosenInv => TurnRunsAsChosen
  BY DEF ChosenInv, LabelInv, ChoiceInv, TurnRunsAsChosen, TurnRunsOnItsLabel, ChoiceIsKept
<1> QED BY <1>1, <1>2, <1>3, PTL DEF P!Spec
=============================================================================
