--------------------------- MODULE McpClientProofs ---------------------------
(***************************************************************************)
(* Theorems about McpClient, for any number of calls, servers and resumes, *)
(* pipes of any size and servers that say anything.                        *)
(***************************************************************************)
EXTENDS McpClient, SequenceTheorems, TLAPS

-----------------------------------------------------------------------------
(* Who holds the mutex.                                                    *)

Writing == {"body", "newline"}
Sending == {"sending"} \cup Writing
InCall  == Sending \cup {"waiting", "abandoning"}
Active  == {"calling"} \cup InCall
Notice  == "notifications/initialized"

\* A thread that is about a request is about its own; only the notification of
\* the handshake has no id; and who writes holds the mutex of the client.
ThreadInv(t) ==
  /\ t \in Clients => conn[t] = t
  /\ pc[t] \in Active => conn[t] \in Clients /\ request[t] \in Requests /\ request[t].by = t
  /\ pc[t] = "calling" => request[t].method # Notice
  /\ pc[t] \in Sending => (request[t].id = 0 <=> request[t].method = Notice)
  /\ pc[t] \in {"waiting", "abandoning"} => request[t].id # 0
  /\ pc[t] \in Writing => mu[conn[t]] = t

MutexInv(k) == mu[k] # None => conn[mu[k]] = k /\ pc[mu[k]] \in Writing

-----------------------------------------------------------------------------
(* Whose request has an id.                                                *)

\* Every request that client k has sent or is sending, wherever it or its answer
\* has come to.
Asking(k) == {request[t] : t \in {u \in Threads : pc[u] \in Active /\ conn[u] = k}}
Carried(parts) == {parts[i].request : i \in 1..Len(parts)}
Answering(lines) == {lines[i].to : i \in {j \in 1..Len(lines) : lines[j].says = "reply"}}
InHand(k) == IF reader[k] \in {"delivering", "handing"} THEN {line[k].to} ELSE {}
Around(k) ==
  Asking(k) \cup Carried(stdin[k]) \cup Carried(unread[k]) \cup asked[k] \cup answered[k]
    \cup Answering(stdout[k]) \cup InHand(k) \cup {reply.to : reply \in inbox[k]}

\* An id is given once: two requests that have it are of one thread.
IdsInv(k) ==
  /\ \A r \in Around(k) : r.id <= requestID[k]
  /\ \A r, s \in Around(k) : r.id = s.id /\ r.id # 0 => r.by = s.by

\* A waiter that has its reply, or is about to get it, is out of the map.
WaiterInv(k) ==
  /\ \A id \in waiters[k] : id \in 1..requestID[k]
  /\ \A reply \in inbox[k] : reply.to.id \notin waiters[k]
  /\ reader[k] \in {"delivering", "handing"} => line[k] \in Replies
  /\ reader[k] = "handing" => line[k].to.id \notin waiters[k]

-----------------------------------------------------------------------------
(* What is on the server's input.                                          *)

Sent(k) == unread[k] \o stdin[k]
LastOf(s) == s[Len(s)]
Whole(s) ==
  \A i \in 1..Len(s) :
    IF s[i].newline THEN i > 1 => s[i - 1] = [s[i] EXCEPT !.newline = FALSE]
                    ELSE i > 1 => s[i - 1].newline

\* The input ends in a newline, or in the body of the request whose writer still
\* holds the mutex; a server that serves nobody has nothing to read.
InputInv(k) ==
  /\ Whole(Sent(k))
  /\ ~Serving(k) => stdin[k] = <<>> /\ unread[k] = <<>>
  /\ Sent(k) # <<>> /\ ~LastOf(Sent(k)).newline =>
       mu[k] # None /\ pc[mu[k]] = "newline" /\ LastOf(Sent(k)).request = request[mu[k]]
  /\ Serving(k) /\ mu[k] # None /\ pc[mu[k]] = "newline" =>
       Sent(k) # <<>> /\ LastOf(Sent(k)) = [request |-> request[mu[k]], newline |-> FALSE]

-----------------------------------------------------------------------------
(* Whose server it is.                                                     *)

OwnerInv ==
  /\ \A k \in Clients : pc[k] = "idle" => server[k] = "unstarted"
  /\ \A b \in Batches :
       /\ phase[b] \in {"idle", "starting"} => doomed[b] = {}
       /\ phase[b] = "idle" => Started(b) = {}
       /\ clients = b => phase[b] = "using"
       /\ clients = b /\ locked => \A k \in Started(b) : server[k] = "reaped" \/ k \in doomed["close"]
  /\ ~closing => doomed["close"] = {}
  /\ \A a \in Batches \cup {"close"} : \A k \in doomed[a] : server[k] # "unstarted"
  /\ ServersHaveAnOwner

\* Servers in use have been started, and nobody talks to one that was not.
UseInv ==
  /\ clients # None => \A k \in Range(ServersOf[clients]) : pc[k] = "ready"
  /\ \A t \in Threads : pc[t] \in Active => pc[conn[t]] # "idle"

ClientInv ==
  /\ TypeOK
  /\ UseInv
  /\ \A t \in Threads : ThreadInv(t)
  /\ \A k \in Clients : MutexInv(k) /\ IdsInv(k) /\ WaiterInv(k) /\ InputInv(k)
  /\ CallsDoNotMix

-----------------------------------------------------------------------------
(* Types.                                                                  *)

\* One client's pipe grows by one.
LEMMA AppendAt ==
  ASSUME NEW S, NEW T, NEW f \in [S -> Seq(T)], NEW x \in S, NEW m \in T
  PROVE  /\ [f EXCEPT ![x] = Append(@, m)] \in [S -> Seq(T)]
         /\ Len(Append(f[x], m)) = Len(f[x]) + 1 /\ Len(f[x]) \in Nat
  OBVIOUS

\* One client's pipe is read from.
LEMMA TailAt ==
  ASSUME NEW S, NEW T, NEW f \in [S -> Seq(T)], NEW x \in S, f[x] # <<>>
  PROVE  /\ [f EXCEPT ![x] = Tail(@)] \in [S -> Seq(T)] /\ Head(f[x]) \in T
         /\ Len(Tail(f[x])) = Len(f[x]) - 1 /\ Len(f[x]) \in Nat
  OBVIOUS

\* Every request has the type of its kind.
LEMMA AskTypes ==
  ASSUME NEW t \in Threads, NEW m \in Methods
  PROVE  Asks(t, m) \in Requests /\ Asks(t, m).by = t /\ Asks(t, m).method = m /\ Asks(t, m).id = 0
  BY DEF Asks, Requests

\* What a thread may be told is a verdict.
LEMMA VerdictTypes ==
  /\ \A why \in {"unsent", "expired", "ended", "gone", "unknown"} :
       Failure(why) \in Verdicts /\ Failure(why).says = why /\ Failure(why).says # "reply"
  /\ Replies \subseteq Verdicts
  BY DEF Failure, Verdicts

\* Telling a thread keeps the verdicts' type.
LEMMA TellTypes ==
  ASSUME verdict \in [Calls -> Verdicts \cup {None}], NEW t, NEW what \in Verdicts, Tell(t, what)
  PROVE  verdict' \in [Calls -> Verdicts \cup {None}]
  BY DEF Tell

\* Nothing is in use and nothing was said.
LEMMA TypeInit == Init => TypeOK
<1> SUFFICES ASSUME Init PROVE TypeOK
  OBVIOUS
<1>1. <<>> \in Seq(Parts) /\ <<>> \in Seq(Replies \cup Noise) /\ Len(<<>>) = 0  OBVIOUS
<1>2. PipeCap \in Nat /\ OutCap \in Nat /\ MaxNoise \in Nat  BY McpAssumption
<1>3. \A k \in Clients : Len(stdin[k]) <= PipeCap /\ Len(stdout[k]) <= OutCap
  BY <1>1, <1>2 DEF Init
<1> HIDE DEF Replies, Noise, Parts, Verdicts, Requests
<1>4. /\ mu \in [Clients -> Threads \cup {None}] /\ requestID \in [Clients -> Nat]
      /\ waiters \in [Clients -> SUBSET Nat] /\ inbox \in [Clients -> SUBSET Replies]
      /\ line \in [Clients -> Replies \cup {None}]
      /\ asked \in [Clients -> SUBSET Requests] /\ answered \in [Clients -> SUBSET Requests]
      /\ noise \in [Clients -> 0..MaxNoise]
  BY <1>2 DEF Init
<1>5. /\ stdin \in [Clients -> Seq(Parts)] /\ unread \in [Clients -> Seq(Parts)]
      /\ stdout \in [Clients -> Seq(Replies \cup Noise)]
  BY <1>1 DEF Init
<1>6. /\ conn \in [Threads -> Clients \cup {None}] /\ request \in [Threads -> Requests \cup {None}]
      /\ verdict \in [Calls -> Verdicts \cup {None}]
  BY DEF Init
<1>7. /\ streams \in [Clients -> {"unopened", "open", "closed"}]
      /\ reader \in [Clients -> {"reading", "delivering", "handing", "ending", "done"}]
      /\ server \in [Clients -> {"unstarted", "up", "exited", "reaped"}]
      /\ pc \in [Threads -> {"idle", "calling", "sending", "body", "newline", "waiting",
                               "abandoning", "done", "failed", "ready"}]
      /\ phase \in [Batches -> {"idle", "starting", "failed", "using"}]
      /\ doomed \in [Batches \cup {"close"} -> SUBSET Clients]
  BY DEF Init
<1>8. acting \in Situations /\ expired \subseteq Threads /\ clients \in Batches \cup {None}
      /\ locked \in BOOLEAN /\ closing \in BOOLEAN
  BY DEF Init
<1> QED BY <1>3, <1>4, <1>5, <1>6, <1>7, <1>8 DEF TypeOK

\* The place a thread goes to after its call.
LEMMA AfterCallTypes ==
  ASSUME NEW t \in Threads, NEW ok \in BOOLEAN
  PROVE  /\ AfterCall(t, ok) \in {"done", "failed", "sending", "ready"}
         /\ AfterCall(t, ok) = "sending" => t \in Clients
         /\ AfterCall(t, FALSE) \in {"done", "failed"}
         /\ AfterCall(t, ok) = "done" => t \in Calls
  BY DEF AfterCall, Threads

\* A thread's steps keep the types.
LEMMA ThreadKeepsTypes ==
  ASSUME ClientInv, NEW t \in Threads, ThreadStep(t) \/ Expire(t)
  PROVE  TypeOK'
<1> USE DEF TypeOK, Goes, pipes, serverVars, readerVars, sessionVars, Writing, Sending,
        InCall, Active
<1>0. TypeOK /\ ThreadInv(t)  BY DEF ClientInv
<1>1. pc[t] \in Active => conn[t] \in Clients /\ request[t] \in Requests
  BY <1>0 DEF ThreadInv
<1>2. request[t] \in Requests => request[t].id \in Nat /\ \A n \in Nat : [request[t] EXCEPT !.id = n] \in Requests
  BY DEF Requests
<1>v. \A why \in {"unsent", "expired", "ended"} : Tell(t, Failure(why)) => verdict' \in [Calls -> Verdicts \cup {None}]
  BY <1>0, VerdictTypes, TellTypes
<1> HIDE DEF Replies, Noise, Parts, Verdicts, Requests, Tell, Failure
<1>3. CASE Register(t)
  <2>1. requestID[conn[t]] + 1 \in Nat  BY <1>0, <1>1, <1>3 DEF Register
  <2>2. request' \in [Threads -> Requests \cup {None}]
    BY <1>0, <1>1, <1>2, <1>3, <2>1 DEF Register
  <2> QED BY <1>0, <1>1, <1>3, <2>1, <2>2 DEF Register
<1>4. CASE LockToWrite(t)  BY <1>0, <1>1, <1>4 DEF LockToWrite
<1>5. CASE WriteBody(t) \/ WriteNewline(t)
  <2>1. \A b \in BOOLEAN : [request |-> request[t], newline |-> b] \in Parts
    BY <1>1, <1>5 DEF WriteBody, WriteNewline, Parts
  <2>2. \A b \in BOOLEAN : Writes(t, b) /\ CanWrite(conn[t]) =>
          /\ stdin' \in [Clients -> Seq(Parts)]
          /\ \A k \in Clients : Len(stdin'[k]) <= PipeCap
    <3> SUFFICES ASSUME NEW b \in BOOLEAN, Writes(t, b), CanWrite(conn[t])
                 PROVE  /\ stdin' \in [Clients -> Seq(Parts)]
                        /\ \A k \in Clients : Len(stdin'[k]) <= PipeCap
      OBVIOUS
    <3>1. conn[t] \in Clients  BY <1>1, <1>5 DEF WriteBody, WriteNewline
    <3> DEFINE m == [request |-> request[t], newline |-> b]
    <3>2. m \in Parts /\ stdin' = [stdin EXCEPT ![conn[t]] = Append(@, m)]  BY <2>1 DEF Writes
    <3>3. stdin \in [Clients -> Seq(Parts)]  BY <1>0
    <3> HIDE DEF m, TypeOK
    <3>4. stdin' \in [Clients -> Seq(Parts)] /\ Len(stdin'[conn[t]]) = Len(stdin[conn[t]]) + 1
          /\ Len(stdin[conn[t]]) \in Nat
      BY <3>1, <3>2, <3>3, AppendAt
    <3>5. Len(stdin[conn[t]]) < PipeCap /\ PipeCap \in Nat  BY McpAssumption DEF CanWrite
    <3>6. \A k \in Clients \ {conn[t]} : stdin'[k] = stdin[k]  BY <3>2, <3>3
    <3>7. \A k \in Clients : Len(stdin[k]) <= PipeCap  BY <1>0 DEF TypeOK
    <3> QED BY <3>4, <3>5, <3>6, <3>7
  <2>3. CASE WriteBody(t)  BY <1>0, <2>2, <2>3 DEF WriteBody
  <2>4. CASE WriteNewline(t)
    <3>1. request' \in [Threads -> Requests \cup {None}]
      BY <1>0, <2>4, AskTypes DEF WriteNewline, Methods
    <3>2. stdin' \in [Clients -> Seq(Parts)] /\ \A k \in Clients : Len(stdin'[k]) <= PipeCap
      BY <2>2, <2>4 DEF WriteNewline
    <3> QED BY <1>0, <2>4, <3>1, <3>2 DEF WriteNewline
  <2> QED BY <1>5, <2>3, <2>4
<1>6. CASE WriteFails(t)  BY <1>0, <1>1, <1>v, <1>6 DEF WriteFails
<1>7. CASE TakeReply(t)
  <2>1. PICK reply \in inbox[conn[t]] :
          /\ Goes(t, "waiting", AfterCall(t, reply.ok))
          /\ Tell(t, reply)
          /\ inbox' = [inbox EXCEPT ![conn[t]] = @ \ {reply}]
          /\ request' = IF pc'[t] = "sending"
                        THEN [request EXCEPT ![t] = Asks(t, "notifications/initialized")] ELSE request
          /\ expired' = expired \ ({t} \cap Clients)
          /\ UNCHANGED <<mu, requestID, waiters, pipes, reader, line, serverVars, conn, sessionVars>>
    BY <1>7 DEF TakeReply
  <2>2. reply \in Replies /\ reply.ok \in BOOLEAN  BY <1>0, <1>1, <2>1 DEF Replies
  <2>3. verdict' \in [Calls -> Verdicts \cup {None}]  BY <1>0, <2>1, <2>2, VerdictTypes, TellTypes
  <2>4. request' \in [Threads -> Requests \cup {None}]
    BY <1>0, <2>1, AskTypes DEF Methods
  <2>5. AfterCall(t, reply.ok) \in {"done", "failed", "sending", "ready"}  BY <2>2, AfterCallTypes
  <2> QED BY <1>0, <2>1, <2>3, <2>4, <2>5
<1>8. CASE GiveUp(t)  BY <1>0, <1>v, <1>8 DEF GiveUp
<1>9. CASE SeeEnd(t)  BY <1>0, <1>v, <1>9 DEF SeeEnd
<1>10. CASE AbandonWaiter(t)  BY <1>0, <1>1, <1>10, AfterCallTypes DEF AbandonWaiter
<1>11. CASE Expire(t)  BY <1>0, <1>11 DEF Expire
<1> HIDE DEF TypeOK
<1> QED
  BY <1>3, <1>4, <1>5, <1>6, <1>7, <1>8, <1>9, <1>10, <1>11 DEF ThreadStep

\* The steps of a call's look-up keep the types.
LEMMA LookUpKeepsTypes ==
  ASSUME ClientInv, NEW c \in Calls, LookUp(c)
  PROVE  TypeOK'
<1> USE DEF Goes, pipes, serverVars, readerVars, sessionVars
<1>0. TypeOK /\ c \in Threads  BY DEF ClientInv, Threads
<1>1. /\ UNCHANGED <<mu, requestID, waiters, pipes, readerVars, serverVars, expired, sessionVars>>
      /\ \/ /\ Goes(c, "idle", "done") /\ UNCHANGED <<conn, request>>
            /\ \E why \in {"gone", "unknown"} : Tell(c, Failure(why))
         \/ \E k \in Clients :
              /\ Goes(c, "idle", "calling") /\ conn' = [conn EXCEPT ![c] = k]
              /\ request' = [request EXCEPT ![c] = Asks(c, "tools/call")] /\ UNCHANGED verdict
  <2> HIDE DEF Goes
  <2>1. \A k : k \in Offering => k \in Clients  BY McpAssumption
  <2> QED BY <2>1 DEF LookUp
<1>2. verdict' \in [Calls -> Verdicts \cup {None}]
  <2>1. verdict \in [Calls -> Verdicts \cup {None}]  BY <1>0 DEF TypeOK
  <2> QED BY <1>1, <2>1, VerdictTypes, TellTypes
<1>3. Asks(c, "tools/call") \in Requests  BY <1>0, AskTypes DEF Methods
<1> HIDE DEF Replies, Noise, Parts, Verdicts, Requests, Tell, Failure
<1>4. /\ pc' \in [Threads -> {"idle", "calling", "sending", "body", "newline", "waiting",
                               "abandoning", "done", "failed", "ready"}]
      /\ conn' \in [Threads -> Clients \cup {None}]
      /\ request' \in [Threads -> Requests \cup {None}]
  <2> DEFINE Fits == /\ pc' \in [Threads -> {"idle", "calling", "sending", "body", "newline",
                                            "waiting", "abandoning", "done", "failed", "ready"}]
                     /\ conn' \in [Threads -> Clients \cup {None}]
                     /\ request' \in [Threads -> Requests \cup {None}]
  <2>1. /\ pc \in [Threads -> {"idle", "calling", "sending", "body", "newline", "waiting",
                               "abandoning", "done", "failed", "ready"}]
        /\ conn \in [Threads -> Clients \cup {None}]
        /\ request \in [Threads -> Requests \cup {None}]
    BY <1>0 DEF TypeOK
  <2>2. CASE Goes(c, "idle", "done") /\ UNCHANGED <<conn, request>>
    BY <1>0, <2>1, <2>2
  <2>3. ASSUME NEW k \in Clients, Goes(c, "idle", "calling"), conn' = [conn EXCEPT ![c] = k],
               request' = [request EXCEPT ![c] = Asks(c, "tools/call")]
        PROVE  Fits
    <3> HIDE DEF Asks
    <3>1. pc' = [pc EXCEPT ![c] = "calling"]  BY <2>3
    <3> HIDE DEF Goes
    <3> QED BY <1>0, <1>3, <2>1, <2>3, <3>1
  <2> HIDE DEF Asks, Goes
  <2> QED BY <1>1, <2>2, <2>3
<1> QED BY <1>0, <1>1, <1>2, <1>4 DEF TypeOK

\* The reader's steps keep the types.
LEMMA ReaderKeepsTypes ==
  ASSUME ClientInv, NEW k \in Clients, ReaderStep(k)
  PROVE  TypeOK'
<1> USE DEF pipes, serverVars, threadVars, sessionVars
<1>0. TypeOK /\ WaiterInv(k)  BY DEF ClientInv
<1> HIDE DEF Parts, Verdicts, Requests
<1>1. CASE ReadLine(k)
  <2>1. stdout \in [Clients -> Seq(Replies \cup Noise)]  BY <1>0 DEF TypeOK
  <2>2. /\ stdout' \in [Clients -> Seq(Replies \cup Noise)] /\ Head(stdout[k]) \in Replies \cup Noise
        /\ Len(stdout'[k]) = Len(stdout[k]) - 1 /\ Len(stdout[k]) \in Nat
    <3> HIDE DEF Replies, Noise
    <3> QED BY <1>1, <2>1, TailAt DEF ReadLine
  <2>3. Head(stdout[k]).says = "reply" => Head(stdout[k]) \in Replies
    BY <2>2 DEF Noise
  <2> HIDE DEF Replies, Noise
  <2>4. \A j \in Clients : Len(stdout'[j]) <= OutCap
    <3>1. \A j \in Clients \ {k} : stdout'[j] = stdout[j]  BY <1>1, <2>1 DEF ReadLine
    <3>2. \A j \in Clients : Len(stdout[j]) <= OutCap  BY <1>0 DEF TypeOK
    <3>3. OutCap \in Nat  BY McpAssumption
    <3> QED BY <2>2, <3>1, <3>2, <3>3
  <2>5. /\ reader' \in [Clients -> {"reading", "delivering", "handing", "ending", "done"}]
        /\ line' \in [Clients -> Replies \cup {None}]
    <3>1. /\ reader \in [Clients -> {"reading", "delivering", "handing", "ending", "done"}]
          /\ line \in [Clients -> Replies \cup {None}]
      BY <1>0 DEF TypeOK
    <3>2. \/ UNCHANGED <<reader, line>>
          \/ reader' = [reader EXCEPT ![k] = "ending"] /\ UNCHANGED line
          \/ /\ Head(stdout[k]).says = "reply"
             /\ reader' = [reader EXCEPT ![k] = "delivering"]
             /\ line' = [line EXCEPT ![k] = Head(stdout[k])]
      BY <1>1 DEF ReadLine
    <3> QED BY <3>1, <3>2, <2>3
  <2>6. UNCHANGED <<mu, requestID, waiters, stdin, streams, inbox, serverVars, threadVars, sessionVars>>
    BY <1>1 DEF ReadLine
  <2> QED BY <1>0, <2>2, <2>4, <2>5, <2>6 DEF TypeOK
<1> HIDE DEF Replies, Noise
<1>2. CASE Deliver(k)  BY <1>0, <1>2 DEF TypeOK, Deliver
<1>3. CASE Hand(k)
  <2>1. line[k] \in Replies  BY <1>0, <1>3 DEF TypeOK, Hand, WaiterInv
  <2> QED BY <1>0, <1>3, <2>1 DEF TypeOK, Hand
<1>4. CASE SeeEndOfOutput(k) \/ EndReader(k)
  <2>1. \E where \in {"ending", "done"} : reader' = [reader EXCEPT ![k] = where]
    BY <1>4 DEF SeeEndOfOutput, EndReader
  <2>2. UNCHANGED <<mu, requestID, waiters, pipes, line, inbox, serverVars, threadVars, sessionVars>>
    BY <1>4 DEF SeeEndOfOutput, EndReader
  <2> QED BY <1>0, <2>1, <2>2 DEF TypeOK
<1> QED BY <1>1, <1>2, <1>3, <1>4 DEF ReaderStep

\* A server that exits, or whose streams are closed, has nothing to read or answer.
LEMMA SilenceTypes ==
  ASSUME TypeOK, NEW k \in Clients, Silence(k)
  PROVE  /\ stdin' \in [Clients -> Seq(Parts)] /\ unread' \in [Clients -> Seq(Parts)]
         /\ asked' \in [Clients -> SUBSET Requests] /\ answered' \in [Clients -> SUBSET Requests]
         /\ \A j \in Clients : Len(stdin'[j]) <= PipeCap
<1> HIDE DEF Parts, Requests
<1>1. <<>> \in Seq(Parts) /\ Len(<<>>) = 0 /\ PipeCap \in Nat  BY McpAssumption
<1> QED BY <1>1 DEF TypeOK, Silence

\* One line more on a server's output, where there was room.
LEMMA SaysTypes ==
  ASSUME TypeOK, NEW k \in Clients, NEW l \in Replies \cup Noise, Says(k, l)
  PROVE  /\ stdout' \in [Clients -> Seq(Replies \cup Noise)]
         /\ \A j \in Clients : Len(stdout'[j]) <= OutCap
<1> HIDE DEF Replies, Noise
<1>1. stdout \in [Clients -> Seq(Replies \cup Noise)] /\ \A j \in Clients : Len(stdout[j]) <= OutCap
  BY DEF TypeOK
<1>2. stdout' = [stdout EXCEPT ![k] = Append(@, l)] /\ Len(stdout[k]) < OutCap /\ OutCap \in Nat
  BY McpAssumption DEF Says
<1>3. stdout' \in [Clients -> Seq(Replies \cup Noise)]
      /\ Len(stdout'[k]) = Len(stdout[k]) + 1 /\ Len(stdout[k]) \in Nat
  BY <1>1, <1>2, AppendAt
<1>4. \A j \in Clients \ {k} : stdout'[j] = stdout[j]  BY <1>1, <1>2
<1> QED BY <1>1, <1>2, <1>3, <1>4

\* A server's steps keep the types.
LEMMA ServerKeepsTypes ==
  ASSUME TypeOK, NEW k \in Clients,
         ServerReads(k) \/ ServerReplies(k) \/ ServerRepeats(k) \/ ServerChatters(k) \/ ServerExits(k)
  PROVE  TypeOK'
<1> USE DEF pipes, readerVars, threadVars, sessionVars, UNCHANGEDClient
<1>1. CASE ServerReads(k)
  <2>1. stdin \in [Clients -> Seq(Parts)] /\ unread \in [Clients -> Seq(Parts)] /\ stdin[k] # <<>>
    BY <1>1 DEF TypeOK, ServerReads
  <2>2. /\ stdin' \in [Clients -> Seq(Parts)] /\ Head(stdin[k]) \in Parts
        /\ Len(stdin'[k]) = Len(stdin[k]) - 1 /\ Len(stdin[k]) \in Nat
    <3> HIDE DEF Parts
    <3> QED BY <1>1, <2>1, TailAt DEF ServerReads
  <2>3. \A j \in Clients : Len(stdin'[j]) <= PipeCap
    <3>1. \A j \in Clients \ {k} : stdin'[j] = stdin[j]  BY <1>1, <2>1 DEF ServerReads
    <3>2. \A j \in Clients : Len(stdin[j]) <= PipeCap  BY DEF TypeOK
    <3>3. PipeCap \in Nat  BY McpAssumption
    <3> HIDE DEF Parts
    <3> QED BY <2>2, <3>1, <3>2, <3>3
  <2>4. unread' \in [Clients -> Seq(Parts)]
    <3> HIDE DEF Parts
    <3>1. [unread EXCEPT ![k] = Append(@, Head(stdin[k]))] \in [Clients -> Seq(Parts)]
      BY <2>1, <2>2, AppendAt
    <3>2. [unread EXCEPT ![k] = <<>>] \in [Clients -> Seq(Parts)]
      <4>1. <<>> \in Seq(Parts)  OBVIOUS
      <4> QED BY <2>1, <4>1
    <3> QED BY <1>1, <3>1, <3>2 DEF ServerReads
  <2>5. asked' \in [Clients -> SUBSET Requests]
    <3>1. Len(unread[k]) = 1 => unread[k][1] \in Parts  
      <4>1. unread[k] \in Seq(Parts)  BY <2>1
      <4> HIDE DEF Parts
      <4> QED BY <4>1
    <3>2. Len(unread[k]) = 1 => unread[k][1].request \in Requests  BY <3>1 DEF Parts
    <3>3. asked \in [Clients -> SUBSET Requests]  BY DEF TypeOK
    <3> HIDE DEF Parts, Requests
    <3> QED BY <1>1, <3>2, <3>3 DEF ServerReads
  <2> HIDE DEF Parts, Requests, Replies, Noise, Verdicts
  <2>6. UNCHANGED <<stdout, answered, noise>> /\ UNCHANGEDClient  BY <1>1 DEF ServerReads
  <2> QED BY <2>2, <2>3, <2>4, <2>5, <2>6 DEF TypeOK
<1>2. CASE ServerReplies(k)
  <2>1. PICK r \in asked[k], ok \in BOOLEAN :
          /\ Says(k, [says |-> "reply", to |-> r, ok |-> ok])
          /\ asked' = [asked EXCEPT ![k] = @ \ {r}]
          /\ answered' = [answered EXCEPT ![k] = @ \cup {r}]
          /\ UNCHANGED <<stdin, unread, noise>> /\ UNCHANGEDClient
    BY <1>2 DEF ServerReplies
  <2>2. r \in Requests  BY DEF TypeOK
  <2>3. [says |-> "reply", to |-> r, ok |-> ok] \in Replies \cup Noise  BY <2>2 DEF Replies
  <2>4. stdout' \in [Clients -> Seq(Replies \cup Noise)] /\ \A j \in Clients : Len(stdout'[j]) <= OutCap
    BY <2>1, <2>3, SaysTypes
  <2> HIDE DEF Parts, Requests, Replies, Noise, Verdicts
  <2> QED BY <2>1, <2>2, <2>4 DEF TypeOK
<1>3. CASE ServerRepeats(k)
  <2>1. PICK r \in answered[k] :
          /\ Noisy(k) /\ Says(k, [says |-> "reply", to |-> r, ok |-> TRUE])
          /\ UNCHANGED <<stdin, unread, asked, answered>> /\ UNCHANGEDClient
    BY <1>3 DEF ServerRepeats
  <2>2. r \in Requests  BY DEF TypeOK
  <2>3. [says |-> "reply", to |-> r, ok |-> TRUE] \in Replies \cup Noise  BY <2>2 DEF Replies
  <2>4. stdout' \in [Clients -> Seq(Replies \cup Noise)] /\ \A j \in Clients : Len(stdout'[j]) <= OutCap
    BY <2>1, <2>3, SaysTypes
  <2>5. noise' \in [Clients -> 0..MaxNoise]  BY <2>1, McpAssumption DEF TypeOK, Noisy
  <2> HIDE DEF Parts, Requests, Replies, Noise, Verdicts
  <2> QED BY <2>1, <2>4, <2>5 DEF TypeOK
<1>4. CASE ServerChatters(k)
  <2>1. PICK l \in Noise : Says(k, l)  BY <1>4 DEF ServerChatters
  <2>2. Noisy(k) /\ UNCHANGED <<stdin, unread, asked, answered>> /\ UNCHANGEDClient
    BY <1>4 DEF ServerChatters
  <2>4. stdout' \in [Clients -> Seq(Replies \cup Noise)] /\ \A j \in Clients : Len(stdout'[j]) <= OutCap
    BY <2>1, SaysTypes
  <2>5. noise' \in [Clients -> 0..MaxNoise]  BY <2>2, McpAssumption DEF TypeOK, Noisy
  <2> HIDE DEF Parts, Requests, Replies, Noise, Verdicts
  <2> QED BY <2>2, <2>4, <2>5 DEF TypeOK
<1>5. CASE ServerExits(k)
  <2> HIDE DEF Parts, Requests, Replies, Noise, Verdicts
  <2> QED BY <1>5, SilenceTypes DEF TypeOK, ServerExits
<1> QED BY <1>1, <1>2, <1>3, <1>4, <1>5

\* The steps of the session's servers keep the types.
LEMMA SessionKeepsTypes ==
  ASSUME TypeOK,
         \/ \E b \in Batches : Resume(b) \/ StartServer(b) \/ StartFails(b) \/ Install(b)
         \/ \E a \in Batches \cup {"close"} : CloseStreams(a) \/ FinishClose(a)
         \/ CloseSession \/ SessionClosed
  PROVE  TypeOK'
<1> USE DEF pipes, readerVars, serverVars, threadVars, sessionVars, TypeOK, Goes
<1>s. \A b \in Batches : Started(b) \in SUBSET Clients
  <2>1. \A b \in Batches : Range(ServersOf[b]) \subseteq Clients
    BY McpAssumption DEF Range
  <2> QED BY <2>1 DEF Started
<1> HIDE DEF Parts, Requests, Replies, Noise, Verdicts
<1>1. ASSUME NEW b \in Batches, Resume(b) PROVE TypeOK'  BY <1>1 DEF Resume
<1>2. ASSUME NEW b \in Batches, StartServer(b) PROVE TypeOK'
  <2>1. \A k \in Clients : Asks(k, "initialize") \in Requests /\ k \in Threads
    BY AskTypes DEF Methods, Threads
  <2>2. PICK k \in Clients :
          /\ Goes(k, "idle", "calling")
          /\ server' = [server EXCEPT ![k] = "up"]
          /\ streams' = [streams EXCEPT ![k] = "open"]
          /\ request' = [request EXCEPT ![k] = Asks(k, "initialize")]
    BY <1>2 DEF StartServer
  <2>3. UNCHANGED <<mu, requestID, waiters, stdin, stdout, readerVars, unread, asked, answered,
                    noise, conn, verdict, expired, sessionVars>>
    BY <1>2 DEF StartServer
  <2> QED BY <2>1, <2>2, <2>3
<1>3. ASSUME NEW b \in Batches, StartFails(b) PROVE TypeOK'  BY <1>s, <1>3 DEF StartFails
<1>4. ASSUME NEW b \in Batches, Install(b) PROVE TypeOK'
  <2>1. clients # None => Started(clients) \in SUBSET Clients  BY <1>s
  <2> QED BY <1>4, <2>1 DEF Install
<1>5. ASSUME NEW a \in Batches \cup {"close"}, CloseStreams(a) PROVE TypeOK'
  <2>1. PICK k \in doomed[a] :
          /\ streams' = [streams EXCEPT ![k] = "closed"]
          /\ stdout' = [stdout EXCEPT ![k] = <<>>]
          /\ Silence(k)
          /\ UNCHANGED <<mu, requestID, waiters, readerVars, server, noise, threadVars, sessionVars>>
    BY <1>5 DEF CloseStreams
  <2>2. k \in Clients  OBVIOUS
  <2>3. /\ stdin' \in [Clients -> Seq(Parts)] /\ unread' \in [Clients -> Seq(Parts)]
        /\ asked' \in [Clients -> SUBSET Requests] /\ answered' \in [Clients -> SUBSET Requests]
        /\ \A j \in Clients : Len(stdin'[j]) <= PipeCap
    BY <2>1, <2>2, SilenceTypes
  <2>4. stdout' \in [Clients -> Seq(Replies \cup Noise)] /\ \A j \in Clients : Len(stdout'[j]) <= OutCap
    <3>1. <<>> \in Seq(Replies \cup Noise) /\ Len(<<>>) = 0 /\ OutCap \in Nat  BY McpAssumption
    <3> QED BY <2>1, <2>2, <3>1
  <2> QED BY <2>1, <2>2, <2>3, <2>4
<1>6. ASSUME NEW a \in Batches \cup {"close"}, FinishClose(a) PROVE TypeOK'
  BY <1>6 DEF FinishClose
<1>7. CASE CloseSession
  <2>1. clients # None => Started(clients) \in SUBSET Clients  BY <1>s
  <2> QED BY <1>7, <2>1 DEF CloseSession
<1>8. CASE SessionClosed  BY <1>8 DEF SessionClosed
<1> HIDE DEF TypeOK
<1> QED BY <1>1, <1>2, <1>3, <1>4, <1>5, <1>6, <1>7, <1>8

-----------------------------------------------------------------------------
(* Threads and the mutex.                                                  *)

ThreadsKept == (\A u \in Threads : ThreadInv(u)') /\ \A k \in Clients : MutexInv(k)'

\* A thread's step is nobody else's: it takes a free mutex and gives back its own.
LEMMA ThreadsApart ==
  ASSUME ClientInv, NEW t \in Threads,
         \A u \in Threads \ {t} : pc'[u] = pc[u] /\ conn'[u] = conn[u] /\ request'[u] = request[u],
         \A k \in Clients : mu'[k] = mu[k] \/ (mu[k] \in {None, t} /\ mu'[k] \in {None, t}),
         \A k \in Clients : mu'[k] = t => conn'[t] = k /\ pc'[t] \in Writing,
         ThreadInv(t)'
  PROVE  ThreadsKept
<1>a. None \notin Threads /\ \A k \in Clients : mu[k] \in Threads \cup {None}
  BY McpAssumption DEF ClientInv, TypeOK, Threads
<1>0. None \notin Threads /\ \A k \in Clients : mu[k] \in Threads \cup {None} /\ mu'[k] \in Threads \cup {None}
  BY <1>a
<1>1. ASSUME NEW u \in Threads \ {t} PROVE ThreadInv(u)'
  <2>1. ThreadInv(u)  BY DEF ClientInv
  <2>2. pc[u] \in Writing => pc[u] \in Active  BY DEF Active, InCall, Sending
  <2>3. pc[u] \in Writing => conn[u] \in Clients /\ mu[conn[u]] = u
    BY <2>1, <2>2 DEF ThreadInv
  <2>4. pc[u] \in Writing => mu'[conn[u]] = u  BY <1>0, <2>3
  <2> HIDE DEF Active, Sending, Writing
  <2> QED BY <2>1, <2>4 DEF ThreadInv
<1>2. ASSUME NEW k \in Clients PROVE MutexInv(k)'
  <2>1. MutexInv(k)  BY DEF ClientInv
  <2>2. mu'[k] # None /\ mu'[k] # t => mu[k] = mu'[k] /\ mu[k] \in Threads \ {t}
    BY <1>0
  <2> QED BY <2>1, <2>2 DEF MutexInv
<1> QED BY <1>1, <1>2 DEF ThreadsKept

\* A step that moves no thread and takes no mutex.
LEMMA ThreadsRest ==
  ASSUME ClientInv, UNCHANGED <<pc, conn, request, mu>>
  PROVE  ThreadsKept
  BY DEF ClientInv, ThreadsKept, ThreadInv, MutexInv

\* A thread writes only while it holds the mutex of its client, is about its own
\* request, and leaves the handshake's notification without an id.
LEMMA ThreadKeepsThreads ==
  ASSUME ClientInv, NEW t \in Threads, ThreadStep(t) \/ Expire(t)
  PROVE  ThreadsKept
<1> USE DEF Goes, pipes, serverVars, readerVars, sessionVars, Writing, Sending, InCall, Active
<1>0. /\ ThreadInv(t) /\ None \notin Threads
      /\ pc \in [Threads -> {"idle", "calling", "sending", "body", "newline", "waiting",
                             "abandoning", "done", "failed", "ready"}]
      /\ request \in [Threads -> Requests \cup {None}]
      /\ mu \in [Clients -> Threads \cup {None}]
      /\ requestID \in [Clients -> Nat]
      /\ \A k \in Clients : mu[k] = t => conn[t] = k /\ pc[t] \in Writing
  BY McpAssumption DEF ClientInv, TypeOK, Threads, MutexInv
<1>1. pc[t] \in Active => conn[t] \in Clients /\ request[t] \in Requests /\ request[t].by = t
  BY <1>0 DEF ThreadInv
<1>2. /\ request[t] \in Requests => request[t].id \in Nat /\ request[t].method \in Methods
      /\ \A n \in Nat : request[t] \in Requests =>
           /\ [request[t] EXCEPT !.id = n] \in Requests
           /\ [request[t] EXCEPT !.id = n].by = request[t].by
           /\ [request[t] EXCEPT !.id = n].method = request[t].method
           /\ [request[t] EXCEPT !.id = n].id = n
  BY DEF Requests
<1>m. Notice \in Methods /\ "tools/list" \in Methods /\ "tools/list" # Notice  BY DEF Notice, Methods
<1> HIDE DEF Requests, Methods
<1>3. CASE Register(t)
  <2>1. requestID[conn[t]] + 1 \in Nat \ {0}  BY <1>0, <1>1, <1>3 DEF Register
  <2>2. /\ pc[t] = "calling" /\ pc' = [pc EXCEPT ![t] = "sending"] /\ UNCHANGED <<mu, conn>>
        /\ request' = [request EXCEPT ![t].id = requestID[conn[t]] + 1]
    BY <1>0, <1>1, <1>3 DEF Register, TypeOK
  <2>3. request'[t] = [request[t] EXCEPT !.id = requestID[conn[t]] + 1]  BY <1>0, <2>2
  <2>4. ThreadInv(t)'  BY <1>0, <1>1, <1>2, <2>1, <2>2, <2>3 DEF ThreadInv
  <2> QED BY <1>0, <2>2, <2>4, ThreadsApart
<1>4. CASE LockToWrite(t)
  <2>1. /\ pc[t] = "sending" /\ pc' = [pc EXCEPT ![t] = "body"] /\ UNCHANGED <<request, conn>>
        /\ mu' = [mu EXCEPT ![conn[t]] = t] /\ mu[conn[t]] = None
    BY <1>4 DEF LockToWrite
  <2>2. ThreadInv(t)'  BY <1>0, <1>1, <2>1 DEF ThreadInv
  <2> QED BY <1>0, <1>1, <2>1, <2>2, ThreadsApart
<1>5. CASE WriteBody(t)
  <2>1. pc[t] = "body" /\ pc' = [pc EXCEPT ![t] = "newline"] /\ UNCHANGED <<mu, request, conn>>
    BY <1>5 DEF WriteBody
  <2>2. ThreadInv(t)'  BY <1>0, <2>1 DEF ThreadInv
  <2> QED BY <1>0, <2>1, <2>2, ThreadsApart
<1>6. CASE WriteNewline(t)
  <2>1. /\ pc[t] = "newline" /\ UNCHANGED conn /\ mu' = [mu EXCEPT ![conn[t]] = None]
        /\ IF request[t].method = Notice
           THEN pc' = [pc EXCEPT ![t] = "calling"] /\ request' = [request EXCEPT ![t] = Asks(t, "tools/list")]
           ELSE pc' = [pc EXCEPT ![t] = "waiting"] /\ request' = request
    BY <1>6 DEF WriteNewline, Notice
  <2>2. conn[t] \in Clients /\ mu[conn[t]] = t  BY <1>0, <1>1, <2>1 DEF ThreadInv
  <2>3. ThreadInv(t)'
    <3>1. CASE request[t].method = Notice
      BY <1>0, <1>1, <1>m, <2>1, <3>1, AskTypes DEF ThreadInv
    <3>2. CASE request[t].method # Notice
      BY <1>0, <1>1, <2>1, <3>2 DEF ThreadInv
    <3> QED BY <3>1, <3>2
  <2> QED BY <1>0, <2>1, <2>2, <2>3, ThreadsApart
<1>7. CASE WriteFails(t)
  <2>1. /\ pc[t] \in Writing /\ UNCHANGED <<conn, request>> /\ mu' = [mu EXCEPT ![conn[t]] = None]
        /\ pc' = [pc EXCEPT ![t] = IF request[t].id = 0 THEN "failed" ELSE "abandoning"]
    BY <1>7 DEF WriteFails
  <2>2. conn[t] \in Clients /\ mu[conn[t]] = t  BY <1>0, <1>1, <2>1 DEF ThreadInv
  <2>3. ThreadInv(t)'  BY <1>0, <1>1, <2>1 DEF ThreadInv
  <2> QED BY <1>0, <2>1, <2>2, <2>3, ThreadsApart
<1>8. CASE TakeReply(t)
  <2>1. PICK reply \in inbox[conn[t]] :
          /\ Goes(t, "waiting", AfterCall(t, reply.ok))
          /\ request' = IF pc'[t] = "sending" THEN [request EXCEPT ![t] = Asks(t, Notice)] ELSE request
          /\ UNCHANGED <<mu, conn>>
    BY <1>8 DEF TakeReply, Notice
  <2>2. reply.ok \in BOOLEAN  BY <1>1, <2>1 DEF ClientInv, TypeOK, Replies
  <2>3. /\ pc[t] = "waiting" /\ pc' = [pc EXCEPT ![t] = AfterCall(t, reply.ok)]
        /\ AfterCall(t, reply.ok) \in {"done", "failed", "sending", "ready"}
    BY <2>1, <2>2, AfterCallTypes
  <2>4. ThreadInv(t)'
    BY <1>0, <1>1, <1>m, <2>1, <2>3, AskTypes DEF ThreadInv
  <2> QED BY <1>0, <2>1, <2>3, <2>4, ThreadsApart
<1>9. CASE GiveUp(t) \/ SeeEnd(t)
  <2>1. pc[t] = "waiting" /\ pc' = [pc EXCEPT ![t] = "abandoning"] /\ UNCHANGED <<mu, request, conn>>
    BY <1>9 DEF GiveUp, SeeEnd
  <2>2. ThreadInv(t)'  BY <1>0, <2>1 DEF ThreadInv
  <2> QED BY <1>0, <2>1, <2>2, ThreadsApart
<1>10. CASE AbandonWaiter(t)
  <2>1. /\ pc[t] = "abandoning" /\ pc' = [pc EXCEPT ![t] = AfterCall(t, FALSE)]
        /\ UNCHANGED <<mu, request, conn>> /\ AfterCall(t, FALSE) \in {"done", "failed"}
    BY <1>10, AfterCallTypes DEF AbandonWaiter
  <2>2. ThreadInv(t)'  BY <1>0, <2>1 DEF ThreadInv
  <2> QED BY <1>0, <2>1, <2>2, ThreadsApart
<1>11. CASE Expire(t)
  <2>1. UNCHANGED <<pc, conn, request, mu>>  BY <1>11 DEF Expire
  <2> QED BY <2>1, ThreadsRest
<1> QED
  BY <1>3, <1>4, <1>5, <1>6, <1>7, <1>8, <1>9, <1>10, <1>11 DEF ThreadStep

\* A call that looks up its client, and a handshake that begins.
LEMMA StartersKeepThreads ==
  ASSUME ClientInv, NEW t \in Threads, NEW k \in Clients, NEW m \in Methods \ {Notice},
         Goes(t, "idle", "calling"), conn' = [conn EXCEPT ![t] = k], t \in Clients => k = t,
         request' = [request EXCEPT ![t] = Asks(t, m)], UNCHANGED mu
  PROVE  ThreadsKept
<1> USE DEF Goes, Writing, Sending, InCall, Active
<1>0. /\ pc \in [Threads -> {"idle", "calling", "sending", "body", "newline", "waiting",
                             "abandoning", "done", "failed", "ready"}]
      /\ request \in [Threads -> Requests \cup {None}]
      /\ conn \in [Threads -> Clients \cup {None}]
      /\ \A j \in Clients : mu[j] # t
  <2>1. \A j \in Clients : mu[j] = t => pc[t] \in Writing
    BY McpAssumption DEF ClientInv, MutexInv, Threads
  <2> QED BY <2>1 DEF ClientInv, TypeOK
<1>1. Asks(t, m) \in Requests /\ Asks(t, m).by = t /\ Asks(t, m).method = m  BY AskTypes
<1> HIDE DEF Requests, Methods
<1>2. ThreadInv(t)'  BY <1>0, <1>1 DEF ThreadInv
<1> QED BY <1>0, <1>2, ThreadsApart

\* Every step keeps the threads and the mutexes.
LEMMA StepKeepsThreads ==
  ASSUME ClientInv, Next
  PROVE  ThreadsKept
<1> USE DEF pipes, serverVars, readerVars, threadVars, sessionVars
<1>1. ASSUME NEW c \in Calls, LookUp(c) PROVE ThreadsKept
  <2>1. UNCHANGED mu /\ c \in Threads /\ c \notin Clients
    BY <1>1, McpAssumption DEF LookUp, Threads
  <2>2. CASE Goes(c, "idle", "done") /\ UNCHANGED <<conn, request>>
    <3>1. ThreadInv(c)'
      <4>1. pc'[c] = "done"  BY <2>1, <2>2 DEF Goes, ClientInv, TypeOK
      <4> QED BY <2>1, <4>1 DEF ThreadInv, Active, InCall, Sending, Writing
    <3>2. \A u \in Threads \ {c} : pc'[u] = pc[u]  BY <2>1, <2>2 DEF Goes, ClientInv, TypeOK
    <3>3. \A j \in Clients : mu[j] # c
      BY <2>1, <2>2, McpAssumption DEF ClientInv, MutexInv, Goes, Writing, Threads
    <3> QED BY <2>1, <2>2, <3>1, <3>2, <3>3, ThreadsApart
  <2>3. CASE \E k \in Clients :
               /\ Goes(c, "idle", "calling") /\ conn' = [conn EXCEPT ![c] = k]
               /\ request' = [request EXCEPT ![c] = Asks(c, "tools/call")]
    <3>1. "tools/call" \in Methods \ {Notice}  BY DEF Methods, Notice
    <3> QED BY <2>1, <2>3, <3>1, StartersKeepThreads
  <2>4. \A k : k \in Offering => k \in Clients  BY McpAssumption
  <2> HIDE DEF Goes
  <2> QED BY <1>1, <2>2, <2>3, <2>4 DEF LookUp
<1>2. ASSUME NEW b \in Batches, StartServer(b) PROVE ThreadsKept
  <2>1. PICK k \in Clients : Goes(k, "idle", "calling")
                             /\ request' = [request EXCEPT ![k] = Asks(k, "initialize")]
    BY <1>2 DEF StartServer
  <2>2. UNCHANGED <<mu, conn>> /\ k \in Threads  BY <1>2 DEF StartServer, Threads
  <2>3. conn' = [conn EXCEPT ![k] = k]
    BY <2>2 DEF ClientInv, ThreadInv, TypeOK
  <2>4. "initialize" \in Methods \ {Notice}  BY DEF Methods, Notice
  <2> QED BY <2>1, <2>2, <2>3, <2>4, StartersKeepThreads
<1>3. ASSUME NEW k \in Clients,
             \/ ReaderStep(k) \/ ServerReads(k) \/ ServerReplies(k) \/ ServerRepeats(k)
             \/ ServerChatters(k) \/ ServerExits(k)
      PROVE  ThreadsKept
  <2>1. UNCHANGED <<pc, conn, request, mu>>
    BY <1>3 DEF ReaderStep, ReadLine, Deliver, Hand, SeeEndOfOutput, EndReader, ServerReads,
       ServerReplies, ServerRepeats, ServerChatters, ServerExits, UNCHANGEDClient
  <2> QED BY <2>1, ThreadsRest
<1>4. ASSUME \/ \E b \in Batches : Resume(b) \/ StartFails(b) \/ Install(b)
             \/ \E a \in Batches \cup {"close"} : CloseStreams(a) \/ FinishClose(a)
             \/ CloseSession \/ SessionClosed
      PROVE  ThreadsKept
  <2>1. UNCHANGED <<pc, conn, request, mu>>
    BY <1>4 DEF Resume, StartFails, Install, CloseStreams, FinishClose, CloseSession, SessionClosed
  <2> QED BY <2>1, ThreadsRest
<1> QED BY <1>1, <1>2, <1>3, <1>4, ThreadKeepsThreads DEF Next

-----------------------------------------------------------------------------
(* Every server has somebody who uses it or closes it.                     *)

\* Steps that touch no server's process and nobody's plans for it.
LEMMA OwnersRest ==
  ASSUME OwnerInv, UNCHANGED <<server, clients, locked, phase, doomed, closing>>,
         \A k \in Clients : pc'[k] = "idle" => pc[k] = "idle"
  PROVE  OwnerInv'
<1>1. \A b \in Batches : Started(b)' = Started(b)  BY DEF Started
<1> HIDE DEF Started
<1> QED BY <1>1 DEF OwnerInv, ServersHaveAnOwner

\* A server that runs is in one batch only.
LEMMA OneBatchEach ==
  ASSUME NEW b \in Batches, NEW d \in Batches, b # d, NEW k \in Range(ServersOf[b])
  PROVE  k \in Clients /\ k \notin Range(ServersOf[d])
<1>1. k \in Clients  BY McpAssumption DEF Range
<1>2. k \notin Range(ServersOf[d])  BY McpAssumption
<1> QED BY <1>1, <1>2

\* A server that exits or is reaped is one that was started, and only a reaped one
\* is nobody's to close.
LEMMA OwnersOutlive ==
  ASSUME TypeOK, OwnerInv, UNCHANGED <<clients, locked, phase, closing, pc>>,
         \A j \in Clients : server'[j] = "unstarted" <=> server[j] = "unstarted",
         \A j \in Clients : server[j] = "reaped" => server'[j] = "reaped",
         DOMAIN doomed' = Batches \cup {"close"},
         \A a \in Batches \cup {"close"} : \A j \in doomed'[a] : j \in doomed[a],
         \A a \in Batches \cup {"close"} : \A j \in doomed[a] \ doomed'[a] : server'[j] = "reaped"
  PROVE  OwnerInv'
<1>0. DOMAIN doomed = Batches \cup {"close"} /\ \A a \in Batches \cup {"close"} : doomed[a] \subseteq Clients
  BY DEF TypeOK
<1>1. \A b \in Batches : Started(b)' = Started(b) /\ Started(b) \subseteq Clients
  BY McpAssumption DEF Started, Range
<1> HIDE DEF Started
<1>2. \A k \in Clients : pc'[k] = "idle" => server'[k] = "unstarted"  BY DEF OwnerInv
<1>3. ASSUME NEW b \in Batches
      PROVE  /\ phase'[b] \in {"idle", "starting"} => doomed'[b] = {}
             /\ phase'[b] = "idle" => Started(b)' = {}
             /\ clients' = b => phase'[b] = "using"
             /\ clients' = b /\ locked' =>
                  \A k \in Started(b)' : server'[k] = "reaped" \/ k \in doomed'["close"]
             /\ \A k \in Started(b)' : server'[k] = "reaped"
                   \/ clients' = b \/ phase'[b] = "starting" \/ \E a \in DOMAIN doomed' : k \in doomed'[a]
  <2>1. phase'[b] \in {"idle", "starting"} => doomed'[b] = {}  BY DEF OwnerInv
  <2>2. phase'[b] = "idle" => Started(b)' = {}  BY <1>1 DEF OwnerInv
  <2>3. clients' = b => phase'[b] = "using"  BY DEF OwnerInv
  <2>4. ASSUME clients' = b, locked', NEW k \in Started(b)'
        PROVE  server'[k] = "reaped" \/ k \in doomed'["close"]
    <3>1. k \in Started(b) /\ k \in Clients  BY <1>1
    <3>2. server[k] = "reaped" \/ k \in doomed["close"]  BY <2>4, <3>1 DEF OwnerInv
    <3> QED BY <3>1, <3>2
  <2>5. ASSUME NEW k \in Started(b)'
        PROVE  server'[k] = "reaped" \/ clients' = b \/ phase'[b] = "starting"
                 \/ \E a \in DOMAIN doomed' : k \in doomed'[a]
    <3>1. k \in Started(b) /\ k \in Clients  BY <1>1
    <3>2. server[k] = "reaped" \/ clients = b \/ phase[b] = "starting"
            \/ \E a \in Batches \cup {"close"} : k \in doomed[a]
      BY <1>0, <3>1 DEF OwnerInv, ServersHaveAnOwner
    <3> QED BY <3>1, <3>2
  <2> QED BY <2>1, <2>2, <2>3, <2>4, <2>5
<1>4. ~closing' => doomed'["close"] = {}  BY DEF OwnerInv
<1>5. \A a \in Batches \cup {"close"} : \A k \in doomed'[a] : server'[k] # "unstarted"
  BY <1>0 DEF OwnerInv
<1> QED BY <1>2, <1>3, <1>4, <1>5 DEF OwnerInv, ServersHaveAnOwner

\* The steps that start, use and give up servers: the batch they are about
\* changes hands, the others keep theirs.
LEMMA OwnersChange ==
  ASSUME TypeOK, OwnerInv,
         \E b \in Batches : Resume(b) \/ StartServer(b) \/ StartFails(b) \/ Install(b)
  PROVE  OwnerInv'
<1>0. /\ DOMAIN doomed = Batches \cup {"close"} /\ "close" \notin Batches /\ None \notin Batches
      /\ phase \in [Batches -> {"idle", "starting", "failed", "using"}]
      /\ server \in [Clients -> {"unstarted", "up", "exited", "reaped"}]
      /\ pc \in [Threads -> {"idle", "calling", "sending", "body", "newline", "waiting",
                             "abandoning", "done", "failed", "ready"}]
  BY McpAssumption DEF TypeOK
<1> HIDE DEF TypeOK
<1>s. \A b \in Batches : /\ Started(b) \subseteq Clients /\ \A k \in Started(b) : server[k] # "unstarted"
                         /\ Started(b) \subseteq Range(ServersOf[b])
  BY McpAssumption DEF Started, Range
<1>1. ASSUME NEW b \in Batches, Resume(b) PROVE OwnerInv'
  <2>1. /\ UNCHANGED <<server, pc, clients, locked, doomed, closing>>
        /\ phase[b] = "idle" /\ phase' = [phase EXCEPT ![b] = "starting"]
    BY <1>1 DEF Resume, serverVars, threadVars
  <2>2. \A d \in Batches : Started(d)' = Started(d)  BY <2>1 DEF Started
  <2> HIDE DEF Started
  <2>3. \A d \in Batches \ {b} : phase'[d] = phase[d]  BY <1>0, <2>1
  <2>4. phase'[b] = "starting"  BY <1>0, <2>1
  <2> QED BY <1>0, <2>1, <2>2, <2>3, <2>4 DEF OwnerInv, ServersHaveAnOwner
<1>2. ASSUME NEW b \in Batches, StartServer(b) PROVE OwnerInv'
  <2>1. /\ UNCHANGED <<clients, locked, phase, doomed, closing>> /\ phase[b] = "starting"
        /\ \E k \in Range(ServersOf[b]) :
             /\ k \in Clients /\ pc[k] = "idle" /\ pc' = [pc EXCEPT ![k] = "calling"]
             /\ server' = [server EXCEPT ![k] = "up"]
    <3>1. PICK k \in Clients : /\ NextServer(b, k) /\ Goes(k, "idle", "calling")
                              /\ server' = [server EXCEPT ![k] = "up"]
      BY <1>2 DEF StartServer
    <3>2. k \in Range(ServersOf[b])
      <4>1. \E i \in DOMAIN ServersOf[b] : ServersOf[b][i] = k  BY <3>1 DEF NextServer
      <4> QED BY <4>1 DEF Range
    <3>3. /\ UNCHANGED <<clients, locked, phase, doomed, closing>> /\ phase[b] = "starting"
      BY <1>2 DEF StartServer, sessionVars
    <3>4. pc[k] = "idle" /\ pc' = [pc EXCEPT ![k] = "calling"]  BY <3>1 DEF Goes
    <3> QED BY <3>1, <3>2, <3>3, <3>4
  <2>2. PICK k \in Range(ServersOf[b]) :
             /\ k \in Clients /\ pc[k] = "idle" /\ pc' = [pc EXCEPT ![k] = "calling"]
             /\ server' = [server EXCEPT ![k] = "up"]
    BY <2>1
  <2>3. server[k] = "unstarted" /\ server'[k] = "up" /\ \A j \in Clients \ {k} : server'[j] = server[j]
    BY <1>0, <2>2 DEF OwnerInv
  <2>4. \A d \in Batches \ {b} : Started(d)' = Started(d)
    <3>1. \A d \in Batches \ {b} : k \notin Range(ServersOf[d]) /\ \A j \in Range(ServersOf[d]) : j \in Clients
      BY OneBatchEach
    <3> QED BY <2>3, <3>1 DEF Started
  <2>5. pc'[k] = "calling" /\ \A j \in Clients \ {k} : pc'[j] = pc[j]
    BY <1>0, <2>2 DEF Threads
  <2> HIDE DEF Started
  <2>6. \A j \in Clients : pc'[j] = "idle" => server'[j] = "unstarted"  BY <2>3, <2>5 DEF OwnerInv
  <2>7. \A a \in Batches \cup {"close"} : \A j \in doomed[a] : server'[j] # "unstarted"
    <3>1. \A a \in Batches \cup {"close"} : doomed[a] \subseteq Clients  BY DEF TypeOK
    <3> QED BY <2>3, <3>1 DEF OwnerInv
  <2>8. ASSUME NEW d \in Batches \ {b}
        PROVE  \A j \in Started(d) : server'[j] = server[j]
    <3>1. \A j \in Started(d) : j # k  BY <1>s, <2>3
    <3> QED BY <1>s, <2>3, <3>1
  <2>9. clients # b  BY <2>1 DEF OwnerInv
  <2>10. ServersHaveAnOwner'
    BY <2>1, <2>4, <2>8 DEF OwnerInv, ServersHaveAnOwner
  <2> QED BY <2>1, <2>4, <2>6, <2>7, <2>8, <2>9, <2>10 DEF OwnerInv
<1>3. ASSUME NEW b \in Batches, StartFails(b) PROVE OwnerInv'
  <2>1. /\ UNCHANGED <<server, pc, clients, locked, closing>>
        /\ phase[b] = "starting" /\ phase' = [phase EXCEPT ![b] = "failed"]
        /\ doomed' = [doomed EXCEPT ![b] = Started(b)]
    BY <1>3 DEF StartFails, serverVars, threadVars
  <2>2. \A d \in Batches : Started(d)' = Started(d)  BY <2>1 DEF Started
  <2> HIDE DEF Started
  <2>3. /\ \A d \in Batches \ {b} : phase'[d] = phase[d]
        /\ phase'[b] = "failed" /\ doomed'[b] = Started(b) /\ doomed[b] = {}
        /\ DOMAIN doomed' = DOMAIN doomed
        /\ \A a \in DOMAIN doomed \ {b} : doomed'[a] = doomed[a]
    BY <1>0, <2>1 DEF OwnerInv
  <2>4. clients # b  BY <2>1 DEF OwnerInv
  <2>5. \A a \in Batches \cup {"close"} : \A k \in doomed'[a] : server'[k] # "unstarted"
    BY <1>0, <1>s, <2>1, <2>3 DEF OwnerInv
  <2>6. ServersHaveAnOwner'
    BY <1>0, <2>1, <2>2, <2>3 DEF OwnerInv, ServersHaveAnOwner
  <2> QED BY <1>0, <2>1, <2>2, <2>3, <2>4, <2>5, <2>6 DEF OwnerInv
<1>4. ASSUME NEW b \in Batches, Install(b) PROVE OwnerInv'
  <2>1. /\ UNCHANGED <<server, pc, locked, closing>> /\ ~locked /\ clients' = b
        /\ phase[b] = "starting" /\ phase' = [phase EXCEPT ![b] = "using"]
        /\ doomed' = [doomed EXCEPT ![b] = IF clients = None THEN {} ELSE Started(clients)]
    BY <1>4 DEF Install, serverVars, threadVars
  <2>2. \A d \in Batches : Started(d)' = Started(d)  BY <2>1 DEF Started
  <2> HIDE DEF Started
  <2>3. /\ \A d \in Batches \ {b} : phase'[d] = phase[d]
        /\ phase'[b] = "using" /\ doomed[b] = {}
        /\ doomed'[b] = IF clients = None THEN {} ELSE Started(clients)
        /\ DOMAIN doomed' = DOMAIN doomed
        /\ \A a \in DOMAIN doomed \ {b} : doomed'[a] = doomed[a]
    BY <1>0, <2>1 DEF OwnerInv
  <2>4. clients \in Batches \cup {None}  BY DEF TypeOK
  <2>5. \A a \in Batches \cup {"close"} : \A k \in doomed'[a] : server'[k] # "unstarted"
    BY <1>0, <1>s, <2>1, <2>3, <2>4 DEF OwnerInv
  <2>6. ServersHaveAnOwner'
    BY <1>0, <2>1, <2>2, <2>3, <2>4 DEF OwnerInv, ServersHaveAnOwner
  <2> QED BY <1>0, <2>1, <2>2, <2>3, <2>5, <2>6 DEF OwnerInv
<1> QED BY <1>1, <1>2, <1>3, <1>4

\* Every step keeps every server's owner.
LEMMA StepKeepsOwners ==
  ASSUME ClientInv, OwnerInv, Next
  PROVE  OwnerInv'
<1> USE DEF serverVars, threadVars, sessionVars
<1>0. /\ TypeOK /\ Clients \subseteq Threads /\ "close" \notin Batches /\ None \notin Batches
      /\ doomed \in [Batches \cup {"close"} -> SUBSET Clients]
      /\ server \in [Clients -> {"unstarted", "up", "exited", "reaped"}]
      /\ pc \in [Threads -> {"idle", "calling", "sending", "body", "newline", "waiting",
                             "abandoning", "done", "failed", "ready"}]
  BY McpAssumption DEF ClientInv, TypeOK, Threads
<1>1. ASSUME NEW c \in Calls, LookUp(c) PROVE OwnerInv'
  <2>1. UNCHANGED <<serverVars, sessionVars>>  BY <1>1 DEF LookUp
  <2>2. pc[c] = "idle" /\ \E where \in {"done", "calling"} : pc' = [pc EXCEPT ![c] = where]
    BY <1>1 DEF LookUp, Goes
  <2>3. \A k \in Clients : pc'[k] = "idle" => pc[k] = "idle"  BY <1>0, <2>2
  <2> QED BY <2>1, <2>3, OwnersRest
<1>2. ASSUME NEW t \in Threads, ThreadStep(t) \/ Expire(t) PROVE OwnerInv'
  <2>1. UNCHANGED <<serverVars, sessionVars>>
    BY <1>2 DEF ThreadStep, Register, LockToWrite, WriteBody, WriteNewline, WriteFails, TakeReply,
       GiveUp, SeeEnd, AbandonWaiter, Expire
  <2>2. pc' = pc \/ \E where : where # "idle" /\ pc' = [pc EXCEPT ![t] = where]
    <3>1. \A ok \in BOOLEAN : AfterCall(t, ok) # "idle"  BY AfterCallTypes
    <3>2. CASE TakeReply(t)
      <4>1. PICK reply \in inbox[conn[t]] : Goes(t, "waiting", AfterCall(t, reply.ok))
        BY <3>2 DEF TakeReply
      <4>2. AfterCall(t, reply.ok) # "idle"  BY DEF AfterCall
      <4> QED BY <4>1, <4>2 DEF Goes
    <3>3. CASE AbandonWaiter(t)  BY <3>1, <3>3 DEF AbandonWaiter, Goes
    <3> QED BY <1>2, <3>2, <3>3 DEF ThreadStep, Register, LockToWrite, WriteBody, WriteNewline,
               WriteFails, GiveUp, SeeEnd, Expire, Goes
  <2>3. \A k \in Clients : pc'[k] = "idle" => pc[k] = "idle"  BY <1>0, <2>2
  <2> QED BY <2>1, <2>3, OwnersRest
<1>3. ASSUME NEW k \in Clients,
             ReaderStep(k) \/ ServerReads(k) \/ ServerReplies(k) \/ ServerRepeats(k) \/ ServerChatters(k)
      PROVE  OwnerInv'
  <2>1. UNCHANGED <<server, threadVars, sessionVars>>
    BY <1>3 DEF ReaderStep, ReadLine, Deliver, Hand, SeeEndOfOutput, EndReader, ServerReads,
       ServerReplies, ServerRepeats, ServerChatters, UNCHANGEDClient
  <2> QED BY <2>1, OwnersRest
<1>4. ASSUME NEW k \in Clients, ServerExits(k) PROVE OwnerInv'
  <2>1. /\ server[k] = "up" /\ server' = [server EXCEPT ![k] = "exited"]
        /\ UNCHANGED <<pc, clients, locked, phase, doomed, closing>>
    BY <1>4 DEF ServerExits, Serving
  <2> QED BY <1>0, <2>1, OwnersOutlive
<1>5. ASSUME NEW b \in Batches, Resume(b) \/ StartServer(b) \/ StartFails(b) \/ Install(b)
      PROVE  OwnerInv'
  BY <1>0, <1>5, OwnersChange
<1>6. ASSUME NEW a \in Batches \cup {"close"}, CloseStreams(a) PROVE OwnerInv'
  <2>1. UNCHANGED <<server, threadVars, sessionVars>>  BY <1>6 DEF CloseStreams
  <2> QED BY <2>1, OwnersRest
<1>7. ASSUME NEW a \in Batches \cup {"close"}, FinishClose(a) PROVE OwnerInv'
  <2>1. PICK k \in doomed[a] : /\ server' = [server EXCEPT ![k] = "reaped"]
                               /\ doomed' = [doomed EXCEPT ![a] = @ \ {k}]
    BY <1>7 DEF FinishClose
  <2>2. UNCHANGED <<pc, clients, locked, phase, closing>>  BY <1>7 DEF FinishClose
  <2>3. k \in Clients /\ server[k] # "unstarted"  BY <1>0 DEF OwnerInv
  <2>4. \A j \in Clients : (server'[j] = "unstarted" <=> server[j] = "unstarted")
                           /\ (server[j] = "reaped" => server'[j] = "reaped")
        /\ server'[k] = "reaped"
    BY <1>0, <2>1, <2>3
  <2>5. /\ DOMAIN doomed' = Batches \cup {"close"}
        /\ \A d \in Batches \cup {"close"} : doomed'[d] = doomed[d] \/ doomed'[d] = doomed[d] \ {k}
    BY <1>0, <2>1
  <2> QED BY <1>0, <2>2, <2>4, <2>5, OwnersOutlive
<1>8. CASE CloseSession
  <2>1. /\ UNCHANGED <<server, pc, clients, phase>> /\ ~closing /\ ~locked /\ closing' /\ locked'
        /\ doomed' = [doomed EXCEPT !["close"] = IF clients = None THEN {} ELSE Started(clients)]
    BY <1>8 DEF CloseSession
  <2>2. \A d \in Batches : /\ Started(d)' = Started(d)
                           /\ \A k \in Started(d) : server[k] # "unstarted"
    BY <2>1 DEF Started
  <2> HIDE DEF Started
  <2>3. /\ DOMAIN doomed' = DOMAIN doomed /\ doomed["close"] = {}
        /\ doomed'["close"] = IF clients = None THEN {} ELSE Started(clients)
        /\ \A b \in Batches : doomed'[b] = doomed[b]
    BY <1>0, <2>1 DEF OwnerInv
  <2>4. clients \in Batches \cup {None}  BY <1>0 DEF TypeOK
  <2>5. \A a \in Batches \cup {"close"} : \A k \in doomed'[a] : server'[k] # "unstarted"
    BY <1>0, <2>1, <2>2, <2>3, <2>4 DEF OwnerInv
  <2>6. ServersHaveAnOwner'
    BY <1>0, <2>1, <2>2, <2>3 DEF OwnerInv, ServersHaveAnOwner
  <2> QED BY <1>0, <2>1, <2>2, <2>3, <2>5, <2>6 DEF OwnerInv
<1>9. CASE SessionClosed
  <2>1. /\ UNCHANGED <<server, pc, phase, doomed, closing>> /\ locked /\ ~locked' /\ clients' = None
        /\ doomed["close"] = {}
    BY <1>9 DEF SessionClosed
  <2>2. \A d \in Batches : Started(d)' = Started(d)  BY <2>1 DEF Started
  <2> HIDE DEF Started
  <2>3. \A b \in Batches : clients = b => \A k \in Started(b) : server[k] = "reaped"
    BY <2>1 DEF OwnerInv
  <2>4. ServersHaveAnOwner'
    BY <1>0, <2>1, <2>2, <2>3 DEF OwnerInv, ServersHaveAnOwner
  <2> QED BY <1>0, <2>1, <2>2, <2>4 DEF OwnerInv
<1> QED BY <1>1, <1>2, <1>3, <1>4, <1>5, <1>6, <1>7, <1>8, <1>9 DEF Next

-----------------------------------------------------------------------------
(* Servers in use are ready.                                               *)

\* A step that moves threads on, none of them out of "ready" or back to "idle",
\* and gives nobody another client.
LEMMA UseRests ==
  ASSUME ClientInv, UNCHANGED <<conn, clients>>,
         \A u \in Threads : \/ pc'[u] = pc[u]
                            \/ pc[u] # "ready" /\ pc'[u] # "idle" /\ pc[u] \in Active
                            \/ u \in Clients /\ pc[u] # "ready" /\ pc'[u] # "idle"
  PROVE  UseInv'
<1>0. UseInv /\ clients \in Batches \cup {None} /\ Clients \subseteq Threads
      /\ \A b \in Batches : \A k \in Range(ServersOf[b]) : k \in Clients
  BY McpAssumption DEF ClientInv, TypeOK, Threads, Range
<1>1. clients' # None => \A k \in Range(ServersOf[clients']) : pc'[k] = "ready"
  BY <1>0 DEF UseInv
<1>2. ASSUME NEW t \in Threads, pc'[t] \in Active PROVE pc'[conn'[t]] # "idle"
  <2>1. pc[t] \in Active => conn[t] \in Threads /\ pc[conn[t]] # "idle"
    BY <1>0 DEF UseInv, ClientInv, ThreadInv
  <2>2. CASE pc[t] \in Active  BY <2>1, <2>2
  <2>3. CASE pc[t] \notin Active
    <3>1. pc'[t] # "idle"  BY <1>2 DEF Active, InCall, Sending, Writing
    <3>2. t \in Clients /\ conn'[t] = t  BY <1>2, <2>3 DEF ClientInv, ThreadInv
    <3> QED BY <3>1, <3>2
  <2> QED BY <2>2, <2>3
<1> QED BY <1>1, <1>2 DEF UseInv

\* Every step leaves the servers in use ready.
LEMMA StepKeepsUse ==
  ASSUME ClientInv, Next
  PROVE  UseInv'
<1> USE DEF serverVars, readerVars, threadVars, sessionVars
<1>0. /\ UseInv /\ Clients \subseteq Threads /\ Calls \subseteq Threads /\ Calls \cap Clients = {}
      /\ None \notin Batches /\ clients \in Batches \cup {None}
      /\ conn \in [Threads -> Clients \cup {None}]
      /\ pc \in [Threads -> {"idle", "calling", "sending", "body", "newline", "waiting",
                             "abandoning", "done", "failed", "ready"}]
      /\ \A b \in Batches : \A k \in Range(ServersOf[b]) : k \in Clients
  BY McpAssumption DEF ClientInv, TypeOK, Threads, Range
<1>1. ASSUME NEW c \in Calls, LookUp(c) PROVE UseInv'
  <2>1. UNCHANGED clients /\ pc[c] = "idle" /\ \E where \in {"done", "calling"} : pc' = [pc EXCEPT ![c] = where]
    BY <1>1 DEF LookUp, Goes
  <2>2. \A u \in Threads \ {c} : pc'[u] = pc[u]  BY <1>0, <2>1
  <2>3. \/ pc'[c] = "done" /\ conn' = conn
        \/ /\ clients # None
           /\ \E k \in Range(ServersOf[clients]) : conn' = [conn EXCEPT ![c] = k]
    BY <1>0, <1>1 DEF LookUp, Goes
  <2>4. clients' # None => \A k \in Range(ServersOf[clients']) : pc'[k] = "ready"
    BY <1>0, <2>1, <2>2 DEF UseInv
  <2>5. ASSUME NEW t \in Threads \ {c}, pc'[t] \in Active PROVE pc'[conn'[t]] # "idle"
    <3>1. pc[t] \in Active /\ conn'[t] = conn[t]  BY <1>0, <2>2, <2>3, <2>5
    <3>2. conn[t] \in Clients /\ pc[conn[t]] # "idle"
      BY <3>1 DEF UseInv, ClientInv, ThreadInv
    <3> QED BY <1>0, <2>2, <3>1, <3>2
  <2>6. pc'[c] \in Active => pc'[conn'[c]] # "idle"
    <3>1. pc'[c] \in Active => pc'[c] # "done"  BY DEF Active, InCall, Sending, Writing
    <3>2. ASSUME clients # None, NEW k \in Range(ServersOf[clients]), conn' = [conn EXCEPT ![c] = k]
          PROVE  pc'[conn'[c]] # "idle"
      <4>1. pc[k] = "ready" /\ k \in Clients /\ conn'[c] = k  BY <1>0, <3>2 DEF UseInv
      <4> QED BY <1>0, <2>2, <4>1
    <3> QED BY <2>3, <3>1, <3>2
  <2> QED BY <2>4, <2>5, <2>6 DEF UseInv
<1>2. ASSUME NEW t \in Threads, ThreadStep(t) \/ Expire(t) PROVE UseInv'
  <2>1. UNCHANGED <<conn, clients>>
    BY <1>2 DEF ThreadStep, Register, LockToWrite, WriteBody, WriteNewline, WriteFails, TakeReply,
       GiveUp, SeeEnd, AbandonWaiter, Expire
  <2>2. pc' = pc \/ (pc[t] \in Active /\ \E where : where # "idle" /\ pc' = [pc EXCEPT ![t] = where])
    <3> USE DEF Active, InCall, Sending, Writing
    <3>1. \A ok \in BOOLEAN : AfterCall(t, ok) # "idle"  BY AfterCallTypes
    <3>2. CASE TakeReply(t)
      <4>1. PICK reply \in inbox[conn[t]] : Goes(t, "waiting", AfterCall(t, reply.ok))
        BY <3>2 DEF TakeReply
      <4>2. AfterCall(t, reply.ok) # "idle"  BY DEF AfterCall
      <4> QED BY <4>1, <4>2 DEF Goes
    <3>3. CASE AbandonWaiter(t)  BY <3>1, <3>3 DEF AbandonWaiter, Goes
    <3> QED BY <1>2, <3>2, <3>3 DEF ThreadStep, Register, LockToWrite, WriteBody, WriteNewline,
               WriteFails, GiveUp, SeeEnd, Expire, Goes
  <2>3. pc[t] \in Active => pc[t] # "ready"  BY DEF Active, InCall, Sending, Writing
  <2> HIDE DEF Active
  <2> QED BY <1>0, <2>1, <2>2, <2>3, UseRests
<1>3. ASSUME NEW k \in Clients,
             \/ ReaderStep(k) \/ ServerReads(k) \/ ServerReplies(k) \/ ServerRepeats(k)
             \/ ServerChatters(k) \/ ServerExits(k)
      PROVE  UseInv'
  <2>1. UNCHANGED <<pc, conn, clients>>
    BY <1>3 DEF ReaderStep, ReadLine, Deliver, Hand, SeeEndOfOutput, EndReader, ServerReads,
       ServerReplies, ServerRepeats, ServerChatters, ServerExits, UNCHANGEDClient
  <2> QED BY <2>1, UseRests
<1>4. ASSUME NEW b \in Batches, StartServer(b) PROVE UseInv'
  <2>1. PICK k \in Clients : Goes(k, "idle", "calling")  BY <1>4 DEF StartServer
  <2>2. UNCHANGED <<conn, clients>>  BY <1>4 DEF StartServer
  <2> QED BY <1>0, <2>1, <2>2, UseRests DEF Goes
<1>5. ASSUME NEW b \in Batches, Install(b) PROVE UseInv'
  <2>1. UNCHANGED <<pc, conn>> /\ clients' = b /\ \A k \in Range(ServersOf[b]) : pc[k] = "ready"
    BY <1>5 DEF Install, Ready
  <2> QED BY <1>0, <2>1 DEF UseInv
<1>6. ASSUME \/ \E b \in Batches : Resume(b) \/ StartFails(b)
             \/ \E a \in Batches \cup {"close"} : CloseStreams(a) \/ FinishClose(a)
             \/ CloseSession
      PROVE  UseInv'
  <2>1. UNCHANGED <<pc, conn, clients>>
    BY <1>6 DEF Resume, StartFails, CloseStreams, FinishClose, CloseSession
  <2> QED BY <2>1, UseRests
<1>7. CASE SessionClosed
  <2>1. UNCHANGED <<pc, conn>> /\ clients' = None  BY <1>7 DEF SessionClosed
  <2> QED BY <1>0, <2>1 DEF UseInv
<1> QED BY <1>1, <1>2, <1>3, <1>4, <1>5, <1>6, <1>7 DEF Next

-----------------------------------------------------------------------------
(* Lines on the server's input.                                            *)

\* What is read moves from one side to the other.
LEMMA ReadParts ==
  ASSUME NEW T, NEW read \in Seq(T), NEW pipe \in Seq(T)
  PROVE  /\ read \o pipe \in Seq(T)
         /\ pipe # <<>> => /\ Append(read, Head(pipe)) \o Tail(pipe) = read \o pipe
                         /\ read \o pipe # <<>>
         /\ pipe = <<>> /\ read = <<>> => read \o pipe = <<>>
         /\ <<>> \o pipe = pipe
<1>1. read \o pipe \in Seq(T) /\ <<>> \o pipe = pipe /\ (pipe # <<>> => read \o pipe # <<>>)
      /\ (pipe = <<>> /\ read = <<>> => read \o pipe = <<>>)
  BY ConcatEmptySeq, ConcatEqualIffEmpty
<1>3. ASSUME pipe # <<>> PROVE Append(read, Head(pipe)) \o Tail(pipe) = read \o pipe
  <2>1. Head(pipe) \in T /\ Tail(pipe) \in Seq(T) /\ <<Head(pipe)>> \in Seq(T)
    BY <1>3, HeadTailProperties
  <2>2. Append(read, Head(pipe)) = read \o <<Head(pipe)>>  BY <2>1, AppendIsConcat
  <2>3. pipe = <<Head(pipe)>> \o Tail(pipe)
    <3> DEFINE q == <<Head(pipe)>> \o Tail(pipe)
    <3>1. q \in Seq(T) /\ Len(q) = 1 + Len(Tail(pipe))
          /\ \A i \in 1..(1 + Len(Tail(pipe))) : q[i] = IF i <= 1 THEN <<Head(pipe)>>[i] ELSE Tail(pipe)[i - 1]
      BY <2>1, ConcatProperties
    <3>2. Len(Tail(pipe)) = Len(pipe) - 1 /\ Len(pipe) \in Nat /\ pipe[1] = Head(pipe)
          /\ \A i \in 1..Len(Tail(pipe)) : Tail(pipe)[i] = pipe[i + 1]
      BY <1>3, HeadTailProperties
    <3> HIDE DEF q
    <3>3. ASSUME NEW i \in 1..Len(pipe) PROVE pipe[i] = q[i]
      <4>1. CASE i = 1  BY <3>1, <3>2, <4>1
      <4>2. CASE i > 1
        <5>1. i - 1 \in 1..Len(Tail(pipe)) /\ (i - 1) + 1 = i /\ i \in 1..(1 + Len(Tail(pipe))) /\ ~(i <= 1)
          BY <3>2, <4>2
        <5>2. q[i] = Tail(pipe)[i - 1]  BY <3>1, <5>1
        <5>3. Tail(pipe)[i - 1] = pipe[(i - 1) + 1]  BY <3>2, <5>1
        <5> QED BY <5>1, <5>2, <5>3
      <4> QED BY <3>2, <4>1, <4>2
    <3>4. Len(q) = Len(pipe)  BY <3>1, <3>2
    <3>5. pipe = q  BY <3>1, <3>3, <3>4, SeqEqual
    <3> QED BY <3>5 DEF q
  <2>4. (read \o <<Head(pipe)>>) \o Tail(pipe) = read \o (<<Head(pipe)>> \o Tail(pipe))
    BY <2>1, ConcatAssociative
  <2> QED BY <2>2, <2>3, <2>4
<1> QED BY <1>1, <1>3

\* What is written comes last.
LEMMA WrittenLast ==
  ASSUME NEW read \in Seq(Parts), NEW pipe \in Seq(Parts), NEW m \in Parts
  PROVE  read \o (pipe \o <<m>>) = (read \o pipe) \o <<m>> /\ read \o pipe \in Seq(Parts)
<1> HIDE DEF Parts
<1>1. <<m>> \in Seq(Parts)  OBVIOUS
<1> QED BY <1>1, ConcatAssociative, ConcatProperties

\* The rest of a whole input is whole, and ends as it did.
LEMMA WholeRest ==
  ASSUME NEW read \in Seq(Parts), NEW pipe \in Seq(Parts), pipe # <<>>, Whole(read \o pipe)
  PROVE  /\ Whole(Tail(pipe))
         /\ Tail(pipe) # <<>> => LastOf(Tail(pipe)) = LastOf(read \o pipe)
         /\ Tail(pipe) = <<>> => LastOf(read \o pipe) = Head(pipe)
<1> DEFINE n == Len(read) + 1
<1> HIDE DEF Parts
<1>1. /\ Len(read) \in Nat /\ Len(pipe) \in Nat /\ Len(pipe) > 0 /\ Len(Tail(pipe)) = Len(pipe) - 1
      /\ Len(read \o pipe) = Len(read) + Len(pipe)
      /\ \A i \in 1..Len(Tail(pipe)) : Tail(pipe)[i] = (read \o pipe)[n + i] /\ n + i \in 1..Len(read \o pipe)
      /\ Head(pipe) = (read \o pipe)[n]
      /\ Tail(pipe) = <<>> => Len(pipe) = 1
  <2>1. /\ Len(read) \in Nat /\ Len(pipe) \in Nat /\ Len(pipe) > 0 /\ Len(Tail(pipe)) = Len(pipe) - 1
        /\ Head(pipe) = pipe[1] /\ \A i \in 1..Len(Tail(pipe)) : Tail(pipe)[i] = pipe[i + 1]
    BY HeadTailProperties
  <2>2. /\ Len(read \o pipe) = Len(read) + Len(pipe)
        /\ \A i \in 1..Len(read) + Len(pipe) :
             (read \o pipe)[i] = IF i <= Len(read) THEN read[i] ELSE pipe[i - Len(read)]
    BY ConcatProperties
  <2>3. ASSUME NEW i \in 1..Len(Tail(pipe))
        PROVE  Tail(pipe)[i] = (read \o pipe)[n + i] /\ n + i \in 1..Len(read \o pipe)
    <3>1. n + i \in 1..Len(read) + Len(pipe) /\ ~(n + i <= Len(read)) /\ (n + i) - Len(read) = i + 1
      BY <2>1
    <3>2. (read \o pipe)[n + i] = pipe[i + 1]  BY <2>2, <3>1
    <3> QED BY <2>1, <2>2, <3>1, <3>2
  <2>4. Head(pipe) = (read \o pipe)[n]
    <3>1. n \in 1..Len(read) + Len(pipe) /\ ~(n <= Len(read)) /\ n - Len(read) = 1  BY <2>1
    <3> QED BY <2>1, <2>2, <3>1
  <2>5. Tail(pipe) = <<>> => Len(pipe) = 1
    <3>0. Len(<<>>) = 0  BY EmptySeq
    <3>1. Tail(pipe) = <<>> => Len(Tail(pipe)) = 0  BY <3>0, Zenon
    <3> QED BY <2>1, <3>1
  <2> QED BY <2>1, <2>2, <2>3, <2>4, <2>5
<1>2. Whole(Tail(pipe))
  <2> SUFFICES ASSUME NEW i \in 1..Len(Tail(pipe))
               PROVE  IF Tail(pipe)[i].newline
                      THEN i > 1 => Tail(pipe)[i - 1] = [Tail(pipe)[i] EXCEPT !.newline = FALSE]
                      ELSE i > 1 => Tail(pipe)[i - 1].newline
    BY DEF Whole
  <2>1. n + i \in 1..Len(read \o pipe) /\ n + i > 1 /\ Tail(pipe)[i] = (read \o pipe)[n + i]  BY <1>1
  <2>2. i > 1 => Tail(pipe)[i - 1] = (read \o pipe)[(n + i) - 1]
    <3> SUFFICES ASSUME i > 1 PROVE Tail(pipe)[i - 1] = (read \o pipe)[(n + i) - 1]
      OBVIOUS
    <3>1. i - 1 \in 1..Len(Tail(pipe)) /\ n + (i - 1) = (n + i) - 1  BY <1>1
    <3>2. Tail(pipe)[i - 1] = (read \o pipe)[n + (i - 1)]  BY <1>1, <3>1
    <3> QED BY <3>1, <3>2
  <2> HIDE DEF n
  <2> QED BY <2>1, <2>2 DEF Whole
<1>3. Tail(pipe) # <<>> => LastOf(Tail(pipe)) = LastOf(read \o pipe)
  <2> SUFFICES ASSUME Tail(pipe) # <<>> PROVE LastOf(Tail(pipe)) = LastOf(read \o pipe)
    OBVIOUS
  <2>0. Len(Tail(pipe)) > 0  BY HeadTailProperties, EmptySeq
  <2>1. Len(Tail(pipe)) \in 1..Len(Tail(pipe)) /\ n + Len(Tail(pipe)) = Len(read \o pipe)  BY <1>1, <2>0
  <2>2. Tail(pipe)[Len(Tail(pipe))] = (read \o pipe)[n + Len(Tail(pipe))]  BY <1>1, <2>1
  <2> QED BY <2>1, <2>2 DEF LastOf
<1>4. Tail(pipe) = <<>> => LastOf(read \o pipe) = Head(pipe)
  <2>1. Tail(pipe) = <<>> => n = Len(read \o pipe)  BY <1>1
  <2> QED BY <1>1, <2>1 DEF LastOf
<1> QED BY <1>2, <1>3, <1>4

\* The body that a newline ends.
LEMMA BodyOf ==
  ASSUME NEW p \in Parts, NEW q \in Parts, p.request = q.request, p.newline = FALSE
  PROVE  p = [q EXCEPT !.newline = FALSE]
  BY DEF Parts

\* A whole input stays whole when what is written goes with what was last.
LEMMA WholeMore ==
  ASSUME NEW s \in Seq(Parts), Whole(s), NEW m \in Parts,
         s # <<>> => IF m.newline THEN LastOf(s) = [m EXCEPT !.newline = FALSE] ELSE LastOf(s).newline
  PROVE  Whole(s \o <<m>>) /\ LastOf(s \o <<m>>) = m /\ s \o <<m>> # <<>>
<1> DEFINE more == s \o <<m>>
<1> HIDE DEF Parts
<1>1. /\ Len(s) \in Nat /\ Len(more) = Len(s) + 1 /\ more[Len(s) + 1] = m
      /\ \A i \in 1..Len(s) : more[i] = s[i]
      /\ more # <<>> /\ (Len(s) > 0 => s # <<>>)
  <2>1. <<m>> \in Seq(Parts) /\ Len(<<m>>) = 1 /\ <<m>>[1] = m  OBVIOUS
  <2>2. Len(more) = Len(s) + 1 /\ more # <<>>
    BY <2>1, ConcatProperties, ConcatEqualIffEmpty
  <2>3. \A i \in 1..Len(s) + 1 : more[i] = IF i <= Len(s) THEN s[i] ELSE <<m>>[i - Len(s)]
    BY <2>1, ConcatProperties
  <2>4. Len(s) \in Nat /\ (Len(s) > 0 => s # <<>>)  BY EmptySeq, LenProperties
  <2> HIDE DEF more
  <2>5. more[Len(s) + 1] = m
    <3>1. Len(s) + 1 \in 1..Len(s) + 1 /\ ~(Len(s) + 1 <= Len(s)) /\ (Len(s) + 1) - Len(s) = 1  BY <2>4
    <3> QED BY <2>1, <2>3, <3>1
  <2>6. \A i \in 1..Len(s) : more[i] = s[i]  BY <2>3, <2>4
  <2> QED BY <2>2, <2>4, <2>5, <2>6
<1> HIDE DEF more
<1>2. ASSUME NEW i \in 1..Len(more)
      PROVE  IF more[i].newline
             THEN i > 1 => more[i - 1] = [more[i] EXCEPT !.newline = FALSE]
             ELSE i > 1 => more[i - 1].newline
  <2>1. CASE i \in 1..Len(s)
    <3>1. more[i] = s[i] /\ (i > 1 => more[i - 1] = s[i - 1])  BY <1>1, <2>1
    <3> QED BY <2>1, <3>1 DEF Whole
  <2>2. CASE i = Len(s) + 1
    <3>1. i > 1 => s # <<>> /\ more[i - 1] = LastOf(s)  BY <1>1, <2>2 DEF LastOf
    <3>2. more[i] = m  BY <1>1, <2>2
    <3> QED BY <3>1, <3>2
  <2>3. i \in 1..Len(s) \/ i = Len(s) + 1  BY <1>1
  <2> QED BY <2>1, <2>2, <2>3
<1>3. Whole(more) /\ LastOf(more) = m /\ more # <<>>  BY <1>1, <1>2 DEF Whole, LastOf
<1> QED BY <1>3 DEF more

\* A client whose server's input is as it was, and so is what its writer is about.
LEMMA InputRests ==
  ASSUME ClientInv, NEW k \in Clients, stdin'[k] = stdin[k], unread'[k] = unread[k],
         Serving(k)' = Serving(k),
         \/ /\ mu'[k] = mu[k]
            /\ mu[k] # None => request'[mu[k]] = request[mu[k]] /\ pc'[mu[k]] = pc[mu[k]]
         \/ /\ mu[k] # None => pc[mu[k]] # "newline"
            /\ mu'[k] # None => pc'[mu'[k]] # "newline"
  PROVE  InputInv(k)'
<1>1. InputInv(k) /\ Sent(k)' = Sent(k)  BY DEF ClientInv, Sent
<1> HIDE DEF Sent, Serving, Whole, LastOf
<1> QED BY <1>1 DEF InputInv

\* A client whose server reads nothing any more.
LEMMA InputGone ==
  ASSUME NEW k \in Clients, ~Serving(k)', stdin'[k] = <<>>, unread'[k] = <<>>
  PROVE  InputInv(k)'
<1>1. Sent(k)' = <<>>  BY DEF Sent
<1>2. Whole(<<>>)  BY DEF Whole
<1> HIDE DEF Sent, Serving, Whole, LastOf
<1> QED BY <1>1, <1>2 DEF InputInv

\* The writer of a client's request, who holds the mutex, is alone with its input.
LEMMA ThreadKeepsInput ==
  ASSUME ClientInv, NEW t \in Threads, ThreadStep(t) \/ Expire(t), NEW k \in Clients
  PROVE  InputInv(k)'
<1> USE DEF Goes, pipes, serverVars, readerVars, sessionVars
<1>0. /\ ThreadInv(t) /\ None \notin Threads /\ MutexInv(k) /\ InputInv(k)
      /\ pc \in [Threads -> {"idle", "calling", "sending", "body", "newline", "waiting",
                             "abandoning", "done", "failed", "ready"}]
      /\ request \in [Threads -> Requests \cup {None}]
      /\ mu \in [Clients -> Threads \cup {None}]
      /\ stdin \in [Clients -> Seq(Parts)] /\ unread \in [Clients -> Seq(Parts)]
  BY McpAssumption DEF ClientInv, TypeOK, Threads
<1>1. /\ pc[t] \in Writing => conn[t] \in Clients /\ request[t] \in Requests /\ mu[conn[t]] = t
      /\ mu[k] = t => conn[t] = k /\ pc[t] \in Writing
  BY <1>0 DEF ThreadInv, MutexInv, Active, InCall, Sending
<1> HIDE DEF Requests, Parts
<1>2. CASE Register(t) \/ TakeReply(t) \/ GiveUp(t) \/ SeeEnd(t) \/ AbandonWaiter(t) \/ Expire(t)
  <2>1. UNCHANGED <<mu, stdin, unread, server, streams>>
    BY <1>2 DEF Register, TakeReply, GiveUp, SeeEnd, AbandonWaiter, Expire
  <2>2. Serving(k)' = Serving(k)  BY <2>1 DEF Serving
  <2>3. \A u \in Threads \ {t} : pc'[u] = pc[u] /\ request'[u] = request[u]
    BY <1>0, <1>2 DEF Register, TakeReply, GiveUp, SeeEnd, AbandonWaiter, Expire
  <2>4. CASE Expire(t)
    <3>1. UNCHANGED <<pc, request>>  BY <2>4 DEF Expire
    <3> QED BY <2>1, <2>2, <3>1, InputRests
  <2>5. CASE ~Expire(t)
    <3>1. pc[t] \notin Writing
      BY <1>2, <2>5 DEF Register, TakeReply, GiveUp, SeeEnd, AbandonWaiter, Writing
    <3>2. mu[k] # None => mu[k] \in Threads \ {t}  BY <1>0, <1>1, <3>1
    <3> QED BY <2>1, <2>2, <2>3, <3>2, InputRests
  <2> QED BY <2>4, <2>5
<1>3. CASE LockToWrite(t)
  <2>1. /\ pc[t] = "sending" /\ pc' = [pc EXCEPT ![t] = "body"] /\ mu[conn[t]] = None
        /\ mu' = [mu EXCEPT ![conn[t]] = t]
        /\ UNCHANGED <<stdin, unread, server, streams, request>>
    BY <1>3 DEF LockToWrite
  <2>2. Serving(k)' = Serving(k)  BY <2>1 DEF Serving
  <2>3. CASE k = conn[t]
    BY <1>0, <2>1, <2>2, <2>3, InputRests
  <2>4. CASE k # conn[t]
    <3>1. mu'[k] = mu[k] /\ mu[k] # t  BY <1>0, <1>1, <2>1, <2>4 DEF Writing
    <3> QED BY <1>0, <2>1, <2>2, <3>1, InputRests
  <2> QED BY <2>3, <2>4
<1>4. CASE WriteBody(t) \/ WriteNewline(t)
  <2>1. PICK newline \in BOOLEAN :
          /\ CanWrite(conn[t]) /\ Writes(t, newline)
          /\ UNCHANGED <<unread, server, streams>>
          /\ IF newline THEN /\ pc[t] = "newline" /\ mu' = [mu EXCEPT ![conn[t]] = None]
                         ELSE /\ pc[t] = "body" /\ mu' = mu /\ request' = request
                              /\ pc' = [pc EXCEPT ![t] = "newline"]
          /\ \A u \in Threads \ {t} : pc'[u] = pc[u] /\ request'[u] = request[u]
    BY <1>0, <1>4 DEF WriteBody, WriteNewline
  <2>2. conn[t] \in Clients /\ request[t] \in Requests /\ mu[conn[t]] = t
    BY <1>1, <2>1 DEF Writing
  <2> DEFINE m == [request |-> request[t], newline |-> newline]
  <2>3. m \in Parts /\ m.newline = newline /\ m.request = request[t]
        /\ [m EXCEPT !.newline = FALSE] = [request |-> request[t], newline |-> FALSE]
    <3>1. m \in Parts  BY <2>2, Zenon DEF Parts
    <3>2. m.newline = newline /\ m.request = request[t]  OBVIOUS
    <3>3. [m EXCEPT !.newline = FALSE] = [request |-> request[t], newline |-> FALSE]
      <4>1. [request |-> request[t], newline |-> FALSE] \in Parts  BY <2>2, Zenon DEF Parts
      <4> HIDE DEF m
      <4> QED BY <3>1, <3>2, <4>1, BodyOf
    <3> QED BY <3>1, <3>2, <3>3
  <2>4. stdin' = [stdin EXCEPT ![conn[t]] = Append(@, m)]  BY <2>1 DEF Writes
  <2> HIDE DEF m
  <2>5. CASE k = conn[t]
    <3>1. stdin'[k] = Append(stdin[k], m) /\ unread'[k] = unread[k]  BY <1>0, <2>1, <2>4, <2>5
    <3>2. Sent(k)' = Sent(k) \o <<m>> /\ Sent(k) \in Seq(Parts)
      <4>1. unread[k] \in Seq(Parts) /\ stdin[k] \in Seq(Parts)  BY <1>0
      <4>2. stdin'[k] = stdin[k] \o <<m>>  BY <2>3, <3>1, <4>1, AppendIsConcat
      <4>3. /\ unread[k] \o (stdin[k] \o <<m>>) = (unread[k] \o stdin[k]) \o <<m>>
            /\ unread[k] \o stdin[k] \in Seq(Parts)
        <5>1. m \in Parts  BY <2>3
        <5> QED BY <4>1, <5>1, WrittenLast
      <4> QED BY <3>1, <4>2, <4>3 DEF Sent
    <3>3. Serving(k) /\ Serving(k)'  BY <2>1, <2>5 DEF CanWrite, Serving
    <3>4. Sent(k) # <<>> => IF m.newline THEN LastOf(Sent(k)) = [m EXCEPT !.newline = FALSE]
                                         ELSE LastOf(Sent(k)).newline
      <4> HIDE DEF Sent, LastOf, Serving
      <4>1. Sent(k) # <<>> /\ ~LastOf(Sent(k)).newline => pc[mu[k]] = "newline" /\ mu[k] # None
        BY <1>0 DEF InputInv
      <4>2. pc[mu[k]] = "newline" /\ mu[k] # None =>
              LastOf(Sent(k)) = [request |-> request[mu[k]], newline |-> FALSE]
        BY <1>0, <3>3 DEF InputInv
      <4>3. mu[k] = t /\ pc[t] = IF newline THEN "newline" ELSE "body"  BY <2>1, <2>2, <2>5
      <4>4. mu[k] # None  BY <1>0, <2>5, <4>3, McpAssumption DEF Threads
      <4> QED BY <2>1, <2>3, <4>1, <4>2, <4>3, <4>4
    <3>5. Whole(Sent(k)') /\ LastOf(Sent(k)') = m /\ Sent(k)' # <<>>
      <4>1. Whole(Sent(k))  BY <1>0 DEF InputInv
      <4> HIDE DEF Sent, LastOf, Whole
      <4> QED BY <2>3, <3>2, <3>4, <4>1, WholeMore
    <3>6. newline => mu'[k] = None  BY <1>0, <2>1, <2>5
    <3>7. ~newline => mu'[k] = t /\ pc'[t] = "newline" /\ request'[t] = request[t] /\ mu'[k] # None
                     /\ m = [request |-> request[t], newline |-> FALSE]
      <4>1. ~newline => mu'[k] = t /\ pc'[t] = "newline" /\ request'[t] = request[t] /\ mu'[k] # None
        BY <1>0, <2>1, <2>2, <2>5
      <4>2. ~newline => m = [request |-> request[t], newline |-> FALSE]
        <5>1. ~newline => newline = FALSE  OBVIOUS
        <5> QED BY <5>1, Zenon DEF m
      <4> QED BY <4>1, <4>2
    <3>8. Whole(Sent(k))' /\ LastOf(Sent(k))' = m  BY <3>5 DEF Whole, LastOf
    <3> HIDE DEF Sent, LastOf, Whole, Serving
    <3> QED BY <2>3, <3>3, <3>5, <3>6, <3>7, <3>8 DEF InputInv
  <2>6. CASE k # conn[t]
    <3>1. stdin'[k] = stdin[k] /\ mu'[k] = mu[k] /\ mu[k] # t  BY <1>0, <1>1, <2>1, <2>4, <2>6
    <3>2. Serving(k)' = Serving(k)  BY <2>1 DEF Serving
    <3> QED BY <1>0, <2>1, <3>1, <3>2, InputRests
  <2> QED BY <2>5, <2>6
<1>5. CASE WriteFails(t)
  <2>1. /\ pc[t] \in Writing /\ mu' = [mu EXCEPT ![conn[t]] = None] /\ ~Serving(conn[t])
        /\ UNCHANGED <<stdin, unread, server, streams, request>>
        /\ \A u \in Threads \ {t} : pc'[u] = pc[u]
    BY <1>0, <1>5 DEF WriteFails, Serving, Writing
  <2>2. Serving(k)' = Serving(k)  BY <2>1 DEF Serving
  <2>3. CASE k = conn[t]
    <3>1. ~Serving(k)' /\ stdin'[k] = <<>> /\ unread'[k] = <<>>
      BY <1>0, <2>1, <2>2, <2>3 DEF InputInv
    <3> QED BY <3>1, InputGone
  <2>4. CASE k # conn[t]
    <3>1. mu'[k] = mu[k] /\ mu[k] # t  BY <1>0, <1>1, <2>1, <2>4
    <3> QED BY <1>0, <2>1, <2>2, <3>1, InputRests
  <2> QED BY <2>3, <2>4
<1> QED BY <1>2, <1>3, <1>4, <1>5 DEF ThreadStep

\* Nobody but the server reads its input, and it reads part after part.
LEMMA StepKeepsInput ==
  ASSUME ClientInv, Next, NEW k \in Clients
  PROVE  InputInv(k)'
<1> USE DEF pipes, serverVars, readerVars, threadVars, sessionVars
<1>0. /\ MutexInv(k) /\ InputInv(k) /\ None \notin Threads /\ Clients \subseteq Threads
      /\ mu \in [Clients -> Threads \cup {None}]
      /\ pc \in [Threads -> {"idle", "calling", "sending", "body", "newline", "waiting",
                             "abandoning", "done", "failed", "ready"}]
      /\ request \in [Threads -> Requests \cup {None}]
      /\ stdin \in [Clients -> Seq(Parts)] /\ unread \in [Clients -> Seq(Parts)]
      /\ streams \in [Clients -> {"unopened", "open", "closed"}]
      /\ server \in [Clients -> {"unstarted", "up", "exited", "reaped"}]
  BY McpAssumption DEF ClientInv, TypeOK, Threads
<1> HIDE DEF Requests, Parts
<1>1. ASSUME NEW c \in Calls, LookUp(c) PROVE InputInv(k)'
  <2>1. UNCHANGED <<mu, stdin, unread, server, streams>> /\ pc[c] = "idle" /\ c \in Threads
    BY <1>1 DEF LookUp, Goes, Threads
  <2>2. \A u \in Threads \ {c} : pc'[u] = pc[u] /\ request'[u] = request[u]
    BY <1>0, <1>1 DEF LookUp, Goes
  <2>3. mu[k] # c  BY <1>0, <2>1 DEF MutexInv, Writing
  <2>4. Serving(k)' = Serving(k)  BY <2>1 DEF Serving
  <2> QED BY <1>0, <2>1, <2>2, <2>3, <2>4, InputRests
<1>2. ASSUME NEW j \in Clients, ReaderStep(j) \/ ServerReplies(j) \/ ServerRepeats(j) \/ ServerChatters(j)
      PROVE  InputInv(k)'
  <2>1. UNCHANGED <<mu, pc, request, stdin, unread, server, streams>>
    BY <1>2 DEF ReaderStep, ReadLine, Deliver, Hand, SeeEndOfOutput, EndReader, ServerReplies,
       ServerRepeats, ServerChatters, UNCHANGEDClient, Noisy
  <2>2. Serving(k)' = Serving(k)  BY <2>1 DEF Serving
  <2> QED BY <2>1, <2>2, InputRests
<1>3. ASSUME \/ \E b \in Batches : Resume(b) \/ StartFails(b) \/ Install(b)
             \/ CloseSession \/ SessionClosed
      PROVE  InputInv(k)'
  <2>1. UNCHANGED <<mu, pc, request, stdin, unread, server, streams>>
    BY <1>3 DEF Resume, StartFails, Install, CloseSession, SessionClosed
  <2>2. Serving(k)' = Serving(k)  BY <2>1 DEF Serving
  <2> QED BY <2>1, <2>2, InputRests
<1>4. ASSUME NEW j \in Clients, ServerReads(j) PROVE InputInv(k)'
  <2>1. /\ Serving(j) /\ stdin[j] # <<>>
        /\ stdin' = [stdin EXCEPT ![j] = Tail(@)]
        /\ unread' = [unread EXCEPT ![j] = IF Head(stdin[j]).newline THEN <<>> ELSE Append(@, Head(stdin[j]))]
        /\ UNCHANGED <<mu, pc, request, server, streams>>
    BY <1>4 DEF ServerReads, UNCHANGEDClient
  <2>2. Serving(k)' = Serving(k)  BY <2>1 DEF Serving
  <2>3. CASE j = k
    <3>1. unread[k] \in Seq(Parts) /\ stdin[k] \in Seq(Parts) /\ stdin[k] # <<>> /\ Tail(stdin[k]) \in Seq(Parts)
      BY <1>0, <2>1, <2>3
    <3>2. CASE ~Head(stdin[k]).newline
      <4>1. Sent(k)' = Sent(k)
        <5>1. stdin'[k] = Tail(stdin[k]) /\ unread'[k] = Append(unread[k], Head(stdin[k]))
          BY <1>0, <2>1, <2>3, <3>2
        <5>2. Append(unread[k], Head(stdin[k])) \o Tail(stdin[k]) = unread[k] \o stdin[k]
          <6>1. unread[k] \in Seq(Parts) /\ stdin[k] \in Seq(Parts) /\ stdin[k] # <<>>  BY <3>1
          <6>2. \A T : \A read, pipe \in Seq(T) :
                  pipe # <<>> => Append(read, Head(pipe)) \o Tail(pipe) = read \o pipe
            BY ReadParts
          <6> HIDE DEF Parts, Sent
          <6> QED BY <6>1, <6>2
        <5> QED BY <5>1, <5>2 DEF Sent
      <4>2. Whole(Sent(k))' /\ LastOf(Sent(k))' = LastOf(Sent(k))  BY <1>0, <4>1 DEF Whole, LastOf, InputInv
      <4> HIDE DEF Sent, LastOf, Whole, Serving
      <4> QED BY <1>0, <2>1, <2>2, <2>3, <4>1, <4>2 DEF InputInv
    <3>3. CASE Head(stdin[k]).newline
      <4>1. Sent(k)' = Tail(stdin[k])
        <5>1. stdin'[k] = Tail(stdin[k]) /\ unread'[k] = <<>>
          BY <1>0, <2>1, <2>3, <3>3
        <5> QED BY <3>1, <5>1, ReadParts DEF Sent
      <4>2. Whole(Sent(k)) /\ Sent(k) # <<>>
        BY <1>0, <3>1, ReadParts DEF InputInv, Sent
      <4>3. /\ Whole(Sent(k)')
            /\ Sent(k)' # <<>> => LastOf(Sent(k)') = LastOf(Sent(k))
            /\ Sent(k)' = <<>> => LastOf(Sent(k)) = Head(stdin[k])
        <5> HIDE DEF Whole, LastOf
        <5> QED BY <3>1, <4>1, <4>2, WholeRest DEF Sent
      <4>4. Whole(Sent(k))' /\ (Sent(k)' # <<>> => LastOf(Sent(k))' = LastOf(Sent(k)))
        BY <4>3 DEF Whole, LastOf
      <4>5. mu[k] # None /\ pc[mu[k]] = "newline" => ~LastOf(Sent(k)).newline
        <5> HIDE DEF Sent, LastOf, Serving
        <5> QED BY <1>0, <2>1, <2>3 DEF InputInv
      <4> HIDE DEF Sent, LastOf, Whole, Serving
      <4> QED BY <1>0, <2>1, <2>2, <2>3, <3>3, <4>2, <4>3, <4>4, <4>5 DEF InputInv
    <3> QED BY <3>2, <3>3
  <2>4. CASE j # k
    <3>1. stdin'[k] = stdin[k] /\ unread'[k] = unread[k]  BY <1>0, <2>1, <2>4
    <3> QED BY <2>1, <2>2, <3>1, InputRests
  <2> QED BY <2>3, <2>4
<1>5. ASSUME NEW j \in Clients, ServerExits(j) PROVE InputInv(k)'
  <2>1. /\ UNCHANGED <<mu, pc, request, streams>> /\ server' = [server EXCEPT ![j] = "exited"]
        /\ stdin' = [stdin EXCEPT ![j] = <<>>] /\ unread' = [unread EXCEPT ![j] = <<>>]
    BY <1>5 DEF ServerExits, Silence
  <2>2. CASE j = k
    <3>1. ~Serving(k)' /\ stdin'[k] = <<>> /\ unread'[k] = <<>>  BY <1>0, <2>1, <2>2 DEF Serving
    <3> QED BY <3>1, InputGone
  <2>3. CASE j # k
    <3>1. stdin'[k] = stdin[k] /\ unread'[k] = unread[k] /\ Serving(k)' = Serving(k)
      BY <1>0, <2>1, <2>3 DEF Serving
    <3> QED BY <2>1, <3>1, InputRests
  <2> QED BY <2>2, <2>3
<1>6. ASSUME NEW a \in Batches \cup {"close"}, CloseStreams(a) PROVE InputInv(k)'
  <2>1. PICK j \in doomed[a] :
          /\ streams' = [streams EXCEPT ![j] = "closed"]
          /\ stdin' = [stdin EXCEPT ![j] = <<>>] /\ unread' = [unread EXCEPT ![j] = <<>>]
    BY <1>6 DEF CloseStreams, Silence
  <2>2. UNCHANGED <<mu, pc, request, server>>  BY <1>6 DEF CloseStreams
  <2>3. CASE j = k
    <3>1. ~Serving(k)' /\ stdin'[k] = <<>> /\ unread'[k] = <<>>  BY <1>0, <2>1, <2>3 DEF Serving
    <3> QED BY <3>1, InputGone
  <2>4. CASE j # k
    <3>1. stdin'[k] = stdin[k] /\ unread'[k] = unread[k] /\ Serving(k)' = Serving(k)
      BY <1>0, <2>1, <2>2, <2>4 DEF Serving
    <3> QED BY <2>2, <3>1, InputRests
  <2> QED BY <2>3, <2>4
<1>7. ASSUME NEW a \in Batches \cup {"close"}, FinishClose(a) PROVE InputInv(k)'
  <2>1. PICK j \in doomed[a] : streams[j] = "closed" /\ server' = [server EXCEPT ![j] = "reaped"]
    BY <1>7 DEF FinishClose
  <2>2. UNCHANGED <<mu, pc, request, stdin, unread, streams>>  BY <1>7 DEF FinishClose
  <2>3. Serving(k)' = Serving(k)  BY <1>0, <2>1, <2>2 DEF Serving
  <2> QED BY <2>2, <2>3, InputRests
<1>8. ASSUME NEW b \in Batches, StartServer(b) PROVE InputInv(k)'
  <2>1. PICK j \in Clients : /\ Goes(j, "idle", "calling")
                             /\ server' = [server EXCEPT ![j] = "up"]
                             /\ streams' = [streams EXCEPT ![j] = "open"]
                             /\ request' = [request EXCEPT ![j] = Asks(j, "initialize")]
    BY <1>8 DEF StartServer
  <2>2. UNCHANGED <<mu, stdin, unread>>  BY <1>8 DEF StartServer
  <2>3. mu[k] # j /\ (mu[k] # None => conn[mu[k]] = k /\ pc[mu[k]] \in Active)
    BY <1>0, <2>1 DEF MutexInv, Goes, Writing, Active, InCall, Sending
  <2>4. CASE j = k
    <3>1. mu[k] = None
      BY <1>0, <2>1, <2>3, <2>4 DEF ClientInv, UseInv, Goes
    <3>2. InputInv(k)'
      <4>1. ~(mu[k] # None) /\ ~(mu'[k] # None)  BY <2>2, <3>1
      <4>2. Sent(k)' = Sent(k)  BY <2>2 DEF Sent
      <4>3. Whole(Sent(k))' /\ LastOf(Sent(k))' = LastOf(Sent(k))  BY <1>0, <4>2 DEF Whole, LastOf, InputInv
      <4>4. Serving(k)'  BY <1>0, <2>1, <2>4 DEF Serving
      <4> HIDE DEF Sent, LastOf, Whole, Serving
      <4> QED BY <1>0, <4>1, <4>2, <4>3, <4>4 DEF InputInv
    <3> QED BY <3>2
  <2>5. CASE j # k
    <3>1. Serving(k)' = Serving(k)  BY <1>0, <2>1, <2>5 DEF Serving
    <3>2. mu[k] # None => request'[mu[k]] = request[mu[k]] /\ pc'[mu[k]] = pc[mu[k]]
      BY <1>0, <2>1, <2>3 DEF Goes
    <3> QED BY <2>2, <3>1, <3>2, InputRests
  <2> QED BY <2>4, <2>5
<1> QED
  BY <1>1, <1>2, <1>3, <1>4, <1>5, <1>6, <1>7, <1>8, ThreadKeepsInput DEF Next

-----------------------------------------------------------------------------
(* Ids.                                                                    *)

\* What a pipe carries when it is written to, read from and emptied.
LEMMA CarriedSteps ==
  ASSUME NEW s \in Seq(Parts)
  PROVE  /\ Carried(<<>>) = {}
         /\ \A m \in Parts : \A r \in Carried(Append(s, m)) : r \in Carried(s) \/ r = m.request
         /\ s # <<>> => Head(s).request \in Carried(s) /\ \A r \in Carried(Tail(s)) : r \in Carried(s)
<1> HIDE DEF Parts
<1>1. Carried(<<>>) = {}
  <2>1. 1..Len(<<>>) = {}  BY EmptySeq
  <2> QED BY <2>1 DEF Carried
<1>2. ASSUME NEW m \in Parts, NEW r \in Carried(Append(s, m)) PROVE r \in Carried(s) \/ r = m.request
  <2>1. /\ Len(Append(s, m)) = Len(s) + 1 /\ Append(s, m)[Len(s) + 1] = m /\ Len(s) \in Nat
        /\ \A i \in 1..Len(s) : Append(s, m)[i] = s[i]
    OBVIOUS
  <2>2. PICK i \in 1..Len(Append(s, m)) : r = Append(s, m)[i].request  BY DEF Carried
  <2>3. i \in 1..Len(s) \/ i = Len(s) + 1  BY <2>1
  <2> QED BY <2>1, <2>2, <2>3 DEF Carried
<1>3. ASSUME s # <<>> PROVE Head(s).request \in Carried(s) /\ \A r \in Carried(Tail(s)) : r \in Carried(s)
  <2>1. /\ Len(s) \in Nat /\ Len(s) > 0 /\ Len(Tail(s)) = Len(s) - 1 /\ Head(s) = s[1]
        /\ \A i \in 1..Len(Tail(s)) : Tail(s)[i] = s[i + 1]
    BY <1>3, HeadTailProperties, EmptySeq
  <2>2. \A i \in 1..Len(Tail(s)) : i + 1 \in 1..Len(s)  BY <2>1
  <2>3. 1 \in 1..Len(s)  BY <2>1
  <2>4. Head(s).request \in Carried(s)  BY <2>1, <2>3 DEF Carried
  <2>5. ASSUME NEW r \in Carried(Tail(s)) PROVE r \in Carried(s)
    <3>1. PICK i \in 1..Len(Tail(s)) : r = Tail(s)[i].request  BY DEF Carried
    <3> QED BY <2>1, <2>2, <3>1 DEF Carried
  <2> QED BY <2>4, <2>5
<1> QED BY <1>1, <1>2, <1>3

\* What a server's output answers when it says more, is read from and emptied.
LEMMA AnsweringSteps ==
  ASSUME NEW s \in Seq(Replies \cup Noise)
  PROVE  /\ Answering(<<>>) = {}
         /\ \A l \in Replies \cup Noise : \A r \in Answering(Append(s, l)) :
              r \in Answering(s) \/ (l.says = "reply" /\ r = l.to)
         /\ s # <<>> => /\ Head(s).says = "reply" => Head(s).to \in Answering(s)
                       /\ \A r \in Answering(Tail(s)) : r \in Answering(s)
<1> HIDE DEF Replies, Noise
<1>1. Answering(<<>>) = {}
  <2>1. 1..Len(<<>>) = {}  BY EmptySeq
  <2> QED BY <2>1 DEF Answering
<1>2. ASSUME NEW l \in Replies \cup Noise, NEW r \in Answering(Append(s, l))
      PROVE  r \in Answering(s) \/ (l.says = "reply" /\ r = l.to)
  <2>1. /\ Len(Append(s, l)) = Len(s) + 1 /\ Append(s, l)[Len(s) + 1] = l /\ Len(s) \in Nat
        /\ \A i \in 1..Len(s) : Append(s, l)[i] = s[i]
    OBVIOUS
  <2>2. PICK i \in 1..Len(Append(s, l)) : Append(s, l)[i].says = "reply" /\ r = Append(s, l)[i].to
    BY DEF Answering
  <2>3. i \in 1..Len(s) \/ i = Len(s) + 1  BY <2>1
  <2> QED BY <2>1, <2>2, <2>3 DEF Answering
<1>3. ASSUME s # <<>>
      PROVE  /\ Head(s).says = "reply" => Head(s).to \in Answering(s)
             /\ \A r \in Answering(Tail(s)) : r \in Answering(s)
  <2>1. /\ Len(s) \in Nat /\ Len(s) > 0 /\ Len(Tail(s)) = Len(s) - 1 /\ Head(s) = s[1]
        /\ \A i \in 1..Len(Tail(s)) : Tail(s)[i] = s[i + 1]
    BY <1>3, HeadTailProperties, EmptySeq
  <2>2. \A i \in 1..Len(Tail(s)) : i + 1 \in 1..Len(s)  BY <2>1
  <2>3. 1 \in 1..Len(s)  BY <2>1
  <2>4. Head(s).says = "reply" => Head(s).to \in Answering(s)  BY <2>1, <2>3 DEF Answering
  <2>5. ASSUME NEW r \in Answering(Tail(s)) PROVE r \in Answering(s)
    <3>1. PICK i \in 1..Len(Tail(s)) : Tail(s)[i].says = "reply" /\ r = Tail(s)[i].to  BY DEF Answering
    <3> QED BY <2>1, <2>2, <3>1 DEF Answering
  <2> QED BY <2>4, <2>5
<1> QED BY <1>1, <1>2, <1>3

\* What is on its way to and from a server, without what its callers are about.
OnTheWay(k) ==
  Carried(stdin[k]) \cup Carried(unread[k]) \cup asked[k] \cup answered[k]
    \cup Answering(stdout[k]) \cup InHand(k) \cup {reply.to : reply \in inbox[k]}

\* Requests move on, and new ones have no id yet.
LEMMA IdsMove ==
  ASSUME ClientInv, NEW k \in Clients, requestID'[k] = requestID[k],
         \A r \in Asking(k)' : r \in Around(k) \/ r.id = 0,
         \A r \in OnTheWay(k)' : r \in Around(k)
  PROVE  IdsInv(k)'
<1>1. IdsInv(k) /\ requestID[k] \in Nat  BY DEF ClientInv, TypeOK
<1>2. \A r \in Around(k)' : r \in Around(k) \/ r.id = 0
  <2>1. \A r \in Around(k)' : r \in Asking(k)' \/ r \in OnTheWay(k)'
    <3> HIDE DEF Asking, Carried, Answering, InHand
    <3> QED BY DEF Around, OnTheWay
  <2> QED BY <2>1
<1> HIDE DEF Around, Asking, OnTheWay
<1> QED BY <1>1, <1>2 DEF IdsInv

\* Nothing moves on the way.
LEMMA OnTheWayRests ==
  ASSUME NEW k \in Clients, stdin'[k] = stdin[k], unread'[k] = unread[k], asked'[k] = asked[k],
         answered'[k] = answered[k], stdout'[k] = stdout[k], line'[k] = line[k], reader'[k] = reader[k],
         \A reply \in inbox'[k] : reply \in inbox[k]
  PROVE  \A r \in OnTheWay(k)' : r \in OnTheWay(k)
<1>1. InHand(k)' = InHand(k)  BY DEF InHand
<1>2. Carried(stdin[k])' = Carried(stdin[k]) /\ Carried(unread[k])' = Carried(unread[k])
      /\ Answering(stdout[k])' = Answering(stdout[k])
  BY DEF Carried, Answering
<1> HIDE DEF InHand, Carried, Answering
<1> QED BY <1>1, <1>2 DEF OnTheWay

\* What is around is a request.
LEMMA RequestsAround ==
  ASSUME ClientInv, NEW k \in Clients
  PROVE  \A r \in Around(k) : r \in Requests /\ r.id \in Nat
<1>0. TypeOK /\ WaiterInv(k) /\ \A t \in Threads : ThreadInv(t)  BY DEF ClientInv
<1>1. /\ stdin[k] \in Seq(Parts) /\ unread[k] \in Seq(Parts) /\ stdout[k] \in Seq(Replies \cup Noise)
      /\ inbox[k] \subseteq Replies /\ asked[k] \subseteq Requests /\ answered[k] \subseteq Requests
  <2> HIDE DEF Requests, Parts, Replies, Noise
  <2> QED BY <1>0 DEF TypeOK
<1>2. \A s \in Seq(Parts) : \A r \in Carried(s) : r \in Requests
  <2>1. \A m \in Parts : m.request \in Requests  BY DEF Parts
  <2> HIDE DEF Parts, Requests
  <2>2. \A s \in Seq(Parts) : \A i \in 1..Len(s) : s[i] \in Parts  BY ElementOfSeq
  <2> QED BY <2>1, <2>2 DEF Carried
<1>3. \A s \in Seq(Replies \cup Noise) : \A r \in Answering(s) : r \in Requests
  <2>1. \A l \in Replies \cup Noise : l.says = "reply" => l.to \in Requests  BY DEF Replies, Noise
  <2> HIDE DEF Replies, Noise, Requests
  <2>2. \A s \in Seq(Replies \cup Noise) : \A i \in 1..Len(s) : s[i] \in Replies \cup Noise  BY ElementOfSeq
  <2> QED BY <2>1, <2>2 DEF Answering
<1>4. \A reply \in Replies : reply.to \in Requests  BY DEF Replies
<1>5. \A r \in Requests : r.id \in Nat  BY DEF Requests
<1>6. \A r \in InHand(k) : r \in Requests  BY <1>0, <1>4 DEF InHand, WaiterInv
<1>7. \A r \in Asking(k) : r \in Requests
  <2> HIDE DEF Requests, Active
  <2> QED BY <1>0 DEF Asking, ThreadInv
<1> HIDE DEF Requests, Parts, Replies, Noise, Carried, Answering, InHand, Asking
<1>8. \A r \in Around(k) : r \in Requests  BY <1>1, <1>2, <1>3, <1>4, <1>6, <1>7 DEF Around
<1> QED BY <1>5, <1>8

\* Requests on the way are around.
LEMMA OnTheWayIsAround == \A k \in Clients : \A r \in OnTheWay(k) : r \in Around(k)
<1> HIDE DEF Carried, Answering, InHand
<1> QED BY DEF OnTheWay, Around

\* Only one thread is about something else.
LEMMA AskingOf ==
  ASSUME NEW k \in Clients, NEW t,
         \A u \in Threads \ {t} : conn'[u] = conn[u] /\ request'[u] = request[u] /\ pc'[u] = pc[u]
  PROVE  \A r \in Asking(k)' :
           r \in Around(k) \/ (r = request'[t] /\ conn'[t] = k /\ pc'[t] \in Active)
<1> HIDE DEF Active
<1>1. \A r \in Asking(k)' : r \in Asking(k) \/ (r = request'[t] /\ conn'[t] = k /\ pc'[t] \in Active)
  BY DEF Asking
<1> QED BY <1>1 DEF Around

\* A thread's steps: an id is new, a request written is the thread's own.
LEMMA ThreadKeepsIds ==
  ASSUME ClientInv, NEW t \in Threads, ThreadStep(t) \/ Expire(t), NEW k \in Clients
  PROVE  IdsInv(k)'
<1> USE DEF Goes, pipes, serverVars, readerVars, sessionVars
<1>0. /\ ThreadInv(t) /\ IdsInv(k) /\ TypeOK
      /\ conn \in [Threads -> Clients \cup {None}] /\ request \in [Threads -> Requests \cup {None}]
      /\ requestID \in [Clients -> Nat] /\ inbox \in [Clients -> SUBSET Replies]
      /\ stdin \in [Clients -> Seq(Parts)]
      /\ pc \in [Threads -> {"idle", "calling", "sending", "body", "newline", "waiting",
                             "abandoning", "done", "failed", "ready"}]
  BY DEF ClientInv, TypeOK
<1>p. pc[t] \in Active
  BY DEF ThreadStep, Register, LockToWrite, WriteBody, WriteNewline, WriteFails, TakeReply,
     GiveUp, SeeEnd, AbandonWaiter, Expire, Active, InCall, Sending, Writing
<1>1. /\ conn[t] \in Clients /\ request[t] \in Requests
      /\ conn[t] = k => request[t] \in Around(k)
  <2> HIDE DEF Requests, Active
  <2> QED BY <1>0, <1>p DEF ThreadInv, Around, Asking
<1>2. \A u \in Threads \ {t} : conn'[u] = conn[u] /\ request'[u] = request[u] /\ pc'[u] = pc[u]
  BY <1>0 DEF ThreadStep, Register, LockToWrite, WriteBody, WriteNewline, WriteFails, TakeReply,
     GiveUp, SeeEnd, AbandonWaiter, Expire
<1>3. UNCHANGED conn
  BY DEF ThreadStep, Register, LockToWrite, WriteBody, WriteNewline, WriteFails, TakeReply,
     GiveUp, SeeEnd, AbandonWaiter, Expire
<1>4. \A r \in Asking(k)' : r \in Around(k) \/ (r = request'[t] /\ conn[t] = k)
  BY <1>2, <1>3, AskingOf
<1>m. \A m \in {"tools/list", Notice} : Asks(t, m).id = 0  BY DEF Asks
<1> HIDE DEF Requests, Parts, Replies, Noise, Around, OnTheWay, Asking, Asks
<1>5. CASE Register(t)
  <2>1. /\ pc[t] = "calling" /\ requestID' = [requestID EXCEPT ![conn[t]] = @ + 1]
        /\ request' = [request EXCEPT ![t].id = requestID'[conn[t]]]
        /\ UNCHANGED <<stdin, unread, asked, answered, stdout, line, inbox, reader>>
    BY <1>5 DEF Register
  <2>2. \A r \in OnTheWay(k)' : r \in Around(k)
    BY <2>1, OnTheWayRests, OnTheWayIsAround
  <2>3. CASE conn[t] # k
    <3>1. requestID'[k] = requestID[k]  BY <1>0, <2>1, <2>3
    <3> QED BY <1>4, <2>2, <2>3, <3>1, IdsMove
  <2>4. CASE conn[t] = k
    <3>1. requestID'[k] = requestID[k] + 1 /\ requestID[k] \in Nat  BY <1>0, <2>1, <2>4
    <3>2. request'[t].id = requestID[k] + 1
      <4>1. request[t] \in Requests  BY <1>1
      <4>2. request'[t] = [request[t] EXCEPT !.id = requestID[k] + 1]  BY <1>0, <2>1, <2>4, <3>1
      <4> QED BY <4>1, <4>2 DEF Requests
    <3>3. \A r \in Around(k)' : r \in Around(k) \/ r = request'[t]
      <4>1. \A r \in Around(k)' : r \in Asking(k)' \/ r \in OnTheWay(k)'
        <5> HIDE DEF Asking, Carried, Answering, InHand
        <5> QED BY DEF Around, OnTheWay
      <4> QED BY <1>4, <2>2, <4>1
    <3>4. \A r \in Around(k) : r.id <= requestID[k] /\ r.id \in Int
      <4>1. \A r \in Around(k) : r.id <= requestID[k]  BY <1>0 DEF IdsInv
      <4>2. \A r \in Around(k) : r.id \in Nat  BY RequestsAround
      <4> QED BY <4>1, <4>2
    <3>5. \A r \in Around(k)' : r.id <= requestID'[k]  BY <3>1, <3>2, <3>3, <3>4
    <3>6. \A r, q \in Around(k)' : r.id = q.id /\ r.id # 0 => r.by = q.by
      <4>1. \A r \in Around(k) : r.id # request'[t].id  BY <3>1, <3>2, <3>4
      <4>2. \A r, q \in Around(k) : r.id = q.id /\ r.id # 0 => r.by = q.by  BY <1>0 DEF IdsInv
      <4> QED BY <3>3, <4>1, <4>2
    <3> QED BY <3>5, <3>6 DEF IdsInv
  <2> QED BY <2>3, <2>4
<1>6. CASE LockToWrite(t) \/ WriteFails(t) \/ GiveUp(t) \/ SeeEnd(t) \/ AbandonWaiter(t) \/ Expire(t)
  <2>1. UNCHANGED <<requestID, request, stdin, unread, asked, answered, stdout, line, inbox, reader>>
    BY <1>6 DEF LockToWrite, WriteFails, GiveUp, SeeEnd, AbandonWaiter, Expire
  <2>2. \A r \in Asking(k)' : r \in Around(k)
    <3>1. request'[t] = request[t]  BY <2>1
    <3> QED BY <1>1, <1>4, <3>1
  <2>3. \A r \in OnTheWay(k)' : r \in Around(k)
    BY <2>1, OnTheWayRests, OnTheWayIsAround
  <2> QED BY <2>1, <2>2, <2>3, IdsMove
<1>7. CASE WriteBody(t) \/ WriteNewline(t)
  <2>1. PICK newline \in BOOLEAN : Writes(t, newline)  BY <1>7 DEF WriteBody, WriteNewline
  <2>2. /\ pc[t] \in Writing /\ (request' = request \/ request'[t].id = 0)
        /\ UNCHANGED <<requestID, unread, asked, answered, stdout, line, inbox, reader>>
    BY <1>0, <1>7, <1>m DEF WriteBody, WriteNewline, Writing
  <2>3. conn[t] \in Clients /\ request[t] \in Requests  BY <1>1
  <2> DEFINE m == [request |-> request[t], newline |-> newline]
  <2>4. m \in Parts /\ m.request = request[t]  BY <2>3, Zenon DEF Parts
  <2>5. stdin' = [stdin EXCEPT ![conn[t]] = Append(@, m)]  BY <2>1 DEF Writes
  <2> HIDE DEF m
  <2>6. \A r \in Carried(stdin'[k]) : r \in Carried(stdin[k]) \/ (r = request[t] /\ conn[t] = k)
    <3>1. stdin'[k] = IF conn[t] = k THEN Append(stdin[k], m) ELSE stdin[k]  BY <1>0, <2>5
    <3>2. stdin[k] \in Seq(Parts)  BY <1>0
    <3> HIDE DEF Carried
    <3> QED BY <2>4, <3>1, <3>2, CarriedSteps
  <2>7. \A r \in OnTheWay(k)' : r \in Around(k)
    <3>1. InHand(k)' = InHand(k) /\ Carried(unread[k])' = Carried(unread[k])
          /\ Answering(stdout[k])' = Answering(stdout[k]) /\ Carried(stdin[k])' = Carried(stdin'[k])
      BY <2>2 DEF InHand, Carried, Answering
    <3> HIDE DEF InHand, Carried, Answering
    <3>2. \A r \in OnTheWay(k)' : r \in OnTheWay(k) \/ r \in Carried(stdin'[k])
      BY <2>2, <3>1 DEF OnTheWay
    <3>3. \A r \in Carried(stdin[k]) : r \in OnTheWay(k)  BY DEF OnTheWay
    <3> QED BY <1>1, <2>3, <2>6, <3>2, <3>3, OnTheWayIsAround
  <2>8. \A r \in Asking(k)' : r \in Around(k) \/ r.id = 0
    <3>1. CASE request' = request
      <4>1. request'[t] = request[t]  BY <3>1
      <4> QED BY <1>1, <1>4, <4>1
    <3>2. CASE request'[t].id = 0  BY <1>4, <3>2
    <3> QED BY <2>2, <3>1, <3>2
  <2> QED BY <2>2, <2>7, <2>8, IdsMove
<1>8. CASE TakeReply(t)
  <2>1. PICK reply \in inbox[conn[t]] :
          /\ inbox' = [inbox EXCEPT ![conn[t]] = @ \ {reply}]
          /\ request' = IF pc'[t] = "sending" THEN [request EXCEPT ![t] = Asks(t, Notice)] ELSE request
    BY <1>8 DEF TakeReply, Notice
  <2>2. UNCHANGED <<requestID, stdin, unread, asked, answered, stdout, line, reader>>  BY <1>8 DEF TakeReply
  <2>3. \A reply2 \in inbox'[k] : reply2 \in inbox[k]  BY <1>0, <2>1
  <2>4. \A r \in OnTheWay(k)' : r \in Around(k)
    BY <2>2, <2>3, OnTheWayRests, OnTheWayIsAround
  <2>5. \A r \in Asking(k)' : r \in Around(k) \/ r.id = 0
    <3>1. CASE request' = request
      <4>1. request'[t] = request[t]  BY <3>1
      <4> QED BY <1>1, <1>4, <4>1
    <3>2. CASE request' # request
      <4>1. request'[t].id = 0  BY <1>0, <1>m, <2>1, <3>2
      <4> QED BY <1>4, <4>1
    <3> QED BY <3>1, <3>2
  <2> QED BY <2>2, <2>4, <2>5, IdsMove
<1> QED BY <1>5, <1>6, <1>7, <1>8 DEF ThreadStep

\* Nobody asks for anything new, and what is on the way was around.
LEMMA IdsStay ==
  ASSUME ClientInv, NEW k \in Clients, UNCHANGED <<requestID, conn, request, pc>>,
         \A r \in Carried(stdin'[k]) : r \in Around(k),
         \A r \in Carried(unread'[k]) : r \in Around(k),
         \A r \in asked'[k] \cup answered'[k] : r \in Around(k),
         \A r \in Answering(stdout'[k]) : r \in Around(k),
         reader'[k] \in {"delivering", "handing"} => line'[k].to \in Around(k),
         \A reply \in inbox'[k] : reply.to \in Around(k)
  PROVE  IdsInv(k)'
<1>1. Carried(stdin[k])' = Carried(stdin'[k]) /\ Carried(unread[k])' = Carried(unread'[k])
      /\ Answering(stdout[k])' = Answering(stdout'[k])
  BY DEF Carried, Answering
<1>2. \A r \in InHand(k)' : r \in Around(k)
  <2> HIDE DEF Around
  <2> QED BY DEF InHand
<1>3. \A r \in Asking(k)' : r \in Around(k)
  <2>1. Asking(k)' = Asking(k)  BY DEF Asking
  <2> QED BY <2>1 DEF Around
<1> HIDE DEF Around, Carried, Answering, InHand, Asking
<1>4. \A r \in OnTheWay(k)' : r \in Around(k)  BY <1>1, <1>2 DEF OnTheWay
<1> QED BY <1>3, <1>4, IdsMove

\* Where a request of a client can be.
LEMMA AroundIs ==
  ASSUME ClientInv, NEW k \in Clients
  PROVE  /\ \A r \in Carried(stdin[k]) : r \in Around(k)
         /\ \A r \in Carried(unread[k]) : r \in Around(k)
         /\ \A r \in asked[k] \cup answered[k] : r \in Around(k)
         /\ \A r \in Answering(stdout[k]) : r \in Around(k)
         /\ reader[k] \in {"delivering", "handing"} => line[k].to \in Around(k)
         /\ \A reply \in inbox[k] : reply.to \in Around(k)
<1>1. reader[k] \in {"delivering", "handing"} => line[k].to \in InHand(k)  BY DEF InHand
<1> HIDE DEF Carried, Answering, InHand, Asking
<1> QED BY <1>1 DEF Around

\* What is on the way moves within it: into the server's hands, to its output,
\* into the reader's and into an inbox.
LEMMA ServersKeepIds ==
  ASSUME ClientInv, NEW k \in Clients,
         \/ ReaderStep(k) \/ ServerReads(k) \/ ServerReplies(k) \/ ServerRepeats(k)
         \/ ServerChatters(k) \/ ServerExits(k)
  PROVE  IdsInv(k)'
<1> USE DEF pipes, serverVars, readerVars, threadVars, sessionVars, UNCHANGEDClient
<1>0. /\ stdin \in [Clients -> Seq(Parts)] /\ unread \in [Clients -> Seq(Parts)]
      /\ stdout \in [Clients -> Seq(Replies \cup Noise)] /\ inbox \in [Clients -> SUBSET Replies]
      /\ asked \in [Clients -> SUBSET Requests] /\ answered \in [Clients -> SUBSET Requests]
      /\ line \in [Clients -> Replies \cup {None}]
      /\ reader \in [Clients -> {"reading", "delivering", "handing", "ending", "done"}]
  BY DEF ClientInv, TypeOK
<1>1. UNCHANGED <<requestID, conn, request, pc>>
  BY DEF ReaderStep, ReadLine, Deliver, Hand, SeeEndOfOutput, EndReader, ServerReads,
     ServerReplies, ServerRepeats, ServerChatters, ServerExits
<1>2. /\ \A r \in Carried(stdin[k]) : r \in Around(k)
      /\ \A r \in Carried(unread[k]) : r \in Around(k)
      /\ \A r \in asked[k] \cup answered[k] : r \in Around(k)
      /\ \A r \in Answering(stdout[k]) : r \in Around(k)
      /\ reader[k] \in {"delivering", "handing"} => line[k].to \in Around(k)
      /\ \A reply \in inbox[k] : reply.to \in Around(k)
  BY AroundIs
<1>3. Carried(<<>>) = {} /\ Answering(<<>>) = {}
  <2>1. <<>> \in Seq(Parts) /\ <<>> \in Seq(Replies \cup Noise)  OBVIOUS
  <2>2. Carried(<<>>) = {}  BY <2>1, CarriedSteps
  <2>3. Answering(<<>>) = {}  BY <2>1, AnsweringSteps
  <2> QED BY <2>2, <2>3
<1>4. stdin[k] \in Seq(Parts) /\ unread[k] \in Seq(Parts) /\ stdout[k] \in Seq(Replies \cup Noise)
  <2> HIDE DEF Parts, Replies, Noise
  <2> QED BY <1>0
<1> HIDE DEF Around, Carried, Answering, Parts, Replies, Noise, Requests
<1>5. CASE ReadLine(k)
  <2>1. /\ UNCHANGED <<stdin, unread, asked, answered, inbox>> /\ stdout[k] # <<>> /\ reader[k] = "reading"
        /\ stdout' = [stdout EXCEPT ![k] = Tail(@)]
        /\ \/ UNCHANGED <<reader, line>>
           \/ reader' = [reader EXCEPT ![k] = "ending"]
           \/ Head(stdout[k]).says = "reply" /\ line' = [line EXCEPT ![k] = Head(stdout[k])]
    BY <1>5 DEF ReadLine
  <2>2. /\ Head(stdout[k]).says = "reply" => Head(stdout[k]).to \in Answering(stdout[k])
        /\ \A r \in Answering(Tail(stdout[k])) : r \in Answering(stdout[k])
    BY <1>4, <2>1, AnsweringSteps
  <2>3. \A r \in Answering(stdout'[k]) : r \in Around(k)
    <3>1. stdout'[k] = Tail(stdout[k])  BY <1>0, <2>1
    <3> QED BY <1>2, <2>2, <3>1
  <2>4. reader'[k] \in {"delivering", "handing"} => line'[k].to \in Around(k)
    <3>1. reader'[k] \in {"delivering", "handing"} =>
            Head(stdout[k]).says = "reply" /\ line'[k] = Head(stdout[k])
      BY <1>0, <2>1
    <3> QED BY <1>2, <2>2, <3>1
  <2> QED BY <1>1, <1>2, <2>1, <2>3, <2>4, IdsStay
<1>6. CASE Deliver(k)
  <2>1. /\ UNCHANGED <<stdin, unread, asked, answered, stdout, inbox>> /\ reader[k] = "delivering"
        /\ reader'[k] \in {"delivering", "handing"} => line' = line
    BY <1>0, <1>6 DEF Deliver
  <2> QED BY <1>1, <1>2, <2>1, IdsStay
<1>7. CASE Hand(k)
  <2>1. /\ UNCHANGED <<stdin, unread, asked, answered, stdout>> /\ reader[k] = "handing"
        /\ reader'[k] = "reading" /\ inbox'[k] = inbox[k] \cup {line[k]}
    BY <1>0, <1>7 DEF Hand
  <2> QED BY <1>1, <1>2, <2>1, IdsStay
<1>8. CASE SeeEndOfOutput(k) \/ EndReader(k)
  <2>1. UNCHANGED <<stdin, unread, asked, answered, stdout, inbox>> /\ reader'[k] \in {"ending", "done"}
    BY <1>0, <1>8 DEF SeeEndOfOutput, EndReader
  <2> QED BY <1>1, <1>2, <2>1, IdsStay
<1>9. CASE ServerReads(k)
  <2>1. /\ UNCHANGED <<answered, stdout, inbox, reader, line>> /\ stdin[k] # <<>>
        /\ stdin' = [stdin EXCEPT ![k] = Tail(@)]
        /\ unread' = [unread EXCEPT ![k] = IF Head(stdin[k]).newline THEN <<>> ELSE Append(@, Head(stdin[k]))]
        /\ asked' = asked \/ (/\ asked' = [asked EXCEPT ![k] = @ \cup {unread[k][1].request}]
                              /\ Len(unread[k]) = 1)
    BY <1>9 DEF ServerReads
  <2>2. /\ Head(stdin[k]).request \in Carried(stdin[k])
        /\ \A r \in Carried(Tail(stdin[k])) : r \in Carried(stdin[k])
    BY <1>4, <2>1, CarriedSteps
  <2>3. \A r \in Carried(stdin'[k]) : r \in Around(k)
    <3>1. stdin'[k] = Tail(stdin[k])  BY <1>0, <2>1
    <3> QED BY <1>2, <2>2, <3>1
  <2>4. \A r \in Carried(unread'[k]) : r \in Around(k)
    <3>1. unread'[k] = <<>> \/ unread'[k] = Append(unread[k], Head(stdin[k]))  BY <1>0, <2>1
    <3>2. Head(stdin[k]) \in Parts  BY <1>4, <2>1, HeadTailProperties
    <3>3. \A r \in Carried(Append(unread[k], Head(stdin[k]))) : r \in Carried(unread[k]) \/ r = Head(stdin[k]).request
      BY <1>4, <3>2, CarriedSteps
    <3> QED BY <1>2, <1>3, <2>2, <3>1, <3>3
  <2>5. \A r \in asked'[k] \cup answered'[k] : r \in Around(k)
    <3>1. \A r \in asked'[k] : r \in asked[k] \/ (Len(unread[k]) = 1 /\ r = unread[k][1].request)
      BY <1>0, <2>1
    <3>2. Len(unread[k]) = 1 => unread[k][1].request \in Carried(unread[k])  BY DEF Carried
    <3> QED BY <1>2, <2>1, <3>1, <3>2
  <2> QED BY <1>1, <1>2, <2>1, <2>3, <2>4, <2>5, IdsStay
<1>10. CASE ServerReplies(k) \/ ServerRepeats(k)
  <2>1. PICK r \in asked[k] \cup answered[k], ok \in BOOLEAN :
          /\ Says(k, [says |-> "reply", to |-> r, ok |-> ok])
          /\ \A q \in asked'[k] \cup answered'[k] : q \in asked[k] \cup answered[k]
    <3>1. CASE ServerReplies(k)
      <4>1. PICK r \in asked[k], ok \in BOOLEAN :
              /\ Says(k, [says |-> "reply", to |-> r, ok |-> ok])
              /\ asked' = [asked EXCEPT ![k] = @ \ {r}]
              /\ answered' = [answered EXCEPT ![k] = @ \cup {r}]
        BY <3>1 DEF ServerReplies
      <4>2. \A q \in asked'[k] \cup answered'[k] : q \in asked[k] \cup answered[k]  BY <1>0, <4>1
      <4> QED BY <4>1, <4>2
    <3>2. CASE ServerRepeats(k)  BY <3>2 DEF ServerRepeats
    <3> QED BY <1>10, <3>1, <3>2
  <2>2. UNCHANGED <<stdin, unread, inbox, reader, line>>  BY <1>10 DEF ServerReplies, ServerRepeats, Noisy
  <2> DEFINE l == [says |-> "reply", to |-> r, ok |-> ok]
  <2>3. l \in Replies \cup Noise /\ l.to = r
    <3>1. r \in Requests  BY <1>0
    <3> QED BY <3>1 DEF Replies
  <2>4. stdout' = [stdout EXCEPT ![k] = Append(@, l)]  BY <2>1 DEF Says
  <2> HIDE DEF l
  <2>5. \A q \in Answering(stdout'[k]) : q \in Around(k)
    <3>1. stdout'[k] = Append(stdout[k], l)  BY <1>0, <2>4
    <3>2. \A q \in Answering(Append(stdout[k], l)) : q \in Answering(stdout[k]) \/ q = r
      BY <1>4, <2>3, AnsweringSteps
    <3> QED BY <1>2, <3>1, <3>2
  <2> QED BY <1>1, <1>2, <2>1, <2>2, <2>5, IdsStay
<1>11. CASE ServerChatters(k)
  <2>1. UNCHANGED <<stdin, unread, asked, answered, inbox, reader, line>>  BY <1>11 DEF ServerChatters, Noisy
  <2>2. PICK l \in Noise : stdout' = [stdout EXCEPT ![k] = Append(@, l)]  BY <1>11 DEF ServerChatters, Says
  <2>3. l.says # "reply"  BY DEF Noise
  <2>4. \A q \in Answering(stdout'[k]) : q \in Around(k)
    <3>1. stdout'[k] = Append(stdout[k], l)  BY <1>0, <2>2
    <3>2. \A q \in Answering(Append(stdout[k], l)) : q \in Answering(stdout[k])
      BY <1>4, <2>3, AnsweringSteps
    <3> QED BY <1>2, <3>1, <3>2
  <2> QED BY <1>1, <1>2, <2>1, <2>4, IdsStay
<1>12. CASE ServerExits(k)
  <2>1. /\ UNCHANGED <<stdout, inbox, reader, line>>
        /\ stdin'[k] = <<>> /\ unread'[k] = <<>> /\ asked'[k] = {} /\ answered'[k] = {}
    BY <1>0, <1>12 DEF ServerExits, Silence
  <2> QED BY <1>1, <1>2, <1>3, <2>1, IdsStay
<1> QED BY <1>5, <1>6, <1>7, <1>8, <1>9, <1>10, <1>11, <1>12 DEF ReaderStep

\* A client that a step is not about keeps its ids, and a thread may begin to ask.
LEMMA IdsRest ==
  ASSUME ClientInv, NEW k \in Clients, requestID'[k] = requestID[k],
         \A r \in Asking(k)' : r \in Around(k) \/ r.id = 0,
         stdin'[k] = stdin[k] \/ stdin'[k] = <<>>, unread'[k] = unread[k] \/ unread'[k] = <<>>,
         \A r \in asked'[k] : r \in asked[k], \A r \in answered'[k] : r \in answered[k],
         stdout'[k] = stdout[k] \/ stdout'[k] = <<>>, line'[k] = line[k], reader'[k] = reader[k],
         \A reply \in inbox'[k] : reply \in inbox[k]
  PROVE  IdsInv(k)'
<1>1. /\ Carried(stdin[k])' = Carried(stdin'[k]) /\ Carried(unread[k])' = Carried(unread'[k])
      /\ Answering(stdout[k])' = Answering(stdout'[k]) /\ InHand(k)' = InHand(k)
  BY DEF Carried, Answering, InHand
<1>2. Carried(<<>>) = {} /\ Answering(<<>>) = {}
  <2>1. <<>> \in Seq(Parts) /\ <<>> \in Seq(Replies \cup Noise)  OBVIOUS
  <2>2. Carried(<<>>) = {}  BY <2>1, CarriedSteps
  <2>3. Answering(<<>>) = {}  BY <2>1, AnsweringSteps
  <2> QED BY <2>2, <2>3
<1> HIDE DEF Around, Carried, Answering, InHand, Asking
<1>3. \A r \in OnTheWay(k)' : r \in OnTheWay(k)  BY <1>1, <1>2 DEF OnTheWay
<1> QED BY <1>3, OnTheWayIsAround, IdsMove

\* Every step gives an id once.
LEMMA StepKeepsIds ==
  ASSUME ClientInv, Next, NEW k \in Clients
  PROVE  IdsInv(k)'
<1> USE DEF pipes, serverVars, readerVars, threadVars, sessionVars
<1>0. /\ conn \in [Threads -> Clients \cup {None}] /\ request \in [Threads -> Requests \cup {None}]
      /\ stdin \in [Clients -> Seq(Parts)] /\ unread \in [Clients -> Seq(Parts)]
      /\ stdout \in [Clients -> Seq(Replies \cup Noise)] /\ inbox \in [Clients -> SUBSET Replies]
      /\ asked \in [Clients -> SUBSET Requests] /\ answered \in [Clients -> SUBSET Requests]
      /\ line \in [Clients -> Replies \cup {None}]
      /\ reader \in [Clients -> {"reading", "delivering", "handing", "ending", "done"}]
      /\ pc \in [Threads -> {"idle", "calling", "sending", "body", "newline", "waiting",
                             "abandoning", "done", "failed", "ready"}]
      /\ requestID \in [Clients -> Nat]
  BY DEF ClientInv, TypeOK
<1> HIDE DEF Around, Parts, Replies, Noise, Requests
<1>1. ASSUME NEW t \in Threads,
             \A u \in Threads \ {t} : conn'[u] = conn[u] /\ request'[u] = request[u] /\ pc'[u] = pc[u],
             pc'[t] \in Active => request'[t].id = 0
      PROVE  \A r \in Asking(k)' : r \in Around(k) \/ r.id = 0
  BY <1>1, AskingOf
<1>a. ASSUME UNCHANGED <<conn, request, pc>> PROVE \A r \in Asking(k)' : r \in Around(k) \/ r.id = 0
  <2>1. Asking(k)' = Asking(k)  BY <1>a DEF Asking
  <2> QED BY <2>1 DEF Around
<1>2. ASSUME NEW c \in Calls, LookUp(c) PROVE IdsInv(k)'
  <2>1. UNCHANGED <<requestID, pipes, readerVars, serverVars>> /\ c \in Threads  BY <1>2 DEF LookUp, Threads
  <2>2. \A u \in Threads \ {c} : conn'[u] = conn[u] /\ request'[u] = request[u] /\ pc'[u] = pc[u]
    BY <1>0, <1>2 DEF LookUp, Goes
  <2>3. pc'[c] \in Active => request'[c].id = 0
    <3>1. pc'[c] = "done" \/ request' = [request EXCEPT ![c] = Asks(c, "tools/call")]
      BY <1>0, <1>2, <2>1 DEF LookUp, Goes
    <3>2. Asks(c, "tools/call").id = 0  BY DEF Asks
    <3> HIDE DEF Asks
    <3> QED BY <1>0, <2>1, <3>1, <3>2 DEF Active, InCall, Sending, Writing
  <2> QED BY <1>1, <2>1, <2>2, <2>3, IdsRest
<1>3. ASSUME NEW b \in Batches, StartServer(b) PROVE IdsInv(k)'
  <2>1. UNCHANGED <<requestID, stdin, stdout, readerVars, unread, asked, answered, conn>>
    BY <1>3 DEF StartServer
  <2>2. PICK j \in Clients : /\ Goes(j, "idle", "calling")
                             /\ request' = [request EXCEPT ![j] = Asks(j, "initialize")]
    BY <1>3 DEF StartServer
  <2>3. j \in Threads /\ Asks(j, "initialize").id = 0  BY DEF Threads, Asks
  <2> HIDE DEF Asks
  <2>4. /\ \A u \in Threads \ {j} : conn'[u] = conn[u] /\ request'[u] = request[u] /\ pc'[u] = pc[u]
        /\ request'[j].id = 0
    BY <1>0, <2>1, <2>2, <2>3 DEF Goes
  <2> QED BY <1>1, <2>1, <2>3, <2>4, IdsRest
<1>4. ASSUME NEW j \in Clients,
             \/ ReaderStep(j) \/ ServerReads(j) \/ ServerReplies(j) \/ ServerRepeats(j)
             \/ ServerChatters(j) \/ ServerExits(j)
      PROVE  IdsInv(k)'
  <2>1. CASE j = k  BY <1>4, <2>1, ServersKeepIds
  <2>2. CASE j # k
    <3>1. UNCHANGED <<requestID, conn, request, pc>>
      BY <1>4 DEF ReaderStep, ReadLine, Deliver, Hand, SeeEndOfOutput, EndReader, ServerReads,
         ServerReplies, ServerRepeats, ServerChatters, ServerExits, UNCHANGEDClient
    <3>2. /\ stdin'[k] = stdin[k] /\ unread'[k] = unread[k] /\ asked'[k] = asked[k]
          /\ answered'[k] = answered[k] /\ stdout'[k] = stdout[k] /\ line'[k] = line[k]
          /\ inbox'[k] = inbox[k] /\ reader'[k] = reader[k]
      <4> USE DEF UNCHANGEDClient
      <4>1. CASE ReaderStep(j)
        BY <1>0, <2>2, <4>1 DEF ReaderStep, ReadLine, Deliver, Hand, SeeEndOfOutput, EndReader
      <4>2. CASE ServerReads(j)  BY <1>0, <2>2, <4>2 DEF ServerReads
      <4>3. CASE ServerReplies(j)  BY <1>0, <2>2, <4>3 DEF ServerReplies, Says
      <4>4. CASE ServerRepeats(j) \/ ServerChatters(j)
        BY <1>0, <2>2, <4>4 DEF ServerRepeats, ServerChatters, Says, Noisy
      <4>5. CASE ServerExits(j)  BY <1>0, <2>2, <4>5 DEF ServerExits, Silence
      <4> QED BY <1>4, <4>1, <4>2, <4>3, <4>4, <4>5
    <3> QED BY <1>a, <3>1, <3>2, IdsRest
  <2> QED BY <2>1, <2>2
<1>5. ASSUME NEW a \in Batches \cup {"close"}, CloseStreams(a) PROVE IdsInv(k)'
  <2>1. PICK j \in doomed[a] : stdout' = [stdout EXCEPT ![j] = <<>>] /\ Silence(j)
    BY <1>5 DEF CloseStreams
  <2>2. UNCHANGED <<requestID, conn, request, pc, readerVars>>  BY <1>5 DEF CloseStreams
  <2>3. /\ stdin'[k] = stdin[k] \/ stdin'[k] = <<>>
        /\ unread'[k] = unread[k] \/ unread'[k] = <<>>
        /\ stdout'[k] = stdout[k] \/ stdout'[k] = <<>>
        /\ asked'[k] = asked[k] \/ asked'[k] = {}
        /\ answered'[k] = answered[k] \/ answered'[k] = {}
    BY <1>0, <2>1 DEF Silence
  <2> QED BY <1>a, <2>2, <2>3, IdsRest
<1>6. ASSUME \/ \E b \in Batches : Resume(b) \/ StartFails(b) \/ Install(b)
             \/ \E a \in Batches \cup {"close"} : FinishClose(a)
             \/ CloseSession \/ SessionClosed
      PROVE  IdsInv(k)'
  <2>1. UNCHANGED <<requestID, conn, request, pc, pipes, readerVars, unread, asked, answered>>
    BY <1>6 DEF Resume, StartFails, Install, FinishClose, CloseSession, SessionClosed
  <2> QED BY <1>a, <2>1, IdsRest
<1> QED BY <1>2, <1>3, <1>4, <1>5, <1>6, ThreadKeepsIds DEF Next

-----------------------------------------------------------------------------
(* Waiters.                                                                *)

\* What WaitersHaveCalls says of one client.
HaveCalls(k) ==
  /\ \A id \in waiters[k] : \E t \in Threads : conn[t] = k /\ request[t].id = id /\ pc[t] \in InCall
  /\ reader[k] = "handing" => \A reply \in inbox[k] : reply.to.id # line[k].to.id

LEMMA WaitersByClient == WaitersHaveCalls <=> \A k \in Clients : HaveCalls(k)
  BY DEF WaitersHaveCalls, HaveCalls, InCall, Sending, Writing

\* No new waiter, no new reply; who has a waiter still wants its reply.
LEMMA WaitersRest ==
  ASSUME ClientInv, NEW k \in Clients, requestID'[k] = requestID[k],
         \A id \in waiters'[k] : id \in waiters[k], \A reply \in inbox'[k] : reply \in inbox[k],
         \/ reader'[k] = reader[k] /\ line'[k] = line[k]
         \/ reader'[k] \notin {"delivering", "handing"},
         \A u \in Threads : conn[u] = k /\ pc[u] \in InCall /\ request[u].id \in waiters'[k] =>
           conn'[u] = k /\ pc'[u] \in InCall /\ request'[u].id = request[u].id
  PROVE  WaiterInv(k)' /\ HaveCalls(k)'
<1>1. WaiterInv(k) /\ HaveCalls(k)  BY WaitersByClient DEF ClientInv, CallsDoNotMix
<1> HIDE DEF InCall, Replies
<1>2. WaiterInv(k)'  BY <1>1 DEF WaiterInv
<1>3. HaveCalls(k)'
  <2>1. ASSUME NEW id \in waiters'[k]
        PROVE  \E t \in Threads : conn'[t] = k /\ request'[t].id = id /\ pc'[t] \in InCall
    BY <1>1, <2>1 DEF HaveCalls
  <2>2. reader'[k] = "handing" => \A reply \in inbox'[k] : reply.to.id # line'[k].to.id
    BY <1>1 DEF HaveCalls
  <2> QED BY <2>1, <2>2 DEF HaveCalls
<1> QED BY <1>2, <1>3

\* A thread's steps: a waiter comes with an id nobody had, and goes with the reply
\* or with its call.
LEMMA ThreadKeepsWaiters ==
  ASSUME ClientInv, NEW t \in Threads, ThreadStep(t) \/ Expire(t), NEW k \in Clients
  PROVE  WaiterInv(k)' /\ HaveCalls(k)'
<1> USE DEF Goes, pipes, serverVars, readerVars, sessionVars, InCall, Sending, Writing
<1>0. /\ ThreadInv(t) /\ IdsInv(k) /\ WaiterInv(k) /\ HaveCalls(k)
      /\ conn \in [Threads -> Clients \cup {None}] /\ request \in [Threads -> Requests \cup {None}]
      /\ requestID \in [Clients -> Nat] /\ inbox \in [Clients -> SUBSET Replies]
      /\ waiters \in [Clients -> SUBSET Nat]
      /\ pc \in [Threads -> {"idle", "calling", "sending", "body", "newline", "waiting",
                             "abandoning", "done", "failed", "ready"}]
  BY WaitersByClient DEF ClientInv, CallsDoNotMix, TypeOK
<1>1. /\ conn[t] \in Clients /\ request[t] \in Requests /\ \A id \in waiters[k] : id # 0
  <2>1. pc[t] \in Active
    BY DEF ThreadStep, Register, LockToWrite, WriteBody, WriteNewline, WriteFails, TakeReply,
       GiveUp, SeeEnd, AbandonWaiter, Expire, Active
  <2> HIDE DEF Requests
  <2>2. \A id \in waiters[k] : id # 0  BY <1>0 DEF WaiterInv
  <2> QED BY <1>0, <2>1, <2>2 DEF ThreadInv, Active
<1>2. UNCHANGED conn /\ \A u \in Threads \ {t} : request'[u] = request[u] /\ pc'[u] = pc[u]
  BY <1>0 DEF ThreadStep, Register, LockToWrite, WriteBody, WriteNewline, WriteFails, TakeReply,
     GiveUp, SeeEnd, AbandonWaiter, Expire
<1> HIDE DEF Requests, Replies
<1>3. CASE Register(t)
  <2>1. /\ pc[t] = "calling" /\ requestID' = [requestID EXCEPT ![conn[t]] = @ + 1]
        /\ waiters' = [waiters EXCEPT ![conn[t]] = @ \cup {requestID'[conn[t]]}]
        /\ request' = [request EXCEPT ![t].id = requestID'[conn[t]]] /\ pc' = [pc EXCEPT ![t] = "sending"]
        /\ UNCHANGED <<inbox, reader, line>>
    BY <1>3 DEF Register
  <2>2. CASE conn[t] # k
    <3>1. requestID'[k] = requestID[k] /\ waiters'[k] = waiters[k]  BY <1>0, <2>1, <2>2
    <3> QED BY <1>2, <2>1, <2>2, <3>1, WaitersRest
  <2>3. CASE conn[t] = k
    <3> DEFINE n == requestID[k] + 1
    <3>1. /\ requestID'[k] = n /\ waiters'[k] = waiters[k] \cup {n} /\ requestID[k] \in Nat
          /\ pc'[t] = "sending"
      BY <1>0, <2>1, <2>3
    <3>2. request'[t].id = n
      <4>1. request'[t] = [request[t] EXCEPT !.id = n]  BY <1>0, <2>1, <2>3, <3>1
      <4> QED BY <1>1, <4>1 DEF Requests
    <3>3. \A r \in Around(k) : r.id \in Nat /\ r.id # n
      <4>1. \A r \in Around(k) : r.id <= requestID[k]  BY <1>0 DEF IdsInv
      <4>2. \A r \in Around(k) : r.id \in Nat  BY RequestsAround
      <4> HIDE DEF Around
      <4> QED BY <3>1, <4>1, <4>2
    <3>4. /\ \A reply \in inbox[k] : reply.to.id # n
          /\ reader[k] = "handing" => line[k].to.id # n
      <4> HIDE DEF Around
      <4> QED BY <3>3, AroundIs
    <3>5. WaiterInv(k)'
      <4>1. \A id \in waiters'[k] : id \in 1..requestID'[k]
        <5>1. n \in 1..n /\ \A id \in 1..requestID[k] : id \in 1..n  BY <3>1
        <5> QED BY <1>0, <3>1, <5>1 DEF WaiterInv
      <4> HIDE DEF n
      <4> QED BY <1>0, <2>1, <3>1, <3>4, <4>1 DEF WaiterInv
    <3> HIDE DEF n
    <3>6. \A id \in waiters'[k] : \E u \in Threads : conn'[u] = k /\ request'[u].id = id /\ pc'[u] \in InCall
      <4> SUFFICES ASSUME NEW id \in waiters'[k]
                   PROVE  \E u \in Threads : conn'[u] = k /\ request'[u].id = id /\ pc'[u] \in InCall
        OBVIOUS
      <4>1. CASE id = n  BY <1>2, <2>3, <3>1, <3>2, <4>1
      <4>2. CASE id # n
        <5>1. PICK u \in Threads : conn[u] = k /\ request[u].id = id /\ pc[u] \in InCall
          BY <1>0, <3>1, <4>2 DEF HaveCalls
        <5>2. u # t  BY <2>1, <5>1
        <5> QED BY <1>2, <5>1, <5>2
      <4> QED BY <4>1, <4>2
    <3>7. HaveCalls(k)'
      <4> HIDE DEF InCall
      <4> QED BY <1>0, <2>1, <3>6 DEF HaveCalls
    <3> QED BY <3>5, <3>7
  <2> QED BY <2>2, <2>3
<1>4. CASE LockToWrite(t) \/ WriteBody(t) \/ GiveUp(t) \/ SeeEnd(t) \/ Expire(t)
  <2>1. UNCHANGED <<requestID, waiters, inbox, reader, line, request>>
        /\ (pc[t] \in InCall => pc'[t] \in InCall)
    BY <1>0, <1>4 DEF LockToWrite, WriteBody, GiveUp, SeeEnd, Expire
  <2> HIDE DEF InCall
  <2> QED BY <1>2, <2>1, WaitersRest
<1>5. CASE WriteNewline(t)
  <2>1. UNCHANGED <<requestID, waiters, inbox, reader, line>>  BY <1>5 DEF WriteNewline
  <2>2. request[t].id # 0 => request' = request /\ pc'[t] \in InCall
    <3>1. request[t].id # 0 => request[t].method # Notice  BY <1>0, <1>5 DEF WriteNewline, ThreadInv
    <3> QED BY <1>0, <1>5, <3>1 DEF WriteNewline, Notice
  <2> HIDE DEF InCall
  <2> QED BY <1>1, <1>2, <2>1, <2>2, WaitersRest
<1>6. CASE WriteFails(t)
  <2>1. /\ UNCHANGED <<requestID, waiters, inbox, reader, line, request>>
        /\ request[t].id # 0 => pc'[t] \in InCall
    BY <1>0, <1>6 DEF WriteFails
  <2> HIDE DEF InCall
  <2> QED BY <1>1, <1>2, <2>1, WaitersRest
<1>7. CASE TakeReply(t)
  <2>1. PICK reply \in inbox[conn[t]] : /\ reply.to.id = request[t].id
                                        /\ inbox' = [inbox EXCEPT ![conn[t]] = @ \ {reply}]
    BY <1>7 DEF TakeReply
  <2>2. UNCHANGED <<requestID, waiters, reader, line>>  BY <1>7 DEF TakeReply
  <2>3. conn[t] = k => request[t].id \notin waiters[k]  BY <1>0, <2>1 DEF WaiterInv
  <2>4. \A other \in inbox'[k] : other \in inbox[k]  BY <1>0, <2>1
  <2> HIDE DEF InCall
  <2> QED BY <1>2, <2>2, <2>3, <2>4, WaitersRest
<1>8. CASE AbandonWaiter(t)
  <2>1. waiters' = [waiters EXCEPT ![conn[t]] = @ \ {request[t].id}]
        /\ UNCHANGED <<requestID, inbox, reader, line, request>>
    BY <1>8 DEF AbandonWaiter
  <2>2. /\ \A id \in waiters'[k] : id \in waiters[k]
        /\ conn[t] = k => request[t].id \notin waiters'[k]
    BY <1>0, <2>1
  <2> HIDE DEF InCall
  <2> QED BY <1>2, <2>1, <2>2, WaitersRest
<1> QED BY <1>3, <1>4, <1>5, <1>6, <1>7, <1>8 DEF ThreadStep

\* Every step keeps the waiters: the reader takes one out before it hands it its
\* reply, so nobody gets a second one.
LEMMA StepKeepsWaiters ==
  ASSUME ClientInv, Next, NEW k \in Clients
  PROVE  WaiterInv(k)' /\ HaveCalls(k)'
<1> USE DEF pipes, serverVars, readerVars, threadVars, sessionVars
<1>0. /\ WaiterInv(k) /\ HaveCalls(k)
      /\ conn \in [Threads -> Clients \cup {None}] /\ request \in [Threads -> Requests \cup {None}]
      /\ requestID \in [Clients -> Nat] /\ inbox \in [Clients -> SUBSET Replies]
      /\ waiters \in [Clients -> SUBSET Nat] /\ stdout \in [Clients -> Seq(Replies \cup Noise)]
      /\ line \in [Clients -> Replies \cup {None}]
      /\ reader \in [Clients -> {"reading", "delivering", "handing", "ending", "done"}]
      /\ pc \in [Threads -> {"idle", "calling", "sending", "body", "newline", "waiting",
                             "abandoning", "done", "failed", "ready"}]
  BY WaitersByClient DEF ClientInv, CallsDoNotMix, TypeOK
<1>i. \A u \in Threads : pc[u] \in InCall => pc[u] # "idle"  BY DEF InCall, Sending, Writing
<1>n. \A l \in Replies \cup Noise : l.says = "reply" => l \in Replies  BY DEF Replies, Noise
<1> HIDE DEF Replies, Noise, Requests, InCall
<1>1. ASSUME NEW c \in Calls, LookUp(c) PROVE WaiterInv(k)' /\ HaveCalls(k)'
  <2>1. UNCHANGED <<requestID, waiters, readerVars>> /\ pc[c] = "idle"  BY <1>1 DEF LookUp, Goes
  <2>2. \A u \in Threads \ {c} : conn'[u] = conn[u] /\ request'[u] = request[u] /\ pc'[u] = pc[u]
    BY <1>0, <1>1 DEF LookUp, Goes
  <2> QED BY <1>i, <2>1, <2>2, WaitersRest
<1>2. ASSUME NEW b \in Batches, StartServer(b) PROVE WaiterInv(k)' /\ HaveCalls(k)'
  <2>1. UNCHANGED <<requestID, waiters, readerVars, conn>>  BY <1>2 DEF StartServer
  <2>2. PICK j \in Clients : Goes(j, "idle", "calling") /\ request' = [request EXCEPT ![j] = Asks(j, "initialize")]
    BY <1>2 DEF StartServer
  <2>3. \A u \in Threads \ {j} : request'[u] = request[u] /\ pc'[u] = pc[u]
    BY <1>0, <2>2 DEF Goes
  <2> QED BY <1>i, <2>1, <2>2, <2>3, WaitersRest DEF Goes
<1>3. ASSUME NEW j \in Clients,
             \/ ServerReads(j) \/ ServerReplies(j) \/ ServerRepeats(j) \/ ServerChatters(j) \/ ServerExits(j)
      PROVE  WaiterInv(k)' /\ HaveCalls(k)'
  <2>1. UNCHANGED <<requestID, waiters, readerVars, conn, request, pc>>
    BY <1>3 DEF ServerReads, ServerReplies, ServerRepeats, ServerChatters, ServerExits, UNCHANGEDClient
  <2> QED BY <2>1, WaitersRest
<1>4. ASSUME \/ \E b \in Batches : Resume(b) \/ StartFails(b) \/ Install(b)
             \/ \E a \in Batches \cup {"close"} : CloseStreams(a) \/ FinishClose(a)
             \/ CloseSession \/ SessionClosed
      PROVE  WaiterInv(k)' /\ HaveCalls(k)'
  <2>1. UNCHANGED <<requestID, waiters, readerVars, conn, request, pc>>
    BY <1>4 DEF Resume, StartFails, Install, CloseStreams, FinishClose, CloseSession, SessionClosed
  <2> QED BY <2>1, WaitersRest
<1>5. ASSUME NEW j \in Clients, ReaderStep(j) PROVE WaiterInv(k)' /\ HaveCalls(k)'
  <2>0. UNCHANGED <<requestID, conn, request, pc>>
    BY <1>5 DEF ReaderStep, ReadLine, Deliver, Hand, SeeEndOfOutput, EndReader
  <2>1. CASE j # k
    <3>1. waiters'[k] = waiters[k] /\ inbox'[k] = inbox[k] /\ reader'[k] = reader[k] /\ line'[k] = line[k]
      BY <1>0, <1>5, <2>1 DEF ReaderStep, ReadLine, Deliver, Hand, SeeEndOfOutput, EndReader
    <3> QED BY <2>0, <3>1, WaitersRest
  <2>2. CASE ReadLine(k)
    <3>1. /\ UNCHANGED <<waiters, inbox>> /\ reader[k] = "reading" /\ stdout[k] # <<>>
          /\ \/ UNCHANGED <<reader, line>>
             \/ reader' = [reader EXCEPT ![k] = "ending"]
             \/ /\ Head(stdout[k]).says = "reply" /\ line' = [line EXCEPT ![k] = Head(stdout[k])]
                /\ reader' = [reader EXCEPT ![k] = "delivering"]
      BY <2>2 DEF ReadLine
    <3>2. Head(stdout[k]) \in Replies \cup Noise
      <4>1. stdout[k] \in Seq(Replies \cup Noise)  BY <1>0
      <4> QED BY <3>1, <4>1, HeadTailProperties
    <3>3. reader'[k] # "handing" /\ (reader'[k] = "delivering" => line'[k] \in Replies)
      BY <1>0, <1>n, <3>1, <3>2
    <3>4. WaiterInv(k)'  BY <1>0, <2>0, <3>1, <3>3 DEF WaiterInv
    <3> QED BY <1>0, <2>0, <3>1, <3>3, <3>4 DEF HaveCalls
  <2>3. CASE Deliver(k)
    <3>1. /\ reader[k] = "delivering" /\ UNCHANGED inbox
          /\ reader' = [reader EXCEPT ![k] = IF line[k].to.id \in waiters[k] THEN "handing" ELSE "reading"]
          /\ waiters' = [waiters EXCEPT ![k] = @ \ {line[k].to.id}]
          /\ line' = IF line[k].to.id \in waiters[k] THEN line ELSE [line EXCEPT ![k] = None]
      BY <2>3 DEF Deliver
    <3>2. /\ waiters'[k] = waiters[k] \ {line[k].to.id}
          /\ reader'[k] # "delivering"
          /\ reader'[k] = "handing" => line'[k] = line[k] /\ line[k].to.id \in waiters[k]
      BY <1>0, <3>1
    <3>3. WaiterInv(k)'
      <4>1. line[k] \in Replies  BY <1>0, <3>1 DEF WaiterInv
      <4> QED BY <1>0, <2>0, <3>1, <3>2, <4>1 DEF WaiterInv
    <3>4. HaveCalls(k)'
      <4>1. \A reply \in inbox[k] : reply.to.id \notin waiters[k]  BY <1>0 DEF WaiterInv
      <4> QED BY <1>0, <2>0, <3>1, <3>2, <4>1 DEF HaveCalls
    <3> QED BY <3>3, <3>4
  <2>4. CASE Hand(k)
    <3>1. /\ reader[k] = "handing" /\ UNCHANGED waiters /\ reader'[k] = "reading"
          /\ inbox'[k] = inbox[k] \cup {line[k]}
      BY <1>0, <2>4 DEF Hand
    <3>2. WaiterInv(k)'  BY <1>0, <2>0, <3>1 DEF WaiterInv
    <3> QED BY <1>0, <2>0, <3>1, <3>2 DEF HaveCalls
  <2>5. CASE SeeEndOfOutput(k) \/ EndReader(k)
    <3>1. UNCHANGED <<waiters, inbox>> /\ reader'[k] \in {"ending", "done"}
      BY <1>0, <2>5 DEF SeeEndOfOutput, EndReader
    <3> QED BY <2>0, <3>1, WaitersRest
  <2> QED BY <1>5, <2>1, <2>2, <2>3, <2>4, <2>5 DEF ReaderStep
<1> QED BY <1>1, <1>2, <1>3, <1>4, <1>5, ThreadKeepsWaiters DEF Next

-----------------------------------------------------------------------------
(* What calls are told, and the theorems.                                  *)

\* Only a reply that has the id of the call's own request is told to it.
LEMMA StepKeepsAnswers ==
  ASSUME ClientInv, Next
  PROVE  AnswersAreOwn'
<1> USE DEF threadVars
<1>0. /\ AnswersAreOwn /\ Calls \subseteq Threads
      /\ inbox \in [Clients -> SUBSET Replies]
  BY DEF ClientInv, CallsDoNotMix, TypeOK, Threads
<1>f. \A why \in {"unsent", "expired", "ended", "gone", "unknown"} : Failure(why).says # "reply"
  BY VerdictTypes
<1> HIDE DEF Failure, Replies
<1>1. ASSUME UNCHANGED verdict PROVE AnswersAreOwn'  BY <1>0, <1>1 DEF AnswersAreOwn
<1>2. ASSUME NEW t \in Threads, NEW what, Tell(t, what), what.says = "reply" => what.to.by = t
      PROVE  AnswersAreOwn'
  <2>1. \A c \in Calls : verdict'[c] = IF c = t THEN what ELSE verdict[c]  BY <1>2 DEF Tell
  <2> QED BY <1>0, <1>2, <2>1 DEF AnswersAreOwn
<1>3. ASSUME NEW c \in Calls, LookUp(c) PROVE AnswersAreOwn'
  <2>1. UNCHANGED verdict \/ \E why \in {"gone", "unknown"} : Tell(c, Failure(why))
    BY <1>3 DEF LookUp
  <2> QED BY <1>0, <1>1, <1>2, <1>f, <2>1
<1>4. ASSUME NEW t \in Threads, ThreadStep(t) \/ Expire(t) PROVE AnswersAreOwn'
  <2>1. CASE TakeReply(t)
    <3>1. PICK reply \in inbox[conn[t]] : reply.to.id = request[t].id /\ Tell(t, reply)
      BY <2>1 DEF TakeReply
    <3>2. /\ conn[t] \in Clients /\ request[t].id # 0 /\ request[t].by = t
          /\ request[t] \in Around(conn[t])
      <4>1. pc[t] = "waiting"  BY <2>1 DEF TakeReply
      <4> HIDE DEF Requests
      <4>2. ThreadInv(t) /\ pc[t] \in Active  BY <4>1 DEF ClientInv, Active, InCall
      <4>3. conn[t] \in Clients /\ request[t].id # 0 /\ request[t].by = t  BY <4>1, <4>2 DEF ThreadInv
      <4> HIDE DEF Active
      <4> QED BY <4>2, <4>3 DEF Around, Asking
    <3>3. reply.to \in Around(conn[t])  BY <3>2, AroundIs
    <3>4. reply.to.by = t
      <4>1. IdsInv(conn[t])  BY <3>2 DEF ClientInv
      <4> HIDE DEF Around
      <4> QED BY <3>1, <3>2, <3>3, <4>1 DEF IdsInv
    <3> QED BY <1>2, <3>1, <3>4
  <2>2. CASE ~TakeReply(t)
    <3>1. UNCHANGED verdict \/ \E why \in {"unsent", "expired", "ended"} : Tell(t, Failure(why))
      BY <1>4, <2>2 DEF ThreadStep, Register, LockToWrite, WriteBody, WriteNewline, WriteFails,
         GiveUp, SeeEnd, AbandonWaiter, Expire
    <3> QED BY <1>1, <1>2, <1>f, <3>1
  <2> QED BY <2>1, <2>2
<1>5. ASSUME NEW k \in Clients,
             \/ ReaderStep(k) \/ ServerReads(k) \/ ServerReplies(k) \/ ServerRepeats(k)
             \/ ServerChatters(k) \/ ServerExits(k)
      PROVE  AnswersAreOwn'
  <2>1. UNCHANGED verdict
    BY <1>5 DEF ReaderStep, ReadLine, Deliver, Hand, SeeEndOfOutput, EndReader, ServerReads,
       ServerReplies, ServerRepeats, ServerChatters, ServerExits, UNCHANGEDClient
  <2> QED BY <1>1, <2>1
<1>6. ASSUME \/ \E b \in Batches : Resume(b) \/ StartServer(b) \/ StartFails(b) \/ Install(b)
             \/ \E a \in Batches \cup {"close"} : CloseStreams(a) \/ FinishClose(a)
             \/ CloseSession \/ SessionClosed
      PROVE  AnswersAreOwn'
  <2>1. UNCHANGED verdict
    BY <1>6 DEF Resume, StartServer, StartFails, Install, CloseStreams, FinishClose, CloseSession, SessionClosed
  <2> QED BY <1>1, <2>1
<1> QED BY <1>3, <1>4, <1>5, <1>6 DEF Next

\* What two writes of sendRequest leave whole has whole lines at every place.
LEMMA InputIsWhole ==
  ASSUME NEW u \in Seq(Parts), NEW s \in Seq(Parts), Whole(u \o s)
  PROVE  \A i \in DOMAIN (u \o s) :
           IF (u \o s)[i].newline
           THEN i > 1 => (u \o s)[i - 1] = [(u \o s)[i] EXCEPT !.newline = FALSE]
           ELSE i > 1 => (u \o s)[i - 1].newline
<1> HIDE DEF Parts
<1>1. u \o s \in Seq(Parts)  BY ConcatProperties
<1>2. DOMAIN (u \o s) = 1..Len(u \o s)  BY <1>1, LenProperties
<1> QED BY <1>2 DEF Whole

\* Before the session is built nobody asks for anything and no server runs.
LEMMA ClientsStart == Init => ClientInv /\ OwnerInv
<1> SUFFICES ASSUME Init PROVE ClientInv /\ OwnerInv
  OBVIOUS
<1>1. TypeOK  BY TypeInit
<1>2. \A t \in Threads : pc[t] = "idle" /\ pc[t] \notin Active /\ (t \in Clients => conn[t] = t)
  BY DEF Init, Active, InCall, Sending, Writing
<1>3. \A t \in Threads : ThreadInv(t)
  BY <1>2 DEF ThreadInv, Active, InCall, Sending, Writing
<1>4. UseInv
  <2> HIDE DEF Active
  <2> QED BY <1>2 DEF UseInv, Init
<1>5. ASSUME NEW k \in Clients PROVE MutexInv(k) /\ IdsInv(k) /\ WaiterInv(k) /\ InputInv(k)
  <2>1. /\ mu[k] = None /\ requestID[k] = 0 /\ waiters[k] = {} /\ inbox[k] = {} /\ reader[k] = "reading"
        /\ stdin[k] = <<>> /\ unread[k] = <<>> /\ stdout[k] = <<>> /\ asked[k] = {} /\ answered[k] = {}
        /\ server[k] = "unstarted"
    BY DEF Init
  <2>2. Around(k) = {}
    <3>1. Carried(<<>>) = {} /\ Answering(<<>>) = {}
      <4>1. <<>> \in Seq(Parts) /\ <<>> \in Seq(Replies \cup Noise)  OBVIOUS
      <4>2. Carried(<<>>) = {}  BY <4>1, CarriedSteps
      <4>3. Answering(<<>>) = {}  BY <4>1, AnsweringSteps
      <4> QED BY <4>2, <4>3
    <3>2. Asking(k) = {}
      <4> HIDE DEF Active
      <4> QED BY <1>2 DEF Asking
    <3>3. InHand(k) = {}  BY <2>1 DEF InHand
    <3> HIDE DEF Carried, Answering, Asking, InHand
    <3> QED BY <2>1, <3>1, <3>2, <3>3 DEF Around
  <2>3. InputInv(k)
    <3>1. Sent(k) = <<>>  BY <2>1 DEF Sent
    <3>2. Whole(<<>>)  BY DEF Whole
    <3> HIDE DEF Sent, Whole, LastOf
    <3> QED BY <2>1, <3>1, <3>2 DEF InputInv
  <2>4. IdsInv(k)
    <3> HIDE DEF Around
    <3> QED BY <2>2 DEF IdsInv
  <2> QED BY <2>1, <2>3, <2>4 DEF MutexInv, WaiterInv
<1>6. CallsDoNotMix
  <2>1. AnswersAreOwn  BY DEF Init, AnswersAreOwn
  <2>2. LinesAreWhole
    <3>1. \A k \in Clients : unread[k] \in Seq(Parts) /\ stdin[k] \in Seq(Parts)
      <4> HIDE DEF Parts
      <4> QED BY <1>1 DEF TypeOK
    <3>2. \A k \in Clients : Whole(unread[k] \o stdin[k])
      <4> HIDE DEF Whole
      <4> QED BY <1>5 DEF InputInv, Sent
    <3> HIDE DEF Parts, Whole
    <3> QED BY <3>1, <3>2, InputIsWhole DEF LinesAreWhole
  <2>3. WaitersHaveCalls
    <3>1. \A k \in Clients : waiters[k] = {} /\ reader[k] = "reading"  BY DEF Init
    <3> QED BY <3>1 DEF WaitersHaveCalls
  <2> QED BY <2>1, <2>2, <2>3 DEF CallsDoNotMix
<1>7. OwnerInv
  <2>1. \A k \in Clients : server[k] = "unstarted"  BY DEF Init
  <2>2. \A b \in Batches : Started(b) = {}
    <3>1. \A b \in Batches : \A k \in Range(ServersOf[b]) : k \in Clients  BY McpAssumption DEF Range
    <3> QED BY <2>1, <3>1 DEF Started
  <2>3. /\ \A a \in Batches \cup {"close"} : doomed[a] = {}
        /\ clients = None /\ ~closing
    BY DEF Init
  <2>4. None \notin Batches  BY McpAssumption
  <2> HIDE DEF Started
  <2> QED BY <2>1, <2>2, <2>3, <2>4 DEF OwnerInv, ServersHaveAnOwner
<1> QED BY <1>1, <1>3, <1>4, <1>5, <1>6, <1>7 DEF ClientInv

\* Every step keeps the invariants.
LEMMA ClientsStep == ClientInv /\ OwnerInv /\ [Next]_vars => ClientInv' /\ OwnerInv'
<1> SUFFICES ASSUME ClientInv, OwnerInv, [Next]_vars PROVE ClientInv' /\ OwnerInv'
  OBVIOUS
<1>1. CASE Next
  <2>1. OwnerInv'  BY <1>1, StepKeepsOwners
  <2>2. TypeOK'
    <3> HIDE DEF TypeOK, ClientInv, OwnerInv
    <3>1. ClientInv => TypeOK  BY DEF ClientInv
    <3> QED BY <1>1, <3>1, ThreadKeepsTypes, LookUpKeepsTypes, ReaderKeepsTypes, ServerKeepsTypes,
               SessionKeepsTypes DEF Next
  <2>3. UseInv'  BY <1>1, StepKeepsUse
  <2>4. (\A u \in Threads : ThreadInv(u)') /\ \A k \in Clients : MutexInv(k)'
    BY <1>1, StepKeepsThreads DEF ThreadsKept
  <2>5. \A k \in Clients : IdsInv(k)' /\ WaiterInv(k)' /\ InputInv(k)' /\ HaveCalls(k)'
    BY <1>1, StepKeepsIds, StepKeepsWaiters, StepKeepsInput
  <2>6. AnswersAreOwn'  BY <1>1, StepKeepsAnswers
  <2>7. LinesAreWhole'
    <3>1. \A k \in Clients : unread'[k] \in Seq(Parts) /\ stdin'[k] \in Seq(Parts)
      <4> HIDE DEF Parts
      <4> QED BY <2>2 DEF TypeOK
    <3>2. \A k \in Clients : Whole(unread'[k] \o stdin'[k])
      <4> HIDE DEF Whole
      <4> QED BY <2>5 DEF InputInv, Sent
    <3> HIDE DEF Parts, Whole
    <3> QED BY <3>1, <3>2, InputIsWhole DEF LinesAreWhole
  <2>8. WaitersHaveCalls'
    <3>1. (\A k \in Clients : HaveCalls(k)') => WaitersHaveCalls'
      BY DEF WaitersHaveCalls, HaveCalls, InCall, Sending, Writing
    <3> QED BY <2>5, <3>1
  <2> QED BY <2>1, <2>2, <2>3, <2>4, <2>5, <2>6, <2>7, <2>8 DEF ClientInv, CallsDoNotMix
<1>2. CASE UNCHANGED vars
  <2> USE <1>2 DEF vars, pipes, readerVars, serverVars, threadVars, sessionVars
  <2>1. TypeOK'  BY DEF ClientInv, TypeOK
  <2>2. UseInv'  BY DEF ClientInv, UseInv
  <2>3. ASSUME NEW t \in Threads PROVE ThreadInv(t)'  BY DEF ClientInv, ThreadInv
  <2>4. ASSUME NEW k \in Clients PROVE MutexInv(k)' /\ IdsInv(k)' /\ WaiterInv(k)' /\ InputInv(k)'
    <3>1. MutexInv(k)' /\ WaiterInv(k)'  BY DEF ClientInv, MutexInv, WaiterInv
    <3>2. IdsInv(k)'
      <4>1. Asking(k)' = Asking(k)  BY DEF Asking
      <4>2. \A r \in Asking(k)' : r \in Around(k) \/ r.id = 0  BY <4>1 DEF Around
      <4> QED BY <4>2, IdsRest
    <3>3. InputInv(k)'
      <4>1. Serving(k)' = Serving(k)  BY DEF Serving
      <4> QED BY <4>1, InputRests
    <3> QED BY <3>1, <3>2, <3>3
  <2>5. CallsDoNotMix'
    <3>1. CallsDoNotMix  BY DEF ClientInv
    <3>2. AnswersAreOwn'  BY <3>1 DEF CallsDoNotMix, AnswersAreOwn
    <3>3. LinesAreWhole'  BY <3>1 DEF CallsDoNotMix, LinesAreWhole
    <3>4. WaitersHaveCalls'  BY <3>1 DEF CallsDoNotMix, WaitersHaveCalls
    <3> QED BY <3>2, <3>3, <3>4 DEF CallsDoNotMix
  <2>6. OwnerInv'  BY OwnersRest
  <2> QED BY <2>1, <2>2, <2>3, <2>4, <2>5, <2>6 DEF ClientInv
<1> QED BY <1>1, <1>2

\* The invariant of the client and of the session's servers: types, who holds the
\* mutex, whose ids are around, what is on every input, who owns every server.
THEOREM ClientInvariant == Spec => [](ClientInv /\ OwnerInv)
<1>1. Init => ClientInv /\ OwnerInv  BY ClientsStart
<1>2. ClientInv /\ OwnerInv /\ [Next]_vars => (ClientInv /\ OwnerInv)'  BY ClientsStep
<1> QED BY <1>1, <1>2, PTL DEF Spec

\* A call is told the reply to its own request and no other, requests of several
\* callers never interleave on a server's input, and no waiter is left behind or
\* sent a second reply (call, sendRequest, deliver and waitForResponse).
THEOREM CallsStayApart == Spec => []CallsDoNotMix
<1>1. ClientInv /\ OwnerInv => CallsDoNotMix  BY DEF ClientInv
<1> QED BY <1>1, ClientInvariant, PTL

\* Every server process that was started is in use, being started, reaped or about
\* to be closed by somebody (startSessionMCPServers, replace and close).
THEOREM ServersAreOwned == Spec => []ServersHaveAnOwner
<1>1. ClientInv /\ OwnerInv => ServersHaveAnOwner  BY DEF OwnerInv
<1> QED BY <1>1, ClientInvariant, PTL
=============================================================================
