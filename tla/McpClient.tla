----------------------------- MODULE McpClient -----------------------------
(***************************************************************************)
(* The MCP servers of one session: the client that multiplexes calls over *)
(* the standard streams of a server process, the handshake that starts    *)
(* one, and the replacement and the closing of a session's servers.       *)
(*                                                                        *)
(* A client's thread here is a call of the session's tools or the         *)
(* handshake that NewClient runs; the reader is the goroutine that owns   *)
(* the server's output.  Client.mu is held across steps only while a      *)
(* request is written: a write blocks when the pipe is full, and then the *)
(* mutex stays taken.                                                     *)
(*                                                                        *)
(* The server process is external.  It answers requests it has read, in   *)
(* any order, perhaps twice, perhaps never; it says things of its own; it *)
(* may exit at any time.                                                  *)
(***************************************************************************)
EXTENDS Naturals, FiniteSets, SequencesExt

CONSTANTS
  Calls,       \* calls of the session's MCP tools
  Batches,     \* sets of servers started together: the first, and those of later resumes
  Clients,     \* clients, and the server processes they start
  ServersOf,   \* the clients of each batch, in the order of their servers' names
  NameOf,      \* the server a client runs
  Wants,       \* the server each call's tool belongs to
  Offering,    \* the clients whose server offers the tools the calls want
  First,       \* the batch the session is built with
  None,
  PipeCap,     \* parts of requests a server's input holds
  OutCap,      \* lines a server's output holds
  MaxNoise,    \* bound on lines a server writes that answer nothing it was asked
  Situations   \* who acts: sets of calls, of batches resumed, of noisy servers, and "close"

ASSUME McpAssumption ==
  /\ IsFiniteSet(Calls) /\ IsFiniteSet(Clients) /\ IsFiniteSet(Batches)
  /\ Calls \cap Clients = {} /\ First \in Batches /\ "close" \notin Batches
  /\ None \notin Calls \cup Clients \cup Batches
  /\ ServersOf \in [Batches -> Seq(Clients)]
  /\ \A b, d \in Batches : b # d => Range(ServersOf[b]) \cap Range(ServersOf[d]) = {}
  /\ Offering \subseteq Clients
  /\ Situations \subseteq SUBSET (Calls \cup Batches \cup Clients \cup {"close"})
  /\ PipeCap \in Nat \ {0} /\ OutCap \in Nat \ {0} /\ MaxNoise \in Nat

Threads == Calls \cup Clients

VARIABLES
  acting,    \* the situation; never changes
  mu,        \* per client: the thread writing a request under Client.mu
  requestID, \* per client
  waiters,   \* per client: the ids in its map of waiters
  inbox,     \* per client: the replies in its waiters' channels
  stdin,     \* per client: the parts of requests in the pipe to its server
  stdout,    \* per client: the lines in the pipe from its server
  streams,   \* per client: "unopened", "open" or "closed"
  reader,    \* per client: where its reading goroutine stands
  line,      \* per client: the reply the reader has in hand
  server,    \* per client: its process, "unstarted", "up", "exited" or "reaped"
  unread,    \* per server: the parts it read since the last newline
  asked,     \* per server: the requests it read and did not answer
  answered,  \* per server: the requests it answered
  noise,     \* per server: how many of those lines it wrote
  pc,        \* where each thread stands
  conn,      \* the client each thread talks through
  request,   \* the request each thread is about
  verdict,   \* what each call was told
  expired,   \* threads whose context is done
  clients,   \* sessionMCPClients.clients: the batch in use, or None
  locked,    \* does close hold sessionMCPClients.mu?
  phase,     \* per batch: "idle", "starting", "failed" or "using"
  doomed,    \* per batch, and for "close": the clients it has still to close
  closing    \* has the session's close been asked for?

pipes == <<stdin, stdout, streams>>
serverVars == <<server, unread, asked, answered, noise>>
readerVars == <<reader, line, inbox>>
threadVars == <<pc, conn, request, verdict, expired>>
sessionVars == <<acting, clients, locked, phase, doomed, closing>>
vars == <<mu, requestID, waiters, pipes, readerVars, serverVars, threadVars, sessionVars>>

Methods == {"initialize", "notifications/initialized", "tools/list", "tools/call"}
Requests == [by: Threads, method: Methods, id: Nat]
Parts == [request: Requests, newline: BOOLEAN]
Replies == [says: {"reply"}, to: Requests, ok: BOOLEAN]
Noise == [says: {"chatter", "overlong"}, to: {None}, ok: {FALSE}]

\* What a thread is told: the reply, or why there is none.
Verdicts == [says: {"unsent", "expired", "ended", "gone", "unknown"}, to: {None}, ok: {FALSE}] \cup Replies
Failure(why) == [says |-> why, to |-> None, ok |-> FALSE]

Init ==
  /\ acting \in Situations
  /\ mu = [k \in Clients |-> None]
  /\ requestID = [k \in Clients |-> 0]
  /\ waiters = [k \in Clients |-> {}]
  /\ inbox = [k \in Clients |-> {}]
  /\ stdin = [k \in Clients |-> <<>>]
  /\ stdout = [k \in Clients |-> <<>>]
  /\ streams = [k \in Clients |-> "unopened"]
  /\ reader = [k \in Clients |-> "reading"]
  /\ line = [k \in Clients |-> None]
  /\ server = [k \in Clients |-> "unstarted"]
  /\ unread = [k \in Clients |-> <<>>]
  /\ asked = [k \in Clients |-> {}]
  /\ answered = [k \in Clients |-> {}]
  /\ noise = [k \in Clients |-> 0]
  /\ pc = [t \in Threads |-> "idle"]
  /\ conn = [t \in Threads |-> IF t \in Clients THEN t ELSE None]
  /\ request = [t \in Threads |-> None]
  /\ verdict = [c \in Calls |-> None]
  /\ expired = {}
  /\ clients = None
  /\ locked = FALSE
  /\ phase = [b \in Batches |-> IF b = First THEN "starting" ELSE "idle"]
  /\ doomed = [a \in Batches \cup {"close"} |-> {}]
  /\ closing = FALSE

Asks(t, m) == [by |-> t, method |-> m, id |-> 0]
Tell(t, what) == verdict' = [c \in Calls |-> IF c = t THEN what ELSE verdict[c]]
Goes(t, from, to) == pc[t] = from /\ pc' = [pc EXCEPT ![t] = to]

-----------------------------------------------------------------------------
(* A request: sent under the mutex, waited for without it. *)

\* A tool's Run: the client is looked up when the tool runs, not when the
\* engine is built.
LookUp(c) ==
  LET serving == IF clients = None THEN {}
                 ELSE {k \in Range(ServersOf[clients]) : NameOf[k] = Wants[c]}
      Refuse(why) == /\ Goes(c, "idle", "done")
                     /\ Tell(c, Failure(why))
                     /\ UNCHANGED <<conn, request>>
  IN /\ c \in acting /\ phase[First] = "using" /\ ~locked
     /\ \/ serving = {} /\ Refuse("gone")
        \/ \E k \in serving :
             \/ k \notin Offering /\ Refuse("unknown")
             \/ /\ k \in Offering
                /\ Goes(c, "idle", "calling")
                /\ conn' = [conn EXCEPT ![c] = k]
                /\ request' = [request EXCEPT ![c] = Asks(c, "tools/call")]
                /\ UNCHANGED verdict
     /\ UNCHANGED <<mu, requestID, waiters, pipes, readerVars, serverVars, expired, sessionVars>>

\* Mutation of Register: ids are taken from the number of calls in flight.
RegisterInFlight(t) ==
  LET k == conn[t] IN
  /\ Goes(t, "calling", "sending") /\ mu[k] = None
  /\ requestID' = [requestID EXCEPT ![k] = Cardinality(waiters[k]) + 1]
  /\ waiters' = [waiters EXCEPT ![k] = @ \cup {requestID'[k]}]
  /\ request' = [request EXCEPT ![t].id = requestID'[k]]
  /\ UNCHANGED <<mu, pipes, readerVars, serverVars, conn, verdict, expired, sessionVars>>

Register(t) ==
  LET k == conn[t] IN
  /\ Goes(t, "calling", "sending") /\ mu[k] = None
  /\ requestID' = [requestID EXCEPT ![k] = @ + 1]
  /\ waiters' = [waiters EXCEPT ![k] = @ \cup {requestID'[k]}]
  /\ request' = [request EXCEPT ![t].id = requestID'[k]]
  /\ UNCHANGED <<mu, pipes, readerVars, serverVars, conn, verdict, expired, sessionVars>>

LockToWrite(t) ==
  /\ Goes(t, "sending", "body") /\ mu[conn[t]] = None
  /\ mu' = [mu EXCEPT ![conn[t]] = t]
  /\ UNCHANGED <<requestID, waiters, pipes, readerVars, serverVars, conn, request, verdict, expired, sessionVars>>

CanWrite(k) == streams[k] = "open" /\ server[k] = "up" /\ Len(stdin[k]) < PipeCap
Writes(t, newline) ==
  stdin' = [stdin EXCEPT ![conn[t]] = Append(@, [request |-> request[t], newline |-> newline])]

\* Mutation of WriteBody: one hold of the mutex per write.
WriteBodyUnlocking(t) ==
  /\ Goes(t, "body", "newline") /\ CanWrite(conn[t])
  /\ Writes(t, FALSE)
  /\ mu' = [mu EXCEPT ![conn[t]] = None]
  /\ UNCHANGED <<requestID, waiters, stdout, streams, readerVars, serverVars, conn, request, verdict,
                 expired, sessionVars>>

WriteBody(t) ==
  /\ Goes(t, "body", "newline") /\ CanWrite(conn[t])
  /\ Writes(t, FALSE)
  /\ UNCHANGED <<mu, requestID, waiters, stdout, streams, readerVars, serverVars, conn, request, verdict,
                 expired, sessionVars>>

\* The notification of the handshake has no answer: the next request follows.
WriteNewline(t) ==
  LET notified == request[t].method = "notifications/initialized" IN
  /\ Goes(t, "newline", IF notified THEN "calling" ELSE "waiting") /\ CanWrite(conn[t])
  /\ Writes(t, TRUE)
  /\ mu' = [mu EXCEPT ![conn[t]] = None]
  /\ request' = IF notified THEN [request EXCEPT ![t] = Asks(t, "tools/list")] ELSE request
  /\ UNCHANGED <<requestID, waiters, stdout, streams, readerVars, serverVars, conn, verdict, expired,
                 sessionVars>>

\* Mutation of WriteFails: Close leaves the server's input open.
WriteFailsByExitOnly(t) ==
  LET k == conn[t] IN
  /\ pc[t] \in {"body", "newline"} /\ server[k] # "up"
  /\ pc' = [pc EXCEPT ![t] = IF request[t].id = 0 THEN "failed" ELSE "abandoning"]
  /\ Tell(t, Failure("unsent"))
  /\ mu' = [mu EXCEPT ![k] = None]
  /\ UNCHANGED <<requestID, waiters, pipes, readerVars, serverVars, conn, request, expired, sessionVars>>

WriteFails(t) ==
  LET k == conn[t] IN
  /\ pc[t] \in {"body", "newline"}
  /\ streams[k] = "closed" \/ server[k] # "up"
  /\ pc' = [pc EXCEPT ![t] = IF request[t].id = 0 THEN "failed" ELSE "abandoning"]
  /\ Tell(t, Failure("unsent"))
  /\ mu' = [mu EXCEPT ![k] = None]
  /\ UNCHANGED <<requestID, waiters, pipes, readerVars, serverVars, conn, request, expired, sessionVars>>

\* Where a thread goes when its call has returned.
AfterCall(t, ok) ==
  CASE t \in Calls -> "done"
    [] t \in Clients /\ ~ok -> "failed"
    [] t \in Clients /\ ok /\ request[t].method = "initialize" -> "sending"
    [] OTHER -> "ready"

\* The first arm of the select, and the one preferred once the output has ended.
TakeReply(t) ==
  /\ pc[t] = "waiting"
  /\ \E reply \in inbox[conn[t]] :
       /\ reply.to.id = request[t].id
       /\ Goes(t, "waiting", AfterCall(t, reply.ok))
       /\ Tell(t, reply)
       /\ inbox' = [inbox EXCEPT ![conn[t]] = @ \ {reply}]
       /\ request' = IF pc'[t] = "sending"
                     THEN [request EXCEPT ![t] = Asks(t, "notifications/initialized")] ELSE request
       /\ expired' = expired \ ({t} \cap Clients)
       /\ UNCHANGED <<mu, requestID, waiters, pipes, reader, line, serverVars, conn, sessionVars>>

\* The caller's deadline, or the client's own where the caller has none, and
\* the end of the caller's context.
Expire(t) ==
  /\ pc[t] \in {"body", "newline", "waiting"} /\ t \notin expired
  /\ t \in Clients => pc[t] = "waiting"
  /\ expired' = expired \cup {t}
  /\ UNCHANGED <<mu, requestID, waiters, pipes, readerVars, serverVars, pc, conn, request, verdict, sessionVars>>

\* Mutation of GiveUp: a call without a deadline of its own gets none.
GiveUpHandshakeOnly(t) ==
  /\ t \in Clients
  /\ Goes(t, "waiting", "abandoning") /\ t \in expired
  /\ Tell(t, Failure("expired"))
  /\ UNCHANGED <<mu, requestID, waiters, pipes, readerVars, serverVars, conn, request, expired, sessionVars>>

GiveUp(t) ==
  /\ Goes(t, "waiting", "abandoning") /\ t \in expired
  /\ Tell(t, Failure("expired"))
  /\ UNCHANGED <<mu, requestID, waiters, pipes, readerVars, serverVars, conn, request, expired, sessionVars>>

SeeEnd(t) ==
  /\ Goes(t, "waiting", "abandoning") /\ reader[conn[t]] = "done"
  /\ \A reply \in inbox[conn[t]] : reply.to.id # request[t].id
  /\ Tell(t, Failure("ended"))
  /\ UNCHANGED <<mu, requestID, waiters, pipes, readerVars, serverVars, conn, request, expired, sessionVars>>

\* Mutation of AbandonWaiter: the waiter stays in the map.
AbandonWaiterLeaving(t) ==
  /\ Goes(t, "abandoning", AfterCall(t, FALSE)) /\ mu[conn[t]] = None
  /\ expired' = expired \ ({t} \cap Clients)
  /\ UNCHANGED <<mu, requestID, waiters, pipes, readerVars, serverVars, conn, request, verdict, sessionVars>>

AbandonWaiter(t) ==
  /\ Goes(t, "abandoning", AfterCall(t, FALSE)) /\ mu[conn[t]] = None
  /\ waiters' = [waiters EXCEPT ![conn[t]] = @ \ {request[t].id}]
  /\ expired' = expired \ ({t} \cap Clients)
  /\ UNCHANGED <<mu, requestID, pipes, readerVars, serverVars, conn, request, verdict, sessionVars>>

-----------------------------------------------------------------------------
(* The goroutine that owns the server's output. *)

\* Lines that are no reply need no lock and wake nobody.
ReadLine(k) ==
  /\ reader[k] = "reading" /\ streams[k] = "open" /\ stdout[k] # <<>>
  /\ stdout' = [stdout EXCEPT ![k] = Tail(@)]
  /\ LET head == Head(stdout[k]) IN
     \/ head.says = "chatter" /\ UNCHANGED <<reader, line>>
     \/ head.says = "overlong" /\ reader' = [reader EXCEPT ![k] = "ending"] /\ UNCHANGED line
     \/ /\ head.says = "reply"
        /\ reader' = [reader EXCEPT ![k] = "delivering"]
        /\ line' = [line EXCEPT ![k] = head]
  /\ UNCHANGED <<mu, requestID, waiters, stdin, streams, inbox, serverVars, threadVars, sessionVars>>

\* The waiter is taken out of the map under the mutex.
Deliver(k) ==
  /\ reader[k] = "delivering" /\ mu[k] = None
  /\ LET id == line[k].to.id IN
     /\ reader' = [reader EXCEPT ![k] = IF id \in waiters[k] THEN "handing" ELSE "reading"]
     /\ waiters' = [waiters EXCEPT ![k] = @ \ {id}]
     /\ line' = IF id \in waiters[k] THEN line ELSE [line EXCEPT ![k] = None]
  /\ UNCHANGED <<mu, requestID, pipes, inbox, serverVars, threadVars, sessionVars>>

\* ... and is sent the reply after it: a channel of one, so this blocks if a
\* waiter is sent a second one.
Hand(k) ==
  /\ reader[k] = "handing"
  /\ \A reply \in inbox[k] : reply.to.id # line[k].to.id
  /\ inbox' = [inbox EXCEPT ![k] = @ \cup {line[k]}]
  /\ reader' = [reader EXCEPT ![k] = "reading"]
  /\ line' = [line EXCEPT ![k] = None]
  /\ UNCHANGED <<mu, requestID, waiters, pipes, serverVars, threadVars, sessionVars>>

SeeEndOfOutput(k) ==
  /\ reader[k] = "reading"
  /\ streams[k] = "closed" \/ (streams[k] = "open" /\ server[k] # "up" /\ stdout[k] = <<>>)
  /\ reader' = [reader EXCEPT ![k] = "ending"]
  /\ UNCHANGED <<mu, requestID, waiters, pipes, line, inbox, serverVars, threadVars, sessionVars>>

\* readErr is set under the mutex, then readerDone is closed.
EndReader(k) ==
  /\ reader[k] = "ending" /\ mu[k] = None
  /\ reader' = [reader EXCEPT ![k] = "done"]
  /\ UNCHANGED <<mu, requestID, waiters, pipes, line, inbox, serverVars, threadVars, sessionVars>>

-----------------------------------------------------------------------------
(* The server process. *)

Serving(k) == server[k] = "up" /\ streams[k] = "open"
Says(k, l) == Len(stdout[k]) < OutCap /\ stdout' = [stdout EXCEPT ![k] = Append(@, l)]
UNCHANGEDClient == UNCHANGED <<mu, requestID, waiters, streams, readerVars, server, threadVars, sessionVars>>

\* A line is understood if it holds one request.
ServerReads(k) ==
  /\ Serving(k) /\ stdin[k] # <<>>
  /\ stdin' = [stdin EXCEPT ![k] = Tail(@)]
  /\ LET part == Head(stdin[k]) IN
     /\ unread' = [unread EXCEPT ![k] = IF part.newline THEN <<>> ELSE Append(@, part)]
     /\ asked' = IF part.newline /\ Len(unread[k]) = 1 /\ unread[k][1].request.id # 0
                 THEN [asked EXCEPT ![k] = @ \cup {unread[k][1].request}] ELSE asked
  /\ UNCHANGED <<stdout, answered, noise>> /\ UNCHANGEDClient

\* A call returns with an error reply as it does with a result; the handshake
\* fails, so only there is the difference kept.
ServerReplies(k) ==
  \E r \in asked[k], ok \in BOOLEAN :
    /\ r.by \in Calls => ok
    /\ Serving(k) /\ Says(k, [says |-> "reply", to |-> r, ok |-> ok])
    /\ asked' = [asked EXCEPT ![k] = @ \ {r}]
    /\ answered' = [answered EXCEPT ![k] = @ \cup {r}]
    /\ UNCHANGED <<stdin, unread, noise>> /\ UNCHANGEDClient

Noisy(k) == /\ k \in acting /\ Serving(k) /\ noise[k] < MaxNoise
            /\ noise' = [noise EXCEPT ![k] = @ + 1]

ServerRepeats(k) ==
  \E r \in answered[k] :
    /\ Noisy(k) /\ Says(k, [says |-> "reply", to |-> r, ok |-> TRUE])
    /\ UNCHANGED <<stdin, unread, asked, answered>> /\ UNCHANGEDClient

ServerChatters(k) ==
  /\ Noisy(k) /\ \E l \in Noise : Says(k, l)
  /\ UNCHANGED <<stdin, unread, asked, answered>> /\ UNCHANGEDClient

\* What it wrote stays readable, what it did not read is lost.
Silence(k) ==
  /\ stdin' = [stdin EXCEPT ![k] = <<>>]
  /\ unread' = [unread EXCEPT ![k] = <<>>]
  /\ asked' = [asked EXCEPT ![k] = {}]
  /\ answered' = [answered EXCEPT ![k] = {}]

ServerExits(k) ==
  /\ Serving(k)
  /\ server' = [server EXCEPT ![k] = "exited"]
  /\ Silence(k)
  /\ UNCHANGED <<mu, requestID, waiters, stdout, streams, readerVars, noise, threadVars, sessionVars>>

-----------------------------------------------------------------------------
(* The servers of the session. *)

\* A later resume sends the session's servers again.
Resume(b) ==
  /\ b \in acting /\ phase[b] = "idle" /\ phase[First] = "using"
  /\ phase' = [phase EXCEPT ![b] = "starting"]
  /\ UNCHANGED <<mu, requestID, waiters, pipes, readerVars, serverVars, threadVars, acting, clients, locked,
                 doomed, closing>>

\* Servers are started one after the other, in the order of their names.
Ready(b) == \A k \in Range(ServersOf[b]) : pc[k] = "ready"
NextServer(b, k) ==
  \E i \in DOMAIN ServersOf[b] :
    /\ ServersOf[b][i] = k /\ pc[k] # "ready"
    /\ \A j \in 1..(i - 1) : pc[ServersOf[b][j]] = "ready"

\* NewClient up to its first request.
StartServer(b) ==
  /\ phase[b] = "starting"
  /\ \E k \in Clients :
     /\ NextServer(b, k) /\ Goes(k, "idle", "calling")
     /\ server' = [server EXCEPT ![k] = "up"]
     /\ streams' = [streams EXCEPT ![k] = "open"]
     /\ request' = [request EXCEPT ![k] = Asks(k, "initialize")]
  /\ UNCHANGED <<mu, requestID, waiters, stdin, stdout, readerVars, unread, asked, answered, noise, conn,
                 verdict, expired, sessionVars>>

Started(b) == {k \in Range(ServersOf[b]) : server[k] # "unstarted"}

\* Mutation of StartFails: only the server that failed is closed.
StartFailsAlone(b) ==
  /\ phase[b] = "starting"
  /\ \E k \in Clients :
     /\ NextServer(b, k) /\ pc[k] \in {"idle", "failed"}
     /\ doomed' = [doomed EXCEPT ![b] = Started(b) \cap {k}]
  /\ phase' = [phase EXCEPT ![b] = "failed"]
  /\ UNCHANGED <<mu, requestID, waiters, pipes, readerVars, serverVars, threadVars, acting, clients, locked,
                 closing>>

\* The process cannot be started, or its handshake fails: what runs is closed.
StartFails(b) ==
  /\ phase[b] = "starting"
  /\ \E k \in Clients : NextServer(b, k) /\ pc[k] \in {"idle", "failed"}
  /\ phase' = [phase EXCEPT ![b] = "failed"]
  /\ doomed' = [doomed EXCEPT ![b] = Started(b)]
  /\ UNCHANGED <<mu, requestID, waiters, pipes, readerVars, serverVars, threadVars, acting, clients, locked,
                 closing>>

\* newSessionMCPClients, or the swap of replace, which then closes the old ones.
Install(b) ==
  /\ phase[b] = "starting" /\ Ready(b) /\ ~locked
  /\ phase' = [phase EXCEPT ![b] = "using"]
  /\ doomed' = [doomed EXCEPT ![b] = IF clients = None THEN {} ELSE Started(clients)]
  /\ clients' = b
  /\ UNCHANGED <<mu, requestID, waiters, pipes, readerVars, serverVars, threadVars, acting, locked, closing>>

\* Session.close: the servers' own lock is held until all are closed.
CloseSession ==
  /\ "close" \in acting /\ phase[First] = "using" /\ ~closing /\ ~locked
  /\ closing' = TRUE /\ locked' = TRUE
  /\ doomed' = [doomed EXCEPT !["close"] = IF clients = None THEN {} ELSE Started(clients)]
  /\ UNCHANGED <<mu, requestID, waiters, pipes, readerVars, serverVars, threadVars, acting, clients, phase>>

SessionClosed ==
  /\ locked /\ doomed["close"] = {}
  /\ locked' = FALSE /\ clients' = None
  /\ UNCHANGED <<mu, requestID, waiters, pipes, readerVars, serverVars, threadVars, acting, phase, doomed,
                 closing>>

\* Client.Close, first half: the streams.
CloseStreams(a) ==
  \E k \in doomed[a] :
    /\ \A other \in doomed[a] : streams[other] = "open"
    /\ streams' = [streams EXCEPT ![k] = "closed"]
    /\ stdout' = [stdout EXCEPT ![k] = <<>>]
    /\ Silence(k)
    /\ UNCHANGED <<mu, requestID, waiters, readerVars, server, noise, threadVars, sessionVars>>

\* ... second half: once the reader is gone, the process is killed and reaped.
FinishClose(a) ==
  \E k \in doomed[a] :
    /\ streams[k] = "closed" /\ reader[k] = "done"
    /\ server' = [server EXCEPT ![k] = "reaped"]
    /\ doomed' = [doomed EXCEPT ![a] = @ \ {k}]
    /\ UNCHANGED <<mu, requestID, waiters, pipes, readerVars, unread, asked, answered, noise, threadVars,
                   acting, clients, locked, phase, closing>>

-----------------------------------------------------------------------------
ThreadStep(t) ==
  \/ Register(t) \/ LockToWrite(t) \/ WriteBody(t) \/ WriteNewline(t) \/ WriteFails(t)
  \/ TakeReply(t) \/ GiveUp(t) \/ SeeEnd(t) \/ AbandonWaiter(t)

ReaderStep(k) == ReadLine(k) \/ Deliver(k) \/ Hand(k) \/ SeeEndOfOutput(k) \/ EndReader(k)

Next ==
  \/ \E c \in Calls : LookUp(c)
  \/ \E t \in Threads : ThreadStep(t) \/ Expire(t)
  \/ \E k \in Clients : \/ ReaderStep(k)
                        \/ ServerReads(k) \/ ServerReplies(k) \/ ServerRepeats(k)
                        \/ ServerChatters(k) \/ ServerExits(k)
  \/ \E b \in Batches : Resume(b) \/ StartServer(b) \/ StartFails(b) \/ Install(b)
  \/ \E a \in Batches \cup {"close"} : CloseStreams(a) \/ FinishClose(a)
  \/ CloseSession \/ SessionClosed

Spec == Init /\ [][Next]_vars

\* Goroutines run, and time passes.  A server reads its input as long as it is
\* not itself stuck writing; it need not answer, and nobody need call or close.
FairSpec ==
  /\ Spec
  /\ \A t \in Threads : WF_vars(ThreadStep(t)) /\ WF_vars(Expire(t))
  /\ \A k \in Clients : /\ WF_vars(ReaderStep(k))
                        /\ WF_vars(Len(stdout[k]) < OutCap /\ ServerReads(k))
  /\ \A b \in Batches : WF_vars(StartServer(b) \/ StartFails(b) \/ Install(b))
  /\ \A a \in Batches \cup {"close"} : WF_vars(CloseStreams(a) \/ FinishClose(a))
  /\ WF_vars(SessionClosed)

-----------------------------------------------------------------------------
(* Properties *)

TypeOK ==
  /\ acting \in Situations
  /\ mu \in [Clients -> Threads \cup {None}]
  /\ requestID \in [Clients -> Nat] /\ waiters \in [Clients -> SUBSET Nat]
  /\ inbox \in [Clients -> SUBSET Replies] /\ line \in [Clients -> Replies \cup {None}]
  /\ stdin \in [Clients -> Seq(Parts)] /\ unread \in [Clients -> Seq(Parts)]
  /\ stdout \in [Clients -> Seq(Replies \cup Noise)]
  /\ \A k \in Clients : Len(stdin[k]) <= PipeCap /\ Len(stdout[k]) <= OutCap
  /\ streams \in [Clients -> {"unopened", "open", "closed"}]
  /\ reader \in [Clients -> {"reading", "delivering", "handing", "ending", "done"}]
  /\ server \in [Clients -> {"unstarted", "up", "exited", "reaped"}]
  /\ asked \in [Clients -> SUBSET Requests] /\ answered \in [Clients -> SUBSET Requests]
  /\ noise \in [Clients -> 0..MaxNoise]
  /\ pc \in [Threads -> {"idle", "calling", "sending", "body", "newline", "waiting", "abandoning",
                          "done", "failed", "ready"}]
  /\ conn \in [Threads -> Clients \cup {None}]
  /\ request \in [Threads -> Requests \cup {None}]
  /\ verdict \in [Calls -> Verdicts \cup {None}]
  /\ expired \subseteq Threads
  /\ clients \in Batches \cup {None} /\ locked \in BOOLEAN /\ closing \in BOOLEAN
  /\ phase \in [Batches -> {"idle", "starting", "failed", "using"}]
  /\ doomed \in [Batches \cup {"close"} -> SUBSET Clients]

\* A call is answered with the reply to its own request, whatever came late,
\* twice or out of order, and never with another call's (the Client comment:
\* "it cannot consume a reply belonging to another call in flight").
AnswersAreOwn ==
  \A c \in Calls : (verdict[c] # None /\ verdict[c].says = "reply") => verdict[c].to.by = c

\* The map of waiters holds nothing but calls that still want their reply,
\* however each of them ended, and the reader is never stuck on a channel that
\* has its reply already, also when the server answers twice (call,
\* waitForResponse, deliver).
WaitersHaveCalls ==
  /\ \A k \in Clients : \A id \in waiters[k] : \E t \in Threads :
       /\ conn[t] = k /\ request[t].id = id
       /\ pc[t] \in {"sending", "body", "newline", "waiting", "abandoning"}
  /\ \A k \in Clients : reader[k] = "handing" =>
       \A reply \in inbox[k] : reply.to.id # line[k].to.id

\* Requests of several callers never interleave on the server's input: every
\* newline follows the body of its own request, and only a newline separates
\* two bodies (sendRequest's two writes under one hold of mu).
LinesAreWhole ==
  \A k \in Clients : LET sent == unread[k] \o stdin[k] IN
    \A i \in DOMAIN sent :
      IF sent[i].newline
      THEN i > 1 => sent[i - 1] = [sent[i] EXCEPT !.newline = FALSE]
      ELSE i > 1 => sent[i - 1].newline

\* What one caller is told never depends on what another sends or is sent: on
\* the way out lines do not mix, on the way back replies do not, and nobody's
\* waiter stands in the way of another's reply.
CallsDoNotMix == AnswersAreOwn /\ LinesAreWhole /\ WaitersHaveCalls

\* No server process is left without somebody who uses it or is about to close
\* it, also when a batch starts in part or two resumes replace each other
\* (startSessionMCPServers, replace, close).
ServersHaveAnOwner ==
  \A b \in Batches : \A k \in Started(b) : server[k] = "reaped"
    \/ clients = b \/ phase[b] = "starting"
    \/ \E a \in DOMAIN doomed : k \in doomed[a]

\* Every call returns, unless its client's mutex is held by a write that the
\* server does not take; a silent server is not enough to hold a call
\* (waitForResponse's deadline).
StuckWriting(k) == mu[k] # None /\ Len(stdin[k]) = PipeCap
SilenceHoldsNoCall ==
  \A c \in Calls : []<>(pc[c] \in {"idle", "done"} \/ StuckWriting(conn[c]))

\* Closing a client ends its process and returns every call made through it,
\* even one that is stuck writing under the mutex the reader needs (Close).
CloseReleasesCalls ==
  \A k \in Clients : streams[k] = "closed" ~>
    /\ server[k] = "reaped"
    /\ \A c \in Calls : conn[c] = k => pc[c] = "done"

\* A call ends, by itself or with its client, whatever the server does.
CallsReturn == SilenceHoldsNoCall /\ CloseReleasesCalls
=============================================================================
