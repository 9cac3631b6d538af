------------------------------ MODULE Mailbox ------------------------------
(***************************************************************************)
(* What a session promises to whoever sends it a message, without turns,   *)
(* locks, channels or compactions: an accepted message waits, is read into *)
(* the conversation once, and stays in it.  Only a lossy session may lose  *)
(* one, either before it is read or from the tail of the conversation.     *)
(***************************************************************************)
EXTENDS Naturals, Sequences, FiniteSets, Functions

CONSTANTS
  Conversations,  \* the sessions
  Senders,        \* the messages, each sent at most once
  Addressee,      \* Addressee[m]: the conversation message m is for
  Lossy           \* the conversations that may lose a message

VARIABLES
  waiting,  \* waiting[k]: accepted and not yet read
  read,     \* read[k]: the conversation, in the order the model sees it
  lost      \* messages that were accepted and will never be read

vars == <<waiting, read, lost>>

Known(m) ==
  m \in waiting[Addressee[m]] \cup Range(read[Addressee[m]]) \cup lost

\* The ways to line up some of the messages of S.
Orders(S) ==
  {s \in UNION {[1..n -> S] : n \in 0..Cardinality(S)} : IsInjective(s)}

Init ==
  /\ waiting = [k \in Conversations |-> {}]
  /\ read = [k \in Conversations |-> <<>>]
  /\ lost = {}

Accept(m) ==
  /\ ~Known(m)
  /\ waiting' = [waiting EXCEPT ![Addressee[m]] = @ \cup {m}]
  /\ UNCHANGED <<read, lost>>

Read(k) ==
  /\ \E s \in Orders(waiting[k]) :
       /\ read' = [read EXCEPT ![k] = @ \o s]
       /\ waiting' = [waiting EXCEPT ![k] = @ \ Range(s)]
  /\ UNCHANGED lost

LoseUnread(k) ==
  /\ k \in Lossy
  /\ \E M \in SUBSET waiting[k] :
       /\ waiting' = [waiting EXCEPT ![k] = @ \ M]
       /\ lost' = lost \cup M
  /\ UNCHANGED read

LoseTail(k) ==
  /\ k \in Lossy
  /\ \E n \in 0..Len(read[k]) :
       /\ read' = [read EXCEPT ![k] = SubSeq(@, 1, n)]
       /\ lost' = lost \cup Range(SubSeq(read[k], n + 1, Len(read[k])))
  /\ UNCHANGED waiting

Next ==
  \/ \E m \in Senders : Accept(m)
  \/ \E k \in Conversations : Read(k) \/ LoseUnread(k) \/ LoseTail(k)

Spec == Init /\ [][Next]_vars
=============================================================================
