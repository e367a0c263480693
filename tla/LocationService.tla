-------------------------- MODULE LocationService --------------------------
(***************************************************************************)
(* What the GCS object table promises to the local object stores, with no  *)
(* mention of its memory map, of SQLite or of its cache-miss path: a       *)
(* rendezvous between the nodes that announce an object (NotifyOwns) and   *)
(* the clients that ask where it is (RequestLocation).                     *)
(*                                                                         *)
(*  - every question is answered at once when the object is located, and   *)
(*    otherwise waits until the next announcement answers it: one answer   *)
(*    per question, and nobody waits for an object that is located;        *)
(*  - a location in an answer is a node that has announced the object, or  *)
(*    ZeroNode (see getNodeId in ObjectTable for where that comes from);   *)
(*  - a restart forgets the questions, the answers being sent and every    *)
(*    object located since the last Persist, and nothing else.             *)
(***************************************************************************)
EXTENDS Naturals

CONSTANTS Uid,       \* object uids
          Node,      \* ids of the nodes that run a local object store
          Client,    \* addresses of the local object stores
          ZeroNode   \* the node id 0, never the id of an object store

VARIABLES located,   \* uids the service can answer for
          durable,   \* uids it can still answer for after a restart
          owners,    \* every <<uid, node>> ever announced
          waiting,   \* waiting[u][c]: questions of c about u not answered yet
          answers    \* answers[u][c][l]: answers "u is at l" on their way to c

svars == <<located, durable, owners, waiting, answers>>

NobodyWaits == [c \in Client |-> 0]
NoAnswers == [u \in Uid |-> [c \in Client |->
                [l \in Node \cup {ZeroNode} |-> 0]]]

Init ==
  /\ located = {}
  /\ durable = {}
  /\ owners = {}
  /\ waiting = [u \in Uid |-> NobodyWaits]
  /\ answers = NoAnswers

(* Node n announces that it holds u: all who wait for u are told. *)
Announce(u, n) ==
  /\ located' = located \cup {u}
  /\ owners' = owners \cup {<<u, n>>}
  /\ answers' = [answers EXCEPT ![u] = [c \in Client |->
                   [answers[u][c] EXCEPT ![n] = @ + waiting[u][c]]]]
  /\ waiting' = [waiting EXCEPT ![u] = NobodyWaits]
  /\ UNCHANGED durable

AskAndWait(u, c) ==
  /\ u \notin located
  /\ waiting' = [waiting EXCEPT ![u][c] = @ + 1]
  /\ UNCHANGED <<located, durable, owners, answers>>

AskAndAnswer(u, c) ==
  /\ u \in located
  /\ \E l \in Node \cup {ZeroNode} :
       /\ l = ZeroNode \/ <<u, l>> \in owners
       /\ answers' = [answers EXCEPT ![u][c][l] = @ + 1]
  /\ UNCHANGED <<located, durable, owners, waiting>>

(* An answer arrives, or its client cannot be reached. *)
Deliver(u, c, l) ==
  /\ answers[u][c][l] > 0
  /\ answers' = [answers EXCEPT ![u][c][l] = @ - 1]
  /\ UNCHANGED <<located, durable, owners, waiting>>

Persist ==
  /\ durable' = located
  /\ UNCHANGED <<located, owners, waiting, answers>>

Restart ==
  /\ located' = durable
  /\ waiting' = [u \in Uid |-> NobodyWaits]
  /\ answers' = NoAnswers
  /\ UNCHANGED <<durable, owners>>

Next ==
  \/ \E u \in Uid, n \in Node : Announce(u, n)
  \/ \E u \in Uid, c \in Client : AskAndWait(u, c) \/ AskAndAnswer(u, c)
  \/ \E u \in Uid, c \in Client, l \in Node \cup {ZeroNode} : Deliver(u, c, l)
  \/ Persist
  \/ Restart

Spec == Init /\ [][Next]_svars
=============================================================================
