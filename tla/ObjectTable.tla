---------------------------- MODULE ObjectTable ----------------------------
(***************************************************************************)
(* The location half of the GCS object table (go/cmd/gcsobjtable): the     *)
(* memory map objectLocations in front of the SQLite table                 *)
(* object_locations, the waitlist of the clients that asked too early, and *)
(* the goroutines that call LocationFound back.  NotifyOwns,               *)
(* RequestLocation and flushToDisk each run under s.mu from beginning to   *)
(* end, so each is one action here.  A sendCallback goroutine runs outside *)
(* the lock: callbacks are counted while they are in flight and end in any *)
(* order.  The other half of the server (lineage, generating, and the      *)
(* sweep for lost objects) is module GCS.                                  *)
(*                                                                         *)
(* A list of node ids is kept as the number of occurrences of each node:   *)
(* the server never looks at the order of a list, but a node that occurs   *)
(* twice makes a flush fail, and a key with an empty list differs from a   *)
(* missing key.                                                            *)
(***************************************************************************)
EXTENDS Naturals, FiniteSets

CONSTANTS Uid,           \* object uids
          Node,          \* ids of the nodes that run a local object store
          Client,        \* addresses of the local object stores
          ZeroNode,      \* node id 0: no local object store has it
          SqlVariables,  \* SQLite's limit on "?" parameters in a statement
          MaxCopies,     \* bound: occurrences of one node in one list
          MaxPending     \* bound: equal questions, or equal answers, pending

ASSUME ZeroNodeAssumption == ZeroNode \notin Node
ASSUME BoundAssumption ==
  /\ MaxCopies \in Nat \ {0}
  /\ MaxPending \in Nat \ {0}
  /\ SqlVariables \in Nat

VARIABLES objectLocations, \* map uid -> list of node ids, partial
          objectSizes,     \* the sizes recorded: "none" (absent or 0), "size"
          waitlist,        \* waitlist[u][c]: how often c waits for u
          liveNodes,       \* the nodes of the last RegisterLiveNodes call
          callbacks,       \* callbacks[u][c][l]: running sendCallback(c, u, l)
          database,        \* rows <<object_uid, node_id>> of object_locations
          announced        \* history: every <<uid, node>> ever notified

tvars == <<objectLocations, objectSizes, waitlist, liveNodes, callbacks,
           database, announced>>

Location == Node \cup {ZeroNode}
NodeList == [Node -> Nat]
EmptyList == [n \in Node |-> 0]
Elements(list) == {n \in Node : list[n] > 0}

(* m[k] = v on a Go map; a key that is absent is added. *)
Put(m, k, v) == [x \in DOMAIN m \cup {k} |-> IF x = k THEN v ELSE m[x]]

NobodyWaits == [c \in Client |-> 0]
NoCallbacks == [u \in Uid |-> [c \in Client |-> [l \in Location |-> 0]]]

(***************************************************************************)
(* The two stores.  MemoryNodes is what the memory map knows of u, Rows    *)
(* what the database knows of it.                                          *)
(***************************************************************************)
ListOf(u) == IF u \in DOMAIN objectLocations THEN objectLocations[u]
                                             ELSE EmptyList
MemoryNodes(u) == Elements(ListOf(u))
Rows(u) == {n \in Node : <<u, n>> \in database}
Located == {u \in Uid : MemoryNodes(u) # {} \/ Rows(u) # {}}
Durable == {u \in Uid : Rows(u) # {}}

TypeOK ==
  /\ DOMAIN objectLocations \subseteq Uid
  /\ \A u \in DOMAIN objectLocations : objectLocations[u] \in NodeList
  /\ objectSizes \in [Uid -> {"none", "size"}]
  /\ waitlist \in [Uid -> [Client -> Nat]]
  /\ liveNodes \subseteq Node
  /\ callbacks \in [Uid -> [Client -> [Location -> Nat]]]
  /\ database \subseteq Uid \X Node
  /\ announced \subseteq Uid \X Node

(* main: NewGCSObjServer on an empty database file. *)
Init ==
  /\ objectLocations = [u \in {} |-> EmptyList]
  /\ objectSizes = [u \in Uid |-> "none"]
  /\ waitlist = [u \in Uid |-> NobodyWaits]
  /\ liveNodes = {}
  /\ callbacks = NoCallbacks
  /\ database = {}
  /\ announced = {}

-----------------------------------------------------------------------------
(* The bounds: one more occurrence of n, and an answer for everybody waiting. *)
HasRoom(u, n) ==
  /\ ListOf(u)[n] < MaxCopies
  /\ \A c \in Client : callbacks[u][c][n] + waitlist[u][c] <= MaxPending

(* Mutant: the test for a new key is the wrong way round. *)
NotifyOwnsSizesOldKeys(u, n, size) ==
  /\ HasRoom(u, n)
  /\ objectLocations' = Put(objectLocations, u, [ListOf(u) EXCEPT ![n] = @ + 1])
  /\ objectSizes' = IF u \notin DOMAIN objectLocations THEN objectSizes
                    ELSE [objectSizes EXCEPT ![u] = size]
  /\ callbacks' = [callbacks EXCEPT ![u] = [c \in Client |->
                     [callbacks[u][c] EXCEPT ![n] = @ + waitlist[u][c]]]]
  /\ waitlist' = [waitlist EXCEPT ![u] = NobodyWaits]
  /\ announced' = announced \cup {<<u, n>>}
  /\ UNCHANGED <<liveNodes, database>>

(***************************************************************************)
(* NotifyOwns: node n says it holds u.  Only the first notification under  *)
(* a new key records the size; a copy made by Get with caching sends none. *)
(* Everybody on the waitlist of u is called back with n.                   *)
(***************************************************************************)
NotifyOwns(u, n, size) ==
  /\ HasRoom(u, n)
  /\ objectLocations' = Put(objectLocations, u, [ListOf(u) EXCEPT ![n] = @ + 1])
  /\ objectSizes' = IF u \in DOMAIN objectLocations THEN objectSizes
                    ELSE [objectSizes EXCEPT ![u] = size]
  /\ callbacks' = [callbacks EXCEPT ![u] = [c \in Client |->
                     [callbacks[u][c] EXCEPT ![n] = @ + waitlist[u][c]]]]
  /\ waitlist' = [waitlist EXCEPT ![u] = NobodyWaits]
  /\ announced' = announced \cup {<<u, n>>}
  /\ UNCHANGED <<liveNodes, database>>

(* Mutant: SELECT without its WHERE clause. *)
getLocationsOfAnyObject(u) ==
  [n \in Node |-> IF \E v \in Uid : n \in Rows(v) THEN 1 ELSE 0]

(* db.go: the rows of u, each node once. *)
getObjectLocations(u) == [n \in Node |-> IF n \in Rows(u) THEN 1 ELSE 0]

(* Mutant: a cache miss does not look on disk. *)
ListConsultedInMemory(u) == ListOf(u)

(***************************************************************************)
(* getNodeId: the list it works with (and, on a miss, stores in the map    *)
(* even when it is empty), and the ids it draws from.  nodesToReturn       *)
(* starts with a zero element, and the nodes appended to it are the ones   *)
(* that are NOT live.                                                      *)
(***************************************************************************)
ListConsulted(u) == IF MemoryNodes(u) = {} THEN getObjectLocations(u)
                                           ELSE ListOf(u)
NodesToReturn(list) == {ZeroNode} \cup (Elements(list) \ liveNodes)

(***************************************************************************)
(* RequestLocation.  When SQLite cannot be read, or gRPC knows no peer,    *)
(* the call returns an error before anything has changed: a stuttering     *)
(* step.                                                                   *)
(***************************************************************************)
RequestLocation(u, c) ==
  /\ objectLocations' = Put(objectLocations, u, ListConsulted(u))
  /\ \/ /\ Elements(ListConsulted(u)) = {}
        /\ waitlist[u][c] < MaxPending
        /\ waitlist' = [waitlist EXCEPT ![u][c] = @ + 1]
        /\ UNCHANGED callbacks
     \/ /\ Elements(ListConsulted(u)) # {}
        /\ \E l \in NodesToReturn(ListConsulted(u)) :
             /\ callbacks[u][c][l] < MaxPending
             /\ callbacks' = [callbacks EXCEPT ![u][c][l] = @ + 1]
        /\ UNCHANGED waitlist
  /\ UNCHANGED <<objectSizes, liveNodes, database, announced>>

(***************************************************************************)
(* GetObjectLocations, the answer to the global scheduler: only what is in *)
(* memory; a cached empty list and an absent size are reported as such.    *)
(***************************************************************************)
GetObjectLocations(uids) ==
  [u \in uids \cap DOMAIN objectLocations |->
     [locations |-> objectLocations[u], bytes |-> objectSizes[u]]]

(***************************************************************************)
(* sendCallback: LocationFound returned, failed, or timed out after 5      *)
(* seconds; the outcome is ignored.                                        *)
(***************************************************************************)
sendCallback(u, c, l) ==
  /\ callbacks[u][c][l] > 0
  /\ callbacks' = [callbacks EXCEPT ![u][c][l] = @ - 1]
  /\ UNCHANGED <<objectLocations, objectSizes, waitlist, liveNodes, database,
                 announced>>

(***************************************************************************)
(* insertOrUpdateObjectLocations: one transaction that deletes the rows of *)
(* every uid in the map and inserts the lists.  It is rolled back when     *)
(* there is nothing to insert ("VALUES" with no tuple is a syntax error),  *)
(* when a list has a node twice (the primary key), and when the statement  *)
(* has more parameters than SQLite takes.                                  *)
(***************************************************************************)
MemoryRows == {r \in Uid \X Node : r[2] \in MemoryNodes(r[1])}
HasDuplicate == \E u \in DOMAIN objectLocations, n \in Node :
                   objectLocations[u][n] > 1
TooManyParameters == \/ Cardinality(DOMAIN objectLocations) > SqlVariables
                     \/ 2 * Cardinality(MemoryRows) > SqlVariables
(* Mutant: a cached empty list makes the transaction fail. *)
CommitsWithoutEmptyLists ==
  /\ MemoryRows # {} /\ ~HasDuplicate /\ ~TooManyParameters
  /\ \A u \in DOMAIN objectLocations : MemoryNodes(u) # {}
TransactionCommits == MemoryRows # {} /\ ~HasDuplicate /\ ~TooManyParameters
(* Mutant: DELETE without its WHERE clause. *)
InsertAfterDeletingAll == MemoryRows
insertOrUpdateObjectLocations ==
  {r \in database : r[1] \notin DOMAIN objectLocations} \cup MemoryRows

(* Mutant: the map starts blank even after a failed transaction. *)
flushAlwaysClears ==
  /\ database' = IF TransactionCommits THEN insertOrUpdateObjectLocations
                                       ELSE database
  /\ objectLocations' = [u \in {} |-> EmptyList]
  /\ UNCHANGED <<objectSizes, waitlist, liveNodes, callbacks, announced>>

(* flushToDisk, at every tick: write the map out and start blank, or keep it. *)
flushToDisk ==
  IF TransactionCommits
  THEN /\ database' = insertOrUpdateObjectLocations
       /\ objectLocations' = [u \in {} |-> EmptyList]
       /\ UNCHANGED <<objectSizes, waitlist, liveNodes, callbacks, announced>>
  ELSE UNCHANGED tvars

(* The first thing RegisterLiveNodes does; the sweep it starts is in GCS. *)
RegisterLiveNodes(live) ==
  /\ liveNodes' = live
  /\ UNCHANGED <<objectLocations, objectSizes, waitlist, callbacks, database,
                 announced>>

(* The process ends and is started again on the same database file. *)
Restart ==
  /\ objectLocations' = [u \in {} |-> EmptyList]
  /\ objectSizes' = [u \in Uid |-> "none"]
  /\ waitlist' = [u \in Uid |-> NobodyWaits]
  /\ liveNodes' = {}
  /\ callbacks' = NoCallbacks
  /\ UNCHANGED <<database, announced>>

(* A notification without a size comes from a node that copied the object. *)
Next ==
  \/ \E u \in Uid, n \in Node : NotifyOwns(u, n, "size")
  \/ \E u \in Uid, n \in Node : /\ \E m \in Node : <<u, m>> \in announced
                                /\ NotifyOwns(u, n, "none")
  \/ \E u \in Uid, c \in Client : RequestLocation(u, c)
  \/ \E u \in Uid, c \in Client, l \in Location : sendCallback(u, c, l)
  \/ flushToDisk
  \/ \E live \in SUBSET Node : RegisterLiveNodes(live)
  \/ Restart

Spec == Init /\ [][Next]_tvars

(* The ticker goroutine of NewGCSObjServer flushes again and again. *)
FairSpec == Spec /\ WF_tvars(flushToDisk)

-----------------------------------------------------------------------------
(***************************************************************************)
(* No lost wake-up.  RequestLocation puts a client on the waitlist only    *)
(* after the memory map and the database had nothing, NotifyOwns empties   *)
(* the waitlist, and flushes move locations between the stores meanwhile:  *)
(* a client never waits for an object that either store can locate.        *)
(***************************************************************************)
NoStrandedWaiter ==
  \A u \in Uid, c \in Client : waitlist[u][c] > 0 => u \notin Located

(***************************************************************************)
(* getNodeId caches the empty list of an unknown object, and flushToDisk   *)
(* deletes the rows of every key of the map.  That is only safe if a key   *)
(* with an empty list never coexists with rows of that uid.                *)
(***************************************************************************)
EmptyListMeansNoRows ==
  \A u \in DOMAIN objectLocations : MemoryNodes(u) = {} => Rows(u) = {}

(***************************************************************************)
(* Flushes write all lists in one statement and cache misses read them     *)
(* back: whatever memory or the database then names as a holder of an      *)
(* object is a node that announced this object, none of another one.       *)
(***************************************************************************)
StoresNameHolders ==
  \A u \in Uid : \A n \in MemoryNodes(u) \cup Rows(u) : <<u, n>> \in announced

(* Any node but 0 that an answer names is one of them: part of the proofs. *)
NodesAnswered ==
  \A u \in Uid, c \in Client, n \in Node :
    callbacks[u][c][n] > 0 => <<u, n>> \in announced
OnlyAnnouncedNodes == StoresNameHolders /\ NodesAnswered

(* The inductive invariant of the proofs. *)
Inv == TypeOK /\ NoStrandedWaiter /\ EmptyListMeansNoRows /\ OnlyAnnouncedNodes

(***************************************************************************)
(* An object that the database can locate stays locatable: although every  *)
(* flush starts by deleting rows, no commit leaves such a uid without one. *)
(***************************************************************************)
StaysDurable == [][Durable \subseteq Durable']_tvars

(***************************************************************************)
(* Nothing but a restart makes the table forget an object: caching, cache  *)
(* misses and flushes never lose the last known location.                  *)
(***************************************************************************)
ForgetsOnlyOnRestart == [][Located \subseteq Located' \/ Restart]_tvars

(***************************************************************************)
(* The table implements the rendezvous of LocationService: a uid is        *)
(* located when memory or the database has a node for it, durable when the *)
(* database has one.                                                       *)
(***************************************************************************)
Service == INSTANCE LocationService
             WITH located <- Located, durable <- Durable, owners <- announced,
                  waiting <- waitlist, answers <- callbacks
Rendezvous == Service!Spec

(***************************************************************************)
(* Under the periodic flush, every object the table can locate reaches the *)
(* database, unless a restart loses it or the transaction is refused for   *)
(* good: a node twice in a list, or too many parameters.                   *)
(***************************************************************************)
BecomesDurable ==
  \A u \in Uid : u \in Located ~>
    (u \in Durable \/ u \notin Located \/ HasDuplicate \/ TooManyParameters)
=============================================================================
