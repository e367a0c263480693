------------------------- MODULE ObjectTableProofs -------------------------
(***************************************************************************)
(* Proofs about ObjectTable, for every set of uids, nodes and clients.     *)
(***************************************************************************)
EXTENDS ObjectTable, TLAPS

(***************************************************************************)
(* Facts about one list of the memory map.                                 *)
(***************************************************************************)

(* A key that is absent reads as the empty list. *)
LEMMA ListOfType ==
  ASSUME TypeOK, NEW u \in Uid
  PROVE  ListOf(u) \in NodeList
BY DEF TypeOK, ListOf, NodeList, EmptyList

(* The list of a blank map has no node. *)
LEMMA ElementsOfEmpty == Elements(EmptyList) = {}
BY DEF Elements, EmptyList

(* The map has one key more, at most, after an assignment. *)
LEMMA DomainOfPut ==
  ASSUME NEW m, NEW k, NEW v
  PROVE  DOMAIN Put(m, k, v) = DOMAIN m \cup {k}
BY DEF Put

(* getNodeId finds a node exactly when memory or the database has one. *)
LEMMA ConsultedFinds ==
  ASSUME TypeOK, NEW u \in Uid
  PROVE  /\ ListConsulted(u) \in NodeList
         /\ Elements(ListConsulted(u)) =
              IF MemoryNodes(u) = {} THEN Rows(u) ELSE MemoryNodes(u)
         /\ Elements(ListConsulted(u)) # {} <=> u \in Located
<1>1. ListOf(u) \in NodeList
  BY ListOfType
<1>2. getObjectLocations(u) \in NodeList
  BY DEF getObjectLocations, NodeList
<1>3. Elements(getObjectLocations(u)) = Rows(u)
  BY DEF Elements, getObjectLocations, Rows
<1>4. QED
  BY <1>1, <1>2, <1>3 DEF ListConsulted, MemoryNodes, Located

(* Initially nothing is known and nobody waits. *)
LEMMA InitInv == Init => Inv
<1> SUFFICES ASSUME Init PROVE Inv
  OBVIOUS
<1>1. TypeOK
  BY DEF Init, TypeOK, NobodyWaits, NoCallbacks
<1>2. \A u \in Uid : MemoryNodes(u) = {} /\ Rows(u) = {}
  BY ElementsOfEmpty DEF Init, MemoryNodes, ListOf, Rows
<1>3. NoStrandedWaiter /\ EmptyListMeansNoRows /\ OnlyAnnouncedNodes
  BY <1>2 DEF Init, NoStrandedWaiter, EmptyListMeansNoRows,
     OnlyAnnouncedNodes,
     StoresNameHolders, NodesAnswered, Located, NobodyWaits, NoCallbacks, Location
<1>4. QED
  BY <1>1, <1>3 DEF Inv

(* What NotifyOwns does to the stores as the other operators see them. *)
LEMMA NotifyOwnsEffect ==
  ASSUME TypeOK, NEW u \in Uid, NEW n \in Node, NEW size \in {"none", "size"},
         NotifyOwns(u, n, size)
  PROVE  /\ TypeOK'
         /\ DOMAIN objectLocations' = DOMAIN objectLocations \cup {u}
         /\ \A v \in Uid : Rows(v)' = Rows(v)
         /\ \A v \in Uid : MemoryNodes(v)' =
              IF v = u THEN MemoryNodes(u) \cup {n} ELSE MemoryNodes(v)
<1>1. ListOf(u) \in NodeList
  BY ListOfType
<1> DEFINE new == [ListOf(u) EXCEPT ![n] = @ + 1]
<1>2. new \in NodeList /\ Elements(new) = Elements(ListOf(u)) \cup {n}
  BY <1>1 DEF NodeList, Elements
<1>3. objectLocations' = Put(objectLocations, u, new)
  BY DEF NotifyOwns
<1> HIDE DEF new
<1>4. /\ DOMAIN objectLocations' = DOMAIN objectLocations \cup {u}
      /\ objectLocations'[u] = new
      /\ \A v \in DOMAIN objectLocations \ {u} :
            objectLocations'[v] = objectLocations[v]
  BY <1>3 DEF Put
<1>5. \A v \in Uid : MemoryNodes(v)' =
        IF v = u THEN MemoryNodes(u) \cup {n} ELSE MemoryNodes(v)
  BY <1>2, <1>4 DEF MemoryNodes, ListOf, Elements
<1>6. /\ DOMAIN objectLocations' \subseteq Uid
      /\ \A v \in DOMAIN objectLocations' : objectLocations'[v] \in NodeList
  BY <1>2, <1>4 DEF TypeOK
<1>7. callbacks' \in [Uid -> [Client -> [Location -> Nat]]]
  <2>1. \A c \in Client : callbacks[u][c] \in [Location -> Nat]
                          /\ waitlist[u][c] \in Nat
    BY DEF TypeOK
  <2>2. \A c \in Client : [callbacks[u][c] EXCEPT ![n] = @ + waitlist[u][c]]
                            \in [Location -> Nat]
    BY <2>1 DEF Location
  <2>3. [c \in Client |-> [callbacks[u][c] EXCEPT ![n] = @ + waitlist[u][c]]]
          \in [Client -> [Location -> Nat]]
    BY <2>2
  <2>4. QED
    BY <2>3 DEF NotifyOwns, TypeOK
<1>8. /\ objectSizes' \in [Uid -> {"none", "size"}]
      /\ waitlist' \in [Uid -> [Client -> Nat]]
      /\ liveNodes' \subseteq Node
      /\ database' \subseteq Uid \X Node
      /\ announced' \subseteq Uid \X Node
  BY DEF NotifyOwns, TypeOK, NobodyWaits
<1>9. TypeOK'
  BY <1>6, <1>7, <1>8 DEF TypeOK
<1>10. \A v \in Uid : Rows(v)' = Rows(v)
  BY DEF NotifyOwns, Rows
<1> QED
  BY <1>4, <1>5, <1>9, <1>10

(* The announcement empties the waitlist of its uid in the same step. *)
LEMMA NotifyOwnsInv ==
  ASSUME Inv, NEW u \in Uid, NEW n \in Node, NEW size \in {"none", "size"},
         NotifyOwns(u, n, size)
  PROVE  Inv'
<1> USE DEF Inv
<1>1. /\ TypeOK'
      /\ DOMAIN objectLocations' = DOMAIN objectLocations \cup {u}
      /\ \A v \in Uid : Rows(v)' = Rows(v)
      /\ \A v \in Uid : MemoryNodes(v)' =
           IF v = u THEN MemoryNodes(u) \cup {n} ELSE MemoryNodes(v)
  BY NotifyOwnsEffect
<1>2. NoStrandedWaiter'
  <2>1. \A v \in Uid, c \in Client : waitlist'[v][c] > 0 =>
           v # u /\ waitlist[v][c] > 0
    BY DEF NotifyOwns, TypeOK, NobodyWaits
  <2>2. QED
    BY <1>1, <2>1 DEF NoStrandedWaiter, Located
<1>3. EmptyListMeansNoRows'
  BY <1>1 DEF EmptyListMeansNoRows, TypeOK
<1>4. OnlyAnnouncedNodes'
  <2>1. announced \subseteq announced' /\ <<u, n>> \in announced'
    BY DEF NotifyOwns
  <2>2. \A v \in Uid : \A m \in MemoryNodes(v)' \cup Rows(v)' :
           <<v, m>> \in announced'
    BY <1>1, <2>1 DEF OnlyAnnouncedNodes, StoresNameHolders, NodesAnswered
  <2>3. \A v \in Uid, c \in Client, m \in Node :
           callbacks'[v][c][m] > 0 =>
             callbacks[v][c][m] > 0 \/ (v = u /\ m = n)
    <3>1. ASSUME NEW v \in Uid, NEW c \in Client, NEW m \in Node,
                 ~(v = u /\ m = n)
          PROVE  callbacks'[v][c][m] = callbacks[v][c][m]
      <4>1. CASE v # u
        BY <4>1 DEF NotifyOwns, TypeOK
      <4>2. CASE v = u /\ m # n
        <5>1. callbacks'[u] = [d \in Client |->
                [callbacks[u][d] EXCEPT ![n] = @ + waitlist[u][d]]]
          BY DEF NotifyOwns, TypeOK
        <5>2. callbacks'[u][c] =
                [callbacks[u][c] EXCEPT ![n] = @ + waitlist[u][c]]
          BY <5>1
        <5>3. callbacks[u][c] \in [Location -> Nat] /\ m \in Location
          BY DEF TypeOK, Location
        <5>4. QED
          BY <4>2, <5>2, <5>3
      <4>3. QED
        BY <3>1, <4>1, <4>2
    <3>2. QED
      BY <3>1
  <2>4. QED
    BY <2>1, <2>2, <2>3 DEF OnlyAnnouncedNodes, StoresNameHolders, NodesAnswered
<1>5. QED
  BY <1>1, <1>2, <1>3, <1>4

(***************************************************************************)
(* RequestLocation caches what it consulted.  It changes neither what is   *)
(* located nor which uids have rows; a cached list is nonempty if there    *)
(* are rows to read.                                                       *)
(***************************************************************************)
LEMMA RequestLocationEffect ==
  ASSUME TypeOK, NEW u \in Uid, NEW c \in Client, RequestLocation(u, c)
  PROVE  /\ TypeOK'
         /\ DOMAIN objectLocations' = DOMAIN objectLocations \cup {u}
         /\ \A v \in Uid : Rows(v)' = Rows(v)
         /\ \A v \in Uid : MemoryNodes(v)' =
              IF v = u THEN Elements(ListConsulted(u)) ELSE MemoryNodes(v)
         /\ Located' = Located
<1> DEFINE list == ListConsulted(u)
<1>1. list \in NodeList /\ Elements(list) =
        IF MemoryNodes(u) = {} THEN Rows(u) ELSE MemoryNodes(u)
  BY ConsultedFinds
<1>2. objectLocations' = Put(objectLocations, u, list)
  BY DEF RequestLocation
<1> HIDE DEF list
<1>3. /\ DOMAIN objectLocations' = DOMAIN objectLocations \cup {u}
      /\ objectLocations'[u] = list
      /\ \A v \in DOMAIN objectLocations \ {u} :
            objectLocations'[v] = objectLocations[v]
  BY <1>2 DEF Put
<1>4. \A v \in Uid : MemoryNodes(v)' =
        IF v = u THEN Elements(list) ELSE MemoryNodes(v)
  BY <1>3 DEF MemoryNodes, ListOf, Elements
<1>5. \A v \in Uid : Rows(v)' = Rows(v)
  BY DEF RequestLocation, Rows
<1>6. Located' = Located
  BY <1>1, <1>4, <1>5 DEF Located
<1>7. TypeOK'
  <2>1. /\ DOMAIN objectLocations' \subseteq Uid
        /\ \A v \in DOMAIN objectLocations' : objectLocations'[v] \in NodeList
    BY <1>1, <1>3 DEF TypeOK
  <2>2. waitlist' \in [Uid -> [Client -> Nat]]
    <3>1. [waitlist EXCEPT ![u][c] = @ + 1] \in [Uid -> [Client -> Nat]]
      BY DEF TypeOK
    <3>2. QED
      BY <3>1 DEF RequestLocation, TypeOK
  <2>3. callbacks' \in [Uid -> [Client -> [Location -> Nat]]]
    <3>1. CASE UNCHANGED callbacks
      BY <3>1 DEF TypeOK
    <3>2. ASSUME NEW l \in NodesToReturn(ListConsulted(u)),
                 callbacks' = [callbacks EXCEPT ![u][c][l] = @ + 1]
          PROVE  callbacks' \in [Uid -> [Client -> [Location -> Nat]]]
      <4>1. l \in Location
        BY DEF NodesToReturn, Elements, Location
      <4>2. QED
        BY <3>2, <4>1 DEF TypeOK
    <3>3. QED
      BY <3>1, <3>2 DEF RequestLocation
  <2>4. QED
    BY <2>1, <2>2, <2>3 DEF RequestLocation, TypeOK
<1>8. QED
  BY <1>3, <1>4, <1>5, <1>6, <1>7 DEF list

(* A client is put on the waitlist only if neither store has a location. *)
LEMMA RequestLocationInv ==
  ASSUME Inv, NEW u \in Uid, NEW c \in Client, RequestLocation(u, c)
  PROVE  Inv'
<1> USE DEF Inv
<1>1. /\ TypeOK'
      /\ DOMAIN objectLocations' = DOMAIN objectLocations \cup {u}
      /\ \A v \in Uid : Rows(v)' = Rows(v)
      /\ \A v \in Uid : MemoryNodes(v)' =
           IF v = u THEN Elements(ListConsulted(u)) ELSE MemoryNodes(v)
      /\ Located' = Located
  BY RequestLocationEffect
<1>2. /\ Elements(ListConsulted(u)) =
           IF MemoryNodes(u) = {} THEN Rows(u) ELSE MemoryNodes(u)
      /\ Elements(ListConsulted(u)) # {} <=> u \in Located
  BY ConsultedFinds
<1>3. NoStrandedWaiter'
  <2>1. CASE UNCHANGED waitlist
    BY <1>1, <2>1 DEF NoStrandedWaiter
  <2>2. CASE /\ Elements(ListConsulted(u)) = {}
             /\ waitlist' = [waitlist EXCEPT ![u][c] = @ + 1]
    <3>1. u \notin Located
      BY <1>2, <2>2
    <3>2. \A v \in Uid, d \in Client : v # u =>
            waitlist'[v][d] = waitlist[v][d]
      BY <2>2 DEF TypeOK
    <3>3. QED
      BY <1>1, <3>1, <3>2 DEF NoStrandedWaiter
  <2>3. QED
    BY <2>1, <2>2 DEF RequestLocation
<1>4. EmptyListMeansNoRows'
  BY <1>1, <1>2 DEF EmptyListMeansNoRows, TypeOK
<1>5. OnlyAnnouncedNodes'
  <2>1. announced' = announced
    BY DEF RequestLocation
  <2>2. \A v \in Uid : \A m \in MemoryNodes(v)' \cup Rows(v)' :
           <<v, m>> \in announced
    BY <1>1, <1>2 DEF OnlyAnnouncedNodes, StoresNameHolders, NodesAnswered
  <2>3. ASSUME NEW v \in Uid, NEW d \in Client, NEW m \in Node,
               callbacks'[v][d][m] > 0
        PROVE  <<v, m>> \in announced
    <3>1. CASE UNCHANGED callbacks
      BY <2>3, <3>1 DEF OnlyAnnouncedNodes, StoresNameHolders, NodesAnswered
    <3>2. ASSUME NEW l \in NodesToReturn(ListConsulted(u)),
                 callbacks' = [callbacks EXCEPT ![u][c][l] = @ + 1]
          PROVE  <<v, m>> \in announced
      <4>1. CASE v = u /\ m = l
        <5>1. m \in Elements(ListConsulted(u))
          BY <4>1, ZeroNodeAssumption DEF NodesToReturn
        <5>2. QED
          BY <1>2, <4>1, <5>1 DEF OnlyAnnouncedNodes,
             StoresNameHolders, NodesAnswered
      <4>2. CASE ~(v = u /\ m = l)
        <5>1. m \in Location
          BY DEF Location
        <5>2. callbacks'[v][d][m] = callbacks[v][d][m]
          BY <3>2, <4>2, <5>1 DEF TypeOK
        <5>3. QED
          BY <2>3, <5>2 DEF OnlyAnnouncedNodes, StoresNameHolders, NodesAnswered
      <4>3. QED
        BY <4>1, <4>2
    <3>3. QED
      BY <3>1, <3>2 DEF RequestLocation
  <2>4. QED
    BY <2>1, <2>2, <2>3 DEF OnlyAnnouncedNodes, StoresNameHolders, NodesAnswered
<1>6. QED
  BY <1>1, <1>3, <1>4, <1>5

(* A callback that ends changes only its own count. *)
LEMMA sendCallbackInv ==
  ASSUME Inv, NEW u \in Uid, NEW c \in Client, NEW l \in Location,
         sendCallback(u, c, l)
  PROVE  Inv'
<1> USE DEF Inv
<1>1. callbacks[u][c][l] \in Nat /\ callbacks[u][c][l] > 0
  BY DEF TypeOK, sendCallback
<1>2. callbacks' \in [Uid -> [Client -> [Location -> Nat]]]
  <2>1. callbacks[u][c][l] - 1 \in Nat
    BY <1>1
  <2>2. QED
    BY <2>1 DEF sendCallback, TypeOK
<1>3. TypeOK'
  BY <1>2 DEF sendCallback, TypeOK
<1>4. NoStrandedWaiter' /\ EmptyListMeansNoRows'
  BY DEF sendCallback, NoStrandedWaiter, EmptyListMeansNoRows, Located,
     MemoryNodes, ListOf, Elements, Rows
<1>5. OnlyAnnouncedNodes'
  <2>1. \A v \in Uid : \A m \in MemoryNodes(v)' \cup Rows(v)' :
           <<v, m>> \in announced'
    BY DEF sendCallback, OnlyAnnouncedNodes,
       StoresNameHolders, NodesAnswered, MemoryNodes, ListOf, Elements, Rows
  <2>2. \A v \in Uid, d \in Client, m \in Node :
           callbacks'[v][d][m] > 0 => callbacks[v][d][m] > 0
    BY <1>1 DEF sendCallback, TypeOK, Location
  <2>3. QED
    BY <2>1, <2>2 DEF sendCallback, OnlyAnnouncedNodes,
       StoresNameHolders, NodesAnswered
<1>6. QED
  BY <1>3, <1>4, <1>5

(***************************************************************************)
(* A flush that commits leaves the map empty and replaces the rows of its  *)
(* keys by their lists.  Because a key with an empty list has no rows,     *)
(* what was located is exactly what is durable afterwards.                 *)
(***************************************************************************)
LEMMA flushToDiskEffect ==
  ASSUME TypeOK, EmptyListMeansNoRows, flushToDisk, TransactionCommits
  PROVE  /\ TypeOK'
         /\ objectLocations' = [u \in {} |-> EmptyList]
         /\ \A u \in Uid : MemoryNodes(u)' = {}
         /\ \A u \in Uid : Rows(u)' =
              IF u \in DOMAIN objectLocations THEN MemoryNodes(u) ELSE Rows(u)
         /\ Located' = Located
         /\ Durable' = Located
<1>1. /\ database' = insertOrUpdateObjectLocations
      /\ objectLocations' = [u \in {} |-> EmptyList]
      /\ UNCHANGED <<objectSizes, waitlist, liveNodes, callbacks, announced>>
  BY DEF flushToDisk
<1>2. \A u \in Uid : MemoryNodes(u)' = {}
  BY <1>1, ElementsOfEmpty DEF MemoryNodes, ListOf
<1>3. \A u \in Uid : u \notin DOMAIN objectLocations => MemoryNodes(u) = {}
  BY ElementsOfEmpty DEF MemoryNodes, ListOf
<1>4. \A u \in Uid : MemoryNodes(u) \subseteq Node
  BY DEF MemoryNodes, Elements
<1>5. \A u \in Uid, n \in Node :
        <<u, n>> \in database' <=>
          \/ <<u, n>> \in database /\ u \notin DOMAIN objectLocations
          \/ n \in MemoryNodes(u)
  BY <1>1 DEF insertOrUpdateObjectLocations, MemoryRows
<1>6. \A u \in Uid : Rows(u)' =
        IF u \in DOMAIN objectLocations THEN MemoryNodes(u) ELSE Rows(u)
  BY <1>3, <1>4, <1>5 DEF Rows
<1>7. \A u \in Uid : Rows(u)' # {} <=> MemoryNodes(u) # {} \/ Rows(u) # {}
  BY <1>3, <1>6 DEF EmptyListMeansNoRows
<1>8. Located' = Located /\ Durable' = Located
  BY <1>2, <1>7 DEF Located, Durable
<1>9. TypeOK'
  <2>1. database' \subseteq Uid \X Node
    BY <1>1 DEF insertOrUpdateObjectLocations, MemoryRows, TypeOK
  <2>2. QED
    BY <1>1, <2>1 DEF TypeOK
<1>10. QED
  BY <1>1, <1>2, <1>6, <1>8, <1>9

(* A flush moves locations to disk, or leaves everything alone. *)
LEMMA flushToDiskInv == Inv /\ flushToDisk => Inv'
<1> SUFFICES ASSUME Inv, flushToDisk PROVE Inv'
  OBVIOUS
<1> USE DEF Inv
<1>1. CASE ~TransactionCommits
  BY <1>1 DEF flushToDisk, tvars, TypeOK, NoStrandedWaiter,
     EmptyListMeansNoRows, OnlyAnnouncedNodes,
     StoresNameHolders, NodesAnswered, Located, MemoryNodes, ListOf,
     Elements, Rows
<1>2. CASE TransactionCommits
  <2>1. /\ TypeOK'
        /\ DOMAIN objectLocations' = {}
        /\ \A u \in Uid : MemoryNodes(u)' = {}
        /\ \A u \in Uid : Rows(u)' =
             IF u \in DOMAIN objectLocations THEN MemoryNodes(u) ELSE Rows(u)
        /\ Located' = Located
    BY <1>2, flushToDiskEffect
  <2>2. UNCHANGED <<waitlist, callbacks, announced>>
    BY <1>2 DEF flushToDisk
  <2>3. NoStrandedWaiter' /\ EmptyListMeansNoRows'
    BY <2>1, <2>2 DEF NoStrandedWaiter, EmptyListMeansNoRows
  <2>4. OnlyAnnouncedNodes'
    BY <2>1, <2>2 DEF OnlyAnnouncedNodes, StoresNameHolders, NodesAnswered
  <2>5. QED
    BY <2>1, <2>3, <2>4
<1>3. QED
  BY <1>1, <1>2

(* The invariant does not depend on which nodes are live. *)
LEMMA RegisterLiveNodesInv ==
  ASSUME Inv, NEW live \in SUBSET Node, RegisterLiveNodes(live)
  PROVE  Inv'
BY DEF RegisterLiveNodes, Inv, TypeOK, NoStrandedWaiter, EmptyListMeansNoRows,
   OnlyAnnouncedNodes,
   StoresNameHolders, NodesAnswered, Located, MemoryNodes, ListOf, Elements, Rows

(* A restart leaves a blank map, nobody waiting and the same rows. *)
LEMMA RestartInv == Inv /\ Restart => Inv'
<1> SUFFICES ASSUME Inv, Restart PROVE Inv'
  OBVIOUS
<1> USE DEF Inv
<1>1. TypeOK'
  BY DEF Restart, TypeOK, NobodyWaits, NoCallbacks
<1>2. \A u \in Uid : MemoryNodes(u)' = {} /\ Rows(u)' = Rows(u)
  BY ElementsOfEmpty DEF Restart, MemoryNodes, ListOf, Rows
<1>3. NoStrandedWaiter' /\ EmptyListMeansNoRows' /\ OnlyAnnouncedNodes'
  BY <1>2 DEF Restart, NoStrandedWaiter, EmptyListMeansNoRows,
     OnlyAnnouncedNodes,
     StoresNameHolders, NodesAnswered, NobodyWaits, NoCallbacks, Location
<1>4. QED
  BY <1>1, <1>3

(* Every step of the table preserves the inductive invariant. *)
LEMMA NextInv == Inv /\ [Next]_tvars => Inv'
<1> SUFFICES ASSUME Inv, [Next]_tvars PROVE Inv'
  OBVIOUS
<1>1. CASE UNCHANGED tvars
  BY <1>1 DEF tvars, Inv, TypeOK, NoStrandedWaiter, EmptyListMeansNoRows,
     OnlyAnnouncedNodes,
     StoresNameHolders, NodesAnswered, Located, MemoryNodes, ListOf, Elements, Rows
<1>2. ASSUME NEW u \in Uid, NEW n \in Node, NEW size \in {"none", "size"},
             NotifyOwns(u, n, size)
      PROVE  Inv'
  BY <1>2, NotifyOwnsInv
<1>3. ASSUME NEW u \in Uid, NEW c \in Client, RequestLocation(u, c)
      PROVE  Inv'
  BY <1>3, RequestLocationInv
<1>4. ASSUME NEW u \in Uid, NEW c \in Client, NEW l \in Location,
             sendCallback(u, c, l)
      PROVE  Inv'
  BY <1>4, sendCallbackInv
<1>5. CASE flushToDisk
  BY <1>5, flushToDiskInv
<1>6. ASSUME NEW live \in SUBSET Node, RegisterLiveNodes(live)
      PROVE  Inv'
  BY <1>6, RegisterLiveNodesInv
<1>7. CASE Restart
  BY <1>7, RestartInv
<1>8. QED
  BY <1>1, <1>2, <1>3, <1>4, <1>5, <1>6, <1>7 DEF Next

(***************************************************************************)
(* The inductive invariant holds in every reachable state of the table.    *)
(***************************************************************************)
THEOREM Invariance == Spec => []Inv
BY InitInv, NextInv, PTL DEF Spec

(* Type correctness of the table's maps, counters and rows. *)
THEOREM TypeCorrect == Spec => []TypeOK
<1>1. Inv => TypeOK
  BY DEF Inv
<1>2. QED
  BY <1>1, Invariance, PTL

(***************************************************************************)
(* No lost wake-up between RequestLocation, NotifyOwns and the flush: a    *)
(* client on the waitlist waits for an object that neither store locates.  *)
(***************************************************************************)
THEOREM NoLostWakeup == Spec => []NoStrandedWaiter
<1>1. Inv => NoStrandedWaiter
  BY DEF Inv
<1>2. QED
  BY <1>1, Invariance, PTL

(***************************************************************************)
(* The empty list that getNodeId caches never hides rows, so the DELETE of *)
(* a flush, which takes the rows of every key, deletes only what the same  *)
(* transaction inserts again or what memory knows better.                  *)
(***************************************************************************)
THEOREM EmptyListsAreTrue == Spec => []EmptyListMeansNoRows
<1>1. Inv => EmptyListMeansNoRows
  BY DEF Inv
<1>2. QED
  BY <1>1, Invariance, PTL

(***************************************************************************)
(* The memory map and the database name only nodes that called NotifyOwns  *)
(* for the uid.  (What RequestLocation answers may also be node id 0.)     *)
(***************************************************************************)
THEOREM HoldersAreAnnounced == Spec => []StoresNameHolders
<1>1. Inv => StoresNameHolders
  BY DEF Inv, OnlyAnnouncedNodes
<1>2. QED
  BY <1>1, Invariance, PTL

(***************************************************************************)
(* Which steps can change what is located or durable, and how.  All other  *)
(* steps leave both stores alone.                                          *)
(***************************************************************************)
LEMMA StoresUntouched ==
  ASSUME UNCHANGED <<objectLocations, database>>
  PROVE  Located' = Located /\ Durable' = Durable
<1>1. \A u : MemoryNodes(u)' = MemoryNodes(u) /\ Rows(u)' = Rows(u)
  BY DEF MemoryNodes, ListOf, Elements, Rows
<1>2. QED
  BY <1>1 DEF Located, Durable

(* NotifyOwns adds its uid to the located ones; the rows stay. *)
LEMMA NotifyOwnsStores ==
  ASSUME TypeOK, NEW u \in Uid, NEW n \in Node, NEW size \in {"none", "size"},
         NotifyOwns(u, n, size)
  PROVE  Located' = Located \cup {u} /\ Durable' = Durable
<1>1. /\ TypeOK'
      /\ DOMAIN objectLocations' = DOMAIN objectLocations \cup {u}
      /\ \A v \in Uid : Rows(v)' = Rows(v)
      /\ \A v \in Uid : MemoryNodes(v)' =
           IF v = u THEN MemoryNodes(u) \cup {n} ELSE MemoryNodes(v)
  BY NotifyOwnsEffect
<1>2. Durable' = Durable
  BY <1>1 DEF Durable
<1>3. \A v \in Uid : v \in Located' <=> v \in Located \/ v = u
  BY <1>1 DEF Located
<1>4. Located \subseteq Uid /\ Located' \subseteq Uid
  BY DEF Located
<1>5. QED
  BY <1>2, <1>3, <1>4

(* RequestLocation only caches what it finds. *)
LEMMA RequestLocationStores ==
  ASSUME TypeOK, NEW u \in Uid, NEW c \in Client, RequestLocation(u, c)
  PROVE  Located' = Located /\ Durable' = Durable
<1>1. Located' = Located /\ \A v \in Uid : Rows(v)' = Rows(v)
  BY RequestLocationEffect
<1>2. QED
  BY <1>1 DEF Durable

(* After a restart, what is located is what is durable. *)
LEMMA RestartStores ==
  ASSUME TypeOK, Restart
  PROVE  Located' = Durable /\ Durable' = Durable
<1>1. \A u \in Uid : MemoryNodes(u)' = {} /\ Rows(u)' = Rows(u)
  BY ElementsOfEmpty DEF Restart, MemoryNodes, ListOf, Rows
<1>2. QED
  BY <1>1 DEF Located, Durable

(* What the database can locate, the table can. *)
LEMMA DurableIsLocated == Durable \subseteq Located
BY DEF Durable, Located

(* One step of the table, seen through Located and Durable. *)
LEMMA StoresStep ==
  ASSUME Inv, [Next]_tvars
  PROVE  /\ Durable \subseteq Durable'
         /\ Located \subseteq Located' \/ Restart
<1> USE DEF Inv
<1>1. CASE UNCHANGED tvars
  BY <1>1, StoresUntouched DEF tvars
<1>2. ASSUME NEW u \in Uid, NEW n \in Node, NEW size \in {"none", "size"},
             NotifyOwns(u, n, size)
      PROVE  Durable \subseteq Durable' /\ Located \subseteq Located'
  BY <1>2, NotifyOwnsStores
<1>3. ASSUME NEW u \in Uid, NEW c \in Client, RequestLocation(u, c)
      PROVE  Durable \subseteq Durable' /\ Located \subseteq Located'
  BY <1>3, RequestLocationStores
<1>4. ASSUME NEW u \in Uid, NEW c \in Client, NEW l \in Location,
             sendCallback(u, c, l)
      PROVE  Durable \subseteq Durable' /\ Located \subseteq Located'
  BY <1>4, StoresUntouched DEF sendCallback
<1>5. CASE flushToDisk
  <2>1. CASE TransactionCommits
    BY <1>5, <2>1, flushToDiskEffect, DurableIsLocated
  <2>2. CASE ~TransactionCommits
    BY <1>5, <2>2, StoresUntouched DEF flushToDisk, tvars
  <2>3. QED
    BY <2>1, <2>2
<1>6. ASSUME NEW live \in SUBSET Node, RegisterLiveNodes(live)
      PROVE  Durable \subseteq Durable' /\ Located \subseteq Located'
  BY <1>6, StoresUntouched DEF RegisterLiveNodes
<1>7. CASE Restart
  BY <1>7, RestartStores
<1>8. QED
  BY <1>1, <1>2, <1>3, <1>4, <1>5, <1>6, <1>7 DEF Next

(***************************************************************************)
(* No flush leaves a uid that had rows without any: the DELETE of          *)
(* insertOrUpdateObjectLocations is always followed by an INSERT for it.   *)
(***************************************************************************)
THEOREM DurableForever == Spec => StaysDurable
<1>1. Inv /\ [Next]_tvars => [Durable \subseteq Durable']_tvars
  BY StoresStep
<1>2. QED
  BY <1>1, Invariance, PTL DEF Spec, StaysDurable

(* Only a restart of the server makes it forget a located object. *)
THEOREM NeverForgets == Spec => ForgetsOnlyOnRestart
<1>1. Inv /\ [Next]_tvars => [Located \subseteq Located' \/ Restart]_tvars
  BY StoresStep
<1>2. QED
  BY <1>1, Invariance, PTL DEF Spec, ForgetsOnlyOnRestart

-----------------------------------------------------------------------------
(***************************************************************************)
(* The refinement of LocationService, one lemma per kind of step.          *)
(***************************************************************************)
LEMMA InitRefines == Init => Service!Init
<1> SUFFICES ASSUME Init PROVE Service!Init
  OBVIOUS
<1>1. \A u \in Uid : MemoryNodes(u) = {} /\ Rows(u) = {}
  BY ElementsOfEmpty DEF Init, MemoryNodes, ListOf, Rows
<1>2. Located = {} /\ Durable = {}
  BY <1>1 DEF Located, Durable
<1>3. QED
  BY <1>2 DEF Init, Service!Init, Service!NobodyWaits, Service!NoAnswers,
     NobodyWaits, NoCallbacks, Location

(* NotifyOwns announces. *)
LEMMA NotifyOwnsRefines ==
  ASSUME Inv, NEW u \in Uid, NEW n \in Node, NEW size \in {"none", "size"},
         NotifyOwns(u, n, size)
  PROVE  Service!Announce(u, n)
<1>1. Located' = Located \cup {u} /\ Durable' = Durable
  BY NotifyOwnsStores DEF Inv
<1>2. QED
  BY <1>1 DEF NotifyOwns, Service!Announce, Service!NobodyWaits, NobodyWaits

(* RequestLocation waits, or is answered with a node that announced or 0. *)
LEMMA RequestLocationRefines ==
  ASSUME Inv, NEW u \in Uid, NEW c \in Client, RequestLocation(u, c)
  PROVE  Service!AskAndWait(u, c) \/ Service!AskAndAnswer(u, c)
<1> USE DEF Inv
<1>1. Located' = Located /\ Durable' = Durable
  BY RequestLocationStores
<1>2. /\ Elements(ListConsulted(u)) =
           IF MemoryNodes(u) = {} THEN Rows(u) ELSE MemoryNodes(u)
      /\ Elements(ListConsulted(u)) # {} <=> u \in Located
  BY ConsultedFinds
<1>3. CASE /\ Elements(ListConsulted(u)) = {}
           /\ waitlist' = [waitlist EXCEPT ![u][c] = @ + 1]
           /\ UNCHANGED callbacks
  BY <1>1, <1>2, <1>3 DEF RequestLocation, Service!AskAndWait
<1>4. ASSUME Elements(ListConsulted(u)) # {}, UNCHANGED waitlist,
             NEW l \in NodesToReturn(ListConsulted(u)),
             callbacks' = [callbacks EXCEPT ![u][c][l] = @ + 1]
      PROVE  Service!AskAndAnswer(u, c)
  <2>1. l \in Node \cup {ZeroNode}
    BY DEF NodesToReturn, Elements
  <2>2. l = ZeroNode \/ <<u, l>> \in announced
    BY <1>2 DEF NodesToReturn, OnlyAnnouncedNodes,
       StoresNameHolders, NodesAnswered
  <2>3. QED
    BY <1>1, <1>2, <1>4, <2>1, <2>2 DEF RequestLocation, Service!AskAndAnswer
<1>5. QED
  BY <1>3, <1>4 DEF RequestLocation

(* Every step of the table is a step of the service or leaves it alone. *)
LEMMA NextRefines ==
  ASSUME Inv, [Next]_tvars
  PROVE  [Service!Next]_(Service!svars)
<1> USE DEF Inv
<1>1. CASE UNCHANGED tvars
  BY <1>1, StoresUntouched DEF tvars, Service!svars
<1>2. ASSUME NEW u \in Uid, NEW n \in Node, NEW size \in {"none", "size"},
             NotifyOwns(u, n, size)
      PROVE  Service!Next
  BY <1>2, NotifyOwnsRefines DEF Service!Next
<1>3. ASSUME NEW u \in Uid, NEW c \in Client, RequestLocation(u, c)
      PROVE  Service!Next
  BY <1>3, RequestLocationRefines DEF Service!Next
<1>4. ASSUME NEW u \in Uid, NEW c \in Client, NEW l \in Location,
             sendCallback(u, c, l)
      PROVE  Service!Next
  <2>1. Located' = Located /\ Durable' = Durable
    BY <1>4, StoresUntouched DEF sendCallback
  <2>2. Service!Deliver(u, c, l)
    BY <1>4, <2>1 DEF sendCallback, Service!Deliver
  <2>3. QED
    BY <2>2 DEF Service!Next, Location
<1>5. CASE flushToDisk /\ TransactionCommits
  <2>1. Located' = Located /\ Durable' = Located
    BY <1>5, flushToDiskEffect
  <2>2. Service!Persist
    BY <1>5, <2>1 DEF flushToDisk, Service!Persist
  <2>3. QED
    BY <2>2 DEF Service!Next
<1>6. CASE flushToDisk /\ ~TransactionCommits
  BY <1>1, <1>6 DEF flushToDisk
<1>7. ASSUME NEW live \in SUBSET Node, RegisterLiveNodes(live)
      PROVE  UNCHANGED Service!svars
  BY <1>7, StoresUntouched DEF RegisterLiveNodes, Service!svars
<1>8. CASE Restart
  <2>1. Located' = Durable /\ Durable' = Durable
    BY <1>8, RestartStores
  <2>2. Service!Restart
    BY <1>8, <2>1 DEF Restart, Service!Restart, Service!NobodyWaits,
       Service!NoAnswers, NobodyWaits, NoCallbacks, Location
  <2>3. QED
    BY <2>2 DEF Service!Next
<1>9. QED
  BY <1>1, <1>2, <1>3, <1>4, <1>5, <1>6, <1>7, <1>8 DEF Next

(***************************************************************************)
(* The memory map, the database and the waitlist together implement the    *)
(* rendezvous: one answer per question, no question waiting for a located  *)
(* object, only unflushed objects lost in a restart.                       *)
(***************************************************************************)
THEOREM ImplementsRendezvous == Spec => Rendezvous
BY InitRefines, NextRefines, Invariance, PTL
   DEF Spec, Rendezvous, Service!Spec
=============================================================================
