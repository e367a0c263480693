----------------------- MODULE GlobalSchedulerProofs -----------------------
(***************************************************************************)
(* Proofs about GlobalScheduler: both loops of getBestWorker, for any      *)
(* finite sets of nodes and uids, any number of concurrent calls, any      *)
(* reports, sizes, timeout and number of slots.                            *)
(***************************************************************************)
EXTENDS GlobalScheduler, FiniteSetTheorems, TLAPS

-----------------------------------------------------------------------------
(* Bytes.                                                                  *)

(* Finitely many finite sets have a finite union. *)
LEMMA FiniteFamily ==
  ASSUME NEW D, IsFiniteSet(D), NEW f, f = [x \in D |-> f[x]],
         \A x \in D : IsFiniteSet(f[x])
  PROVE  IsFiniteSet(UNION {f[x] : x \in D})
<1> DEFINE T == {f[x] : x \in D}
<1>1. f \in [D -> T]
  OBVIOUS
<1>2. f \in Surjection(D, T)
  BY <1>1 DEF Surjection
<1>3. IsFiniteSet(T)
  BY <1>2, FS_Surjection
<1>4. \A X \in T : IsFiniteSet(X)
  OBVIOUS
<1>5. QED
  BY <1>3, <1>4, FS_UNION

(* The copies of one object have finitely many bytes. *)
LEMMA FiniteBytes ==
  ASSUME NEW u, NEW copies \in Nat, NEW size \in Nat
  PROVE  IsFiniteSet({u} \X Bytes(copies, size))
<1>1. IsFiniteSet(1 .. copies) /\ IsFiniteSet(1 .. size) /\ IsFiniteSet({u})
  <2>1. 1 \in Int /\ copies \in Int /\ size \in Int
    OBVIOUS
  <2>2. IsFiniteSet(1 .. copies) /\ IsFiniteSet(1 .. size)
    BY <2>1, FS_Interval
  <2>3. QED
    BY <2>2, FS_Singleton
<1>2. IsFiniteSet(Bytes(copies, size))
  BY <1>1, FS_Product DEF Bytes
<1>3. QED
  BY <1>1, <1>2, FS_Product

(* What the GCS can have answered, about arguments only. *)
IsReply(r) ==
  /\ DOMAIN r \subseteq Uid
  /\ \A u \in DOMAIN r : r[u] \in Message!LocationByteTuple

LEMMA ReplyType ==
  ASSUME NEW r, IsReply(r), NEW u \in DOMAIN r, NEW n \in Node
  PROVE  r[u].locations[n] \in Nat /\ r[u].bytes \in Nat /\ ObjectSize[u] \in Nat
BY GSAssumption DEF IsReply, Message!LocationByteTuple

LEMMA BytesAreFinite ==
  ASSUME NEW c, IsReply(locations[c]), NEW n \in Node
  PROVE  IsFiniteSet(BytesOn(c, n)) /\ IsFiniteSet(BytesToFetch(c, n))
<1> DEFINE D == DOMAIN locations[c]
           L == {v \in D : locations[c][v].locations[n] = 0}
           f == [u \in D |-> {u} \X Bytes(locations[c][u].locations[n],
                                          locations[c][u].bytes)]
           h == [u \in L |-> {u} \X Bytes(1, ObjectSize[u])]
<1>1. IsFiniteSet(D) /\ IsFiniteSet(L)
  <2>1. IsFiniteSet(Uid) /\ D \in SUBSET Uid /\ L \in SUBSET Uid
    BY GSAssumption DEF IsReply
  <2>2. QED
    BY <2>1, FS_Subset
<1>2. \A u \in D : IsFiniteSet(f[u])
  BY ReplyType, FiniteBytes
<1>3. \A u \in L : IsFiniteSet(h[u])
  BY ReplyType, FiniteBytes
<1>4. BytesOn(c, n) = UNION {f[u] : u \in D} /\ BytesToFetch(c, n) = UNION {h[u] : u \in L}
  BY DEF BytesOn, BytesToFetch
<1>5. f = [u \in D |-> f[u]] /\ h = [u \in L |-> h[u]]
  OBVIOUS
<1> HIDE DEF f, h, D, L
<1>6. QED
  BY <1>1, <1>2, <1>3, <1>4, <1>5, FiniteFamily

(* The bytes on one node are part of the total: no transfer time is negative. *)
LEMMA TransferTimeType ==
  ASSUME NEW c, IsReply(locations[c]), NEW n \in Node
  PROVE  /\ LocationToBytes(c, n) \in Nat /\ Total(c) \in Nat
         /\ LocationToBytes(c, n) <= Total(c)
         /\ TransferTime(c, n) \in Nat
<1> DEFINE f == [m \in Node |-> {m} \X BytesOn(c, m)]
           All == UNION {{m} \X BytesOn(c, m) : m \in Node}
<1>1. \A m \in Node : IsFiniteSet(f[m])
  <2> SUFFICES ASSUME NEW m \in Node PROVE IsFiniteSet({m} \X BytesOn(c, m))
    OBVIOUS
  <2>1. IsFiniteSet({m}) /\ IsFiniteSet(BytesOn(c, m))
    BY BytesAreFinite, FS_Singleton
  <2>2. QED
    BY <2>1, FS_Product
<1>2. IsFiniteSet(UNION {f[m] : m \in Node})
  <2>1. IsFiniteSet(Node) /\ f = [m \in Node |-> f[m]]
    BY GSAssumption
  <2> HIDE DEF f
  <2>2. QED
    BY <1>1, <2>1, FiniteFamily
<1>3. IsFiniteSet(All)
  <2>1. All = UNION {f[m] : m \in Node}
    OBVIOUS
  <2>2. QED
    BY <1>2, <2>1
<1>4. {n} \X BytesOn(c, n) \in SUBSET All
  OBVIOUS
<1>5. IsFiniteSet(BytesOn(c, n)) /\ IsFiniteSet({n}) /\ Cardinality({n}) = 1
  BY BytesAreFinite, FS_Singleton
<1>6. Cardinality({n} \X BytesOn(c, n)) = Cardinality({n}) * Cardinality(BytesOn(c, n))
  BY <1>5, FS_Product
<1>7. Cardinality({n} \X BytesOn(c, n)) <= Cardinality(All)
  BY <1>3, <1>4, FS_Subset
<1>8. Cardinality(BytesOn(c, n)) \in Nat /\ Cardinality(All) \in Nat
  BY <1>3, <1>5, FS_CardinalityType
<1>9. Cardinality(BytesOn(c, n)) <= Cardinality(All)
  BY <1>5, <1>6, <1>7, <1>8
<1>10. LocationToBytes(c, n) = Cardinality(BytesOn(c, n)) /\ Total(c) = Cardinality(All)
  BY DEF LocationToBytes, Total
<1> HIDE DEF All
<1>11. QED
  BY <1>8, <1>9, <1>10 DEF TransferTime

(***************************************************************************)
(* With the sizes on record and no node twice in a list, what a node has   *)
(* and what it lacks add up to the same number on every node.              *)
(***************************************************************************)
OneCopyOfEach(c) == UNION {{u} \X Bytes(1, ObjectSize[u]) : u \in DOMAIN locations[c]}

LEMMA BytesAddUp ==
  ASSUME NEW c, IsReply(locations[c]), SizesKnown(c), NodesOnce(c), NEW n \in Node
  PROVE  LocationToBytes(c, n) + MissingBytes(c, n) = Cardinality(OneCopyOfEach(c))
<1> DEFINE D == DOMAIN locations[c]
<1>1. \A u \in D : locations[c][u].locations[n] \in {0, 1}
  BY ReplyType DEF NodesOnce
<1>2. \A u \in D : locations[c][u].bytes = ObjectSize[u]
  BY DEF SizesKnown
<1>3. \A s : Bytes(0, s) = {}
  BY DEF Bytes
<1>4. ASSUME NEW b
      PROVE  b \in BytesOn(c, n) <=>
               \E u \in D : locations[c][u].locations[n] = 1
                            /\ b \in {u} \X Bytes(1, ObjectSize[u])
  BY <1>1, <1>2, <1>3 DEF BytesOn
<1>5. ASSUME NEW b
      PROVE  b \in BytesToFetch(c, n) <=>
               \E u \in D : locations[c][u].locations[n] = 0
                            /\ b \in {u} \X Bytes(1, ObjectSize[u])
  BY DEF BytesToFetch
<1>6. ASSUME NEW b
      PROVE  b \in OneCopyOfEach(c) <=>
               \E u \in D : b \in {u} \X Bytes(1, ObjectSize[u])
  BY DEF OneCopyOfEach
<1>7. OneCopyOfEach(c) = BytesOn(c, n) \cup BytesToFetch(c, n)
  BY <1>1, <1>4, <1>5, <1>6
<1>8. BytesOn(c, n) \cap BytesToFetch(c, n) = {}
  <2>1. ASSUME NEW b \in BytesOn(c, n), b \in BytesToFetch(c, n)
        PROVE  FALSE
    <3>1. PICK u \in D : locations[c][u].locations[n] = 1
                         /\ b \in {u} \X Bytes(1, ObjectSize[u])
      BY <1>4
    <3>2. PICK v \in D : locations[c][v].locations[n] = 0
                         /\ b \in {v} \X Bytes(1, ObjectSize[v])
      BY <1>5, <2>1
    <3>3. u = v
      BY <3>1, <3>2
    <3>4. QED
      BY <3>1, <3>2, <3>3
  <2>2. QED
    BY <2>1
<1>9. /\ IsFiniteSet(BytesOn(c, n)) /\ IsFiniteSet(BytesToFetch(c, n))
  BY BytesAreFinite
<1>10. Cardinality(BytesOn(c, n) \cup BytesToFetch(c, n)) =
         Cardinality(BytesOn(c, n)) + Cardinality(BytesToFetch(c, n)) - Cardinality({})
  BY <1>8, <1>9, FS_Union
<1>11. /\ Cardinality(BytesOn(c, n)) \in Nat /\ Cardinality(BytesToFetch(c, n)) \in Nat
       /\ Cardinality({}) = 0
  BY <1>9, FS_CardinalityType, FS_EmptySet
<1>12. QED
  BY <1>7, <1>10, <1>11 DEF LocationToBytes, MissingBytes

-----------------------------------------------------------------------------
(* The inductive invariant.                                                *)

(* The replies are about arguments. *)
RepliesAreAboutArguments == DOMAIN locations = Call
                            /\ \A c \in Call : IsReply(locations[c])

(* A node that reported no free slot is charged for the task that must end. *)
FullIsCharged == \A n \in DOMAIN status : IsFull(n) => status[n].numQueuedTasks > 0

(* Only calls with locality take the unlocked path, and nobody has a pick early. *)
PathsApart ==
  /\ \A c \in Call : pc[c] \in {"locate", "range"} => Locality(c)
  /\ \A c \in disturbed : Locality(c)
  /\ \A c \in Call : pc[c] \in {"idle", "locate", "range"} => best[c] = NoPick

(***************************************************************************)
(* The loop invariant of both loops, as long as no Heartbeat has disturbed *)
(* the call: no live node among the visited ones beats the best so far.    *)
(***************************************************************************)
Visited(c) == DOMAIN status \ keys[c]
BestSoFar(c) ==
  IF best[c] = NoPick THEN \A n \in Visited(c) : ~IsLive(n)
  ELSE /\ best[c].id \in DOMAIN status
       /\ best[c].time = WaitingTime(c, best[c].id)
       /\ \A n \in Visited(c) : IsLive(n) => best[c].time <= WaitingTime(c, n)
LoopsAreRight ==
  \A c \in Call : pc[c] = "visit" /\ c \notin disturbed => BestSoFar(c)

(* Entries are never removed, so that every key of a loop has one. *)
KeysHaveEntries == \A c \in Call : keys[c] \subseteq DOMAIN status

GSInv == /\ GSTypeOK /\ RepliesAreAboutArguments /\ FullIsCharged /\ PathsApart
         /\ KeysHaveEntries /\ LoopsAreRight

-----------------------------------------------------------------------------
(* Times.                                                                  *)

LEMMA ProductType == \A a \in Nat, b \in Nat : a * b \in Nat
OBVIOUS

LEMMA QueueingTimeType ==
  ASSUME GSTypeOK, NEW n \in DOMAIN status
  PROVE  QueueingTime(n) \in Nat
<1>1. status[n].numQueuedTasks \in Nat /\ status[n].avgRunningTime \in Nat
  BY DEF GSTypeOK, HeartbeatEntry
<1>2. QED
  BY <1>1, ProductType DEF QueueingTime

LEMMA WaitingTimeType ==
  ASSUME GSTypeOK, NEW c \in Call, IsReply(locations[c]), NEW n \in DOMAIN status
  PROVE  WaitingTime(c, n) \in Nat
<1>1. n \in Node
  BY DEF GSTypeOK
<1>2. QueueingTime(n) \in Nat /\ TransferTime(c, n) \in Nat
  BY <1>1, QueueingTimeType, TransferTimeType
<1>3. QED
  BY <1>2 DEF WaitingTime

(* A step that leaves the reply and the reported load alone keeps the time. *)
LEMMA SameWaitingTime ==
  ASSUME NEW c, NEW n, locations'[c] = locations[c],
         QueueingTime(n)' = QueueingTime(n)
  PROVE  WaitingTime(c, n)' = WaitingTime(c, n)
<1>1. TransferTime(c, n)' = TransferTime(c, n)
  BY DEF TransferTime, Total, LocationToBytes, BytesOn
<1>2. QED
  BY <1>1 DEF WaitingTime, Locality

(***************************************************************************)
(* So a step that does not disturb the call, does not make a dead node     *)
(* live and leaves its keys and its best alone keeps its loop invariant.   *)
(***************************************************************************)
LEMMA LoopUndisturbed ==
  ASSUME NEW c \in Call, BestSoFar(c),
         DOMAIN status' = DOMAIN status,
         \A n \in DOMAIN status : QueueingTime(n)' = QueueingTime(n),
         \A n \in DOMAIN status : IsLive(n)' => IsLive(n),
         locations'[c] = locations[c], keys'[c] = keys[c], best'[c] = best[c]
  PROVE  BestSoFar(c)'
<1>1. \A n \in DOMAIN status : WaitingTime(c, n)' = WaitingTime(c, n)
  BY SameWaitingTime
<1>2. Visited(c)' = Visited(c)
  BY DEF Visited
<1>3. best[c] # NoPick => WaitingTime(c, best[c].id)' = WaitingTime(c, best[c].id)
  BY <1>1 DEF BestSoFar
<1>4. QED
  BY <1>1, <1>2, <1>3 DEF BestSoFar, Visited

-----------------------------------------------------------------------------
(* The steps.                                                              *)

LEMMA GSInitInv == GSInit => GSInv
<1> SUFFICES ASSUME GSInit PROVE GSInv
  OBVIOUS
<1>1. NoPick \in [id : Node \cup {ZeroNode}, time : Nat]
  BY DEF NoPick
<1>2. RepliesAreAboutArguments
  BY DEF GSInit, RepliesAreAboutArguments, IsReply, NoReply
<1>3. GSTypeOK
  BY <1>1 DEF GSInit, GSTypeOK, NoReply, Message!IsObjectLocationsResponse
<1>4. FullIsCharged /\ PathsApart /\ LoopsAreRight /\ KeysHaveEntries
  BY DEF GSInit, FullIsCharged, PathsApart, LoopsAreRight, KeysHaveEntries
<1>5. QED
  BY <1>2, <1>3, <1>4 DEF GSInv

LEMMA ReplyIsResponse ==
  ASSUME NEW r, IsReply(r)
  PROVE  Message!IsObjectLocationsResponse(r)
BY DEF IsReply, Message!IsObjectLocationsResponse

(* The end of the process leaves the initial state behind, but for up. *)
LEMMA ProcessEndsInv == ProcessEnds => GSInv'
<1> SUFFICES ASSUME ProcessEnds PROVE GSInv'
  OBVIOUS
<1>1. NoPick \in [id : Node \cup {ZeroNode}, time : Nat]
  BY DEF NoPick
<1>2. RepliesAreAboutArguments'
  BY DEF ProcessEnds, RepliesAreAboutArguments, IsReply, NoReply
<1>3. GSTypeOK'
  BY <1>1 DEF ProcessEnds, GSTypeOK, NoReply, Message!IsObjectLocationsResponse
<1>4. (FullIsCharged /\ PathsApart /\ LoopsAreRight /\ KeysHaveEntries)'
  BY DEF ProcessEnds, FullIsCharged, PathsApart, LoopsAreRight, KeysHaveEntries
<1>5. QED
  BY <1>2, <1>3, <1>4 DEF GSInv

(***************************************************************************)
(* Heartbeat: the calls under the read lock keep it out, the others are    *)
(* noted as disturbed.                                                     *)
(***************************************************************************)
LEMMA HeartbeatInv ==
  ASSUME GSInv, NEW req \in Report, Heartbeat(req)
  PROVE  GSInv'
<1> USE DEF GSInv
<1>1. /\ req.nodeId \in Node /\ req.runningTasks \in Nat /\ req.queuedTasks \in Nat
      /\ req.avgRunningTime \in Nat
  BY GSAssumption DEF Message!HeartbeatRequest
<1>2. Entry(req) \in HeartbeatEntry
  <2>1. 0 \in 0 .. LiveNodeTimeout
    BY GSAssumption
  <2>2. QED
    BY <1>1, <2>1 DEF Entry, HeartbeatEntry
<1>3. /\ DOMAIN status' = DOMAIN status \cup {req.nodeId}
      /\ \A n \in DOMAIN status' :
           status'[n] = IF n = req.nodeId THEN Entry(req) ELSE status[n]
      /\ disturbed' = disturbed \cup Unlocked
      /\ UNCHANGED <<pc, locations, keys, best, up>>
  BY DEF Heartbeat
<1>4. Unlocked \subseteq Call /\ \A c \in Unlocked : Locality(c)
  BY DEF Unlocked, PathsApart
<1>5. GSTypeOK'
  BY <1>1, <1>2, <1>3, <1>4 DEF GSTypeOK
<1>6. FullIsCharged'
  <2>1. Entry(req).numRunningTasks = MaxConcurrentTasks
          => Entry(req).numQueuedTasks > 0
    BY <1>1 DEF Entry
  <2>2. QED
    BY <1>3, <2>1 DEF FullIsCharged, IsFull
<1>7. RepliesAreAboutArguments' /\ PathsApart' /\ KeysHaveEntries'
  BY <1>3, <1>4 DEF RepliesAreAboutArguments, PathsApart, KeysHaveEntries
<1>8. LoopsAreRight'
  <2>1. ASSUME NEW c \in Call, pc'[c] = "visit", c \notin disturbed' PROVE FALSE
    BY <1>3, <2>1 DEF Heartbeat, Readers, Unlocked
  <2>2. QED
    BY <2>1 DEF LoopsAreRight
<1>9. QED
  BY <1>5, <1>6, <1>7, <1>8

(* Time passes: entries age, loads stay. *)
LEMMA TickInv ==
  ASSUME GSInv, Tick
  PROVE  GSInv'
<1> USE DEF GSInv
<1>1. /\ DOMAIN status' = DOMAIN status
      /\ UNCHANGED <<pc, locations, keys, best, up, disturbed>>
  BY DEF Tick
<1>2. ASSUME NEW n \in DOMAIN status
      PROVE  /\ status'[n] \in HeartbeatEntry
             /\ status'[n].numRunningTasks = status[n].numRunningTasks
             /\ status'[n].numQueuedTasks = status[n].numQueuedTasks
             /\ status'[n].avgRunningTime = status[n].avgRunningTime
             /\ status'[n].age >= status[n].age
  <2>1. status[n] \in HeartbeatEntry /\ LiveNodeTimeout \in Nat
    BY GSAssumption DEF GSTypeOK
  <2>2. status'[n] = [status[n] EXCEPT !.age =
          IF status[n].age < LiveNodeTimeout THEN status[n].age + 1 ELSE status[n].age]
    BY <2>1 DEF Tick, HeartbeatEntry
  <2>3. QED
    BY <2>1, <2>2 DEF HeartbeatEntry
<1>3. GSTypeOK'
  BY <1>1, <1>2 DEF GSTypeOK
<1>4. FullIsCharged'
  BY <1>1, <1>2 DEF FullIsCharged, IsFull
<1>5. RepliesAreAboutArguments' /\ PathsApart' /\ KeysHaveEntries'
  BY <1>1 DEF RepliesAreAboutArguments, PathsApart, KeysHaveEntries
<1>6. \A n \in DOMAIN status : QueueingTime(n)' = QueueingTime(n)
  BY <1>2 DEF QueueingTime
<1>7. \A n \in DOMAIN status : IsLive(n)' => IsLive(n)
  <2> SUFFICES ASSUME NEW n \in DOMAIN status, IsLive(n)' PROVE IsLive(n)
    OBVIOUS
  <2>1. status[n] \in HeartbeatEntry /\ status'[n] \in HeartbeatEntry
        /\ LiveNodeTimeout \in Nat
    BY <1>2, GSAssumption DEF GSTypeOK
  <2>2. QED
    BY <1>2, <2>1 DEF IsLive, HeartbeatEntry
<1>8. LoopsAreRight'
  <2> SUFFICES ASSUME NEW c \in Call, pc'[c] = "visit", c \notin disturbed'
               PROVE  BestSoFar(c)'
    BY DEF LoopsAreRight
  <2>1. BestSoFar(c)
    BY <1>1 DEF LoopsAreRight
  <2>2. QED
    BY <1>1, <1>6, <1>7, <2>1, LoopUndisturbed
<1>9. QED
  BY <1>3, <1>4, <1>5, <1>8

(* A step of one call: the loops of the others go on as before. *)
LEMMA OtherLoops ==
  ASSUME LoopsAreRight, NEW c \in Call, status' = status, disturbed \ {c} \subseteq disturbed',
         \A d \in Call \ {c} : /\ pc'[d] = pc[d] /\ locations'[d] = locations[d]
                               /\ keys'[d] = keys[d] /\ best'[d] = best[d],
         pc'[c] = "visit" /\ c \notin disturbed' => BestSoFar(c)'
  PROVE  LoopsAreRight'
<1> SUFFICES ASSUME NEW d \in Call, pc'[d] = "visit", d \notin disturbed', d # c
             PROVE  BestSoFar(d)'
  BY DEF LoopsAreRight
<1>1. BestSoFar(d)
  BY DEF LoopsAreRight
<1>2. \A n \in DOMAIN status : QueueingTime(n)' = QueueingTime(n) /\ IsLive(n)' = IsLive(n)
  BY DEF QueueingTime, IsLive
<1>3. QED
  BY <1>1, <1>2, LoopUndisturbed

(* The steps before the loop, and after it. *)
LEMMA EntryStepsInv ==
  ASSUME GSInv, NEW c \in Call,
         \/ AskGCS(c) \/ LockAndRange(c) \/ RangeUnlocked(c) \/ RunSucceeds(c)
         \/ \E n \in Node : SchedulePinned(c, n)
  PROVE  GSInv'
<1> USE DEF GSInv
<1> USE DEF AskGCS, LockAndRange, RangeUnlocked, RunSucceeds, SchedulePinned
<1>1. UNCHANGED <<status, locations, up>>
  OBVIOUS
<1>2. PICK label \in {"idle", "locate", "visit", "run"} : pc' = [pc EXCEPT ![c] = label]
  BY DEF Goto
<1>3. pc' \in [Call -> {"idle", "locate", "range", "visit", "run"}]
  BY <1>2 DEF GSTypeOK
<1>4. keys' \in [Call -> SUBSET Node]
  BY DEF GSTypeOK
<1>5. best' \in [Call -> [id : Node \cup {ZeroNode}, time : Nat]]
  <2>1. NoPick \in [id : Node \cup {ZeroNode}, time : Nat]
    BY DEF NoPick
  <2>2. \A n \in Node : [id |-> n, time |-> 0] \in [id : Node \cup {ZeroNode}, time : Nat]
    OBVIOUS
  <2>3. QED
    BY <2>1, <2>2 DEF GSTypeOK, Picks
<1>6. disturbed \ {c} \subseteq disturbed' /\ disturbed' \subseteq disturbed
  OBVIOUS
<1>7. GSTypeOK'
  BY <1>1, <1>3, <1>4, <1>5, <1>6 DEF GSTypeOK
<1>8. RepliesAreAboutArguments' /\ FullIsCharged'
  BY <1>1 DEF RepliesAreAboutArguments, FullIsCharged, IsFull
<1>9. \A d \in Call \ {c} : /\ pc'[d] = pc[d] /\ locations'[d] = locations[d]
                            /\ keys'[d] = keys[d] /\ best'[d] = best[d]
  BY <1>1, <1>2 DEF GSTypeOK, Picks
<1>10. PathsApart'
  <2>1. /\ pc'[c] \in {"locate", "range"} => Locality(c)
        /\ pc'[c] \in {"idle", "locate", "range"} => best'[c] = NoPick
    BY DEF Goto, GSTypeOK, PathsApart
  <2>2. QED
    BY <1>6, <1>9, <2>1 DEF PathsApart
<1>11. ASSUME pc'[c] = "visit"
       PROVE  BestSoFar(c)'
  <2>1. keys'[c] = DOMAIN status /\ best'[c] = NoPick
    BY <1>11 DEF Goto, GSTypeOK, PathsApart
  <2>2. Visited(c)' = {}
    BY <1>1, <2>1 DEF Visited
  <2>3. QED
    BY <2>1, <2>2 DEF BestSoFar
<1>12. LoopsAreRight'
  BY <1>1, <1>6, <1>9, <1>11, OtherLoops
<1>13. KeysHaveEntries'
  BY <1>1 DEF KeysHaveEntries, GSTypeOK
<1>14. QED
  BY <1>7, <1>8, <1>10, <1>12, <1>13

(* The reply of the GCS is about arguments, with lists of nodes and sizes. *)
LEMMA LocatedInv ==
  ASSUME GSInv, NEW c \in Call, Located(c)
  PROVE  GSInv'
<1> USE DEF GSInv
<1>1. PICK known \in SUBSET Request[c].uids :
        \E reply \in [known -> UNION {Lists(u) : u \in known}] :
         /\ \A u \in known : reply[u] \in Lists(u)
         /\ locations' = [locations EXCEPT ![c] = [u \in known |->
              [locations |-> [n \in Node \cup {ZeroNode} |->
                  IF n = ZeroNode THEN 0 ELSE reply[u].locations[n]],
               bytes |-> reply[u].bytes]]]
  BY DEF Located
<1>2. PICK reply \in [known -> UNION {Lists(u) : u \in known}] :
         /\ \A u \in known : reply[u] \in Lists(u)
         /\ locations' = [locations EXCEPT ![c] = [u \in known |->
              [locations |-> [n \in Node \cup {ZeroNode} |->
                  IF n = ZeroNode THEN 0 ELSE reply[u].locations[n]],
               bytes |-> reply[u].bytes]]]
  BY <1>1
<1> DEFINE r == [u \in known |->
              [locations |-> [n \in Node \cup {ZeroNode} |->
                  IF n = ZeroNode THEN 0 ELSE reply[u].locations[n]],
               bytes |-> reply[u].bytes]]
<1>3. known \subseteq Uid
  BY <1>1, GSAssumption
<1>4. IsReply(r)
  <2>1. ASSUME NEW u \in known
        PROVE  r[u] \in Message!LocationByteTuple
    <3>1. /\ reply[u].locations \in [Node -> 0 .. MaxCopies]
          /\ reply[u].bytes \in {0, ObjectSize[u]}
      BY <1>2 DEF Lists
    <3>2. ObjectSize[u] \in Nat /\ MaxCopies \in Nat
      BY <1>3, GSAssumption
    <3>3. [n \in Node \cup {ZeroNode} |->
             IF n = ZeroNode THEN 0 ELSE reply[u].locations[n]]
            \in [Node \cup {ZeroNode} -> Nat]
      BY <3>1, <3>2
    <3>4. QED
      BY <3>1, <3>2, <3>3 DEF Message!LocationByteTuple
  <2>2. QED
    BY <1>3, <2>1 DEF IsReply
<1>5. locations' = [locations EXCEPT ![c] = r]
  BY <1>2
<1> HIDE DEF r
<1>6. RepliesAreAboutArguments'
  BY <1>4, <1>5 DEF RepliesAreAboutArguments
<1>7. UNCHANGED <<status, keys, best, up, disturbed>>
      /\ pc' = [pc EXCEPT ![c] = "range"] /\ pc[c] = "locate"
  BY DEF Located, Goto
<1>8. GSTypeOK'
  BY <1>6, <1>7, ReplyIsResponse DEF GSTypeOK, RepliesAreAboutArguments
<1>9. FullIsCharged' /\ PathsApart' /\ KeysHaveEntries'
  BY <1>7 DEF FullIsCharged, IsFull, PathsApart, KeysHaveEntries, GSTypeOK
<1>10. \A d \in Call \ {c} : /\ pc'[d] = pc[d] /\ locations'[d] = locations[d]
                             /\ keys'[d] = keys[d] /\ best'[d] = best[d]
  BY <1>5, <1>7 DEF GSTypeOK, RepliesAreAboutArguments
<1>11. pc'[c] = "range"
  BY <1>7 DEF GSTypeOK
<1>12. LoopsAreRight'
  BY <1>7, <1>10, <1>11, OtherLoops
<1>13. QED
  BY <1>6, <1>8, <1>9, <1>12

(* One round of the loop. *)
LEMMA VisitInv ==
  ASSUME GSInv, NEW c \in Call, NEW n \in Node, Visit(c, n)
  PROVE  GSInv'
<1> USE DEF GSInv
<1>1. /\ UNCHANGED <<status, pc, locations, up, disturbed>>
      /\ keys' = [keys EXCEPT ![c] = @ \ {n}]
      /\ best' = IF IsLive(n) /\ (best[c] = NoPick \/ WaitingTime(c, n) < best[c].time)
                 THEN [best EXCEPT ![c] = [id |-> n, time |-> WaitingTime(c, n)]]
                 ELSE best
      /\ pc[c] = "visit" /\ n \in keys[c]
  BY DEF Visit
<1>2. IsReply(locations[c])
  BY DEF RepliesAreAboutArguments
<1>3. best' \in [Call -> [id : Node \cup {ZeroNode}, time : Nat]]
  <2>1. n \in DOMAIN status
    BY <1>1 DEF KeysHaveEntries
  <2>2. [id |-> n, time |-> WaitingTime(c, n)] \in [id : Node \cup {ZeroNode}, time : Nat]
    BY <1>2, <2>1, WaitingTimeType
  <2>3. QED
    BY <1>1, <2>2 DEF GSTypeOK
<1>4. keys' \in [Call -> SUBSET Node]
  BY <1>1 DEF GSTypeOK
<1>5. GSTypeOK'
  BY <1>1, <1>3, <1>4 DEF GSTypeOK
<1>6. RepliesAreAboutArguments' /\ FullIsCharged'
  BY <1>1 DEF RepliesAreAboutArguments, FullIsCharged, IsFull
<1>7. \A d \in Call \ {c} : keys'[d] = keys[d] /\ best'[d] = best[d]
  BY <1>1 DEF GSTypeOK
<1>8. PathsApart' /\ KeysHaveEntries'
  <2>1. keys'[c] = keys[c] \ {n}
    BY <1>1 DEF GSTypeOK
  <2>2. QED
    BY <1>1, <1>7, <2>1 DEF PathsApart, KeysHaveEntries
<1>9. ASSUME BestSoFar(c)
      PROVE  BestSoFar(c)'
  <2> DEFINE W(m) == WaitingTime(c, m)
  <2>1. n \in DOMAIN status /\ DOMAIN status \subseteq Node
    BY <1>1 DEF KeysHaveEntries, GSTypeOK
  <2>2. \A m \in DOMAIN status : W(m)' = W(m) /\ W(m) \in Nat /\ IsLive(m)' = IsLive(m)
    BY <1>1, <1>2, WaitingTimeType, SameWaitingTime DEF QueueingTime, IsLive
  <2>3. Visited(c)' = Visited(c) \cup {n}
    <3>1. keys'[c] = keys[c] \ {n}
      BY <1>1 DEF GSTypeOK
    <3>2. QED
      BY <1>1, <2>1, <3>1 DEF Visited
  <2> HIDE DEF W
  <2>4. best[c] # NoPick => best[c].id \in DOMAIN status /\ best[c].time \in Nat
                            /\ best[c].time = W(best[c].id)
    BY <1>9 DEF BestSoFar, GSTypeOK, W
  <2>5. /\ best[c] = NoPick => \A m \in Visited(c) : ~IsLive(m)
        /\ best[c] # NoPick =>
             \A m \in Visited(c) : IsLive(m) => best[c].time <= W(m)
    BY <1>9 DEF BestSoFar, W
  <2>6. Visited(c) \subseteq DOMAIN status
    BY DEF Visited
  <2>7. CASE IsLive(n) /\ (best[c] = NoPick \/ W(n) < best[c].time)
    <3>1. best'[c] = [id |-> n, time |-> W(n)]
      BY <1>1, <2>7 DEF GSTypeOK, W
    <3>2. best'[c] # NoPick
      BY <2>1, <3>1, GSAssumption DEF NoPick
    <3>3. \A m \in Visited(c) \cup {n} : IsLive(m) => W(n) <= W(m)
      BY <2>1, <2>2, <2>4, <2>5, <2>6, <2>7
    <3>4. QED
      BY <1>1, <2>1, <2>2, <2>3, <2>6, <3>1, <3>2, <3>3 DEF BestSoFar, W
  <2>8. CASE ~(IsLive(n) /\ (best[c] = NoPick \/ W(n) < best[c].time))
    <3>1. best'[c] = best[c]
      BY <1>1, <2>8 DEF W
    <3>2. CASE best[c] = NoPick
      BY <2>1, <2>2, <2>3, <2>5, <2>6, <2>8, <3>1, <3>2 DEF BestSoFar
    <3>3. CASE best[c] # NoPick
      <4>1. \A m \in Visited(c) \cup {n} : IsLive(m) => best[c].time <= W(m)
        BY <2>1, <2>2, <2>4, <2>5, <2>6, <2>8, <3>3
      <4>2. QED
        BY <1>1, <2>1, <2>2, <2>3, <2>4, <2>6, <3>1, <3>3, <4>1 DEF BestSoFar, W
    <3>4. QED
      BY <3>2, <3>3
  <2>9. QED
    BY <2>7, <2>8
<1>10. LoopsAreRight'
  <2>1. c \notin disturbed => BestSoFar(c)
    BY <1>1 DEF LoopsAreRight
  <2>2. QED
    BY <1>1, <1>7, <1>9, <2>1, OtherLoops
<1>11. QED
  BY <1>5, <1>6, <1>8, <1>10

(* The loop has found a node. *)
LEMMA PickedOneInv ==
  ASSUME GSInv, NEW c \in Call, PickedOne(c)
  PROVE  GSInv'
<1> USE DEF GSInv
<1>1. /\ UNCHANGED <<status, keys, up>>
      /\ pc' = [pc EXCEPT ![c] = "run"]
      /\ best' = [best EXCEPT ![c] = [id |-> best[c].id, time |-> 0]]
      /\ locations' = [locations EXCEPT ![c] = NoReply]
      /\ disturbed' = disturbed \ {c}
  BY DEF PickedOne, Goto, Picks
<1>2. IsReply(NoReply)
  BY DEF IsReply, NoReply
<1>3. RepliesAreAboutArguments'
  BY <1>1, <1>2 DEF RepliesAreAboutArguments
<1>4. best' \in [Call -> [id : Node \cup {ZeroNode}, time : Nat]]
  BY <1>1 DEF GSTypeOK
<1>5. GSTypeOK'
  BY <1>1, <1>3, <1>4, ReplyIsResponse DEF GSTypeOK, RepliesAreAboutArguments
<1>6. \A d \in Call \ {c} : /\ pc'[d] = pc[d] /\ locations'[d] = locations[d]
                            /\ keys'[d] = keys[d] /\ best'[d] = best[d]
  BY <1>1 DEF GSTypeOK, RepliesAreAboutArguments
<1>7. pc'[c] = "run"
  BY <1>1 DEF GSTypeOK
<1>8. FullIsCharged' /\ PathsApart' /\ KeysHaveEntries'
  BY <1>1, <1>6, <1>7 DEF FullIsCharged, IsFull, PathsApart, KeysHaveEntries
<1>9. LoopsAreRight'
  BY <1>1, <1>6, <1>7, OtherLoops
<1>10. QED
  BY <1>3, <1>5, <1>8, <1>9

LEMMA GSNextInv == GSInv /\ [GSNext]_gsvars => GSInv'
<1> SUFFICES ASSUME GSInv, [GSNext]_gsvars PROVE GSInv'
  OBVIOUS
<1>1. ASSUME NEW req \in Report, Heartbeat(req) PROVE GSInv'
  BY <1>1, HeartbeatInv
<1>2. CASE Tick
  BY <1>2, TickInv
<1>3. CASE ProcessEnds
  BY <1>3, ProcessEndsInv
<1>4. ASSUME NEW c \in Call, Decide(c) PROVE GSInv'
  BY <1>3, <1>4, EntryStepsInv, LocatedInv, VisitInv, PickedOneInv
  DEF Decide, PickedNone
<1>5. ASSUME NEW c \in Call, LocateFails(c) \/ RunSucceeds(c) \/ RunFails(c)
      PROVE  GSInv'
  BY <1>3, <1>5, EntryStepsInv DEF LocateFails, RunFails
<1>6. CASE UNCHANGED gsvars
  <2>1. \A c \in Call : BestSoFar(c) => BestSoFar(c)'
    <3>1. \A n \in DOMAIN status : QueueingTime(n)' = QueueingTime(n)
                                   /\ (IsLive(n)' => IsLive(n))
      BY <1>6 DEF gsvars, QueueingTime, IsLive
    <3>2. QED
      BY <1>6, <3>1, LoopUndisturbed DEF gsvars
  <2>2. GSTypeOK' /\ RepliesAreAboutArguments' /\ FullIsCharged' /\ PathsApart'
        /\ KeysHaveEntries'
    BY <1>6 DEF gsvars, GSInv, GSTypeOK, RepliesAreAboutArguments, FullIsCharged, IsFull,
       PathsApart, KeysHaveEntries
  <2>3. QED
    BY <1>6, <2>1, <2>2 DEF gsvars, GSInv, LoopsAreRight
<1>7. QED
  BY <1>1, <1>2, <1>3, <1>4, <1>5, <1>6 DEF GSNext, MapRace

(***************************************************************************)
(* The inductive invariant of the scheduler holds in every reachable state.*)
(***************************************************************************)
THEOREM GSInvariance == GSSpec => []GSInv
BY GSInitInv, GSNextInv, PTL DEF GSSpec

(***************************************************************************)
(* Type correctness; in particular, the locality loop never computes a     *)
(* negative transfer time, although it adds up sizes per copy.             *)
(***************************************************************************)
THEOREM GSTypeCorrect == GSSpec => []GSTypeOK
<1>1. GSInv => GSTypeOK
  BY DEF GSInv
<1>2. QED
  BY <1>1, GSInvariance, PTL

(***************************************************************************)
(* The loop under the read lock ends with a node that no live node beats,  *)
(* and with none only if none is live, whatever the order of the visits.   *)
(***************************************************************************)
LEMMA PickIsBestFromInv == GSInv => PickIsBest
<1> SUFFICES ASSUME GSInv, NEW c \in Readers, LoopIsOver(c)
             PROVE  IF best[c] = NoPick THEN Live = {}
                    ELSE /\ best[c].id \in DOMAIN status
                         /\ \A n \in Live : QueueingTime(best[c].id) <= QueueingTime(n)
  BY DEF PickIsBest
<1>1. c \in Call /\ pc[c] = "visit" /\ ~Locality(c) /\ keys[c] = {}
  BY DEF Readers, LoopIsOver
<1>2. c \notin disturbed
  BY <1>1 DEF GSInv, PathsApart
<1>3. BestSoFar(c) /\ Visited(c) = DOMAIN status
  BY <1>1, <1>2 DEF GSInv, LoopsAreRight, Visited
<1>4. \A n : WaitingTime(c, n) = QueueingTime(n)
  BY <1>1 DEF WaitingTime
<1>5. QED
  BY <1>3, <1>4 DEF BestSoFar, Live

(***************************************************************************)
(* Every getBestWorker call that loops under the read lock ends with a     *)
(* node that no live node beats, or with none if no node is live.          *)
(***************************************************************************)
THEOREM LockedLoopPicksBest == GSSpec => []PickIsBest
BY PickIsBestFromInv, GSInvariance, PTL

(***************************************************************************)
(* Heartbeat's "+ 1" for a node with no free slot is enough: the loop      *)
(* never prefers such a node to a live one with a free slot and no queue.  *)
(***************************************************************************)
LEMMA FullFromInv == GSInv => FullNodeIsNotPreferred
<1> SUFFICES ASSUME GSInv, NEW c \in Readers, LoopIsOver(c), best[c] # NoPick,
                    IsFull(best[c].id), status[best[c].id].avgRunningTime > 0,
                    NEW n \in Live, IsFree(n)
             PROVE  FALSE
  BY DEF FullNodeIsNotPreferred
<1> DEFINE m == best[c].id
<1>1. m \in DOMAIN status /\ QueueingTime(m) <= QueueingTime(n)
  BY PickIsBestFromInv DEF PickIsBest
<1>2. n \in DOMAIN status
  BY DEF Live
<1>3. /\ status[n].numQueuedTasks = 0 /\ status[n].avgRunningTime \in Nat
      /\ status[m].numQueuedTasks \in Nat /\ status[m].numQueuedTasks > 0
      /\ status[m].avgRunningTime \in Nat /\ status[m].avgRunningTime > 0
  BY <1>1, <1>2 DEF GSInv, GSTypeOK, HeartbeatEntry, FullIsCharged, IsFree
<1>4. QueueingTime(n) = 0
  BY <1>3 DEF QueueingTime
<1>5. QueueingTime(m) > 0
  <2>1. \A a \in Nat, b \in Nat : a > 0 /\ b > 0 => a * b > 0
    OBVIOUS
  <2>2. QED
    BY <1>3, <2>1 DEF QueueingTime
<1>6. QueueingTime(m) \in Nat
  BY <1>1, QueueingTimeType DEF GSInv
<1>7. QED
  BY <1>1, <1>4, <1>5, <1>6

(***************************************************************************)
(* A getBestWorker call under the read lock never prefers a full node with *)
(* running time on record to a live one with a free slot and no queue.     *)
(***************************************************************************)
THEOREM FullNodesComeLast == GSSpec => []FullNodeIsNotPreferred
BY FullFromInv, GSInvariance, PTL

(***************************************************************************)
(* The locality loop, which counts an object once per copy, still picks a  *)
(* node with the least queueing time plus bytes to fetch, if sizes are on  *)
(* record, no node is twice in a list and no Heartbeat came in between:    *)
(* then the bytes a node has and the bytes it lacks add up to a constant.  *)
(***************************************************************************)
LEMMA LocalityFromInv == GSInv => LocalityPickIsBest
<1> SUFFICES ASSUME GSInv, NEW c \in Call \ (Readers \cup disturbed), LoopIsOver(c),
                    SizesKnown(c), NodesOnce(c)
             PROVE  IF best[c] = NoPick THEN Live = {}
                    ELSE \A n \in Live :
                           QueueingTime(best[c].id) + MissingBytes(c, best[c].id)
                             <= QueueingTime(n) + MissingBytes(c, n)
  BY DEF LocalityPickIsBest
<1>1. pc[c] = "visit" /\ Locality(c) /\ keys[c] = {}
  BY DEF Readers, LoopIsOver
<1>2. BestSoFar(c) /\ Visited(c) = DOMAIN status
  BY <1>1 DEF GSInv, LoopsAreRight, Visited
<1>3. CASE best[c] = NoPick
  BY <1>2, <1>3 DEF BestSoFar, Live
<1>4. CASE best[c] # NoPick
  <2> SUFFICES ASSUME NEW n \in Live
               PROVE  QueueingTime(best[c].id) + MissingBytes(c, best[c].id)
                        <= QueueingTime(n) + MissingBytes(c, n)
    BY <1>4
  <2> DEFINE m == best[c].id
             K == Cardinality(OneCopyOfEach(c))
  <2>1. m \in DOMAIN status /\ n \in DOMAIN status
    BY <1>2, <1>4 DEF BestSoFar, Live
  <2>2. WaitingTime(c, m) <= WaitingTime(c, n)
    BY <1>2, <1>4, <2>1 DEF BestSoFar, Live
  <2>3. m \in Node /\ n \in Node /\ GSTypeOK /\ IsReply(locations[c])
    BY <2>1 DEF GSInv, GSTypeOK, RepliesAreAboutArguments
  <2> HIDE DEF m, K
  <2>4. QueueingTime(m) + TransferTime(c, m) <= QueueingTime(n) + TransferTime(c, n)
    BY <1>1, <2>2 DEF WaitingTime
  <2>5. /\ LocationToBytes(c, m) + MissingBytes(c, m) = K
        /\ LocationToBytes(c, n) + MissingBytes(c, n) = K
    BY <2>3, BytesAddUp DEF K
  <2>6. /\ LocationToBytes(c, m) \in Nat /\ LocationToBytes(c, n) \in Nat
        /\ Total(c) \in Nat
    BY <2>3, TransferTimeType
  <2>7. MissingBytes(c, m) \in Nat /\ MissingBytes(c, n) \in Nat
    BY <2>3, BytesAreFinite, FS_CardinalityType DEF MissingBytes
  <2>8. QueueingTime(m) \in Nat /\ QueueingTime(n) \in Nat
    BY <2>1, <2>3, QueueingTimeType
  <2>9. QueueingTime(m) + MissingBytes(c, m) <= QueueingTime(n) + MissingBytes(c, n)
    BY <2>4, <2>5, <2>6, <2>7, <2>8 DEF TransferTime
  <2>10. QED
    BY <2>9 DEF m
<1>5. QED
  BY <1>3, <1>4

(***************************************************************************)
(* A locality loop that no Heartbeat disturbed ends with a live node whose *)
(* queueing time plus bytes to fetch is the least, given sizes on record   *)
(* and no node twice in a list.                                            *)
(***************************************************************************)
THEOREM LocalityLoopPicksBest == GSSpec => []LocalityPickIsBest
BY LocalityFromInv, GSInvariance, PTL
=============================================================================
