------------------------ MODULE LocalObjStoreProofs ------------------------
(***************************************************************************)
(* Proofs about LocalObjStore: all object stores together with the table   *)
(* of the GCS, for any nodes, uids and Gets (finitely many or not), any    *)
(* number of faults and any sets of nodes reported live.                   *)
(***************************************************************************)
EXTENDS LocalObjStore, ObjectTableProofs, FiniteSetTheorems

(* The nodes and uids of the requests, and what the records contain. *)
LEMMA RequestType ==
  /\ \A g \in Getter : NodeOf(g) \in Node /\ UidOf(g) \in Uid
  /\ Client = Node
BY GetterAssumption DEF NodeOf, UidOf, Requests, Message!GetRequest

LEMMA LocationType == Location = Node \cup {ZeroNode}
BY DEF Location

-----------------------------------------------------------------------------
(* The inductive invariant.                                                *)

(* A channel is filed, and received from, under the uid and node of its Get. *)
Serves(ch, n, u) == ch \in Getter /\ NodeOf(ch) = n /\ UidOf(ch) = u
ChannelsAreOwn ==
  /\ \A n \in Node, u \in Uid :
       channels[n][u] # NoChannel => Serves(channels[n][u], n, u)
  /\ \A g \in Getter :
       pc[g] = "receive" => Serves(receives[g], NodeOf(g), UidOf(g))

(* From the moment a Get asks the GCS there is a channel under its uid. *)
BeforeChannel == {"lookup", "make", "returned"}
ChannelIsFiled ==
  \A g \in Getter :
    pc[g] \notin BeforeChannel => channels[NodeOf(g)][UidOf(g)] # NoChannel

(* A location on its way to a Get, or received by it, has been announced. *)
LocationsAreAnnounced ==
  /\ \A g \in Getter, n \in Node : parked[g][n] > 0 => <<UidOf(g), n>> \in announced
  /\ \A g \in Getter : found[g] # ZeroNode => <<UidOf(g), found[g]>> \in announced

(* Store and Get tell the GCS about what they have, with or without its size. *)
HoldersTell ==
  /\ \A req \in storing : /\ req.nodeId \in Node /\ req.objectSize = "size"
                          /\ req.uid \in stored[req.nodeId]
  /\ \A g \in Getter : pc[g] \in {"cache", "notify"} => found[g] # ZeroNode
  /\ \A g \in Getter : pc[g] = "notify" => UidOf(g) \in stored[NodeOf(g)]
  /\ \A r \in announced : r[1] \in stored[r[2]]

(* Without a restart, only keys that a Get has left behind have no size. *)
KeysHaveSizes ==
  \A u \in DOMAIN objectLocations : objectSizes[u] = "none" =>
    lost.restarts > 0 \/ \E n \in Node : channels[n][u] # NoChannel

(* Only finitely many Gets and goroutines are under way. *)
FinitelyMany ==
  \A n \in Node, u \in Uid : /\ IsFiniteSet(Asking(n, u))
                             /\ IsFiniteSet(Goroutines(callbacks[u][n]))
                             /\ IsFiniteSet(ParkedFor(n, u))

StoreInv ==
  /\ LOSTypes /\ Inv
  /\ ChannelsAreOwn /\ ChannelIsFiled /\ NoSendOnNil
  /\ LocationsAreAnnounced /\ HoldersTell /\ KeysHaveSizes /\ StoredCanBeFound
  /\ FinitelyMany /\ OneWakeupPerGet

-----------------------------------------------------------------------------
(* Types.                                                                  *)

LEMMA TypeInit == LOSInit => LOSTypes
<1> SUFFICES ASSUME LOSInit PROVE LOSTypes
  OBVIOUS
<1>1. TypeOK
  BY InitInv DEF LOSInit, Inv
<1>2. pc \in [Getter -> PCs]
  BY DEF LOSInit, PCs
<1>3. lost \in Losses
  BY GetterAssumption DEF LOSInit, Losses, NothingLost
<1>4. QED
  BY <1>1, <1>2, <1>3, LocationType DEF LOSInit, LOSTypes

(* A failed call costs what the counters of the history can hold. *)
LEMMA LossType ==
  ASSUME LOSTypes, Fault, NEW n \in Node, NEW u \in Uid,
         \/ LoseWakeup(n, u)
         \/ LoseAnnouncement(n, u)
         \/ lost' = [lost EXCEPT !.faults = @ + 1]
  PROVE  lost' \in Losses
<1>1. lost \in Losses /\ lost.faults + 1 \in 0 .. MaxFaults
  BY GetterAssumption DEF LOSTypes, Losses, Fault
<1>2. CASE LoseWakeup(n, u)
  <2>1. [lost.wakeups EXCEPT ![n][u] = @ + 1] \in [Node -> [Uid -> Nat]]
    BY <1>1 DEF Losses
  <2>2. lost' = [lost EXCEPT !.wakeups = [lost.wakeups EXCEPT ![n][u] = @ + 1],
                             !.faults = @ + 1]
    BY <1>1, <1>2 DEF LoseWakeup, Losses
  <2>3. QED
    BY <1>1, <2>1, <2>2 DEF Losses
<1>3. CASE LoseAnnouncement(n, u)
  <2>1. lost.announcements \cup {<<u, n>>} \in SUBSET (Uid \X Node)
    BY <1>1 DEF Losses
  <2>2. QED
    BY <1>1, <1>3, <2>1 DEF LoseAnnouncement, Losses
<1>4. CASE lost' = [lost EXCEPT !.faults = @ + 1]
  BY <1>1, <1>4 DEF Losses
<1>5. QED
  BY <1>2, <1>3, <1>4

(* Store and Get keep the types of what the store itself maintains. *)
LEMMA StoreType ==
  ASSUME LOSTypes, NEW n \in Node, NEW req \in Message!StoreRequest, Store(n, req)
  PROVE  LOSTypes'
<1>1. req.uid \in Uid
  BY DEF Message!StoreRequest
<1>2. Announcement(n, req.uid) \in Message!NotifyOwnsRequest
  BY <1>1 DEF Announcement, Message!NotifyOwnsRequest, Location
<1>3. TypeOK'
  BY DEF Store, LOSTypes, TypeOK, tvars
<1>4. QED
  BY <1>1, <1>2, <1>3 DEF Store, LOSTypes

LEMMA GetLocalType ==
  ASSUME LOSTypes, NEW g \in Getter,
         \/ GetLookup(g) \/ GetMakeChannel(g) \/ GetReread(g)
         \/ GetCopy(g) \/ GetCache(g)
  PROVE  LOSTypes'
<1>1. NodeOf(g) \in Node /\ UidOf(g) \in Uid
  BY RequestType
<1>2. TypeOK'
  BY DEF GetLookup, GetMakeChannel, GetReread, GetCopy, GetCache, LOSTypes,
         TypeOK, tvars
<1>3. pc' \in [Getter -> PCs]
  BY DEF GetLookup, GetMakeChannel, GetReread, GetCopy, GetCache, LOSTypes,
         PCs, Goto
<1>4. stored' \in [Node -> SUBSET Uid]
  BY <1>1 DEF GetLookup, GetMakeChannel, GetReread, GetCopy, GetCache, LOSTypes
<1>5. channels' \in [Node -> [Uid -> Getter \cup {NoChannel}]]
  <2>1. [channels EXCEPT ![NodeOf(g)][UidOf(g)] = g]
          \in [Node -> [Uid -> Getter \cup {NoChannel}]]
    BY <1>1 DEF LOSTypes
  <2>2. QED
    BY <2>1 DEF GetLookup, GetMakeChannel, GetReread, GetCopy, GetCache, LOSTypes
<1>6. receives' \in [Getter -> Getter \cup {NoChannel}]
  BY <1>1 DEF GetLookup, GetMakeChannel, GetReread, GetCopy, GetCache, LOSTypes
<1>7. QED
  BY <1>2, <1>3, <1>4, <1>5, <1>6
  DEF GetLookup, GetMakeChannel, GetReread, GetCopy, GetCache, LOSTypes

(* A receive: the channel exists, and a sender is parked on it. *)
LEMMA GetReceiveType ==
  ASSUME LOSTypes, ChannelsAreOwn, NEW g \in Getter, GetReceive(g)
  PROVE  LOSTypes'
<1>1. receives[g] \in Getter
  BY DEF GetReceive, ChannelsAreOwn, Serves
<1>2. PICK l \in Location : /\ parked[receives[g]][l] > 0
                            /\ parked' = [parked EXCEPT ![receives[g]][l] = @ - 1]
                            /\ found' = [found EXCEPT ![g] = l]
  BY DEF GetReceive
<1>3. parked' \in [Getter -> [Location -> Nat]]
  BY <1>1, <1>2 DEF LOSTypes
<1>4. pc' \in [Getter -> PCs]
  BY DEF GetReceive, LOSTypes, PCs, Goto
<1>5. TypeOK'
  BY DEF GetReceive, LOSTypes, TypeOK, tvars
<1>6. QED
  BY <1>2, <1>3, <1>4, <1>5 DEF GetReceive, LOSTypes

(* The calls between a store and the GCS that succeed. *)
LEMMA CallType ==
  ASSUME LOSTypes, TypeOK',
         \/ \E req \in storing : StoreNotifies(req)
         \/ \E g \in Getter : GetRequest(g) \/ GetNotifies(g)
         \/ \E n \in Node, resp \in Message!LocationFoundCallback :
              LocationFound(n, resp)
  PROVE  LOSTypes'
<1>2. pc' \in [Getter -> PCs]
  BY DEF StoreNotifies, GetRequest, GetNotifies, LocationFound, LOSTypes, PCs, Goto
<1>3. storing' \subseteq Message!NotifyOwnsRequest
  BY DEF StoreNotifies, GetRequest, GetNotifies, LocationFound, LOSTypes
<1>4. parked' \in [Getter -> [Location -> Nat]]
  <2>1. CASE parked' = parked
    BY <2>1 DEF LOSTypes
  <2>2. ASSUME NEW n \in Node, NEW resp \in Message!LocationFoundCallback,
               LocationFound(n, resp), parked' # parked
        PROVE  parked' \in [Getter -> [Location -> Nat]]
    <3>1. resp.uid \in Uid /\ resp.location \in Location
      BY DEF Message!LocationFoundCallback
    <3>2. channels[n][resp.uid] \in Getter
      BY <2>2, <3>1 DEF LocationFound, LOSTypes
    <3>3. QED
      BY <2>2, <3>1, <3>2 DEF LocationFound, LOSTypes
  <2>3. QED
    BY <2>1, <2>2 DEF StoreNotifies, GetRequest, GetNotifies
<1>5. QED
  BY <1>2, <1>3, <1>4
  DEF StoreNotifies, GetRequest, GetNotifies, LocationFound, LOSTypes

(* What a restart costs is a number, because finitely much was under way. *)
LEMMA RestartType ==
  ASSUME LOSTypes, FinitelyMany, TypeOK', RestartGCS
  PROVE  LOSTypes'
<1>1. \A n \in Node, u \in Uid : Promised(n, u) \in Nat
  <2> SUFFICES ASSUME NEW n \in Node, NEW u \in Uid PROVE Promised(n, u) \in Nat
    OBVIOUS
  <2>1. Cardinality(Goroutines(callbacks[u][n])) \in Nat
    BY FS_CardinalityType DEF FinitelyMany
  <2>2. waitlist[u][n] \in Nat
    BY RequestType DEF LOSTypes, TypeOK
  <2>3. QED
    BY <2>1, <2>2 DEF Promised
<1>2. [n \in Node |-> [u \in Uid |-> lost.wakeups[n][u] + Promised(n, u)]]
        \in [Node -> [Uid -> Nat]]
  BY <1>1 DEF LOSTypes, Losses
<1>3. lost' \in Losses
  <2>1. lost' = [lost EXCEPT
          !.wakeups = [n \in Node |-> [u \in Uid |->
                         lost.wakeups[n][u] + Promised(n, u)]],
          !.restarts = @ + 1, !.faults = @ + 1]
    BY DEF RestartGCS, LOSTypes, Losses
  <2>2. lost \in Losses /\ lost.restarts + 1 \in Nat /\ lost.faults + 1 \in 0 .. MaxFaults
    BY GetterAssumption DEF RestartGCS, LOSTypes, Losses, Fault
  <2>3. QED
    BY <1>2, <2>1, <2>2 DEF Losses
<1>4. QED
  BY <1>3 DEF RestartGCS, LOSTypes

(* The other faults. *)
LEMMA FaultType ==
  ASSUME LOSTypes, HoldersTell, TypeOK',
         \/ \E req \in storing : StoreNotifyFails(req)
         \/ \E g \in Getter : GetRequestFails(g) \/ GetFails(g) \/ GetNotifyFails(g)
         \/ \E n \in Node, resp \in Message!LocationFoundCallback :
              LocationFoundFails(n, resp)
  PROVE  LOSTypes'
<1>1. /\ \A req \in storing : req.nodeId \in Node /\ req.uid \in Uid
      /\ \A resp \in Message!LocationFoundCallback : resp.uid \in Uid
      /\ \A g \in Getter : NodeOf(g) \in Node /\ UidOf(g) \in Uid
  BY RequestType DEF Message!LocationFoundCallback, HoldersTell, LOSTypes,
     Message!NotifyOwnsRequest
<1>2. lost' \in Losses
  <2>1. \A req \in storing : StoreNotifyFails(req) => lost' \in Losses
    BY <1>1, LossType DEF StoreNotifyFails
  <2>2. \A g \in Getter :
          GetRequestFails(g) \/ GetFails(g) \/ GetNotifyFails(g) => lost' \in Losses
    BY <1>1, LossType DEF GetRequestFails, GetFails, GetNotifyFails
  <2>3. \A n \in Node, resp \in Message!LocationFoundCallback :
          LocationFoundFails(n, resp) => lost' \in Losses
    BY <1>1, LossType DEF LocationFoundFails
  <2>4. QED
    BY <2>1, <2>2, <2>3
<1>3. pc' \in [Getter -> PCs]
  BY DEF StoreNotifyFails, LocationFoundFails, GetRequestFails, GetFails,
     GetNotifyFails, LOSTypes, PCs, Goto
<1>4. QED
  BY <1>2, <1>3 DEF StoreNotifyFails, LocationFoundFails, GetRequestFails,
     GetFails, GetNotifyFails, LOSTypes

-----------------------------------------------------------------------------
(* The table inside.                                                       *)

(* A Get announces its copy only after it copied from an announced node. *)
LEMMA CopyWasAnnounced ==
  ASSUME LOSTypes, LocationsAreAnnounced, HoldersTell, NEW g \in Getter,
         pc[g] = "notify"
  PROVE  \E m \in Node : <<UidOf(g), m>> \in announced
BY DEF LOSTypes, LocationsAreAnnounced, HoldersTell, Location

(***************************************************************************)
(* Whatever the stores do, the GCS sees the calls that ObjectTable allows: *)
(* every step of the composition is a step of the table or leaves it alone.*)
(***************************************************************************)
LEMMA TableStep ==
  ASSUME LOSTypes, LocationsAreAnnounced, HoldersTell, [LOSNext]_losvars
  PROVE  [Next]_tvars
<1>1. ASSUME NEW n \in Node, NEW req \in Message!StoreRequest, Store(n, req)
      PROVE  UNCHANGED tvars
  BY <1>1 DEF Store
<1>2. ASSUME NEW req \in storing, StoreNotifies(req)
      PROVE  Next
  <2>1. req.uid \in Uid /\ req.nodeId \in Node /\ req.objectSize = "size"
    BY DEF HoldersTell, LOSTypes, Message!NotifyOwnsRequest
  <2>2. QED
    BY <1>2, <2>1 DEF StoreNotifies, Next
<1>3. ASSUME NEW g \in Getter, GetRequest(g)
      PROVE  Next
  BY <1>3, RequestType DEF GetRequest, Next
<1>4. ASSUME NEW g \in Getter, GetNotifies(g)
      PROVE  Next
  <2>1. \E m \in Node : <<UidOf(g), m>> \in announced
    BY <1>4, CopyWasAnnounced DEF GetNotifies
  <2>2. QED
    BY <1>4, <2>1, RequestType DEF GetNotifies, Next
<1>5. ASSUME NEW g \in Getter, GetStep(g), ~GetRequest(g), ~GetNotifies(g)
      PROVE  UNCHANGED tvars
  BY <1>5 DEF GetStep, GetLookup, GetMakeChannel, GetReread, GetReceive, GetCopy,
     GetCache
<1>6. ASSUME NEW n \in Node, NEW resp \in Message!LocationFoundCallback,
             LocationFound(n, resp) \/ LocationFoundFails(n, resp)
      PROVE  Next
  <2>1. resp.uid \in Uid /\ n \in Client /\ resp.location \in Location
    BY RequestType DEF Message!LocationFoundCallback
  <2>2. QED
    BY <1>6, <2>1 DEF LocationFound, LocationFoundFails, Next
<1>7. CASE GCSStep
  BY <1>7, GetterAssumption DEF GCSStep, Next
<1>8. ASSUME NEW req \in storing, StoreNotifyFails(req)
      PROVE  UNCHANGED tvars
  BY <1>8 DEF StoreNotifyFails
<1>9. ASSUME NEW g \in Getter,
             GetRequestFails(g) \/ GetFails(g) \/ GetNotifyFails(g)
      PROVE  UNCHANGED tvars
  BY <1>9 DEF GetRequestFails, GetFails, GetNotifyFails
<1>10. CASE RestartGCS
  BY <1>10 DEF RestartGCS, Next
<1>11. CASE UNCHANGED losvars
  BY <1>11 DEF losvars
<1>12. QED
  BY <1>1, <1>2, <1>3, <1>4, <1>5, <1>6, <1>7, <1>8, <1>9, <1>10, <1>11
  DEF LOSNext, FaultStep

(* So the invariant of the table, and with it all types, are kept. *)
LEMMA TypeStep ==
  ASSUME StoreInv, [LOSNext]_losvars
  PROVE  Inv' /\ LOSTypes'
<1> USE DEF StoreInv
<1>1. Inv' /\ TypeOK'
  BY TableStep, NextInv DEF Inv
<1>2. ASSUME NEW n \in Node, NEW req \in Message!StoreRequest, Store(n, req)
      PROVE  LOSTypes'
  BY <1>2, StoreType
<1>3. ASSUME NEW req \in storing, StoreNotifies(req)
      PROVE  LOSTypes'
  BY <1>1, <1>3, CallType
<1>4. ASSUME NEW g \in Getter, GetStep(g)
      PROVE  LOSTypes'
  BY <1>1, <1>4, CallType, GetLocalType, GetReceiveType DEF GetStep
<1>5. ASSUME NEW n \in Node, NEW resp \in Message!LocationFoundCallback,
             LocationFound(n, resp)
      PROVE  LOSTypes'
  BY <1>1, <1>5, CallType
<1>6. CASE GCSStep
  BY <1>1, <1>6 DEF GCSStep, lvars, LOSTypes
<1>7. CASE FaultStep
  BY <1>1, <1>7, FaultType, RestartType DEF FaultStep
<1>8. CASE UNCHANGED losvars
  BY <1>1, <1>8 DEF losvars, lvars, LOSTypes
<1>9. QED
  BY <1>1, <1>2, <1>3, <1>4, <1>5, <1>6, <1>7, <1>8 DEF LOSNext

-----------------------------------------------------------------------------
(* Channels.                                                               *)

(* A channel is filed before the question and never taken away. *)
LEMMA ChannelsStep ==
  ASSUME StoreInv, [LOSNext]_losvars
  PROVE  /\ ChannelsAreOwn' /\ ChannelIsFiled'
         /\ \A n \in Node, u \in Uid :
              channels[n][u] # NoChannel => channels'[n][u] # NoChannel
<1> USE DEF StoreInv
<1> DEFINE Goal == /\ ChannelsAreOwn' /\ ChannelIsFiled'
                   /\ \A n \in Node, u \in Uid :
                        channels[n][u] # NoChannel => channels'[n][u] # NoChannel
<1>1. CASE UNCHANGED <<channels, receives, pc>>
  BY <1>1 DEF ChannelsAreOwn, ChannelIsFiled
<1>2. ASSUME NEW g \in Getter, NEW label, label # "receive",
             UNCHANGED <<channels, receives>>, Goto(g, label),
             pc[g] \notin BeforeChannel \/ label \in BeforeChannel
      PROVE  Goal
  <2>1. \A h \in Getter : pc'[h] = IF h = g THEN label ELSE pc[h]
    BY <1>2 DEF Goto, LOSTypes
  <2>2. ChannelsAreOwn'
    BY <1>2, <2>1 DEF ChannelsAreOwn
  <2>3. ChannelIsFiled'
    BY <1>2, <2>1 DEF ChannelIsFiled
  <2>4. QED
    BY <1>2, <2>2, <2>3
<1>3. ASSUME NEW g \in Getter, GetMakeChannel(g)
      PROVE  Goal
  <2>1. \A h \in Getter : pc'[h] = IF h = g THEN "request" ELSE pc[h]
    BY <1>3 DEF GetMakeChannel, Goto, LOSTypes
  <2>2. \A n \in Node, u \in Uid : channels'[n][u] =
          IF n = NodeOf(g) /\ u = UidOf(g) THEN g ELSE channels[n][u]
    BY <1>3, RequestType DEF GetMakeChannel, LOSTypes
  <2>3. receives' = receives
    BY <1>3 DEF GetMakeChannel
  <2>4. g # NoChannel
    BY GetterAssumption
  <2>5. ChannelsAreOwn'
    BY <2>1, <2>2, <2>3, <2>4 DEF ChannelsAreOwn, Serves
  <2>6. ChannelIsFiled'
    BY <2>1, <2>2, <2>4, RequestType DEF ChannelIsFiled
  <2>7. QED
    BY <2>2, <2>4, <2>5, <2>6
<1>4. ASSUME NEW g \in Getter, GetReread(g)
      PROVE  Goal
  <2>1. \A h \in Getter : pc'[h] = IF h = g THEN "receive" ELSE pc[h]
    BY <1>4 DEF GetReread, Goto, LOSTypes
  <2>2. \A h \in Getter : receives'[h] =
          IF h = g THEN channels[NodeOf(g)][UidOf(g)] ELSE receives[h]
    BY <1>4 DEF GetReread, LOSTypes
  <2>3. channels' = channels
    BY <1>4 DEF GetReread
  <2>4. channels[NodeOf(g)][UidOf(g)] # NoChannel
    BY <1>4 DEF GetReread, ChannelIsFiled, BeforeChannel
  <2>5. Serves(channels[NodeOf(g)][UidOf(g)], NodeOf(g), UidOf(g))
    BY <2>4, RequestType DEF ChannelsAreOwn
  <2>6. QED
    BY <1>4, <2>1, <2>2, <2>3, <2>5
    DEF ChannelsAreOwn, ChannelIsFiled, BeforeChannel, GetReread
<1>5. ASSUME NEW g \in Getter, GetStep(g)
      PROVE  Goal
  <2>1. CASE GetLookup(g)
    BY <2>1, <1>5, GetterAssumption DEF GetLookup, BeforeChannel, ChannelsAreOwn,
       ChannelIsFiled, Goto, LOSTypes
  <2>2. CASE GetRequest(g)
    BY <2>2, <1>2 DEF GetRequest, BeforeChannel
  <2>3. CASE GetReceive(g)
    BY <2>3, <1>2 DEF GetReceive, BeforeChannel
  <2>4. CASE GetCopy(g)
    BY <2>4, <1>2 DEF GetCopy, BeforeChannel
  <2>5. CASE GetCache(g)
    BY <2>5, <1>2 DEF GetCache, BeforeChannel
  <2>6. CASE GetNotifies(g)
    BY <2>6, <1>2 DEF GetNotifies, BeforeChannel
  <2>7. QED
    BY <1>3, <1>4, <1>5, <2>1, <2>2, <2>3, <2>4, <2>5, <2>6 DEF GetStep
<1>6. ASSUME NEW g \in Getter,
             GetRequestFails(g) \/ GetFails(g) \/ GetNotifyFails(g)
      PROVE  Goal
  BY <1>2, <1>6 DEF GetRequestFails, GetFails, GetNotifyFails, BeforeChannel
<1>7. QED
  <2>1. ASSUME \A g \in Getter : ~GetStep(g) /\ ~GetRequestFails(g)
                                 /\ ~GetFails(g) /\ ~GetNotifyFails(g)
        PROVE  UNCHANGED <<channels, receives, pc>>
    BY <2>1 DEF LOSNext, losvars, lvars, Store, StoreNotifies, LocationFound,
       GCSStep, FaultStep, StoreNotifyFails, LocationFoundFails, RestartGCS
  <2>2. QED
    BY <1>1, <1>5, <1>6, <2>1

(* A question is on the waitlist, or its answer is being sent. *)
Pending(n, u) == waitlist[u][n] > 0 \/ \E l \in Location : callbacks[u][n][l] > 0

(* What the handlers of the table do to the questions of one client. *)
LEMMA NotifyOwnsAnswers ==
  ASSUME TypeOK, NEW u \in Uid, NEW n \in Node, NEW size, NotifyOwns(u, n, size)
  PROVE  \A v \in Uid, c \in Client :
           /\ waitlist'[v][c] = IF v = u THEN 0 ELSE waitlist[v][c]
           /\ \A l \in Location : callbacks'[v][c][l] =
                IF v = u /\ l = n THEN callbacks[v][c][l] + waitlist[v][c]
                                  ELSE callbacks[v][c][l]
<1>1. n \in Location
  BY DEF Location
<1>2. waitlist' = [waitlist EXCEPT ![u] = NobodyWaits]
  BY DEF NotifyOwns
<1>3. callbacks' = [callbacks EXCEPT ![u] = [c \in Client |->
                     [callbacks[u][c] EXCEPT ![n] = @ + waitlist[u][c]]]]
  BY DEF NotifyOwns
<1>4. \A v \in Uid, c \in Client :
        waitlist'[v][c] = IF v = u THEN 0 ELSE waitlist[v][c]
  BY <1>2 DEF TypeOK, NobodyWaits
<1>5. \A v \in Uid, c \in Client, l \in Location : callbacks'[v][c][l] =
        IF v = u /\ l = n THEN callbacks[v][c][l] + waitlist[v][c]
                          ELSE callbacks[v][c][l]
  BY <1>1, <1>3 DEF TypeOK
<1>6. QED
  BY <1>4, <1>5

LEMMA RequestLocationAnswers ==
  ASSUME TypeOK, NEW u \in Uid, NEW c \in Client, RequestLocation(u, c)
  PROVE  \/ /\ UNCHANGED callbacks
            /\ \A v \in Uid, d \in Client : waitlist'[v][d] =
                 IF v = u /\ d = c THEN waitlist[v][d] + 1 ELSE waitlist[v][d]
         \/ /\ UNCHANGED waitlist
            /\ \E k \in Location : \A v \in Uid, d \in Client, l \in Location :
                 callbacks'[v][d][l] = IF v = u /\ d = c /\ l = k
                   THEN callbacks[v][d][l] + 1 ELSE callbacks[v][d][l]
<1>1. CASE UNCHANGED callbacks /\ waitlist' = [waitlist EXCEPT ![u][c] = @ + 1]
  BY <1>1 DEF TypeOK
<1>2. ASSUME UNCHANGED waitlist, NEW k \in NodesToReturn(ListConsulted(u)),
             callbacks' = [callbacks EXCEPT ![u][c][k] = @ + 1]
      PROVE  \E l \in Location : \A v \in Uid, d \in Client, m \in Location :
               callbacks'[v][d][m] = IF v = u /\ d = c /\ m = l
                 THEN callbacks[v][d][m] + 1 ELSE callbacks[v][d][m]
  <2>1. k \in Location
    BY DEF NodesToReturn, Elements, Location
  <2>2. \A v \in Uid, d \in Client, m \in Location :
               callbacks'[v][d][m] = IF v = u /\ d = c /\ m = k
                 THEN callbacks[v][d][m] + 1 ELSE callbacks[v][d][m]
    BY <1>2, <2>1 DEF TypeOK
  <2>3. QED
    BY <2>1, <2>2
<1>3. QED
  BY <1>1, <1>2 DEF RequestLocation

LEMMA sendCallbackAnswers ==
  ASSUME TypeOK, NEW u \in Uid, NEW c \in Client, NEW k \in Location,
         sendCallback(u, c, k)
  PROVE  /\ UNCHANGED waitlist
         /\ callbacks[u][c][k] > 0
         /\ \A v \in Uid, d \in Client, l \in Location :
              callbacks'[v][d][l] = IF v = u /\ d = c /\ l = k
                THEN callbacks[v][d][l] - 1 ELSE callbacks[v][d][l]
BY DEF sendCallback, TypeOK

(***************************************************************************)
(* A callback always finds a channel: only GetRequest makes a new question *)
(* pending, and its Get has filed a channel before.                        *)
(***************************************************************************)
LEMMA NoSendOnNilStep ==
  ASSUME StoreInv, [LOSNext]_losvars
  PROVE  NoSendOnNil'
<1> USE DEF StoreInv
<1>1. \A n \in Node, u \in Uid :
        channels[n][u] # NoChannel => channels'[n][u] # NoChannel
  BY ChannelsStep
<1>2. \A n \in Node, u \in Uid : Pending(n, u) => channels[n][u] # NoChannel
  BY DEF Pending, NoSendOnNil
<1>3. SUFFICES \A n \in Node, u \in Uid :
                 Pending(n, u)' => Pending(n, u) \/ channels[n][u] # NoChannel
  BY <1>1, <1>2 DEF Pending, NoSendOnNil
<1>4. CASE UNCHANGED <<waitlist, callbacks>>
  BY <1>4 DEF Pending
<1>5. ASSUME NEW u \in Uid, NEW n \in Node, NEW size, NotifyOwns(u, n, size)
      PROVE  \A m \in Node, v \in Uid : Pending(m, v)' => Pending(m, v)
  <2> SUFFICES ASSUME NEW m \in Node, NEW v \in Uid, Pending(m, v)'
               PROVE  Pending(m, v)
    OBVIOUS
  <2>1. /\ waitlist'[v][m] = IF v = u THEN 0 ELSE waitlist[v][m]
        /\ \A l \in Location : callbacks'[v][m][l] =
             IF v = u /\ l = n THEN callbacks[v][m][l] + waitlist[v][m]
                               ELSE callbacks[v][m][l]
    BY <1>5, NotifyOwnsAnswers, RequestType DEF LOSTypes
  <2>2. waitlist[v][m] \in Nat /\ \A l \in Location : callbacks[v][m][l] \in Nat
    BY RequestType DEF LOSTypes, TypeOK
  <2>3. QED
    BY <2>1, <2>2 DEF Pending
<1>6. ASSUME NEW u \in Uid, NEW n \in Node, NEW k \in Location, sendCallback(u, n, k)
      PROVE  \A m \in Node, v \in Uid : Pending(m, v)' => Pending(m, v)
  <2> SUFFICES ASSUME NEW m \in Node, NEW v \in Uid, Pending(m, v)'
               PROVE  Pending(m, v)
    OBVIOUS
  <2>1. /\ UNCHANGED waitlist
        /\ \A l \in Location : callbacks'[v][m][l] = IF v = u /\ m = n /\ l = k
                THEN callbacks[v][m][l] - 1 ELSE callbacks[v][m][l]
    BY <1>6, sendCallbackAnswers, RequestType DEF LOSTypes
  <2>2. \A l \in Location : callbacks[v][m][l] \in Nat
    BY RequestType DEF LOSTypes, TypeOK
  <2>3. QED
    BY <2>1, <2>2 DEF Pending
<1>7. ASSUME NEW g \in Getter, GetRequest(g)
      PROVE  \A m \in Node, v \in Uid :
               Pending(m, v)' => Pending(m, v) \/ channels[m][v] # NoChannel
  <2> SUFFICES ASSUME NEW m \in Node, NEW v \in Uid, Pending(m, v)', ~Pending(m, v)
               PROVE  channels[m][v] # NoChannel
    OBVIOUS
  <2>1. NodeOf(g) \in Client /\ UidOf(g) \in Uid /\ RequestLocation(UidOf(g), NodeOf(g))
    BY <1>7, RequestType DEF GetRequest
  <2>2. m = NodeOf(g) /\ v = UidOf(g)
    BY <2>1, RequestLocationAnswers, RequestType DEF Pending, LOSTypes
  <2>3. QED
    BY <1>7, <2>2 DEF GetRequest, ChannelIsFiled, BeforeChannel
<1>8. CASE RestartGCS
  <2>1. \A n \in Node, u \in Uid : waitlist'[u][n] = 0
                                   /\ \A l \in Location : callbacks'[u][n][l] = 0
    BY <1>8, RequestType DEF RestartGCS, Restart, NobodyWaits, NoCallbacks
  <2>2. QED
    BY <2>1 DEF Pending
<1>9. ASSUME NEW req \in storing, StoreNotifies(req)
      PROVE  \A m \in Node, v \in Uid : Pending(m, v)' => Pending(m, v)
  <2>1. req.uid \in Uid /\ req.nodeId \in Node
    BY DEF LOSTypes, HoldersTell, Message!NotifyOwnsRequest
  <2>2. QED
    BY <1>5, <1>9, <2>1 DEF StoreNotifies
<1>10. ASSUME NEW g \in Getter, GetNotifies(g)
       PROVE  \A m \in Node, v \in Uid : Pending(m, v)' => Pending(m, v)
  BY <1>5, <1>10, RequestType DEF GetNotifies
<1>11. ASSUME NEW n \in Node, NEW resp \in Message!LocationFoundCallback,
              LocationFound(n, resp) \/ LocationFoundFails(n, resp)
       PROVE  \A m \in Node, v \in Uid : Pending(m, v)' => Pending(m, v)
  BY <1>6, <1>11 DEF LocationFound, LocationFoundFails, Message!LocationFoundCallback
<1>12. CASE GCSStep
  BY <1>4, <1>12 DEF GCSStep, flushToDisk, RegisterLiveNodes, tvars
<1>13. ASSUME NEW g \in Getter, GetStep(g), ~GetRequest(g), ~GetNotifies(g)
       PROVE  UNCHANGED <<waitlist, callbacks>>
  BY <1>13 DEF GetStep, GetLookup, GetMakeChannel, GetReread, GetReceive, GetCopy,
     GetCache, tvars
<1>14. ASSUME FaultStep, ~RestartGCS,
              ~ \E n \in Node, resp \in Message!LocationFoundCallback :
                  LocationFoundFails(n, resp)
       PROVE  UNCHANGED <<waitlist, callbacks>>
  BY <1>14 DEF FaultStep, StoreNotifyFails, GetRequestFails, GetFails,
     GetNotifyFails, tvars
<1>15. ASSUME NEW n \in Node, NEW req \in Message!StoreRequest, Store(n, req)
       PROVE  UNCHANGED <<waitlist, callbacks>>
  BY <1>15 DEF Store, tvars
<1>16. CASE UNCHANGED losvars
  BY <1>4, <1>16 DEF losvars, tvars
<1>17. QED
  BY <1>4, <1>7, <1>8, <1>9, <1>10, <1>11, <1>12, <1>13, <1>14, <1>15, <1>16
  DEF LOSNext

-----------------------------------------------------------------------------
(* Locations and holders.                                                  *)

(* What has been announced or stored stays so. *)
LEMMA NothingIsTakenBack ==
  ASSUME StoreInv, [LOSNext]_losvars
  PROVE  announced \subseteq announced' /\ \A n \in Node : stored[n] \subseteq stored'[n]
<1> USE DEF StoreInv
<1>1. announced \subseteq announced'
  <2>1. [Next]_tvars
    BY TableStep
  <2>2. QED
    BY <2>1 DEF Next, NotifyOwns, RequestLocation, sendCallback, flushToDisk,
       RegisterLiveNodes, Restart, tvars
<1>2. ASSUME NEW n \in Node, NEW req \in Message!StoreRequest, Store(n, req)
      PROVE  \A m \in Node : stored[m] \subseteq stored'[m]
  BY <1>2 DEF Store, LOSTypes
<1>3. ASSUME NEW g \in Getter, GetCache(g)
      PROVE  \A m \in Node : stored[m] \subseteq stored'[m]
  BY <1>3, RequestType DEF GetCache, LOSTypes
<1>4. ASSUME NEW g \in Getter, GetStep(g), ~GetCache(g)
      PROVE  UNCHANGED stored
  BY <1>4 DEF GetStep, GetLookup, GetMakeChannel, GetRequest, GetReread, GetReceive,
     GetCopy, GetNotifies
<1>5. CASE FaultStep \/ GCSStep \/ UNCHANGED losvars
  BY <1>1, <1>5 DEF FaultStep, StoreNotifyFails, GetRequestFails, GetFails,
     GetNotifyFails, LocationFoundFails, RestartGCS, GCSStep, lvars, losvars
<1>6. QED
  BY <1>1, <1>2, <1>3, <1>4, <1>5 DEF LOSNext, StoreNotifies, LocationFound

(* A location reaches a Get only from the table, which knows its announcer. *)
LEMMA LocationsStep ==
  ASSUME StoreInv, [LOSNext]_losvars
  PROVE  LocationsAreAnnounced'
<1> USE DEF StoreInv
<1>1. announced \subseteq announced'
  BY NothingIsTakenBack
<1>2. CASE UNCHANGED <<parked, found>>
  BY <1>1, <1>2 DEF LocationsAreAnnounced
<1>3. ASSUME NEW n \in Node, NEW resp \in Message!LocationFoundCallback,
             LocationFound(n, resp), channels[n][resp.uid] # NoChannel
      PROVE  LocationsAreAnnounced'
  <2> DEFINE ch == channels[n][resp.uid]
  <2>1. resp.uid \in Uid /\ resp.location \in Location
    BY DEF Message!LocationFoundCallback
  <2>2. ch \in Getter /\ UidOf(ch) = resp.uid
    BY <1>3, <2>1 DEF ChannelsAreOwn, Serves
  <2>3. resp.location # ZeroNode => <<resp.uid, resp.location>> \in announced
    BY <1>3, <2>1, RequestType
    DEF LocationFound, sendCallback, Inv, OnlyAnnouncedNodes,
       StoresNameHolders, NodesAnswered, Location
  <2>4. found' = found /\ parked' = [parked EXCEPT ![ch][resp.location] = @ + 1]
    BY <1>3 DEF LocationFound
  <2> HIDE DEF ch
  <2>5. \A g \in Getter, l \in Location : parked'[g][l] =
          IF g = ch /\ l = resp.location THEN parked[g][l] + 1 ELSE parked[g][l]
    BY <2>1, <2>2, <2>4 DEF LOSTypes
  <2>6. \A g \in Getter, m \in Node : parked'[g][m] > 0 => <<UidOf(g), m>> \in announced
    <3> SUFFICES ASSUME NEW g \in Getter, NEW m \in Node, parked'[g][m] > 0
                 PROVE  <<UidOf(g), m>> \in announced
      OBVIOUS
    <3>1. m \in Location /\ m # ZeroNode
      BY ZeroNodeAssumption DEF Location
    <3>2. CASE g = ch /\ m = resp.location
      BY <2>2, <2>3, <3>1, <3>2
    <3>3. CASE parked'[g][m] = parked[g][m]
      BY <3>3 DEF LocationsAreAnnounced
    <3>4. QED
      BY <2>5, <3>1, <3>2, <3>3
  <2>7. QED
    BY <1>1, <2>4, <2>6 DEF LocationsAreAnnounced
<1>4. ASSUME NEW g \in Getter, GetReceive(g)
      PROVE  LocationsAreAnnounced'
  <2>1. receives[g] \in Getter /\ UidOf(receives[g]) = UidOf(g)
    BY <1>4 DEF GetReceive, ChannelsAreOwn, Serves
  <2>2. PICK l \in Location : /\ parked[receives[g]][l] > 0
                              /\ parked' = [parked EXCEPT ![receives[g]][l] = @ - 1]
                              /\ found' = [found EXCEPT ![g] = l]
    BY <1>4 DEF GetReceive
  <2>3. l # ZeroNode => <<UidOf(g), l>> \in announced
    BY <2>1, <2>2 DEF LocationsAreAnnounced, Location
  <2>4. \A h \in Getter, m \in Node : parked'[h][m] > 0 => parked[h][m] > 0
    BY <2>1, <2>2 DEF LOSTypes, Location
  <2>5. \A h \in Getter : found'[h] = IF h = g THEN l ELSE found[h]
    BY <2>2 DEF LOSTypes
  <2>6. QED
    BY <1>1, <2>3, <2>4, <2>5 DEF LocationsAreAnnounced
<1>5. ASSUME NEW g \in Getter, GetStep(g), ~GetReceive(g)
      PROVE  UNCHANGED <<parked, found>>
  BY <1>5 DEF GetStep, GetLookup, GetMakeChannel, GetRequest, GetReread, GetCopy,
     GetCache, GetNotifies
<1>6. ASSUME NEW n \in Node, NEW resp \in Message!LocationFoundCallback,
             LocationFound(n, resp), channels[n][resp.uid] = NoChannel
      PROVE  UNCHANGED <<parked, found>>
  BY <1>6 DEF LocationFound
<1>7. CASE FaultStep \/ GCSStep \/ UNCHANGED losvars
  BY <1>2, <1>7 DEF FaultStep, StoreNotifyFails, GetRequestFails, GetFails,
     GetNotifyFails, LocationFoundFails, RestartGCS, GCSStep, lvars, losvars
<1>8. QED
  BY <1>2, <1>3, <1>4, <1>5, <1>6, <1>7 DEF LOSNext, Store, StoreNotifies

(* The rest of AnnouncedIsStored: the node found has the object. *)
LEMMA FoundHolds ==
  StoreInv => AnnouncedIsStored
BY DEF StoreInv, AnnouncedIsStored, HoldersTell, LocationsAreAnnounced

(* Store and Get keep an object before they announce it. *)
LEMMA HoldersStep ==
  ASSUME StoreInv, [LOSNext]_losvars
  PROVE  HoldersTell'
<1> USE DEF StoreInv
<1>1. \A n \in Node : stored[n] \subseteq stored'[n]
  BY NothingIsTakenBack
<1>2. announced \subseteq Uid \X Node
  BY DEF LOSTypes, TypeOK
<1>3. CASE UNCHANGED <<storing, pc, found, announced>>
  BY <1>1, <1>2, <1>3, RequestType DEF HoldersTell
<1>4. ASSUME NEW n \in Node, NEW req \in Message!StoreRequest, Store(n, req)
      PROVE  HoldersTell'
  <2>1. /\ storing' = storing \cup {Announcement(n, req.uid)}
        /\ req.uid \in stored'[n]
        /\ UNCHANGED <<pc, found, announced>>
    BY <1>4 DEF Store, LOSTypes, tvars
  <2>2. QED
    BY <1>1, <1>2, <2>1, RequestType DEF HoldersTell, Announcement
<1>5. ASSUME NEW u \in Uid, NEW n \in Node, u \in stored[n], NEW size,
             NotifyOwns(u, n, size)
      PROVE  \A r \in announced' : r[1] \in stored'[r[2]]
  BY <1>1, <1>2, <1>5 DEF HoldersTell, NotifyOwns
<1>6. ASSUME NEW req \in storing, StoreNotifies(req)
      PROVE  HoldersTell'
  <2>1. req.uid \in Uid /\ req.nodeId \in Node /\ req.uid \in stored[req.nodeId]
    BY DEF LOSTypes, HoldersTell, Message!NotifyOwnsRequest
  <2>2. QED
    BY <1>1, <1>5, <1>6, <2>1, RequestType DEF StoreNotifies, HoldersTell
<1>7. ASSUME NEW g \in Getter, GetNotifies(g)
      PROVE  HoldersTell'
  <2>1. UidOf(g) \in stored[NodeOf(g)]
    BY <1>7 DEF GetNotifies, HoldersTell
  <2>2. \A h \in Getter : pc'[h] = IF h = g THEN "returned" ELSE pc[h]
    BY <1>7 DEF GetNotifies, Goto, LOSTypes
  <2>3. QED
    BY <1>1, <1>5, <1>7, <2>1, <2>2, RequestType DEF GetNotifies, HoldersTell
<1>8. ASSUME NEW g \in Getter, NEW label, Goto(g, label),
             label \notin {"cache", "notify"},
             UNCHANGED <<storing, announced>>,
             \A h \in Getter \ {g} : found'[h] = found[h]
      PROVE  HoldersTell'
  <2>1. \A h \in Getter : pc'[h] = IF h = g THEN label ELSE pc[h]
    BY <1>8 DEF Goto, LOSTypes
  <2>2. QED
    BY <1>1, <1>2, <1>8, <2>1, RequestType DEF HoldersTell
<1>9. ASSUME NEW g \in Getter, GetCopy(g)
      PROVE  HoldersTell'
  <2>1. PICK label : /\ Goto(g, label) /\ label # "notify"
                     /\ label = "cache" => Holds(found[g], UidOf(g))
    BY <1>9 DEF GetCopy
  <2>2. label = "cache" => found[g] # ZeroNode
    BY <2>1 DEF Holds
  <2>3. \A h \in Getter : pc'[h] = IF h = g THEN label ELSE pc[h]
    BY <2>1 DEF Goto, LOSTypes
  <2>4. QED
    BY <1>1, <1>9, <2>1, <2>2, <2>3, RequestType DEF GetCopy, HoldersTell, tvars
<1>10. ASSUME NEW g \in Getter, GetCache(g)
       PROVE  HoldersTell'
  <2>1. UidOf(g) \in stored'[NodeOf(g)]
    BY <1>10, RequestType DEF GetCache, LOSTypes
  <2>2. \A h \in Getter : pc'[h] = IF h = g THEN "notify" ELSE pc[h]
    BY <1>10 DEF GetCache, Goto, LOSTypes
  <2>3. QED
    BY <1>1, <1>2, <1>10, <2>1, <2>2, RequestType DEF GetCache, HoldersTell, tvars
<1>11. ASSUME NEW g \in Getter, GetStep(g)
       PROVE  HoldersTell'
  <2>1. CASE GetLookup(g) \/ GetMakeChannel(g) \/ GetReread(g)
    BY <1>8, <2>1 DEF GetLookup, GetMakeChannel, GetReread, tvars
  <2>2. CASE GetRequest(g)
    BY <1>8, <2>2 DEF GetRequest, RequestLocation
  <2>3. CASE GetReceive(g)
    BY <1>8, <2>3 DEF GetReceive, LOSTypes, tvars
  <2>4. QED
    BY <1>7, <1>9, <1>10, <1>11, <2>1, <2>2, <2>3 DEF GetStep
<1>12. ASSUME NEW g \in Getter,
              GetRequestFails(g) \/ GetFails(g) \/ GetNotifyFails(g)
       PROVE  HoldersTell'
  BY <1>8, <1>12 DEF GetRequestFails, GetFails, GetNotifyFails, tvars
<1>13. ASSUME NEW req \in storing, StoreNotifyFails(req)
       PROVE  HoldersTell'
  BY <1>1, <1>13, RequestType DEF StoreNotifyFails, HoldersTell, tvars
<1>14. CASE RestartGCS \/ GCSStep \/ UNCHANGED losvars
  BY <1>3, <1>14 DEF RestartGCS, Restart, GCSStep, flushToDisk, RegisterLiveNodes,
     lvars, losvars, tvars
<1>15. ASSUME NEW n \in Node, NEW resp \in Message!LocationFoundCallback,
              LocationFound(n, resp) \/ LocationFoundFails(n, resp)
       PROVE  HoldersTell'
  BY <1>3, <1>15 DEF LocationFound, LocationFoundFails, sendCallback
<1>16. QED
  BY <1>4, <1>6, <1>11, <1>12, <1>13, <1>14, <1>15 DEF LOSNext, FaultStep

(* Everything but a restart of the GCS leaves located what is located. *)
LEMMA LocatedStep ==
  ASSUME StoreInv, [LOSNext]_losvars, ~RestartGCS
  PROVE  Located \subseteq Located'
<1> USE DEF StoreInv
<1>1. Inv /\ TypeOK
  BY DEF Inv
<1>2. CASE UNCHANGED <<objectLocations, database>>
  BY <1>2, StoresUntouched
<1>3. ASSUME NEW req \in storing, StoreNotifies(req)
      PROVE  Located \subseteq Located'
  <2>1. req.uid \in Uid /\ req.nodeId \in Node /\ req.objectSize = "size"
    BY DEF LOSTypes, HoldersTell, Message!NotifyOwnsRequest
  <2>2. QED
    BY <1>1, <1>3, <2>1, NotifyOwnsStores DEF StoreNotifies
<1>4. ASSUME NEW g \in Getter, GetNotifies(g)
      PROVE  Located \subseteq Located'
  BY <1>1, <1>4, NotifyOwnsStores, RequestType DEF GetNotifies
<1>5. ASSUME NEW g \in Getter, GetRequest(g)
      PROVE  Located \subseteq Located'
  BY <1>1, <1>5, RequestLocationStores, RequestType DEF GetRequest
<1>6. CASE flushToDisk
  <2>1. CASE TransactionCommits
    BY <1>1, <1>6, <2>1, flushToDiskEffect DEF Inv
  <2>2. CASE ~TransactionCommits
    BY <1>6, <2>2, StoresUntouched DEF flushToDisk, tvars
  <2>3. QED
    BY <2>1, <2>2
<1>7. CASE GCSStep
  BY <1>2, <1>6, <1>7 DEF GCSStep, RegisterLiveNodes
<1>8. ASSUME NEW g \in Getter, GetStep(g), ~GetRequest(g), ~GetNotifies(g)
      PROVE  UNCHANGED <<objectLocations, database>>
  BY <1>8 DEF GetStep, GetLookup, GetMakeChannel, GetReread, GetReceive, GetCopy,
     GetCache, tvars
<1>9. CASE FaultStep \/ UNCHANGED losvars
  BY <1>2, <1>9 DEF FaultStep, StoreNotifyFails, GetRequestFails, GetFails,
     GetNotifyFails, LocationFoundFails, sendCallback, losvars, tvars
<1>10. QED
  BY <1>2, <1>3, <1>4, <1>5, <1>7, <1>8, <1>9
  DEF LOSNext, Store, LocationFound, sendCallback, tvars

(* Why the object u in the store of n is not out of reach. *)
Reachable(n, u) ==
  \/ u \in Located \/ Announcement(n, u) \in storing
  \/ \E g \in Getter : NodeOf(g) = n /\ UidOf(g) = u /\ pc[g] = "notify"
  \/ <<u, n>> \in lost.announcements \/ lost.restarts > 0

(***************************************************************************)
(* Stored objects stay within reach: whoever stores one has still to tell  *)
(* the GCS, and whoever fails to is on record.                             *)
(***************************************************************************)
LEMMA ReachableStep ==
  ASSUME StoreInv, [LOSNext]_losvars
  PROVE  StoredCanBeFound'
<1> USE DEF StoreInv
<1>1. ~RestartGCS => Located \subseteq Located'
  BY LocatedStep
<1>2. \A n \in Node : \A u \in stored[n] : Reachable(n, u)
  BY DEF StoredCanBeFound, Reachable
<1>3. SUFFICES ASSUME NEW n \in Node, NEW u \in stored'[n]
               PROVE  Reachable(n, u)'
  BY DEF StoredCanBeFound, Reachable
<1>4. CASE RestartGCS
  <2>1. lost'.restarts = lost.restarts + 1
    BY <1>4 DEF RestartGCS, LOSTypes, Losses
  <2>2. lost.restarts \in Nat
    BY DEF LOSTypes, Losses
  <2>3. QED
    BY <2>1, <2>2 DEF Reachable
<1>5. ASSUME stored' = stored, storing' = storing, ~RestartGCS,
             lost'.announcements = lost.announcements, lost'.restarts = lost.restarts,
             \A g \in Getter : pc[g] = "notify" => pc'[g] = "notify"
      PROVE  Reachable(n, u)'
  BY <1>1, <1>2, <1>5 DEF Reachable
<1>6. ASSUME NEW m \in Node, NEW req \in Message!StoreRequest, Store(m, req), ~RestartGCS
      PROVE  Reachable(n, u)'
  <2>1. CASE n = m /\ u = req.uid
    BY <1>6, <2>1 DEF Store, Reachable
  <2>2. CASE ~(n = m /\ u = req.uid)
    <3>1. u \in stored[n]
      BY <1>3, <1>6, <2>2 DEF Store, LOSTypes
    <3>2. QED
      BY <1>1, <1>2, <1>6, <3>1 DEF Store, Reachable
  <2>3. QED
    BY <2>1, <2>2
<1>7. ASSUME NEW req \in storing, StoreNotifies(req), ~RestartGCS
      PROVE  Reachable(n, u)'
  <2>1. req.uid \in Uid /\ req.nodeId \in Node /\ req.objectSize = "size"
    BY DEF LOSTypes, HoldersTell, Message!NotifyOwnsRequest
  <2>2. req.uid \in Located'
    BY <1>7, <2>1, NotifyOwnsStores DEF StoreNotifies, Inv
  <2>3. Announcement(n, u) = req => u = req.uid
    BY DEF Announcement
  <2>4. QED
    BY <1>1, <1>2, <1>7, <2>2, <2>3 DEF StoreNotifies, Reachable
<1>8. ASSUME NEW g \in Getter, GetCache(g), ~RestartGCS
      PROVE  Reachable(n, u)'
  <2>1. \A h \in Getter : pc'[h] = IF h = g THEN "notify" ELSE pc[h]
    BY <1>8 DEF GetCache, Goto, LOSTypes
  <2>2. u \in stored[n] \/ (n = NodeOf(g) /\ u = UidOf(g))
    BY <1>3, <1>8, RequestType DEF GetCache, LOSTypes
  <2>3. QED
    BY <1>1, <1>2, <1>8, <2>1, <2>2 DEF GetCache, Reachable
<1>9. ASSUME NEW g \in Getter, GetNotifies(g), ~RestartGCS
      PROVE  Reachable(n, u)'
  <2>1. \A h \in Getter : pc'[h] = IF h = g THEN "returned" ELSE pc[h]
    BY <1>9 DEF GetNotifies, Goto, LOSTypes
  <2>2. UidOf(g) \in Located'
    BY <1>9, RequestType, NotifyOwnsStores DEF GetNotifies, Inv
  <2>3. QED
    BY <1>1, <1>2, <1>9, <2>1, <2>2 DEF GetNotifies, Reachable
<1>10. ASSUME NEW g \in Getter, GetStep(g), ~RestartGCS
       PROVE  Reachable(n, u)'
  <2>1. ASSUME ~GetCache(g), ~GetNotifies(g)
        PROVE  /\ UNCHANGED <<stored, storing, lost>>
               /\ \A h \in Getter : pc[h] = "notify" => pc'[h] = "notify"
    BY <1>10, <2>1 DEF GetStep, GetLookup, GetMakeChannel, GetRequest, GetReread,
       GetReceive, GetCopy, Goto, LOSTypes
  <2>2. QED
    BY <1>5, <1>8, <1>9, <1>10, <2>1
<1>11. ASSUME NEW m \in Node, NEW v \in Uid, LoseAnnouncement(m, v)
       PROVE  /\ lost'.announcements = lost.announcements \cup {<<v, m>>}
              /\ lost'.restarts = lost.restarts
  BY <1>11 DEF LoseAnnouncement, LOSTypes, Losses
<1>12. ASSUME NEW req \in storing, StoreNotifyFails(req), ~RestartGCS
       PROVE  Reachable(n, u)'
  <2>1. req.uid \in Uid /\ req.nodeId \in Node
    BY DEF LOSTypes, HoldersTell, Message!NotifyOwnsRequest
  <2>2. /\ lost'.announcements = lost.announcements \cup {<<req.uid, req.nodeId>>}
        /\ lost'.restarts = lost.restarts
    BY <1>11, <1>12, <2>1 DEF StoreNotifyFails
  <2>3. Announcement(n, u) = req => u = req.uid /\ n = req.nodeId
    BY DEF Announcement
  <2>4. QED
    BY <1>1, <1>2, <1>12, <2>2, <2>3 DEF StoreNotifyFails, Reachable
<1>13. ASSUME NEW g \in Getter, GetNotifyFails(g), ~RestartGCS
       PROVE  Reachable(n, u)'
  <2>1. \A h \in Getter : pc'[h] = IF h = g THEN "returned" ELSE pc[h]
    BY <1>13 DEF GetNotifyFails, Goto, LOSTypes
  <2>2. /\ lost'.announcements = lost.announcements \cup {<<UidOf(g), NodeOf(g)>>}
        /\ lost'.restarts = lost.restarts
    BY <1>11, <1>13, RequestType DEF GetNotifyFails
  <2>3. QED
    BY <1>1, <1>2, <1>13, <2>1, <2>2 DEF GetNotifyFails, Reachable
<1>14. ASSUME NEW g \in Getter, GetRequestFails(g) \/ GetFails(g), ~RestartGCS
       PROVE  Reachable(n, u)'
  <2>1. \A h \in Getter : pc[h] = "notify" => pc'[h] = "notify"
    BY <1>14 DEF GetRequestFails, GetFails, Goto, LOSTypes
  <2>2. lost'.announcements = lost.announcements /\ lost'.restarts = lost.restarts
    BY <1>14 DEF GetRequestFails, GetFails, LoseWakeup, LOSTypes, Losses
  <2>3. QED
    BY <1>5, <1>14, <2>1, <2>2 DEF GetRequestFails, GetFails
<1>15. ASSUME NEW m \in Node, NEW resp \in Message!LocationFoundCallback, ~RestartGCS,
              LocationFound(m, resp) \/ LocationFoundFails(m, resp)
       PROVE  Reachable(n, u)'
  <2>1. lost'.announcements = lost.announcements /\ lost'.restarts = lost.restarts
    BY <1>15 DEF LocationFound, LocationFoundFails, LoseWakeup, LOSTypes, Losses
  <2>2. QED
    BY <1>5, <1>15, <2>1 DEF LocationFound, LocationFoundFails
<1>16. ASSUME GCSStep \/ UNCHANGED losvars, ~RestartGCS
       PROVE  Reachable(n, u)'
  BY <1>5, <1>16 DEF GCSStep, losvars, lvars
<1>17. QED
  BY <1>4, <1>6, <1>7, <1>10, <1>12, <1>13, <1>14, <1>15, <1>16 DEF LOSNext, FaultStep

(***************************************************************************)
(* A key without a size is left behind by a Get: NotifyOwns with a size    *)
(* records it under every new key, and only questions make other keys.     *)
(***************************************************************************)
LEMMA SizesStep ==
  ASSUME StoreInv, [LOSNext]_losvars
  PROVE  KeysHaveSizes'
<1> USE DEF StoreInv
<1> DEFINE Excused(u) == lost.restarts > 0 \/ \E n \in Node : channels[n][u] # NoChannel
<1>1. /\ DOMAIN objectLocations \subseteq Uid
      /\ objectSizes \in [Uid -> {"none", "size"}]
      /\ lost \in Losses
  BY DEF LOSTypes, TypeOK
<1>2. lost'.restarts >= lost.restarts /\ lost.restarts \in Nat /\ lost'.restarts \in Nat
  <2>1. lost' \in Losses
    BY TypeStep DEF LOSTypes
  <2>2. \/ lost'.restarts = lost.restarts
        \/ lost'.restarts = lost.restarts + 1
    BY <1>1 DEF LOSNext, losvars, lvars, Store, StoreNotifies, GetStep, GetLookup,
       GetMakeChannel, GetRequest, GetReread, GetReceive, GetCopy, GetCache,
       GetNotifies, LocationFound, GCSStep, FaultStep, StoreNotifyFails,
       LocationFoundFails, GetRequestFails, GetFails, GetNotifyFails, RestartGCS,
       LoseWakeup, LoseAnnouncement, Losses
  <2>3. QED
    BY <1>1, <2>1, <2>2 DEF Losses
<1>3. \A u \in Uid : Excused(u) => Excused(u)'
  BY <1>2, ChannelsStep
<1> HIDE DEF Excused
<1>4. ASSUME \A u \in DOMAIN objectLocations' : objectSizes'[u] = "none" =>
               \/ u \in DOMAIN objectLocations /\ objectSizes[u] = "none"
               \/ u \in Uid /\ Excused(u)
      PROVE  KeysHaveSizes'
  BY <1>1, <1>3, <1>4 DEF KeysHaveSizes, Excused
<1>5. ASSUME NEW u \in Uid, NEW n \in Node, NEW size \in {"none", "size"},
             NotifyOwns(u, n, size), size = "size" \/ Excused(u)
      PROVE  KeysHaveSizes'
  <2>1. DOMAIN objectLocations' = DOMAIN objectLocations \cup {u}
    BY <1>5, DomainOfPut DEF NotifyOwns
  <2>2. objectSizes' = IF u \in DOMAIN objectLocations THEN objectSizes
                       ELSE [objectSizes EXCEPT ![u] = size]
    BY <1>5 DEF NotifyOwns
  <2>3. QED
    BY <1>1, <1>4, <1>5, <2>1, <2>2
<1>6. ASSUME NEW req \in storing, StoreNotifies(req)
      PROVE  KeysHaveSizes'
  <2>1. req.uid \in Uid /\ req.nodeId \in Node /\ req.objectSize = "size"
    BY DEF LOSTypes, HoldersTell, Message!NotifyOwnsRequest
  <2>2. QED
    BY <1>5, <1>6, <2>1 DEF StoreNotifies
<1>7. ASSUME NEW g \in Getter, pc[g] \notin BeforeChannel
      PROVE  Excused(UidOf(g))
  BY <1>7, RequestType DEF ChannelIsFiled, Excused
<1>8. ASSUME NEW g \in Getter, GetNotifies(g)
      PROVE  KeysHaveSizes'
  BY <1>5, <1>7, <1>8, RequestType DEF GetNotifies, BeforeChannel
<1>9. ASSUME NEW g \in Getter, GetRequest(g)
      PROVE  KeysHaveSizes'
  <2>1. UidOf(g) \in Uid /\ NodeOf(g) \in Client /\ RequestLocation(UidOf(g), NodeOf(g))
    BY <1>9, RequestType DEF GetRequest
  <2>2. DOMAIN objectLocations' = DOMAIN objectLocations \cup {UidOf(g)}
    BY <2>1, RequestLocationEffect DEF LOSTypes
  <2>3. objectSizes' = objectSizes
    BY <2>1 DEF RequestLocation
  <2>4. Excused(UidOf(g))
    BY <1>7, <1>9 DEF GetRequest, BeforeChannel
  <2>5. QED
    BY <1>4, <2>1, <2>2, <2>3, <2>4
<1>10. CASE UNCHANGED <<objectLocations, objectSizes>>
  BY <1>4, <1>10
<1>11. CASE objectLocations' = [u \in {} |-> EmptyList]
  BY <1>4, <1>11
<1>12. CASE GCSStep
  BY <1>10, <1>11, <1>12 DEF GCSStep, flushToDisk, RegisterLiveNodes, tvars
<1>13. ASSUME NEW g \in Getter, GetStep(g), ~GetRequest(g), ~GetNotifies(g)
       PROVE  UNCHANGED <<objectLocations, objectSizes>>
  BY <1>13 DEF GetStep, GetLookup, GetMakeChannel, GetReread, GetReceive, GetCopy,
     GetCache, tvars
<1>14. CASE FaultStep \/ UNCHANGED losvars
  BY <1>10, <1>11, <1>14 DEF FaultStep, StoreNotifyFails, GetRequestFails, GetFails,
     GetNotifyFails, LocationFoundFails, RestartGCS, Restart, sendCallback, losvars, tvars
<1>15. QED
  BY <1>6, <1>8, <1>9, <1>10, <1>12, <1>13, <1>14
  DEF LOSNext, Store, LocationFound, sendCallback, tvars

-----------------------------------------------------------------------------
(* Counting goroutines.                                                    *)

(* An element of Goroutines(count) is a key and a number up to its count. *)
LEMMA GoroutineIs ==
  ASSUME NEW D, NEW count \in [D -> Nat], NEW p
  PROVE  p \in Goroutines(count) <=>
           \E k \in D : \E i \in 1 .. count[k] : p = <<k, i>>
BY DEF Goroutines

(* k more goroutines under one key make k more altogether. *)
LEMMA GoroutinesStart ==
  ASSUME NEW D, NEW old \in [D -> Nat], NEW new \in [D -> Nat], NEW x \in D,
         NEW k \in Nat, new[x] = old[x] + k, \A y \in D \ {x} : new[y] = old[y],
         IsFiniteSet(Goroutines(old))
  PROVE  /\ IsFiniteSet(Goroutines(new))
         /\ Cardinality(Goroutines(new)) = Cardinality(Goroutines(old)) + k
<1> DEFINE I == (old[x] + 1) .. (old[x] + k)
<1> DEFINE Started == {x} \X I
<1>1. old[x] \in Nat /\ new[x] \in Nat
  OBVIOUS
<1>2. IsFiniteSet(I) /\ Cardinality(I) = k
  <2>1. old[x] + 1 \in Int /\ old[x] + k \in Int
    BY <1>1
  <2>2. /\ IsFiniteSet(I)
        /\ Cardinality(I) = IF old[x] + 1 > old[x] + k THEN 0
                            ELSE (old[x] + k) - (old[x] + 1) + 1
    BY <2>1, FS_Interval
  <2>3. QED
    BY <1>1, <2>2
<1>3. IsFiniteSet(Started) /\ Cardinality(Started) = k
  <2>1. IsFiniteSet({x}) /\ Cardinality({x}) = 1
    BY FS_Singleton
  <2>2. /\ IsFiniteSet(Started)
        /\ Cardinality(Started) = Cardinality({x}) * Cardinality(I)
    BY <1>2, <2>1, FS_Product
  <2>3. QED
    BY <1>2, <2>1, <2>2
<1>4. Goroutines(new) = Goroutines(old) \cup Started
  <2>1. ASSUME NEW p \in Goroutines(new)
        PROVE  p \in Goroutines(old) \cup Started
    <3>1. PICK y \in D, i \in Nat : i \in 1 .. new[y] /\ p = <<y, i>>
      BY GoroutineIs
    <3>2. CASE y = x /\ i > old[x]
      BY <1>1, <3>1, <3>2
    <3>3. CASE ~(y = x /\ i > old[x])
      <4>1. i \in 1 .. old[y]
        BY <1>1, <3>1, <3>3
      <4>2. QED
        BY <3>1, <4>1, GoroutineIs
    <3>4. QED
      BY <3>2, <3>3
  <2>2. ASSUME NEW p \in Goroutines(old)
        PROVE  p \in Goroutines(new)
    <3>1. PICK y \in D, i \in Nat : i \in 1 .. old[y] /\ p = <<y, i>>
      BY GoroutineIs
    <3>2. i \in 1 .. new[y]
      BY <1>1, <3>1
    <3>3. QED
      BY <3>1, <3>2, GoroutineIs
  <2>3. ASSUME NEW p \in Started
        PROVE  p \in Goroutines(new)
    <3>1. PICK i \in I : p = <<x, i>>
      OBVIOUS
    <3>2. i \in 1 .. new[x]
      BY <1>1, <3>1
    <3>3. QED
      BY <3>1, <3>2, GoroutineIs
  <2>4. QED
    BY <2>1, <2>2, <2>3
<1>5. Goroutines(old) \cap Started = {}
  <2>1. ASSUME NEW p \in Goroutines(old), p \in Started
        PROVE  FALSE
    <3>1. PICK y \in D, i \in Nat : i \in 1 .. old[y] /\ p = <<y, i>>
      BY GoroutineIs
    <3>2. y = x /\ i \in I
      BY <2>1, <3>1
    <3>3. QED
      BY <1>1, <3>1, <3>2
  <2>2. QED
    BY <2>1
<1> HIDE DEF Started
<1>6. /\ IsFiniteSet(Goroutines(old) \cup Started)
      /\ Cardinality(Goroutines(old) \cup Started) =
           Cardinality(Goroutines(old)) + Cardinality(Started) - Cardinality({})
  BY <1>3, <1>5, FS_Union
<1>7. Cardinality({}) = 0 /\ Cardinality(Goroutines(old)) \in Nat
  BY FS_EmptySet, FS_CardinalityType
<1>8. QED
  BY <1>3, <1>4, <1>6, <1>7

(* One goroutine less under one key makes one less altogether. *)
LEMMA GoroutineEnds ==
  ASSUME NEW D, NEW old \in [D -> Nat], NEW new \in [D -> Nat], NEW x \in D,
         old[x] > 0, new[x] = old[x] - 1, \A y \in D \ {x} : new[y] = old[y],
         IsFiniteSet(Goroutines(old))
  PROVE  /\ IsFiniteSet(Goroutines(new))
         /\ Cardinality(Goroutines(new)) = Cardinality(Goroutines(old)) - 1
<1>1. Goroutines(new) \in SUBSET Goroutines(old)
  <2>1. ASSUME NEW p \in Goroutines(new)
        PROVE  p \in Goroutines(old)
    <3>1. PICK y \in D, i \in Nat : i \in 1 .. new[y] /\ p = <<y, i>>
      BY GoroutineIs
    <3>2. i \in 1 .. old[y]
      BY <3>1
    <3>3. QED
      BY <3>1, <3>2, GoroutineIs
  <2>2. QED
    BY <2>1
<1>2. IsFiniteSet(Goroutines(new))
  BY <1>1, FS_Subset
<1>3. old[x] = new[x] + 1 /\ \A y \in D \ {x} : old[y] = new[y]
  OBVIOUS
<1>4. Cardinality(Goroutines(old)) = Cardinality(Goroutines(new)) + 1
  BY <1>2, <1>3, GoroutinesStart
<1>5. Cardinality(Goroutines(new)) \in Nat
  BY <1>2, FS_CardinalityType
<1>6. QED
  BY <1>2, <1>4, <1>5

(* Equal counts, equal goroutines. *)
LEMMA GoroutinesUntouched ==
  ASSUME NEW D, NEW old \in [D -> Nat], NEW new \in [D -> Nat],
         \A y \in D : new[y] = old[y]
  PROVE  Goroutines(new) = Goroutines(old)
BY DEF Goroutines

(* No count, no goroutine. *)
LEMMA NoGoroutines ==
  ASSUME NEW D, NEW count \in [D -> Nat], \A y \in D : count[y] = 0
  PROVE  IsFiniteSet(Goroutines(count)) /\ Cardinality(Goroutines(count)) = 0
<1>1. \A p : p \notin Goroutines(count)
  BY GoroutineIs
<1>2. Goroutines(count) = {}
  BY <1>1
<1>3. QED
  BY <1>2, FS_EmptySet

-----------------------------------------------------------------------------
(* One wake-up per Get.                                                    *)

(* LocationFound handlers park on, and leave, the channel of a Get. *)
LEMMA ParkedStarts ==
  ASSUME LOSTypes, LOSTypes', NEW n \in Node, NEW u \in Uid, NEW g \in GetsOf(n, u),
         NEW k \in Location, IsFiniteSet(ParkedFor(n, u)),
         \A h \in Getter, l \in Location : parked'[h][l] =
           IF h = g /\ l = k THEN parked[h][l] + 1 ELSE parked[h][l]
  PROVE  /\ IsFiniteSet(ParkedFor(n, u)')
         /\ Cardinality(ParkedFor(n, u)') = Cardinality(ParkedFor(n, u)) + 1
<1> DEFINE D == GetsOf(n, u) \X Location
           old == [p \in D |-> parked[p[1]][p[2]]]
           new == [p \in D |-> parked'[p[1]][p[2]]]
<1>1. GetsOf(n, u) \subseteq Getter
  BY DEF GetsOf
<1>2. old \in [D -> Nat] /\ new \in [D -> Nat] /\ <<g, k>> \in D
  BY <1>1 DEF LOSTypes
<1>3. new[<<g, k>>] = old[<<g, k>>] + 1
  BY <1>1, <1>2
<1>4. \A p \in D \ {<<g, k>>} : new[p] = old[p]
  BY <1>1
<1>5. ParkedFor(n, u) = Goroutines(old) /\ ParkedFor(n, u)' = Goroutines(new)
  BY DEF ParkedFor, GetsOf
<1> HIDE DEF D, old, new
<1>6. QED
  BY <1>2, <1>3, <1>4, <1>5, GoroutinesStart

LEMMA ParkedEnds ==
  ASSUME LOSTypes, LOSTypes', NEW n \in Node, NEW u \in Uid, NEW g \in GetsOf(n, u),
         NEW k \in Location, parked[g][k] > 0, IsFiniteSet(ParkedFor(n, u)),
         \A h \in Getter, l \in Location : parked'[h][l] =
           IF h = g /\ l = k THEN parked[h][l] - 1 ELSE parked[h][l]
  PROVE  /\ IsFiniteSet(ParkedFor(n, u)')
         /\ Cardinality(ParkedFor(n, u)') = Cardinality(ParkedFor(n, u)) - 1
<1> DEFINE D == GetsOf(n, u) \X Location
           old == [p \in D |-> parked[p[1]][p[2]]]
           new == [p \in D |-> parked'[p[1]][p[2]]]
<1>1. GetsOf(n, u) \subseteq Getter
  BY DEF GetsOf
<1>2. old \in [D -> Nat] /\ new \in [D -> Nat] /\ <<g, k>> \in D
  BY <1>1 DEF LOSTypes
<1>3. new[<<g, k>>] = old[<<g, k>>] - 1 /\ old[<<g, k>>] > 0
  BY <1>1, <1>2
<1>4. \A p \in D \ {<<g, k>>} : new[p] = old[p]
  BY <1>1
<1>5. ParkedFor(n, u) = Goroutines(old) /\ ParkedFor(n, u)' = Goroutines(new)
  BY DEF ParkedFor, GetsOf
<1> HIDE DEF D, old, new
<1>6. QED
  BY <1>2, <1>3, <1>4, <1>5, GoroutineEnds

LEMMA ParkedUntouched ==
  ASSUME NEW n \in Node, NEW u \in Uid,
         \A h \in GetsOf(n, u), l \in Location : parked'[h][l] = parked[h][l]
  PROVE  ParkedFor(n, u)' = ParkedFor(n, u)
<1>1. [p \in GetsOf(n, u) \X Location |-> parked'[p[1]][p[2]]]
        = [p \in GetsOf(n, u) \X Location |-> parked[p[1]][p[2]]]
  OBVIOUS
<1>2. QED
  BY <1>1 DEF ParkedFor, GetsOf

(* A Get joins the askers, leaves them, or moves among the others. *)
LEMMA AskingJoin ==
  ASSUME LOSTypes, NEW n \in Node, NEW u \in Uid, NEW g \in GetsOf(n, u),
         pc[g] \notin {"reread", "receive"}, Goto(g, "reread"),
         IsFiniteSet(Asking(n, u))
  PROVE  /\ IsFiniteSet(Asking(n, u)')
         /\ Cardinality(Asking(n, u)') = Cardinality(Asking(n, u)) + 1
<1>1. Asking(n, u)' = Asking(n, u) \cup {g}
  BY DEF Asking, GetsOf, Goto, LOSTypes
<1>2. g \notin Asking(n, u)
  BY DEF Asking
<1>3. QED
  BY <1>1, <1>2, FS_AddElement

LEMMA AskingLeave ==
  ASSUME LOSTypes, NEW n \in Node, NEW u \in Uid, NEW g \in GetsOf(n, u),
         pc[g] = "receive", NEW label \in {"copy", "returned"}, Goto(g, label),
         IsFiniteSet(Asking(n, u))
  PROVE  /\ IsFiniteSet(Asking(n, u)')
         /\ Cardinality(Asking(n, u)') = Cardinality(Asking(n, u)) - 1
<1>1. Asking(n, u)' = Asking(n, u) \ {g}
  BY DEF Asking, GetsOf, Goto, LOSTypes
<1>2. g \in Asking(n, u)
  BY DEF Asking
<1>3. QED
  BY <1>1, <1>2, FS_RemoveElement

LEMMA AskingUntouched ==
  ASSUME LOSTypes, NEW n \in Node, NEW u \in Uid, NEW g \in Getter, NEW label,
         Goto(g, label),
         g \notin GetsOf(n, u)
           \/ (pc[g] \in {"reread", "receive"} <=> label \in {"reread", "receive"})
  PROVE  Asking(n, u)' = Asking(n, u)
BY DEF Asking, GetsOf, Goto, LOSTypes

(* A lost wake-up is put down to its node and uid. *)
LEMMA WakeupIsLost ==
  ASSUME LOSTypes, NEW m \in Node, NEW v \in Uid, LoseWakeup(m, v),
         NEW n \in Node, NEW u \in Uid
  PROVE  lost'.wakeups[n][u] = IF n = m /\ u = v THEN lost.wakeups[n][u] + 1
                                                ELSE lost.wakeups[n][u]
<1>1. lost \in Losses
  BY DEF LOSTypes
<1>2. lost'.wakeups = [lost.wakeups EXCEPT ![m][v] = @ + 1]
  BY <1>1 DEF LoseWakeup, Losses
<1>3. lost.wakeups \in [Node -> [Uid -> Nat]]
  BY <1>1 DEF Losses
<1>4. QED
  BY <1>2, <1>3

(* The balance of one node and uid. *)
Balanced(n, u) ==
  /\ IsFiniteSet(Asking(n, u))
  /\ IsFiniteSet(Goroutines(callbacks[u][n]))
  /\ IsFiniteSet(ParkedFor(n, u))
  /\ Cardinality(Asking(n, u)) = OnTheirWay(n, u) + lost.wakeups[n][u]

LEMMA BalancedIs ==
  FinitelyMany /\ OneWakeupPerGet <=> \A n \in Node, u \in Uid : Balanced(n, u)
BY DEF FinitelyMany, OneWakeupPerGet, Balanced

(* All that the balance is about is a number. *)
LEMMA BalanceType ==
  ASSUME LOSTypes, NEW n \in Node, NEW u \in Uid, Balanced(n, u)
  PROVE  /\ waitlist[u][n] \in Nat /\ lost.wakeups[n][u] \in Nat
         /\ callbacks[u][n] \in [Location -> Nat]
         /\ Cardinality(Asking(n, u)) \in Nat
         /\ Cardinality(Goroutines(callbacks[u][n])) \in Nat
         /\ Cardinality(ParkedFor(n, u)) \in Nat
         /\ Cardinality(Asking(n, u)) =
              waitlist[u][n] + Cardinality(Goroutines(callbacks[u][n]))
                + Cardinality(ParkedFor(n, u)) + lost.wakeups[n][u]
<1>1. waitlist[u][n] \in Nat /\ callbacks[u][n] \in [Location -> Nat]
  BY RequestType DEF LOSTypes, TypeOK
<1>2. lost.wakeups[n][u] \in Nat
  BY DEF LOSTypes, Losses
<1>3. /\ Cardinality(Asking(n, u)) \in Nat
      /\ Cardinality(Goroutines(callbacks[u][n])) \in Nat
      /\ Cardinality(ParkedFor(n, u)) \in Nat
  BY FS_CardinalityType DEF Balanced
<1>4. QED
  BY <1>1, <1>2, <1>3 DEF Balanced, OnTheirWay, Promised

(* Steps that touch nothing the balance of u on n is about. *)
LEMMA BalanceUntouched ==
  ASSUME LOSTypes, LOSTypes', NEW n \in Node, NEW u \in Uid, Balanced(n, u),
         waitlist'[u][n] = waitlist[u][n],
         \A l \in Location : callbacks'[u][n][l] = callbacks[u][n][l],
         \A h \in GetsOf(n, u), l \in Location : parked'[h][l] = parked[h][l],
         lost'.wakeups[n][u] = lost.wakeups[n][u],
         Asking(n, u)' = Asking(n, u)
  PROVE  Balanced(n, u)'
<1>1. callbacks[u][n] \in [Location -> Nat] /\ callbacks'[u][n] \in [Location -> Nat]
  BY RequestType DEF LOSTypes, TypeOK
<1>2. Goroutines(callbacks'[u][n]) = Goroutines(callbacks[u][n])
  BY <1>1, GoroutinesUntouched
<1>3. ParkedFor(n, u)' = ParkedFor(n, u)
  BY ParkedUntouched
<1>4. QED
  BY <1>2, <1>3 DEF Balanced, OnTheirWay, Promised

(* NotifyOwns turns the entries of the waitlist into callbacks. *)
LEMMA NotifyBalance ==
  ASSUME LOSTypes, LOSTypes', NEW n \in Node, NEW u \in Uid, Balanced(n, u),
         NEW v \in Uid, NEW m \in Node, NEW size, NotifyOwns(v, m, size),
         UNCHANGED <<parked, lost>>, Asking(n, u)' = Asking(n, u)
  PROVE  Balanced(n, u)'
<1>1. /\ waitlist'[u][n] = IF u = v THEN 0 ELSE waitlist[u][n]
      /\ \A l \in Location : callbacks'[u][n][l] =
           IF u = v /\ l = m THEN callbacks[u][n][l] + waitlist[u][n]
                             ELSE callbacks[u][n][l]
  BY NotifyOwnsAnswers, RequestType DEF LOSTypes
<1>2. CASE u # v
  BY <1>1, <1>2, BalanceUntouched
<1>3. CASE u = v
  <2> DEFINE C == Cardinality(Goroutines(callbacks[u][n]))
             D == Cardinality(Goroutines(callbacks'[u][n]))
  <2>1. callbacks'[u][n] \in [Location -> Nat] /\ m \in Location
    <3>1. m \in Location
      BY DEF Location
    <3>2. QED
      BY <3>1, RequestType DEF LOSTypes, TypeOK
  <2>2. callbacks[u][n] \in [Location -> Nat] /\ waitlist[u][n] \in Nat
    BY BalanceType
  <2>3. IsFiniteSet(Goroutines(callbacks'[u][n])) /\ D = C + waitlist[u][n]
    <3>1. /\ callbacks'[u][n][m] = callbacks[u][n][m] + waitlist[u][n]
          /\ \A l \in Location \ {m} : callbacks'[u][n][l] = callbacks[u][n][l]
      BY <1>1, <1>3, <2>1
    <3>2. IsFiniteSet(Goroutines(callbacks[u][n]))
      BY DEF Balanced
    <3>3. QED
      BY <2>1, <2>2, <3>1, <3>2, GoroutinesStart
  <2>4. ParkedFor(n, u)' = ParkedFor(n, u)
    BY ParkedUntouched
  <2>5. waitlist'[u][n] + D = waitlist[u][n] + C
    <3>1. C \in Nat
      BY BalanceType
    <3>2. QED
      BY <1>1, <1>3, <2>2, <2>3, <3>1
  <2>6. QED
    BY <2>3, <2>4, <2>5 DEF Balanced, OnTheirWay, Promised
<1>4. QED
  BY <1>2, <1>3

(* A question: one asker more, and an entry on the waitlist or a callback. *)
LEMMA RequestBalance ==
  ASSUME LOSTypes, LOSTypes', NEW n \in Node, NEW u \in Uid, Balanced(n, u),
         NEW g \in Getter, GetRequest(g)
  PROVE  Balanced(n, u)'
<1>1. /\ UidOf(g) \in Uid /\ NodeOf(g) \in Client
      /\ RequestLocation(UidOf(g), NodeOf(g))
      /\ UNCHANGED <<parked, lost>> /\ Goto(g, "reread") /\ pc[g] = "request"
  BY RequestType DEF GetRequest
<1>2. TypeOK /\ Client = Node /\ ParkedFor(n, u)' = ParkedFor(n, u)
  BY <1>1, ParkedUntouched, RequestType DEF LOSTypes
<1>3. CASE g \in GetsOf(n, u)
  <2> DEFINE A == Cardinality(Asking(n, u))
             B == Cardinality(Asking(n, u)')
             C == Cardinality(Goroutines(callbacks[u][n]))
             D == Cardinality(Goroutines(callbacks'[u][n]))
  <2>1. UidOf(g) = u /\ NodeOf(g) = n
    BY <1>3 DEF GetsOf
  <2>2. IsFiniteSet(Asking(n, u)') /\ B = A + 1
    BY <1>1, <1>3, AskingJoin DEF Balanced
  <2>3. /\ IsFiniteSet(Goroutines(callbacks'[u][n]))
        /\ waitlist'[u][n] + D = waitlist[u][n] + C + 1
    <3>1. /\ callbacks[u][n] \in [Location -> Nat] /\ waitlist[u][n] \in Nat
          /\ C \in Nat /\ callbacks'[u][n] \in [Location -> Nat]
      BY BalanceType, RequestType DEF LOSTypes, TypeOK
    <3>2. CASE UNCHANGED callbacks /\ waitlist'[u][n] = waitlist[u][n] + 1
      BY <3>1, <3>2 DEF Balanced
    <3>3. ASSUME UNCHANGED waitlist, NEW k \in Location,
                 \A l \in Location : callbacks'[u][n][l] =
                   IF l = k THEN callbacks[u][n][l] + 1 ELSE callbacks[u][n][l]
          PROVE  /\ IsFiniteSet(Goroutines(callbacks'[u][n]))
                 /\ waitlist'[u][n] + D = waitlist[u][n] + C + 1
      <4>1. IsFiniteSet(Goroutines(callbacks'[u][n])) /\ D = C + 1
        BY <3>1, <3>3, GoroutinesStart DEF Balanced
      <4>2. QED
        BY <3>1, <3>3, <4>1
    <3>4. QED
      BY <1>1, <1>2, <2>1, <3>2, <3>3, RequestLocationAnswers
  <2>4. A \in Nat /\ C \in Nat /\ waitlist[u][n] \in Nat
        /\ Cardinality(ParkedFor(n, u)) \in Nat /\ lost.wakeups[n][u] \in Nat
        /\ A = waitlist[u][n] + C + Cardinality(ParkedFor(n, u)) + lost.wakeups[n][u]
    BY BalanceType
  <2>5. B = (waitlist'[u][n] + D) + Cardinality(ParkedFor(n, u)) + lost.wakeups[n][u]
    BY <2>2, <2>3, <2>4
  <2>6. QED
    BY <1>1, <1>2, <2>2, <2>3, <2>5 DEF Balanced, OnTheirWay, Promised
<1>4. CASE g \notin GetsOf(n, u)
  <2>1. ~(UidOf(g) = u /\ NodeOf(g) = n)
    BY <1>4 DEF GetsOf
  <2>2. /\ waitlist'[u][n] = waitlist[u][n]
        /\ \A l \in Location : callbacks'[u][n][l] = callbacks[u][n][l]
    BY <1>1, <1>2, <2>1, RequestLocationAnswers
  <2>3. Asking(n, u)' = Asking(n, u)
    BY <1>1, <1>4, AskingUntouched
  <2>4. QED
    BY <1>1, <2>2, <2>3, BalanceUntouched
<1>5. QED
  BY <1>3, <1>4

(* A location arrives: one handler less, one asker less. *)
LEMMA ReceiveBalance ==
  ASSUME LOSTypes, LOSTypes', ChannelsAreOwn, NEW n \in Node, NEW u \in Uid,
         Balanced(n, u), NEW g \in Getter, GetReceive(g)
  PROVE  Balanced(n, u)'
<1>1. PICK k \in Location : /\ parked[receives[g]][k] > 0
                            /\ parked' = [parked EXCEPT ![receives[g]][k] = @ - 1]
  BY DEF GetReceive
<1>2. receives[g] \in GetsOf(NodeOf(g), UidOf(g)) /\ receives[g] \in Getter
  BY DEF GetReceive, ChannelsAreOwn, Serves, GetsOf
<1>3. PICK label \in {"copy", "returned"} : Goto(g, label)
  BY DEF GetReceive
<1>4. pc[g] = "receive" /\ UNCHANGED <<waitlist, callbacks, lost>>
  BY DEF GetReceive, tvars
<1>5. \A h \in Getter, l \in Location : parked'[h][l] =
        IF h = receives[g] /\ l = k THEN parked[h][l] - 1 ELSE parked[h][l]
  BY <1>1, <1>2 DEF LOSTypes
<1>6. CASE g \in GetsOf(n, u)
  <2>1. receives[g] \in GetsOf(n, u)
    BY <1>2, <1>6 DEF GetsOf
  <2>2. /\ IsFiniteSet(ParkedFor(n, u)')
        /\ Cardinality(ParkedFor(n, u)') = Cardinality(ParkedFor(n, u)) - 1
    BY <1>1, <1>5, <2>1, ParkedEnds DEF Balanced
  <2>3. /\ IsFiniteSet(Asking(n, u)')
        /\ Cardinality(Asking(n, u)') = Cardinality(Asking(n, u)) - 1
    BY <1>3, <1>4, <1>6, AskingLeave DEF Balanced
  <2>4. Promised(n, u)' = Promised(n, u)
    BY <1>4 DEF Promised
  <2>5. Promised(n, u) \in Nat /\ Cardinality(ParkedFor(n, u)) \in Nat
        /\ lost.wakeups[n][u] \in Nat
    BY BalanceType DEF Promised
  <2>6. QED
    BY <1>4, <2>2, <2>3, <2>4, <2>5 DEF Balanced, OnTheirWay
<1>7. CASE g \notin GetsOf(n, u)
  <2>1. receives[g] \notin GetsOf(n, u)
    BY <1>2, <1>7 DEF GetsOf
  <2>2. \A h \in GetsOf(n, u), l \in Location : parked'[h][l] = parked[h][l]
    BY <1>5, <2>1 DEF GetsOf
  <2>3. Asking(n, u)' = Asking(n, u)
    BY <1>3, <1>7, AskingUntouched
  <2>4. QED
    BY <1>4, <2>2, <2>3, BalanceUntouched
<1>8. QED
  BY <1>6, <1>7

(* A callback becomes a handler parked on a channel, or is lost. *)
LEMMA CallbackBalance ==
  ASSUME StoreInv, LOSTypes', NEW n \in Node, NEW u \in Uid, Balanced(n, u),
         NEW m \in Node, NEW resp \in Message!LocationFoundCallback,
         LocationFound(m, resp) \/ LocationFoundFails(m, resp)
  PROVE  Balanced(n, u)'
<1> USE DEF StoreInv
<1> DEFINE C == Cardinality(Goroutines(callbacks[u][n]))
           D == Cardinality(Goroutines(callbacks'[u][n]))
<1>1. resp.uid \in Uid /\ resp.location \in Location /\ TypeOK /\ Client = Node
  BY RequestType DEF Message!LocationFoundCallback, LOSTypes
<1>2. sendCallback(resp.uid, m, resp.location) /\ pc' = pc
  BY DEF LocationFound, LocationFoundFails
<1>3. /\ UNCHANGED waitlist
      /\ callbacks[resp.uid][m][resp.location] > 0
      /\ \A l \in Location : callbacks'[u][n][l] =
           IF u = resp.uid /\ n = m /\ l = resp.location
           THEN callbacks[u][n][l] - 1 ELSE callbacks[u][n][l]
  BY <1>1, <1>2, sendCallbackAnswers
<1>4. Asking(n, u)' = Asking(n, u)
  BY <1>2 DEF Asking, GetsOf
<1>5. CASE u = resp.uid /\ n = m
  <2>1. callbacks[u][n] \in [Location -> Nat] /\ callbacks'[u][n] \in [Location -> Nat]
    BY <1>1 DEF LOSTypes, TypeOK
  <2>2. IsFiniteSet(Goroutines(callbacks'[u][n])) /\ D = C - 1
    BY <1>1, <1>3, <1>5, <2>1, GoroutineEnds DEF Balanced
  <2>3. C \in Nat /\ waitlist[u][n] \in Nat /\ Cardinality(ParkedFor(n, u)) \in Nat
        /\ lost.wakeups[n][u] \in Nat
    BY BalanceType
  <2>4. CASE LocationFound(m, resp)
    <3> DEFINE ch == channels[n][u]
    <3>1. ch # NoChannel
      BY <1>1, <1>3, <1>5 DEF NoSendOnNil
    <3>2. ch \in GetsOf(n, u)
      BY <3>1 DEF ChannelsAreOwn, Serves, GetsOf
    <3>3. /\ parked' = [parked EXCEPT ![ch][resp.location] = @ + 1]
          /\ lost' = lost
      BY <1>5, <2>4, <3>1 DEF LocationFound
    <3>4. \A h \in Getter, l \in Location : parked'[h][l] =
            IF h = ch /\ l = resp.location THEN parked[h][l] + 1 ELSE parked[h][l]
      BY <1>1, <3>2, <3>3 DEF LOSTypes, GetsOf
    <3> HIDE DEF ch
    <3>5. /\ IsFiniteSet(ParkedFor(n, u)')
          /\ Cardinality(ParkedFor(n, u)') = Cardinality(ParkedFor(n, u)) + 1
      BY <1>1, <3>2, <3>4, ParkedStarts DEF Balanced
    <3>6. (waitlist[u][n] + D) + Cardinality(ParkedFor(n, u)') + lost.wakeups[n][u]
            = (waitlist[u][n] + C) + Cardinality(ParkedFor(n, u)) + lost.wakeups[n][u]
      BY <2>2, <2>3, <3>5
    <3>7. QED
      BY <1>3, <1>4, <2>2, <3>3, <3>5, <3>6 DEF Balanced, OnTheirWay, Promised
  <2>5. CASE LocationFoundFails(m, resp)
    <3>1. lost'.wakeups[n][u] = lost.wakeups[n][u] + 1
      BY <1>5, <2>5, WakeupIsLost DEF LocationFoundFails
    <3>2. ParkedFor(n, u)' = ParkedFor(n, u)
      BY <2>5, ParkedUntouched DEF LocationFoundFails
    <3>3. (waitlist[u][n] + D) + Cardinality(ParkedFor(n, u)) + lost'.wakeups[n][u]
            = (waitlist[u][n] + C) + Cardinality(ParkedFor(n, u)) + lost.wakeups[n][u]
      BY <2>2, <2>3, <3>1
    <3>4. QED
      BY <1>3, <1>4, <2>2, <3>2, <3>3 DEF Balanced, OnTheirWay, Promised
  <2>6. QED
    BY <2>4, <2>5
<1>6. CASE ~(u = resp.uid /\ n = m)
  <2>1. \A l \in Location : callbacks'[u][n][l] = callbacks[u][n][l]
    BY <1>3, <1>6
  <2>2. lost'.wakeups[n][u] = lost.wakeups[n][u]
    <3>1. CASE LoseWakeup(m, resp.uid)
      BY <1>1, <1>6, <3>1, WakeupIsLost
    <3>2. QED
      BY <3>1 DEF LocationFound, LocationFoundFails
  <2>3. \A h \in GetsOf(n, u), l \in Location : parked'[h][l] = parked[h][l]
    <3>1. CASE parked' = parked
      BY <3>1
    <3>2. CASE LocationFound(m, resp) /\ channels[m][resp.uid] # NoChannel
      <4>1. /\ channels[m][resp.uid] \in Getter
            /\ channels[m][resp.uid] \notin GetsOf(n, u)
        BY <1>1, <1>6, <3>2 DEF ChannelsAreOwn, Serves, GetsOf
      <4>2. QED
        BY <1>1, <3>2, <4>1 DEF LocationFound, LOSTypes, GetsOf
    <3>3. QED
      BY <3>1, <3>2 DEF LocationFound, LocationFoundFails
  <2>4. QED
    BY <1>3, <1>4, <2>1, <2>2, <2>3, BalanceUntouched
<1>7. QED
  BY <1>5, <1>6

(* RequestLocation fails: the Get waits for an answer that nobody promised. *)
LEMMA RequestFailsBalance ==
  ASSUME LOSTypes, LOSTypes', NEW n \in Node, NEW u \in Uid, Balanced(n, u),
         NEW g \in Getter, GetRequestFails(g)
  PROVE  Balanced(n, u)'
<1>1. /\ UNCHANGED <<waitlist, callbacks, parked>> /\ Goto(g, "reread")
      /\ pc[g] = "request" /\ LoseWakeup(NodeOf(g), UidOf(g))
  BY DEF GetRequestFails, tvars
<1>2. lost'.wakeups[n][u] = IF n = NodeOf(g) /\ u = UidOf(g)
                            THEN lost.wakeups[n][u] + 1 ELSE lost.wakeups[n][u]
  BY <1>1, RequestType, WakeupIsLost
<1>3. CASE g \in GetsOf(n, u)
  <2>1. /\ IsFiniteSet(Asking(n, u)')
        /\ Cardinality(Asking(n, u)') = Cardinality(Asking(n, u)) + 1
    BY <1>1, <1>3, AskingJoin DEF Balanced
  <2>2. OnTheirWay(n, u)' = OnTheirWay(n, u)
    BY <1>1, ParkedUntouched DEF OnTheirWay, Promised
  <2>3. lost'.wakeups[n][u] = lost.wakeups[n][u] + 1
    BY <1>2, <1>3 DEF GetsOf
  <2>4. OnTheirWay(n, u) \in Nat /\ lost.wakeups[n][u] \in Nat
    BY BalanceType DEF OnTheirWay, Promised
  <2>5. IsFiniteSet(ParkedFor(n, u)') /\ IsFiniteSet(Goroutines(callbacks'[u][n]))
    BY <1>1, ParkedUntouched DEF Balanced
  <2>6. QED
    BY <2>1, <2>2, <2>3, <2>4, <2>5 DEF Balanced
<1>4. CASE g \notin GetsOf(n, u)
  <2>1. Asking(n, u)' = Asking(n, u)
    BY <1>1, <1>4, AskingUntouched
  <2>2. lost'.wakeups[n][u] = lost.wakeups[n][u]
    BY <1>2, <1>4 DEF GetsOf
  <2>3. QED
    BY <1>1, <2>1, <2>2, BalanceUntouched
<1>5. QED
  BY <1>3, <1>4

(* A restart of the GCS costs what it had promised. *)
LEMMA RestartBalance ==
  ASSUME LOSTypes, LOSTypes', NEW n \in Node, NEW u \in Uid, Balanced(n, u),
         RestartGCS
  PROVE  Balanced(n, u)'
<1>1. /\ waitlist'[u][n] = 0 /\ callbacks'[u][n] \in [Location -> Nat]
      /\ \A l \in Location : callbacks'[u][n][l] = 0
  BY RequestType DEF RestartGCS, Restart, NobodyWaits, NoCallbacks
<1>2. /\ IsFiniteSet(Goroutines(callbacks'[u][n]))
      /\ Cardinality(Goroutines(callbacks'[u][n])) = 0
  BY <1>1, NoGoroutines
<1>3. lost'.wakeups[n][u] = lost.wakeups[n][u] + Promised(n, u)
  BY DEF RestartGCS, LOSTypes, Losses
<1>4. Asking(n, u)' = Asking(n, u) /\ ParkedFor(n, u)' = ParkedFor(n, u)
  BY ParkedUntouched DEF RestartGCS, Asking, GetsOf
<1>5. Promised(n, u) \in Nat /\ Cardinality(ParkedFor(n, u)) \in Nat
      /\ lost.wakeups[n][u] \in Nat
  BY BalanceType DEF Promised
<1>6. QED
  BY <1>1, <1>2, <1>3, <1>4, <1>5 DEF Balanced, OnTheirWay, Promised

(***************************************************************************)
(* However Gets, callbacks and faults interleave, the books stay balanced. *)
(***************************************************************************)
LEMMA BalanceStep ==
  ASSUME StoreInv, [LOSNext]_losvars
  PROVE  FinitelyMany' /\ OneWakeupPerGet'
<1> USE DEF StoreInv
<1>1. LOSTypes'
  BY TypeStep
<1>2. SUFFICES ASSUME NEW n \in Node, NEW u \in Uid
               PROVE  Balanced(n, u)'
  BY DEF FinitelyMany, OneWakeupPerGet, Balanced
<1>3. Balanced(n, u)
  BY BalancedIs
<1>4. ASSUME UNCHANGED <<waitlist, callbacks, parked>>, lost'.wakeups = lost.wakeups,
             Asking(n, u)' = Asking(n, u)
      PROVE  Balanced(n, u)'
  BY <1>1, <1>3, <1>4, BalanceUntouched
<1>5. pc' = pc => Asking(n, u)' = Asking(n, u)
  BY DEF Asking, GetsOf
<1>6. ASSUME NEW m \in Node, NEW req \in Message!StoreRequest, Store(m, req)
      PROVE  Balanced(n, u)'
  BY <1>4, <1>5, <1>6 DEF Store, tvars
<1>7. ASSUME NEW req \in storing, StoreNotifies(req)
      PROVE  Balanced(n, u)'
  <2>1. req.uid \in Uid /\ req.nodeId \in Node
    BY DEF LOSTypes, HoldersTell, Message!NotifyOwnsRequest
  <2>2. QED
    BY <1>1, <1>3, <1>5, <1>7, <2>1, NotifyBalance DEF StoreNotifies
<1>8. ASSUME NEW g \in Getter, GetNotifies(g)
      PROVE  Balanced(n, u)'
  <2>1. Asking(n, u)' = Asking(n, u)
    BY <1>8, AskingUntouched DEF GetNotifies
  <2>2. QED
    BY <1>1, <1>3, <1>8, <2>1, RequestType, NotifyBalance DEF GetNotifies
<1>9. ASSUME NEW g \in Getter,
             \/ GetLookup(g) \/ GetMakeChannel(g) \/ GetReread(g) \/ GetCopy(g)
             \/ GetCache(g) \/ GetFails(g) \/ GetNotifyFails(g)
      PROVE  Balanced(n, u)'
  <2>1. PICK label : Goto(g, label) /\ (pc[g] \in {"reread", "receive"}
                                          <=> label \in {"reread", "receive"})
    BY <1>9 DEF GetLookup, GetMakeChannel, GetReread, GetCopy, GetCache,
       GetFails, GetNotifyFails
  <2>2. Asking(n, u)' = Asking(n, u)
    BY <2>1, AskingUntouched
  <2>3. lost'.wakeups = lost.wakeups
    BY <1>9 DEF GetLookup, GetMakeChannel, GetReread, GetCopy, GetCache, GetFails,
       GetNotifyFails, LoseAnnouncement, LOSTypes, Losses
  <2>4. QED
    BY <1>4, <1>9, <2>2, <2>3 DEF GetLookup, GetMakeChannel, GetReread, GetCopy,
       GetCache, GetFails, GetNotifyFails, tvars
<1>10. ASSUME NEW g \in Getter, GetStep(g) \/ GetRequestFails(g)
       PROVE  Balanced(n, u)'
  BY <1>1, <1>3, <1>8, <1>9, <1>10, RequestBalance, ReceiveBalance, RequestFailsBalance
  DEF GetStep
<1>11. ASSUME NEW m \in Node, NEW resp \in Message!LocationFoundCallback,
              LocationFound(m, resp) \/ LocationFoundFails(m, resp)
       PROVE  Balanced(n, u)'
  BY <1>1, <1>3, <1>11, CallbackBalance
<1>12. ASSUME NEW req \in storing, StoreNotifyFails(req)
       PROVE  Balanced(n, u)'
  <2>1. lost'.wakeups = lost.wakeups
    BY <1>12 DEF StoreNotifyFails, LoseAnnouncement, LOSTypes, Losses
  <2>2. QED
    BY <1>4, <1>5, <1>12, <2>1 DEF StoreNotifyFails, tvars
<1>13. CASE RestartGCS
  BY <1>1, <1>3, <1>13, RestartBalance
<1>14. CASE GCSStep
  BY <1>4, <1>5, <1>14 DEF GCSStep, flushToDisk, RegisterLiveNodes, tvars, lvars
<1>15. CASE UNCHANGED losvars
  BY <1>4, <1>5, <1>15 DEF losvars, tvars, lvars
<1>16. QED
  BY <1>6, <1>7, <1>9, <1>10, <1>11, <1>12, <1>13, <1>14, <1>15 DEF LOSNext, FaultStep

-----------------------------------------------------------------------------
LEMMA StoreInvInit == LOSInit => StoreInv
<1> SUFFICES ASSUME LOSInit PROVE StoreInv
  OBVIOUS
<1>1. LOSTypes /\ Inv
  BY TypeInit, InitInv DEF LOSInit
<1>2. ChannelsAreOwn /\ ChannelIsFiled
  BY RequestType DEF LOSInit, ChannelsAreOwn, ChannelIsFiled, BeforeChannel
<1>3. NoSendOnNil
  BY RequestType DEF LOSInit, Init, NobodyWaits, NoCallbacks, NoSendOnNil
<1>4. LocationsAreAnnounced /\ HoldersTell
  BY DEF LOSInit, Init, LocationsAreAnnounced, HoldersTell, Location
<1>5. KeysHaveSizes /\ StoredCanBeFound
  BY DEF LOSInit, Init, KeysHaveSizes, StoredCanBeFound
<1>6. ASSUME NEW n \in Node, NEW u \in Uid
      PROVE  Balanced(n, u)
  <2>1. Asking(n, u) = {}
    BY DEF LOSInit, Asking, GetsOf
  <2>2. /\ callbacks[u][n] \in [Location -> Nat] /\ waitlist[u][n] = 0
        /\ \A l \in Location : callbacks[u][n][l] = 0
    BY RequestType DEF LOSInit, Init, NobodyWaits, NoCallbacks
  <2>3. /\ IsFiniteSet(Goroutines(callbacks[u][n]))
        /\ Cardinality(Goroutines(callbacks[u][n])) = 0
    BY <2>2, NoGoroutines
  <2> DEFINE count == [p \in GetsOf(n, u) \X Location |-> parked[p[1]][p[2]]]
  <2>4. /\ count \in [GetsOf(n, u) \X Location -> Nat]
        /\ \A p \in GetsOf(n, u) \X Location : count[p] = 0
    BY DEF LOSInit, GetsOf
  <2> HIDE DEF count
  <2>5. IsFiniteSet(Goroutines(count)) /\ Cardinality(Goroutines(count)) = 0
    BY <2>4, NoGoroutines
  <2>6. ParkedFor(n, u) = Goroutines(count)
    BY DEF ParkedFor, count
  <2>7. lost.wakeups[n][u] = 0
    BY DEF LOSInit, NothingLost
  <2>8. IsFiniteSet({}) /\ Cardinality({}) = 0
    BY FS_EmptySet
  <2>9. QED
    BY <2>1, <2>2, <2>3, <2>5, <2>6, <2>7, <2>8 DEF Balanced, OnTheirWay, Promised
<1>7. QED
  BY <1>1, <1>2, <1>3, <1>4, <1>5, <1>6, BalancedIs DEF StoreInv

LEMMA StoreInvStep == StoreInv /\ [LOSNext]_losvars => StoreInv'
BY TypeStep, ChannelsStep, NoSendOnNilStep, LocationsStep, HoldersStep, SizesStep,
   ReachableStep, BalanceStep
DEF StoreInv

(***************************************************************************)
(* The inductive invariant of the stores holds in every reachable state.   *)
(***************************************************************************)
THEOREM StoreInvariance == LOSSpec => []StoreInv
BY StoreInvInit, StoreInvStep, PTL DEF LOSSpec

(***************************************************************************)
(* The stores use the GCS as ObjectTable expects it to be used, so that    *)
(* all theorems about the table hold in the composition.                   *)
(***************************************************************************)
THEOREM StoresUseTable == LOSSpec => Spec
<1>1. LOSInit => Init
  BY DEF LOSInit
<1>2. StoreInv /\ [LOSNext]_losvars => [Next]_tvars
  BY TableStep DEF StoreInv
<1>3. QED
  BY <1>1, <1>2, StoreInvariance, PTL DEF LOSSpec, Spec

(***************************************************************************)
(* Seen through the table, stores and GCS together keep the promise of     *)
(* LocationService.                                                        *)
(***************************************************************************)
THEOREM StoresKeepRendezvous == LOSSpec => Rendezvous
BY StoresUseTable, ImplementsRendezvous, PTL

(***************************************************************************)
(* Stores, Gets and the history are of their types, and a Get never        *)
(* receives from a nil channel: the entry that it reads again is there.    *)
(***************************************************************************)
THEOREM LOSTypeCorrect == LOSSpec => []LOSTypeOK
<1>1. StoreInv => LOSTypeOK
  BY GetterAssumption DEF StoreInv, LOSTypeOK, ChannelsAreOwn, Serves
<1>2. QED
  BY <1>1, StoreInvariance, PTL

(***************************************************************************)
(* The node that a Get copies from has the object, however old the answer  *)
(* of the GCS is: Store and a caching Get announce after they have stored. *)
(* A copy that a Get keeps and announces is never one from node 0.         *)
(***************************************************************************)
THEOREM HoldersHold == LOSSpec => []AnnouncedIsStored
BY FoundHolds, StoreInvariance, PTL

(***************************************************************************)
(* An object in a store can be found, or the store is about to announce    *)
(* it, or a failed NotifyOwns or a restart of the GCS is on record.        *)
(***************************************************************************)
THEOREM StoredIsReachable == LOSSpec => []StoredCanBeFound
<1>1. StoreInv => StoredCanBeFound
  BY DEF StoreInv
<1>2. QED
  BY <1>1, StoreInvariance, PTL

(***************************************************************************)
(* Before a restart, GetObjectLocations knows the size of every object     *)
(* with a holder that no Get has had to ask the GCS for.                   *)
(***************************************************************************)
THEOREM SizesAreKept == LOSSpec => []SizeMissingOnlyAfterGet
<1>1. StoreInv => SizeMissingOnlyAfterGet
  BY DEF StoreInv, KeysHaveSizes, SizeMissingOnlyAfterGet, GetObjectLocations
<1>2. QED
  BY <1>1, StoreInvariance, PTL

(***************************************************************************)
(* LocationFound never blocks on a nil channel: whoever has a question on  *)
(* the waitlist, or an answer on its way, has filed a channel.             *)
(***************************************************************************)
THEOREM ChannelBeforeQuestion == LOSSpec => []NoSendOnNil
<1>1. StoreInv => NoSendOnNil
  BY DEF StoreInv
<1>2. QED
  BY <1>1, StoreInvariance, PTL

(***************************************************************************)
(* Between GCS and stores no wake-up is lost, doubled or made up: there is *)
(* exactly one for every Get that waits, less those a fault has cost.      *)
(***************************************************************************)
THEOREM WakeupsBalance == LOSSpec => []OneWakeupPerGet
<1>1. StoreInv => OneWakeupPerGet
  BY DEF StoreInv
<1>2. QED
  BY <1>1, StoreInvariance, PTL
=============================================================================
