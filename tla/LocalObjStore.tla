--------------------------- MODULE LocalObjStore ---------------------------
(***************************************************************************)
(* The local object stores (go/cmd/localobjstore) of all nodes, composed   *)
(* with the table of ObjectTable: objects are stored by workers, announced *)
(* to the GCS, found through it by Get, copied from the node that the GCS  *)
(* names, and announced again when the copy is kept.                       *)
(*                                                                         *)
(* Every Get runs in a goroutine of its own: it makes an unbuffered        *)
(* channel, files it under the uid in localObjectChannels, asks the GCS,   *)
(* and receives from the channel it finds under the uid afterwards.  A     *)
(* LocationFound handler looks the channel up and blocks until somebody    *)
(* receives.  Nothing synchronises these accesses, so each is a step.  A   *)
(* channel is named after the Get that made it.                            *)
(*                                                                         *)
(* A call between a store and the GCS, or between two stores, may fail,    *)
(* and the GCS may be started again; the stores themselves stay up.        *)
(***************************************************************************)
EXTENDS ObjectTable

CONSTANTS Getter,     \* the Get requests
          Request,    \* Request[g]: the node asked, and what it is sent
          NoChannel,  \* no channel under a uid (nil in Go)
          LiveSets,   \* bound: the sets of live nodes that are reported
          MaxFaults   \* bound: failed calls and restarts of the GCS

(* The stores deal with no function names; sizes are as in ObjectTable. *)
Message == INSTANCE RayClient WITH UidField <- Uid, NodeField <- Location,
                                   NameField <- {}, Count <- {"none", "size"}
Requests == [node : Node, get : Message!GetRequest]

ASSUME GetterAssumption ==
  /\ Client = Node      \* the address of a store stands for its node
  /\ Request \in [Getter -> Requests]
  /\ NoChannel \notin Getter
  /\ LiveSets \subseteq SUBSET Node
  /\ MaxFaults \in Nat

VARIABLES stored,    \* stored[n]: uids in shared memory, with their size
          storing,   \* NotifyOwns calls that Store handlers are about to make
          channels,  \* channels[n][u]: localObjectChannels of node n
          parked,    \* parked[ch][l]: LocationFound handlers sending l on ch
          pc,        \* pc[g]: where the Get is
          receives,  \* receives[g]: the channel g receives from
          found,     \* found[g]: the location that g was given
          lost       \* history: what failed calls and restarts have cost

lvars == <<stored, storing, channels, parked, pc, receives, found, lost>>
losvars == <<tvars, lvars>>

PCs == {"lookup", "make", "request", "reread", "receive", "copy", "cache",
        "notify", "returned", "failed"}

(* Wake-ups of Gets by node and uid, announcements, and restarts. *)
Losses == [wakeups : [Node -> [Uid -> Nat]], announcements : SUBSET (Uid \X Node),
           restarts : Nat, faults : 0 .. MaxFaults]
NothingLost == [wakeups |-> [n \in Node |-> [u \in Uid |-> 0]], announcements |-> {},
                restarts |-> 0, faults |-> 0]

LOSTypes ==
  /\ TypeOK
  /\ stored \in [Node -> SUBSET Uid]
  /\ storing \subseteq Message!NotifyOwnsRequest
  /\ channels \in [Node -> [Uid -> Getter \cup {NoChannel}]]
  /\ parked \in [Getter -> [Location -> Nat]]
  /\ pc \in [Getter -> PCs]
  /\ receives \in [Getter -> Getter \cup {NoChannel}]
  /\ found \in [Getter -> Location]
  /\ lost \in Losses

(***************************************************************************)
(* All values are of their types, and no Get ever receives from nil, which *)
(* blocks for good: the entry of localObjectChannels that Get looks up for *)
(* the second time, after its call to the GCS, is still there, whatever    *)
(* other Gets and LocationFound have done to the map meanwhile.            *)
(***************************************************************************)
LOSTypeOK ==
  /\ LOSTypes
  /\ \A g \in Getter : pc[g] = "receive" => receives[g] # NoChannel

LOSInit ==
  /\ Init
  /\ stored = [n \in Node |-> {}]
  /\ storing = {}
  /\ channels = [n \in Node |-> [u \in Uid |-> NoChannel]]
  /\ parked = [g \in Getter |-> [l \in Location |-> 0]]
  /\ pc = [g \in Getter |-> "lookup"]
  /\ receives = [g \in Getter |-> NoChannel]
  /\ found = [g \in Getter |-> ZeroNode]
  /\ lost = NothingLost

NodeOf(g) == Request[g].node
UidOf(g) == Request[g].get.uid
Goto(g, label) == pc' = [pc EXCEPT ![g] = label]

-----------------------------------------------------------------------------
Announcement(n, u) == [uid |-> u, nodeId |-> n, objectSize |-> "size"]

(* Mutant: the object is announced but not entered in objectSizes. *)
StoreForgetsSize(n, req) ==
  /\ req.uid \notin stored[n] /\ Announcement(n, req.uid) \notin storing
  /\ storing' = storing \cup {Announcement(n, req.uid)}
  /\ UNCHANGED <<tvars, stored, channels, parked, pc, receives, found, lost>>

(* Mutant: the object is stored and nobody is told. *)
StoreSilently(n, req) ==
  /\ req.uid \notin stored[n]
  /\ stored' = [stored EXCEPT ![n] = @ \cup {req.uid}]
  /\ UNCHANGED <<tvars, storing, channels, parked, pc, receives, found, lost>>

(* Store: shared memory and objectSizes first (bound: once per node); when *)
(* there is no shared memory it returns the error and has changed nothing. *)
Store(n, req) ==
  /\ req.uid \notin stored[n]
  /\ stored' = [stored EXCEPT ![n] = @ \cup {req.uid}]
  /\ storing' = storing \cup {Announcement(n, req.uid)}
  /\ UNCHANGED <<tvars, channels, parked, pc, receives, found, lost>>

(* Then the GCS is told. *)
StoreNotifies(req) ==
  /\ req \in storing
  /\ NotifyOwns(req.uid, req.nodeId, req.objectSize)
  /\ storing' = storing \ {req}
  /\ UNCHANGED <<stored, channels, parked, pc, receives, found, lost>>

-----------------------------------------------------------------------------
(* Mutant: no channel is made before the GCS is asked. *)
GetLookupMakesNoChannel(g) ==
  /\ pc[g] = "lookup"
  /\ Goto(g, IF UidOf(g) \in stored[NodeOf(g)] THEN "returned" ELSE "request")
  /\ UNCHANGED <<tvars, stored, storing, channels, parked, receives, found, lost>>

(* Get, under the read lock: is the object here? *)
GetLookup(g) ==
  /\ pc[g] = "lookup"
  /\ Goto(g, IF UidOf(g) \in stored[NodeOf(g)] THEN "returned" ELSE "make")
  /\ UNCHANGED <<tvars, stored, storing, channels, parked, receives, found, lost>>

(* A new channel replaces whatever is filed under the uid. *)
GetMakeChannel(g) ==
  /\ pc[g] = "make"
  /\ channels' = [channels EXCEPT ![NodeOf(g)][UidOf(g)] = g]
  /\ Goto(g, "request")
  /\ UNCHANGED <<tvars, stored, storing, parked, receives, found, lost>>

GetRequest(g) ==
  /\ pc[g] = "request"
  /\ RequestLocation(UidOf(g), NodeOf(g))
  /\ Goto(g, "reread")
  /\ UNCHANGED <<stored, storing, channels, parked, receives, found, lost>>

(* The receive expression looks the channel up again. *)
GetReread(g) ==
  /\ pc[g] = "reread"
  /\ receives' = [receives EXCEPT ![g] = channels[NodeOf(g)][UidOf(g)]]
  /\ Goto(g, "receive")
  /\ UNCHANGED <<tvars, stored, storing, channels, parked, found, lost>>

(* A sender parked on that channel hands its location over and returns. *)
GetReceive(g) ==
  /\ pc[g] = "receive"
  /\ \E l \in Location :
       /\ parked[receives[g]][l] > 0
       /\ parked' = [parked EXCEPT ![receives[g]][l] = @ - 1]
       /\ found' = [found EXCEPT ![g] = l]
  /\ Goto(g, IF Request[g].get.copy THEN "copy" ELSE "returned")
  /\ UNCHANGED <<tvars, stored, storing, channels, receives, lost>>

(* Copy on the node found; node 0 runs no object store, so dialling it fails. *)
Holds(l, u) == l # ZeroNode /\ u \in stored[l]
GetCopy(g) ==
  /\ pc[g] = "copy"
  /\ Goto(g, CASE ~Holds(found[g], UidOf(g)) -> "failed"
               [] Holds(found[g], UidOf(g)) /\ Request[g].get.cache -> "cache"
               [] OTHER -> "returned")
  /\ UNCHANGED <<tvars, stored, storing, channels, parked, receives, found, lost>>

GetCache(g) ==
  /\ pc[g] = "cache"
  /\ stored' = [stored EXCEPT ![NodeOf(g)] = @ \cup {UidOf(g)}]
  /\ Goto(g, "notify")
  /\ UNCHANGED <<tvars, storing, channels, parked, receives, found, lost>>

(* The copy is announced, without its size. *)
GetNotifies(g) ==
  /\ pc[g] = "notify"
  /\ NotifyOwns(UidOf(g), NodeOf(g), "none")
  /\ Goto(g, "returned")
  /\ UNCHANGED <<stored, storing, channels, parked, receives, found, lost>>

-----------------------------------------------------------------------------
(* Mutant: a send that does not block; with no receiver it is dropped. *)
LocationFoundDrops(n, resp) ==
  /\ sendCallback(resp.uid, n, resp.location)
  /\ LET channel == channels[n][resp.uid] IN
     parked' = IF \E g \in Getter : pc[g] = "receive" /\ receives[g] = channel
               THEN [parked EXCEPT ![channel][resp.location] = @ + 1] ELSE parked
  /\ UNCHANGED <<stored, storing, channels, pc, receives, found, lost>>

(* Mutant: the channel is taken out of the map when it has been used. *)
LocationFoundDeletes(n, resp) ==
  /\ sendCallback(resp.uid, n, resp.location)
  /\ LET channel == channels[n][resp.uid] IN
     parked' = IF channel = NoChannel THEN parked
               ELSE [parked EXCEPT ![channel][resp.location] = @ + 1]
  /\ channels' = [channels EXCEPT ![n][resp.uid] = NoChannel]
  /\ UNCHANGED <<stored, storing, pc, receives, found, lost>>

(* LocationFound: look the channel up and send; on nil it blocks for good. *)
LocationFound(n, resp) ==
  /\ sendCallback(resp.uid, n, resp.location)
  /\ LET channel == channels[n][resp.uid] IN
     parked' = IF channel = NoChannel THEN parked
               ELSE [parked EXCEPT ![channel][resp.location] = @ + 1]
  /\ UNCHANGED <<stored, storing, channels, pc, receives, found, lost>>

-----------------------------------------------------------------------------
(* Failures.  Store and Get ignore the errors of their calls to the GCS, and *)
(* Get returns those of its call to another store.                           *)
Fault == lost.faults < MaxFaults
LoseWakeup(n, u) ==
  lost' = [lost EXCEPT !.wakeups[n][u] = @ + 1, !.faults = @ + 1]
LoseAnnouncement(n, u) ==
  lost' = [lost EXCEPT !.announcements = @ \cup {<<u, n>>}, !.faults = @ + 1]

StoreNotifyFails(req) ==
  /\ Fault /\ req \in storing
  /\ storing' = storing \ {req}
  /\ LoseAnnouncement(req.nodeId, req.uid)
  /\ UNCHANGED <<tvars, stored, channels, parked, pc, receives, found>>

(* RequestLocation fails, and the Get goes on to wait for its answer. *)
GetRequestFails(g) ==
  /\ Fault /\ pc[g] = "request"
  /\ Goto(g, "reread")
  /\ LoseWakeup(NodeOf(g), UidOf(g))
  /\ UNCHANGED <<tvars, stored, storing, channels, parked, receives, found>>

(* Copy fails, or there is no shared memory to keep the copy in: Get returns *)
(* the error, and the copy is neither entered in objectSizes nor announced.  *)
GetFails(g) ==
  /\ Fault /\ pc[g] \in {"copy", "cache"}
  /\ Goto(g, "failed")
  /\ lost' = [lost EXCEPT !.faults = @ + 1]
  /\ UNCHANGED <<tvars, stored, storing, channels, parked, receives, found>>

GetNotifyFails(g) ==
  /\ Fault /\ pc[g] = "notify"
  /\ Goto(g, "returned")
  /\ LoseAnnouncement(NodeOf(g), UidOf(g))
  /\ UNCHANGED <<tvars, stored, storing, channels, parked, receives, found>>

(* sendCallback cannot reach the store, and does not try again. *)
LocationFoundFails(n, resp) ==
  /\ Fault /\ sendCallback(resp.uid, n, resp.location)
  /\ LoseWakeup(n, resp.uid)
  /\ UNCHANGED <<stored, storing, channels, parked, pc, receives, found>>

(* The goroutines that count counts, one element for each. *)
Goroutines(count) == UNION {{k} \X (1 .. count[k]) : k \in DOMAIN count}

(* A new GCS process knows neither the waitlist nor what it was sending. *)
Promised(n, u) == waitlist[u][n] + Cardinality(Goroutines(callbacks[u][n]))
RestartGCS ==
  /\ Fault /\ Restart
  /\ lost' = [lost EXCEPT
       !.wakeups = [n \in Node |-> [u \in Uid |-> @[n][u] + Promised(n, u)]],
       !.restarts = @ + 1, !.faults = @ + 1]
  /\ UNCHANGED <<stored, storing, channels, parked, pc, receives, found>>

FaultStep ==
  \/ \E req \in storing : StoreNotifyFails(req)
  \/ \E g \in Getter : GetRequestFails(g) \/ GetFails(g) \/ GetNotifyFails(g)
  \/ \E n \in Node, resp \in Message!LocationFoundCallback :
       LocationFoundFails(n, resp)
  \/ RestartGCS

-----------------------------------------------------------------------------
GCSStep ==
  /\ flushToDisk \/ \E live \in LiveSets : RegisterLiveNodes(live)
  /\ UNCHANGED lvars

GetStep(g) ==
  \/ GetLookup(g) \/ GetMakeChannel(g) \/ GetRequest(g) \/ GetReread(g)
  \/ GetReceive(g) \/ GetCopy(g) \/ GetCache(g) \/ GetNotifies(g)

LOSNext ==
  \/ \E n \in Node, req \in Message!StoreRequest : Store(n, req)
  \/ \E req \in storing : StoreNotifies(req)
  \/ \E g \in Getter : GetStep(g)
  \/ \E n \in Node, resp \in Message!LocationFoundCallback : LocationFound(n, resp)
  \/ GCSStep
  \/ FaultStep

LOSSpec == LOSInit /\ [][LOSNext]_losvars

(* Goroutines that can run do run: in the stores, and sendCallback in the GCS. *)
LOSFairSpec ==
  /\ LOSSpec
  /\ \A g \in Getter : WF_losvars(GetStep(g))
  /\ \A req \in Message!NotifyOwnsRequest : WF_losvars(StoreNotifies(req))
  /\ \A n \in Node, resp \in Message!LocationFoundCallback :
       WF_losvars(LocationFound(n, resp))

-----------------------------------------------------------------------------
(***************************************************************************)
(* Every node that was announced for an object has it in its store: Store  *)
(* and a caching Get announce only after they have stored.  So the node a  *)
(* Get copies from has the object, however late the Get uses the location, *)
(* unless the GCS answered with node id 0; and a Get that was told node 0  *)
(* neither keeps nor announces a copy, for nobody can have given it one.   *)
(***************************************************************************)
AnnouncedIsStored ==
  /\ \A r \in announced : r[1] \in stored[r[2]]
  /\ \A g \in Getter : pc[g] = "copy" /\ found[g] # ZeroNode
                         => UidOf(g) \in stored[found[g]]
  /\ \A g \in Getter : pc[g] \in {"cache", "notify"}
                         => found[g] # ZeroNode /\ UidOf(g) \in stored[found[g]]

(***************************************************************************)
(* What a store holds the GCS can locate, in memory or on disk, or is      *)
(* being told: only a NotifyOwns whose error the store ignored, or a       *)
(* restart of the GCS, leaves an object in a store where nobody finds it.  *)
(***************************************************************************)
StoredCanBeFound ==
  \A n \in Node : \A u \in stored[n] :
    \/ u \in Located \/ Announcement(n, u) \in storing
    \/ \E g \in Getter : NodeOf(g) = n /\ UidOf(g) = u /\ pc[g] = "notify"
    \/ <<u, n>> \in lost.announcements \/ lost.restarts > 0

(***************************************************************************)
(* Locality-aware scheduling can rely on sizes until somebody asks for the *)
(* object: GetObjectLocations names holders without the size only after a  *)
(* Get of the object had to ask the GCS (it leaves a key behind, or a copy *)
(* that is announced without a size), or after a restart.                  *)
(***************************************************************************)
SizeMissingOnlyAfterGet ==
  LET reply == GetObjectLocations(Uid) IN
  \A u \in DOMAIN reply :
    Elements(reply[u].locations) # {} /\ reply[u].bytes = "none" =>
      lost.restarts > 0 \/ \E n \in Node : channels[n][u] # NoChannel

(***************************************************************************)
(* LocationFound never finds a nil channel (it would block for ever): the  *)
(* channel is filed before the question is asked and never removed.        *)
(***************************************************************************)
NoSendOnNil ==
  \A u \in Uid, n \in Node :
    (waitlist[u][n] > 0 \/ \E l \in Location : callbacks[u][n][l] > 0)
      => channels[n][u] # NoChannel

(* Gets of u on n, and those that have asked the GCS and have no location yet. *)
GetsOf(n, u) == {g \in Getter : NodeOf(g) = n /\ UidOf(g) = u}
Asking(n, u) == {g \in GetsOf(n, u) : pc[g] \in {"reread", "receive"}}
(* LocationFound handlers that send on the channel of such a Get. *)
ParkedFor(n, u) == Goroutines([p \in GetsOf(n, u) \X Location |-> parked[p[1]][p[2]]])
OnTheirWay(n, u) == Promised(n, u) + Cardinality(ParkedFor(n, u))

(***************************************************************************)
(* Wake-ups are neither lost nor made up between GCS and store: as many    *)
(* Gets are waiting as there are entries on the waitlist, callbacks being  *)
(* sent and LocationFound handlers parked on a channel, even when Gets     *)
(* overwrite each other's channels.  A failed RequestLocation or           *)
(* LocationFound costs exactly one, a restart those it had promised.       *)
(***************************************************************************)
OneWakeupPerGet ==
  \A n \in Node, u \in Uid :
    Cardinality(Asking(n, u)) = OnTheirWay(n, u) + lost.wakeups[n][u]

(* A Get of the same object on the same node as g, or g, has come to its end. *)
SomeGetEnded(g) ==
  \E h \in Getter : /\ NodeOf(h) = NodeOf(g) /\ UidOf(h) = UidOf(g)
                    /\ pc[h] \in {"returned", "failed"}

(***************************************************************************)
(* However Gets overwrite each other's channels, the callbacks cannot all  *)
(* be parked on abandoned ones: once the object can be located, one of the *)
(* Gets of it on a node comes to its end, unless a wake-up was lost on the *)
(* way or the GCS forgot the object in a restart.  A Get that shares its   *)
(* uid with no other on its node therefore always does.                    *)
(***************************************************************************)
SomeGetReturns ==
  \A g \in Getter : UidOf(g) \in Located ~>
    SomeGetEnded(g) \/ lost.wakeups[NodeOf(g)][UidOf(g)] > 0
    \/ UidOf(g) \notin Located

-----------------------------------------------------------------------------
(***************************************************************************)
(* Get may "just block for a task to complete" (rayclient.proto): once the *)
(* object it asks for can be located, it returns or reports a failed copy, *)
(* if no call fails meanwhile.                                             *)
(***************************************************************************)
EveryGetReturns ==
  \A g \in Getter :
    UidOf(g) \in Located ~>
      pc[g] \in {"returned", "failed"} \/ lost.faults > 0
=============================================================================
