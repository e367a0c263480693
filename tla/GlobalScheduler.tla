-------------------------- MODULE GlobalScheduler --------------------------
(***************************************************************************)
(* The global scheduler (go/cmd/globalscheduler): Heartbeat files what a   *)
(* node reports, Schedule sends a task to the node the client named or to  *)
(* the one that getBestWorker picks, and waits for Run.                    *)
(*                                                                         *)
(* getBestWorker has two loops over the map of reports.  The one for tasks *)
(* without locality holds the read lock from the first key to the last,    *)
(* and Heartbeat waits for it.  The one for locality asks the GCS where    *)
(* the arguments are, then ranges over the map and reads its entries with  *)
(* no lock, or a lock per entry: Heartbeat runs in between, and the Go     *)
(* runtime may end the process when it sees that (MapRace).  Both loops    *)
(* are one Visit per node, in any order (rand.Shuffle).                    *)
(*                                                                         *)
(* Time is counted in ticks; an entry keeps its age.  All nodes report the *)
(* same avgBandwidth (the store's update of it is commented out), so the   *)
(* transfer time is the number of bytes times a constant, taken as 1.      *)
(* RegisterGenerating, called before Run, is modelled in Cluster.          *)
(***************************************************************************)
EXTENDS Naturals, FiniteSets

CONSTANTS Node, ZeroNode,
          Uid, ZeroUid, Name, ZeroName,
          Call,                \* callers of Schedule, each with one call at a time
          Request,             \* Request[c]: what c sends when it names no node
          Report,              \* the heartbeats that nodes send
          MaxConcurrentTasks,  \* MAX_CONCURRENT_TASKS
          LiveNodeTimeout,     \* LIVE_NODE_TIMEOUT, in ticks
          ObjectSize,          \* ObjectSize[u]: bytes of u
          MaxCopies            \* bound: occurrences of a node in a list

Message == INSTANCE RayClient
             WITH UidField <- Uid \cup {ZeroUid}, NodeField <- Node \cup {ZeroNode},
                  NameField <- Name \cup {ZeroName}, Count <- Nat

ASSUME GSAssumption ==
  /\ ZeroNode \notin Node
  /\ IsFiniteSet(Node) /\ IsFiniteSet(Uid)
  /\ Request \in [Call -> Message!GlobalScheduleRequest]
  /\ \A c \in Call : Request[c].uids \subseteq Uid /\ Request[c].nodeId = ZeroNode
  /\ Report \subseteq Message!HeartbeatRequest
  /\ \A req \in Report : req.nodeId \in Node
  /\ MaxConcurrentTasks \in Nat /\ LiveNodeTimeout \in Nat \ {0}
  /\ ObjectSize \in [Uid -> Nat] /\ MaxCopies \in Nat

VARIABLES status,     \* map node -> HeartbeatEntry, partial
          pc,         \* pc[c]: where Schedule is
          locations,  \* locations[c]: what the GCS told c about its arguments
          keys,       \* keys[c]: nodes the loop of c has still to visit
          best,       \* best[c]: minId and minTime
          up,         \* the process runs
          disturbed   \* history: calls whose keys a Heartbeat may have outdated

gsvars == <<status, pc, locations, keys, best, up, disturbed>>

NoPick == [id |-> ZeroNode, time |-> 0]      \* foundBest is false
NoReply == [u \in {} |-> NoPick]
Locality(c) == Request[c].localityFlag /\ Request[c].uids # {}
IsLive(n) == status[n].age < LiveNodeTimeout
Live == {n \in DOMAIN status : IsLive(n)}

(* Calls in the loop that holds the read lock, and calls that read unlocked. *)
Readers == {c \in Call : pc[c] = "visit" /\ ~Locality(c)}
Unlocked == {c \in Call : pc[c] = "range" \/ (pc[c] = "visit" /\ Locality(c))}

HeartbeatEntry == [age : 0 .. LiveNodeTimeout, numRunningTasks : Nat,
                   numQueuedTasks : Nat, avgRunningTime : Nat]

GSTypeOK ==
  /\ DOMAIN status \subseteq Node
  /\ \A n \in DOMAIN status : status[n] \in HeartbeatEntry
  /\ pc \in [Call -> {"idle", "locate", "range", "visit", "run"}]
  /\ \A c \in Call : Message!IsObjectLocationsResponse(locations[c])
  /\ keys \in [Call -> SUBSET Node]
  /\ best \in [Call -> [id : Node \cup {ZeroNode}, time : Nat]]
  /\ up \in BOOLEAN
  /\ disturbed \subseteq Call

GSInit ==
  /\ status = [n \in {} |-> NoPick]
  /\ pc = [c \in Call |-> "idle"]
  /\ locations = [c \in Call |-> NoReply]
  /\ keys = [c \in Call |-> {}]
  /\ best = [c \in Call |-> NoPick]
  /\ up = TRUE
  /\ disturbed = {}

-----------------------------------------------------------------------------
(* Mutant: a node with no free slot is not charged for the task it must end. *)
EntryAsReported(req) ==
  [age |-> 0, numRunningTasks |-> req.runningTasks,
   numQueuedTasks |-> req.queuedTasks, avgRunningTime |-> req.avgRunningTime]

Entry(req) ==
  [age |-> 0, numRunningTasks |-> req.runningTasks,
   numQueuedTasks |-> IF req.runningTasks = MaxConcurrentTasks
                      THEN req.queuedTasks + 1 ELSE req.queuedTasks,
   avgRunningTime |-> req.avgRunningTime]

(* Mutant: Heartbeat does not take the lock. *)
HeartbeatUnlocked(req) ==
  /\ status' = [n \in DOMAIN status \cup {req.nodeId} |->
                  IF n = req.nodeId THEN Entry(req) ELSE status[n]]
  /\ disturbed' = disturbed \cup Unlocked
  /\ UNCHANGED <<pc, locations, keys, best, up>>

(* Heartbeat, under the write lock. *)
Heartbeat(req) ==
  /\ Readers = {}
  /\ status' = [n \in DOMAIN status \cup {req.nodeId} |->
                  IF n = req.nodeId THEN Entry(req) ELSE status[n]]
  /\ disturbed' = disturbed \cup Unlocked
  /\ UNCHANGED <<pc, locations, keys, best, up>>

(* log.Fatalf, or an abort by the Go runtime: all calls end with an error. *)
ProcessEnds ==
  /\ up' = FALSE
  /\ status' = [n \in {} |-> NoPick]
  /\ pc' = [c \in Call |-> "idle"]
  /\ locations' = [c \in Call |-> NoReply]
  /\ keys' = [c \in Call |-> {}]
  /\ best' = [c \in Call |-> NoPick]
  /\ disturbed' = {}

(* The write of Heartbeat meets an unlocked read of the map. *)
MapRace == Unlocked # {} /\ ProcessEnds

Tick ==
  /\ status' = [n \in DOMAIN status |->
                 [status[n] EXCEPT !.age = IF @ < LiveNodeTimeout THEN @ + 1 ELSE @]]
  /\ UNCHANGED <<pc, locations, keys, best, up, disturbed>>

-----------------------------------------------------------------------------
Goto(c, from, to) == pc[c] = from /\ pc' = [pc EXCEPT ![c] = to]
Picks(c, n) == best' = [best EXCEPT ![c] = [id |-> n, time |-> 0]]

(* Schedule when the client named a node (set_node): nothing to pick. *)
SchedulePinned(c, n) ==
  /\ Goto(c, "idle", "run")
  /\ Picks(c, n)
  /\ UNCHANGED <<status, locations, keys, up, disturbed>>

(* getBestWorker without locality: mu.RLock, and the keys of the map. *)
LockAndRange(c) ==
  /\ ~Locality(c)
  /\ Goto(c, "idle", "visit")
  /\ keys' = [keys EXCEPT ![c] = DOMAIN status]
  /\ UNCHANGED <<status, locations, best, up, disturbed>>

(* getBestWorker with locality: the GCS is asked first ... *)
AskGCS(c) ==
  /\ Locality(c)
  /\ Goto(c, "idle", "locate")
  /\ UNCHANGED <<status, locations, keys, best, up, disturbed>>

(***************************************************************************)
(* ... and answers for the arguments that are keys of its memory map: any  *)
(* list, a node maybe twice, and the size or 0 if it has not recorded it   *)
(* (GetObjectLocations in ObjectTable).  An error ends the process.        *)
(***************************************************************************)
Lists(u) == [locations : [Node -> 0 .. MaxCopies], bytes : {0, ObjectSize[u]}]
Located(c) ==
  /\ Goto(c, "locate", "range")
  /\ \E known \in SUBSET Request[c].uids :
       \E reply \in [known -> UNION {Lists(u) : u \in known}] :
         /\ \A u \in known : reply[u] \in Lists(u)
         /\ locations' = [locations EXCEPT ![c] = [u \in known |->
              [locations |-> [n \in Node \cup {ZeroNode} |->
                  IF n = ZeroNode THEN 0 ELSE reply[u].locations[n]],
               bytes |-> reply[u].bytes]]]
  /\ UNCHANGED <<status, keys, best, up, disturbed>>
LocateFails(c) == pc[c] = "locate" /\ ProcessEnds

(* The two ranges over s.status: what follows goes by these keys. *)
RangeUnlocked(c) ==
  /\ Goto(c, "range", "visit")
  /\ keys' = [keys EXCEPT ![c] = DOMAIN status]
  /\ disturbed' = disturbed \ {c}
  /\ UNCHANGED <<status, locations, best, up>>

(***************************************************************************)
(* locationToBytes and total add the size once for every occurrence of a   *)
(* node in a list, so total counts an object once for each of its copies.  *)
(* The sums are taken over sets that have an element for every byte of     *)
(* every copy.                                                             *)
(***************************************************************************)
Bytes(copies, size) == (1 .. copies) \X (1 .. size)
BytesOn(c, n) ==
  UNION {{u} \X Bytes(locations[c][u].locations[n], locations[c][u].bytes) :
           u \in DOMAIN locations[c]}
LocationToBytes(c, n) == Cardinality(BytesOn(c, n))
(* Mutant: every object once, although bytes counts a node as often as it occurs. *)
TotalOncePerObject(c) ==
  Cardinality(UNION {{u} \X Bytes(1, locations[c][u].bytes) : u \in DOMAIN locations[c]})
Total(c) == Cardinality(UNION {{n} \X BytesOn(c, n) : n \in Node})
QueueingTime(n) == status[n].numQueuedTasks * status[n].avgRunningTime
(* Mutant: the bytes that the node has, not the ones it lacks. *)
TransferTimeOfPresent(c, n) == LocationToBytes(c, n)
TransferTime(c, n) == Total(c) - LocationToBytes(c, n)
WaitingTime(c, n) == IF Locality(c) THEN QueueingTime(n) + TransferTime(c, n)
                                    ELSE QueueingTime(n)

(* Mutant: a dead node stays among the keys. *)
VisitKeepsDead(c, n) ==
  /\ pc[c] = "visit" /\ n \in keys[c]
  /\ keys' = IF IsLive(n) THEN [keys EXCEPT ![c] = @ \ {n}] ELSE keys
  /\ best' = IF IsLive(n) /\ (best[c] = NoPick \/ WaitingTime(c, n) < best[c].time)
             THEN [best EXCEPT ![c] = [id |-> n, time |-> WaitingTime(c, n)]]
             ELSE best
  /\ UNCHANGED <<status, pc, locations, up, disturbed>>

(***************************************************************************)
(* One round of the loop: dead nodes are skipped, the least time wins.  In *)
(* the locality loop the entry is read again after the test of its age: a  *)
(* Heartbeat in between makes it younger still, a Tick does not change the *)
(* times, so the round is one step.                                        *)
(***************************************************************************)
Visit(c, n) ==
  /\ pc[c] = "visit" /\ n \in keys[c]
  /\ keys' = [keys EXCEPT ![c] = @ \ {n}]
  /\ best' = IF IsLive(n) /\ (best[c] = NoPick \/ WaitingTime(c, n) < best[c].time)
             THEN [best EXCEPT ![c] = [id |-> n, time |-> WaitingTime(c, n)]]
             ELSE best
  /\ UNCHANGED <<status, pc, locations, up, disturbed>>

LoopIsOver(c) == pc[c] = "visit" /\ keys[c] = {}
PickedOne(c) ==
  /\ LoopIsOver(c) /\ best[c] # NoPick
  /\ Goto(c, "visit", "run")
  /\ Picks(c, best[c].id)
  /\ locations' = [locations EXCEPT ![c] = NoReply]
  /\ disturbed' = disturbed \ {c}
  /\ UNCHANGED <<status, keys, up>>
PickedNone(c) == LoopIsOver(c) /\ best[c] = NoPick /\ ProcessEnds

RunSucceeds(c) ==
  /\ Goto(c, "run", "idle")
  /\ best' = [best EXCEPT ![c] = NoPick]
  /\ UNCHANGED <<status, locations, keys, up, disturbed>>
RunFails(c) == pc[c] = "run" /\ ProcessEnds

Decide(c) ==
  \/ AskGCS(c) \/ Located(c) \/ RangeUnlocked(c) \/ LockAndRange(c)
  \/ \E n \in Node : SchedulePinned(c, n) \/ Visit(c, n)
  \/ PickedOne(c) \/ PickedNone(c)

GSNext ==
  /\ up
  /\ \/ \E req \in Report : Heartbeat(req)
     \/ MapRace
     \/ Tick
     \/ \E c \in Call : Decide(c)
     \/ \E c \in Call : LocateFails(c) \/ RunSucceeds(c) \/ RunFails(c)

GSSpec == GSInit /\ [][GSNext]_gsvars

(* The goroutine of a call runs, and the GCS answers. *)
GSFairSpec == GSSpec /\ \A c \in Call : WF_gsvars(up /\ Decide(c))

-----------------------------------------------------------------------------
(***************************************************************************)
(* The loop under the read lock picks, in whatever order it visits the     *)
(* nodes and however time passes meanwhile, one that no live node beats,   *)
(* and finds none ("failed to pick a worker") only if none is live.        *)
(***************************************************************************)
PickIsBest ==
  \A c \in Readers : LoopIsOver(c) =>
    IF best[c] = NoPick THEN Live = {}
    ELSE /\ best[c].id \in DOMAIN status
         /\ \A n \in Live : QueueingTime(best[c].id) <= QueueingTime(n)

(***************************************************************************)
(* A node that runs MAX_CONCURRENT_TASKS is never preferred to a live one  *)
(* with a free slot and nothing queued: its empty queue does not hide that *)
(* a task has to end first.                                                *)
(***************************************************************************)
IsFull(n) == status[n].numRunningTasks = MaxConcurrentTasks
IsFree(n) == status[n].numRunningTasks < MaxConcurrentTasks
             /\ status[n].numQueuedTasks = 0
FullNodeIsNotPreferred ==
  \A c \in Readers : LoopIsOver(c) /\ best[c] # NoPick =>
    ~ ( /\ IsFull(best[c].id) /\ status[best[c].id].avgRunningTime > 0
        /\ \E n \in Live : IsFree(n) )

(* What locality is for: the known arguments that n lacks, one copy of each. *)
BytesToFetch(c, n) ==
  UNION {{u} \X Bytes(1, ObjectSize[u]) :
           u \in {v \in DOMAIN locations[c] : locations[c][v].locations[n] = 0}}
MissingBytes(c, n) == Cardinality(BytesToFetch(c, n))
SizesKnown(c) == \A u \in DOMAIN locations[c] :
                   locations[c][u].bytes = ObjectSize[u]
NodesOnce(c) == \A u \in DOMAIN locations[c], n \in Node :
                  locations[c][u].locations[n] <= 1

(***************************************************************************)
(* The locality loop counts an object once per copy, and yet picks a live  *)
(* node with the least queueing time plus bytes to fetch.  This needs the  *)
(* sizes on record, no node twice in a list, and no Heartbeat since the    *)
(* keys were read: the loop has no lock to keep Heartbeat out.             *)
(***************************************************************************)
LocalityPickIsBest ==
  \A c \in Call \ (Readers \cup disturbed) :
    LoopIsOver(c) /\ SizesKnown(c) /\ NodesOnce(c) =>
      IF best[c] = NoPick THEN Live = {}
      ELSE \A n \in Live :
             QueueingTime(best[c].id) + MissingBytes(c, best[c].id)
               <= QueueingTime(n) + MissingBytes(c, n)

(***************************************************************************)
(* Every Schedule call gets its node, or the process has ended: the loops  *)
(* end although nodes report, die and join while they run.                 *)
(***************************************************************************)
EveryCallIsDecided ==
  \A c \in Call : pc[c] \in {"locate", "range", "visit"}
                    ~> pc[c] \in {"run", "idle"}
=============================================================================
