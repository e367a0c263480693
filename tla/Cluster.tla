------------------------------ MODULE Cluster ------------------------------
(***************************************************************************)
(* A task from remote() to the announcement of its object, through all the *)
(* servers: the client's local scheduler registers the lineage and hands   *)
(* out the uid, the worker of its own node or the global scheduler gets    *)
(* the task, somebody registers who is generating it, the worker fetches   *)
(* the function, runs it, stores the object, and the store notifies the    *)
(* GCS.  The GCS side is module GCS with its sweep, the function table is  *)
(* FunctionTable; here are Schedule of both schedulers and Run of the      *)
(* (Python) worker, and what can go wrong around them:                     *)
(*                                                                         *)
(*  - kill_node: the worker answers nothing any more, Run hangs;           *)
(*  - a container ends: calls into it fail, calls out of it are cancelled; *)
(*  - heartbeats fail for a while and a healthy node passes for dead;      *)
(*  - a call to the GCS whose error the caller ignores is lost;            *)
(*  - a call whose error the global scheduler does not forgive fails:      *)
(*    GetObjectLocations, or Run on a worker that is up;                   *)
(*  - the GCS or the function table is started again;                      *)
(*  - the task raises an exception.                                        *)
(*                                                                         *)
(* Which of the live nodes getBestWorker picks is the business of module   *)
(* GlobalScheduler; what can end the process there is here, too.  Slots    *)
(* and queues are that of GoWorker and PyWorker, revived nodes that of     *)
(* NodeLiveness.                                                           *)
(***************************************************************************)
EXTENDS GCS, FunctionTable

CONSTANTS Home,       \* Home[u]: node of the client that calls remote()
          Task,       \* Task[u]: the ScheduleRequest, when it names no node
          Argument,   \* objects made before, which tasks take as arguments
          MaxTasks,   \* MAX_TASKS
          Pins,       \* nodes that clients name with set_node
          ZeroName,   \* function name 0, which is never drawn
          MaxFaults   \* bound: faults of all kinds together

Message == INSTANCE RayClient
             WITH UidField <- Uid \cup {NoUid} \cup Argument,
                  NodeField <- Location, NameField <- Name \cup {ZeroName},
                  Count <- 0 .. MaxTasks

ASSUME ClusterAssumption ==
  /\ Home \in [Uid -> Node]
  /\ Task \in [Uid -> Message!ScheduleRequest]
  /\ Pins \subseteq Node
  /\ ZeroName \notin Name
  /\ MaxTasks \in Nat \ {0}
  /\ MaxFaults \in Nat

VARIABLES dispatched,  \* uids whose Schedule call has returned
          attempts,    \* attempts[u][i]: goroutine that sees to one run of u
          skipped,     \* skipped[u][i]: nodes its locality loop found dead
          gsUp,        \* the global scheduler runs
          alive,       \* nodes that have not been killed (kill_node)
          crashed,     \* nodes whose container has ended
          seen,        \* nodes whose heartbeats are recent
          history      \* what has happened, for the properties

cvars == <<dispatched, attempts, skipped, gsUp, alive, crashed, seen, history>>
clvars == <<gvars, fvars, cvars>>

(* What arrives when nil is sent; NoUid stands for uid 0. *)
EmptyTask == [uid |-> NoUid, name |-> ZeroName, uids |-> {},
              nodeId |-> ZeroNode, localityFlag |-> FALSE]
(* Slot 0 is for the goroutine of Schedule, the others for the sweep's. *)
Slots == 0 .. MaxSchedules
Idle == [by |-> "nobody", pc |-> "idle", node |-> ZeroNode,
         task |-> EmptyTask]
Attempt == [by : {"nobody", "local", "client", "sweep", "cancelled", "orphan"},
            pc : {"idle", "pick", "visit", "register", "run", "fetch", "execute", "done"},
            node : Location, task : Message!GlobalScheduleRequest]
(* The calls that an attempt makes. *)
GeneratingOf(a) == [uid |-> a.task.uid, nodeId |-> a.node]
RunOf(a) == [uid |-> a.task.uid, name |-> a.task.name]
(* The calls that can get lost, and those of them the GCS needs for a rerun. *)
Calls == {"lineage", "generating", "cancelled", "owns", "run", "locate"}
ForRerun == {"lineage", "generating", "cancelled"}
NothingHappened == [lost |-> [call \in Calls |-> {}], raised |-> {}, asked |-> {},
                    misjudged |-> 0, blind |-> FALSE, raced |-> FALSE]
Faults == Cardinality(Node \ alive) + Cardinality(crashed)
          + history.misjudged + restarts + funcRestarts
          + Cardinality(UNION {history.lost[k] : k \in Calls \ {"cancelled"}})
          + Cardinality(history.raised)

ClusterTypeOK ==
  /\ GCSTypeOK /\ FuncTypeOK
  /\ dispatched \subseteq issued
  /\ attempts \in [Uid -> [Slots -> Attempt]]
  /\ skipped \in [Uid -> [Slots -> SUBSET Node]]
  /\ gsUp \in BOOLEAN
  /\ alive \subseteq Node /\ crashed \subseteq Node /\ seen \subseteq Node
  /\ \A u \in Uid, i \in Slots :
       LET a == attempts[u][i] IN
       /\ a = Idle <=> a.pc = "idle"
       /\ a.pc \in {"register", "run", "fetch", "execute"} =>
            /\ GeneratingOf(a) \in Message!GeneratingRequest /\ a.node # ZeroNode
            /\ RunOf(a) \in Message!RunRequest

(* All servers are up and have heard of each other. *)
ClusterInit ==
  /\ GCSInit /\ FuncInit
  /\ dispatched = {}
  /\ attempts = [u \in Uid |-> [i \in Slots |-> Idle]]
  /\ skipped = [u \in Uid |-> [i \in Slots |-> {}]]
  /\ gsUp = TRUE
  /\ alive = Node /\ crashed = {} /\ seen = Node
  /\ history = NothingHappened

-----------------------------------------------------------------------------
Step(u, i, from, to) ==
  /\ attempts[u][i].pc = from
  /\ attempts' = [attempts EXCEPT ![u][i].pc = to]
Note(what, u) == history' = [history EXCEPT ![what] = @ \cup {u}]
(* A call about u fails, and the caller ignores it or ends. *)
Lost(call, u) == history' = [history EXCEPT !.lost[call] = @ \cup {u}]
Elsewhere == UNCHANGED <<dispatched, skipped, gsUp, alive, crashed, seen>>

(* The attempt is over; a goroutine of the sweep returns to the GCS. *)
Ends(u, i) ==
  /\ attempts' = [attempts EXCEPT ![u][i] = Idle]
  /\ IF attempts[u][i].by = "sweep" THEN ScheduleReturns(u) ELSE UNCHANGED gvars

(***************************************************************************)
(* log.Fatalf in the global scheduler.  Its handlers are gone and their    *)
(* callers get an error, which they ignore; a worker that runs a task for  *)
(* it goes on.                                                             *)
(***************************************************************************)
GlobalSchedulerEnds ==
  /\ gsUp' = FALSE
  /\ attempts' = [u \in Uid |-> [i \in Slots |->
       LET a == attempts[u][i] IN
       CASE a.by \in {"local", "orphan", "nobody"} -> a
         [] a.by \in {"client", "sweep", "cancelled"} ->
              IF a.pc \in {"fetch", "execute"} THEN [a EXCEPT !.by = "orphan"]
                                              ELSE Idle]]
  /\ skipped' = [u \in Uid |-> [i \in Slots |-> {}]]
  /\ schedules' = [u \in Uid |-> 0]
  /\ UNCHANGED <<tvars, lineage, generating, announcing, swvars, issued, restarts,
                 fvars, dispatched, alive, crashed, seen>>

-----------------------------------------------------------------------------
(* Schedule of the local scheduler.                                        *)

(* The client calls remote() on a registered function: RegisterLineage ... *)
ScheduleRegisters(u) ==
  /\ Task[u].name \in registered
  /\ Home[u] \notin crashed
  /\ \/ RegisterLineage(u) /\ UNCHANGED history
     \/ /\ Faults < MaxFaults /\ u \notin issued /\ Lost("lineage", u)
        /\ issued' = issued \cup {u}
        /\ UNCHANGED <<tvars, lineage, generating, announcing, swvars, schedules,
                       restarts>>
  /\ Elsewhere /\ UNCHANGED <<fvars, attempts>>

GlobalTask(u, node, flag) ==
  [uid |-> u, name |-> Task[u].name, uids |-> Task[u].uids, nodeId |-> node,
   localityFlag |-> flag]
Launch(u, by, pc, node, task) ==
  attempts' = [attempts EXCEPT ![u][0] =
                 [by |-> by, pc |-> pc, node |-> node, task |-> task]]

(***************************************************************************)
(* ... then a goroutine for a node the client named, for the worker of the *)
(* node if WorkerStatus reports less than MAX_TASKS (any other tasks may   *)
(* keep it busy), or for the global scheduler; and the uid is returned.  A *)
(* killed worker never answers WorkerStatus, and Schedule waits for it.    *)
(***************************************************************************)
ScheduleDispatches(u) ==
  /\ u \in issued \ dispatched
  /\ Home[u] \notin crashed
  /\ dispatched' = dispatched \cup {u}
  /\ \/ \E n \in Pins : Launch(u, "client", "pick", ZeroNode, GlobalTask(u, n, FALSE))
     \/ /\ Home[u] \in alive
        /\ \E status \in Message!WorkerStatusResponse :
             IF status.numRunningTasks < MaxTasks
             THEN Launch(u, "local", "register", Home[u],
                         GlobalTask(u, ZeroNode, FALSE))
             ELSE Launch(u, "client", "pick", ZeroNode,
                         GlobalTask(u, ZeroNode, Task[u].localityFlag))
  /\ UNCHANGED <<gvars, fvars, skipped, gsUp, alive, crashed, seen, history>>

-----------------------------------------------------------------------------
(* Schedule of the global scheduler, and the local goroutine.              *)

(* getBestWorker asks where the arguments are. *)
Locality(a) == a.task.nodeId = ZeroNode /\ a.task.localityFlag /\ a.task.uids # {}

(* Mutant: nobody asks whether a node was found. *)
PickUnchecked(u, i) ==
  /\ gsUp
  /\ attempts[u][i].pc = "pick" /\ ~Locality(attempts[u][i])
  /\ LET given == attempts[u][i].task.nodeId IN
     \E n \in (IF given # ZeroNode \/ seen = {} THEN {given} ELSE seen) :
       attempts' = [attempts EXCEPT ![u][i].node = n, ![u][i].pc = "register"]
  /\ Elsewhere /\ UNCHANGED <<gvars, fvars, history>>

(***************************************************************************)
(* The node the client named, or a live one (getBestWorker without         *)
(* locality, which holds the lock for its whole loop).                     *)
(***************************************************************************)
Pick(u, i) ==
  /\ gsUp
  /\ attempts[u][i].pc = "pick" /\ ~Locality(attempts[u][i])
  /\ LET given == attempts[u][i].task.nodeId IN
     \E n \in (IF given = ZeroNode THEN seen ELSE {given}) :
       attempts' = [attempts EXCEPT ![u][i].node = n, ![u][i].pc = "register"]
  /\ Elsewhere /\ UNCHANGED <<gvars, fvars, history>>

(* "global scheduler failed to pick a worker" *)
PickFails(u, i) ==
  /\ gsUp
  /\ attempts[u][i].pc = "pick" /\ ~Locality(attempts[u][i])
  /\ attempts[u][i].task.nodeId = ZeroNode /\ seen = {}
  /\ GlobalSchedulerEnds
  /\ UNCHANGED history

(* GetObjectLocations answers ... *)
Locate(u, i) ==
  /\ gsUp
  /\ Locality(attempts[u][i])
  /\ Step(u, i, "pick", "visit")
  /\ Elsewhere /\ UNCHANGED <<gvars, fvars, history>>

(* ... or "Failed to ask gcs for object locations". *)
LocateFails(u, i) ==
  /\ gsUp
  /\ attempts[u][i].pc = "pick" /\ Locality(attempts[u][i])
  /\ \/ attempts[u][i].by = "cancelled" /\ UNCHANGED history
     \/ Faults < MaxFaults /\ Lost("locate", u)
  /\ GlobalSchedulerEnds

(* The locality loop, without a lock: a node whose heartbeat is old now ... *)
Skip(u, i, n) ==
  /\ attempts[u][i].pc = "visit"
  /\ n \notin seen \cup skipped[u][i]
  /\ skipped' = [skipped EXCEPT ![u][i] = @ \cup {n}]
  /\ UNCHANGED <<gvars, fvars, dispatched, attempts, gsUp, alive, crashed, seen, history>>

(* ... or the one that will win; the rest of the loop changes nothing. *)
VisitPicks(u, i) ==
  /\ attempts[u][i].pc = "visit"
  /\ \E n \in seen \ skipped[u][i] :
       attempts' = [attempts EXCEPT ![u][i].node = n, ![u][i].pc = "register"]
  /\ skipped' = [skipped EXCEPT ![u][i] = {}]
  /\ UNCHANGED <<gvars, fvars, dispatched, gsUp, alive, crashed, seen, history>>

(* "global scheduler failed to pick a worker", after a look at every node. *)
VisitFails(u, i) ==
  /\ attempts[u][i].pc = "visit" /\ skipped[u][i] = Node
  /\ GlobalSchedulerEnds
  /\ UNCHANGED history

(* The Go runtime sees a Heartbeat write the map that the loop reads. *)
MapRace(u, i) ==
  /\ attempts[u][i].pc = "visit" /\ alive \ crashed # {}
  /\ GlobalSchedulerEnds
  /\ history' = [history EXCEPT !.raced = TRUE]

(* Mutant: the worker is asked to run before the GCS is told. *)
RegisterSkipped(u, i) ==
  /\ Step(u, i, "register", "run")
  /\ Elsewhere /\ UNCHANGED <<gvars, fvars, history>>

(***************************************************************************)
(* RegisterGenerating before Run.  The error is ignored.  The local        *)
(* goroutine passes the context of a handler that may have returned: its   *)
(* call is cancelled or not, and that is no fault of the network.  (The    *)
(* empty task registers uid 0, about which nobody asks.)                   *)
(***************************************************************************)
Register(u, i) ==
  LET a == attempts[u][i]
      req == GeneratingOf(a) IN
  /\ Step(u, i, "register", "run")
  /\ \/ /\ req.uid = u
        /\ RegisterGenerating(u, req.nodeId)
        /\ UNCHANGED history
     \/ /\ req.uid = u
        /\ \/ a.by = "local" /\ Lost("cancelled", u)
           \/ a.by # "local" /\ Faults < MaxFaults /\ Lost("generating", u)
        /\ UNCHANGED gvars
     \/ req.uid # u /\ UNCHANGED <<gvars, history>>
  /\ Elsewhere /\ UNCHANGED fvars

(* Run reaches the worker of a node that is up. *)
RunStarts(u, i) ==
  /\ attempts[u][i].node \in alive \ crashed
  /\ Step(u, i, "run", "fetch")
  /\ Elsewhere /\ UNCHANGED <<gvars, fvars, history>>

(* FetchFunc knows the function. *)
RunFetches(u, i) ==
  /\ attempts[u][i].node \notin crashed
  /\ FetchFunc(RunOf(attempts[u][i]).name)
  /\ Step(u, i, "fetch", "execute")
  /\ Elsewhere /\ UNCHANGED <<gvars, fvars, history>>

(* A killed worker takes the call and blocks, before or after the function. *)
RunHangs(u, i) ==
  /\ attempts[u][i].pc \in {"run", "execute"}
  /\ attempts[u][i].node \notin alive \cup crashed
  /\ Ends(u, i)
  /\ Elsewhere /\ UNCHANGED <<fvars, history>>

(* Mutant: the object is stored and the GCS is not told. *)
RunStoresSilently(u, i) ==
  /\ attempts[u][i].node \in alive \ crashed
  /\ Step(u, i, "execute", "done")
  /\ Elsewhere /\ UNCHANGED <<gvars, fvars, history>>

(***************************************************************************)
(* The function returns, Store, and NotifyOwns, whose error is ignored;    *)
(* the GCS goes through it in two steps, and Store and Run wait for it.    *)
(***************************************************************************)
RunStores(u, i) ==
  /\ attempts[u][i].node \in alive \ crashed
  /\ Step(u, i, "execute", "done")
  /\ \/ /\ GCSNotifyOwns(RunOf(attempts[u][i]).uid, attempts[u][i].node, "size")
        /\ UNCHANGED history
     \/ Faults < MaxFaults /\ Lost("owns", u) /\ UNCHANGED gvars
  /\ Elsewhere /\ UNCHANGED fvars
Announce == NotifyOwnsAppends /\ UNCHANGED <<fvars, cvars>>

RunReturns(u, i) ==
  /\ attempts[u][i].pc = "done"
  /\ ~(announcing.uid = u /\ announcing.node = attempts[u][i].node)
  /\ Ends(u, i)
  /\ Elsewhere /\ UNCHANGED <<fvars, history>>

(* Why Run must answer with an error. *)
RunError(u, i) ==
  LET a == attempts[u][i] IN
  \/ a.pc \in {"run", "fetch", "execute"} /\ a.node \in crashed
  \/ a.pc = "fetch" /\ ~FetchFunc(RunOf(a).name)
  \/ a.pc \in {"register", "run", "fetch", "execute"} /\ a.by = "cancelled"
(* Only the global scheduler looks at the error, and ends. *)
RunFails(u, i) ==
  /\ RunError(u, i)
  /\ IF attempts[u][i].by \in {"local", "orphan"}
     THEN Ends(u, i) /\ Elsewhere /\ UNCHANGED fvars
     ELSE GlobalSchedulerEnds
  /\ UNCHANGED history

(***************************************************************************)
(* The call of Run breaks although the worker is up, with or without the   *)
(* function running, or its answer is lost.  The worker goes on.           *)
(***************************************************************************)
RunCallFails(u, i) ==
  LET a == attempts[u][i] IN
  /\ Faults < MaxFaults
  /\ a.pc \in {"run", "fetch", "execute", "done"} /\ a.node \notin crashed
  /\ a.by # "orphan"
  /\ IF a.by # "local" THEN GlobalSchedulerEnds
     ELSE /\ IF a.pc \in {"fetch", "execute"}
             THEN attempts' = [attempts EXCEPT ![u][i].by = "orphan"] /\ UNCHANGED gvars
             ELSE Ends(u, i)
          /\ Elsewhere /\ UNCHANGED fvars
  /\ Lost("run", u)

(* The task itself raises an exception, which Run passes on. *)
TaskRaises(u, i) ==
  /\ Faults < MaxFaults
  /\ attempts[u][i].pc = "execute" /\ attempts[u][i].node \in alive \ crashed
  /\ IF attempts[u][i].by \in {"local", "orphan"}
     THEN Ends(u, i) /\ Elsewhere /\ UNCHANGED fvars
     ELSE GlobalSchedulerEnds
  /\ Note("raised", u)

-----------------------------------------------------------------------------
(* The sweep of the GCS, with the live nodes of SendLiveNodes.             *)

SendLiveNodes ==
  /\ gsUp
  /\ \A u \in Uid : \E i \in Slots \ {0} : attempts[u][i] = Idle
  /\ GCSRegisterLiveNodes(seen)
  /\ UNCHANGED <<fvars, cvars>>

SweepStep ==
  /\ CollectGenerating \/ CollectLocated \/ ReadLocations
     \/ \E u \in Uid : ReadGenerating(u)
  /\ UNCHANGED <<fvars, cvars>>

(* Mutant: the goroutine sends a request that was never filled in. *)
RerunOfNobody(u) ==
  [by |-> "sweep", pc |-> "pick", node |-> ZeroNode, task |-> EmptyTask]

(* Schedule(s.lineage[uid]): without an entry, a nil that arrives as zeros. *)
Rerun(u) ==
  [by |-> "sweep", pc |-> "pick", node |-> ZeroNode,
   task |-> IF u \in lineage THEN GlobalTask(u, ZeroNode, FALSE)
                             ELSE EmptyTask]
FreeSlot(u) == CHOOSE i \in Slots \ {0} : attempts[u][i] = Idle
LaunchReruns ==
  /\ LaunchSchedules
  /\ attempts' = IF ~gsUp THEN attempts
                 ELSE [u \in Uid |-> IF u \notin regenerateList THEN attempts[u]
                         ELSE [attempts[u] EXCEPT ![FreeSlot(u)] = Rerun(u)]]
  /\ Elsewhere /\ UNCHANGED <<fvars, history>>

(* Nobody serves the call any more. *)
RerunRefused(u) == ~gsUp /\ ScheduleReturns(u) /\ UNCHANGED <<fvars, cvars>>

-----------------------------------------------------------------------------
(* Clients, and the GCS on its own.                                        *)
(* Bound: one question about each uid. *)
Ask(u, c) ==
  /\ u \notin history.asked
  /\ GCSRequestLocation(u, c)
  /\ Note("asked", u)
  /\ Elsewhere /\ UNCHANGED <<fvars, attempts>>
Answer ==
  /\ \E u \in Uid, c \in Client, l \in Location : GCSsendCallback(u, c, l)
  /\ UNCHANGED <<fvars, cvars>>
Flush == GCSflushToDisk /\ UNCHANGED <<fvars, cvars>>
RegisterFunction ==
  /\ \E name \in Name : RegisterFunc(name)
  /\ UNCHANGED <<gvars, cvars>>

-----------------------------------------------------------------------------
(* Faults.                                                                 *)
KillNode(n) ==
  /\ Faults < MaxFaults /\ n \in alive \ crashed
  /\ alive' = alive \ {n}
  /\ UNCHANGED <<gvars, fvars, dispatched, attempts, skipped, gsUp, crashed, seen,
                 history>>

(* Calls of the clients on n to the global scheduler are cancelled. *)
CrashNode(n) ==
  /\ Faults < MaxFaults /\ n \in alive \ crashed
  /\ crashed' = crashed \cup {n}
  /\ attempts' = [u \in Uid |-> [i \in Slots |->
       LET a == attempts[u][i] IN
       CASE a.by = "local" /\ Home[u] = n -> Idle
         [] a.by = "client" /\ Home[u] = n -> [a EXCEPT !.by = "cancelled"]
         [] OTHER -> a]]
  /\ UNCHANGED <<gvars, fvars, dispatched, skipped, gsUp, alive, seen, history>>

(* Heartbeats stop arriving: nodes are down, or one of their calls failed. *)
Unseen(nodes) ==
  /\ seen' = seen \ nodes
  /\ UNCHANGED <<gvars, fvars, dispatched, attempts, skipped, gsUp, alive, crashed>>
Notice(n) ==
  /\ n \in seen \ (alive \ crashed)
  /\ Unseen({n})
  /\ history' = [history EXCEPT !.blind = @ \/ seen' = {}]
Misjudge(nodes) ==
  /\ Faults < MaxFaults /\ nodes # {} /\ nodes \subseteq seen \cap (alive \ crashed)
  /\ Unseen(nodes)
  /\ history' = [history EXCEPT !.blind = @ \/ seen' = {}, !.misjudged = @ + 1]

(* The heartbeats of a healthy node arrive again, maybe after a loop skipped it. *)
Recover(n) ==
  /\ n \in (alive \ crashed) \ seen
  /\ seen' = seen \cup {n}
  /\ history' = [history EXCEPT !.raced =
                   @ \/ \E u \in Uid, i \in Slots : n \in skipped[u][i]]
  /\ UNCHANGED <<gvars, fvars, dispatched, attempts, skipped, gsUp, alive, crashed>>

(* The GCS starts again; the global scheduler's handlers for it lose their caller. *)
RestartGCS ==
  /\ Faults < MaxFaults /\ GCSRestart
  /\ attempts' = [u \in Uid |-> [i \in Slots |->
       IF attempts[u][i].by = "sweep" THEN [attempts[u][i] EXCEPT !.by = "cancelled"]
                                      ELSE attempts[u][i]]]
  /\ Elsewhere /\ UNCHANGED <<fvars, history>>

RestartFunctionTable ==
  Faults < MaxFaults /\ FuncRestart /\ UNCHANGED <<gvars, cvars>>

-----------------------------------------------------------------------------
AttemptStep(u, i) ==
  \/ Pick(u, i) \/ PickFails(u, i) \/ Locate(u, i) \/ LocateFails(u, i)
  \/ VisitPicks(u, i) \/ VisitFails(u, i) \/ \E n \in Node : Skip(u, i, n)
  \/ Register(u, i)
  \/ RunStarts(u, i) \/ RunFetches(u, i) \/ RunHangs(u, i) \/ RunStores(u, i)
  \/ RunReturns(u, i) \/ RunFails(u, i)
SweepSteps == SendLiveNodes \/ SweepStep \/ LaunchReruns

ClusterNext ==
  \/ \E u \in Uid : ScheduleRegisters(u) \/ ScheduleDispatches(u) \/ RerunRefused(u)
  \/ \E u \in Uid, i \in Slots : \/ AttemptStep(u, i) \/ TaskRaises(u, i)
                                 \/ MapRace(u, i) \/ RunCallFails(u, i)
  \/ SweepSteps
  \/ \E u \in Uid, c \in Client : Ask(u, c)
  \/ Announce \/ Answer \/ Flush \/ RegisterFunction
  \/ \E n \in Node : KillNode(n) \/ CrashNode(n) \/ Notice(n) \/ Recover(n)
  \/ \E nodes \in SUBSET Node : Misjudge(nodes)
  \/ RestartGCS \/ RestartFunctionTable

ClusterSpec == ClusterInit /\ [][ClusterNext]_clvars

(***************************************************************************)
(* Goroutines run, calls return, the live nodes are sent again and again,  *)
(* and heartbeats, or their absence, are noticed.                          *)
(***************************************************************************)
ClusterFairSpec ==
  /\ ClusterSpec
  /\ \A u \in Uid, i \in Slots : WF_clvars(AttemptStep(u, i))
  /\ WF_clvars(SweepSteps)
  /\ WF_clvars(Announce) /\ WF_clvars(Answer)
  /\ \A u \in Uid : WF_clvars(RerunRefused(u))
  /\ \A n \in Node : WF_clvars(Notice(n)) /\ WF_clvars(Recover(n))

-----------------------------------------------------------------------------
Announced(u) == \E n \in Node : <<u, n>> \in announced

(***************************************************************************)
(* kill_node, which the demo uses to show fault tolerance, never ends the  *)
(* global scheduler by itself, nor do lost announcements or registrations, *)
(* a node that is misjudged, and any sweep they set off.  log.Fatalf or an *)
(* abort takes a container that ended, a restart of the GCS or of the      *)
(* function table, a failed Run or GetObjectLocations, a task that raised, *)
(* a lineage that was not registered, a heartbeat in the middle of the     *)
(* unlocked loop for locality, or no node with a recent heartbeat.         *)
(***************************************************************************)
EndsOnlyAfterFault ==
  gsUp \/ crashed # {} \/ restarts > 0 \/ funcRestarts > 0
       \/ history.blind \/ history.raced \/ history.raised # {}
       \/ \E call \in {"lineage", "run", "locate"} : history.lost[call] # {}

(***************************************************************************)
(* A worker never executes a task that the GCS could not run again: while  *)
(* one does, the task is registered as being generated, with its lineage,  *)
(* or its object is being or has been announced meanwhile.                 *)
(* RegisterGenerating comes before Run and RegisterLineage before both.    *)
(***************************************************************************)
RunningIsProtected ==
  \A u \in Uid, i \in Slots :
    attempts[u][i].pc \in {"fetch", "execute"} /\ attempts[u][i].task.uid = u =>
      \/ Announced(u) \/ announcing.uid = u
      \/ u \in DOMAIN generating /\ u \in lineage
      \/ \E call \in ForRerun : u \in history.lost[call]
      \/ restarts > 0

(***************************************************************************)
(* What can keep the object of u from being made: the end of the global    *)
(* scheduler, a restart, a failed run on the client's own node (nobody     *)
(* looks at it), a lost NotifyOwns, and a failed node if the GCS was never *)
(* told that it was generating the task, or from what.                     *)
(***************************************************************************)
Unrecoverable(u) ==
  \/ ~gsUp \/ restarts > 0 \/ funcRestarts > 0 \/ u \in history.raised
  \/ u \in history.lost["owns"] \/ u \in history.lost["run"]
  \/ Home[u] \in crashed
  \/ alive # Node /\ \E call \in ForRerun : u \in history.lost[call]

(***************************************************************************)
(* "used to determine when an original creation of a uid should be         *)
(* restarted": every task is run until its object is announced, on another *)
(* node if need be, or is unrecoverable.                                   *)
(***************************************************************************)
TaskIsAnnounced ==
  \A u \in Uid : u \in dispatched ~> Announced(u) \/ Unrecoverable(u)

(***************************************************************************)
(* The client's side of it: who waits on the GCS for the object of a task  *)
(* is not left waiting, although his own question may have made the sweep  *)
(* run the task again while the first run is under way.                    *)
(***************************************************************************)
WaiterIsAnswered ==
  \A u \in Uid, c \in Client :
    u \in dispatched /\ waitlist[u][c] > 0 ~> waitlist[u][c] = 0 \/ Unrecoverable(u)

-----------------------------------------------------------------------------
(* What the repository says of itself, and the code does not do.           *)

(***************************************************************************)
(* "a minimal yet fully-functioning (fault-tolerance included!)            *)
(* implementation of Ray" (README.md): when nothing goes wrong but killed  *)
(* nodes, every task is run until its object is announced.                 *)
(***************************************************************************)
TaskSurvivesKill ==
  \A u \in Uid : u \in dispatched ~>
    Announced(u) \/ alive = {} \/ Faults > Cardinality(Node \ alive)
=============================================================================
