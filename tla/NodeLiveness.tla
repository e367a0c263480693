--------------------------- MODULE NodeLiveness ----------------------------
(***************************************************************************)
(* How the cluster knows which nodes are alive: the heartbeat loop of each *)
(* local scheduler (SendHeartbeats), the time stamps that the global       *)
(* scheduler keeps, and kill_node / revive_node of the Python client,      *)
(* which clear and set a flag in the local scheduler and then in the       *)
(* worker of a node.                                                       *)
(*                                                                         *)
(* Time is counted in ticks of HEARTBEAT_WAIT.  The calls of one iteration *)
(* of the loop may take up to RpcTicks ticks between them; a call to the   *)
(* worker that reaches it while it is killed takes for ever if             *)
(* StatusBlocks (the Python worker goes into block_forever; the Go worker  *)
(* answers), as no call has a deadline.                                    *)
(***************************************************************************)
EXTENDS Naturals

CONSTANTS Node,
          Timeout,       \* LIVE_NODE_TIMEOUT in ticks: 4
          RpcTicks,      \* ticks the calls of one iteration may take
          BackoffTicks,  \* the first retry comes after one second: 10 ticks
          StatusBlocks,  \* WorkerStatus of a killed worker never returns
          MaxErrors      \* bound: failed calls per node

ASSUME TimeAssumption ==
  /\ Timeout \in Nat \ {0}
  /\ RpcTicks \in Nat
  /\ BackoffTicks \in Nat \ {0}
  /\ StatusBlocks \in BOOLEAN
  /\ MaxErrors \in Nat

VARIABLES schedulerAlive, \* alive of the local scheduler of each node
          workerAlive,    \* alive of its worker
          driver,         \* kill_node / revive_node between its two calls
          loop,           \* where SendHeartbeats of the node is
          timer,          \* ticks it may, or must, still spend there
          age,            \* ticks since status[n].timeReceived, up to Timeout
          errors,         \* failed calls so far
          excused         \* history: killed, or a call failed, since last beat

nvars == <<schedulerAlive, workerAlive, driver, loop, timer, age, errors,
           excused>>

Max(a, b) == IF a > b THEN a ELSE b
(* One iteration of SendHeartbeats, and the other places the loop can be in. *)
CallPCs == {"top", "status", "bandwidth", "beat"}
LoopPCs == CallPCs \cup {"sleep", "retryStatus", "retryBandwidth", "hung"}

LivenessTypes ==
  /\ schedulerAlive \in [Node -> BOOLEAN]
  /\ workerAlive \in [Node -> BOOLEAN]
  /\ driver \in [Node -> {"idle", "killing", "reviving"}]
  /\ loop \in [Node -> LoopPCs]
  /\ timer \in [Node -> 0 .. Max(Max(RpcTicks, BackoffTicks), 1)]
  /\ age \in [Node -> 0 .. Timeout]
  /\ errors \in [Node -> 0 .. MaxErrors]
  /\ excused \in [Node -> BOOLEAN]

(* The loop is where its timer can still run as long as it does. *)
TimerFits(n) ==
  /\ loop[n] = "sleep" => timer[n] <= 1
  /\ loop[n] \in CallPCs => timer[n] <= RpcTicks
  /\ loop[n] = "hung" => StatusBlocks

(***************************************************************************)
(* All values are of their types, and SendHeartbeats never takes longer    *)
(* than its code has it: one HEARTBEAT_WAIT between two iterations, the    *)
(* time of one iteration's calls for all of them together after a pause or *)
(* a retry, and for ever only in a call that the worker does not answer.   *)
(***************************************************************************)
LivenessTypeOK == LivenessTypes /\ \A n \in Node : TimerFits(n)

LivenessInit ==
  /\ schedulerAlive = [n \in Node |-> TRUE]
  /\ workerAlive = [n \in Node |-> TRUE]
  /\ driver = [n \in Node |-> "idle"]
  /\ loop = [n \in Node |-> "top"]
  /\ timer = [n \in Node |-> RpcTicks]
  /\ age = [n \in Node |-> Timeout]
  /\ errors = [n \in Node |-> 0]
  /\ excused = [n \in Node |-> TRUE]

(* SendLiveNodes, and the test for dead nodes in getBestWorker. *)
IsLive(n) == age[n] < Timeout

Goto(n, label, ticks) ==
  /\ loop' = [loop EXCEPT ![n] = label]
  /\ timer' = [timer EXCEPT ![n] = ticks]
StepTo(n, label) == Goto(n, label, timer[n])

-----------------------------------------------------------------------------
(* kill_node and revive_node: the local scheduler first, then the worker. *)
KillScheduler(n) ==
  /\ driver[n] = "idle"
  /\ driver' = [driver EXCEPT ![n] = "killing"]
  /\ schedulerAlive' = [schedulerAlive EXCEPT ![n] = FALSE]
  /\ excused' = [excused EXCEPT ![n] = TRUE]
  /\ UNCHANGED <<workerAlive, loop, timer, age, errors>>

KillWorker(n) ==
  /\ driver[n] = "killing"
  /\ driver' = [driver EXCEPT ![n] = "idle"]
  /\ workerAlive' = [workerAlive EXCEPT ![n] = FALSE]
  /\ excused' = [excused EXCEPT ![n] = TRUE]
  /\ UNCHANGED <<schedulerAlive, loop, timer, age, errors>>

ReviveScheduler(n) ==
  /\ driver[n] = "idle"
  /\ driver' = [driver EXCEPT ![n] = "reviving"]
  /\ schedulerAlive' = [schedulerAlive EXCEPT ![n] = TRUE]
  /\ UNCHANGED <<workerAlive, loop, timer, age, errors, excused>>

ReviveWorker(n) ==
  /\ driver[n] = "reviving"
  /\ driver' = [driver EXCEPT ![n] = "idle"]
  /\ workerAlive' = [workerAlive EXCEPT ![n] = TRUE]
  /\ UNCHANGED <<schedulerAlive, loop, timer, age, errors, excused>>

-----------------------------------------------------------------------------
(* Mutant: the loop does not look at alive. *)
LoopTopIgnoresAlive(n) ==
  /\ loop[n] = "top"
  /\ StepTo(n, "status")
  /\ UNCHANGED <<schedulerAlive, workerAlive, driver, age, errors, excused>>

(* Mutant: the loop ends, instead of sleeping, when the scheduler is killed. *)
LoopTopEndsWhenKilled(n) ==
  /\ loop[n] = "top"
  /\ StepTo(n, IF schedulerAlive[n] THEN "status" ELSE "hung")
  /\ UNCHANGED <<schedulerAlive, workerAlive, driver, age, errors, excused>>

(* SendHeartbeats: a killed scheduler only sleeps. *)
LoopTop(n) ==
  /\ loop[n] = "top"
  /\ IF schedulerAlive[n] THEN StepTo(n, "status") ELSE Goto(n, "sleep", 1)
  /\ UNCHANGED <<schedulerAlive, workerAlive, driver, age, errors, excused>>

CallWorkerStatus(n) ==
  /\ loop[n] = "status"
  /\ StepTo(n, IF workerAlive[n] \/ ~StatusBlocks THEN "bandwidth" ELSE "hung")
  /\ UNCHANGED <<schedulerAlive, workerAlive, driver, age, errors, excused>>

CallAvgBandwidth(n) ==
  /\ loop[n] = "bandwidth"
  /\ StepTo(n, "beat")
  /\ UNCHANGED <<schedulerAlive, workerAlive, driver, age, errors, excused>>

(* Any call of the loop may return an error (bound: MaxErrors of a node). *)
MayFail(n) == errors[n] < MaxErrors

(* WorkerStatus or AvgBandwidth fails: wait, for 1, 2, 4 ... 32 seconds ... *)
CallFails(n) ==
  /\ loop[n] \in {"status", "bandwidth"}
  /\ MayFail(n)
  /\ errors' = [errors EXCEPT ![n] = @ + 1]
  /\ excused' = [excused EXCEPT ![n] = TRUE]
  /\ Goto(n, IF loop[n] = "status" THEN "retryStatus" ELSE "retryBandwidth",
          BackoffTicks)
  /\ UNCHANGED <<schedulerAlive, workerAlive, driver, age>>

(* ... and make the same call again. *)
Retry(n) ==
  /\ loop[n] \in {"retryStatus", "retryBandwidth"}
  /\ timer[n] = 0
  /\ Goto(n, IF loop[n] = "retryStatus" THEN "status" ELSE "bandwidth", RpcTicks)
  /\ UNCHANGED <<schedulerAlive, workerAlive, driver, age, errors, excused>>

(* Mutant: twice the pause between heartbeats. *)
HeartbeatSleepsLonger(n) ==
  /\ loop[n] = "beat"
  /\ age' = [age EXCEPT ![n] = 0]
  /\ excused' = [excused EXCEPT ![n] =
                   ~schedulerAlive[n] \/ ~workerAlive[n] \/ driver[n] # "idle"]
  /\ Goto(n, "sleep", 2)
  /\ UNCHANGED <<schedulerAlive, workerAlive, driver, errors>>

(* Heartbeat reaches the global scheduler, which notes the time ... *)
Heartbeat(n) ==
  /\ loop[n] = "beat"
  /\ age' = [age EXCEPT ![n] = 0]
  /\ excused' = [excused EXCEPT ![n] =
                   ~schedulerAlive[n] \/ ~workerAlive[n] \/ driver[n] # "idle"]
  /\ Goto(n, "sleep", 1)
  /\ UNCHANGED <<schedulerAlive, workerAlive, driver, errors>>

(* ... or is lost; the loop does not look at the result. *)
HeartbeatLost(n) ==
  /\ loop[n] = "beat"
  /\ MayFail(n)
  /\ errors' = [errors EXCEPT ![n] = @ + 1]
  /\ excused' = [excused EXCEPT ![n] = TRUE]
  /\ Goto(n, "sleep", 1)
  /\ UNCHANGED <<schedulerAlive, workerAlive, driver, age>>

WakeUp(n) ==
  /\ loop[n] = "sleep"
  /\ timer[n] = 0
  /\ Goto(n, "top", RpcTicks)
  /\ UNCHANGED <<schedulerAlive, workerAlive, driver, age, errors, excused>>

(* A tick passes; a loop that is due, or out of time for its calls, is not late. *)
CanWait(n) ==
  loop[n] \in {"retryStatus", "retryBandwidth", "hung"} \/ timer[n] > 0
Tick ==
  /\ \A n \in Node : CanWait(n)
  /\ timer' = [n \in Node |-> IF timer[n] > 0 THEN timer[n] - 1 ELSE 0]
  /\ age' = [n \in Node |-> IF age[n] < Timeout THEN age[n] + 1 ELSE Timeout]
  /\ UNCHANGED <<schedulerAlive, workerAlive, driver, loop, errors, excused>>

LoopStep(n) ==
  \/ LoopTop(n) \/ CallWorkerStatus(n) \/ CallAvgBandwidth(n)
  \/ Retry(n) \/ Heartbeat(n) \/ WakeUp(n)

LivenessNext ==
  \/ \E n \in Node : \/ KillScheduler(n) \/ KillWorker(n)
                     \/ ReviveScheduler(n) \/ ReviveWorker(n)
                     \/ LoopStep(n) \/ CallFails(n) \/ HeartbeatLost(n)
  \/ Tick

LivenessSpec == LivenessInit /\ [][LivenessNext]_nvars

(* Time passes, loops run, and kill_node and revive_node make both calls. *)
LivenessFairSpec ==
  /\ LivenessSpec
  /\ WF_nvars(Tick)
  /\ \A n \in Node : /\ WF_nvars(LoopStep(n))
                     /\ WF_nvars(KillWorker(n))
                     /\ WF_nvars(ReviveWorker(n))

-----------------------------------------------------------------------------
(***************************************************************************)
(* No false alarm: a node that nobody kills and whose calls succeed never  *)
(* passes for dead after its first heartbeat, however its iterations are   *)
(* stretched by RpcTicks.  A false alarm makes the GCS run all tasks of    *)
(* the node again.                                                         *)
(***************************************************************************)
HealthyNodeStaysLive == \A n \in Node : ~excused[n] => IsLive(n)

(***************************************************************************)
(* A killed node is noticed: once its local scheduler stays killed the     *)
(* heartbeats stop, a beat that was on its way included, and the node      *)
(* passes for dead from then on.                                           *)
(***************************************************************************)
KilledNodeIsNoticed ==
  \A n \in Node : <>[](~schedulerAlive[n]) => <>[](~IsLive(n))

(***************************************************************************)
(* revive_node "revive[s] node node_id": once both parts of a node stay    *)
(* alive, the global scheduler sees the node as alive again, for good.     *)
(***************************************************************************)
RevivedNodeIsLive ==
  \A n \in Node : <>[](schedulerAlive[n] /\ workerAlive[n]) => <>[]IsLive(n)
=============================================================================
