------------------------- MODULE NodeLivenessProofs ------------------------
(***************************************************************************)
(* Proofs about NodeLiveness: if the pause of HEARTBEAT_WAIT and the calls *)
(* of an iteration together take less than LIVE_NODE_TIMEOUT, no healthy   *)
(* node ever passes for dead.                                              *)
(***************************************************************************)
EXTENDS NodeLiveness, TLAPS

(***************************************************************************)
(* A node without excuse has both its parts alive and nobody killing it,   *)
(* its loop is in an iteration without failed calls, and the age of its    *)
(* last heartbeat is paid for by the ticks the timer has already lost: one *)
(* of the pause, and then those of the calls.                              *)
(***************************************************************************)
HealthyIteration(n) ==
  ~excused[n] =>
    /\ schedulerAlive[n] /\ workerAlive[n] /\ driver[n] # "killing"
    /\ \/ loop[n] = "sleep" /\ age[n] + timer[n] <= 1
       \/ loop[n] \in CallPCs /\ age[n] + timer[n] <= 1 + RpcTicks
LivenessInv == LivenessTypeOK /\ \A n \in Node : HealthyIteration(n)

-----------------------------------------------------------------------------
(* What timers are set to is within their range. *)
TimerBound == Max(Max(RpcTicks, BackoffTicks), 1)
LEMMA TimerBounds ==
  /\ TimerBound \in Nat
  /\ RpcTicks \in 0 .. TimerBound
  /\ BackoffTicks \in 0 .. TimerBound
  /\ 1 \in 0 .. TimerBound
BY TimeAssumption DEF TimerBound, Max

LEMMA LivenessInitInv == LivenessInit => LivenessInv
BY TimeAssumption, TimerBounds
   DEF LivenessInit, LivenessInv, LivenessTypeOK, LivenessTypes, TimerFits, LoopPCs,
       CallPCs, HealthyIteration, TimerBound

(* kill_node and revive_node change flags; a kill is an excuse. *)
LEMMA DriverInv ==
  ASSUME LivenessInv, NEW n \in Node,
         \/ KillScheduler(n) \/ KillWorker(n)
         \/ ReviveScheduler(n) \/ ReviveWorker(n)
  PROVE  LivenessInv'
<1> USE DEF LivenessInv, LivenessTypeOK
<1>1. LivenessTypes'
  BY DEF LivenessTypes, KillScheduler, KillWorker, ReviveScheduler, ReviveWorker
<1>2. ASSUME NEW m \in Node PROVE HealthyIteration(m)' /\ TimerFits(m)'
  BY DEF LivenessTypes, HealthyIteration, TimerFits, KillScheduler, KillWorker,
         ReviveScheduler, ReviveWorker
<1>3. QED
  BY <1>1, <1>2

(* A step of a heartbeat loop, failed calls included. *)
LEMMA LoopInv ==
  ASSUME LivenessInv, NEW n \in Node, LoopStep(n) \/ CallFails(n) \/ HeartbeatLost(n)
  PROVE  LivenessInv'
<1> USE TimeAssumption, TimerBounds
<1>1. LivenessTypes /\ timer[n] \in 0 .. TimerBound
  BY DEF LivenessInv, LivenessTypeOK, LivenessTypes, TimerBound
<1>2. /\ UNCHANGED <<schedulerAlive, workerAlive, driver>>
      /\ \E label \in LoopPCs, ticks \in 0 .. TimerBound : Goto(n, label, ticks)
  BY <1>1 DEF LoopStep, LoopTop, CallWorkerStatus, CallAvgBandwidth, Retry, Heartbeat,
              WakeUp, CallFails, HeartbeatLost, StepTo, LoopPCs, CallPCs
<1>3. /\ age' \in [Node -> 0 .. Timeout]
      /\ errors' \in [Node -> 0 .. MaxErrors]
      /\ excused' \in [Node -> BOOLEAN]
  <2>1. age' = age \/ age' = [age EXCEPT ![n] = 0]
    BY DEF LoopStep, LoopTop, CallWorkerStatus, CallAvgBandwidth, Retry, Heartbeat,
           WakeUp, CallFails, HeartbeatLost
  <2>2. \/ errors' = errors
        \/ errors[n] < MaxErrors /\ errors' = [errors EXCEPT ![n] = @ + 1]
    BY DEF LoopStep, LoopTop, CallWorkerStatus, CallAvgBandwidth, Retry, Heartbeat,
           WakeUp, CallFails, HeartbeatLost, MayFail
  <2>3. excused' = excused \/ \E b \in BOOLEAN : excused' = [excused EXCEPT ![n] = b]
    BY DEF LoopStep, LoopTop, CallWorkerStatus, CallAvgBandwidth, Retry, Heartbeat,
           WakeUp, CallFails, HeartbeatLost
  <2>4. age' \in [Node -> 0 .. Timeout]
    BY <1>1, <2>1 DEF LivenessTypes
  <2>5. errors' \in [Node -> 0 .. MaxErrors]
    BY <1>1, <2>2 DEF LivenessTypes
  <2>6. excused' \in [Node -> BOOLEAN]
    BY <1>1, <2>3 DEF LivenessTypes
  <2>7. QED
    BY <2>4, <2>5, <2>6
<1>4. LivenessTypes'
  BY <1>1, <1>2, <1>3 DEF LivenessTypes, Goto, TimerBound
<1>5. ASSUME NEW m \in Node, m # n PROVE HealthyIteration(m)' /\ TimerFits(m)'
  <2>1. /\ UNCHANGED <<loop[m], timer[m], age[m], excused[m]>>
        /\ UNCHANGED <<schedulerAlive, workerAlive, driver>>
    BY <1>1, <1>5 DEF LivenessTypes, LoopStep, LoopTop, CallWorkerStatus,
         CallAvgBandwidth, Retry, Heartbeat, WakeUp, CallFails, HeartbeatLost, StepTo,
         Goto
  <2>2. QED
    BY <2>1 DEF LivenessInv, LivenessTypeOK, HealthyIteration, TimerFits
<1>6. HealthyIteration(n)' /\ TimerFits(n)'
  <2> USE DEF HealthyIteration, TimerFits, LivenessInv, LivenessTypeOK, LivenessTypes,
              StepTo, Goto, CallPCs
  <2>1. CASE LoopTop(n)
    BY <2>1 DEF LoopTop
  <2>2. CASE CallWorkerStatus(n)
    BY <2>2 DEF CallWorkerStatus
  <2>3. CASE CallAvgBandwidth(n)
    BY <2>3 DEF CallAvgBandwidth
  <2>4. CASE Retry(n)
    BY <2>4 DEF Retry
  <2>5. CASE Heartbeat(n)
    BY <2>5 DEF Heartbeat
  <2>6. CASE WakeUp(n)
    BY <2>6 DEF WakeUp
  <2>7. CASE CallFails(n) \/ HeartbeatLost(n)
    BY <2>7 DEF CallFails, HeartbeatLost
  <2>8. QED
    BY <2>1, <2>2, <2>3, <2>4, <2>5, <2>6, <2>7 DEF LoopStep
<1>7. QED
  BY <1>4, <1>5, <1>6 DEF LivenessInv, LivenessTypeOK

(* Time passes: what the age gains the timer loses. *)
LEMMA TickInv ==
  ASSUME LivenessInv, Tick
  PROVE  LivenessInv'
<1> USE TimeAssumption, TimerBounds DEF LivenessInv, LivenessTypeOK
<1>1. ASSUME NEW n \in Node
      PROVE  /\ age[n] \in Nat /\ timer[n] \in Nat
             /\ timer'[n] \in 0 .. TimerBound /\ timer'[n] <= timer[n]
             /\ age'[n] \in 0 .. Timeout
  BY DEF LivenessTypes, Tick, TimerBound
<1>2. LivenessTypes'
  BY <1>1 DEF LivenessTypes, Tick, TimerBound
<1>3. ASSUME NEW n \in Node PROVE TimerFits(n)'
  <2>1. timer'[n] \in Nat /\ loop'[n] = loop[n]
    BY <1>1 DEF Tick
  <2>2. QED
    BY <1>1, <2>1 DEF TimerFits
<1>4. ASSUME NEW n \in Node PROVE HealthyIteration(n)'
  <2>1. CASE excused[n]
    BY <2>1 DEF Tick, HealthyIteration
  <2>2. CASE ~excused[n]
    <3>1. timer[n] > 0 /\ timer'[n] = timer[n] - 1 /\ age'[n] <= age[n] + 1
      BY <1>1, <2>2 DEF Tick, CanWait, HealthyIteration, CallPCs, LivenessTypes
    <3>2. age'[n] \in Nat
      BY <1>1
    <3>3. QED
      BY <1>1, <2>2, <3>1, <3>2 DEF Tick, HealthyIteration
  <2>3. QED
    BY <2>1, <2>2
<1>5. QED
  BY <1>2, <1>3, <1>4

LEMMA LivenessNextInv == LivenessInv /\ [LivenessNext]_nvars => LivenessInv'
<1> SUFFICES ASSUME LivenessInv, [LivenessNext]_nvars PROVE LivenessInv'
  OBVIOUS
<1>1. CASE UNCHANGED nvars
  BY <1>1 DEF nvars, LivenessInv, LivenessTypeOK, LivenessTypes, TimerFits,
              HealthyIteration
<1>2. QED
  BY <1>1, DriverInv, LoopInv, TickInv DEF LivenessNext

-----------------------------------------------------------------------------
(* The inductive invariant holds, whatever the times are. *)
THEOREM LivenessInvariance == LivenessSpec => []LivenessInv
BY LivenessInitInv, LivenessNextInv, PTL DEF LivenessSpec

(***************************************************************************)
(* Loops, timers and ages keep their types, and a loop is nowhere longer   *)
(* than the pause or the calls of an iteration take; it hangs only with a  *)
(* worker that does not answer.                                            *)
(***************************************************************************)
THEOREM LivenessTypeCorrect == LivenessSpec => []LivenessTypeOK
<1>1. LivenessInv => LivenessTypeOK
  BY DEF LivenessInv
<1>2. QED
  BY <1>1, LivenessInvariance, PTL

(***************************************************************************)
(* If HEARTBEAT_WAIT and the calls of one iteration fit into               *)
(* LIVE_NODE_TIMEOUT, a node that nobody kills and whose calls succeed is  *)
(* never taken for dead, with any number of nodes and either worker.       *)
(***************************************************************************)
THEOREM NoFalseAlarm ==
  ASSUME RpcTicks + 1 < Timeout
  PROVE  LivenessSpec => []HealthyNodeStaysLive
<1>1. LivenessInv => HealthyNodeStaysLive
  <2> SUFFICES ASSUME LivenessInv, NEW n \in Node, ~excused[n] PROVE IsLive(n)
    BY DEF HealthyNodeStaysLive
  <2>1. age[n] \in Nat /\ timer[n] \in Nat
    BY TimerBounds DEF LivenessInv, LivenessTypeOK, LivenessTypes, TimerBound
  <2>2. age[n] + timer[n] <= 1 + RpcTicks
    BY <2>1, TimeAssumption DEF LivenessInv, HealthyIteration
  <2>3. QED
    BY <2>1, <2>2, TimeAssumption DEF IsLive
<1>2. QED
  BY <1>1, LivenessInvariance, PTL
=============================================================================
