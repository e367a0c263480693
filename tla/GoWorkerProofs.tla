-------------------------- MODULE GoWorkerProofs ---------------------------
(***************************************************************************)
(* Proofs about GoWorker: the counters and the slots of the channel are    *)
(* exact, for any finite set of Run calls and any number of slots.         *)
(***************************************************************************)
EXTENDS GoWorker, FiniteSetTheorems, TLAPS

(* The calls whose program counter, in p, is one of labels. *)
At(p, labels) == {t \in Task : p[t] \in labels}

QueuedPCs == {"acquire", "admitted"}
RunningPCs == {"running", "store", "deferred"}
AdmittedPCs == {"admitted", "release"} \cup RunningPCs

(* The sets of the properties, in terms of At. *)
LEMMA SetsOfCalls ==
  /\ Queued = At(pc, QueuedPCs)
  /\ Running = At(pc, RunningPCs)
  /\ Admitted = At(pc, AdmittedPCs)
BY DEF Queued, Running, Admitted, At, QueuedPCs, RunningPCs, AdmittedPCs

(* There are finitely many calls at any labels. *)
LEMMA AtIsFinite ==
  ASSUME NEW p, NEW labels
  PROVE  /\ IsFiniteSet(At(p, labels))
         /\ Cardinality(At(p, labels)) \in Nat
BY WorkerAssumption, FS_Subset, FS_CardinalityType DEF At

(***************************************************************************)
(* A step of one call changes the number of calls at some labels by one,   *)
(* up if it arrives there, down if it leaves.                              *)
(***************************************************************************)
LEMMA MoveCounts ==
  ASSUME NEW p \in [Task -> PCs], NEW t \in Task, NEW to, NEW labels
  PROVE  LET q == [p EXCEPT ![t] = to] IN
         Cardinality(At(q, labels)) =
           Cardinality(At(p, labels))
             + (IF to \in labels THEN 1 ELSE 0)
             - (IF p[t] \in labels THEN 1 ELSE 0)
<1> DEFINE q == [p EXCEPT ![t] = to]
           before == At(p, labels)
           after == At(q, labels)
<1>1. IsFiniteSet(before) /\ Cardinality(before) \in Nat
  BY AtIsFinite
<1>2. CASE to \in labels
  <2>1. after = before \cup {t}
    BY <1>2 DEF At
  <2>2. t \in before <=> p[t] \in labels
    BY DEF At
  <2>3. Cardinality(after) = IF t \in before THEN Cardinality(before)
                                             ELSE Cardinality(before) + 1
    BY <1>1, <2>1, FS_AddElement
  <2>4. QED
    BY <1>1, <1>2, <2>2, <2>3
<1>3. CASE to \notin labels
  <2>1. after = before \ {t}
    BY <1>3 DEF At
  <2>2. t \in before <=> p[t] \in labels
    BY DEF At
  <2>3. Cardinality(after) = IF t \in before THEN Cardinality(before) - 1
                                             ELSE Cardinality(before)
    BY <1>1, <2>1, FS_RemoveElement
  <2>4. QED
    BY <1>1, <1>3, <2>2, <2>3
<1>4. QED
  BY <1>2, <1>3

-----------------------------------------------------------------------------
(* The inductive invariant: slots, counters and types need each other. *)
GoInv == GoTypeOK /\ StatusIsExact /\ SlotsBelongToTasks

(* The three counts, as the invariant has them. *)
Counts(p, queued, running, slots) ==
  /\ queued = Cardinality(At(p, QueuedPCs))
  /\ running = Cardinality(At(p, RunningPCs))
  /\ slots = Cardinality(At(p, AdmittedPCs))

ExactCounts ==
  /\ pc \in [Task -> PCs]
  /\ alive \in BOOLEAN /\ up \in BOOLEAN
  /\ outcome \in [Task -> {"pending", "stored", "error", "exited"}]
  /\ Counts(pc, numQueuedTasks, numRunningTasks, semaphore)
  /\ semaphore <= MaxConcurrentTasks

(* Exact counts with at most MaxConcurrentTasks slots taken are the invariant. *)
LEMMA CountsSuffice == ExactCounts => GoInv
<1> SUFFICES ASSUME ExactCounts PROVE GoInv
  OBVIOUS
<1> USE DEF ExactCounts
<1>1. /\ numQueuedTasks \in Nat /\ numRunningTasks \in Nat
      /\ semaphore \in Nat
  BY AtIsFinite DEF Counts
<1>2. semaphore \in 0 .. MaxConcurrentTasks
  BY <1>1, WorkerAssumption
<1>3. numRunningTasks <= semaphore
  <2>1. At(pc, RunningPCs) \subseteq At(pc, AdmittedPCs)
    BY DEF At, AdmittedPCs
  <2>2. Cardinality(At(pc, RunningPCs)) <= Cardinality(At(pc, AdmittedPCs))
    BY <2>1, AtIsFinite, FS_Subset
  <2>3. QED
    BY <2>2 DEF Counts
<1>4. numRunningTasks <= MaxConcurrentTasks
  BY <1>1, <1>3, WorkerAssumption
<1>5. QED
  BY <1>1, <1>2, <1>4, SetsOfCalls
     DEF GoInv, GoTypeOK, StatusIsExact, SlotsBelongToTasks, Counts

(* What the invariant says about the counts. *)
LEMMA InvCounts ==
  ASSUME GoInv
  PROVE  /\ Counts(pc, numQueuedTasks, numRunningTasks, semaphore)
         /\ numQueuedTasks \in Nat /\ numRunningTasks \in Nat
         /\ semaphore \in Nat /\ semaphore <= MaxConcurrentTasks
BY WorkerAssumption, SetsOfCalls
   DEF GoInv, GoTypeOK, StatusIsExact, SlotsBelongToTasks, Counts

LEMMA GoInitInv == GoInit => GoInv
<1> SUFFICES ASSUME GoInit PROVE GoInv
  OBVIOUS
<1>1. pc \in [Task -> PCs]
  BY DEF GoInit, PCs
<1>2. /\ At(pc, QueuedPCs) = {}
      /\ At(pc, RunningPCs) = {}
      /\ At(pc, AdmittedPCs) = {}
  BY DEF GoInit, At, QueuedPCs, RunningPCs, AdmittedPCs
<1>3. Counts(pc, numQueuedTasks, numRunningTasks, semaphore)
  BY <1>2, FS_EmptySet DEF GoInit, Counts
<1>4. QED
  BY <1>1, <1>3, CountsSuffice, WorkerAssumption DEF GoInit, ExactCounts

(***************************************************************************)
(* A step of Run moves one call from a label to the next, and changes each *)
(* counter exactly if the call enters or leaves the set it counts.         *)
(***************************************************************************)
LEMMA RunCounts ==
  ASSUME GoInv, NEW t \in Task, Run(t) \/ Enqueue(t)
  PROVE  /\ Counts(pc', numQueuedTasks', numRunningTasks', semaphore')
         /\ pc' \in [Task -> PCs]
         /\ semaphore' <= MaxConcurrentTasks
<1> USE WorkerAssumption
<1> DEFINE Count(p, labels) == Cardinality(At(p, labels))
<1>1. pc \in [Task -> PCs]
  BY DEF GoInv, GoTypeOK
<1>2. Counts(pc, numQueuedTasks, numRunningTasks, semaphore)
      /\ numQueuedTasks \in Nat /\ numRunningTasks \in Nat
      /\ semaphore \in Nat /\ semaphore <= MaxConcurrentTasks
  BY InvCounts
<1>3. ASSUME NEW from \in PCs, NEW to \in PCs, Goto(t, from, to)
      PROVE  /\ pc' \in [Task -> PCs]
             /\ \A labels \in {QueuedPCs, RunningPCs, AdmittedPCs} :
                  Count(pc', labels) = Count(pc, labels)
                                         + (IF to \in labels THEN 1 ELSE 0)
                                         - (IF from \in labels THEN 1 ELSE 0)
  BY <1>1, <1>3, MoveCounts DEF Goto
<1> HIDE DEF Count
<1>4. CASE Enqueue(t)
  <2>1. Goto(t, "new", "acquire")
    BY <1>4 DEF Enqueue
  <2>2. QED
    BY <1>2, <1>3, <1>4, <2>1
       DEF Enqueue, Counts, Count, PCs, QueuedPCs, RunningPCs, AdmittedPCs
<1>5. CASE Acquire(t)
  <2>1. Goto(t, "acquire", "admitted")
    BY <1>5 DEF Acquire
  <2>2. QED
    BY <1>2, <1>3, <1>5, <2>1
       DEF Acquire, Counts, Count, PCs, QueuedPCs, RunningPCs, AdmittedPCs
<1>6. CASE BeginRunning(t)
  <2>1. Goto(t, "admitted", "running")
    BY <1>6 DEF BeginRunning
  <2>2. QED
    BY <1>2, <1>3, <1>6, <2>1
       DEF BeginRunning, Counts, Count, PCs, QueuedPCs, RunningPCs, AdmittedPCs
<1>7. CASE FetchFails(t)
  <2>1. Goto(t, "running", "deferred")
    BY <1>7 DEF FetchFails
  <2>2. QED
    BY <1>2, <1>3, <1>7, <2>1
       DEF FetchFails, Counts, Count, PCs, QueuedPCs, RunningPCs, AdmittedPCs
<1>8. CASE Executed(t)
  <2>1. Goto(t, "running", "store") \/ Goto(t, "running", "deferred")
    BY <1>8 DEF Executed
  <2>2. QED
    BY <1>2, <1>3, <1>8, <2>1
       DEF Executed, Counts, Count, PCs, QueuedPCs, RunningPCs, AdmittedPCs
<1>9. CASE Store(t)
  <2>1. Goto(t, "store", "deferred")
    BY <1>9 DEF Store
  <2>2. QED
    BY <1>2, <1>3, <1>9, <2>1
       DEF Store, Counts, Count, PCs, QueuedPCs, RunningPCs, AdmittedPCs
<1>10. CASE EndRunning(t)
  <2>1. Goto(t, "deferred", "release")
    BY <1>10 DEF EndRunning
  <2>2. QED
    BY <1>2, <1>3, <1>10, <2>1
       DEF EndRunning, Counts, Count, PCs, QueuedPCs, RunningPCs, AdmittedPCs
<1>11. CASE Release(t)
  <2>1. Goto(t, "release", "done")
    BY <1>11 DEF Release
  <2>2. QED
    BY <1>2, <1>3, <1>11, <2>1
       DEF Release, Counts, Count, PCs, QueuedPCs, RunningPCs, AdmittedPCs
<1>12. QED
  BY <1>4, <1>5, <1>6, <1>7, <1>8, <1>9, <1>10, <1>11 DEF Run

(* Run leaves the flags of the server alone and ends each call one way. *)
LEMMA RunFlags ==
  ASSUME GoInv, NEW t \in Task, Run(t) \/ Enqueue(t)
  PROVE  /\ alive' \in BOOLEAN /\ up' \in BOOLEAN
         /\ outcome' \in [Task -> {"pending", "stored", "error", "exited"}]
BY DEF GoInv, GoTypeOK, Run, Enqueue, Acquire, BeginRunning, FetchFails, Executed,
       Store, EndRunning, Release, Ends

LEMMA GoNextInv == GoInv /\ [GoNext]_wvars => GoInv'
<1> SUFFICES ASSUME GoInv, [GoNext]_wvars PROVE GoInv'
  OBVIOUS
<1>1. ASSUME NEW t \in Task, Run(t) \/ Enqueue(t) PROVE GoInv'
  <2>1. ExactCounts'
    BY <1>1, RunCounts, RunFlags DEF ExactCounts
  <2>2. ExactCounts' => GoInv'
    BY CountsSuffice, PTL
  <2>3. QED
    BY <2>1, <2>2
<1>2. ASSUME NEW t \in Task, ExecuteFails(t) PROVE GoInv'
  BY <1>2 DEF ExecuteFails, GoInv, GoTypeOK, StatusIsExact, SlotsBelongToTasks,
              Queued, Running, Admitted
<1>3. CASE KillServer \/ ReviveServer
  BY <1>3 DEF KillServer, ReviveServer, GoInv, GoTypeOK, StatusIsExact,
              SlotsBelongToTasks, Queued, Running, Admitted
<1>4. CASE UNCHANGED wvars
  BY <1>4 DEF wvars, GoInv, GoTypeOK, StatusIsExact, SlotsBelongToTasks,
              Queued, Running, Admitted
<1>5. QED
  BY <1>1, <1>2, <1>3, <1>4 DEF GoNext

-----------------------------------------------------------------------------
(* The inductive invariant of the worker holds. *)
THEOREM GoInvariance == GoSpec => []GoInv
BY GoInitInv, GoNextInv, PTL DEF GoSpec

(* Program counters, slots and the unsigned counters of the worker keep their types. *)
THEOREM GoTypeCorrect == GoSpec => []GoTypeOK
<1>1. GoInv => GoTypeOK
  BY DEF GoInv
<1>2. QED
  BY <1>1, GoInvariance, PTL

(***************************************************************************)
(* WorkerStatus is exact: numQueuedTasks and numRunningTasks are the       *)
(* numbers of Run calls that wait and that run, however the calls end.     *)
(***************************************************************************)
THEOREM GoStatusExact == GoSpec => []StatusIsExact
<1>1. GoInv => StatusIsExact
  BY DEF GoInv
<1>2. QED
  BY <1>1, GoInvariance, PTL

(***************************************************************************)
(* Every slot of the semaphore channel belongs to an admitted Run call,    *)
(* and no more than MAX_CONCURRENT_TASKS tasks run at a time.              *)
(***************************************************************************)
THEOREM GoSlotsExact == GoSpec => []SlotsBelongToTasks
<1>1. GoInv => SlotsBelongToTasks
  BY DEF GoInv
<1>2. QED
  BY <1>1, GoInvariance, PTL
=============================================================================
