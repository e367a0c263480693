-------------------------- MODULE PyWorkerProofs ---------------------------
(***************************************************************************)
(* Proofs about PyWorker: the counters are exact, and the permits of the   *)
(* semaphore are accounted for, for any finite set of calls, any nesting   *)
(* of tasks, any number of permits and any size of the pool.               *)
(***************************************************************************)
EXTENDS PyWorker, FiniteSetTheorems, TLAPS

(* The Run calls whose program counter, in p, is one of labels. *)
TasksAt(p, labels) == {t \in Task : p[t] \in labels}

QueuedPCs == {"semaphore", "waiting", "admitted"}
RunningPCs == {"running", "store", "finally", "stuck"}
HoldingPCs == {"admitted", "exit"} \cup RunningPCs
EndedPCs == {"done"}
CountedPCs == {QueuedPCs, RunningPCs, HoldingPCs, EndedPCs}

(* The sets of the properties, in terms of TasksAt. *)
LEMMA SetsOfTasks ==
  /\ Queued = TasksAt(pc, QueuedPCs)
  /\ Running = TasksAt(pc, RunningPCs)
  /\ Holding = TasksAt(pc, HoldingPCs)
  /\ Ended = TasksAt(pc, EndedPCs)
BY DEF Queued, Running, Holding, Ended, TasksAt, QueuedPCs, RunningPCs,
       HoldingPCs, EndedPCs

(* There are finitely many tasks at any labels. *)
LEMMA TasksAtFinite ==
  ASSUME NEW p, NEW labels
  PROVE  /\ IsFiniteSet(TasksAt(p, labels))
         /\ Cardinality(TasksAt(p, labels)) \in Nat
BY PyWorkerAssumption, FS_Subset, FS_CardinalityType DEF TasksAt

In(label, labels) == IF label \in labels THEN 1 ELSE 0

(* From p to q, the number of tasks at labels changes with the step of t. *)
CountMoves(p, q, t, labels) ==
  Cardinality(TasksAt(q, labels)) =
    Cardinality(TasksAt(p, labels)) + In(q[t], labels) - In(p[t], labels)

(* A step of a task changes the number of tasks at some labels by one. *)
LEMMA TaskMoves ==
  ASSUME NEW p, NEW q, NEW t \in Task, NEW labels,
         \A x \in Task \ {t} : q[x] = p[x]
  PROVE  CountMoves(p, q, t, labels)
<1> DEFINE before == TasksAt(p, labels)
           after == TasksAt(q, labels)
<1>1. IsFiniteSet(before) /\ Cardinality(before) \in Nat
  BY TasksAtFinite
<1>2. t \in before <=> p[t] \in labels
  BY DEF TasksAt
<1>3. CASE q[t] \in labels
  <2>1. after = before \cup {t}
    BY <1>3 DEF TasksAt, Call
  <2>2. Cardinality(after) = IF t \in before THEN Cardinality(before)
                                             ELSE Cardinality(before) + 1
    BY <1>1, <2>1, FS_AddElement
  <2>3. QED
    BY <1>1, <1>2, <1>3, <2>2 DEF In, CountMoves
<1>4. CASE q[t] \notin labels
  <2>1. after = before \ {t}
    BY <1>4 DEF TasksAt, Call
  <2>2. Cardinality(after) = IF t \in before THEN Cardinality(before) - 1
                                             ELSE Cardinality(before)
    BY <1>1, <2>1, FS_RemoveElement
  <2>3. QED
    BY <1>1, <1>2, <1>4, <2>2 DEF In, CountMoves
<1>5. QED
  BY <1>3, <1>4

-----------------------------------------------------------------------------
(* The inductive invariant: a counter is a number because it counts a set. *)
PyInv == PyTypeOK /\ PyStatusIsExact /\ PermitsAreAccounted

(* The invariant in terms of p and of the numbers of tasks at labels. *)
PyCounts(p, queued, running, free) ==
  /\ p \in [Call -> PCs]
  /\ queued = Cardinality(TasksAt(p, QueuedPCs))
  /\ running = Cardinality(TasksAt(p, RunningPCs))
  /\ free \in Nat
  /\ free + Cardinality(TasksAt(p, HoldingPCs))
       = MaxConcurrentTasks + Cardinality(TasksAt(p, EndedPCs))
PyExact ==
  /\ alive \in BOOLEAN /\ killed \in BOOLEAN /\ stored \subseteq Task
  /\ PyCounts(pc, num_queued_tasks, num_running_tasks, permits)

LEMMA PyExactIsInv == PyExact <=> PyInv
<1>1. PyExact => num_queued_tasks \in Nat /\ num_running_tasks \in Nat
  BY TasksAtFinite DEF PyExact, PyCounts
<1>2. QED
  BY <1>1, SetsOfTasks
     DEF PyExact, PyCounts, PyInv, PyTypeOK, PyStatusIsExact, PermitsAreAccounted

LEMMA PyInitExact == PyInit => PyExact
<1> SUFFICES ASSUME PyInit PROVE PyExact
  OBVIOUS
<1>1. pc \in [Call -> PCs]
  BY DEF PyInit, PCs
<1>2. \A labels \in CountedPCs : TasksAt(pc, labels) = {}
  BY DEF PyInit, TasksAt, Call, CountedPCs, QueuedPCs, RunningPCs, HoldingPCs,
         EndedPCs
<1>3. \A labels \in CountedPCs : Cardinality(TasksAt(pc, labels)) = 0
  BY <1>2, FS_EmptySet
<1>4. QED
  BY <1>1, <1>3, PyWorkerAssumption DEF PyInit, PyExact, PyCounts, CountedPCs

(***************************************************************************)
(* A step of Run: one task goes to its next label, in RunExits a second    *)
(* one from "waiting" back to "semaphore", and the numbers change with     *)
(* them.  RunExits gives two permits back for one, and one task has ended. *)
(***************************************************************************)
LEMMA RunKeepsCounts ==
  ASSUME PyExact, NEW t \in Task, Run(t) \/ RunRaises(t)
  PROVE  PyCounts(pc', num_queued_tasks', num_running_tasks', permits')
<1> USE PyWorkerAssumption
<1> DEFINE Count(p, labels) == Cardinality(TasksAt(p, labels))
<1>1. /\ pc \in [Call -> PCs] /\ t \in Call
      /\ PyCounts(pc, num_queued_tasks, num_running_tasks, permits)
  BY DEF PyExact, PyCounts, Call
<1>2. \A p, labels : Count(p, labels) \in Nat
  BY TasksAtFinite
<1>3. ASSUME NEW from \in PCs, NEW to \in PCs, Goto(t, from, to)
      PROVE  /\ pc' \in [Call -> PCs]
             /\ \A labels \in CountedPCs :
                  Count(pc', labels) = Count(pc, labels)
                                         + In(to, labels)
                                         - In(from, labels)
  <2>1. pc' \in [Call -> PCs]
    BY <1>1, <1>3 DEF Goto
  <2>2. ASSUME NEW labels \in CountedPCs
        PROVE  Count(pc', labels) = Count(pc, labels)
                                      + In(to, labels)
                                      - In(from, labels)
    <3>1. /\ pc[t] = from /\ pc'[t] = to
          /\ \A x \in Task \ {t} : pc'[x] = pc[x]
      BY <1>1, <1>3 DEF Goto, Call
    <3>2. CountMoves(pc, pc', t, labels)
      BY <3>1, TaskMoves
    <3>3. QED
      BY <3>1, <3>2 DEF CountMoves
  <2>3. QED
    BY <2>1, <2>2
<1>4. ASSUME RunExits(t)
      PROVE  /\ pc' \in [Call -> PCs]
             /\ Count(pc', QueuedPCs) = Count(pc, QueuedPCs)
             /\ Count(pc', RunningPCs) = Count(pc, RunningPCs)
             /\ Count(pc', HoldingPCs) = Count(pc, HoldingPCs) - 1
             /\ Count(pc', EndedPCs) = Count(pc, EndedPCs) + 1
  <2> DEFINE q == [pc EXCEPT ![t] = "done"]
  <2>1. pc[t] = "exit" /\ q \in [Call -> PCs]
    BY <1>1, <1>4 DEF RunExits, PCs
  <2>2. ASSUME NEW labels \in CountedPCs
        PROVE  Count(q, labels) = Count(pc, labels)
                                    + In("done", labels)
                                    - In("exit", labels)
    <3>1. q[t] = "done" /\ \A x \in Task \ {t} : q[x] = pc[x]
      BY <1>1 DEF Call
    <3> HIDE DEF q
    <3>2. CountMoves(pc, q, t, labels)
      BY <3>1, TaskMoves
    <3>3. QED
      BY <2>1, <3>1, <3>2 DEF CountMoves
  <2>3. pc' = q \/ \E w \in Waiting : pc' = [q EXCEPT ![w] = "semaphore"]
    BY <1>4 DEF RunExits, NotifyOne
  <2>4. ASSUME NEW labels \in CountedPCs
        PROVE  Count(pc', labels) = Count(q, labels)
    <3>1. CASE pc' = q
      BY <3>1
    <3>2. ASSUME NEW w \in Waiting, pc' = [q EXCEPT ![w] = "semaphore"]
          PROVE  Count(pc', labels) = Count(q, labels)
      <4>1. w \in Task /\ q[w] = "waiting"
        BY <2>1, <1>1 DEF Waiting, Call
      <4>2. Count(pc', labels) = Count(q, labels)
                                   + In("semaphore", labels)
                                   - In("waiting", labels)
        <5>1. pc'[w] = "semaphore" /\ \A x \in Task \ {w} : pc'[x] = q[x]
          BY <2>1, <3>2, <4>1 DEF Call
        <5> HIDE DEF q
        <5>2. CountMoves(q, pc', w, labels)
          BY <4>1, <5>1, TaskMoves
        <5>3. QED
          BY <4>1, <5>1, <5>2 DEF CountMoves
      <4>3. "semaphore" \in labels <=> "waiting" \in labels
        BY DEF CountedPCs, QueuedPCs, RunningPCs, HoldingPCs, EndedPCs
      <4>4. Count(q, labels) \in Nat
        BY <1>2
      <4>5. QED
        BY <4>2, <4>3, <4>4 DEF In
    <3>3. QED
      BY <2>3, <3>1, <3>2
  <2>5. pc' \in [Call -> PCs]
    BY <2>1, <2>3 DEF Waiting, PCs
  <2>6. /\ "done" \in EndedPCs /\ "done" \notin QueuedPCs \cup RunningPCs \cup HoldingPCs
        /\ "exit" \in HoldingPCs /\ "exit" \notin QueuedPCs \cup RunningPCs \cup EndedPCs
    BY DEF QueuedPCs, RunningPCs, HoldingPCs, EndedPCs
  <2> HIDE DEF Count, q
  <2>7. \A labels \in CountedPCs :
          /\ Count(pc, labels) \in Nat
          /\ Count(pc', labels) = Count(pc, labels)
                                    + In("done", labels)
                                    - In("exit", labels)
    BY <1>2, <2>2, <2>4
  <2>8. /\ QueuedPCs \in CountedPCs /\ RunningPCs \in CountedPCs
        /\ HoldingPCs \in CountedPCs /\ EndedPCs \in CountedPCs
    BY DEF CountedPCs
  <2>9. /\ In("done", EndedPCs) = 1 /\ In("exit", EndedPCs) = 0
        /\ In("done", HoldingPCs) = 0 /\ In("exit", HoldingPCs) = 1
        /\ In("done", RunningPCs) = 0 /\ In("exit", RunningPCs) = 0
        /\ In("done", QueuedPCs) = 0 /\ In("exit", QueuedPCs) = 0
    BY <2>6 DEF In
  <2>10. QED
    BY <2>5, <2>7, <2>8, <2>9
<1>5. RunStarts(t) => Goto(t, "new", "blocked") \/ Goto(t, "new", "semaphore")
  BY DEF RunStarts
<1>6. /\ RunEnters(t) => Goto(t, "semaphore", "admitted")
      /\ RunWaits(t) => Goto(t, "semaphore", "waiting")
      /\ RunCounts(t) => Goto(t, "admitted", "running")
      /\ RunRaises(t) => Goto(t, "running", "finally")
      /\ RunStores(t) => Goto(t, "store", "finally")
      /\ RunFinally(t) => Goto(t, "finally", "exit")
  BY DEF RunEnters, RunWaits, RunCounts, RunRaises, RunStores, RunFinally
<1>7. RunReturns(t) => Goto(t, "running", "store") \/ Goto(t, "running", "stuck")
  BY DEF RunReturns
<1> HIDE DEF Count
<1> USE DEF PyCounts, CountedPCs, PCs
<1>8. CASE RunStarts(t)
  <2>1. CASE Goto(t, "new", "blocked")
    BY <1>1, <1>2, <1>3, <1>8, <2>1
       DEF Count, In, RunStarts, Goto, QueuedPCs, RunningPCs, HoldingPCs, EndedPCs
  <2>2. CASE Goto(t, "new", "semaphore")
    BY <1>1, <1>2, <1>3, <1>8, <2>2
       DEF Count, In, RunStarts, Goto, QueuedPCs, RunningPCs, HoldingPCs, EndedPCs
  <2>3. QED
    BY <1>5, <1>8, <2>1, <2>2
<1>9. CASE RunEnters(t)
  BY <1>1, <1>2, <1>3, <1>6, <1>9
     DEF Count, In, RunEnters, SemaphoreEnter, QueuedPCs, RunningPCs, HoldingPCs,
         EndedPCs
<1>10. CASE RunWaits(t)
  BY <1>1, <1>2, <1>3, <1>6, <1>10
     DEF Count, In, RunWaits, SemaphoreWait, QueuedPCs, RunningPCs, HoldingPCs, EndedPCs
<1>11. CASE RunCounts(t)
  BY <1>1, <1>2, <1>3, <1>6, <1>11
     DEF Count, In, RunCounts, QueuedPCs, RunningPCs, HoldingPCs, EndedPCs
<1>12. CASE RunRaises(t)
  BY <1>1, <1>2, <1>3, <1>6, <1>12
     DEF Count, In, RunRaises, QueuedPCs, RunningPCs, HoldingPCs, EndedPCs
<1>13. CASE RunReturns(t)
  BY <1>1, <1>2, <1>3, <1>7, <1>13
     DEF Count, In, RunReturns, QueuedPCs, RunningPCs, HoldingPCs, EndedPCs
<1>14. CASE RunStores(t)
  BY <1>1, <1>2, <1>3, <1>6, <1>14
     DEF Count, In, RunStores, QueuedPCs, RunningPCs, HoldingPCs, EndedPCs
<1>15. CASE RunFinally(t)
  BY <1>1, <1>2, <1>3, <1>6, <1>15
     DEF Count, In, RunFinally, QueuedPCs, RunningPCs, HoldingPCs, EndedPCs
<1>16. CASE RunExits(t)
  BY <1>1, <1>2, <1>4, <1>16 DEF Count, RunExits, SemaphoreExit
<1>17. QED
  BY <1>8, <1>9, <1>10, <1>11, <1>12, <1>13, <1>14, <1>15, <1>16 DEF Run

(* A WorkerStatus call is no task, and leaves the tasks where they are. *)
LEMMA StatusKeepsCounts ==
  ASSUME PyExact, NEW s \in Status, WorkerStatus(s)
  PROVE  PyCounts(pc', num_queued_tasks', num_running_tasks', permits')
<1>1. pc \in [Call -> PCs] /\ s \notin Task
  BY PyWorkerAssumption DEF PyExact, PyCounts
<1>2. pc' \in [Call -> PCs] /\ \A t \in Task : pc'[t] = pc[t]
  BY <1>1 DEF WorkerStatus, Goto, Call, PCs
<1>3. \A labels : TasksAt(pc', labels) = TasksAt(pc, labels)
  BY <1>2 DEF TasksAt
<1>4. QED
  BY <1>2, <1>3 DEF PyExact, PyCounts, WorkerStatus

LEMMA PyNextExact == PyExact /\ [PyNext]_pvars => PyExact'
<1> SUFFICES ASSUME PyExact, [PyNext]_pvars PROVE PyExact'
  OBVIOUS
<1>1. ASSUME NEW t \in Task, Run(t) \/ RunRaises(t) PROVE PyExact'
  <2>1. alive' \in BOOLEAN /\ killed' \in BOOLEAN /\ stored' \subseteq Task
    BY <1>1 DEF PyExact, Run, RunRaises, RunStarts, RunEnters, RunWaits, RunCounts,
                RunReturns, RunStores, RunFinally, RunExits
  <2>2. QED
    BY <1>1, <2>1, RunKeepsCounts DEF PyExact
<1>2. ASSUME NEW s \in Status, WorkerStatus(s) PROVE PyExact'
  <2>1. alive' \in BOOLEAN /\ killed' \in BOOLEAN /\ stored' \subseteq Task
    BY <1>2 DEF PyExact, WorkerStatus
  <2>2. QED
    BY <1>2, <2>1, StatusKeepsCounts DEF PyExact
<1>3. CASE KillServer \/ ReviveServer
  BY <1>3 DEF KillServer, ReviveServer, PyExact
<1>4. CASE UNCHANGED pvars
  BY <1>4 DEF pvars, PyExact
<1>5. QED
  BY <1>1, <1>2, <1>3, <1>4 DEF PyNext

-----------------------------------------------------------------------------
(* The inductive invariant of the worker holds. *)
THEOREM PyInvariance == PySpec => []PyInv
BY PyInitExact, PyNextExact, PyExactIsInv, PTL DEF PySpec

(* Calls, permits and counters of the Python worker keep their types. *)
THEOREM PyTypeCorrect == PySpec => []PyTypeOK
<1>1. PyInv => PyTypeOK
  BY DEF PyInv
<1>2. QED
  BY <1>1, PyInvariance, PTL

(***************************************************************************)
(* The counters that WorkerStatus reports are the numbers of tasks that    *)
(* wait and that run; a task that block_forever keeps counts as running.   *)
(***************************************************************************)
THEOREM PyStatusExact == PySpec => []PyStatusIsExact
<1>1. PyInv => PyStatusIsExact
  BY DEF PyInv
<1>2. QED
  BY <1>1, PyInvariance, PTL

(***************************************************************************)
(* The two releases of DebugSemaphore make the limit grow by exactly one   *)
(* with every task that ends, and no permit gets lost.                     *)
(***************************************************************************)
THEOREM PermitsGrow == PySpec => []PermitsAreAccounted
<1>1. PyInv => PermitsAreAccounted
  BY DEF PyInv
<1>2. QED
  BY <1>1, PyInvariance, PTL
=============================================================================
