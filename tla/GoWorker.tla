----------------------------- MODULE GoWorker ------------------------------
(***************************************************************************)
(* The worker of go/cmd/worker: every Run call has a goroutine, a buffered *)
(* channel of MAX_CONCURRENT_TASKS slots admits them, and two counters     *)
(* under mu feed WorkerStatus.  KillServer only clears a flag, which Run   *)
(* reads once the function has been executed: it then calls Goexit, which  *)
(* runs the deferred clean-up but never stores nor answers.  A function    *)
(* that fails ends the whole process (log.Fatalf in executeFunction).      *)
(***************************************************************************)
EXTENDS Naturals, FiniteSets

CONSTANTS Task,                \* Run calls
          MaxConcurrentTasks   \* MAX_CONCURRENT_TASKS

ASSUME WorkerAssumption ==
  /\ IsFiniteSet(Task)
  /\ MaxConcurrentTasks \in Nat \ {0}

VARIABLES pc,               \* pc[t]: where the Run of t is
          semaphore,        \* slots taken in the channel
          numQueuedTasks,
          numRunningTasks,
          alive,            \* s.alive
          outcome,          \* how Run ended: pending, stored, error, exited
          up                \* the process runs

wvars == <<pc, semaphore, numQueuedTasks, numRunningTasks, alive, outcome, up>>

PCs == {"new", "acquire", "admitted", "running", "store", "deferred",
        "release", "done"}

GoTypeOK ==
  /\ pc \in [Task -> PCs]
  /\ semaphore \in 0 .. MaxConcurrentTasks
  /\ numQueuedTasks \in Nat
  /\ numRunningTasks \in Nat
  /\ alive \in BOOLEAN
  /\ outcome \in [Task -> {"pending", "stored", "error", "exited"}]
  /\ up \in BOOLEAN

GoInit ==
  /\ pc = [t \in Task |-> "new"]
  /\ semaphore = 0
  /\ numQueuedTasks = 0
  /\ numRunningTasks = 0
  /\ alive = TRUE
  /\ outcome = [t \in Task |-> "pending"]
  /\ up = TRUE

Goto(t, from, to) == pc[t] = from /\ pc' = [pc EXCEPT ![t] = to]
Ends(t, how) == outcome' = [outcome EXCEPT ![t] = how]

(* Run is called: the task is queued. *)
Enqueue(t) ==
  /\ Goto(t, "new", "acquire")
  /\ numQueuedTasks' = numQueuedTasks + 1
  /\ UNCHANGED <<semaphore, numRunningTasks, alive, outcome, up>>

(* Mutant: one slot too many. *)
AcquireOffByOne(t) ==
  /\ semaphore <= MaxConcurrentTasks
  /\ Goto(t, "acquire", "admitted")
  /\ semaphore' = semaphore + 1
  /\ UNCHANGED <<numQueuedTasks, numRunningTasks, alive, outcome, up>>

(* semaphore <- struct{}{} blocks while the buffer is full. *)
Acquire(t) ==
  /\ semaphore < MaxConcurrentTasks
  /\ Goto(t, "acquire", "admitted")
  /\ semaphore' = semaphore + 1
  /\ UNCHANGED <<numQueuedTasks, numRunningTasks, alive, outcome, up>>

(* Mutant: a task that starts stays on the queue's count. *)
BeginRunningStillQueued(t) ==
  /\ Goto(t, "admitted", "running")
  /\ numRunningTasks' = numRunningTasks + 1
  /\ UNCHANGED <<semaphore, numQueuedTasks, alive, outcome, up>>

BeginRunning(t) ==
  /\ Goto(t, "admitted", "running")
  /\ numQueuedTasks' = numQueuedTasks - 1
  /\ numRunningTasks' = numRunningTasks + 1
  /\ UNCHANGED <<semaphore, alive, outcome, up>>

FetchFails(t) ==
  /\ Goto(t, "running", "deferred")
  /\ Ends(t, "error")
  /\ UNCHANGED <<semaphore, numQueuedTasks, numRunningTasks, alive, up>>

(* executeFunction fails: log.Fatalf. *)
ExecuteFails(t) ==
  /\ pc[t] = "running"
  /\ up' = FALSE
  /\ UNCHANGED <<pc, semaphore, numQueuedTasks, numRunningTasks, alive, outcome>>

(* Mutant: a killed worker leaves without its deferred clean-up. *)
ExecutedWithoutDefer(t) ==
  /\ \/ alive /\ Goto(t, "running", "store") /\ UNCHANGED outcome
     \/ ~alive /\ Goto(t, "running", "done") /\ Ends(t, "exited")
  /\ UNCHANGED <<semaphore, numQueuedTasks, numRunningTasks, alive, up>>

(* The function has been executed; only now is s.alive read. *)
Executed(t) ==
  /\ \/ alive /\ Goto(t, "running", "store") /\ UNCHANGED outcome
     \/ ~alive /\ Goto(t, "running", "deferred") /\ Ends(t, "exited")
  /\ UNCHANGED <<semaphore, numQueuedTasks, numRunningTasks, alive, up>>

Store(t) ==
  /\ Goto(t, "store", "deferred")
  /\ \E how \in {"stored", "error"} : Ends(t, how)
  /\ UNCHANGED <<semaphore, numQueuedTasks, numRunningTasks, alive, up>>

(* The deferred function: the counter first, then the slot. *)
EndRunning(t) ==
  /\ Goto(t, "deferred", "release")
  /\ numRunningTasks' = numRunningTasks - 1
  /\ UNCHANGED <<semaphore, numQueuedTasks, alive, outcome, up>>

Release(t) ==
  /\ Goto(t, "release", "done")
  /\ semaphore' = semaphore - 1
  /\ UNCHANGED <<numQueuedTasks, numRunningTasks, alive, outcome, up>>

KillServer ==
  /\ alive' = FALSE
  /\ UNCHANGED <<pc, semaphore, numQueuedTasks, numRunningTasks, outcome, up>>

ReviveServer ==
  /\ alive' = TRUE
  /\ UNCHANGED <<pc, semaphore, numQueuedTasks, numRunningTasks, outcome, up>>

Run(t) ==
  up /\ ( \/ Acquire(t) \/ BeginRunning(t) \/ FetchFails(t) \/ Executed(t)
          \/ Store(t) \/ EndRunning(t) \/ Release(t) )

GoNext ==
  \/ \E t \in Task : Run(t) \/ (up /\ Enqueue(t)) \/ (up /\ ExecuteFails(t))
  \/ up /\ (KillServer \/ ReviveServer)

GoSpec == GoInit /\ [][GoNext]_wvars

(***************************************************************************)
(* Goroutines run, and functions end.  Senders blocked on a channel are    *)
(* served first come first served, hence strong fairness for Acquire.      *)
(***************************************************************************)
GoFairSpec ==
  /\ GoSpec
  /\ \A t \in Task : WF_wvars(Run(t)) /\ SF_wvars(up /\ Acquire(t))

-----------------------------------------------------------------------------
Queued == {t \in Task : pc[t] \in {"acquire", "admitted"}}
Running == {t \in Task : pc[t] \in {"running", "store", "deferred"}}
Admitted == {t \in Task : pc[t] \in {"admitted", "release"}} \cup Running

(***************************************************************************)
(* WorkerStatus tells the schedulers the truth whatever way Run ends: the  *)
(* counters (unsigned in the code) are the numbers of calls that wait and  *)
(* that run, so they never pass below zero.                                *)
(***************************************************************************)
StatusIsExact ==
  /\ numQueuedTasks = Cardinality(Queued)
  /\ numRunningTasks = Cardinality(Running)

(***************************************************************************)
(* Every slot of the channel belongs to one admitted call, so that at most *)
(* MAX_CONCURRENT_TASKS run; errors, kills and Goexit included.            *)
(***************************************************************************)
SlotsBelongToTasks ==
  /\ semaphore = Cardinality(Admitted)
  /\ Cardinality(Running) <= MaxConcurrentTasks

(***************************************************************************)
(* No call is stuck: while the process is up, killed or not, a queued task *)
(* gets its slot and Run ends.                                             *)
(***************************************************************************)
EveryRunEnds ==
  \A t \in Task : pc[t] = "acquire" ~> (pc[t] = "done" \/ ~up)
=============================================================================
