----------------------------- MODULE PyWorker ------------------------------
(***************************************************************************)
(* The worker that the cluster deploys (pythonserver/worker.py).  gRPC     *)
(* hands every call (Run, WorkerStatus, KillServer, ReviveServer) to one   *)
(* of 10 * MAX_CONCURRENT_TASKS pool threads.  "with semaphore" admits     *)
(* tasks; a call that finds the server killed goes into block_forever and  *)
(* keeps its thread, and keeps its permit and its place in the counters if *)
(* it is a task that was running.  A function may call get on the objects  *)
(* of other tasks, and keeps its permit while it waits for them.           *)
(***************************************************************************)
EXTENDS Naturals, FiniteSets

CONSTANTS Task,                \* Run calls
          Needs,               \* Needs[t]: tasks whose objects t calls get on
          Status,              \* WorkerStatus calls
          MaxConcurrentTasks,  \* MAX_CONCURRENT_TASKS
          PoolSize             \* threads of the executor

ASSUME PyWorkerAssumption ==
  /\ IsFiniteSet(Task) /\ IsFiniteSet(Status) /\ Task \cap Status = {}
  /\ Needs \in [Task -> SUBSET Task]
  /\ MaxConcurrentTasks \in Nat \ {0}
  /\ PoolSize \in Nat \ {0}

VARIABLES pc,                  \* pc[c]: where call c is
          permits,             \* semaphore._value
          num_queued_tasks,
          num_running_tasks,
          alive,               \* self.alive
          stored,              \* tasks whose object has been stored
          killed               \* history: KillServer has been called

pvars == <<pc, permits, num_queued_tasks, num_running_tasks, alive, stored, killed>>

Call == Task \cup Status
PCs == {"new", "semaphore", "waiting", "admitted", "running", "store",
        "finally", "exit", "blocked", "stuck", "done"}

PyTypeOK ==
  /\ pc \in [Call -> PCs]
  /\ permits \in Nat
  /\ num_queued_tasks \in Nat
  /\ num_running_tasks \in Nat
  /\ alive \in BOOLEAN
  /\ stored \subseteq Task
  /\ killed \in BOOLEAN

PyInit ==
  /\ pc = [c \in Call |-> "new"]
  /\ permits = MaxConcurrentTasks
  /\ num_queued_tasks = 0
  /\ num_running_tasks = 0
  /\ alive = TRUE
  /\ stored = {}
  /\ killed = FALSE

Goto(c, from, to) == pc[c] = from /\ pc' = [pc EXCEPT ![c] = to]

(* ThreadPoolExecutor: a call runs on a thread of its own until it is done. *)
ThreadIsFree ==
  Cardinality({c \in Call : pc[c] \notin {"new", "done"}}) < PoolSize

(***************************************************************************)
(* threading.Semaphore.__enter__ is the acquire of the base class: it      *)
(* takes a permit, or waits on a condition variable while there is none.   *)
(***************************************************************************)
SemaphoreEnter == permits > 0 /\ permits' = permits - 1
SemaphoreWait == permits = 0 /\ permits' = permits

(* Mutant: the permit is not given back. *)
SemaphoreExitForgets == permits' = permits

(***************************************************************************)
(* Semaphore.__exit__ calls self.release(), which DebugSemaphore           *)
(* overrides: it adds one to _value and then calls the release of the base *)
(* class, which adds one as well and notifies one waiting thread.  (The    *)
(* interpreter switches threads at calls, not within the first addition.)  *)
(***************************************************************************)
SemaphoreExit == permits' = permits + 2
Waiting == {t \in Task : pc[t] = "waiting"}
NotifyOne(p) ==
  IF Waiting = {} THEN {p} ELSE {[p EXCEPT ![t] = "semaphore"] : t \in Waiting}

(* Mutant: a task that starts is not counted as queued. *)
RunStartsUncounted(t) ==
  /\ ThreadIsFree
  /\ \/ ~alive /\ Goto(t, "new", "blocked")
     \/ alive /\ Goto(t, "new", "semaphore")
  /\ UNCHANGED <<permits, num_queued_tasks, num_running_tasks, alive, stored, killed>>

RunStarts(t) ==
  /\ ThreadIsFree
  /\ \/ /\ ~alive
        /\ Goto(t, "new", "blocked")
        /\ UNCHANGED num_queued_tasks
     \/ /\ alive
        /\ Goto(t, "new", "semaphore")
        /\ num_queued_tasks' = num_queued_tasks + 1
  /\ UNCHANGED <<permits, num_running_tasks, alive, stored, killed>>

RunEnters(t) ==
  /\ Goto(t, "semaphore", "admitted")
  /\ SemaphoreEnter
  /\ UNCHANGED <<num_queued_tasks, num_running_tasks, alive, stored, killed>>

RunWaits(t) ==
  /\ Goto(t, "semaphore", "waiting")
  /\ SemaphoreWait
  /\ UNCHANGED <<num_queued_tasks, num_running_tasks, alive, stored, killed>>

RunCounts(t) ==
  /\ Goto(t, "admitted", "running")
  /\ num_queued_tasks' = num_queued_tasks - 1
  /\ num_running_tasks' = num_running_tasks + 1
  /\ UNCHANGED <<permits, alive, stored, killed>>

(* Mutant: an exception leaves without the finally clause. *)
RunRaisesWithoutFinally(t) ==
  /\ Goto(t, "running", "exit")
  /\ UNCHANGED <<permits, num_queued_tasks, num_running_tasks, alive, stored, killed>>

(* FetchFunc, unpickling or the function itself raises. *)
RunRaises(t) ==
  /\ Goto(t, "running", "finally")
  /\ UNCHANGED <<permits, num_queued_tasks, num_running_tasks, alive, stored, killed>>

(***************************************************************************)
(* The function has returned, so every get in it has; a killed worker      *)
(* never says so.                                                          *)
(***************************************************************************)
RunReturns(t) ==
  /\ Needs[t] \subseteq stored
  /\ \/ alive /\ Goto(t, "running", "store")
     \/ ~alive /\ Goto(t, "running", "stuck")
  /\ UNCHANGED <<permits, num_queued_tasks, num_running_tasks, alive, stored, killed>>

(* Store answers, or raises before it has stored. *)
RunStores(t) ==
  /\ Goto(t, "store", "finally")
  /\ stored' \in {stored, stored \cup {t}}
  /\ UNCHANGED <<permits, num_queued_tasks, num_running_tasks, alive, killed>>

RunFinally(t) ==
  /\ Goto(t, "finally", "exit")
  /\ num_running_tasks' = num_running_tasks - 1
  /\ UNCHANGED <<permits, num_queued_tasks, alive, stored, killed>>

RunExits(t) ==
  /\ pc[t] = "exit"
  /\ SemaphoreExit
  /\ pc' \in NotifyOne([pc EXCEPT ![t] = "done"])
  /\ UNCHANGED <<num_queued_tasks, num_running_tasks, alive, stored, killed>>

WorkerStatus(s) ==
  /\ ThreadIsFree
  /\ \/ alive /\ Goto(s, "new", "done")
     \/ ~alive /\ Goto(s, "new", "blocked")
  /\ UNCHANGED <<permits, num_queued_tasks, num_running_tasks, alive, stored, killed>>

KillServer ==
  /\ ThreadIsFree
  /\ alive' = FALSE
  /\ killed' = TRUE
  /\ UNCHANGED <<pc, permits, num_queued_tasks, num_running_tasks, stored>>

ReviveServer ==
  /\ ThreadIsFree
  /\ alive' = TRUE
  /\ UNCHANGED <<pc, permits, num_queued_tasks, num_running_tasks, stored, killed>>

Run(t) ==
  \/ RunStarts(t) \/ RunEnters(t) \/ RunWaits(t) \/ RunCounts(t)
  \/ RunReturns(t) \/ RunStores(t) \/ RunFinally(t) \/ RunExits(t)

PyNext ==
  \/ \E t \in Task : Run(t) \/ RunRaises(t)
  \/ \E s \in Status : WorkerStatus(s)
  \/ KillServer
  \/ ReviveServer

PySpec == PyInit /\ [][PyNext]_pvars

(* Threads run, functions end once their gets have, and the executor serves *)
(* its queue.  Nothing makes a function raise.                              *)
PyFairSpec ==
  /\ PySpec
  /\ \A t \in Task : WF_pvars(Run(t))
  /\ \A s \in Status : WF_pvars(WorkerStatus(s))

-----------------------------------------------------------------------------
Queued == {t \in Task : pc[t] \in {"semaphore", "waiting", "admitted"}}
Running == {t \in Task : pc[t] \in {"running", "store", "finally", "stuck"}}

(***************************************************************************)
(* What WorkerStatus reports is what the threads are doing, whether tasks  *)
(* return, raise or are cut off by a kill; stuck tasks count as running.   *)
(***************************************************************************)
PyStatusIsExact ==
  /\ num_queued_tasks = Cardinality(Queued)
  /\ num_running_tasks = Cardinality(Running)

(***************************************************************************)
(* The limit is not the one the semaphore was made with, but exactly one   *)
(* more for every task that has ended, raised or not; stuck tasks keep     *)
(* their permit, and no permit is lost.                                    *)
(***************************************************************************)
Holding == {t \in Task : pc[t] \in {"admitted", "exit"}} \cup Running
Ended == {t \in Task : pc[t] = "done"}
PermitsAreAccounted ==
  permits + Cardinality(Holding) = MaxConcurrentTasks + Cardinality(Ended)

(* Tasks inside a get, and the state in which nobody will give a permit back. *)
InGet == {t \in Task : pc[t] = "running" /\ ~(Needs[t] \subseteq stored)}
Stuck == {t \in Task : pc[t] = "stuck"}
HoldersWait == Holding # {} /\ Holding \subseteq InGet \cup Stuck
Hindered(c) == c \in InGet \/ c \in Waiting \/ ~ThreadIsFree

(***************************************************************************)
(* As long as nobody kills the worker every call is answered, although     *)
(* tasks waiting for the semaphore hold pool threads that other calls      *)
(* need.  The one exception is the deadlock of nested tasks: the tasks     *)
(* that hold permits wait, for good, for the objects of others, and the    *)
(* call is one of them, waits for the next release, or finds no thread.    *)
(* (It may wait for a release with a permit free: a release adds two and   *)
(* notifies one.)                                                          *)
(***************************************************************************)
EveryCallIsAnswered ==
  \A c \in Call : \/ <>(pc[c] = "done" \/ killed)
                  \/ <>[](HoldersWait /\ Hindered(c))

(***************************************************************************)
(* A worker that was killed and revived goes on: a task on the queue gets  *)
(* a permit and is done, or is caught by the next kill, unless the tasks   *)
(* that hold permits are stuck or wait for others for good.  While any     *)
(* holder makes progress no task sleeps for ever, although a release that  *)
(* adds two permits notifies one thread.                                   *)
(***************************************************************************)
QueueDrains ==
  \A t \in Task : \/ pc[t] \in {"semaphore", "waiting"} ~> pc[t] \in {"done", "stuck"}
                  \/ <>[]HoldersWait
=============================================================================
