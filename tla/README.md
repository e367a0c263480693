# babyray: TLA+ models and proofs

babyray is a small re-implementation of Ray: remote functions return futures, a
cluster of nodes runs the functions, and the results are kept in per-node object
stores that find each other's objects through a global control store (GCS). This
directory models the parts of it that are concurrent, checks them with TLC and
proves the central ones with TLAPS. Line numbers refer to the repository.

## 1. Inventory

| Component | State | Operations | Talks to |
|---|---|---|---|
| GCS object table `go/cmd/gcsobjtable` | `objectLocations` (memory), SQLite table `object_locations`, `waitlist`, `objectSizes`, `lineage`, `generating`, `liveNodes` | `NotifyOwns`, `RequestLocation`, `GetObjectLocations`, `RegisterLineage`, `RegisterGenerating`, `RegisterLiveNodes`, periodic `flushToDisk` | calls `LocationFound` on the stores and `Schedule` on the global scheduler |
| Local object store `go/cmd/localobjstore` | shared memory + `objectSizes`, `localObjectChannels` | `Store`, `Get`, `LocationFound`, `Copy`, `AvgBandwidth` | GCS, other stores |
| Go worker `go/cmd/worker` | `semaphore`, `numQueuedTasks`, `numRunningTasks`, `alive` | `Run`, `WorkerStatus`, `KillServer`, `ReviveServer` | function table, store |
| Python worker `pythonserver/worker.py` (the one the cluster deploys) | the same, on a thread pool | the same | the same |
| Local scheduler `go/cmd/localscheduler` | `alive` | `Schedule`, `SendHeartbeats` loop, kill/revive | worker, store, GCS, global scheduler |
| Global scheduler `go/cmd/globalscheduler` | `status`: node -> last heartbeat | `Schedule`, `getBestWorker`, `Heartbeat`, `LiveNodesHeartbeat` loop | workers, GCS |
| Function table `go/cmd/gcsfunctable` | `functionStore` | `RegisterFunc`, `FetchFunc` | - |
| Python client `python/babyray` | - | `remote`, `get`, `kill_node`, `revive_node` | everything |

The path of a task: the client calls `Schedule` on a local scheduler, which draws a
uid, registers its lineage with the GCS and runs the task locally or through the
global scheduler, which registers the node as generating the uid. The worker
executes the function and calls `Store`; the store announces the object with
`NotifyOwns`. A `Get` anywhere asks the GCS with `RequestLocation`, waits for the
`LocationFound` callback, copies the object and announces the copy. Heartbeats tell
the global scheduler who is alive, it tells the GCS every 100 ms, and the GCS
schedules again what was lost.

What is hard, and what makes each part correct:

- **Object table.** Locations live in memory until a flush moves them to SQLite and
  blanks the map; cache misses bring them back, and even cache "nothing there". A
  client that asks too early waits. It must never miss the announcement, flushes and
  cache misses must not lose or invent locations, a failed transaction must change
  nothing, and a restart may only forget what was not flushed.
- **Regeneration.** The sweep reads shared maps without a lock. It must find the
  tasks of dead nodes, must not run again what a live node has, and needs the
  lineage of what it runs.
- **Object store.** A `Get` and the callback meet on an unbuffered channel in a map
  without a lock. Every wake-up must reach a `Get`, and the location must hold the
  object when it is used.
- **Workers.** Tasks end by returning, by errors, by being killed. Slots and counters
  must survive all of them, and queues must drain.
- **Schedulers.** `getBestWorker` has one loop under the read lock and one without,
  over reports that nodes replace meanwhile; errors end the process. The pick must be a
  best live node, and no ordinary event may end the scheduler.
- **The whole path.** Errors of calls to the GCS are ignored everywhere. Nevertheless
  a task must not be run without the GCS being able to run it again, must not be run
  again while a live node runs it, and its object must be announced in the end, to
  clients that wait for it as well.
- **Liveness of nodes.** 400 ms without a heartbeat make a node dead. Healthy nodes
  must not be taken for dead; killed and revived ones must be noticed.

`PROJECT.json` lists the hazards line by line.

## 2. Modules

| Module | Models | Composition |
|---|---|---|
| `RayClient` | the messages of `rayclient.proto`, as sets of records | instantiated by `LocalObjStore`, `GlobalScheduler`, `Cluster` |
| `LocationService` | what the object table promises: a rendezvous of announcements and questions with durability | abstract specification |
| `ObjectTable` | locations half of the GCS object table | implements `LocationService` |
| `ObjectTableProofs` | theorems about `ObjectTable` | extends it |
| `GCS` | the whole object table server, sweep included | extends `ObjectTable` |
| `GCSProofs` | theorems about `GCS` | extends it and `ObjectTableProofs` |
| `LocalObjStore` | the object stores of all nodes, with failing calls | extends `ObjectTable` and calls its actions |
| `FunctionTable` | the GCS function table | |
| `GlobalScheduler` | `Heartbeat`, `Schedule` and `getBestWorker` | |
| `Cluster` | a task from `remote()` to its announcement: `Schedule` of both schedulers, `Run`, the sweep, faults | extends `GCS` and `FunctionTable` |
| `GoWorker`, `PyWorker` | the two workers | |
| `NodeLiveness` | heartbeat loops, time stamps, kill/revive | |
| `LocalObjStoreProofs`, `GlobalSchedulerProofs`, `GoWorkerProofs`, `PyWorkerProofs`, `NodeLivenessProofs` | theorems about these modules | each extends its module |
| `ClusterProofs` | theorems about `Cluster` | extends it and `GCSProofs` |
| `MC...` | constants and symmetry sets of the runs | |

**ObjectTable.** `NotifyOwns`, `RequestLocation` and `flushToDisk` hold `s.mu` from
beginning to end and are one action each. A `sendCallback` goroutine is counted in
`callbacks[uid][client][location]` from its start to its end. A list of node ids is
the number of occurrences of each node: its order never matters, but duplicates do
(they break the primary key of `object_locations`), and so does a key with an empty
list (it is not a missing key). `getNodeId` is `ListConsulted` (memory, else disk) and
`NodesToReturn`, which has node 0 in it (`make([]uint64, 1, 1)` has one element) and
the nodes that are *not* live, as in the code. The transaction of `db.go` is refused
when there is nothing to insert, when a list has a duplicate, or past SQLite's limit
on parameters (`SqlVariables`); then `flushToDisk` changes nothing. Calls that fail
before they change anything (SQLite unreadable, no peer) are stuttering steps.
`objectSizes` only tells "absent or 0" from "recorded"; `GetObjectLocations` reads it.
`announced` is a history variable.

**GCS** adds lineage, `generating` and the sweep of `RegisterLiveNodes`. That handler
takes no lock, so it is split: new live set (`GCSRegisterLiveNodes`), collection of
uids from one map and then from the other (`CollectGenerating`, `CollectLocated`), the
two reads of `getNodes` per uid (`ReadGenerating`, `ReadLocations`), and the goroutines
(`LaunchSchedules`, `ScheduleReturns`). `NotifyOwns` takes a uid out of `generating` and
then puts it into `objectLocations`; the lock hides that from the other handlers and not
from the sweep, so it is two steps here (`GCSNotifyOwns`, `NotifyOwnsAppends`), between
which `announcing` keeps the handlers that need the lock out (`LockIsFree`). The
global scheduler waits for one sweep before it starts the next. `RegisterLineage`
precedes every other call about a uid (`issued`), as in the local scheduler's
`Schedule`. Go may also abort the process on an unsynchronised map access; that
outcome is `GCSRestart`.

**LocalObjStore** has one step per access: look-up under the read lock, `make`,
`RequestLocation`, the second map access of the receive expression, the receive
itself, `Copy`, caching, `NotifyOwns`. Channels are named after the `Get` that made
them; `LocationFound` handlers are counted as `parked` on a channel. A send on a nil
channel never ends, so it leaves no trace but `NoSendOnNil` says it does not happen.
Calls between stores and the GCS, and between stores, may fail (`...Fails`), and the
GCS may restart; nobody notices, as in the code. `lost` records what that cost. Where
there is no shared memory left, `Store` returns the error before it has changed anything
(a stuttering step) and a caching `Get` after it has copied (`GetFails`). Two
fields of the messages that only the tests set (`Testing`, `Port`) are left out, and
so is a restart of a store.

**GlobalScheduler** takes a heartbeat to its entry (`Entry`, with the task added for a
full node), and `getBestWorker` one visited node at a time. The loop without locality
holds the read lock, so `Heartbeat` waits for it; the locality loop does not, its keys
and entries are of different moments, and the Go runtime may abort (`MapRace`). What
`GetObjectLocations` answers is any reply the table can give: some arguments missing, a
node listed twice, the size absent. Entries keep an age in ticks. All nodes report the
same bandwidth (the store's update is commented out), so times are in bytes. Every
`log.Fatalf` is `ProcessEnds`.

**FunctionTable** is a set of names, lost in a restart while the clients keep theirs.

**Cluster** has one record per goroutine that sees to a run of a task (`attempts`): the
one of the local scheduler's `Schedule`, and one for each `Schedule` of the sweep. It
steps through pick, `RegisterGenerating`, `Run`, `FetchFunc`, the function, `Store` with
`NotifyOwns`. A task with arguments and the locality flag picks as the code does: it asks
the GCS for the locations (`Locate`, `LocateFails`) and visits the nodes without a lock,
so that each is judged by its heartbeat at the time (`Skip`, `VisitPicks`), all of them
may be skipped (`VisitFails`), and a heartbeat may make the Go runtime abort
(`MapRace`). The goroutine for the client's own node uses a context that is cancelled
when its handler returns, so its `RegisterGenerating` may be lost without a fault. Faults
are: `kill_node` (the worker hangs), a container that ends (calls fail), late heartbeats
(`Misjudge`), failed calls (`RegisterLineage`, `RegisterGenerating`, `NotifyOwns`,
`GetObjectLocations`, and `Run` of a worker that is up, `RunCallFails`), restarts of GCS
and function table, a task that raises. Which live node is picked is left open here, as are queues and revived nodes: they are in
`GlobalScheduler`, the workers and `NodeLiveness`. `history` is for the properties.

**GoWorker / PyWorker** have one program counter per call. The Go worker's process
ends when a function fails (`log.Fatalf`). The Python worker's calls share a pool of
threads; `with semaphore` enters through the base class (one permit less) and leaves
through `DebugSemaphore.release` (two more, one waiting thread notified); calls that
find the server killed stay in `block_forever`. A function may call `get` on the objects
of other tasks (`Needs`) and keeps permit and thread while it waits.

**NodeLiveness** counts time in ticks of `HEARTBEAT_WAIT` = 100 ms: `Timeout` = 4. The
three calls of one iteration take at most `RpcTicks` together (an assumption about the
network, 200 ms in the runs; with 300 ms `HealthyNodeStaysLive` fails, the code gives
no better guarantee). A retry after an error waits at least `BackoffTicks`. A killed
Python worker never answers `WorkerStatus` (`StatusBlocks`), the Go worker does.

## 3. Runs

Passing:

| Run | Shows | Bounds |
|---|---|---|
| `table_stores` | `StoresNameHolders`, `EmptyListMeansNoRows`, `StaysDurable`, `ForgetsOnlyOnRestart`, `BecomesDurable` | 2 uids in one transaction, 1 node that may announce twice, so that a transaction is refused for a duplicate, and 3 parameters, so that one is refused for its length; a cached empty list meets a flush; about 19 000 states |
| `gcs_server` | `NoStrandedWaiter`, `Rendezvous` (the server implements `LocationService`), `RegeneratesFromLineage`, `DeadTaskIsRescheduled` | 1 uid (uids only meet in a transaction), 2 nodes, 2 questions pending, 1 restart; about 968 000 states |
| `store_gets` | `AnnouncedIsStored`, `StoredCanBeFound`, `SizeMissingOnlyAfterGet`, `NoSendOnNil`, `OneWakeupPerGet`, `SomeGetReturns` | a copying and a waiting `Get` of the same uid on one node, 2 nodes that store, 1 failed call or restart anywhere; all nodes or none reported live (with none, every node may be the answer); about 232 000 states |
| `global_scheduler` | `PickIsBest`, `FullNodeIsNotPreferred`, `LocalityPickIsBest`, `EveryCallIsDecided` | a call with and one without locality, 2 nodes that report being free, full, or full with a queue, an argument whose transfer outweighs one queued task and not two, a node twice in a list; about 143 000 states |
| `cluster` | `EndsOnlyAfterFault`, `RunningIsProtected`, `TaskIsAnnounced`, `WaiterIsAnswered` | 1 task with an argument, on the node it names, the client's own, or through the global scheduler, with locality at first and without in a rerun; 2 nodes, 1 rerun at a time, a client that asks once at any moment, any 1 fault at any moment, restarts included (lost registrations of a cancelled context and races are no faults and come on top); about 173 000 states. 1 SQL parameter, so that no flush commits: with flushes the run has more than a million states and takes longer than five minutes. Flushes with questions and the sweep are in `gcs_server` |
| `go_worker` | `StatusIsExact`, `SlotsBelongToTasks`, `EveryRunEnds` | 3 tasks, 2 slots |
| `py_worker` | `PyStatusIsExact`, `PermitsAreAccounted`, `EveryCallIsAnswered`, `QueueDrains` | 4 tasks, one of which needs the object of another, 1 status call, 1 permit, 4 threads: calls wait for threads, tasks for permits and for tasks; about 79 000 states |
| `liveness_go` | `HealthyNodeStaysLive`, `KilledNodeIsNoticed`, `RevivedNodeIsLive` | 1 node (nodes only share the clock), 2 failed calls |

Every module also has a type invariant (`TypeOK` of `ObjectTable` is a conjunct of
`GCSTypeOK` and `LOSTypeOK`), and every bound of a guard (`MaxCopies`, `MaxPending`,
`MaxSchedules`, `MaxRestarts`, `MaxFuncRestarts`, `MaxErrors`, `MaxFaults`) is a named
constant. Some of them say more than types: `total - bytes` of the global scheduler's
unsigned numbers never goes below zero (`GSTypeOK`), no `Get` receives from a nil channel
(`LOSTypeOK`), a heartbeat loop stays nowhere longer than its pause and its calls take
(`LivenessTypeOK`), no task is registered or run on node 0 (`ClusterTypeOK`). The runs of workers,
schedulers and cluster do not check for deadlock: the Go processes may end, the Python
pool may be full of blocked calls, and a cluster whose scheduler has ended may have
nothing left to do.

Runs that end in a counterexample, because the code does not do what a comment, a test or
a document of it says (quoted in `PROJECT.json`, "findings"):

| Run | Property | What happens |
|---|---|---|
| `gcs_lost` | `LostObjectIsRescheduled` | flushed objects are not swept |
| `store_shared` | `EveryGetReturns` | two `Get`s of one uid on one node: a callback parks on the channel that was replaced |
| `liveness_python` | `RevivedNodeIsLive` | the heartbeat loop hangs in `WorkerStatus` of the killed worker |
| `cluster_kill` | `TaskSurvivesKill` | a task runs on the client's node, its `RegisterGenerating` was cancelled with the handler's context, the node is killed: the sweep does not know the task |

More disagreements, which have no run of their own or show in what the passing properties
have to except:

- "Returns a nodeId that has object uid" (`gcsobjtable/main.go:234`) is not so: the
  slice that `getNodeId` draws its answer from has node id 0 in it
  (`make([]uint64, 1, 1)`), against the tests too (`main_test.go:106`, `:197`). No property
  says that answers name holders: `StoresNameHolders` is about what memory and
  database list, `Rendezvous` lets the service answer 0, and a `Get` that is told 0 fails to
  copy (`ZeroNode` in `AnnouncedIsStored`);
- the sweep does run again what a live node has, which the comment of `RegisterLiveNodes`
  (lines 427-429) rules out. A flush between the collection of the uids and the look at
  their locations makes a stored object look lost; and, without any fault, a task on the
  client's node whose `RegisterGenerating` was cancelled looks dead once a question has left
  an empty list under its uid. No property says otherwise; `RunningIsProtected`,
  `TaskIsAnnounced` and `WaiterIsAnswered` hold with the second kind among the behaviours of
  `cluster`, and the first of them is proved with both;
- after a flush, memory lists only the holders announced since, and the next flush
  keeps only those: `ForgetsOnlyOnRestart` is about some holder being known, not all;
- a node that announces an object twice between two flushes (a task that is run again
  on the same node does) makes this and every later flush fail on the primary key:
  `HasDuplicate` in `BecomesDurable`;
- one failed `RequestLocation` or `LocationFound` leaves a `Get` waiting for ever, one
  failed `NotifyOwns` leaves an object that nobody finds: `lost` in the properties of
  `LocalObjStore`;
- sizes stay 0 for an object that was asked for before it was stored, and locality does
  not count it: `SizeMissingOnlyAfterGet`, `SizesKnown` in `LocalityPickIsBest`;
- each finished Python task adds a permit (`PermitsAreAccounted`); with nested tasks one
  can sleep for ever although a permit is free, since a release adds two and notifies
  one (`HoldersWait`);
- a task that raises, one failed `Run` or `GetObjectLocations` and one heartbeat in the
  middle of the locality loop each end the global scheduler, and with it the detection of
  dead nodes (`EndsOnlyAfterFault`).

Fairness. `FairSpec`: the ticker goroutine flushes for ever. `GCSFairSpec`: the global
scheduler's loop sends live nodes for ever, a started handler runs on (a `NotifyOwns`
that holds the lock too), a `Schedule` call ends. `LOSFairSpec`: goroutines that can run do, in the stores and in
`sendCallback`; nobody has to store, and nothing forces a failure. `GSFairSpec`: the
goroutine of a `Schedule` call runs and the GCS answers it; nodes need not report.
`ClusterFairSpec`: goroutines run, calls and functions end, the sweep goes on, and
heartbeats, or their absence, are noticed; nobody
has to schedule, ask, fail or flush. `GoFairSpec`: goroutines run, functions end;
strong fairness for the slot, because Go serves senders blocked on a channel in
order. `PyFairSpec`: threads run, functions end once their `get`s have, the
executor serves its queue; nobody has to kill or revive, and no function has to raise. `LivenessFairSpec`: time passes, loops run, and
`kill_node` / `revive_node` make their second call after the first; nothing forces an
error, a lost heartbeat, a kill or a revival.

## 4. Proofs

`ObjectTableProofs` proves, for all sets `Uid`, `Node`, `Client` and all bounds (from
`ZeroNodeAssumption` and `BoundAssumption` only):

- `Invariance`: `Spec => []Inv`, and from it `TypeCorrect` (`TypeOK`), `NoLostWakeup`
  (`NoStrandedWaiter`), `EmptyListsAreTrue` (`EmptyListMeansNoRows`) and
  `HoldersAreAnnounced` (`StoresNameHolders`: what memory and database list; of answers
  nothing is claimed, since node 0 is among them);
- `DurableForever` (`StaysDurable`), `NeverForgets` (`ForgetsOnlyOnRestart`);
- `ImplementsRendezvous`: `Spec => Service!Spec`.

`NoStrandedWaiter` is not inductive alone: a client goes on the waitlist when
`ListConsulted` is empty, and that it is empty only if neither store has a node
follows from how memory and disk are consulted (`ConsultedFinds`). That a flush, which
deletes rows for every cached key, does not take the last row of an object needs
`EmptyListMeansNoRows`; that answers on their way are ones the service may give (an
announced node, or 0, which `LocationService` allows) needs `OnlyAnnouncedNodes`, that is
`StoresNameHolders` and the same of the nodes in answers. `Inv` is the conjunction, and `TypeOK`. Each action has a lemma
on its effect on the two stores and one that it preserves `Inv`; `StoresStep` sums up
a step as seen through `Located` and `Durable`, and the refinement follows action by
action.

`GCSProofs` proves that the whole server implements its location half
(`ServerImplementsTable`: each action of `GCS` is an action of `ObjectTable` or leaves
its variables alone), so that the theorems above hold of the server with its unlocked
sweep; three are stated again (`ServerImplementsRendezvous`, `ServerLosesNoWakeup`,
`ServerHoldersAreAnnounced`). A `NotifyOwns` that holds the lock is `Announceable`: the
table has the room for it that was there when it started. It also proves `GCSTypeCorrect` (`GCSTypeOK`) and
`LineageIsKnown` (`RegeneratesFromLineage`). The latter needs `KnownUids` and
`LineageIsKept`: a uid travels from `generating` and `objectLocations` through
`allUids`, `inspected` and `regenerateList` to a Schedule call, each hop in a step of
its own, and at every hop it must be one that was issued. The type of `schedules` needs
`SweepHasRoom`, because the room for the calls is checked when the sweep starts and used
when it ends. The assumption is `SweepAssumption`.

`LocalObjStoreProofs` takes any sets of nodes, uids and `Get`s, finite or not, and any
number of failed calls and restarts. `StoresUseTable`: the composition implements
`ObjectTable`, hence `StoresKeepRendezvous`. The invariant `StoreInv` has, besides `Inv`
of the table and the properties themselves:

- `ChannelsAreOwn`, `ChannelIsFiled`: a channel is filed under the node and uid of the
  `Get` that made it, and a `Get` that has asked has one filed, its own or a later
  `Get`'s. With it `NoSendOnNil` is inductive (`ChannelBeforeQuestion`);
- `LocationsAreAnnounced`: the location a `Get` works with came from an announcement, so
  that `AnnouncedIsStored` (`HoldersHold`) carries over from the table to a `Get` that
  uses its answer late;
- `HoldersTell`: what is being announced, or has been, is stored. `StoredCanBeFound`
  (`StoredIsReachable`) is inductive next to `Inv`; `KeysHaveSizes`: a key without a
  size has a filed channel, for `SizeMissingOnlyAfterGet` (`SizesAreKept`);
- `FinitelyMany`: of the `Get`s and goroutines about one uid only finitely many are
  under way, so that counting them makes sense. `OneWakeupPerGet` (`WakeupsBalance`)
  then is a balance of cardinalities that each action keeps: a question adds one `Get`
  and one wake-up, a callback moves a wake-up from the waitlist over `callbacks` to
  `parked`, a receive takes one of each, a failure moves one to `lost`.

`GlobalSchedulerProofs` takes finite sets of nodes and uids and any calls, replies and
sizes. `GSInv` contains the loop invariant `BestSoFar`: `best` has an entry and the
waiting time of that entry, and no visited live node beats it. It holds for the loop
under the read lock because no `Heartbeat` gets in (`PathsApart`), and for the locality
loop while it is not `disturbed`. From it follow `LockedLoopPicksBest` (`PickIsBest`),
with `FullIsCharged` (the entry of a full node counts at least one queued task)
`FullNodesComeLast` (`FullNodeIsNotPreferred`), and with the lemma `BytesAddUp`
`LocalityLoopPicksBest` (`LocalityPickIsBest`): the bytes a node has and the bytes it
lacks add up to the same sum for all nodes, so that the code's `total - bytes`, in which
`total` counts every copy, orders nodes as the bytes to fetch do. `GSTypeCorrect` shows
that this subtraction of unsigned numbers does not wrap around.

`GoWorkerProofs` and `PyWorkerProofs` take any finite set of tasks and any capacity. The
counters and the semaphore are cardinalities of sets of calls at certain program
counters (`GoInv`, `PyInv`); each action moves one call between these sets. Results:
`GoStatusExact`, `GoSlotsExact`, `PyStatusExact`, and `PermitsGrow`
(`PermitsAreAccounted`, the permit that every finished Python task adds).

`NodeLivenessProofs` takes any set of nodes and any times. `HealthyIteration` bounds the
age of a healthy node's entry by where its loop is: an age and what is left of the
current wait or call never exceed `RpcTicks + 1`. `NoFalseAlarm` (`HealthyNodeStaysLive`)
needs `RpcTicks + 1 < Timeout` and nothing else about the times. `TimerFits`, the other
part of `LivenessTypeOK`, is inductive with the types (`LivenessTypeCorrect`). With
`RpcTicks + 1 = Timeout` TLC finds a false alarm.

`ClusterProofs` takes any uids, nodes, clients, functions, homes and tasks, and any number
of faults and concurrent reruns. `ClusterUsesTable`: the
cluster implements `ObjectTable` (a `log.Fatalf` of the global scheduler ends all its
`Schedule` calls at once and a lost `RegisterLineage` issues a uid without lineage, so it
does not implement `GCS` step by step; `ServerInv`, the part of `GCSInv` that survives
both, is proved of it instead). The parts of `ClusterInv`:

- `AttemptsOK`: what each goroutine carries. Its task is the one of its uid, with a
  registered function, or the empty one, and then a lineage was lost; it is cancelled
  only if a container ended or the GCS restarted; once it has passed
  `RegisterGenerating` the task is `Protected`. This is `RunningIsProtected`
  (`RunsAreProtected`), and every `RunError` is traced to a fault with it;
- `FunctionsAreKept`, `LineageOrLost`, `NodesAreSeen`: what the function table, the GCS
  and the heartbeats still know if no fault is on record; a node that the locality loop
  has skipped stays without a recent heartbeat, unless a heartbeat raced with the loop,
  so that a loop that skipped all nodes had none to pick. With `AttemptsOK` they make
  `EndsOnlyAfterFault` inductive (`KillsDoNotEndScheduler`);
- `SlotsAreFree`: the room checked when a sweep starts is there when it launches, for
  `ClusterTypeCorrect`.

Assumptions: only the named ASSUMEs of the modules, which the runs evaluate. Sums over
nodes, copies or goroutines are written as cardinalities of sets with an element for
each unit, because the provers have facts about cardinalities and cannot do the induction
that a fold needs; TLC evaluates the same definitions.

Only model-checked: the liveness properties (`BecomesDurable`, `DeadTaskIsRescheduled`,
`SomeGetReturns`, `EveryCallIsDecided`, `TaskIsAnnounced`, `WaiterIsAnswered`, `EveryRunEnds`,
`EveryCallIsAnswered`, `QueueDrains`, `KilledNodeIsNoticed`, `RevivedNodeIsLive`), since
fairness and ENABLED are out of TLAPS's reach. Every invariant and every action property
of the passing runs has a theorem.

## 5. Not modelled

The chain conductor (not built), the AOF writer (its flag is off), configuration and
logging, benchmarks and plots. Of the generated code the messages are modelled, and of the
client stubs, which only pass calls on, that a call may return an error; the generated Go structs of
`GlobalScheduleRequest` and `ScheduleRequest` are older than the `.proto` and lack its
last fields, so these two follow the `.proto`. Of the Python client, `remote`,
`set_node`, `kill_node` and `revive_node` are modelled; pickling, the recursion of `get`
over containers and reads of shared memory are not. Left out everywhere: payload bytes,
the running averages of execution time (a number a node reports) and bandwidth (a
constant in the code). Object stores and local schedulers end only with their
container: after a crash in `Cluster` a node stays down.

## 6. Plan

Left to prove: safety halves of the liveness arguments, for instance that a parked
callback always leaves one `Get` that can receive (behind `SomeGetReturns`), that a
generating entry on a dead node stays until the sweep reads it (behind
`DeadTaskIsRescheduled`), and that a full pool of the Python worker has a call that can
go on (behind `EveryCallIsAnswered`); and an abstract specification of a task's life that
`Cluster` implements.
