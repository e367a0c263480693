-------------------------------- MODULE GCS --------------------------------
(***************************************************************************)
(* The whole GCS object table server: the locations of ObjectTable plus    *)
(* what it keeps to regenerate lost objects.  Local schedulers register    *)
(* the lineage of every uid they hand out, schedulers register the node    *)
(* that is generating it, and the global scheduler reports the live nodes  *)
(* every 100 ms; RegisterLiveNodes then sweeps all uids it finds in memory *)
(* and asks the global scheduler to run those with no live node again.     *)
(*                                                                         *)
(* RegisterLiveNodes and RegisterGenerating take no lock.  The sweep is    *)
(* therefore split at every read of a shared map, and the handlers of      *)
(* ObjectTable run in between.  NotifyOwns, which holds s.mu, is split     *)
(* too: the sweep can see that the uid has left generating and is not yet  *)
(* in objectLocations.  (The Go runtime may also abort the process when it *)
(* detects an unsynchronised access to a map: that outcome is Restart.)    *)
(* The global scheduler waits for one RegisterLiveNodes call before it     *)
(* sends the next, so there is one sweep at a time.                        *)
(***************************************************************************)
EXTENDS ObjectTable

CONSTANTS NoUid,         \* "no uid is being inspected"
          MaxSchedules,  \* bound: Schedule calls running for one uid
          MaxRestarts    \* bound: restarts of the server

ASSUME SweepAssumption ==
  /\ NoUid \notin Uid
  /\ MaxSchedules \in Nat \ {0}
  /\ MaxRestarts \in Nat

VARIABLES lineage,        \* uids whose task the server has recorded
          generating,     \* map uid -> node registered as generating it
          announcing,     \* the NotifyOwns call that holds s.mu
          sweep,          \* where RegisterLiveNodes is
          allUids,        \* uids the sweep has still to look at
          inspected,      \* [uid, nodes]: getNodes between its two reads
          regenerateList, \* uids the sweep found dead
          schedules,      \* schedules[u]: running Schedule(lineage[u]) calls
          issued,         \* history: uids handed out by local schedulers
          restarts        \* history: how often the server was restarted

rvars == <<lineage, generating, announcing, sweep, allUids, inspected,
           regenerateList, schedules, issued, restarts>>
gvars == <<tvars, rvars>>
swvars == <<sweep, allUids, inspected, regenerateList>>

NothingInspected == [uid |-> NoUid, nodes |-> {}]
NobodyAnnounces == [uid |-> NoUid, node |-> ZeroNode, size |-> "none"]
LockIsFree == announcing = NobodyAnnounces
Without(m, k) == [x \in DOMAIN m \ {k} |-> m[x]]

GCSTypeOK ==
  /\ TypeOK
  /\ lineage \subseteq Uid
  /\ DOMAIN generating \subseteq Uid
  /\ \A u \in DOMAIN generating : generating[u] \in Node
  /\ announcing \in [uid : Uid \cup {NoUid}, node : Location, size : {"none", "size"}]
  /\ sweep \in {"idle", "generating", "locations", "check"}
  /\ allUids \subseteq Uid
  /\ inspected \in [uid : Uid \cup {NoUid}, nodes : SUBSET Node]
  /\ regenerateList \subseteq Uid
  /\ schedules \in [Uid -> 0 .. MaxSchedules]
  /\ issued \subseteq Uid
  /\ restarts \in 0 .. MaxRestarts

GCSInit ==
  /\ Init
  /\ lineage = {}
  /\ generating = [u \in {} |-> ZeroNode]
  /\ announcing = NobodyAnnounces
  /\ sweep = "idle"
  /\ allUids = {}
  /\ inspected = NothingInspected
  /\ regenerateList = {}
  /\ schedules = [u \in Uid |-> 0]
  /\ issued = {}
  /\ restarts = 0

(* Mutant: the duplicate check is the wrong way round. *)
RegisterLineageInverted(u) ==
  /\ u \notin issued
  /\ issued' = issued \cup {u}
  /\ UNCHANGED <<tvars, lineage, generating, announcing, swvars, schedules,
                 restarts>>

(***************************************************************************)
(* RegisterLineage, called by a local scheduler before it hands out u.     *)
(* Uids are drawn at random from 63 bits, so each is registered once; a    *)
(* second registration would change nothing and be answered with an error. *)
(* Every other call about u comes after this one.                          *)
(***************************************************************************)
RegisterLineage(u) ==
  /\ u \notin issued
  /\ lineage' = lineage \cup {u}
  /\ issued' = issued \cup {u}
  /\ UNCHANGED <<tvars, generating, announcing, swvars, schedules, restarts>>

(* RegisterGenerating: the last registration wins. *)
RegisterGenerating(u, n) ==
  /\ u \in issued
  /\ generating' = Put(generating, u, n)
  /\ UNCHANGED <<tvars, lineage, announcing, swvars, schedules, issued, restarts>>

(***************************************************************************)
(* NotifyOwns: the object exists, nobody is generating it any more; then,  *)
(* still under the lock, all that ObjectTable says of it.                  *)
(***************************************************************************)
GCSNotifyOwns(u, n, size) ==
  /\ u \in issued
  /\ LockIsFree
  /\ HasRoom(u, n)
  /\ generating' = Without(generating, u)
  /\ announcing' = [uid |-> u, node |-> n, size |-> size]
  /\ UNCHANGED <<tvars, lineage, swvars, schedules, issued, restarts>>

NotifyOwnsAppends ==
  /\ ~LockIsFree
  /\ NotifyOwns(announcing.uid, announcing.node, announcing.size)
  /\ announcing' = NobodyAnnounces
  /\ UNCHANGED <<lineage, generating, swvars, schedules, issued, restarts>>

GCSRequestLocation(u, c) ==
  /\ u \in issued
  /\ LockIsFree
  /\ RequestLocation(u, c)
  /\ UNCHANGED rvars

GCSsendCallback(u, c, l) == sendCallback(u, c, l) /\ UNCHANGED rvars

GCSflushToDisk == LockIsFree /\ flushToDisk /\ UNCHANGED rvars

-----------------------------------------------------------------------------
(* RegisterLiveNodes: the new set of live nodes, then the sweep. *)
GCSRegisterLiveNodes(live) ==
  /\ sweep = "idle"
  /\ \A u \in Uid : schedules[u] < MaxSchedules
  /\ RegisterLiveNodes(live)
  /\ sweep' = "generating"
  /\ UNCHANGED <<lineage, generating, announcing, allUids, inspected,
                 regenerateList, schedules, issued, restarts>>

(* Mutant: only objects that have a location are swept. *)
CollectNoGenerating ==
  /\ sweep = "generating"
  /\ sweep' = "locations"
  /\ UNCHANGED <<tvars, lineage, generating, announcing, allUids, inspected,
                 regenerateList, schedules, issued, restarts>>

(* allUids: the keys of generating, then those of objectLocations. *)
CollectGenerating ==
  /\ sweep = "generating"
  /\ sweep' = "locations"
  /\ allUids' = DOMAIN generating
  /\ UNCHANGED <<tvars, lineage, generating, announcing, inspected,
                 regenerateList, schedules, issued, restarts>>

CollectLocated ==
  /\ sweep = "locations"
  /\ sweep' = "check"
  /\ allUids' = allUids \cup DOMAIN objectLocations
  /\ UNCHANGED <<tvars, lineage, generating, announcing, inspected,
                 regenerateList, schedules, issued, restarts>>

(* getNodes, its first read: the node that is generating u. *)
ReadGenerating(u) ==
  /\ sweep = "check"
  /\ inspected = NothingInspected
  /\ u \in allUids
  /\ allUids' = allUids \ {u}
  /\ inspected' = [uid |-> u, nodes |-> IF u \in DOMAIN generating
                                        THEN {generating[u]} ELSE {}]
  /\ UNCHANGED <<tvars, lineage, generating, announcing, sweep, regenerateList,
                 schedules, issued, restarts>>

allDead(nodes) == nodes \cap liveNodes = {}

(* Mutant: the sweep also removes dead nodes from the list it looks at. *)
ReadLocationsPrunes ==
  /\ inspected # NothingInspected
  /\ regenerateList' =
       IF allDead(inspected.nodes \cup MemoryNodes(inspected.uid))
       THEN regenerateList \cup {inspected.uid} ELSE regenerateList
  /\ inspected' = NothingInspected
  /\ objectLocations' = [u \in DOMAIN objectLocations |->
       [n \in Node |-> IF u = inspected.uid /\ n \notin liveNodes THEN 0
                       ELSE objectLocations[u][n]]]
  /\ UNCHANGED <<objectSizes, waitlist, liveNodes, callbacks, database,
                 announced, lineage, generating, announcing, sweep, allUids,
                 schedules, issued, restarts>>

(* getNodes, its second read, and the verdict.  No node at all is "all dead". *)
ReadLocations ==
  /\ inspected # NothingInspected
  /\ regenerateList' =
       IF allDead(inspected.nodes \cup MemoryNodes(inspected.uid))
       THEN regenerateList \cup {inspected.uid} ELSE regenerateList
  /\ inspected' = NothingInspected
  /\ UNCHANGED <<tvars, lineage, generating, announcing, sweep, allUids,
                 schedules, issued, restarts>>

(* Mutant: the list of dead uids is not started afresh. *)
LaunchKeepsList ==
  /\ sweep = "check"
  /\ allUids = {}
  /\ inspected = NothingInspected
  /\ schedules' = [u \in Uid |->
       IF u \in regenerateList THEN schedules[u] + 2 ELSE schedules[u]]
  /\ sweep' = "idle"
  /\ UNCHANGED <<tvars, regenerateList, lineage, generating, announcing, allUids,
                 inspected, issued, restarts>>

(* One goroutine per dead uid, and the handler returns. *)
LaunchSchedules ==
  /\ sweep = "check"
  /\ allUids = {}
  /\ inspected = NothingInspected
  /\ schedules' = [u \in Uid |->
       IF u \in regenerateList THEN schedules[u] + 1 ELSE schedules[u]]
  /\ sweep' = "idle"
  /\ regenerateList' = {}
  /\ UNCHANGED <<tvars, lineage, generating, announcing, allUids, inspected,
                 issued, restarts>>

(* The Schedule call of such a goroutine ends, with or without an error. *)
ScheduleReturns(u) ==
  /\ schedules[u] > 0
  /\ schedules' = [schedules EXCEPT ![u] = @ - 1]
  /\ UNCHANGED <<tvars, lineage, generating, announcing, swvars, issued, restarts>>

(* Everything but the database file is lost. *)
GCSRestart ==
  /\ restarts < MaxRestarts
  /\ Restart
  /\ lineage' = {}
  /\ generating' = [u \in {} |-> ZeroNode]
  /\ announcing' = NobodyAnnounces
  /\ sweep' = "idle"
  /\ allUids' = {}
  /\ inspected' = NothingInspected
  /\ regenerateList' = {}
  /\ schedules' = [u \in Uid |-> 0]
  /\ restarts' = restarts + 1
  /\ UNCHANGED issued

Sweep ==
  \/ \E live \in SUBSET Node : GCSRegisterLiveNodes(live)
  \/ CollectGenerating
  \/ CollectLocated
  \/ \E u \in Uid : ReadGenerating(u)
  \/ ReadLocations
  \/ LaunchSchedules

GCSNext ==
  \/ \E u \in Uid : RegisterLineage(u)
  \/ \E u \in Uid, n \in Node : RegisterGenerating(u, n)
  \/ \E u \in Uid, n \in Node : GCSNotifyOwns(u, n, "size")
  \/ \E u \in Uid, n \in Node : /\ \E m \in Node : <<u, m>> \in announced
                                /\ GCSNotifyOwns(u, n, "none")
  \/ NotifyOwnsAppends
  \/ \E u \in Uid, c \in Client : GCSRequestLocation(u, c)
  \/ \E u \in Uid, c \in Client, l \in Location : GCSsendCallback(u, c, l)
  \/ GCSflushToDisk
  \/ Sweep
  \/ \E u \in Uid : ScheduleReturns(u)
  \/ GCSRestart

GCSSpec == GCSInit /\ [][GCSNext]_gvars

(***************************************************************************)
(* The global scheduler reports live nodes again and again, a handler that *)
(* has started runs to its end, and a Schedule call ends.                  *)
(***************************************************************************)
GCSFairSpec ==
  /\ GCSSpec
  /\ WF_gvars(Sweep)
  /\ WF_gvars(NotifyOwnsAppends)
  /\ \A u \in Uid : WF_gvars(ScheduleReturns(u))

-----------------------------------------------------------------------------
(***************************************************************************)
(* A uid the sweep wants to run again has its lineage recorded, unless a   *)
(* restart threw the lineage away: the goroutines read s.lineage[uid], and *)
(* a missing entry would send an empty task to the global scheduler.       *)
(***************************************************************************)
RegeneratesFromLineage ==
  \A u \in Uid : /\ restarts = 0
                 /\ u \in regenerateList \/ schedules[u] > 0
                 => u \in lineage

(***************************************************************************)
(* Why, and the inductive invariant of the proofs: whatever uid the server *)
(* has got hold of was handed out before, and until a restart its lineage  *)
(* is there.  While a sweep runs there is room for the calls it may start. *)
(***************************************************************************)
KnownUids ==
  /\ DOMAIN generating \cup DOMAIN objectLocations \subseteq issued
  /\ allUids \cup regenerateList \subseteq issued
  /\ ~LockIsFree => announcing.uid \in issued
  /\ inspected # NothingInspected => inspected.uid \in issued
  /\ \A u \in Uid : schedules[u] > 0 => u \in issued
LineageIsKept == restarts = 0 => issued \subseteq lineage
(* A call that holds the lock is one that NotifyOwns of ObjectTable may make. *)
Announceable ==
  ~LockIsFree => /\ announcing.uid \in Uid /\ announcing.node \in Node
                 /\ \/ announcing.size = "size"
                    \/ /\ announcing.size = "none"
                       /\ \E m \in Node : <<announcing.uid, m>> \in announced
SweepHasRoom == sweep # "idle" => \A u \in Uid : schedules[u] < MaxSchedules
ServerInv == GCSTypeOK /\ SweepHasRoom /\ KnownUids /\ Announceable
GCSInv == ServerInv /\ LineageIsKept

(* u is registered as generating on a dead node and memory has no live copy. *)
GeneratorIsDead(u) ==
  /\ u \in DOMAIN generating
  /\ allDead({generating[u]} \cup MemoryNodes(u))

(***************************************************************************)
(* "used to determine when an original creation of a uid should be         *)
(* restarted": a task whose node dies is scheduled again, by this sweep or *)
(* the next, unless it is registered elsewhere or turns up meanwhile.      *)
(***************************************************************************)
DeadTaskIsRescheduled ==
  \A u \in Uid : GeneratorIsDead(u) ~> (schedules[u] > 0 \/ ~GeneratorIsDead(u))

-----------------------------------------------------------------------------
(* What the comment of RegisterLiveNodes says, and the code does not do.   *)

(* The nodes that the server has been told have u and has not lost track of. *)
Holders(u) == MemoryNodes(u) \cup Rows(u)

(***************************************************************************)
(* "if literally everything is dead: generating AND object locations then  *)
(* reschedule": an object whose holders stay dead, and which nobody is     *)
(* generating, is scheduled again and again until that changes.            *)
(***************************************************************************)
EverythingIsDead(u) ==
  /\ Holders(u) # {}
  /\ allDead(Holders(u))
  /\ u \notin DOMAIN generating
LostObjectIsRescheduled ==
  \A u \in Uid : <>[]EverythingIsDead(u) => []<>(schedules[u] > 0)
=============================================================================
