----------------------------- MODULE GCSProofs -----------------------------
(***************************************************************************)
(* Proofs about GCS: the sweep and its bookkeeping leave the location half *)
(* of the server as ObjectTable describes it, and only uids whose lineage  *)
(* is known are scheduled again.                                           *)
(***************************************************************************)
EXTENDS GCS, ObjectTableProofs

(* Initially the location half is in its initial state. *)
LEMMA GCSInitTable == GCSInit => Init
BY DEF GCSInit

(***************************************************************************)
(* What a NotifyOwns call that holds the lock was told stays true until it *)
(* appends: announcements are never taken back.                            *)
(***************************************************************************)
LEMMA AnnounceableStep == Announceable /\ [GCSNext]_gvars => Announceable'
<1> SUFFICES ASSUME Announceable, [GCSNext]_gvars PROVE Announceable'
  OBVIOUS
<1>1. CASE UNCHANGED announcing /\ announced \subseteq announced'
  BY <1>1 DEF Announceable, LockIsFree
<1>2. ASSUME NEW u \in Uid, NEW n \in Node, GCSNotifyOwns(u, n, "size")
      PROVE  Announceable'
  BY <1>2 DEF GCSNotifyOwns, Announceable
<1>3. ASSUME NEW u \in Uid, NEW n \in Node, GCSNotifyOwns(u, n, "none"),
             \E m \in Node : <<u, m>> \in announced
      PROVE  Announceable'
  BY <1>3 DEF GCSNotifyOwns, Announceable, tvars
<1>4. CASE NotifyOwnsAppends \/ GCSRestart
  BY <1>4 DEF NotifyOwnsAppends, GCSRestart, Announceable, LockIsFree
<1>5. ASSUME NEW u \in Uid, RegisterLineage(u) PROVE Announceable'
  BY <1>1, <1>5 DEF RegisterLineage, tvars
<1>6. ASSUME NEW u \in Uid, NEW n \in Node, RegisterGenerating(u, n)
      PROVE  Announceable'
  BY <1>1, <1>6 DEF RegisterGenerating, tvars
<1>7. ASSUME NEW u \in Uid, NEW c \in Client, GCSRequestLocation(u, c)
      PROVE  Announceable'
  BY <1>1, <1>7 DEF GCSRequestLocation, RequestLocation, rvars
<1>8. ASSUME NEW u \in Uid, NEW c \in Client, NEW l \in Location,
             GCSsendCallback(u, c, l)
      PROVE  Announceable'
  BY <1>1, <1>8 DEF GCSsendCallback, sendCallback, rvars
<1>9. CASE GCSflushToDisk
  BY <1>1, <1>9 DEF GCSflushToDisk, flushToDisk, rvars, tvars
<1>10. CASE Sweep
  BY <1>1, <1>10 DEF Sweep, GCSRegisterLiveNodes, RegisterLiveNodes,
     CollectGenerating, CollectLocated, ReadGenerating, ReadLocations,
     LaunchSchedules, tvars
<1>11. ASSUME NEW u \in Uid, ScheduleReturns(u) PROVE Announceable'
  BY <1>1, <1>11 DEF ScheduleReturns, tvars
<1>12. CASE UNCHANGED gvars
  BY <1>1, <1>12 DEF gvars, rvars, tvars
<1>13. QED
  BY <1>2, <1>3, <1>4, <1>5, <1>6, <1>7, <1>8, <1>9, <1>10, <1>11, <1>12
  DEF GCSNext

(***************************************************************************)
(* Every step of the server is a step of ObjectTable or leaves the         *)
(* location half alone; the reads of the sweep do.                         *)
(***************************************************************************)
LEMMA GCSNextTable == Announceable /\ [GCSNext]_gvars => [Next]_tvars
<1> SUFFICES ASSUME Announceable, [GCSNext]_gvars PROVE [Next]_tvars
  OBVIOUS
<1>1. ASSUME NEW u \in Uid, RegisterLineage(u) PROVE [Next]_tvars
  BY <1>1 DEF RegisterLineage
<1>2. ASSUME NEW u \in Uid, NEW n \in Node, RegisterGenerating(u, n)
      PROVE  [Next]_tvars
  BY <1>2 DEF RegisterGenerating
<1>3. ASSUME NEW u \in Uid, NEW n \in Node, NEW size, GCSNotifyOwns(u, n, size)
      PROVE  [Next]_tvars
  BY <1>3 DEF GCSNotifyOwns
<1>4. CASE NotifyOwnsAppends
  BY <1>4 DEF NotifyOwnsAppends, Announceable, Next
<1>5. ASSUME NEW u \in Uid, NEW c \in Client, GCSRequestLocation(u, c)
      PROVE  [Next]_tvars
  BY <1>5 DEF GCSRequestLocation, Next
<1>6. ASSUME NEW u \in Uid, NEW c \in Client, NEW l \in Location,
             GCSsendCallback(u, c, l)
      PROVE  [Next]_tvars
  BY <1>6 DEF GCSsendCallback, Next
<1>7. CASE GCSflushToDisk
  BY <1>7 DEF GCSflushToDisk, Next
<1>8. CASE Sweep
  <2>1. ASSUME NEW live \in SUBSET Node, GCSRegisterLiveNodes(live)
        PROVE  [Next]_tvars
    BY <2>1 DEF GCSRegisterLiveNodes, Next
  <2>2. CASE CollectGenerating \/ CollectLocated
    BY <2>2 DEF CollectGenerating, CollectLocated
  <2>3. ASSUME NEW u \in Uid, ReadGenerating(u) PROVE [Next]_tvars
    BY <2>3 DEF ReadGenerating
  <2>4. CASE ReadLocations
    BY <2>4 DEF ReadLocations
  <2>5. CASE LaunchSchedules
    BY <2>5 DEF LaunchSchedules
  <2>6. QED
    BY <1>8, <2>1, <2>2, <2>3, <2>4, <2>5 DEF Sweep
<1>9. ASSUME NEW u \in Uid, ScheduleReturns(u) PROVE [Next]_tvars
  BY <1>9 DEF ScheduleReturns
<1>10. CASE GCSRestart
  BY <1>10 DEF GCSRestart, Next
<1>11. CASE UNCHANGED gvars
  BY <1>11 DEF gvars
<1>12. QED
  BY <1>1, <1>2, <1>3, <1>4, <1>5, <1>6, <1>7, <1>8, <1>9, <1>10, <1>11
  DEF GCSNext

(***************************************************************************)
(* The whole server implements its location half, so that everything       *)
(* proved of ObjectTable holds of the server with its unlocked sweep.      *)
(***************************************************************************)
THEOREM ServerImplementsTable == GCSSpec => Spec
<1>1. GCSInit => Announceable
  BY DEF GCSInit, Announceable, LockIsFree
<1>2. GCSSpec => []Announceable
  BY <1>1, AnnounceableStep, PTL DEF GCSSpec
<1>3. QED
  BY <1>2, GCSInitTable, GCSNextTable, PTL DEF GCSSpec, Spec

(***************************************************************************)
(* The server keeps the promise of LocationService: flushes, the sweep and *)
(* restarts included, no question is lost and no located object forgotten. *)
(***************************************************************************)
THEOREM ServerImplementsRendezvous == GCSSpec => Rendezvous
BY ServerImplementsTable, ImplementsRendezvous, PTL

(***************************************************************************)
(* In the whole server, too, nobody waits for an object that memory or the *)
(* database can locate.                                                    *)
(***************************************************************************)
THEOREM ServerLosesNoWakeup == GCSSpec => []NoStrandedWaiter
BY ServerImplementsTable, NoLostWakeup, PTL

(***************************************************************************)
(* In the whole server, too, memory and database name only nodes that      *)
(* announced the object.                                                   *)
(***************************************************************************)
THEOREM ServerHoldersAreAnnounced == GCSSpec => []StoresNameHolders
BY ServerImplementsTable, HoldersAreAnnounced, PTL

-----------------------------------------------------------------------------
(* Nobody holding the lock is a value of announcing. *)
LEMMA NobodyAnnouncesType ==
  NobodyAnnounces \in [uid : Uid \cup {NoUid}, node : Location, size : {"none", "size"}]
BY DEF NobodyAnnounces, Location

(* Initially the server knows of no uid. *)
LEMMA ServerInitInv == GCSInit => ServerInv
<1> SUFFICES ASSUME GCSInit PROVE ServerInv
  OBVIOUS
<1>1. TypeOK
  BY InitInv DEF GCSInit, Inv
<1>2. NothingInspected \in [uid : Uid \cup {NoUid}, nodes : SUBSET Node]
  BY DEF NothingInspected
<1>3. GCSTypeOK
  BY <1>1, <1>2, NobodyAnnouncesType, SweepAssumption DEF GCSTypeOK, GCSInit
<1>4. SweepHasRoom /\ KnownUids /\ Announceable
  BY DEF SweepHasRoom, KnownUids, Announceable, LockIsFree, GCSInit, Init
<1>5. QED
  BY <1>3, <1>4 DEF ServerInv

(***************************************************************************)
(* The handlers outside the sweep: a uid gets into generating or           *)
(* objectLocations only after RegisterLineage has issued it.               *)
(***************************************************************************)
LEMMA HandlersInv ==
  ASSUME ServerInv, TypeOK', Announceable', NEW u \in Uid, u \in issued,
         swvars' = swvars, schedules' = schedules, lineage' = lineage,
         issued' = issued, restarts' = restarts,
         announcing' \in [uid : Uid \cup {NoUid}, node : Location,
                          size : {"none", "size"}],
         LockIsFree' \/ announcing' = announcing \/ announcing'.uid = u,
         DOMAIN generating' \subseteq DOMAIN generating \cup {u},
         \A x \in DOMAIN generating' : generating'[x] \in Node,
         DOMAIN objectLocations' \subseteq DOMAIN objectLocations \cup {u}
  PROVE  ServerInv'
<1>1. GCSTypeOK'
  BY DEF ServerInv, GCSTypeOK, swvars
<1>2. SweepHasRoom'
  BY DEF ServerInv, SweepHasRoom, swvars
<1>3. KnownUids'
  BY DEF ServerInv, KnownUids, LockIsFree, swvars
<1>4. QED
  BY <1>1, <1>2, <1>3 DEF ServerInv

(***************************************************************************)
(* The sweep: it takes its uids from generating and objectLocations and    *)
(* hands them on, to the inspection, the list and the Schedule calls.      *)
(***************************************************************************)
LEMMA SweepInv ==
  ASSUME ServerInv, TypeOK', Announceable', Sweep
  PROVE  ServerInv'
<1> USE DEF ServerInv, LockIsFree
<1>1. ASSUME NEW live \in SUBSET Node, GCSRegisterLiveNodes(live)
      PROVE  ServerInv'
  BY <1>1 DEF GCSRegisterLiveNodes, RegisterLiveNodes, GCSTypeOK, SweepHasRoom,
              KnownUids
<1>2. CASE CollectGenerating \/ CollectLocated
  <2>1. GCSTypeOK'
    BY <1>2 DEF CollectGenerating, CollectLocated, GCSTypeOK, TypeOK
  <2>2. SweepHasRoom'
    BY <1>2 DEF CollectGenerating, CollectLocated, SweepHasRoom
  <2>3. KnownUids'
    BY <1>2 DEF CollectGenerating, CollectLocated, KnownUids, tvars
  <2>4. QED
    BY <2>1, <2>2, <2>3
<1>3. ASSUME NEW u \in Uid, ReadGenerating(u) PROVE ServerInv'
  <2>1. /\ inspected'.uid = u
        /\ inspected' \in [uid : Uid \cup {NoUid}, nodes : SUBSET Node]
    BY <1>3 DEF ReadGenerating, GCSTypeOK
  <2>2. GCSTypeOK'
    BY <1>3, <2>1 DEF ReadGenerating, GCSTypeOK
  <2>3. SweepHasRoom'
    BY <1>3 DEF ReadGenerating, SweepHasRoom
  <2>4. KnownUids'
    BY <1>3, <2>1 DEF ReadGenerating, KnownUids, tvars
  <2>5. QED
    BY <2>2, <2>3, <2>4
<1>4. CASE ReadLocations
  <2>1. inspected.uid \in issued /\ issued \subseteq Uid
    BY <1>4 DEF ReadLocations, KnownUids, GCSTypeOK
  <2>2. NothingInspected \in [uid : Uid \cup {NoUid}, nodes : SUBSET Node]
    BY DEF NothingInspected
  <2>3. regenerateList' \subseteq regenerateList \cup {inspected.uid}
    BY <1>4 DEF ReadLocations
  <2>4. GCSTypeOK'
    BY <1>4, <2>1, <2>2, <2>3 DEF ReadLocations, GCSTypeOK
  <2>5. SweepHasRoom'
    BY <1>4 DEF ReadLocations, SweepHasRoom
  <2>6. KnownUids'
    BY <1>4, <2>1, <2>3 DEF ReadLocations, KnownUids, tvars
  <2>7. QED
    BY <2>4, <2>5, <2>6
<1>5. CASE LaunchSchedules
  <2>1. \A u \in Uid : /\ schedules[u] \in 0 .. MaxSchedules
                       /\ schedules[u] < MaxSchedules
    BY <1>5 DEF LaunchSchedules, SweepHasRoom, GCSTypeOK
  <2>2. schedules' \in [Uid -> 0 .. MaxSchedules]
    BY <1>5, <2>1, SweepAssumption DEF LaunchSchedules
  <2>3. \A u \in Uid : schedules'[u] > 0 => u \in issued
    BY <1>5, <2>1 DEF LaunchSchedules, KnownUids
  <2>4. GCSTypeOK'
    BY <1>5, <2>2 DEF LaunchSchedules, GCSTypeOK
  <2>5. SweepHasRoom'
    BY <1>5 DEF LaunchSchedules, SweepHasRoom
  <2>6. KnownUids'
    BY <1>5, <2>3 DEF LaunchSchedules, KnownUids, tvars
  <2>7. QED
    BY <2>4, <2>5, <2>6
<1>6. QED
  BY <1>1, <1>2, <1>3, <1>4, <1>5 DEF Sweep

(* Every step of the server preserves the inductive invariant. *)
LEMMA ServerNextInv ==
  ASSUME ServerInv, TypeOK', [GCSNext]_gvars
  PROVE  ServerInv'
<1> DEFINE Calls == [uid : Uid \cup {NoUid}, node : Location, size : {"none", "size"}]
<1>a. Announceable'
  BY AnnounceableStep DEF ServerInv
<1>b. announcing \in Calls
  BY DEF ServerInv, GCSTypeOK
<1>1. ASSUME NEW u \in Uid, RegisterLineage(u) PROVE ServerInv'
  <2>1. GCSTypeOK'
    BY <1>1 DEF RegisterLineage, ServerInv, GCSTypeOK, swvars
  <2>2. SweepHasRoom'
    BY <1>1 DEF RegisterLineage, ServerInv, SweepHasRoom, swvars
  <2>3. KnownUids'
    BY <1>1 DEF RegisterLineage, ServerInv, KnownUids, LockIsFree, swvars, tvars
  <2>4. QED
    BY <1>a, <2>1, <2>2, <2>3 DEF ServerInv
<1>2. ASSUME NEW u \in Uid, NEW n \in Node, RegisterGenerating(u, n)
      PROVE  ServerInv'
  <2>1. /\ DOMAIN generating' = DOMAIN generating \cup {u}
        /\ \A x \in DOMAIN generating' : generating'[x] \in Node
    BY <1>2 DEF RegisterGenerating, Put, ServerInv, GCSTypeOK
  <2>2. QED
    BY <1>a, <1>b, <1>2, <2>1, HandlersInv DEF RegisterGenerating, tvars, swvars
<1>3. ASSUME NEW u \in Uid, NEW n \in Node, NEW size \in {"none", "size"},
             GCSNotifyOwns(u, n, size)
      PROVE  ServerInv'
  <2>1. /\ DOMAIN generating' \subseteq DOMAIN generating
        /\ \A x \in DOMAIN generating' : generating'[x] \in Node
    BY <1>3 DEF GCSNotifyOwns, Without, ServerInv, GCSTypeOK
  <2>2. announcing' \in Calls /\ announcing'.uid = u
    BY <1>3 DEF GCSNotifyOwns, Location
  <2>3. QED
    BY <1>a, <1>3, <2>1, <2>2, HandlersInv DEF GCSNotifyOwns, tvars, swvars
<1>12. CASE NotifyOwnsAppends
  <2>1. PICK u \in Uid : u = announcing.uid /\ u \in issued
    BY <1>12 DEF NotifyOwnsAppends, ServerInv, KnownUids, Announceable
  <2>2. DOMAIN objectLocations' = DOMAIN objectLocations \cup {u}
    BY <1>12, <2>1, DomainOfPut DEF NotifyOwnsAppends, NotifyOwns
  <2>3. announcing' \in Calls /\ LockIsFree'
    BY <1>12, NobodyAnnouncesType DEF NotifyOwnsAppends, LockIsFree
  <2>4. \A x \in DOMAIN generating' : generating'[x] \in Node
    BY <1>12 DEF NotifyOwnsAppends, ServerInv, GCSTypeOK
  <2>5. QED
    BY <1>a, <1>12, <2>1, <2>2, <2>3, <2>4, HandlersInv
    DEF NotifyOwnsAppends, swvars
<1>4. ASSUME NEW u \in Uid, NEW c \in Client, GCSRequestLocation(u, c)
      PROVE  ServerInv'
  <2>1. DOMAIN objectLocations' = DOMAIN objectLocations \cup {u}
    BY <1>4, DomainOfPut DEF GCSRequestLocation, RequestLocation
  <2>2. \A x \in DOMAIN generating' : generating'[x] \in Node
    BY <1>4 DEF GCSRequestLocation, rvars, ServerInv, GCSTypeOK
  <2>3. QED
    BY <1>a, <1>b, <1>4, <2>1, <2>2, HandlersInv DEF GCSRequestLocation, rvars, swvars
<1>5. ASSUME DOMAIN objectLocations' \subseteq DOMAIN objectLocations,
             UNCHANGED rvars
      PROVE  ServerInv'
  <2>1. GCSTypeOK'
    BY <1>5 DEF rvars, ServerInv, GCSTypeOK
  <2>2. SweepHasRoom'
    BY <1>5 DEF rvars, ServerInv, SweepHasRoom
  <2>3. KnownUids'
    BY <1>5 DEF rvars, ServerInv, KnownUids, LockIsFree
  <2>4. QED
    BY <1>a, <2>1, <2>2, <2>3 DEF ServerInv
<1>6. ASSUME NEW u \in Uid, NEW c \in Client, NEW l \in Location,
             GCSsendCallback(u, c, l)
      PROVE  ServerInv'
  BY <1>5, <1>6 DEF GCSsendCallback, sendCallback
<1>7. CASE GCSflushToDisk
  BY <1>5, <1>7 DEF GCSflushToDisk, flushToDisk, tvars
<1>8. CASE Sweep
  BY <1>a, <1>8, SweepInv
<1>9. ASSUME NEW u \in Uid, ScheduleReturns(u) PROVE ServerInv'
  <2>1. /\ schedules' \in [Uid -> 0 .. MaxSchedules]
        /\ \A x \in Uid : schedules'[x] <= schedules[x]
    BY <1>9, SweepAssumption DEF ScheduleReturns, ServerInv, GCSTypeOK
  <2>2. GCSTypeOK'
    BY <1>9, <2>1 DEF ScheduleReturns, ServerInv, GCSTypeOK, swvars
  <2>3. \A x \in Uid : schedules[x] \in Nat /\ schedules'[x] \in Nat
    BY <2>1, SweepAssumption DEF ServerInv, GCSTypeOK
  <2>4. SweepHasRoom'
    BY <1>9, <2>1, <2>3, SweepAssumption
    DEF ScheduleReturns, ServerInv, SweepHasRoom, swvars
  <2>5. \A x \in Uid : schedules'[x] > 0 => x \in issued
    BY <2>1, <2>3 DEF ServerInv, KnownUids
  <2>6. KnownUids'
    BY <1>9, <2>5 DEF ScheduleReturns, ServerInv, KnownUids, LockIsFree, swvars, tvars
  <2>7. QED
    BY <1>a, <2>2, <2>4, <2>6 DEF ServerInv
<1>10. CASE GCSRestart
  <2>1. NothingInspected \in [uid : Uid \cup {NoUid}, nodes : SUBSET Node]
    BY DEF NothingInspected
  <2>2. restarts' \in 0 .. MaxRestarts /\ restarts' # 0
    BY <1>10, SweepAssumption DEF GCSRestart, ServerInv, GCSTypeOK
  <2>3. GCSTypeOK'
    BY <1>10, <2>1, <2>2, NobodyAnnouncesType, SweepAssumption DEF GCSRestart, ServerInv, GCSTypeOK
  <2>4. SweepHasRoom' /\ KnownUids'
    BY <1>10, <2>2 DEF GCSRestart, Restart, SweepHasRoom, KnownUids, LockIsFree
  <2>5. QED
    BY <1>a, <2>3, <2>4 DEF ServerInv
<1>11. CASE UNCHANGED gvars
  BY <1>5, <1>11 DEF gvars, tvars
<1>13. QED
  BY <1>1, <1>2, <1>3, <1>4, <1>6, <1>7, <1>8, <1>9, <1>10, <1>11,
     <1>12
  DEF GCSNext

(* Whatever the server does but restart, the lineage stays with the uids. *)
LEMMA LineageStep == LineageIsKept /\ ServerInv /\ [GCSNext]_gvars => LineageIsKept'
<1> SUFFICES ASSUME LineageIsKept, ServerInv, [GCSNext]_gvars PROVE LineageIsKept'
  OBVIOUS
<1> USE DEF LineageIsKept
<1>1. ASSUME NEW u \in Uid, RegisterLineage(u) PROVE LineageIsKept'
  BY <1>1 DEF RegisterLineage
<1>2. CASE UNCHANGED <<lineage, issued, restarts>>
  BY <1>2
<1>3. CASE GCSRestart
  BY <1>3 DEF GCSRestart, ServerInv, GCSTypeOK
<1>4. CASE Sweep
  BY <1>2, <1>4 DEF Sweep, GCSRegisterLiveNodes, CollectGenerating,
                    CollectLocated, ReadGenerating, ReadLocations, LaunchSchedules
<1>5. QED
  BY <1>1, <1>2, <1>3, <1>4 DEF GCSNext, RegisterGenerating, GCSNotifyOwns,
     NotifyOwnsAppends, GCSRequestLocation, GCSsendCallback, GCSflushToDisk, ScheduleReturns,
     gvars, rvars

(* The inductive invariant of the server holds. *)
THEOREM GCSInvariance == GCSSpec => []GCSInv
<1>1. GCSSpec => []Inv
  BY ServerImplementsTable, Invariance, PTL
<1>2. Inv => TypeOK
  BY DEF Inv
<1>3. GCSInit => GCSInv
  BY ServerInitInv DEF GCSInv, LineageIsKept, GCSInit
<1>4. GCSInv /\ TypeOK' /\ [GCSNext]_gvars => GCSInv'
  BY ServerNextInv, LineageStep DEF GCSInv
<1>5. QED
  BY <1>1, <1>2, <1>3, <1>4, PTL DEF GCSSpec

(* The maps, the sweep's progress and the bounded counters keep their types. *)
THEOREM GCSTypeCorrect == GCSSpec => []GCSTypeOK
<1>1. GCSInv => GCSTypeOK
  BY DEF GCSInv, ServerInv
<1>2. QED
  BY <1>1, GCSInvariance, PTL

(***************************************************************************)
(* As long as the server has not been restarted, RegisterLiveNodes only    *)
(* schedules tasks whose lineage it has, whatever its unlocked reads see.  *)
(***************************************************************************)
THEOREM LineageIsKnown == GCSSpec => []RegeneratesFromLineage
<1>1. GCSInv => RegeneratesFromLineage
  BY DEF GCSInv, ServerInv, KnownUids, LineageIsKept, RegeneratesFromLineage
<1>2. QED
  BY <1>1, GCSInvariance, PTL
=============================================================================
