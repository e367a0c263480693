--------------------------- MODULE ClusterProofs ---------------------------
(***************************************************************************)
(* Proofs about Cluster, for every set of uids, nodes, clients and         *)
(* functions, any tasks and homes, and any bounds on faults, restarts and  *)
(* Schedule calls.                                                         *)
(***************************************************************************)
EXTENDS Cluster, GCSProofs

(* What the properties remember has its type. *)
HistoryOK ==
  history \in [lost : [Calls -> SUBSET Uid], raised : SUBSET Uid,
               asked : SUBSET Uid, misjudged : Nat, blind : BOOLEAN,
               raced : BOOLEAN]
StateOK ==
  /\ FuncTypeOK /\ HistoryOK
  /\ dispatched \subseteq issued
  /\ skipped \in [Uid -> [Slots -> SUBSET Node]]
  /\ gsUp \in BOOLEAN
  /\ alive \subseteq Node /\ crashed \subseteq Node /\ seen \subseteq Node

(* The GCS could run u again, or what keeps it from that is on record. *)
Protected(u) ==
  \/ Announced(u) \/ announcing.uid = u
  \/ u \in DOMAIN generating /\ u \in lineage
  \/ \E call \in ForRerun : u \in history.lost[call]
  \/ restarts > 0

(***************************************************************************)
(* An attempt to run u carries the request of u, whose lineage and         *)
(* function are registered, or the empty one, and then the GCS has lost    *)
(* or never got a lineage.  A call is cancelled only if its caller ended,  *)
(* and from RegisterGenerating on the task is protected.                   *)
(***************************************************************************)
CallsInTask(a) ==
  a.pc \in {"register", "run", "fetch", "execute"} =>
    /\ GeneratingOf(a) \in Message!GeneratingRequest /\ a.node # ZeroNode
    /\ RunOf(a) \in Message!RunRequest
AttemptOK(u, i) ==
  LET a == attempts[u][i] IN
  /\ a \in Attempt
  /\ a = Idle <=> a.pc = "idle"
  /\ CallsInTask(a)
  /\ a.pc # "idle" =>
       \/ a.task.uid = u /\ u \in issued /\ a.task.name \in registered
       \/ a.task.uid = NoUid /\ (restarts > 0 \/ history.lost["lineage"] # {})
  /\ a.by = "cancelled" => crashed # {} \/ restarts > 0
  /\ a.pc \in {"run", "fetch", "execute"} /\ a.task.uid = u => Protected(u)
AttemptsOK ==
  /\ attempts \in [Uid -> [Slots -> Attempt]]
  /\ \A u \in Uid, i \in Slots : AttemptOK(u, i)

(* A sweep starts with a free slot for every rerun, and none is taken before. *)
SlotsAreFree ==
  sweep # "idle" =>
    \A u \in Uid : \E i \in Slots \ {0} : attempts[u][i] = Idle

(* Without a restart the lineage of a uid is there, or its call was lost. *)
LineageOrLost == restarts = 0 => issued \subseteq lineage \cup history.lost["lineage"]

(* Until it is started again the function table has every registered name. *)
FunctionsAreKept ==
  /\ funcRestarts = 0 => functionStore = registered
  /\ \A u \in issued : Task[u].name \in registered

(***************************************************************************)
(* A node that the locality loop skipped has no recent heartbeat, unless   *)
(* one came in after that; so the loop can fail only if no node has one.   *)
(***************************************************************************)
NodesAreSeen ==
  /\ seen = {} => history.blind \/ Node = {}
  /\ history.raced \/ \A u \in Uid, i \in Slots : skipped[u][i] \cap seen = {}

(* The inductive invariant of the cluster. *)
ClusterInv ==
  /\ Inv /\ ServerInv /\ StateOK /\ AttemptsOK
  /\ SlotsAreFree /\ LineageOrLost /\ FunctionsAreKept /\ NodesAreSeen
  /\ EndsOnlyAfterFault

-----------------------------------------------------------------------------
(* Which step changes what.                                                *)

(* What may happen to an attempt, but need not. *)
OddStep(u, i) == TaskRaises(u, i) \/ MapRace(u, i) \/ RunCallFails(u, i)

(* Only the faults and the heartbeats touch what is known of the nodes. *)
LEMMA NodesKinds ==
  ASSUME [ClusterNext]_clvars
  PROVE  \/ UNCHANGED <<alive, crashed, seen>>
         \/ \E n \in Node : KillNode(n) \/ CrashNode(n) \/ Notice(n) \/ Recover(n)
         \/ \E nodes \in SUBSET Node : Misjudge(nodes)
<1> DEFINE Same == UNCHANGED <<alive, crashed, seen>>
<1>1. ASSUME NEW u \in Uid, ScheduleRegisters(u) \/ ScheduleDispatches(u) \/ RerunRefused(u)
      PROVE  Same
  BY <1>1 DEF ScheduleRegisters, ScheduleDispatches, RerunRefused, Elsewhere, cvars
<1>2. ASSUME GlobalSchedulerEnds PROVE Same
  BY <1>2 DEF GlobalSchedulerEnds
<1>3. ASSUME NEW u \in Uid, NEW i \in Slots, AttemptStep(u, i) \/ OddStep(u, i)
      PROVE  Same
  BY <1>2, <1>3 DEF AttemptStep, Pick, PickFails, Locate, LocateFails, Skip,
     VisitPicks, VisitFails, Register, RunStarts, RunFetches, RunHangs, RunStores,
     RunReturns, RunFails, OddStep, TaskRaises, MapRace, RunCallFails, Elsewhere
<1>4. CASE SweepSteps
  BY <1>4 DEF SweepSteps, SendLiveNodes, SweepStep, LaunchReruns, Elsewhere, cvars
<1>5. ASSUME NEW u \in Uid, NEW c \in Client, Ask(u, c) PROVE Same
  BY <1>5 DEF Ask, Elsewhere
<1>6. CASE Announce \/ Answer \/ Flush \/ RegisterFunction \/ RestartGCS \/ RestartFunctionTable
  BY <1>6 DEF Announce, Answer, Flush, RegisterFunction, RestartGCS, RestartFunctionTable,
              Elsewhere, cvars
<1>7. CASE UNCHANGED clvars
  BY <1>7 DEF clvars, cvars
<1>8. QED
  BY <1>1, <1>3, <1>4, <1>5, <1>6, <1>7 DEF ClusterNext, OddStep

(* Only clients and restarts change the function table. *)
LEMMA FuncKinds ==
  ASSUME [ClusterNext]_clvars
  PROVE  UNCHANGED fvars \/ RegisterFunction \/ RestartFunctionTable
<1> DEFINE Same == UNCHANGED fvars
<1>1. ASSUME NEW u \in Uid, ScheduleRegisters(u) \/ ScheduleDispatches(u) \/ RerunRefused(u)
      PROVE  Same
  BY <1>1 DEF ScheduleRegisters, ScheduleDispatches, RerunRefused
<1>2. ASSUME GlobalSchedulerEnds PROVE Same
  BY <1>2 DEF GlobalSchedulerEnds
<1>3. ASSUME NEW u \in Uid, NEW i \in Slots, AttemptStep(u, i) \/ OddStep(u, i)
      PROVE  Same
  BY <1>2, <1>3 DEF AttemptStep, Pick, PickFails, Locate, LocateFails, Skip,
     VisitPicks, VisitFails, Register, RunStarts, RunFetches, RunHangs, RunStores,
     RunReturns, RunFails, OddStep, TaskRaises, MapRace, RunCallFails
<1>4. CASE SweepSteps
  BY <1>4 DEF SweepSteps, SendLiveNodes, SweepStep, LaunchReruns
<1>5. ASSUME NEW u \in Uid, NEW c \in Client, Ask(u, c) PROVE Same
  BY <1>5 DEF Ask
<1>6. CASE Announce \/ Answer \/ Flush \/ RestartGCS
  BY <1>6 DEF Announce, Answer, Flush, RestartGCS
<1>7. ASSUME NEW n \in Node, KillNode(n) \/ CrashNode(n) \/ Notice(n) \/ Recover(n)
      PROVE  Same
  BY <1>7 DEF KillNode, CrashNode, Notice, Recover, Unseen
<1>8. ASSUME NEW nodes \in SUBSET Node, Misjudge(nodes) PROVE Same
  BY <1>8 DEF Misjudge, Unseen
<1>9. CASE UNCHANGED clvars
  BY <1>9 DEF clvars
<1>10. QED
  BY <1>1, <1>3, <1>4, <1>5, <1>6, <1>7, <1>8, <1>9 DEF ClusterNext, OddStep

(* Only the locality loop, and its end, change which nodes it has skipped. *)
LoopsEnd == skipped' = [u \in Uid |-> [i \in Slots |-> {}]]
LEMMA SkippedKinds ==
  ASSUME [ClusterNext]_clvars
  PROVE  \/ UNCHANGED skipped \/ LoopsEnd
         \/ \E u \in Uid, i \in Slots : \/ VisitPicks(u, i)
                                       \/ \E n \in Node : Skip(u, i, n)
<1> DEFINE Same == UNCHANGED skipped
<1>1. ASSUME NEW u \in Uid, ScheduleRegisters(u) \/ ScheduleDispatches(u) \/ RerunRefused(u)
      PROVE  Same
  BY <1>1 DEF ScheduleRegisters, ScheduleDispatches, RerunRefused, Elsewhere, cvars
<1>2. ASSUME GlobalSchedulerEnds PROVE LoopsEnd
  BY <1>2 DEF GlobalSchedulerEnds, LoopsEnd
<1>3. ASSUME NEW u \in Uid, NEW i \in Slots, AttemptStep(u, i) \/ OddStep(u, i)
      PROVE  \/ Same \/ LoopsEnd \/ VisitPicks(u, i)
             \/ \E n \in Node : Skip(u, i, n)
  BY <1>2, <1>3 DEF AttemptStep, Pick, PickFails, Locate, LocateFails,
     VisitFails, Register, RunStarts, RunFetches, RunHangs, RunStores,
     RunReturns, RunFails, OddStep, TaskRaises, MapRace, RunCallFails, Elsewhere
<1>4. CASE SweepSteps
  BY <1>4 DEF SweepSteps, SendLiveNodes, SweepStep, LaunchReruns, Elsewhere, cvars
<1>5. ASSUME NEW u \in Uid, NEW c \in Client, Ask(u, c) PROVE Same
  BY <1>5 DEF Ask, Elsewhere
<1>6. CASE Announce \/ Answer \/ Flush \/ RegisterFunction \/ RestartGCS \/ RestartFunctionTable
  BY <1>6 DEF Announce, Answer, Flush, RegisterFunction, RestartGCS, RestartFunctionTable,
              Elsewhere, cvars
<1>7. ASSUME NEW n \in Node, KillNode(n) \/ CrashNode(n) \/ Notice(n) \/ Recover(n)
      PROVE  Same
  BY <1>7 DEF KillNode, CrashNode, Notice, Recover, Unseen
<1>8. ASSUME NEW nodes \in SUBSET Node, Misjudge(nodes) PROVE Same
  BY <1>8 DEF Misjudge, Unseen
<1>9. CASE UNCHANGED clvars
  BY <1>9 DEF clvars, cvars
<1>10. QED
  BY <1>1, <1>3, <1>4, <1>5, <1>6, <1>7, <1>8, <1>9 DEF ClusterNext, OddStep

(* How the history changes. *)
LEMMA HistoryKinds ==
  ASSUME [ClusterNext]_clvars
  PROVE  \/ UNCHANGED history
         \/ \E u \in Uid : \/ \E call \in Calls : Lost(call, u)
                           \/ Note("raised", u) \/ Note("asked", u)
         \/ history' = [history EXCEPT !.raced = TRUE]
         \/ \E n \in Node : Notice(n) \/ Recover(n)
         \/ \E nodes \in SUBSET Node : Misjudge(nodes)
<1> DEFINE Noted(u) == \/ UNCHANGED history
                       \/ \E call \in Calls : Lost(call, u)
                       \/ Note("raised", u) \/ Note("asked", u)
                       \/ history' = [history EXCEPT !.raced = TRUE]
<1>1. ASSUME NEW u \in Uid, ScheduleRegisters(u) PROVE Noted(u)
  BY <1>1 DEF ScheduleRegisters, Calls
<1>2. ASSUME NEW u \in Uid, ScheduleDispatches(u) \/ RerunRefused(u)
      PROVE  UNCHANGED history
  BY <1>2 DEF ScheduleDispatches, RerunRefused, cvars
<1>3. ASSUME NEW u \in Uid, NEW i \in Slots, AttemptStep(u, i) PROVE Noted(u)
  <2>1. CASE Register(u, i) \/ RunStores(u, i) \/ LocateFails(u, i)
    BY <2>1 DEF Register, RunStores, LocateFails, Calls
  <2>2. CASE UNCHANGED history
    BY <2>2
  <2>3. QED
    BY <1>3, <2>1, <2>2 DEF AttemptStep, Pick, PickFails, Locate, Skip,
       VisitPicks, VisitFails, RunStarts, RunFetches, RunHangs, RunReturns, RunFails
<1>4. ASSUME NEW u \in Uid, NEW i \in Slots, OddStep(u, i) PROVE Noted(u)
  BY <1>4 DEF OddStep, TaskRaises, MapRace, RunCallFails, Calls
<1>5. CASE SweepSteps
  BY <1>5 DEF SweepSteps, SendLiveNodes, SweepStep, LaunchReruns, cvars
<1>6. ASSUME NEW u \in Uid, NEW c \in Client, Ask(u, c) PROVE Noted(u)
  BY <1>6 DEF Ask
<1>7. CASE Announce \/ Answer \/ Flush \/ RegisterFunction \/ RestartGCS \/ RestartFunctionTable
  BY <1>7 DEF Announce, Answer, Flush, RegisterFunction, RestartGCS, RestartFunctionTable, cvars
<1>8. ASSUME NEW n \in Node, KillNode(n) \/ CrashNode(n)
      PROVE  UNCHANGED history
  BY <1>8 DEF KillNode, CrashNode
<1>9. CASE UNCHANGED clvars
  BY <1>9 DEF clvars, cvars
<1>10. QED
  BY <1>1, <1>2, <1>3, <1>4, <1>5, <1>6, <1>7, <1>8, <1>9
  DEF ClusterNext, OddStep

(***************************************************************************)
(* What the cluster does to the server: a step of GCS, a uid whose lineage *)
(* did not arrive, or the end of all Schedule calls.                       *)
(***************************************************************************)
LineageIsLost ==
  \E u \in Uid : /\ issued' = issued \cup {u}
                 /\ Lost("lineage", u)
                 /\ UNCHANGED <<tvars, lineage, generating, announcing, swvars, schedules,
                                restarts>>
CallsEnd ==
  /\ schedules' = [u \in Uid |-> 0]
  /\ UNCHANGED <<tvars, lineage, generating, announcing, swvars, issued, restarts>>
LEMMA ServerKinds ==
  ASSUME StateOK, AttemptsOK, issued \subseteq Uid, [ClusterNext]_clvars
  PROVE  [GCSNext]_gvars \/ LineageIsLost \/ CallsEnd
<1> DEFINE Kinds == [GCSNext]_gvars \/ LineageIsLost \/ CallsEnd
<1> SUFFICES Kinds
  OBVIOUS
<1>1. ASSUME NEW u \in Uid, ScheduleRegisters(u) PROVE Kinds
  BY <1>1 DEF ScheduleRegisters, GCSNext, LineageIsLost
<1>2. ASSUME NEW u \in Uid, ScheduleReturns(u) PROVE Kinds
  BY <1>2 DEF GCSNext
<1>3. ASSUME NEW u \in Uid, ScheduleDispatches(u) \/ RerunRefused(u) PROVE Kinds
  BY <1>2, <1>3 DEF ScheduleDispatches, RerunRefused
<1>4. CASE GlobalSchedulerEnds
  BY <1>4 DEF GlobalSchedulerEnds, CallsEnd
<1>5. ASSUME NEW u \in Uid, NEW i \in Slots, Ends(u, i) PROVE Kinds
  BY <1>2, <1>5 DEF Ends
<1>6. ASSUME NEW u \in Uid, NEW i \in Slots, AttemptStep(u, i) \/ OddStep(u, i)
      PROVE  Kinds
  <2>1. AttemptOK(u, i)
    BY DEF AttemptsOK
  <2>2. CASE Register(u, i)
    <3>1. attempts[u][i].pc = "register"
      BY <2>2 DEF Register, Step
    <3>2. attempts[u][i].node \in Node
      BY <2>1, <3>1 DEF AttemptOK, CallsInTask, Attempt, Location
    <3>3. QED
      BY <2>2, <3>2 DEF Register, GeneratingOf, GCSNext
  <2>3. CASE RunStores(u, i)
    <3>1. attempts[u][i].pc = "execute"
      BY <2>3 DEF RunStores, Step
    <3>2. attempts[u][i].node \in Node
      BY <2>1, <3>1 DEF AttemptOK, CallsInTask, Attempt, Location
    <3>3. ASSUME NEW x, GCSNotifyOwns(x, attempts[u][i].node, "size") PROVE Kinds
      <4>1. x \in Uid
        BY <3>3 DEF GCSNotifyOwns
      <4>2. QED
        BY <3>2, <3>3, <4>1 DEF GCSNext
    <3>4. QED
      BY <2>3, <3>3 DEF RunStores
  <2>4. CASE \/ Pick(u, i) \/ Locate(u, i) \/ VisitPicks(u, i) \/ RunStarts(u, i)
             \/ RunFetches(u, i) \/ \E n \in Node : Skip(u, i, n)
    BY <2>4 DEF Pick, Locate, VisitPicks, Skip, RunStarts, RunFetches
  <2>5. CASE \/ PickFails(u, i) \/ LocateFails(u, i) \/ VisitFails(u, i)
             \/ RunHangs(u, i) \/ RunReturns(u, i) \/ RunFails(u, i) \/ OddStep(u, i)
    BY <1>4, <1>5, <2>5 DEF PickFails, LocateFails, VisitFails, RunHangs, RunReturns,
       RunFails, OddStep, TaskRaises, MapRace, RunCallFails
  <2>6. QED
    BY <1>6, <2>2, <2>3, <2>4, <2>5 DEF AttemptStep
<1>7. CASE SweepSteps
  BY <1>7 DEF SweepSteps, SendLiveNodes, SweepStep, LaunchReruns, GCSNext, Sweep, StateOK
<1>8. ASSUME NEW u \in Uid, NEW c \in Client, Ask(u, c) PROVE Kinds
  BY <1>8 DEF Ask, GCSNext
<1>9. CASE Announce \/ Answer \/ Flush \/ RegisterFunction \/ RestartGCS \/ RestartFunctionTable
  BY <1>9 DEF Announce, Answer, Flush, RegisterFunction, RestartGCS, RestartFunctionTable, GCSNext
<1>10. ASSUME NEW n \in Node, KillNode(n) \/ CrashNode(n) \/ Notice(n) \/ Recover(n)
      PROVE  Kinds
  BY <1>10 DEF KillNode, CrashNode, Notice, Recover, Unseen
<1>11. ASSUME NEW nodes \in SUBSET Node, Misjudge(nodes) PROVE Kinds
  BY <1>11 DEF Misjudge, Unseen
<1>12. CASE UNCHANGED clvars
  BY <1>12 DEF clvars
<1>13. QED
  BY <1>1, <1>3, <1>6, <1>7, <1>8, <1>9, <1>10, <1>11, <1>12
  DEF ClusterNext, OddStep

-----------------------------------------------------------------------------
(* What only grows.                                                        *)
HistoryGrows ==
  /\ \A call \in Calls : history.lost[call] \subseteq history'.lost[call]
  /\ history.raised \subseteq history'.raised
  /\ history.asked \subseteq history'.asked
  /\ history.misjudged <= history'.misjudged
  /\ history.blind => history'.blind
  /\ history.raced => history'.raced
LEMMA HistoryStep ==
  ASSUME HistoryOK, [ClusterNext]_clvars
  PROVE  HistoryOK' /\ HistoryGrows
<1>1. CASE UNCHANGED history
  BY <1>1 DEF HistoryOK, HistoryGrows
<1>2. ASSUME NEW u \in Uid, NEW call \in Calls, Lost(call, u)
      PROVE  HistoryOK' /\ HistoryGrows
  <2>1. history'.lost = [history.lost EXCEPT ![call] = @ \cup {u}]
    BY <1>2 DEF Lost, HistoryOK
  <2>2. history'.lost \in [Calls -> SUBSET Uid]
    BY <2>1 DEF HistoryOK
  <2>3. /\ history'.raised = history.raised /\ history'.asked = history.asked
        /\ history'.misjudged = history.misjudged /\ history'.blind = history.blind
        /\ history'.raced = history.raced
    BY <1>2 DEF Lost, HistoryOK
  <2>4. HistoryOK'
    BY <1>2, <2>2 DEF Lost, HistoryOK
  <2>5. QED
    BY <2>1, <2>3, <2>4 DEF HistoryOK, HistoryGrows
<1>3. ASSUME NEW u \in Uid, Note("raised", u) PROVE HistoryOK' /\ HistoryGrows
  BY <1>3 DEF Note, HistoryOK, HistoryGrows
<1>4. ASSUME NEW u \in Uid, Note("asked", u) PROVE HistoryOK' /\ HistoryGrows
  BY <1>4 DEF Note, HistoryOK, HistoryGrows
<1>5. ASSUME NEW m \in Nat, NEW b \in BOOLEAN, history.misjudged <= m,
             history.blind => b,
             history' = [history EXCEPT !.blind = b, !.misjudged = m]
      PROVE  HistoryOK' /\ HistoryGrows
  BY <1>5 DEF HistoryOK, HistoryGrows
<1>6. ASSUME NEW n \in Node, Notice(n) PROVE HistoryOK' /\ HistoryGrows
  <2> DEFINE b == history.blind \/ seen' = {}
  <2>1. history' = [history EXCEPT !.blind = b, !.misjudged = history.misjudged]
    BY <1>6 DEF Notice, HistoryOK
  <2>2. b \in BOOLEAN /\ (history.blind => b)
    OBVIOUS
  <2>3. history.misjudged \in Nat /\ history.misjudged <= history.misjudged
    BY DEF HistoryOK
  <2> HIDE DEF b
  <2>4. QED
    BY <1>5, <2>1, <2>2, <2>3
<1>7. ASSUME NEW nodes \in SUBSET Node, Misjudge(nodes) PROVE HistoryOK' /\ HistoryGrows
  <2> DEFINE b == history.blind \/ seen' = {}
  <2>1. history' = [history EXCEPT !.blind = b, !.misjudged = history.misjudged + 1]
    BY <1>7 DEF Misjudge, HistoryOK
  <2>2. b \in BOOLEAN /\ (history.blind => b)
    OBVIOUS
  <2>3. /\ history.misjudged + 1 \in Nat
        /\ history.misjudged <= history.misjudged + 1
    BY DEF HistoryOK
  <2> HIDE DEF b
  <2>4. QED
    BY <1>5, <2>1, <2>2, <2>3
<1>8. ASSUME NEW b \in BOOLEAN, history.raced => b,
             history' = [history EXCEPT !.raced = b]
      PROVE  HistoryOK' /\ HistoryGrows
  BY <1>8 DEF HistoryOK, HistoryGrows
<1>9. ASSUME NEW n \in Node, Recover(n) PROVE HistoryOK' /\ HistoryGrows
  <2> DEFINE b == history.raced \/ \E u \in Uid, i \in Slots : n \in skipped[u][i]
  <2>1. history' = [history EXCEPT !.raced = b]
    BY <1>9 DEF Recover
  <2>2. b \in BOOLEAN /\ (history.raced => b)
    OBVIOUS
  <2> HIDE DEF b
  <2>3. QED
    BY <1>8, <2>1, <2>2
<1>10. QED
  BY <1>1, <1>2, <1>3, <1>4, <1>6, <1>7, <1>8, <1>9, HistoryKinds

(* A node that was down or in doubt is not forgotten. *)
LEMMA NodesStep ==
  ASSUME StateOK, [ClusterNext]_clvars
  PROVE  /\ crashed \subseteq crashed' /\ alive' \subseteq alive
         /\ crashed' \subseteq Node /\ seen' \subseteq Node
<1>1. CASE UNCHANGED <<alive, crashed, seen>>
  BY <1>1 DEF StateOK
<1>2. ASSUME NEW n \in Node, KillNode(n) \/ CrashNode(n) \/ Notice(n) \/ Recover(n)
      PROVE  /\ crashed \subseteq crashed' /\ alive' \subseteq alive
             /\ crashed' \subseteq Node /\ seen' \subseteq Node
  BY <1>2 DEF KillNode, CrashNode, Notice, Recover, Unseen, StateOK
<1>3. ASSUME NEW nodes \in SUBSET Node, Misjudge(nodes)
      PROVE  /\ crashed \subseteq crashed' /\ alive' \subseteq alive
             /\ crashed' \subseteq Node /\ seen' \subseteq Node
  BY <1>3 DEF Misjudge, Unseen, StateOK
<1>4. QED
  BY <1>1, <1>2, <1>3, NodesKinds

(***************************************************************************)
(* The server forgets issued uids never, announcements never, a lineage    *)
(* only when it restarts, and a generating entry only then or when a       *)
(* NotifyOwns takes its place, which ends in an announcement.              *)
(***************************************************************************)
ServerGrows ==
  /\ issued \subseteq issued'
  /\ announced \subseteq announced'
  /\ restarts > 0 => restarts' > 0
  /\ \/ restarts' > 0
     \/ /\ restarts' = restarts
        /\ lineage \subseteq lineage'
        /\ \A u \in DOMAIN generating : u \in DOMAIN generating' \/ announcing'.uid = u
        /\ \A u \in Uid : announcing.uid = u => announcing'.uid = u \/ Announced(u)'
LEMMA ServerStep ==
  ASSUME ServerInv, [GCSNext]_gvars
  PROVE  ServerGrows
<1>1. CASE /\ UNCHANGED <<generating, announcing, lineage, issued, restarts>>
           /\ announced \subseteq announced'
  BY <1>1 DEF ServerGrows
<1>2. ASSUME NEW u \in Uid, RegisterLineage(u) PROVE ServerGrows
  BY <1>2 DEF RegisterLineage, ServerGrows, tvars
<1>3. ASSUME NEW u \in Uid, NEW n \in Node, RegisterGenerating(u, n) PROVE ServerGrows
  <2>1. DOMAIN generating' = DOMAIN generating \cup {u}
    BY <1>3, DomainOfPut DEF RegisterGenerating
  <2>2. QED
    BY <1>3, <2>1 DEF RegisterGenerating, ServerGrows, tvars
<1>4. ASSUME NEW u \in Uid, NEW n \in Node, NEW size, GCSNotifyOwns(u, n, size)
      PROVE  ServerGrows
  <2>1. announcing'.uid = u /\ announcing.uid \notin Uid
    BY <1>4, SweepAssumption DEF GCSNotifyOwns, LockIsFree, NobodyAnnounces
  <2>2. DOMAIN generating' = DOMAIN generating \ {u}
    BY <1>4 DEF GCSNotifyOwns, Without
  <2>3. QED
    BY <1>4, <2>1, <2>2 DEF GCSNotifyOwns, ServerGrows, tvars
<1>12. CASE NotifyOwnsAppends
  <2>1. announced' = announced \cup {<<announcing.uid, announcing.node>>}
    BY <1>12 DEF NotifyOwnsAppends, NotifyOwns
  <2>2. announcing.node \in Node
    BY <1>12 DEF NotifyOwnsAppends, ServerInv, Announceable
  <2>3. \A u \in Uid : announcing.uid = u => Announced(u)'
    BY <2>1, <2>2 DEF Announced
  <2>4. QED
    BY <1>12, <2>1, <2>3 DEF NotifyOwnsAppends, ServerGrows
<1>5. ASSUME NEW u \in Uid, NEW c \in Client, GCSRequestLocation(u, c) PROVE ServerGrows
  BY <1>1, <1>5 DEF GCSRequestLocation, RequestLocation, rvars
<1>6. ASSUME NEW u \in Uid, NEW c \in Client, NEW l \in Location, GCSsendCallback(u, c, l)
      PROVE  ServerGrows
  BY <1>1, <1>6 DEF GCSsendCallback, sendCallback, rvars
<1>7. CASE GCSflushToDisk
  BY <1>1, <1>7 DEF GCSflushToDisk, flushToDisk, rvars, tvars
<1>8. CASE Sweep
  BY <1>1, <1>8 DEF Sweep, GCSRegisterLiveNodes, RegisterLiveNodes, CollectGenerating,
     CollectLocated, ReadGenerating, ReadLocations, LaunchSchedules, tvars
<1>9. ASSUME NEW u \in Uid, ScheduleReturns(u) PROVE ServerGrows
  BY <1>1, <1>9 DEF ScheduleReturns, tvars
<1>10. CASE GCSRestart
  BY <1>10 DEF GCSRestart, Restart, ServerGrows, ServerInv, GCSTypeOK
<1>11. CASE UNCHANGED gvars
  BY <1>1, <1>11 DEF gvars, rvars, tvars
<1>13. QED
  BY <1>2, <1>3, <1>4, <1>5, <1>6, <1>7, <1>8, <1>9, <1>10, <1>11, <1>12 DEF GCSNext

(* The table's half of a step, and of what it finds located. *)
LEMMA TableStep ==
  ASSUME ClusterInv, [ClusterNext]_clvars
  PROVE  [Next]_tvars /\ Inv'
<1>1. [GCSNext]_gvars \/ LineageIsLost \/ CallsEnd
  BY ServerKinds DEF ClusterInv, ServerInv, GCSTypeOK
<1>2. [Next]_tvars
  BY <1>1, GCSNextTable DEF ClusterInv, ServerInv, LineageIsLost, CallsEnd
<1>3. QED
  BY <1>2, NextInv DEF ClusterInv

LEMMA ServerStepInCluster ==
  ASSUME ClusterInv, [ClusterNext]_clvars
  PROVE  ServerInv' /\ ServerGrows
<1>1. TypeOK'
  BY TableStep DEF Inv
<1>2. CASE [GCSNext]_gvars
  BY <1>1, <1>2, ServerNextInv, ServerStep DEF ClusterInv
<1>3. CASE LineageIsLost
  <2>1. PICK u \in Uid : issued' = issued \cup {u}
    BY <1>3 DEF LineageIsLost
  <2>2. UNCHANGED <<tvars, lineage, generating, announcing, swvars, schedules, restarts>>
    BY <1>3 DEF LineageIsLost
  <2>3. GCSTypeOK' /\ SweepHasRoom'
    BY <1>1, <2>1, <2>2 DEF ClusterInv, ServerInv, GCSTypeOK, SweepHasRoom, swvars
  <2>4. KnownUids' /\ Announceable'
    BY <2>1, <2>2 DEF ClusterInv, ServerInv, KnownUids, Announceable, LockIsFree,
       swvars, tvars
  <2>5. ServerGrows
    BY <2>1, <2>2 DEF ServerGrows, tvars
  <2>6. QED
    BY <2>3, <2>4, <2>5 DEF ServerInv
<1>4. CASE CallsEnd
  <2>1. /\ schedules' = [u \in Uid |-> 0]
        /\ UNCHANGED <<tvars, lineage, generating, announcing, swvars, issued, restarts>>
    BY <1>4 DEF CallsEnd
  <2>2. schedules' \in [Uid -> 0 .. MaxSchedules] /\ \A u \in Uid : schedules'[u] < MaxSchedules
    BY <2>1, SweepAssumption
  <2>3. GCSTypeOK' /\ SweepHasRoom'
    BY <1>1, <2>1, <2>2 DEF ClusterInv, ServerInv, GCSTypeOK, SweepHasRoom, swvars
  <2>4. KnownUids' /\ Announceable'
    BY <2>1 DEF ClusterInv, ServerInv, KnownUids, Announceable, LockIsFree, swvars, tvars
  <2>5. ServerGrows
    BY <2>1 DEF ServerGrows, tvars
  <2>6. QED
    BY <2>3, <2>4, <2>5 DEF ServerInv
<1>5. QED
  BY <1>2, <1>3, <1>4, ServerKinds DEF ClusterInv, ServerInv, GCSTypeOK

(* What an attempt or the sweep once could rely on stays. *)
ContextGrows ==
  /\ issued \subseteq issued' /\ registered \subseteq registered'
  /\ restarts > 0 => restarts' > 0
  /\ crashed # {} => crashed' # {}
  /\ history.lost["lineage"] # {} => history'.lost["lineage"] # {}
  /\ \A u \in Uid : Protected(u) => Protected(u)'
LEMMA ContextStep ==
  ASSUME ClusterInv, [ClusterNext]_clvars
  PROVE  ContextGrows
<1>1. HistoryOK' /\ HistoryGrows
  BY HistoryStep DEF ClusterInv, StateOK
<1>2. ServerGrows
  BY ServerStepInCluster
<1>3. crashed \subseteq crashed' /\ alive' \subseteq alive
  BY NodesStep DEF ClusterInv
<1>4. registered \subseteq registered'
  BY FuncKinds DEF fvars, RegisterFunction, RegisterFunc, RestartFunctionTable, FuncRestart
<1>5. ASSUME NEW u \in Uid, Protected(u) PROVE Protected(u)'
  <2>1. CASE Announced(u)
    BY <1>2, <2>1 DEF ServerGrows, Announced, Protected
  <2>2. CASE announcing.uid = u
    BY <1>2, <2>2 DEF ServerGrows, Protected
  <2>3. CASE u \in DOMAIN generating /\ u \in lineage
    BY <1>2, <2>3 DEF ServerGrows, Protected
  <2>4. CASE \E call \in ForRerun : u \in history.lost[call]
    BY <1>1, <2>4 DEF HistoryGrows, Protected, ForRerun, Calls
  <2>5. CASE restarts > 0
    BY <1>2, <2>5 DEF ServerGrows, Protected
  <2>6. QED
    BY <1>5, <2>1, <2>2, <2>3, <2>4, <2>5 DEF Protected
<1>6. history.lost["lineage"] # {} => history'.lost["lineage"] # {}
  BY <1>1 DEF HistoryGrows, Calls
<1>7. QED
  BY <1>2, <1>3, <1>4, <1>5, <1>6 DEF ServerGrows, ContextGrows

-----------------------------------------------------------------------------
(* Attempts.                                                               *)

(* The requests that are sent have the fields of their message. *)
LEMMA TaskTypes ==
  /\ EmptyTask \in Message!GlobalScheduleRequest
  /\ \A u \in Uid, node \in Location, flag \in BOOLEAN :
       GlobalTask(u, node, flag) \in Message!GlobalScheduleRequest
  /\ Idle \in Attempt
<1>1. EmptyTask \in Message!GlobalScheduleRequest
  BY DEF EmptyTask, Message!GlobalScheduleRequest, Location
<1>2. ASSUME NEW u \in Uid, NEW node \in Location, NEW flag \in BOOLEAN
      PROVE  GlobalTask(u, node, flag) \in Message!GlobalScheduleRequest
  <2>1. Task[u] \in Message!ScheduleRequest
    BY ClusterAssumption
  <2>2. Task[u].name \in Name \cup {ZeroName} /\ Task[u].uids \in SUBSET (Uid \cup {NoUid} \cup Argument)
    BY <2>1 DEF Message!ScheduleRequest
  <2>3. QED
    BY <2>2 DEF GlobalTask, Message!GlobalScheduleRequest
<1>3. Idle \in Attempt
  BY <1>1 DEF Idle, Attempt, Location
<1>4. QED
  BY <1>1, <1>2, <1>3

(* The calls made for an attempt have the fields of their messages, too. *)
LEMMA CallTypes ==
  ASSUME NEW a \in Attempt
  PROVE  /\ GeneratingOf(a) \in Message!GeneratingRequest
         /\ RunOf(a) \in Message!RunRequest
<1>1. /\ a.task.uid \in Uid \cup {NoUid} \cup Argument /\ a.task.name \in Name \cup {ZeroName}
      /\ a.node \in Location
  BY DEF Attempt, Message!GlobalScheduleRequest
<1>2. QED
  BY <1>1 DEF GeneratingOf, RunOf, Message!GeneratingRequest, Message!RunRequest

(* An attempt that is over promises nothing. *)
LEMMA OverIsOK ==
  ASSUME NEW u \in Uid, NEW i \in Slots, attempts'[u][i] = Idle
  PROVE  AttemptOK(u, i)'
BY TaskTypes DEF AttemptOK, CallsInTask, Idle

(* What held of an attempt holds of it later. *)
LEMMA KeptIsOK ==
  ASSUME NEW u \in Uid, NEW i \in Slots, AttemptOK(u, i), ContextGrows,
         attempts'[u][i] = attempts[u][i]
  PROVE  AttemptOK(u, i)'
BY DEF AttemptOK, CallsInTask, ContextGrows

(* An attempt may go on, or change its owner, as long as it keeps its task. *)
LEMMA ChangedIsOK ==
  ASSUME NEW u \in Uid, NEW i \in Slots, AttemptOK(u, i), ContextGrows,
         NEW b \in {"nobody", "local", "client", "sweep", "cancelled", "orphan"},
         NEW to \in {"register", "run", "fetch", "execute", "done", "pick", "visit"},
         NEW n \in Location,
         attempts[u][i].pc # "idle",
         attempts'[u][i] = [by |-> b, pc |-> to, node |-> n, task |-> attempts[u][i].task],
         to \in {"register", "run", "fetch", "execute"} => n # ZeroNode,
         b = "cancelled" => attempts[u][i].by = b \/ crashed' # {} \/ restarts' > 0,
         to \in {"run", "fetch", "execute"} /\ attempts[u][i].task.uid = u => Protected(u)'
  PROVE  AttemptOK(u, i)'
<1> DEFINE a == attempts'[u][i]
           t == attempts[u][i].task
<1>1. t \in Message!GlobalScheduleRequest
  BY DEF AttemptOK, Attempt
<1>2. a \in Attempt /\ a.by = b /\ a.pc = to /\ a.node = n /\ a.task = t
  BY <1>1 DEF Attempt
<1>3. a = Idle <=> a.pc = "idle"
  BY <1>2 DEF Idle
<1>4. CallsInTask(a)
  BY <1>2, CallTypes DEF CallsInTask
<1>5. \/ t.uid = u /\ u \in issued /\ t.name \in registered
      \/ t.uid = NoUid /\ (restarts > 0 \/ history.lost["lineage"] # {})
  BY DEF AttemptOK
<1>6. \/ t.uid = u /\ u \in issued' /\ t.name \in registered'
      \/ t.uid = NoUid /\ (restarts' > 0 \/ history'.lost["lineage"] # {})
  BY <1>5 DEF ContextGrows
<1>7. a.by = "cancelled" => crashed' # {} \/ restarts' > 0
  BY <1>2 DEF AttemptOK, ContextGrows
<1> HIDE DEF a, t
<1>8. QED
  BY <1>2, <1>3, <1>4, <1>6, <1>7 DEF AttemptOK, a, t

(* A new attempt to run u. *)
LEMMA NewIsOK ==
  ASSUME NEW u \in Uid, NEW i \in Slots,
         NEW b \in {"local", "client", "sweep"},
         NEW to \in {"pick", "register"}, NEW n \in Location,
         to = "register" => n # ZeroNode,
         NEW t \in Message!GlobalScheduleRequest,
         attempts'[u][i] = [by |-> b, pc |-> to, node |-> n, task |-> t],
         \/ t.uid = u /\ u \in issued' /\ t.name \in registered'
         \/ t.uid = NoUid /\ (restarts' > 0 \/ history'.lost["lineage"] # {})
  PROVE  AttemptOK(u, i)'
<1> DEFINE a == attempts'[u][i]
<1>1. a \in Attempt /\ a.by = b /\ a.pc = to /\ a.node = n /\ a.task = t
  BY DEF Attempt
<1>2. a = Idle <=> a.pc = "idle"
  BY <1>1 DEF Idle
<1>3. CallsInTask(a)
  BY <1>1, CallTypes DEF CallsInTask
<1> HIDE DEF a
<1>4. QED
  BY <1>1, <1>2, <1>3 DEF AttemptOK, a

(* One attempt at a time. *)
LEMMA OneIsOK ==
  ASSUME AttemptsOK, ContextGrows, NEW u \in Uid, NEW i \in Slots, NEW a,
         attempts' = [attempts EXCEPT ![u][i] = a],
         AttemptOK(u, i)'
  PROVE  AttemptsOK'
<1>1. attempts'[u][i] = a
  BY DEF AttemptsOK
<1>2. a \in Attempt
  BY <1>1 DEF AttemptOK
<1>3. attempts' \in [Uid -> [Slots -> Attempt]]
  BY <1>2 DEF AttemptsOK
<1>4. ASSUME NEW v \in Uid, NEW j \in Slots PROVE AttemptOK(v, j)'
  <2>1. CASE v = u /\ j = i
    BY <2>1
  <2>2. CASE ~(v = u /\ j = i)
    <3>1. attempts'[v][j] = attempts[v][j]
      BY <2>2 DEF AttemptsOK
    <3>2. QED
      BY <3>1, KeptIsOK DEF AttemptsOK
  <2>3. QED
    BY <2>1, <2>2
<1>5. QED
  BY <1>3, <1>4 DEF AttemptsOK

(* All attempts at once. *)
LEMMA AllAreOK ==
  ASSUME attempts' = [u \in Uid |-> [i \in Slots |-> attempts'[u][i]]],
         \A u \in Uid, i \in Slots : AttemptOK(u, i)'
  PROVE  AttemptsOK'
<1>1. \A u \in Uid, i \in Slots : attempts'[u][i] \in Attempt
  BY DEF AttemptOK
<1> DEFINE F == attempts'
<1>2. F \in [Uid -> [Slots -> Attempt]]
  BY <1>1
<1>3. QED
  BY <1>2 DEF AttemptsOK

(* No slot of the sweep is taken. *)
IdleStays ==
  \A u \in Uid, i \in Slots \ {0} :
    attempts[u][i] = Idle => attempts'[u][i] = Idle

(* The goroutine goes on to its next call. *)
LEMMA StepIsOK ==
  ASSUME AttemptsOK, ContextGrows, NEW u \in Uid, NEW i \in Slots,
         NEW from \in {"pick", "register", "run", "fetch", "execute"},
         NEW to \in {"visit", "run", "fetch", "execute", "done"},
         Step(u, i, from, to), from = "pick" => to = "visit",
         to \in {"run", "fetch", "execute"} /\ attempts[u][i].task.uid = u => Protected(u)'
  PROVE  AttemptsOK' /\ IdleStays
<1> DEFINE a == attempts[u][i]
           b == [by |-> a.by, pc |-> to, node |-> a.node, task |-> a.task]
<1>1. AttemptOK(u, i) /\ a \in Attempt /\ a.pc = from
  BY DEF AttemptsOK, Step
<1>2. a = [by |-> a.by, pc |-> a.pc, node |-> a.node, task |-> a.task]
  BY <1>1 DEF Attempt
<1>3. [a EXCEPT !.pc = to] = b
  BY <1>2
<1>4. attempts' = [attempts EXCEPT ![u][i] = b]
  BY <1>3 DEF Step, AttemptsOK
<1>5. attempts'[u][i] = b
  BY <1>4 DEF AttemptsOK
<1>6. /\ a.by \in {"nobody", "local", "client", "sweep", "cancelled", "orphan"}
      /\ a.node \in Location /\ (to # "visit" => a.node # ZeroNode)
  BY <1>1 DEF AttemptOK, CallsInTask, Attempt
<1>7. AttemptOK(u, i)'
  BY <1>1, <1>5, <1>6, ChangedIsOK
<1>8. AttemptsOK'
  BY <1>4, <1>7, OneIsOK
<1>9. a # Idle
  BY <1>1 DEF Idle
<1>10. IdleStays
  BY <1>4, <1>9 DEF IdleStays, AttemptsOK
<1>11. QED
  BY <1>8, <1>10

(* The goroutine ends. *)
LEMMA EndsIsOK ==
  ASSUME AttemptsOK, ContextGrows, NEW u \in Uid, NEW i \in Slots, Ends(u, i)
  PROVE  AttemptsOK' /\ IdleStays
<1>1. attempts' = [attempts EXCEPT ![u][i] = Idle]
  BY DEF Ends
<1>2. attempts'[u][i] = Idle
  BY <1>1 DEF AttemptsOK
<1>3. AttemptsOK'
  BY <1>1, <1>2, OverIsOK, OneIsOK
<1>4. IdleStays
  BY <1>1 DEF IdleStays, AttemptsOK
<1>5. QED
  BY <1>3, <1>4

(* A goroutine has got a node to go on with. *)
LEMMA PickedIsOK ==
  ASSUME AttemptsOK, ContextGrows, NEW u \in Uid, NEW i \in Slots,
         attempts[u][i].pc \in {"pick", "visit"}, NEW n \in Node,
         attempts' = [attempts EXCEPT ![u][i].node = n, ![u][i].pc = "register"]
  PROVE  AttemptsOK' /\ IdleStays
<1> DEFINE a == attempts[u][i]
<1>1. AttemptOK(u, i) /\ a \in Attempt /\ a.pc # "idle"
  BY DEF AttemptsOK
<1> DEFINE b == [by |-> a.by, pc |-> "register", node |-> n, task |-> a.task]
<1>2. a = [by |-> a.by, pc |-> a.pc, node |-> a.node, task |-> a.task]
  BY <1>1 DEF Attempt
<1>3. [[a EXCEPT !.node = n] EXCEPT !.pc = "register"] = b
  <2> DEFINE c == [a EXCEPT !.node = n]
  <2>1. c = [by |-> a.by, pc |-> a.pc, node |-> n, task |-> a.task]
    BY <1>2
  <2> HIDE DEF a, c
  <2>2. [c EXCEPT !.pc = "register"] = b
    BY <2>1
  <2>3. QED
    BY <2>2 DEF c
<1>4. attempts' = [attempts EXCEPT ![u][i] = b]
  BY <1>3 DEF AttemptsOK
<1>5. attempts'[u][i] = b
  BY <1>4 DEF AttemptsOK
<1>6. /\ a.by \in {"nobody", "local", "client", "sweep", "cancelled", "orphan"}
      /\ n \in Location /\ n # ZeroNode
  BY <1>1, ZeroNodeAssumption DEF Attempt, Location
<1>7. AttemptOK(u, i)'
  BY <1>1, <1>5, <1>6, ChangedIsOK
<1>8. AttemptsOK'
  BY <1>4, <1>7, OneIsOK
<1>9. a # Idle
  BY <1>1 DEF Idle
<1>10. IdleStays
  BY <1>4, <1>9 DEF IdleStays, AttemptsOK
<1>11. QED
  BY <1>8, <1>10

(* Pick and the locality loop find a node, never node id 0. *)
LEMMA PickIsOK ==
  ASSUME AttemptsOK, ContextGrows, seen \subseteq Node,
         NEW u \in Uid, NEW i \in Slots, Pick(u, i) \/ VisitPicks(u, i)
  PROVE  AttemptsOK' /\ IdleStays
<1>1. attempts[u][i] \in Attempt /\ attempts[u][i].pc \in {"pick", "visit"}
  BY DEF AttemptsOK, Pick, VisitPicks
<1>2. attempts[u][i].task.nodeId \in Location
  BY <1>1 DEF Attempt, Message!GlobalScheduleRequest
<1>3. PICK n \in Node :
        attempts' = [attempts EXCEPT ![u][i].node = n, ![u][i].pc = "register"]
  BY <1>2, ZeroNodeAssumption DEF Pick, VisitPicks, Location
<1>4. QED
  BY <1>1, <1>3, PickedIsOK

(* An attempt changes its owner: its caller is gone. *)
LEMMA OrphanIsOK ==
  ASSUME NEW u \in Uid, NEW i \in Slots, AttemptOK(u, i), ContextGrows,
         attempts[u][i].pc # "idle", NEW b \in {"orphan", "cancelled"},
         attempts'[u][i] = [attempts[u][i] EXCEPT !.by = b],
         b = "cancelled" => crashed' # {} \/ restarts' > 0
  PROVE  AttemptOK(u, i)'
<1> DEFINE a == attempts[u][i]
<1>1. a \in Attempt
  BY DEF AttemptOK
<1>2. a = [by |-> a.by, pc |-> a.pc, node |-> a.node, task |-> a.task]
  BY <1>1 DEF Attempt
<1>3. attempts'[u][i] = [by |-> b, pc |-> a.pc, node |-> a.node, task |-> a.task]
  BY <1>2
<1>4. /\ a.pc \in {"register", "run", "fetch", "execute", "done", "pick", "visit"}
      /\ a.node \in Location
  BY <1>1 DEF Attempt
<1>5. a.pc \in {"register", "run", "fetch", "execute"} => a.node # ZeroNode
  BY DEF AttemptOK, CallsInTask
<1>6. a.pc \in {"run", "fetch", "execute"} /\ a.task.uid = u => Protected(u)'
  BY DEF AttemptOK, ContextGrows
<1> HIDE DEF a
<1>7. QED
  BY <1>3, <1>4, <1>5, <1>6, ChangedIsOK DEF a

(* Nobody waits any more for a task that the node of the client runs. *)
LEMMA RunCallFailsIsOK ==
  ASSUME AttemptsOK, ContextGrows, NEW u \in Uid, NEW i \in Slots,
         attempts[u][i].pc # "idle",
         attempts' = [attempts EXCEPT ![u][i].by = "orphan"]
  PROVE  AttemptsOK' /\ IdleStays
<1> DEFINE a == attempts[u][i]
           b == [a EXCEPT !.by = "orphan"]
<1>1. attempts' = [attempts EXCEPT ![u][i] = b]
  BY DEF AttemptsOK
<1>2. attempts'[u][i] = b
  BY <1>1 DEF AttemptsOK
<1>3. AttemptOK(u, i)'
  BY <1>2, OrphanIsOK DEF AttemptsOK
<1> HIDE DEF b
<1>4. AttemptsOK'
  BY <1>1, <1>3, OneIsOK
<1>5. a # Idle
  BY DEF Idle
<1>6. IdleStays
  BY <1>1, <1>5 DEF IdleStays, AttemptsOK
<1>7. QED
  BY <1>4, <1>6

(* The handlers of the global scheduler are gone. *)
LEMMA GlobalSchedulerEndsIsOK ==
  ASSUME AttemptsOK, ContextGrows, GlobalSchedulerEnds
  PROVE  AttemptsOK' /\ IdleStays
<1>1. ASSUME NEW u \in Uid, NEW i \in Slots
      PROVE  \/ attempts'[u][i] = attempts[u][i]
             \/ attempts'[u][i] = Idle
             \/ /\ attempts[u][i].pc \in {"fetch", "execute"}
                /\ attempts'[u][i] = [attempts[u][i] EXCEPT !.by = "orphan"]
  <2> DEFINE a == attempts[u][i]
             o == [a EXCEPT !.by = "orphan"]
  <2>1. attempts'[u][i] =
          CASE a.by \in {"local", "orphan", "nobody"} -> a
            [] a.by \in {"client", "sweep", "cancelled"} ->
                 IF a.pc \in {"fetch", "execute"} THEN o ELSE Idle
    BY DEF GlobalSchedulerEnds
  <2>2. a.by \in {"local", "orphan", "nobody", "client", "sweep", "cancelled"}
    BY DEF AttemptsOK, AttemptOK, Attempt
  <2> HIDE DEF a, o
  <2>3. attempts'[u][i] = a \/ attempts'[u][i] = Idle
          \/ (a.pc \in {"fetch", "execute"} /\ attempts'[u][i] = o)
    BY <2>1, <2>2
  <2>4. QED
    BY <2>3 DEF a, o
<1>2. ASSUME NEW u \in Uid, NEW i \in Slots PROVE AttemptOK(u, i)'
  <2>1. AttemptOK(u, i)
    BY DEF AttemptsOK
  <2>2. QED
    BY <1>1, <2>1, KeptIsOK, OverIsOK, OrphanIsOK
<1>3. attempts' = [u \in Uid |-> [i \in Slots |-> attempts'[u][i]]]
  <2> DEFINE F(a) == CASE a.by \in {"local", "orphan", "nobody"} -> a
                       [] a.by \in {"client", "sweep", "cancelled"} ->
                            IF a.pc \in {"fetch", "execute"}
                            THEN [a EXCEPT !.by = "orphan"] ELSE Idle
  <2>1. attempts' = [u \in Uid |-> [i \in Slots |-> F(attempts[u][i])]]
    BY DEF GlobalSchedulerEnds
  <2> HIDE DEF F
  <2>2. QED
    BY <2>1
<1>4. AttemptsOK'
  BY <1>2, <1>3, AllAreOK
<1>5. IdleStays
  <2>1. Idle.pc = "idle" /\ Idle.by = "nobody"
    BY DEF Idle
  <2>2. QED
    BY <1>1, <2>1 DEF IdleStays
<1>6. QED
  BY <1>4, <1>5

(* A container ends: its own goroutines with it, its calls are cancelled. *)
LEMMA CrashIsOK ==
  ASSUME AttemptsOK, ContextGrows, NEW n \in Node, CrashNode(n)
  PROVE  AttemptsOK' /\ IdleStays
<1>1. ASSUME NEW u \in Uid, NEW i \in Slots
      PROVE  \/ attempts'[u][i] = attempts[u][i]
             \/ attempts'[u][i] = Idle
             \/ /\ attempts[u][i].by = "client"
                /\ attempts'[u][i] = [attempts[u][i] EXCEPT !.by = "cancelled"]
  <2> DEFINE a == attempts[u][i]
             o == [a EXCEPT !.by = "cancelled"]
  <2>1. attempts'[u][i] =
          CASE a.by = "local" /\ Home[u] = n -> Idle
            [] a.by = "client" /\ Home[u] = n -> o
            [] OTHER -> a
    BY DEF CrashNode
  <2> HIDE DEF a, o
  <2>2. attempts'[u][i] = a \/ attempts'[u][i] = Idle
          \/ (a.by = "client" /\ attempts'[u][i] = o)
    BY <2>1
  <2>3. QED
    BY <2>2 DEF a, o
<1>2. crashed' # {}
  BY DEF CrashNode
<1>3. ASSUME NEW u \in Uid, NEW i \in Slots PROVE AttemptOK(u, i)'
  <2>1. AttemptOK(u, i)
    BY DEF AttemptsOK
  <2>2. attempts[u][i].by = "client" => attempts[u][i].pc # "idle"
    BY <2>1 DEF AttemptOK, Idle
  <2>3. QED
    BY <1>1, <1>2, <2>1, <2>2, KeptIsOK, OverIsOK, OrphanIsOK
<1>4. attempts' = [u \in Uid |-> [i \in Slots |-> attempts'[u][i]]]
  BY DEF CrashNode
<1>5. AttemptsOK'
  BY <1>3, <1>4, AllAreOK
<1>6. IdleStays
  <2>1. Idle.pc = "idle" /\ Idle.by = "nobody"
    BY DEF Idle
  <2>2. QED
    BY <1>1, <2>1 DEF IdleStays
<1>7. QED
  BY <1>5, <1>6

(* The GCS starts again: the Schedule calls it had made are cancelled. *)
LEMMA RestartIsOK ==
  ASSUME AttemptsOK, ContextGrows, restarts \in Nat, RestartGCS
  PROVE  AttemptsOK' /\ IdleStays
<1>1. ASSUME NEW u \in Uid, NEW i \in Slots
      PROVE  \/ attempts'[u][i] = attempts[u][i]
             \/ /\ attempts[u][i].by = "sweep"
                /\ attempts'[u][i] = [attempts[u][i] EXCEPT !.by = "cancelled"]
  BY DEF RestartGCS
<1>2. restarts' > 0
  BY DEF RestartGCS, GCSRestart
<1>3. ASSUME NEW u \in Uid, NEW i \in Slots PROVE AttemptOK(u, i)'
  <2>1. AttemptOK(u, i)
    BY DEF AttemptsOK
  <2>2. attempts[u][i].by = "sweep" => attempts[u][i].pc # "idle"
    BY <2>1 DEF AttemptOK, Idle
  <2>3. QED
    BY <1>1, <1>2, <2>1, <2>2, KeptIsOK, OrphanIsOK
<1>4. attempts' = [u \in Uid |-> [i \in Slots |-> attempts'[u][i]]]
  BY DEF RestartGCS
<1>5. AttemptsOK'
  BY <1>3, <1>4, AllAreOK
<1>6. IdleStays
  <2>1. Idle.pc = "idle" /\ Idle.by = "nobody"
    BY DEF Idle
  <2>2. QED
    BY <1>1, <2>1 DEF IdleStays
<1>7. QED
  BY <1>5, <1>6

(* Schedule launches its goroutine in slot 0. *)
LEMMA DispatchIsOK ==
  ASSUME ClusterInv, ContextGrows, NEW u \in Uid, ScheduleDispatches(u)
  PROVE  AttemptsOK' /\ IdleStays
<1>1. AttemptsOK
  BY DEF ClusterInv
<1>2. 0 \in Slots
  BY SweepAssumption DEF Slots
<1>3. u \in issued' /\ Task[u].name \in registered'
  BY DEF ScheduleDispatches, ClusterInv, FunctionsAreKept, ContextGrows
<1>4. ASSUME NEW by \in {"local", "client"}, NEW pc \in {"pick", "register"},
             NEW node \in Location, pc = "register" => node # ZeroNode,
             NEW given \in Location, NEW flag \in BOOLEAN,
             Launch(u, by, pc, node, GlobalTask(u, given, flag))
      PROVE  AttemptsOK' /\ IdleStays
  <2> DEFINE t == GlobalTask(u, given, flag)
             a == [by |-> by, pc |-> pc, node |-> node, task |-> t]
  <2>1. t \in Message!GlobalScheduleRequest
    BY TaskTypes
  <2>2. t.uid = u /\ t.name = Task[u].name
    BY DEF GlobalTask
  <2> HIDE DEF t
  <2>3. attempts' = [attempts EXCEPT ![u][0] = a]
    BY <1>4 DEF Launch, t
  <2>4. attempts'[u][0] = a
    BY <1>1, <1>2, <2>3 DEF AttemptsOK
  <2>5. AttemptOK(u, 0)'
    BY <1>2, <1>3, <1>4, <2>1, <2>2, <2>4, NewIsOK
  <2>6. AttemptsOK'
    BY <1>1, <1>2, <2>3, <2>5, OneIsOK
  <2>7. IdleStays
    BY <1>1, <2>3 DEF IdleStays, AttemptsOK
  <2>8. QED
    BY <2>6, <2>7
<1>5. CASE \E n \in Pins : Launch(u, "client", "pick", ZeroNode, GlobalTask(u, n, FALSE))
  BY <1>4, <1>5, ClusterAssumption DEF Location
<1>6. Home[u] \in Location /\ Home[u] # ZeroNode /\ ZeroNode \in Location
  BY ClusterAssumption, ZeroNodeAssumption DEF Location
<1>7. CASE Launch(u, "local", "register", Home[u], GlobalTask(u, ZeroNode, FALSE))
  BY <1>4, <1>6, <1>7
<1>8. CASE Launch(u, "client", "pick", ZeroNode, GlobalTask(u, ZeroNode, Task[u].localityFlag))
  <2>1. Task[u] \in Message!ScheduleRequest
    BY ClusterAssumption
  <2>2. Task[u].localityFlag \in BOOLEAN
    BY <2>1 DEF Message!ScheduleRequest
  <2>3. QED
    BY <1>4, <1>6, <1>8, <2>2
<1>9. QED
  BY <1>5, <1>7, <1>8 DEF ScheduleDispatches

(* The sweep launches its goroutines in free slots. *)
LEMMA RerunIsOK ==
  ASSUME ClusterInv, ContextGrows, LaunchReruns
  PROVE  AttemptsOK'
<1>1. AttemptsOK /\ sweep = "check" /\ restarts' = restarts /\ history' = history
  BY DEF ClusterInv, LaunchReruns, LaunchSchedules
<1>2. CASE ~gsUp
  <2>1. attempts' = attempts
    BY <1>2 DEF LaunchReruns
  <2>2. \A u \in Uid, i \in Slots : AttemptOK(u, i)'
    BY <1>1, <2>1, KeptIsOK DEF AttemptsOK
  <2>3. QED
    BY <1>1, <2>1, <2>2 DEF AttemptsOK
<1>3. CASE gsUp
  <2>1. attempts' = [u \in Uid |-> IF u \notin regenerateList THEN attempts[u]
                       ELSE [attempts[u] EXCEPT ![FreeSlot(u)] = Rerun(u)]]
    BY <1>3 DEF LaunchReruns
  <2>2. ASSUME NEW u \in Uid PROVE FreeSlot(u) \in Slots \ {0}
    <3>1. \E i \in Slots \ {0} : attempts[u][i] = Idle
      BY <1>1 DEF ClusterInv, SlotsAreFree
    <3>2. QED
      BY <3>1 DEF FreeSlot
  <2>3. ASSUME NEW u \in regenerateList, NEW i \in Slots, attempts'[u][i] = Rerun(u)
        PROVE  u \in Uid /\ AttemptOK(u, i)'
    <3>1. u \in Uid /\ u \in issued /\ Task[u].name \in registered
      BY DEF ClusterInv, ServerInv, KnownUids, GCSTypeOK, FunctionsAreKept
    <3> DEFINE t == IF u \in lineage THEN GlobalTask(u, ZeroNode, FALSE) ELSE EmptyTask
    <3>2. t \in Message!GlobalScheduleRequest
      BY <3>1, TaskTypes DEF Location
    <3>3. u \in lineage => t.uid = u /\ t.name = Task[u].name
      BY DEF GlobalTask
    <3>4. u \notin lineage => t.uid = NoUid /\ (restarts > 0 \/ history.lost["lineage"] # {})
      <4>1. u \notin lineage => t.uid = NoUid
        BY DEF EmptyTask
      <4>2. restarts \in Nat
        BY DEF ClusterInv, ServerInv, GCSTypeOK
      <4>3. QED
        BY <3>1, <4>1, <4>2 DEF ClusterInv, LineageOrLost
    <3>5. \/ t.uid = u /\ u \in issued' /\ t.name \in registered'
          \/ t.uid = NoUid /\ (restarts' > 0 \/ history'.lost["lineage"] # {})
      BY <1>1, <3>1, <3>3, <3>4 DEF ContextGrows
    <3>6. attempts'[u][i] = [by |-> "sweep", pc |-> "pick", node |-> ZeroNode, task |-> t]
      BY <2>3 DEF Rerun
    <3>7. ZeroNode \in Location
      BY DEF Location
    <3> HIDE DEF t
    <3>8. AttemptOK(u, i)'
      BY <3>1, <3>2, <3>5, <3>6, <3>7, NewIsOK
    <3>9. QED
      BY <3>1, <3>8
  <2>4. ASSUME NEW u \in Uid, NEW i \in Slots
        PROVE  \/ attempts'[u][i] = attempts[u][i]
               \/ u \in regenerateList /\ attempts'[u][i] = Rerun(u)
    BY <1>1, <2>1, <2>2 DEF AttemptsOK
  <2>5. ASSUME NEW u \in Uid, NEW i \in Slots PROVE AttemptOK(u, i)'
    BY <1>1, <2>3, <2>4, KeptIsOK DEF AttemptsOK
  <2>6. attempts' = [u \in Uid |-> [i \in Slots |-> attempts'[u][i]]]
    BY <1>1, <2>1 DEF AttemptsOK
  <2>7. QED
    BY <2>5, <2>6, AllAreOK
<1>4. QED
  BY <1>2, <1>3

(* RegisterGenerating protects the task before Run is called. *)
LEMMA RegisterIsOK ==
  ASSUME ClusterInv, ContextGrows, NEW u \in Uid, NEW i \in Slots, Register(u, i),
         HistoryOK'
  PROVE  AttemptsOK' /\ IdleStays
<1> DEFINE a == attempts[u][i]
<1>1. ASSUME a.task.uid = u PROVE Protected(u)'
  <2>1. CASE RegisterGenerating(u, a.node) /\ UNCHANGED history
    <3>1. u \in DOMAIN generating'
      BY <2>1 DEF RegisterGenerating, Put
    <3>2. u \in issued /\ lineage' = lineage /\ restarts' = restarts
      BY <2>1 DEF RegisterGenerating
    <3>3. restarts = 0 => u \in lineage \/ u \in history.lost["lineage"]
      BY <3>2 DEF ClusterInv, LineageOrLost
    <3>4. restarts \in Nat /\ "lineage" \in ForRerun
      BY DEF ClusterInv, ServerInv, GCSTypeOK, ForRerun
    <3>5. QED
      BY <2>1, <3>1, <3>2, <3>3, <3>4 DEF Protected
  <2>2. ASSUME NEW call \in ForRerun, Lost(call, u) PROVE Protected(u)'
    <3>0. call \in Calls
      BY <2>2 DEF ForRerun, Calls
    <3>1. history'.lost = [history.lost EXCEPT ![call] = @ \cup {u}]
      BY <2>2 DEF Lost, ClusterInv, StateOK, HistoryOK
    <3>2. u \in history'.lost[call]
      BY <3>0, <3>1 DEF ClusterInv, StateOK, HistoryOK
    <3>3. QED
      BY <3>2 DEF Protected
  <2>3. "cancelled" \in ForRerun /\ "generating" \in ForRerun
    BY DEF ForRerun
  <2>4. QED
    BY <1>1, <2>1, <2>2, <2>3 DEF Register, GeneratingOf
<1>2. Step(u, i, "register", "run")
  BY DEF Register
<1>3. QED
  BY <1>1, <1>2, StepIsOK DEF ClusterInv

(* Every step keeps the attempts in order, and the free slots of a sweep. *)
LEMMA AttemptsStep ==
  ASSUME ClusterInv, [ClusterNext]_clvars
  PROVE  AttemptsOK' /\ (IdleStays \/ sweep' = "idle")
<1>1. ContextGrows /\ AttemptsOK /\ HistoryOK' /\ seen \subseteq Node /\ restarts \in Nat
  BY ContextStep, HistoryStep DEF ClusterInv, StateOK, ServerInv, GCSTypeOK
<1> DEFINE Good == AttemptsOK' /\ IdleStays
<1>2. ASSUME UNCHANGED attempts PROVE Good
  <2>1. \A u \in Uid, i \in Slots : AttemptOK(u, i)'
    BY <1>1, <1>2, KeptIsOK DEF AttemptsOK
  <2>2. QED
    BY <1>1, <1>2, <2>1 DEF AttemptsOK, IdleStays
<1>3. ASSUME NEW u \in Uid, ScheduleRegisters(u) \/ ScheduleDispatches(u) \/ RerunRefused(u)
      PROVE  Good
  BY <1>1, <1>2, <1>3, DispatchIsOK DEF ScheduleRegisters, RerunRefused, cvars
<1>4. ASSUME NEW u \in Uid, NEW i \in Slots, AttemptStep(u, i) \/ OddStep(u, i)
      PROVE  Good
  <2>1. CASE Pick(u, i) \/ VisitPicks(u, i)
    BY <1>1, <2>1, PickIsOK
  <2>2. CASE Register(u, i)
    BY <1>1, <2>2, RegisterIsOK
  <2>3. CASE RunStarts(u, i) \/ RunFetches(u, i)
    <3>1. PICK from \in {"run", "fetch"}, to \in {"fetch", "execute"} : Step(u, i, from, to)
      BY <2>3 DEF RunStarts, RunFetches
    <3>2. attempts[u][i].task.uid = u => Protected(u)'
      BY <1>1, <3>1 DEF Step, AttemptsOK, AttemptOK, ContextGrows
    <3>3. QED
      BY <1>1, <3>1, <3>2, StepIsOK
  <2>4. CASE RunStores(u, i)
    <3>1. Step(u, i, "execute", "done")
      BY <2>4 DEF RunStores
    <3>2. QED
      BY <1>1, <3>1, StepIsOK
  <2>5. CASE Ends(u, i)
    BY <1>1, <2>5, EndsIsOK
  <2>6. CASE GlobalSchedulerEnds
    BY <1>1, <2>6, GlobalSchedulerEndsIsOK
  <2>7. CASE Locate(u, i)
    <3>1. Step(u, i, "pick", "visit")
      BY <2>7 DEF Locate
    <3>2. QED
      BY <1>1, <3>1, StepIsOK
  <2>8. CASE \E n \in Node : Skip(u, i, n)
    BY <1>2, <2>8 DEF Skip
  <2>9. CASE RunCallFails(u, i)
    BY <1>1, <2>5, <2>6, <2>9, RunCallFailsIsOK DEF RunCallFails
  <2>10. QED
    BY <1>4, <2>1, <2>2, <2>3, <2>4, <2>5, <2>6, <2>7, <2>8, <2>9
    DEF AttemptStep, PickFails, LocateFails, VisitFails, RunHangs, RunReturns,
        RunFails, OddStep, TaskRaises, MapRace
<1>5. CASE SweepSteps
  <2>1. CASE SendLiveNodes \/ SweepStep
    BY <1>2, <2>1 DEF SendLiveNodes, SweepStep, cvars
  <2>2. CASE LaunchReruns
    BY <1>1, <2>2, RerunIsOK DEF LaunchReruns, LaunchSchedules
  <2>3. QED
    BY <1>5, <2>1, <2>2 DEF SweepSteps
<1>6. ASSUME NEW u \in Uid, NEW c \in Client, Ask(u, c) PROVE Good
  BY <1>2, <1>6 DEF Ask
<1>7. CASE Announce \/ Answer \/ Flush \/ RegisterFunction \/ RestartFunctionTable
  BY <1>2, <1>7 DEF Announce, Answer, Flush, RegisterFunction, RestartFunctionTable, cvars
<1>8. CASE RestartGCS
  BY <1>1, <1>8, RestartIsOK
<1>9. ASSUME NEW n \in Node, KillNode(n) \/ CrashNode(n) \/ Notice(n) \/ Recover(n)
      PROVE  Good
  BY <1>1, <1>2, <1>9, CrashIsOK DEF KillNode, Notice, Recover, Unseen
<1>10. ASSUME NEW nodes \in SUBSET Node, Misjudge(nodes) PROVE Good
  BY <1>2, <1>10 DEF Misjudge, Unseen
<1>11. CASE UNCHANGED clvars
  BY <1>2, <1>11 DEF clvars, cvars
<1>12. QED
  BY <1>3, <1>4, <1>5, <1>6, <1>7, <1>8, <1>9, <1>10, <1>11
  DEF ClusterNext, OddStep

-----------------------------------------------------------------------------
(* Who hands out uids, and what ends the global scheduler.                 *)

(***************************************************************************)
(* log.Fatalf or an abort: no node to pick, an error of Run or of          *)
(* GetObjectLocations, a race on the map, or an exception of the task.     *)
(***************************************************************************)
SchedulerFails ==
  \E u \in Uid, i \in Slots :
    \/ PickFails(u, i) \/ LocateFails(u, i) \/ VisitFails(u, i)
    \/ RunError(u, i) /\ UNCHANGED history
    \/ Note("raised", u) \/ Lost("run", u)
    \/ history' = [history EXCEPT !.raced = TRUE]
LEMMA ControlKinds ==
  ASSUME [ClusterNext]_clvars
  PROVE  /\ UNCHANGED issued \/ \E u \in Uid : ScheduleRegisters(u)
         /\ UNCHANGED dispatched \/ \E u \in Uid : ScheduleDispatches(u)
         /\ UNCHANGED gsUp \/ (gsUp' = FALSE /\ SchedulerFails)
<1> DEFINE Same == UNCHANGED <<issued, dispatched, gsUp>>
           Kinds == /\ UNCHANGED issued \/ \E u \in Uid : ScheduleRegisters(u)
                    /\ UNCHANGED dispatched \/ \E u \in Uid : ScheduleDispatches(u)
                    /\ UNCHANGED gsUp \/ (gsUp' = FALSE /\ SchedulerFails)
<1>1. ASSUME UNCHANGED gvars PROVE UNCHANGED issued
  BY <1>1 DEF gvars, rvars
<1>2. ASSUME NEW u \in Uid, ScheduleRegisters(u) PROVE Kinds
  BY <1>2 DEF ScheduleRegisters, Elsewhere
<1>3. ASSUME NEW u \in Uid, ScheduleDispatches(u) PROVE Kinds
  BY <1>1, <1>3 DEF ScheduleDispatches
<1>4. ASSUME NEW u \in Uid, RerunRefused(u) PROVE Same
  BY <1>4 DEF RerunRefused, ScheduleReturns, cvars
<1>5. ASSUME NEW u \in Uid, NEW i \in Slots, Ends(u, i), Elsewhere PROVE Same
  BY <1>1, <1>5 DEF Ends, ScheduleReturns, Elsewhere
<1>6. ASSUME GlobalSchedulerEnds
      PROVE  gsUp' = FALSE /\ UNCHANGED <<issued, dispatched>>
  BY <1>6 DEF GlobalSchedulerEnds
<1>7. ASSUME NEW u \in Uid, NEW i \in Slots, AttemptStep(u, i) \/ OddStep(u, i)
      PROVE  Kinds
  <2>1. CASE \/ Pick(u, i) \/ Locate(u, i) \/ VisitPicks(u, i) \/ RunStarts(u, i)
             \/ RunFetches(u, i) \/ \E n \in Node : Skip(u, i, n)
    BY <1>1, <2>1 DEF Pick, Locate, VisitPicks, Skip, RunStarts, RunFetches, Elsewhere
  <2>2. CASE PickFails(u, i) \/ LocateFails(u, i) \/ VisitFails(u, i)
    BY <1>6, <2>2 DEF PickFails, LocateFails, VisitFails, SchedulerFails
  <2>3. CASE Register(u, i) \/ RunStores(u, i)
    BY <1>1, <2>3 DEF Register, RunStores, RegisterGenerating, GCSNotifyOwns, Elsewhere
  <2>4. CASE RunHangs(u, i) \/ RunReturns(u, i)
    BY <1>5, <2>4 DEF RunHangs, RunReturns
  <2>5. CASE RunFails(u, i)
    BY <1>5, <1>6, <2>5 DEF RunFails, SchedulerFails
  <2>6. CASE TaskRaises(u, i)
    BY <1>5, <1>6, <2>6 DEF TaskRaises, SchedulerFails
  <2>7. CASE MapRace(u, i)
    BY <1>6, <2>7 DEF MapRace, SchedulerFails
  <2>8. CASE RunCallFails(u, i)
    BY <1>1, <1>5, <1>6, <2>8 DEF RunCallFails, SchedulerFails, Elsewhere
  <2>9. QED
    BY <1>7, <2>1, <2>2, <2>3, <2>4, <2>5, <2>6, <2>7, <2>8 DEF AttemptStep, OddStep
<1>8. CASE SweepSteps
  BY <1>8 DEF SweepSteps, SendLiveNodes, SweepStep, LaunchReruns, GCSRegisterLiveNodes,
     CollectGenerating, CollectLocated, ReadGenerating, ReadLocations, LaunchSchedules,
     Elsewhere, cvars
<1>9. ASSUME NEW u \in Uid, NEW c \in Client, Ask(u, c) PROVE Same
  BY <1>9 DEF Ask, GCSRequestLocation, rvars, Elsewhere
<1>10. CASE Announce \/ Answer \/ Flush \/ RegisterFunction \/ RestartGCS \/ RestartFunctionTable
  BY <1>1, <1>10 DEF Announce, Answer, Flush, RegisterFunction, RestartGCS, RestartFunctionTable,
     NotifyOwnsAppends, GCSsendCallback, GCSflushToDisk, GCSRestart, rvars, cvars,
     Elsewhere
<1>11. ASSUME NEW n \in Node, KillNode(n) \/ CrashNode(n) \/ Notice(n) \/ Recover(n)
       PROVE  Same
  BY <1>1, <1>11 DEF KillNode, CrashNode, Notice, Recover, Unseen
<1>12. ASSUME NEW nodes \in SUBSET Node, Misjudge(nodes) PROVE Same
  BY <1>1, <1>12 DEF Misjudge, Unseen
<1>13. CASE UNCHANGED clvars
  BY <1>1, <1>13 DEF clvars, cvars
<1>14. QED
  BY <1>2, <1>3, <1>4, <1>7, <1>8, <1>9, <1>10, <1>11, <1>12, <1>13
  DEF ClusterNext, OddStep

(* The maps, the nodes and the history keep their types. *)
LEMMA StateStep ==
  ASSUME ClusterInv, [ClusterNext]_clvars
  PROVE  StateOK'
<1>1. StateOK /\ HistoryOK' /\ ContextGrows
  BY HistoryStep, ContextStep DEF ClusterInv, StateOK
<1>2. FuncTypeOK'
  <2>1. CASE UNCHANGED fvars
    BY <1>1, <2>1 DEF fvars, FuncTypeOK, StateOK
  <2>2. CASE RegisterFunction
    BY <1>1, <2>2 DEF RegisterFunction, RegisterFunc, FuncTypeOK, StateOK
  <2>3. CASE RestartFunctionTable
    BY <1>1, <2>3, FuncAssumption DEF RestartFunctionTable, FuncRestart, FuncTypeOK, StateOK
  <2>4. QED
    BY <2>1, <2>2, <2>3, FuncKinds
<1>3. dispatched' \subseteq issued'
  BY <1>1, ControlKinds DEF ScheduleDispatches, StateOK, ContextGrows
<1>4. gsUp' \in BOOLEAN
  BY <1>1, ControlKinds DEF StateOK
<1>5. alive' \subseteq Node /\ crashed' \subseteq Node /\ seen' \subseteq Node
  BY <1>1, NodesStep DEF StateOK
<1>6. skipped' \in [Uid -> [Slots -> SUBSET Node]]
  BY <1>1, SkippedKinds DEF LoopsEnd, VisitPicks, Skip, StateOK
<1>7. QED
  BY <1>1, <1>2, <1>3, <1>4, <1>5, <1>6 DEF StateOK

(* A uid that gets out has its function registered, and its lineage or not. *)
LEMMA IssuedStep ==
  ASSUME ClusterInv, [ClusterNext]_clvars
  PROVE  FunctionsAreKept' /\ LineageOrLost'
<1>1. StateOK /\ StateOK' /\ ContextGrows /\ ServerGrows /\ HistoryGrows
  BY HistoryStep, ContextStep, StateStep, ServerStepInCluster DEF ClusterInv, StateOK
<1>2. ASSUME funcRestarts' = 0 PROVE functionStore' = registered'
  <2>1. CASE UNCHANGED fvars
    BY <1>2, <2>1 DEF fvars, ClusterInv, FunctionsAreKept
  <2>2. CASE RegisterFunction
    BY <1>2, <2>2 DEF RegisterFunction, RegisterFunc, ClusterInv, FunctionsAreKept
  <2>3. CASE RestartFunctionTable
    BY <1>1, <1>2, <2>3 DEF RestartFunctionTable, FuncRestart, StateOK, FuncTypeOK
  <2>4. QED
    BY <2>1, <2>2, <2>3, FuncKinds
<1>3. ASSUME NEW u \in Uid, ScheduleRegisters(u)
      PROVE  /\ Task[u].name \in registered /\ issued' = issued \cup {u}
             /\ restarts' = restarts
             /\ lineage \subseteq lineage'
             /\ u \in lineage' \/ u \in history'.lost["lineage"]
  <2>1. CASE RegisterLineage(u)
    BY <1>3, <2>1 DEF ScheduleRegisters, RegisterLineage
  <2>2. CASE /\ Lost("lineage", u) /\ issued' = issued \cup {u}
             /\ UNCHANGED <<tvars, lineage, generating, announcing, swvars, schedules,
                            restarts>>
    <3>1. history'.lost = [history.lost EXCEPT !["lineage"] = @ \cup {u}]
      BY <1>1, <2>2 DEF Lost, StateOK, HistoryOK
    <3>2. u \in history'.lost["lineage"]
      BY <1>1, <3>1 DEF StateOK, HistoryOK, Calls
    <3>3. QED
      BY <1>3, <2>2, <3>2 DEF ScheduleRegisters
  <2>3. QED
    BY <1>3, <2>1, <2>2 DEF ScheduleRegisters
<1>4. \A u \in issued' : Task[u].name \in registered'
  BY <1>1, <1>3, ControlKinds DEF ClusterInv, FunctionsAreKept, ContextGrows
<1>5. LineageOrLost'
  <2> SUFFICES ASSUME restarts' = 0, NEW x \in issued'
               PROVE  x \in lineage' \/ x \in history'.lost["lineage"]
    BY DEF LineageOrLost
  <2>1. restarts = 0 /\ lineage \subseteq lineage'
    BY <1>1 DEF ServerGrows
  <2>2. history.lost["lineage"] \subseteq history'.lost["lineage"]
    BY <1>1 DEF HistoryGrows, Calls
  <2>3. x \in issued => x \in lineage' \/ x \in history'.lost["lineage"]
    BY <2>1, <2>2 DEF ClusterInv, LineageOrLost
  <2>4. QED
    BY <1>3, <2>3, ControlKinds
<1>6. QED
  BY <1>2, <1>4, <1>5 DEF FunctionsAreKept

(***************************************************************************)
(* The global scheduler ends for one of the reasons: an attempt that must  *)
(* get an error from Run has a crashed node, a function the table has      *)
(* lost, an empty task, or a caller that ended; a loop that found no node  *)
(* was overtaken by a heartbeat, or there was none.                        *)
(***************************************************************************)
LEMMA EndsStep ==
  ASSUME ClusterInv, [ClusterNext]_clvars
  PROVE  EndsOnlyAfterFault'
<1> DEFINE Fault ==
       \/ crashed # {} \/ restarts > 0 \/ funcRestarts > 0
       \/ history.blind \/ history.raced \/ history.raised # {}
       \/ \E call \in {"lineage", "run", "locate"} : history.lost[call] # {}
<1>1. StateOK /\ HistoryOK /\ HistoryOK' /\ HistoryGrows /\ ContextGrows /\ AttemptsOK
  BY HistoryStep, ContextStep DEF ClusterInv, StateOK
<1>2. funcRestarts > 0 => funcRestarts' > 0
  BY <1>1, FuncKinds DEF fvars, RegisterFunction, RegisterFunc, RestartFunctionTable,
     FuncRestart, StateOK, FuncTypeOK
<1>3. Fault => EndsOnlyAfterFault'
  BY <1>1, <1>2 DEF HistoryGrows, ContextGrows, EndsOnlyAfterFault, Calls
<1>4. ASSUME NEW u \in Uid, NEW i \in Slots, PickFails(u, i) PROVE Fault
  <2>1. seen = {} /\ Home[u] \in Node
    BY <1>4, ClusterAssumption DEF PickFails
  <2>2. QED
    BY <2>1 DEF ClusterInv, NodesAreSeen
<1>5. ASSUME NEW u \in Uid, NEW i \in Slots, RunError(u, i) PROVE Fault
  <2> DEFINE a == attempts[u][i]
  <2>1. AttemptOK(u, i)
    BY <1>1 DEF AttemptsOK
  <2>2. CASE a.node \in crashed
    BY <2>2
  <2>3. CASE a.by = "cancelled"
    BY <2>1, <2>3 DEF AttemptOK
  <2>4. CASE a.pc = "fetch" /\ ~FetchFunc(RunOf(a).name)
    <3>1. a.task.name \notin functionStore
      BY <2>4 DEF FetchFunc, RunOf
    <3>2. CASE a.task.name \in registered
      <4>1. funcRestarts # 0 /\ funcRestarts \in Nat
        BY <1>1, <3>1, <3>2 DEF ClusterInv, FunctionsAreKept, StateOK, FuncTypeOK
      <4>2. QED
        BY <4>1
    <3>3. CASE restarts > 0 \/ history.lost["lineage"] # {}
      BY <3>3
    <3>4. QED
      BY <2>1, <2>4, <3>2, <3>3 DEF AttemptOK
  <2>5. QED
    BY <1>5, <2>2, <2>3, <2>4 DEF RunError
<1>6. ASSUME NEW u \in Uid, Note("raised", u) PROVE EndsOnlyAfterFault'
  <2>1. u \in history'.raised
    BY <1>1, <1>6 DEF Note, HistoryOK
  <2>2. QED
    BY <2>1 DEF EndsOnlyAfterFault
<1>7. ASSUME NEW u \in Uid, NEW call \in {"run", "locate"}, Lost(call, u)
      PROVE  EndsOnlyAfterFault'
  <2>1. call \in Calls
    BY DEF Calls
  <2>2. history'.lost = [history.lost EXCEPT ![call] = @ \cup {u}]
    BY <1>1, <1>7 DEF Lost, HistoryOK
  <2>3. u \in history'.lost[call]
    BY <1>1, <2>1, <2>2 DEF HistoryOK
  <2>4. QED
    BY <2>3 DEF EndsOnlyAfterFault
<1>8. ASSUME NEW u \in Uid, NEW i \in Slots, LocateFails(u, i)
      PROVE  EndsOnlyAfterFault'
  <2>1. CASE attempts[u][i].by = "cancelled"
    BY <1>1, <1>3, <2>1 DEF AttemptsOK, AttemptOK
  <2>2. QED
    BY <1>7, <1>8, <2>1 DEF LocateFails
<1>9. ASSUME NEW u \in Uid, NEW i \in Slots, VisitFails(u, i) PROVE Fault
  <2>1. skipped[u][i] = Node /\ Home[u] \in Node
    BY <1>9, ClusterAssumption DEF VisitFails
  <2>2. history.raced \/ skipped[u][i] \cap seen = {}
    BY DEF ClusterInv, NodesAreSeen
  <2>3. history.raced \/ seen = {}
    BY <1>1, <2>1, <2>2 DEF StateOK
  <2>4. QED
    BY <2>1, <2>3 DEF ClusterInv, NodesAreSeen
<1>10. ASSUME history' = [history EXCEPT !.raced = TRUE] PROVE EndsOnlyAfterFault'
  <2>1. history'.raced
    BY <1>1, <1>10 DEF HistoryOK
  <2>2. QED
    BY <2>1 DEF EndsOnlyAfterFault
<1>11. CASE UNCHANGED gsUp
  <2>1. gsUp \/ Fault
    BY DEF ClusterInv, EndsOnlyAfterFault
  <2>2. QED
    BY <1>3, <1>11, <2>1 DEF EndsOnlyAfterFault
<1>12. CASE SchedulerFails
  BY <1>3, <1>4, <1>5, <1>6, <1>7, <1>8, <1>9, <1>10, <1>12 DEF SchedulerFails
<1>13. QED
  BY <1>11, <1>12, ControlKinds

-----------------------------------------------------------------------------
(* Heartbeats, and the nodes that a loop has skipped: while it does not    *)
(* count as raced, none of them has sent a heartbeat since.                *)
LEMMA SeenStep ==
  ASSUME ClusterInv, [ClusterNext]_clvars
  PROVE  NodesAreSeen'
<1>1. StateOK /\ HistoryOK /\ HistoryOK' /\ HistoryGrows /\ NodesAreSeen
  BY HistoryStep DEF ClusterInv, StateOK
<1>2. seen' = {} => history'.blind \/ Node = {}
  <2>1. CASE UNCHANGED <<alive, crashed, seen>>
    BY <1>1, <2>1 DEF NodesAreSeen, HistoryGrows
  <2>2. ASSUME NEW n \in Node, KillNode(n) \/ CrashNode(n)
        PROVE  UNCHANGED <<seen, history>>
    BY <2>2 DEF KillNode, CrashNode
  <2>3. ASSUME NEW n \in Node, Notice(n) PROVE seen' = {} => history'.blind
    BY <1>1, <2>3 DEF Notice, HistoryOK
  <2>4. ASSUME NEW n \in Node, Recover(n) PROVE seen' # {}
    BY <2>4 DEF Recover
  <2>5. ASSUME NEW nodes \in SUBSET Node, Misjudge(nodes)
        PROVE  seen' = {} => history'.blind
    BY <1>1, <2>5 DEF Misjudge, HistoryOK
  <2>6. QED
    BY <1>1, <2>1, <2>2, <2>3, <2>4, <2>5, NodesKinds DEF NodesAreSeen
<1>3. \/ seen' \subseteq seen
      \/ \E n \in Node : Recover(n)
  BY NodesKinds DEF KillNode, CrashNode, Notice, Misjudge, Unseen
<1>4. ASSUME ~history'.raced, NEW u \in Uid, NEW i \in Slots
      PROVE  skipped'[u][i] \cap seen' = {}
  <2>1. skipped[u][i] \cap seen = {}
    BY <1>1, <1>4 DEF NodesAreSeen, HistoryGrows
  <2>2. ASSUME NEW n \in Node, Recover(n) PROVE skipped'[u][i] \cap seen' = {}
    <3>1. history'.raced = (history.raced \/ \E v \in Uid, j \in Slots : n \in skipped[v][j])
      BY <1>1, <2>2 DEF Recover, HistoryOK
    <3>2. n \notin skipped[u][i]
      BY <1>4, <3>1
    <3>3. QED
      BY <2>1, <2>2, <3>2 DEF Recover
  <2>3. CASE seen' \subseteq seen
    <3>1. CASE UNCHANGED skipped \/ LoopsEnd
      BY <2>1, <2>3, <3>1 DEF LoopsEnd
    <3>2. ASSUME NEW v \in Uid, NEW j \in Slots, VisitPicks(v, j)
          PROVE  skipped'[u][i] \subseteq skipped[u][i]
      BY <1>1, <3>2 DEF VisitPicks, StateOK
    <3>3. ASSUME NEW v \in Uid, NEW j \in Slots, NEW n \in Node, Skip(v, j, n)
          PROVE  skipped'[u][i] \subseteq skipped[u][i] \cup {n} /\ n \notin seen
      BY <1>1, <3>3 DEF Skip, StateOK
    <3>4. QED
      BY <2>1, <2>3, <3>1, <3>2, <3>3, SkippedKinds
  <2>4. QED
    BY <1>3, <2>2, <2>3
<1>5. QED
  BY <1>2, <1>4 DEF NodesAreSeen

-----------------------------------------------------------------------------
(* The sweep.                                                              *)

(* A sweep starts with SendLiveNodes, which sees to the free slots. *)
LEMMA SweepStarts ==
  ASSUME [ClusterNext]_clvars, sweep' # "idle"
  PROVE  sweep # "idle" \/ SendLiveNodes
<1> DEFINE Same == UNCHANGED sweep
<1>1. ASSUME UNCHANGED gvars PROVE Same
  BY <1>1 DEF gvars, rvars
<1>2. ASSUME UNCHANGED rvars PROVE Same
  BY <1>2 DEF rvars
<1>3. ASSUME NEW u \in Uid, ScheduleRegisters(u) \/ ScheduleDispatches(u) \/ RerunRefused(u)
      PROVE  Same
  BY <1>1, <1>3 DEF ScheduleRegisters, RegisterLineage, ScheduleDispatches,
     RerunRefused, ScheduleReturns, swvars
<1>4. ASSUME NEW u \in Uid, NEW i \in Slots, Ends(u, i) PROVE Same
  BY <1>1, <1>4 DEF Ends, ScheduleReturns, swvars
<1>5. ASSUME GlobalSchedulerEnds PROVE Same
  BY <1>5 DEF GlobalSchedulerEnds, swvars
<1>6. ASSUME NEW u \in Uid, NEW i \in Slots, AttemptStep(u, i) \/ OddStep(u, i)
      PROVE  Same
  <2>1. CASE Register(u, i) \/ RunStores(u, i)
    BY <1>1, <2>1 DEF Register, RunStores, RegisterGenerating, GCSNotifyOwns, swvars
  <2>2. QED
    BY <1>1, <1>4, <1>5, <1>6, <2>1 DEF AttemptStep, Pick, PickFails, Locate,
       LocateFails, Skip, VisitPicks, VisitFails, RunStarts, RunFetches, RunHangs,
       RunReturns, RunFails, OddStep, TaskRaises, MapRace, RunCallFails
<1>7. CASE SweepStep
  BY <1>7 DEF SweepStep, CollectGenerating, CollectLocated, ReadLocations, ReadGenerating
<1>8. CASE LaunchReruns \/ RestartGCS
  BY <1>8 DEF LaunchReruns, LaunchSchedules, RestartGCS, GCSRestart
<1>9. ASSUME NEW u \in Uid, NEW c \in Client, Ask(u, c) PROVE Same
  BY <1>2, <1>9 DEF Ask, GCSRequestLocation
<1>10. CASE Announce \/ Answer \/ Flush
  BY <1>2, <1>10 DEF Announce, NotifyOwnsAppends, Answer, GCSsendCallback, Flush,
     GCSflushToDisk, swvars
<1>11. CASE RegisterFunction \/ RestartFunctionTable
  BY <1>1, <1>11 DEF RegisterFunction, RestartFunctionTable
<1>12. ASSUME NEW n \in Node, KillNode(n) \/ CrashNode(n) \/ Notice(n) \/ Recover(n)
       PROVE  Same
  BY <1>1, <1>12 DEF KillNode, CrashNode, Notice, Recover, Unseen
<1>13. ASSUME NEW nodes \in SUBSET Node, Misjudge(nodes) PROVE Same
  BY <1>1, <1>13 DEF Misjudge, Unseen
<1>14. CASE UNCHANGED clvars
  BY <1>1, <1>14 DEF clvars
<1>15. QED
  BY <1>3, <1>6, <1>7, <1>8, <1>9, <1>10, <1>11, <1>12, <1>13, <1>14
  DEF ClusterNext, SweepSteps, OddStep

(* The free slots that a sweep starts with are there when it ends. *)
LEMMA SlotsStep ==
  ASSUME ClusterInv, [ClusterNext]_clvars
  PROVE  SlotsAreFree'
<1> SUFFICES ASSUME sweep' # "idle"
             PROVE  \A u \in Uid : \E i \in Slots \ {0} : attempts'[u][i] = Idle
  BY DEF SlotsAreFree
<1>1. IdleStays
  BY AttemptsStep
<1>2. CASE SendLiveNodes
  BY <1>1, <1>2 DEF SendLiveNodes, IdleStays
<1>3. CASE sweep # "idle"
  BY <1>1, <1>3 DEF ClusterInv, SlotsAreFree, IdleStays
<1>4. QED
  BY <1>2, <1>3, SweepStarts

-----------------------------------------------------------------------------
(* Initially nothing has happened. *)
LEMMA ClusterInitInv == ClusterInit => ClusterInv
<1> SUFFICES ASSUME ClusterInit PROVE ClusterInv
  OBVIOUS
<1>1. Inv /\ ServerInv
  BY InitInv, ServerInitInv DEF ClusterInit, GCSInit
<1>2. HistoryOK
  BY DEF ClusterInit, NothingHappened, HistoryOK, Calls
<1>3. StateOK
  BY <1>2, FuncAssumption DEF ClusterInit, FuncInit, FuncTypeOK, GCSInit, StateOK
<1>4. \A u \in Uid, i \in Slots : attempts[u][i] = Idle
  BY DEF ClusterInit
<1>5. AttemptsOK
  <2>1. attempts \in [Uid -> [Slots -> Attempt]]
    BY TaskTypes DEF ClusterInit
  <2>2. ASSUME NEW u \in Uid, NEW i \in Slots PROVE AttemptOK(u, i)
    BY <1>4, TaskTypes DEF AttemptOK, CallsInTask, Idle
  <2>3. QED
    BY <2>1, <2>2 DEF AttemptsOK
<1>6. SlotsAreFree /\ LineageOrLost /\ FunctionsAreKept /\ NodesAreSeen
  BY DEF ClusterInit, GCSInit, FuncInit, SlotsAreFree, LineageOrLost, FunctionsAreKept,
     NodesAreSeen
<1>7. EndsOnlyAfterFault
  BY DEF ClusterInit, EndsOnlyAfterFault
<1>8. QED
  BY <1>1, <1>3, <1>5, <1>6, <1>7 DEF ClusterInv

(* Every step preserves the inductive invariant. *)
LEMMA ClusterNextInv == ClusterInv /\ [ClusterNext]_clvars => ClusterInv'
BY TableStep, ServerStepInCluster, StateStep, AttemptsStep, SlotsStep, IssuedStep,
   SeenStep, EndsStep DEF ClusterInv

(***************************************************************************)
(* The inductive invariant holds in every reachable state of the cluster.  *)
(***************************************************************************)
THEOREM ClusterInvariance == ClusterSpec => []ClusterInv
BY ClusterInitInv, ClusterNextInv, PTL DEF ClusterSpec

(***************************************************************************)
(* Whatever schedulers, workers and faults do around it, what the server   *)
(* goes through in the cluster is a behaviour of ObjectTable, so that the  *)
(* theorems about the table hold in the cluster.                           *)
(***************************************************************************)
THEOREM ClusterUsesTable == ClusterSpec => Spec
<1>1. ClusterInit => Init
  BY DEF ClusterInit, GCSInit
<1>2. ClusterInv /\ [ClusterNext]_clvars => [Next]_tvars
  BY TableStep
<1>3. QED
  BY <1>1, <1>2, ClusterInvariance, PTL DEF ClusterSpec, Spec

(***************************************************************************)
(* The cluster keeps the promise of LocationService.                       *)
(***************************************************************************)
THEOREM ClusterKeepsRendezvous == ClusterSpec => Rendezvous
BY ClusterUsesTable, ImplementsRendezvous, PTL

(***************************************************************************)
(* Type correctness: in particular a goroutine of either Schedule never    *)
(* registers or calls node id 0, and a rerun always finds a slot.          *)
(***************************************************************************)
THEOREM ClusterTypeCorrect == ClusterSpec => []ClusterTypeOK
<1>1. ClusterInv => ClusterTypeOK
  BY DEF ClusterInv, ServerInv, StateOK, AttemptsOK, AttemptOK, CallsInTask, ClusterTypeOK
<1>2. QED
  BY <1>1, ClusterInvariance, PTL

(***************************************************************************)
(* kill_node, a misjudged node and lost registrations or announcements     *)
(* never end the global scheduler, by log.Fatalf or otherwise, with any    *)
(* number of nodes, tasks and sweeps; what can is what EndsOnlyAfterFault  *)
(* lists, a failed Run or GetObjectLocations and the map race included.    *)
(***************************************************************************)
THEOREM KillsDoNotEndScheduler == ClusterSpec => []EndsOnlyAfterFault
<1>1. ClusterInv => EndsOnlyAfterFault
  BY DEF ClusterInv
<1>2. QED
  BY <1>1, ClusterInvariance, PTL

(***************************************************************************)
(* While a worker runs a task, the GCS could run it again, or has its      *)
(* object, or the lost call or the restart that prevents it is on record.  *)
(***************************************************************************)
THEOREM RunsAreProtected == ClusterSpec => []RunningIsProtected
<1>1. ClusterInv => RunningIsProtected
  BY DEF ClusterInv, AttemptsOK, AttemptOK, Protected, RunningIsProtected
<1>2. QED
  BY <1>1, ClusterInvariance, PTL
=============================================================================
