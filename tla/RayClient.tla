----------------------------- MODULE RayClient -----------------------------
(***************************************************************************)
(* The messages that the models send (proto/rayclient.proto and the Go     *)
(* structs and getters generated from it): one record set per message.     *)
(* Payloads that nobody on the way looks at (arguments, function and       *)
(* object bytes, what only tests set) are left out.                        *)
(*                                                                         *)
(* proto3 has no absent fields: a getter answers zero, an empty list or    *)
(* FALSE for a field that the sender did not set, and for all fields of a  *)
(* nil message.                                                            *)
(***************************************************************************)
EXTENDS Naturals

CONSTANTS UidField,   \* object uids
          NodeField,  \* node ids
          NameField,  \* function names
          Count       \* numbers of tasks, average times, sizes

(* To the global scheduler. *)
GlobalScheduleRequest == [uid : UidField, name : NameField, uids : SUBSET UidField,
                          nodeId : NodeField, localityFlag : BOOLEAN]
HeartbeatRequest == [runningTasks : Count, queuedTasks : Count,
                     avgRunningTime : Count, nodeId : NodeField]

(* To the local scheduler. *)
ScheduleRequest == [name : NameField, uids : SUBSET UidField,
                    nodeId : NodeField, localityFlag : BOOLEAN]

(* To the worker, and from it. *)
RunRequest == [uid : UidField, name : NameField]
WorkerStatusResponse == [numRunningTasks : Count, numQueuedTasks : Count,
                         averageRunningTime : Count]

(* To the local object store. *)
StoreRequest == [uid : UidField]
GetRequest == [uid : UidField, copy : BOOLEAN, cache : BOOLEAN]
LocationFoundCallback == [uid : UidField, location : NodeField]

(* To the GCS object table. *)
NotifyOwnsRequest == [uid : UidField, nodeId : NodeField, objectSize : Count]
GeneratingRequest == [uid : UidField, nodeId : NodeField]

(* From the GCS: how often each node is in the list, and the size; of the  *)
(* uids asked about, some are in the map.                                  *)
LocationByteTuple == [locations : [NodeField -> Nat], bytes : Count]
IsObjectLocationsResponse(r) ==
  /\ DOMAIN r \subseteq UidField
  /\ \A u \in DOMAIN r : r[u] \in LocationByteTuple
=============================================================================
