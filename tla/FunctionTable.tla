--------------------------- MODULE FunctionTable ---------------------------
(***************************************************************************)
(* The GCS function table (go/cmd/gcsfunctable): a map from random names   *)
(* to serialised functions, in memory only.  RegisterFunc is called by the *)
(* client's remote decorator, which keeps the name for all later calls;    *)
(* FetchFunc by workers at the start of every Run.  Both hold the lock.    *)
(***************************************************************************)
EXTENDS Naturals

CONSTANTS Name,             \* function names that may be drawn
          MaxFuncRestarts   \* bound: restarts of the table

ASSUME FuncAssumption == MaxFuncRestarts \in Nat

VARIABLES functionStore,  \* names with a function
          registered,     \* names that clients hold (RemoteFunction.name)
          funcRestarts    \* history: restarts of the table

fvars == <<functionStore, registered, funcRestarts>>

FuncTypeOK ==
  /\ functionStore \subseteq Name
  /\ registered \subseteq Name
  /\ funcRestarts \in 0 .. MaxFuncRestarts

FuncInit == functionStore = {} /\ registered = {} /\ funcRestarts = 0

(* A name of 64 random bits is new. *)
RegisterFunc(name) ==
  /\ name \notin registered
  /\ functionStore' = functionStore \cup {name}
  /\ registered' = registered \cup {name}
  /\ UNCHANGED funcRestarts

(* FetchFunc answers, or says NotFound. *)
FetchFunc(name) == name \in functionStore

(* The process ends and starts again: the clients keep names it forgot. *)
FuncRestart ==
  /\ funcRestarts < MaxFuncRestarts
  /\ functionStore' = {}
  /\ funcRestarts' = funcRestarts + 1
  /\ UNCHANGED registered
=============================================================================
