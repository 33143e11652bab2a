-------------------------------- MODULE MCPools --------------------------------
(***************************************************************************)
(* Small instances of ConnPool, and of the handlers on the pools.  They    *)
(* share no state: part says which of the two a behaviour is about, and    *)
(* the other keeps its initial state.                                      *)
(***************************************************************************)
EXTENDS ConnPool, RequestPools

(* Threads wait with and without a timeout: the whole interface of the     *)
(* class.                                                                  *)
BothWaits == BOOLEAN

(* The pools of Redis and of the master are exhausted before the slave's. *)
TwoSlaves == [p \in Pools |-> IF p = "slave" THEN 2 ELSE 1]

VARIABLE part

PoolsInit == part \in {"pool", "handlers"} /\ Init /\ HandlersInit

PoolStep     == part = "pool" /\ Next /\ UNCHANGED <<part, handlerVars>>
HandlersStep == part = "handlers" /\ HandlersNext /\ UNCHANGED <<part, vars>>
PoolsNext    == PoolStep \/ HandlersStep

(* Each part has its own fairness; both are met by the part that stays. *)
PoolsSpec ==
    /\ PoolsInit /\ [][PoolsNext]_<<part, vars, handlerVars>>
    /\ \A t \in Threads :
          /\ WF_vars(part = "pool" /\ Wake(t))
          /\ WF_vars(part = "pool" /\ Timeout(t))
          /\ WF_vars(part = "pool" /\ RelDBConn(t))
    /\ \A t \in Workers : WF_handlerVars(part = "handlers" /\ Run(t))
================================================================================
