---------------------------- MODULE ResourcePool ----------------------------
(***************************************************************************)
(* What a connection pool promises its callers, without a lock, a free     *)
(* list or a condition variable.  A client that asks is granted a resource *)
(* that nobody else has, or is refused; the resources open together are a  *)
(* set that Allowed has, and a new one is opened only when every open one  *)
(* is in use.                                                              *)
(*                                                                         *)
(* ConnPool (CDBPool of mysql/db_pool.cc) is shown to implement this.      *)
(***************************************************************************)
CONSTANTS Clients,     \* who may ask
          Resources,   \* the identities a resource can have
          NoResource,  \* "none"
          Allowed      \* the sets of resources that may be open together

VARIABLES owned,       \* client -> the resource it has, or NoResource
          asking,      \* the clients whose request is not answered yet
          open         \* the resources opened so far

poolVars == <<owned, asking, open>>

InUse == {owned[t] : t \in Clients} \ {NoResource}

Init ==
    /\ owned = [t \in Clients |-> NoResource]
    /\ asking = {}
    /\ open \in Allowed

Ask(t) ==
    /\ t \notin asking
    /\ owned[t] = NoResource
    /\ asking' = asking \cup {t}
    /\ UNCHANGED <<owned, open>>

(* A request may be granted at once, or after it was recorded by Ask. *)
Grant(t) ==
    /\ owned[t] = NoResource
    /\ \E c \in Resources \ InUse :
          /\ c \in open \/ open = InUse
          /\ open' = open \cup {c}
          /\ open' \in Allowed
          /\ owned' = [owned EXCEPT ![t] = c]
    /\ asking' = asking \ {t}

Refuse(t) ==
    /\ t \in asking
    /\ asking' = asking \ {t}
    /\ UNCHANGED <<owned, open>>

Return(t) ==
    /\ owned[t] # NoResource
    /\ owned' = [owned EXCEPT ![t] = NoResource]
    /\ UNCHANGED <<asking, open>>

Next == \E t \in Clients : Ask(t) \/ Grant(t) \/ Refuse(t) \/ Return(t)

Spec == Init /\ [][Next]_poolVars
=============================================================================
