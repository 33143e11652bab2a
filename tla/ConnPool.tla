------------------------------- MODULE ConnPool -------------------------------
(***************************************************************************)
(* CDBPool of mysql/db_pool.cc (CachePool of redis/cache_pool.cc has the   *)
(* same GetCacheConn / RelCacheConn): a list of free connections, a count  *)
(* of opened ones, one mutex and one condition variable.                   *)
(*                                                                         *)
(* Both operations run under mutex_ from their first to their last         *)
(* statement, except inside cond_var_.wait: an action is therefore one     *)
(* uninterrupted hold of the mutex.  A thread inside the wait is "asleep"  *)
(* (in the condition variable's wait set, mutex released) or "woken"       *)
(* (notified, timed out or woken spuriously, and about to take the mutex   *)
(* and evaluate the wait's predicate).                                     *)
(*                                                                         *)
(* The destructor is left out: nothing in the program deletes a pool, so   *)
(* abort_request_ is FALSE in every state the program can be in.           *)
(***************************************************************************)
EXTENDS Naturals, Sequences, FiniteSets

CONSTANTS
    Threads,      \* the threads that serve requests
    Conns,        \* the identities a CDBConn object can have
    NoConn,       \* the NULL a failed GetDBConn returns
    MinConn,      \* MIN_DB_CONN_CNT: opened by Init
    MaxConn,      \* db_max_conn_cnt_
    TimedWaits,   \* {FALSE}: timeout_ms = 0, what CDBManager passes;
                  \* BOOLEAN: the interface of the class
    MaxRequests   \* bound: connections one thread asks for

PoolLimit == IF MinConn <= MaxConn THEN MaxConn ELSE MinConn

ASSUME PoolAssumption ==
    /\ IsFiniteSet(Threads)
    /\ IsFiniteSet(Conns)
    /\ NoConn \notin Conns
    /\ MinConn \in Nat \ {0}
    /\ MaxConn \in Nat
    /\ PoolLimit <= Cardinality(Conns)
    /\ TimedWaits \in SUBSET BOOLEAN
    /\ MaxRequests \in Nat

VARIABLES
    free_list,    \* free_list_, front first
    cur_conn_cnt, \* db_cur_conn_cnt_
    pc,           \* thread -> where it is
    held,         \* thread -> the connection its AutoRelDBCon will release
    timed,        \* thread -> it waits with a timeout
    requests      \* thread -> requests made so far

vars == <<free_list, cur_conn_cnt, pc, held, timed, requests>>

FreeConns == {free_list[i] : i \in DOMAIN free_list}
HeldConns == {held[t] : t \in {u \in Threads : pc[u] = "using"}}
OpenConns == FreeConns \cup HeldConns

Asleep == {t \in Threads : pc[t] = "asleep"}
Woken  == {t \in Threads : pc[t] = "woken"}

-----------------------------------------------------------------------------
(* The constructor sets the count to the minimum and Init() opens that     *)
(* many connections; if one cannot be opened the program does not start.   *)
Init ==
    /\ cur_conn_cnt = MinConn
    /\ free_list \in [1..MinConn -> Conns]
    /\ \A i, j \in 1..MinConn : free_list[i] = free_list[j] => i = j
    /\ pc = [t \in Threads |-> "idle"]
    /\ held = [t \in Threads |-> NoConn]
    /\ timed = [t \in Threads |-> FALSE]
    /\ requests = [t \in Threads |-> 0]

(* Mutant: front() without pop_front(). *)
TakeFront_NoPop(t) ==
    /\ held' = [held EXCEPT ![t] = Head(free_list)]
    /\ UNCHANGED free_list
    /\ pc' = [pc EXCEPT ![t] = "using"]

(* front() and pop_front() *)
TakeFront(t) ==
    /\ held' = [held EXCEPT ![t] = Head(free_list)]
    /\ free_list' = Tail(free_list)
    /\ pc' = [pc EXCEPT ![t] = "using"]

NewRequest(t) ==
    /\ pc[t] = "idle"
    /\ requests[t] < MaxRequests
    /\ requests' = [requests EXCEPT ![t] = @ + 1]

(* GetDBConn finds a free connection. *)
GetFree(t) ==
    /\ NewRequest(t)
    /\ free_list # << >>
    /\ TakeFront(t)
    /\ UNCHANGED <<cur_conn_cnt, timed>>

(* Mutant: one connection too many. *)
GetOpened_Over(t) ==
    /\ NewRequest(t)
    /\ free_list = << >>
    /\ cur_conn_cnt <= MaxConn
    /\ \E c \in Conns \ OpenConns :
          held' = [held EXCEPT ![t] = c]
    /\ cur_conn_cnt' = cur_conn_cnt + 1
    /\ pc' = [pc EXCEPT ![t] = "using"]
    /\ UNCHANGED <<free_list, timed>>

(* GetDBConn opens a connection, pushes it on the (empty) list, counts it  *)
(* and pops it again.                                                      *)
GetOpened(t) ==
    /\ NewRequest(t)
    /\ free_list = << >>
    /\ cur_conn_cnt < MaxConn
    /\ \E c \in Conns \ OpenConns :
          held' = [held EXCEPT ![t] = c]
    /\ cur_conn_cnt' = cur_conn_cnt + 1
    /\ pc' = [pc EXCEPT ![t] = "using"]
    /\ UNCHANGED <<free_list, timed>>

(* Mutant: counted before it is known whether it opened. *)
GetNotOpened_Counted(t) ==
    /\ NewRequest(t)
    /\ free_list = << >>
    /\ cur_conn_cnt < MaxConn
    /\ cur_conn_cnt' = cur_conn_cnt + 1
    /\ UNCHANGED <<free_list, pc, held, timed>>

(* GetDBConn cannot open one (Init of the connection fails): the object is *)
(* deleted, the count stays, NULL is returned.                             *)
GetNotOpened(t) ==
    /\ NewRequest(t)
    /\ free_list = << >>
    /\ cur_conn_cnt < MaxConn
    /\ UNCHANGED <<free_list, cur_conn_cnt, pc, held, timed>>

(* GetDBConn enters the wait: the predicate is false, the mutex is given   *)
(* up and the thread joins the wait set in one step.                       *)
GetWait(t) ==
    /\ NewRequest(t)
    /\ free_list = << >>
    /\ cur_conn_cnt >= MaxConn
    /\ \E b \in TimedWaits : timed' = [timed EXCEPT ![t] = b]
    /\ pc' = [pc EXCEPT ![t] = "asleep"]
    /\ UNCHANGED <<free_list, cur_conn_cnt, held>>

(* A wakeup nobody asked for, which a condition variable permits. *)
SpuriousWake(t) ==
    /\ pc[t] = "asleep"
    /\ pc' = [pc EXCEPT ![t] = "woken"]
    /\ UNCHANGED <<free_list, cur_conn_cnt, held, timed, requests>>

(* A woken thread has the mutex again and evaluates the predicate: it      *)
(* leaves with the front connection, or goes back to sleep.                *)
Wake(t) ==
    /\ pc[t] = "woken"
    /\ \/ /\ free_list # << >>
          /\ TakeFront(t)
       \/ /\ free_list = << >>
          /\ pc' = [pc EXCEPT ![t] = "asleep"]
          /\ UNCHANGED <<free_list, held>>
    /\ UNCHANGED <<cur_conn_cnt, timed, requests>>

(* wait_for's deadline passes, for a thread asleep or already woken: it    *)
(* takes a connection if there is one after all, and returns NULL if not.  *)
Timeout(t) ==
    /\ pc[t] \in {"asleep", "woken"}
    /\ timed[t]
    /\ \/ /\ free_list # << >>
          /\ TakeFront(t)
       \/ /\ free_list = << >>
          /\ pc' = [pc EXCEPT ![t] = "idle"]
          /\ UNCHANGED <<free_list, held>>
    /\ UNCHANGED <<cur_conn_cnt, timed, requests>>

(* Mutant: nobody is told. *)
NotifyOne_Silent(f) == pc' = f

(* notify_one: one thread of the wait set, if there is any. *)
NotifyOne(f) ==
    IF Asleep = {} THEN pc' = f
    ELSE \E u \in Asleep : pc' = [f EXCEPT ![u] = "woken"]

(* Mutant: notify only when the list was empty. *)
RelDBConn_IfEmpty(t) ==
    /\ pc[t] = "using"
    /\ held' = [held EXCEPT ![t] = NoConn]
    /\ free_list' = Append(free_list, held[t])
    /\ IF free_list = << >>
       THEN NotifyOne([pc EXCEPT ![t] = "idle"])
       ELSE pc' = [pc EXCEPT ![t] = "idle"]
    /\ UNCHANGED <<cur_conn_cnt, timed, requests>>

(* Mutant: the caller keeps its pointer. *)
RelDBConn_Kept(t) ==
    /\ pc[t] = "using"
    /\ free_list' = Append(free_list, held[t])
    /\ NotifyOne([pc EXCEPT ![t] = "idle"])
    /\ UNCHANGED <<cur_conn_cnt, held, timed, requests>>

(* RelDBConn, called by the destructor of the handler's AutoRelDBCon.  A   *)
(* connection that is on the list already is not put there twice.          *)
RelDBConn(t) ==
    /\ pc[t] = "using"
    /\ held' = [held EXCEPT ![t] = NoConn]
    /\ IF held[t] \in FreeConns
       THEN /\ pc' = [pc EXCEPT ![t] = "idle"]
            /\ UNCHANGED free_list
       ELSE /\ free_list' = Append(free_list, held[t])
            /\ NotifyOne([pc EXCEPT ![t] = "idle"])
    /\ UNCHANGED <<cur_conn_cnt, timed, requests>>

Step(t) ==
    \/ GetFree(t) \/ GetOpened(t) \/ GetNotOpened(t) \/ GetWait(t)
    \/ SpuriousWake(t) \/ Wake(t) \/ Timeout(t) \/ RelDBConn(t)

Next == \E t \in Threads : Step(t)

Spec == Init /\ [][Next]_vars

(* A woken thread gets the mutex, a deadline passes, and a handler that    *)
(* has a connection comes to its end.  Nothing is assumed of which sleeper *)
(* a notification picks, nor that a new request is ever made.              *)
Fairness ==
    \A t \in Threads :
        WF_vars(Wake(t)) /\ WF_vars(Timeout(t)) /\ WF_vars(RelDBConn(t))

FairSpec == Spec /\ Fairness

-----------------------------------------------------------------------------
TypeOK ==
    /\ free_list \in Seq(Conns)
    /\ cur_conn_cnt \in Nat
    /\ pc \in [Threads -> {"idle", "asleep", "woken", "using"}]
    /\ held \in [Threads -> Conns \cup {NoConn}]
    /\ \A t \in Threads : held[t] # NoConn <=> pc[t] = "using"
    /\ timed \in [Threads -> BOOLEAN]
    /\ requests \in [Threads -> Nat]

(* Two handlers never run SQL on the same connection, a connection in use  *)
(* is not on free_list_, and none is there twice: so the "already          *)
(* returned" branch of RelDBConn is never taken.                           *)
Exclusive ==
    /\ \A t, u \in Threads : pc[t] = "using" /\ held[t] = held[u] => t = u
    /\ \A t \in Threads : pc[t] = "using" => held[t] \notin FreeConns
    /\ \A i, j \in DOMAIN free_list : free_list[i] = free_list[j] => i = j

(* db_cur_conn_cnt_ is the number of connections that exist, however many  *)
(* attempts to open one failed, and it never passes the configured limit.  *)
Accounting ==
    /\ Cardinality(OpenConns) = cur_conn_cnt
    /\ cur_conn_cnt <= PoolLimit

(* While a thread sleeps in GetDBConn, every free connection has a woken   *)
(* thread on its way to it: no notification is lost to a thread that comes *)
(* in between, to a timeout or to a spurious wakeup.  And nobody waits     *)
(* where a connection could have been opened instead.                      *)
NoLostWakeup ==
    /\ Asleep # {} => Len(free_list) <= Cardinality(Woken)
    /\ Asleep \cup Woken # {} => cur_conn_cnt >= MaxConn

(* A thread that waits for a connection gets one, or NULL when it gave a   *)
(* timeout.                                                                *)
WaitersServed ==
    \A t \in Threads :
        pc[t] \in {"asleep", "woken"} ~>
            (pc[t] = "using" \/ (timed[t] /\ pc[t] = "idle"))

-----------------------------------------------------------------------------
(* The pool implements ResourcePool: a connection is granted when          *)
(* TakeFront hands it over, and a request is open while its thread waits.  *)
Abstract == INSTANCE ResourcePool WITH
    Clients <- Threads, Resources <- Conns, NoResource <- NoConn,
    Allowed <- {S \in SUBSET Conns : Cardinality(S) <= PoolLimit},
    owned <- held, asking <- Asleep \cup Woken, open <- OpenConns

(* Behind the mutex, the list and the wait set, callers see a ResourcePool:  *)
(* a connection nobody else has, a new one only when all are in use, never *)
(* more than the limit.                                                    *)
ImplementsPool == Abstract!Spec
=============================================================================
