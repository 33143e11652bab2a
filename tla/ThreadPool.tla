------------------------------- MODULE ThreadPool -------------------------------
(***************************************************************************)
(* The thread pool of base/tc_thread_pool.cc: threads that take tasks from *)
(* a queue, callers of WaitForAllDone, and Stop.  Workers and callers wait *)
(* on one condition variable.  What is done under mutex_ between two waits *)
(* is one step.                                                            *)
(*                                                                         *)
(* A task may need another one's future; nobody stops the pool or waits    *)
(* for all tasks then (with a shared condition variable a notification for *)
(* a worker may reach the waiter, see the README).                         *)
(***************************************************************************)
EXTENDS Integers, Sequences, SequencesExt, FiniteSets

CONSTANTS
    Threads,     \* threads of the pool
    Callers,     \* threads that call WaitForAllDone
    Tasks        \* bound: tasks that are given to the pool, in this order

VARIABLES
    tasks_,      \* the queue
    terminate_,
    atomic_,     \* tasks that are being run
    waiting,     \* condition_: the threads in its wait set
    timed,       \* callers whose wait ends after some time: millsecond >= 0
    at,          \* where each thread and each caller is
    task,        \* the task a thread holds, 0 for none
    done,        \* tasks that were run or dropped because they had expired
    given,       \* tasks given so far
    needs,       \* needs[t]: the tasks whose futures t waits for
    stop         \* the caller of Stop: "no", "joining", "returned"

vars == <<tasks_, terminate_, atomic_, waiting, timed, at, task, done, given, needs, stop>>

NoTask == 0
TaskIds == 1..Tasks
Independent == [t \in TaskIds |-> {}]
FirstNeedsSecond == [Independent EXCEPT ![1] = {2}]

(* Start *)
Init ==
    /\ tasks_ = <<>> /\ terminate_ = FALSE /\ atomic_ = 0 /\ waiting = {} /\ timed = {}
    /\ at = [p \in Threads \cup Callers |-> IF p \in Threads THEN "loop" ELSE "out"]
    /\ task = [w \in Threads |-> NoTask]
    /\ done = {} /\ given = 0
    /\ needs \in {Independent, FirstNeedsSecond}
    /\ stop = "no"

-----------------------------------------------------------------------------
(* condition_.notify_one: whoever waits, a worker or a caller. *)
NotifyOne(set) == IF set = {} THEN {set} ELSE {set \ {p} : p \in set}

(* Mutant: only the task that finds the queue empty wakes a worker. *)
Exec_IfEmpty ==
    /\ given < Tasks
    /\ given' = given + 1
    /\ tasks_' = Append(tasks_, given')
    /\ waiting' \in IF tasks_ = <<>> THEN NotifyOne(waiting) ELSE {waiting}
    /\ UNCHANGED <<terminate_, atomic_, at, task, done, needs, stop, timed>>

Exec ==
    /\ given < Tasks
    /\ given' = given + 1
    /\ tasks_' = Append(tasks_, given')
    /\ waiting' \in NotifyOne(waiting)
    /\ UNCHANGED <<terminate_, atomic_, at, task, done, needs, stop, timed>>

(* IsTerminate reads terminate_ without the lock: it may miss a Stop that  *)
(* this thread has not seen under the lock.                                *)
IsTerminate(w) ==
    /\ at[w] = "loop"
    /\ \E seen \in {terminate_, FALSE} :
           at' = [at EXCEPT ![w] = IF seen THEN "ended" ELSE "get"]
    /\ UNCHANGED <<tasks_, terminate_, atomic_, waiting, task, done, given, needs, stop, timed>>

(* Get, from its beginning or after a wait (which ends by a notification   *)
(* or on its own).  A thread that finds the pool terminated has seen it    *)
(* under the lock, and leaves Run.                                         *)
Get(w) ==
    /\ at[w] = "get"
    /\ IF terminate_
       THEN /\ at' = [at EXCEPT ![w] = "ended"]
            /\ waiting' = waiting \ {w}
            /\ UNCHANGED <<tasks_, task>>
       ELSE IF tasks_ = <<>>
       THEN waiting' = waiting \cup {w} /\ UNCHANGED <<tasks_, task, at>>
       ELSE /\ task' = [task EXCEPT ![w] = Head(tasks_)]
            /\ tasks_' = Tail(tasks_)
            /\ at' = [at EXCEPT ![w] = "count"]
            /\ waiting' = waiting \ {w}
    /\ UNCHANGED <<terminate_, atomic_, done, given, needs, stop, timed>>

Count(w) ==
    /\ at[w] = "count"
    /\ atomic_' = atomic_ + 1
    /\ at' = [at EXCEPT ![w] = "run"]
    /\ UNCHANGED <<tasks_, terminate_, waiting, task, done, given, needs, stop, timed>>

(* The task is run, or dropped because its time is over, and not counted   *)
(* any more.                                                               *)
RunTask(w) ==
    /\ at[w] = "run"
    /\ needs[task[w]] \subseteq done
    /\ done' = done \cup {task[w]}
    /\ atomic_' = atomic_ - 1
    /\ at' = [at EXCEPT ![w] = "check"]
    /\ UNCHANGED <<tasks_, terminate_, waiting, task, given, needs, stop, timed>>

(* Run, after a task: who finds that no task is left or being run wakes    *)
(* everybody.                                                              *)
Check(w) ==
    /\ at[w] = "check"
    /\ waiting' = IF atomic_ = 0 /\ tasks_ = <<>> THEN {} ELSE waiting
    /\ task' = [task EXCEPT ![w] = NoTask]
    /\ at' = [at EXCEPT ![w] = "loop"]
    /\ UNCHANGED <<tasks_, terminate_, atomic_, done, given, needs, stop, timed>>

(* WaitForAllDone, with a time or without *)
WaitForAllDone(c) ==
    /\ at[c] = "out" /\ needs = Independent
    /\ at' = [at EXCEPT ![c] = IF tasks_ = <<>> THEN "done" ELSE "wait"]
    /\ waiting' = IF tasks_ = <<>> THEN waiting ELSE waiting \cup {c}
    /\ timed' \in IF tasks_ = <<>> THEN {timed} ELSE {timed, timed \cup {c}}
    /\ UNCHANGED <<tasks_, terminate_, atomic_, task, done, given, needs, stop>>

(* The condition is the empty queue; Stop is no part of it. *)
WaitAgain(c) ==
    /\ at[c] = "wait"
    /\ at' = [at EXCEPT ![c] = IF tasks_ = <<>> THEN "done" ELSE "wait"]
    /\ waiting' = IF tasks_ = <<>> THEN waiting \ {c} ELSE waiting \cup {c}
    /\ UNCHANGED <<tasks_, terminate_, atomic_, task, done, given, needs, stop, timed>>

WaitTimeout(c) ==
    /\ at[c] = "wait" /\ c \in timed
    /\ at' = [at EXCEPT ![c] = "done"]
    /\ waiting' = waiting \ {c}
    /\ UNCHANGED <<tasks_, terminate_, atomic_, task, done, given, needs, stop, timed>>

(* Stop: the flag, then the joins. *)
Stop ==
    /\ stop = "no" /\ needs = Independent
    /\ terminate_' = TRUE
    /\ waiting' = {}
    /\ stop' = "joining"
    /\ UNCHANGED <<tasks_, atomic_, at, task, done, given, needs, timed>>

Joined ==
    /\ stop = "joining"
    /\ \A w \in Threads : at[w] = "ended"
    /\ stop' = "returned"
    /\ UNCHANGED <<tasks_, terminate_, atomic_, waiting, at, task, done, given, needs, timed>>

(* A wait may end without a notification. *)
SpuriousWake(p) ==
    /\ p \in waiting
    /\ waiting' = waiting \ {p}
    /\ UNCHANGED <<tasks_, terminate_, atomic_, at, task, done, given, needs, stop, timed>>

Awake(p) == p \notin waiting
Worker(w) ==
    Awake(w) /\ (IsTerminate(w) \/ Get(w) \/ Count(w) \/ RunTask(w) \/ Check(w))
Caller(c) == Awake(c) /\ WaitAgain(c)

Next ==
    \/ Exec
    \/ \E w \in Threads : Worker(w)
    \/ \E c \in Callers : WaitForAllDone(c) \/ Caller(c) \/ WaitTimeout(c)
    \/ Stop
    \/ Joined
    \/ \E p \in waiting : SpuriousWake(p)

(* A thread that can run does and a time passes; no other wait is relied   *)
(* on to end by itself, and a task that has what it needs ends.            *)
Fairness ==
    /\ \A w \in Threads : WF_vars(Worker(w))
    /\ \A c \in Callers : WF_vars(Caller(c)) /\ WF_vars(WaitTimeout(c))
    /\ WF_vars(Joined)

Spec == Init /\ [][Next]_vars /\ Fairness

-----------------------------------------------------------------------------
(* Workers and callers wait on one condition variable, and still: a task   *)
(* that was given is run (while no one stops the pool), also when another  *)
(* task holds a thread until then; a caller returns, once the queue is     *)
(* empty or its time over; and Stop ends with all threads gone.  A caller  *)
(* without a time is left asleep when the pool is stopped before the queue *)
(* is empty: nobody takes a task any more, and Stop is not waited for.     *)
TasksRun    == \A t \in TaskIds :
    (given >= t /\ needs[t] \subseteq 1..given) ~> (t \in done \/ terminate_)
WaitsEnd    == \A c \in Callers :
    (at[c] = "wait") ~> (at[c] = "done" \/ (c \notin timed /\ terminate_ /\ tasks_ # <<>>))
StopReturns == (stop = "joining") ~> (stop = "returned")
PoolServes  == TasksRun /\ WaitsEnd /\ StopReturns

(* tc_thread_pool.h:35 of WaitForAllDone without a time: "wait without end *)
(* (note that somebody who calls stop makes it leave as well)".            *)
StopEndsWaits == \A c \in Callers :
    (at[c] = "wait" /\ c \notin timed /\ terminate_) ~> (at[c] = "done")
=================================================================================
