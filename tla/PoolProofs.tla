------------------------------- MODULE PoolProofs -------------------------------
(***************************************************************************)
(* Proofs about ConnPool, and about the handlers as users of the pools     *)
(* (RequestPools), for every number of threads and connections.            *)
(*                                                                         *)
(* The inductive invariant of ConnPool is the conjunction of what the runs *)
(* check: Exclusive is needed to see that RelDBConn and TakeFront only     *)
(* move a connection (so that the set of open ones, hence Accounting, is   *)
(* unchanged), and NoLostWakeup counts the woken threads against the list. *)
(*                                                                         *)
(* The handlers wait for each other in no circle, since all of them take   *)
(* their connections in one order of the pools, slave before token.        *)
(***************************************************************************)
EXTENDS ConnPool, RequestPools, FiniteSetTheorems, TLAPS

IInv == TypeOK /\ Exclusive /\ Accounting /\ NoLostWakeup

(* The front connection leaves the list, everything else stays on it. *)
LEMMA TailFacts ==
    ASSUME NEW S, NEW s \in Seq(S), s # << >>,
           \A i, j \in DOMAIN s : s[i] = s[j] => i = j
    PROVE  /\ Tail(s) \in Seq(S)
           /\ Head(s) \in S
           /\ Head(s) \in {s[i] : i \in DOMAIN s}
           /\ Len(s) \in Nat
           /\ Len(Tail(s)) = Len(s) - 1
           /\ {Tail(s)[i] : i \in DOMAIN Tail(s)} = {s[i] : i \in DOMAIN s} \ {Head(s)}
           /\ \A i, j \in DOMAIN Tail(s) : Tail(s)[i] = Tail(s)[j] => i = j
<1>1. /\ Tail(s) \in Seq(S)
      /\ Head(s) \in S
      /\ Len(s) \in Nat
      /\ Len(s) > 0
      /\ Len(Tail(s)) = Len(s) - 1
      /\ DOMAIN s = 1..Len(s)
      /\ DOMAIN Tail(s) = 1..(Len(s) - 1)
      /\ Head(s) = s[1]
      /\ \A i \in 1..(Len(s) - 1) : Tail(s)[i] = s[i + 1]
  OBVIOUS
<1>2. \A i \in DOMAIN Tail(s) : i + 1 \in DOMAIN s /\ i + 1 # 1
  BY <1>1
<1>3. \A i \in DOMAIN s : i # 1 => i - 1 \in DOMAIN Tail(s) /\ s[i] = Tail(s)[i - 1]
  BY <1>1
<1>4. Head(s) \in {s[i] : i \in DOMAIN s}
  BY <1>1
<1>5. {Tail(s)[i] : i \in DOMAIN Tail(s)} = {s[i] : i \in DOMAIN s} \ {Head(s)}
  <2>1. ASSUME NEW i \in DOMAIN Tail(s)
        PROVE  Tail(s)[i] \in {s[j] : j \in DOMAIN s} \ {Head(s)}
    BY <1>1, <1>2
  <2>2. ASSUME NEW i \in DOMAIN s, s[i] # Head(s)
        PROVE  s[i] \in {Tail(s)[j] : j \in DOMAIN Tail(s)}
    BY <1>1, <1>3, <2>2
  <2> QED BY <2>1, <2>2
<1>6. \A i, j \in DOMAIN Tail(s) : Tail(s)[i] = Tail(s)[j] => i = j
  BY <1>1, <1>2
<1> QED BY <1>1, <1>4, <1>5, <1>6

(* A connection that was not on the list is appended to it. *)
LEMMA AppendFacts ==
    ASSUME NEW S, NEW s \in Seq(S), NEW e \in S, e \notin {s[i] : i \in DOMAIN s},
           \A i, j \in DOMAIN s : s[i] = s[j] => i = j
    PROVE  /\ Append(s, e) \in Seq(S)
           /\ Len(Append(s, e)) = Len(s) + 1
           /\ {Append(s, e)[i] : i \in DOMAIN Append(s, e)} = {s[i] : i \in DOMAIN s} \cup {e}
           /\ \A i, j \in DOMAIN Append(s, e) :
                 Append(s, e)[i] = Append(s, e)[j] => i = j
<1> DEFINE a == Append(s, e)
<1>1. /\ a \in Seq(S)
      /\ Len(s) \in Nat
      /\ Len(a) = Len(s) + 1
      /\ DOMAIN s = 1..Len(s)
      /\ DOMAIN a = 1..(Len(s) + 1)
      /\ a[Len(s) + 1] = e
      /\ \A i \in DOMAIN s : a[i] = s[i]
  OBVIOUS
<1> HIDE DEF a
<1>2. \A i \in DOMAIN a : i \in DOMAIN s \/ i = Len(s) + 1
  BY <1>1
<1>3. DOMAIN s \subseteq DOMAIN a /\ Len(s) + 1 \in DOMAIN a
  BY <1>1
<1>4. {a[i] : i \in DOMAIN a} = {s[i] : i \in DOMAIN s} \cup {e}
  <2>1. ASSUME NEW i \in DOMAIN a PROVE a[i] \in {s[j] : j \in DOMAIN s} \cup {e}
    BY <1>1, <1>2
  <2>2. ASSUME NEW i \in DOMAIN s PROVE s[i] \in {a[j] : j \in DOMAIN a}
    BY <1>1, <1>3
  <2>3. e \in {a[j] : j \in DOMAIN a}
    BY <1>1, <1>3
  <2> QED BY <2>1, <2>2, <2>3
<1>5. ASSUME NEW i \in DOMAIN a, NEW j \in DOMAIN a, a[i] = a[j] PROVE i = j
  BY <1>1, <1>2, <1>5
<1> QED BY <1>1, <1>4, <1>5 DEF a

(* Moving one thread out of a finite set of threads, or into it. *)
LEMMA WokenFacts ==
    ASSUME TypeOK
    PROVE  /\ IsFiniteSet(Woken)
           /\ Cardinality(Woken) \in Nat
           /\ \A t \in Woken : Cardinality(Woken \ {t}) = Cardinality(Woken) - 1
           /\ \A t \in Threads \ Woken : Cardinality(Woken \cup {t}) = Cardinality(Woken) + 1
<1>1. IsFiniteSet(Woken)
  <2>1. Woken \subseteq Threads
    BY DEF Woken
  <2> QED BY <2>1, FS_Subset, PoolAssumption
<1>2. Cardinality(Woken) \in Nat
  BY <1>1, FS_CardinalityType
<1>3. \A t \in Woken : Cardinality(Woken \ {t}) = Cardinality(Woken) - 1
  BY <1>1, FS_RemoveElement
<1>4. \A t \in Threads \ Woken : Cardinality(Woken \cup {t}) = Cardinality(Woken) + 1
  BY <1>1, FS_AddElement
<1> QED BY <1>1, <1>2, <1>3, <1>4

(* Whoever takes the front connection, from outside or out of the wait,    *)
(* preserves the invariant and leaves the set of open connections alone.   *)
LEMMA TakeFrontStep ==
    ASSUME IInv, NEW t \in Threads, pc[t] # "using", free_list # << >>,
           TakeFront(t), cur_conn_cnt' = cur_conn_cnt,
           timed' \in [Threads -> BOOLEAN], requests' \in [Threads -> Nat]
    PROVE  IInv' /\ OpenConns' = OpenConns
<1> DEFINE c == Head(free_list)
<1>0. TypeOK /\ Exclusive /\ Accounting /\ NoLostWakeup
  BY DEF IInv
<1>1. /\ free_list' \in Seq(Conns)
      /\ c \in Conns
      /\ c \in FreeConns
      /\ Len(free_list) \in Nat
      /\ Len(free_list') = Len(free_list) - 1
      /\ FreeConns' = FreeConns \ {c}
      /\ \A i, j \in DOMAIN free_list' : free_list'[i] = free_list'[j] => i = j
  <2>1. /\ free_list \in Seq(Conns)
        /\ free_list # << >>
        /\ \A i, j \in DOMAIN free_list : free_list[i] = free_list[j] => i = j
    BY <1>0 DEF TypeOK, Exclusive
  <2>2. /\ Tail(free_list) \in Seq(Conns)
        /\ Head(free_list) \in Conns
        /\ Head(free_list) \in FreeConns
        /\ Len(free_list) \in Nat
        /\ Len(Tail(free_list)) = Len(free_list) - 1
        /\ {Tail(free_list)[i] : i \in DOMAIN Tail(free_list)}
              = FreeConns \ {Head(free_list)}
        /\ \A i, j \in DOMAIN Tail(free_list) :
              Tail(free_list)[i] = Tail(free_list)[j] => i = j
    BY <2>1, TailFacts, Zenon DEF FreeConns
  <2>3. free_list' = Tail(free_list)
    BY DEF TakeFront
  <2> QED BY <2>2, <2>3, Zenon DEF FreeConns
<1>2. /\ pc' = [pc EXCEPT ![t] = "using"]
      /\ held' = [held EXCEPT ![t] = c]
  BY DEF TakeFront
<1> HIDE DEF c
<1>3. TypeOK'
  BY <1>0, <1>1, <1>2, PoolAssumption DEF TypeOK
<1>4. Exclusive'
  <2>1. \A u \in Threads : pc[u] = "using" => held[u] # c
    BY <1>0, <1>1 DEF Exclusive
  <2>2. \A u, v \in Threads : pc'[u] = "using" /\ held'[u] = held'[v] => u = v
    BY <1>0, <1>1, <1>2, <2>1, PoolAssumption DEF TypeOK, Exclusive
  <2>3. \A u \in Threads : pc'[u] = "using" => held'[u] \notin FreeConns'
    BY <1>0, <1>1, <1>2 DEF TypeOK, Exclusive
  <2> QED BY <1>1, <2>2, <2>3 DEF Exclusive
<1>5. OpenConns' = OpenConns
  <2>1. HeldConns' = HeldConns \cup {c}
    BY <1>0, <1>2 DEF HeldConns, TypeOK
  <2> QED BY <1>1, <2>1 DEF OpenConns
<1>6. Accounting'
  BY <1>0, <1>5 DEF Accounting
<1>7. NoLostWakeup'
  <2>1. Asleep' = Asleep \ {t} /\ Woken' = Woken \ {t}
    BY <1>0, <1>2 DEF Asleep, Woken, TypeOK
  <2>2. SUFFICES ASSUME Asleep # {} PROVE Len(free_list') <= Cardinality(Woken')
    BY <1>0, <2>1 DEF NoLostWakeup
  <2>3. Len(free_list) <= Cardinality(Woken)
    BY <1>0, <2>2 DEF NoLostWakeup
  <2>4. CASE t \in Woken
    BY <1>0, <1>1, <2>1, <2>3, <2>4, WokenFacts
  <2>5. CASE t \notin Woken
    <3>1. Woken' = Woken
      BY <2>1, <2>5
    <3> QED BY <1>0, <1>1, <2>3, <3>1, WokenFacts
  <2> QED BY <2>4, <2>5
<1> QED BY <1>3, <1>4, <1>5, <1>6, <1>7 DEF IInv

(* RelDBConn puts back a connection that was not on the list, and wakes a  *)
(* sleeper for it when there is one.                                       *)
LEMMA RelStep ==
    ASSUME IInv, NEW t \in Threads, RelDBConn(t)
    PROVE  /\ IInv'
           /\ OpenConns' = OpenConns
           /\ held' = [held EXCEPT ![t] = NoConn]
           /\ (Asleep \cup Woken)' = Asleep \cup Woken
<1> DEFINE c == held[t]
<1>0. TypeOK /\ Exclusive /\ Accounting /\ NoLostWakeup
  BY DEF IInv
<1>1. /\ pc[t] = "using"
      /\ c \in Conns
      /\ c \notin FreeConns
      /\ held' = [held EXCEPT ![t] = NoConn]
      /\ free_list' = Append(free_list, c)
      /\ NotifyOne([pc EXCEPT ![t] = "idle"])
      /\ UNCHANGED <<cur_conn_cnt, timed, requests>>
  BY <1>0 DEF RelDBConn, TypeOK, Exclusive
<1> HIDE DEF c
<1>2. /\ free_list' \in Seq(Conns)
      /\ Len(free_list) \in Nat
      /\ Len(free_list') = Len(free_list) + 1
      /\ FreeConns' = FreeConns \cup {c}
      /\ \A i, j \in DOMAIN free_list' : free_list'[i] = free_list'[j] => i = j
  <2>1. /\ free_list \in Seq(Conns)
        /\ Len(free_list) \in Nat
        /\ \A i, j \in DOMAIN free_list : free_list[i] = free_list[j] => i = j
    BY <1>0 DEF TypeOK, Exclusive
  <2>2. /\ Append(free_list, c) \in Seq(Conns)
        /\ Len(Append(free_list, c)) = Len(free_list) + 1
        /\ {Append(free_list, c)[i] : i \in DOMAIN Append(free_list, c)}
              = FreeConns \cup {c}
        /\ \A i, j \in DOMAIN Append(free_list, c) :
              Append(free_list, c)[i] = Append(free_list, c)[j] => i = j
    BY <1>1, <2>1, AppendFacts, Zenon DEF FreeConns
  <2> QED BY <1>1, <2>1, <2>2, ZenonT(30) DEF FreeConns
<1>3. \/ /\ Asleep = {}
         /\ pc' = [pc EXCEPT ![t] = "idle"]
      \/ \E u \in Asleep : pc' = [[pc EXCEPT ![t] = "idle"] EXCEPT ![u] = "woken"]
  BY <1>1 DEF NotifyOne
<1>4. /\ pc' \in [Threads -> {"idle", "asleep", "woken", "using"}]
      /\ \A v \in Threads : pc'[v] = "using" <=> pc[v] = "using" /\ v # t
  BY <1>0, <1>1, <1>3 DEF TypeOK, Asleep
<1>5. TypeOK'
  BY <1>0, <1>1, <1>2, <1>4, PoolAssumption DEF TypeOK
<1>6. Exclusive'
  <2>1. \A u \in Threads : pc[u] = "using" /\ u # t => held[u] # c
    BY <1>0, <1>1 DEF Exclusive, c
  <2>2. \A u, v \in Threads : pc'[u] = "using" /\ held'[u] = held'[v] => u = v
    BY <1>0, <1>1, <1>4, PoolAssumption DEF TypeOK, Exclusive
  <2>3. \A u \in Threads : pc'[u] = "using" => held'[u] \notin FreeConns'
    BY <1>0, <1>1, <1>2, <1>4, <2>1 DEF TypeOK, Exclusive
  <2> QED BY <1>2, <2>2, <2>3 DEF Exclusive
<1>7. OpenConns' = OpenConns
  <2>1. HeldConns = HeldConns' \cup {c}
    BY <1>0, <1>1, <1>4 DEF HeldConns, TypeOK, c
  <2> QED BY <1>2, <2>1 DEF OpenConns
<1>8. Accounting'
  BY <1>0, <1>1, <1>7 DEF Accounting
<1>9. (Asleep \cup Woken)' = Asleep \cup Woken
  BY <1>0, <1>1, <1>3 DEF TypeOK, Asleep, Woken
<1>10. NoLostWakeup'
  <2>0. (Asleep \cup Woken)' # {} => cur_conn_cnt' >= MaxConn
    BY <1>0, <1>1, <1>9 DEF NoLostWakeup
  <2>1. SUFFICES ASSUME Asleep' # {}
                 PROVE  Len(free_list') <= Cardinality(Woken')
    BY <2>0 DEF NoLostWakeup
  <2>2. PICK u \in Asleep : pc' = [[pc EXCEPT ![t] = "idle"] EXCEPT ![u] = "woken"]
    BY <1>0, <1>3, <2>1 DEF Asleep, TypeOK
  <2>3. Len(free_list) <= Cardinality(Woken)
    BY <1>0, <2>2 DEF NoLostWakeup
  <2>4. Woken' = Woken \cup {u} /\ u \in Threads \ Woken
    BY <1>0, <1>1, <2>2 DEF Woken, Asleep, TypeOK
  <2> QED BY <1>0, <1>2, <2>3, <2>4, WokenFacts
<1> QED BY <1>1, <1>5, <1>6, <1>7, <1>8, <1>9, <1>10 DEF IInv

(* A connection is opened only when the list is empty; the new one is      *)
(* nobody's, and the count grows with the set.                             *)
LEMMA OpenStep ==
    ASSUME IInv, NEW t \in Threads, GetOpened(t)
    PROVE  /\ IInv'
           /\ \E c \in Conns \ OpenConns :
                 /\ held' = [held EXCEPT ![t] = c]
                 /\ OpenConns' = OpenConns \cup {c}
<1>0. TypeOK /\ Exclusive /\ Accounting /\ NoLostWakeup
  BY DEF IInv
<1>1. PICK c \in Conns \ OpenConns : held' = [held EXCEPT ![t] = c]
  BY DEF GetOpened
<1>2. /\ pc[t] = "idle"
      /\ free_list = << >> /\ free_list' = free_list
      /\ cur_conn_cnt < MaxConn /\ cur_conn_cnt' = cur_conn_cnt + 1
      /\ pc' = [pc EXCEPT ![t] = "using"]
      /\ timed' = timed
      /\ requests' = [requests EXCEPT ![t] = @ + 1]
  BY DEF GetOpened, NewRequest
<1>3. TypeOK'
  BY <1>0, <1>1, <1>2, PoolAssumption DEF TypeOK
<1>4. FreeConns' = FreeConns /\ HeldConns' = HeldConns \cup {c}
  BY <1>0, <1>1, <1>2 DEF FreeConns, HeldConns, TypeOK
<1>5. Exclusive'
  <2>1. \A u \in Threads : pc[u] = "using" => held[u] # c
    BY <1>1 DEF OpenConns, HeldConns
  <2>2. \A u, v \in Threads : pc'[u] = "using" /\ held'[u] = held'[v] => u = v
    BY <1>0, <1>1, <1>2, <2>1, PoolAssumption DEF TypeOK, Exclusive
  <2>3. \A u \in Threads : pc'[u] = "using" => held'[u] \notin FreeConns'
    BY <1>0, <1>1, <1>2, <1>4 DEF TypeOK, Exclusive, OpenConns
  <2> QED BY <1>0, <1>2, <2>2, <2>3 DEF Exclusive
<1>6. OpenConns' = OpenConns \cup {c}
  BY <1>4 DEF OpenConns
<1>7. Accounting'
  <2>1. IsFiniteSet(OpenConns)
    <3>1. OpenConns \subseteq Conns
      BY <1>0, PoolAssumption DEF OpenConns, FreeConns, HeldConns, TypeOK
    <3> QED BY <3>1, FS_Subset, PoolAssumption
  <2>2. Cardinality(OpenConns') = Cardinality(OpenConns) + 1
    BY <1>1, <1>6, <2>1, FS_AddElement
  <2>3. cur_conn_cnt' <= PoolLimit
    BY <1>0, <1>2, PoolAssumption DEF TypeOK, PoolLimit
  <2> QED BY <1>0, <1>2, <2>2, <2>3 DEF Accounting
<1>8. NoLostWakeup'
  BY <1>0, <1>2, PoolAssumption DEF NoLostWakeup, Asleep, Woken, TypeOK
<1> QED BY <1>1, <1>3, <1>5, <1>6, <1>7, <1>8 DEF IInv

(* The steps that move no connection: a failed opening, falling asleep, a  *)
(* wakeup that finds nothing, a timeout that finds nothing.                *)
LEMMA IdleStep ==
    ASSUME IInv, NEW t \in Threads,
           \/ GetNotOpened(t)
           \/ GetWait(t)
           \/ SpuriousWake(t)
           \/ Wake(t) /\ free_list = << >>
           \/ Timeout(t) /\ free_list = << >>
    PROVE  /\ IInv'
           /\ OpenConns' = OpenConns
           /\ held' = held
<1> DEFINE Quiet ==
              /\ free_list' = free_list /\ cur_conn_cnt' = cur_conn_cnt /\ held' = held
              /\ timed' \in [Threads -> BOOLEAN]
              /\ requests' \in [Threads -> Nat]
              /\ pc[t] # "using"
              /\ \E q \in {"idle", "asleep", "woken"} : pc' = [pc EXCEPT ![t] = q]
<1>0. TypeOK /\ Exclusive /\ Accounting /\ NoLostWakeup
  BY DEF IInv
<1>1. Len(free_list) \in Nat /\ (free_list = << >> => Len(free_list) = 0)
  BY <1>0 DEF TypeOK
<1>2. Cardinality(Woken') >= 0
  <2>1. Woken' \subseteq Threads
    BY DEF Woken
  <2> QED BY <2>1, FS_Subset, FS_CardinalityType, PoolAssumption
<1>3. Quiet /\ NoLostWakeup'
  <2>1. CASE GetNotOpened(t)
    BY <1>0, <2>1 DEF GetNotOpened, NewRequest, NoLostWakeup, Asleep, Woken, TypeOK
  <2>2. CASE GetWait(t)
    <3>1. PICK b \in TimedWaits : timed' = [timed EXCEPT ![t] = b]
      BY <2>2 DEF GetWait
    <3>2. timed' \in [Threads -> BOOLEAN]
      BY <1>0, <3>1, PoolAssumption DEF TypeOK
    <3> QED BY <1>0, <1>1, <1>2, <2>2, <3>2 DEF GetWait, NewRequest, NoLostWakeup, TypeOK
  <2>3. CASE SpuriousWake(t)
    <3>1. Quiet
      BY <1>0, <2>3 DEF SpuriousWake, TypeOK
    <3>2. /\ Asleep' = Asleep \ {t}
          /\ Woken' = Woken \cup {t}
          /\ t \in Asleep
          /\ t \in Threads \ Woken
      BY <1>0, <2>3 DEF SpuriousWake, Asleep, Woken, TypeOK
    <3>3. Cardinality(Woken') = Cardinality(Woken) + 1 /\ Cardinality(Woken) \in Nat
      BY <1>0, <3>2, WokenFacts
    <3>4. free_list' = free_list /\ cur_conn_cnt' = cur_conn_cnt
      BY <2>3 DEF SpuriousWake
    <3>5. NoLostWakeup'
      BY <1>0, <1>1, <3>2, <3>3, <3>4 DEF NoLostWakeup
    <3> QED BY <3>1, <3>5
  <2>4. CASE Wake(t) /\ free_list = << >>
    BY <1>0, <1>1, <1>2, <2>4 DEF Wake, TakeFront, NoLostWakeup, Asleep, Woken, TypeOK
  <2>5. CASE Timeout(t) /\ free_list = << >>
    BY <1>0, <1>1, <1>2, <2>5 DEF Timeout, TakeFront, NoLostWakeup, Asleep, Woken, TypeOK
  <2> QED BY <2>1, <2>2, <2>3, <2>4, <2>5
<1>4. TypeOK'
  BY <1>0, <1>3 DEF TypeOK
<1>5. \A u \in Threads : pc'[u] = "using" <=> pc[u] = "using"
  BY <1>0, <1>3 DEF TypeOK
<1>6. OpenConns' = OpenConns /\ FreeConns' = FreeConns
  BY <1>3, <1>5 DEF OpenConns, FreeConns, HeldConns
<1>7. Exclusive' /\ Accounting'
  BY <1>0, <1>3, <1>5, <1>6 DEF Exclusive, Accounting
<1> QED BY <1>3, <1>4, <1>6, <1>7 DEF IInv

LEMMA InitInv == Init => IInv
<1> SUFFICES ASSUME Init PROVE IInv
  OBVIOUS
<1>1. TypeOK
  BY PoolAssumption DEF Init, TypeOK
<1>2. /\ DOMAIN free_list = 1..MinConn
      /\ HeldConns = {}
      /\ OpenConns = FreeConns
  BY DEF Init, HeldConns, OpenConns
<1>3. Exclusive
  BY <1>2 DEF Init, Exclusive
<1>4. Accounting
  <2>1. free_list \in Injection(1..MinConn, Conns)
    BY DEF Init, Injection, IsInjective
  <2>2. free_list \in Surjection(1..MinConn, FreeConns)
    BY <1>2, PoolAssumption DEF Init, Surjection, FreeConns
  <2>3. free_list \in Bijection(1..MinConn, FreeConns)
    BY <2>1, <2>2 DEF Injection, Surjection, Bijection, IsInjective
  <2>4. IsFiniteSet(1..MinConn) /\ Cardinality(1..MinConn) = MinConn
    BY FS_Interval, PoolAssumption
  <2>5. Cardinality(FreeConns) = MinConn
    <3>1. ExistsBijection(1..MinConn, FreeConns)
      BY <2>3 DEF ExistsBijection
    <3> QED BY <2>4, <3>1, FS_Bijection
  <2> QED BY <1>2, <2>5, PoolAssumption DEF Init, Accounting, PoolLimit
<1>5. NoLostWakeup
  BY DEF Init, NoLostWakeup, Asleep, Woken
<1> QED BY <1>1, <1>3, <1>4, <1>5 DEF IInv

LEMMA StepInv == IInv /\ [Next]_vars => IInv'
<1> SUFFICES ASSUME IInv, [Next]_vars PROVE IInv'
  OBVIOUS
<1>1. CASE UNCHANGED vars
  BY <1>1 DEF vars, IInv, TypeOK, Exclusive, Accounting, NoLostWakeup,
     OpenConns, FreeConns, HeldConns, Asleep, Woken
<1>2. ASSUME NEW t \in Threads, Step(t) PROVE IInv'
  <2>0. TypeOK
    BY DEF IInv
  <2>1. CASE GetFree(t)
    <3>1. /\ pc[t] # "using" /\ free_list # << >>
          /\ TakeFront(t) /\ cur_conn_cnt' = cur_conn_cnt
          /\ timed' \in [Threads -> BOOLEAN]
          /\ requests' \in [Threads -> Nat]
      BY <2>0, <2>1 DEF GetFree, NewRequest, TypeOK
    <3> QED BY <3>1, TakeFrontStep
  <2>2. CASE GetOpened(t)
    BY <2>2, OpenStep
  <2>3. CASE GetNotOpened(t) \/ GetWait(t) \/ SpuriousWake(t)
    BY <2>3, IdleStep
  <2>4. CASE Wake(t) \/ Timeout(t)
    <3>1. CASE free_list = << >>
      BY <2>4, <3>1, IdleStep
    <3>2. CASE free_list # << >>
      <4>1. /\ pc[t] # "using"
            /\ TakeFront(t) /\ cur_conn_cnt' = cur_conn_cnt
            /\ timed' \in [Threads -> BOOLEAN]
            /\ requests' \in [Threads -> Nat]
        BY <2>0, <2>4, <3>2 DEF Wake, Timeout, TypeOK
      <4> QED BY <3>2, <4>1, TakeFrontStep
    <3> QED BY <3>1, <3>2
  <2>5. CASE RelDBConn(t)
    BY <2>5, RelStep
  <2> QED BY <1>2, <2>1, <2>2, <2>3, <2>4, <2>5 DEF Step
<1> QED BY <1>1, <1>2 DEF Next

(* IInv holds in every state the pool reaches. *)
THEOREM InductiveInvariant == Spec => []IInv
BY InitInv, StepInv, PTL DEF Spec

(* GetDBConn and RelDBConn keep the variables well typed; a thread has a   *)
(* connection exactly while its handler runs.                              *)
THEOREM TypeCorrect == Spec => []TypeOK
<1>1. IInv => TypeOK
  BY DEF IInv
<1> QED BY <1>1, InductiveInvariant, PTL

(* No two handlers share a connection, whatever the sizes of the pool and  *)
(* of the thread pool and however their calls interleave.                  *)
THEOREM MutualExclusion == Spec => []Exclusive
<1>1. IInv => Exclusive
  BY DEF IInv
<1> QED BY <1>1, InductiveInvariant, PTL

(* The counter is the number of open connections, at most the limit. *)
THEOREM CountIsExact == Spec => []Accounting
<1>1. IInv => Accounting
  BY DEF IInv
<1> QED BY <1>1, InductiveInvariant, PTL

(* notify_one is enough: a released connection never lies on the list while *)
(* every waiter sleeps.                                                    *)
THEOREM WakeupsSuffice == Spec => []NoLostWakeup
<1>1. IInv => NoLostWakeup
  BY DEF IInv
<1> QED BY <1>1, InductiveInvariant, PTL

-------------------------------------------------------------------------------
(* What the abstract pool calls "in use" is what the threads hold. *)
LEMMA InUseIsHeld == TypeOK => Abstract!InUse = HeldConns
BY PoolAssumption DEF TypeOK, Abstract!InUse, HeldConns

LEMMA OpenIsAllowed ==
    TypeOK /\ Accounting =>
        OpenConns \in {S \in SUBSET Conns : Cardinality(S) <= PoolLimit}
BY PoolAssumption DEF TypeOK, Accounting, OpenConns, FreeConns, HeldConns

LEMMA OpenAllowedNext ==
    TypeOK' /\ Accounting' =>
        OpenConns' \in {S \in SUBSET Conns : Cardinality(S) <= PoolLimit}
BY PoolAssumption DEF TypeOK, Accounting, OpenConns, FreeConns, HeldConns

(* Taking the front connection grants one that is open and not in use. *)
LEMMA TakeFrontGrants ==
    ASSUME IInv, NEW t \in Threads, pc[t] # "using", free_list # << >>,
           TakeFront(t), OpenConns' = OpenConns
    PROVE  Abstract!Grant(t)
<1> DEFINE c == Head(free_list)
<1>0. TypeOK /\ Exclusive /\ Accounting
  BY DEF IInv
<1>1. /\ c \in Conns
      /\ c \in FreeConns
  BY <1>0 DEF TypeOK, FreeConns
<1>2. c \notin Abstract!InUse
  BY <1>0, <1>1, InUseIsHeld DEF Exclusive, HeldConns
<1>3. c \in OpenConns
  BY <1>1 DEF OpenConns
<1>4. held[t] = NoConn
  BY <1>0 DEF TypeOK
<1>5. /\ pc' = [pc EXCEPT ![t] = "using"]
      /\ held' = [held EXCEPT ![t] = c]
  BY DEF TakeFront
<1> HIDE DEF c
<1>6. (Asleep \cup Woken)' = (Asleep \cup Woken) \ {t}
  BY <1>0, <1>5 DEF TypeOK, Asleep, Woken
<1>7. OpenConns' = OpenConns \cup {c}
  BY <1>3
<1>8. OpenConns' \in {S \in SUBSET Conns : Cardinality(S) <= PoolLimit}
  BY <1>0, OpenIsAllowed
<1> QED BY <1>1, <1>2, <1>3, <1>4, <1>5, <1>6, <1>7, <1>8 DEF Abstract!Grant

LEMMA InitImplements == Init => Abstract!Init
<1> SUFFICES ASSUME Init PROVE Abstract!Init
  OBVIOUS
<1>1. IInv
  BY InitInv
<1>2. held = [t \in Threads |-> NoConn] /\ Asleep \cup Woken = {}
  BY DEF Init, Asleep, Woken
<1>3. OpenConns \in {S \in SUBSET Conns : Cardinality(S) <= PoolLimit}
  BY <1>1, OpenIsAllowed DEF IInv
<1> QED BY <1>2, <1>3 DEF Abstract!Init

LEMMA StepImplements ==
    IInv /\ IInv' /\ [Next]_vars => [Abstract!Next]_(Abstract!poolVars)
<1> SUFFICES ASSUME IInv, IInv', [Next]_vars
             PROVE  Abstract!Next \/ UNCHANGED Abstract!poolVars
  OBVIOUS
<1>0. TypeOK /\ Exclusive /\ Accounting
  BY DEF IInv
<1>1. CASE UNCHANGED vars
  BY <1>1 DEF vars, Abstract!poolVars, OpenConns, FreeConns, HeldConns, Asleep, Woken
<1>2. ASSUME NEW t \in Threads, Step(t)
      PROVE  Abstract!Next \/ UNCHANGED Abstract!poolVars
  <2>1. CASE GetFree(t) \/ ((Wake(t) \/ Timeout(t)) /\ free_list # << >>)
    <3>1. /\ pc[t] # "using" /\ free_list # << >>
          /\ TakeFront(t) /\ cur_conn_cnt' = cur_conn_cnt
          /\ timed' \in [Threads -> BOOLEAN]
          /\ requests' \in [Threads -> Nat]
      BY <1>0, <2>1 DEF GetFree, NewRequest, Wake, Timeout, TypeOK
    <3>2. Abstract!Grant(t)
      BY <3>1, TakeFrontStep, TakeFrontGrants
    <3> QED BY <3>2 DEF Abstract!Next
  <2>2. CASE GetOpened(t)
    <3>1. PICK c \in Conns \ OpenConns :
                 /\ held' = [held EXCEPT ![t] = c]
                 /\ OpenConns' = OpenConns \cup {c}
      BY <2>2, OpenStep
    <3>2. pc[t] = "idle" /\ pc' = [pc EXCEPT ![t] = "using"] /\ free_list = << >>
      BY <2>2 DEF GetOpened, NewRequest
    <3>3. held[t] = NoConn
      BY <1>0, <3>2 DEF TypeOK
    <3>4. OpenConns = Abstract!InUse
      BY <1>0, <3>2, InUseIsHeld DEF OpenConns, FreeConns
    <3>5. (Asleep \cup Woken)' = (Asleep \cup Woken) \ {t}
      BY <1>0, <3>2 DEF TypeOK, Asleep, Woken
    <3>6. OpenConns' \in {S \in SUBSET Conns : Cardinality(S) <= PoolLimit}
      <4>1. TypeOK' /\ Accounting'
        BY DEF IInv
      <4> QED BY <4>1, OpenAllowedNext
    <3>7. Abstract!Grant(t)
      BY <3>1, <3>3, <3>4, <3>5, <3>6 DEF Abstract!Grant
    <3> QED BY <3>7 DEF Abstract!Next
  <2>3. CASE GetNotOpened(t) \/ SpuriousWake(t) \/ (Wake(t) /\ free_list = << >>)
    <3>1. OpenConns' = OpenConns /\ held' = held
      BY <2>3, IdleStep
    <3>2. (Asleep \cup Woken)' = Asleep \cup Woken
      BY <1>0, <2>3 DEF GetNotOpened, SpuriousWake, Wake, TakeFront, TypeOK, Asleep, Woken
    <3> QED BY <3>1, <3>2 DEF Abstract!poolVars
  <2>4. CASE GetWait(t)
    <3>1. OpenConns' = OpenConns /\ held' = held
      BY <2>4, IdleStep
    <3>2. pc[t] = "idle" /\ pc' = [pc EXCEPT ![t] = "asleep"]
      BY <2>4 DEF GetWait, NewRequest
    <3>3. /\ (Asleep \cup Woken)' = (Asleep \cup Woken) \cup {t}
          /\ t \notin Asleep \cup Woken
          /\ held[t] = NoConn
      BY <1>0, <3>2 DEF TypeOK, Asleep, Woken
    <3>4. Abstract!Ask(t)
      BY <3>1, <3>3 DEF Abstract!Ask
    <3> QED BY <3>4 DEF Abstract!Next
  <2>5. CASE Timeout(t) /\ free_list = << >>
    <3>1. OpenConns' = OpenConns /\ held' = held
      BY <2>5, IdleStep
    <3>2. /\ (Asleep \cup Woken)' = (Asleep \cup Woken) \ {t}
          /\ t \in Asleep \cup Woken
      BY <1>0, <2>5 DEF Timeout, TakeFront, TypeOK, Asleep, Woken
    <3>3. Abstract!Refuse(t)
      BY <3>1, <3>2 DEF Abstract!Refuse
    <3> QED BY <3>3 DEF Abstract!Next
  <2>6. CASE RelDBConn(t)
    <3>1. /\ OpenConns' = OpenConns
          /\ held' = [held EXCEPT ![t] = NoConn]
          /\ (Asleep \cup Woken)' = Asleep \cup Woken
      BY <2>6, RelStep
    <3>2. held[t] # NoConn
      BY <1>0, <2>6 DEF RelDBConn, TypeOK
    <3>3. Abstract!Return(t)
      BY <3>1, <3>2 DEF Abstract!Return
    <3> QED BY <3>3 DEF Abstract!Next
  <2> QED BY <1>2, <2>1, <2>2, <2>3, <2>4, <2>5, <2>6 DEF Step
<1> QED BY <1>1, <1>2 DEF Next

(* Callers of GetDBConn and RelDBConn see the abstract pool. *)
THEOREM Refinement == Spec => ImplementsPool
BY InitImplements, StepImplements, InductiveInvariant, PTL
   DEF Spec, ImplementsPool, Abstract!Spec

-------------------------------------------------------------------------------
(* RequestPools. *)

(* What the functions take: a database connection before a Redis one.      *)
Functions == {<<"master">>, <<"slave">>, <<"token">>, <<"slave", "token">>}

(* A thread has a prefix of what its function takes, and nothing when it   *)
(* has no task.                                                            *)
PrefixOf(t) ==
    /\ Idle(t) => taken[t] = <<>> /\ ~leaving[t]
    /\ ~Idle(t) => /\ Len(taken[t]) <= Len(Function(t))
                   /\ \A i \in 1..Len(taken[t]) : taken[t][i] = Function(t)[i]

ApiShape ==
    /\ calls \in [Workers -> Seq(Functions)]
    /\ taken \in [Workers -> Seq(Pools)]
    /\ leaving \in [Workers -> BOOLEAN]
    /\ started \in Nat

WithinLimit == \A p \in Pools : Cardinality(Users(p)) <= Limit[p]

ApiInv == ApiShape /\ WithinLimit /\ \A t \in Workers : PrefixOf(t)

-------------------------------------------------------------------------------
(* The functions of the program are among these four. *)
LEMMA CallsInFunctions ==
    ASSUME NEW api \in ApiNames, NEW c \in Calls(api)
    PROVE  c \in Seq(Functions)
<1> DEFINE M == <<"master">>
<1> DEFINE S == <<"slave">>
<1> DEFINE T == <<"token">>
<1> DEFINE ST == <<"slave", "token">>
<1>1. c \in {<<>>, <<M>>, <<S>>, <<T>>, <<ST>>, <<T, M>>, <<T, S>>, <<S, T>>, <<T, ST>>}
  BY DEF ApiNames, Calls, ApiUserLogin, ApiRegisterUser, ApiMd5, ApiUpload, ApiDealfile,
     ApiDealsharefile, ApiMyfiles, ApiSharefile, ApiSharePicture, VerifyToken,
     setToken, verifyUserPassword, registerUser, handleDealMd5, UploadScope,
     handleShareFile, handleDeleteFile, DealfilePv, handlePvFile,
     handleCancelShareFile, handleSaveFile, handleUserFilesCount,
     getUserFileList, handleGetSharefilesCount, handleGetRankingFilelist,
     handleGetShareFilelist, handleSharePicture, handleBrowsePicture,
     handleGetSharePicturesList, handleCancelSharePicture
<1>2. M \in Functions /\ S \in Functions /\ T \in Functions /\ ST \in Functions
  BY DEF Functions
<1>3. <<>> \in Seq(Functions)
  OBVIOUS
<1>4. \A x \in Functions : <<x>> \in Seq(Functions)
  OBVIOUS
<1>5. \A x, y \in Functions : <<x, y>> \in Seq(Functions)
  OBVIOUS
<1> HIDE DEF M, S, T, ST
<1> QED BY <1>1, <1>2, <1>3, <1>4, <1>5, Zenon

LEMMA FunctionShapes ==
    ASSUME NEW f \in Functions
    PROVE  /\ f \in Seq(Pools) /\ Len(f) \in {1, 2}
           /\ \A i \in 1..Len(f) : f[i] = "token" => i = Len(f)
           /\ Len(f) = 2 => f[2] = "token"
<1>1. CASE f = <<"master">>
  BY <1>1 DEF Pools
<1>2. CASE f = <<"slave">>
  BY <1>2 DEF Pools
<1>3. CASE f = <<"token">>
  BY <1>3 DEF Pools
<1>4. CASE f = <<"slave", "token">>
  BY <1>4 DEF Pools
<1> QED BY <1>1, <1>2, <1>3, <1>4 DEF Functions

(* A thread that has a Redis connection waits for nothing, and a thread    *)
(* that has any connection waits at most for a Redis one.                  *)
LEMMA WaitOrder ==
    ASSUME ApiInv, NEW t \in Workers, NEW p \in Pools, NEW q \in Pools,
           Has(t, p), Wants(t, q)
    PROVE  p # "token" /\ q = "token"
<1> DEFINE f == Function(t)
<1>1. ~Idle(t) /\ calls[t] \in Seq(Functions) /\ taken[t] \in Seq(Pools)
  BY DEF Wants, ApiInv, ApiShape
<1>2. f \in Functions
  BY <1>1 DEF Idle, Function
<1>3. /\ Len(f) \in {1, 2}
      /\ \A i \in 1..Len(f) : f[i] = "token" => i = Len(f)
      /\ Len(f) = 2 => f[2] = "token"
  BY <1>2, FunctionShapes
<1>4. /\ Len(taken[t]) \in Nat /\ Len(taken[t]) < Len(f)
      /\ f[Len(taken[t]) + 1] = q
      /\ \A i \in 1..Len(taken[t]) : taken[t][i] = f[i]
  BY <1>1 DEF Wants, ApiInv, PrefixOf
<1> HIDE DEF f
<1>5. PICK i \in 1..Len(taken[t]) : taken[t][i] = p
  BY DEF Has
<1>6. f[i] = p /\ i \in 1..Len(f) /\ i < Len(f)
  BY <1>3, <1>4, <1>5
<1>7. p # "token"
  BY <1>3, <1>6
<1>8. Len(taken[t]) = 1 /\ Len(f) = 2
  <2> DEFINE n == Len(taken[t])
  <2> DEFINE k == Len(f)
  <2>1. n \in Nat /\ n < k /\ k \in {1, 2} /\ i \in 1..n
    BY <1>3, <1>4
  <2> HIDE DEF n, k
  <2>2. n = 1 /\ k = 2
    BY <2>1
  <2> QED BY <2>2 DEF n, k
<1> QED BY <1>3, <1>4, <1>7, <1>8

LEMMA FullHasUser ==
    ASSUME NEW p \in Pools, ~(Cardinality(Users(p)) < Limit[p])
    PROVE  \E t \in Workers : Has(t, p)
<1>1. IsFiniteSet(Users(p))
  BY FS_Subset, PoolsAssumption DEF Users
<1>2. Limit[p] \in Nat \ {0}
  BY PoolsAssumption
<1>3. Users(p) # {}
  BY <1>1, <1>2, FS_EmptySet
<1> QED BY <1>3 DEF Users

(* Along the order slave or master, then token, some thread is at the end. *)
LEMMA StuckImpossible == ApiInv => NeverStuck
<1> SUFFICES ASSUME ApiInv, NEW t \in Workers, ~Idle(t),
                    \A u \in Workers : ~CanRun(u)
             PROVE  FALSE
  BY DEF NeverStuck
<1>1. \A u \in Workers : ~Idle(u) => \E p \in Pools :
          Wants(u, p) /\ \E v \in Workers : Has(v, p)
  BY FullHasUser DEF CanRun
<1>2. \A v \in Workers, p \in Pools : Has(v, p) => ~Idle(v)
  <2> SUFFICES ASSUME NEW v \in Workers, NEW p \in Pools, Has(v, p), Idle(v)
               PROVE  FALSE
    OBVIOUS
  <2>1. taken[v] = <<>>
    BY DEF ApiInv, PrefixOf
  <2> QED BY <2>1 DEF Has
<1>3. ASSUME NEW v \in Workers, Has(v, "token") PROVE FALSE
  BY <1>1, <1>2, <1>3, WaitOrder DEF Pools
<1>4. PICK p \in Pools, v \in Workers : Has(v, p)
  BY <1>1
<1>5. PICK q \in Pools : Wants(v, q) /\ \E u \in Workers : Has(u, q)
  BY <1>1, <1>2, <1>4
<1>6. q = "token"
  BY <1>4, <1>5, WaitOrder
<1> QED BY <1>3, <1>5, <1>6

-------------------------------------------------------------------------------
(* The invariant *)

LEMMA FiniteUsers == \A p : IsFiniteSet(Users(p)) /\ Cardinality(Users(p)) \in Nat
<1>1. \A p : IsFiniteSet(Users(p))
  BY FS_Subset, PoolsAssumption DEF Users
<1> QED BY <1>1, FS_CardinalityType

LEMMA ApiInit == HandlersInit => ApiInv
<1> SUFFICES ASSUME HandlersInit PROVE ApiInv
  OBVIOUS
<1>1. ApiShape
  BY DEF HandlersInit, ApiShape
<1>2. \A t \in Workers : PrefixOf(t)
  BY DEF HandlersInit, PrefixOf, Idle
<1>3. WithinLimit
  <2>1. \A p : Users(p) = {}
    BY DEF HandlersInit, Users, Has
  <2>2. \A p \in Pools : Limit[p] \in Nat
    BY PoolsAssumption
  <2> QED BY <2>1, <2>2, FS_EmptySet DEF WithinLimit
<1> QED BY <1>1, <1>2, <1>3 DEF ApiInv

(* A thread that is not the one that takes a step. *)
LEMMA OthersKeep ==
    ASSUME ApiInv, NEW t \in Workers,
           \A u \in Workers \ {t} : /\ calls'[u] = calls[u] /\ taken'[u] = taken[u]
                                   /\ leaving'[u] = leaving[u],
           PrefixOf(t)'
    PROVE  \A u \in Workers : PrefixOf(u)'
<1> SUFFICES ASSUME NEW u \in Workers \ {t} PROVE PrefixOf(u)'
  OBVIOUS
<1>1. PrefixOf(u)
  BY DEF ApiInv
<1> QED BY <1>1 DEF PrefixOf, Idle, Function

(* Users only loses members when nobody takes a connection. *)
LEMMA FewerUsers ==
    ASSUME ApiInv, \A p \in Pools : Users(p)' \subseteq Users(p)
    PROVE  WithinLimit'
<1> SUFFICES ASSUME NEW p \in Pools PROVE Cardinality(Users(p)') <= Limit[p]
  BY DEF WithinLimit
<1>1. Cardinality(Users(p)') <= Cardinality(Users(p)) /\ Cardinality(Users(p)') \in Nat
  BY FiniteUsers, FS_Subset, FS_CardinalityType
<1>2. Cardinality(Users(p)) <= Limit[p] /\ Cardinality(Users(p)) \in Nat /\ Limit[p] \in Nat
  BY FiniteUsers, PoolsAssumption DEF ApiInv, WithinLimit
<1> QED BY <1>1, <1>2

LEMMA DispatchInv == ASSUME ApiInv, NEW t \in Workers, Dispatch(t) PROVE ApiInv'
<1>1. PICK api \in Apis : \E c \in Calls(api) : calls' = [calls EXCEPT ![t] = c]
  BY DEF Dispatch
<1>2. PICK c \in Calls(api) : calls' = [calls EXCEPT ![t] = c]
  BY <1>1
<1>3. c \in Seq(Functions)
  BY CallsInFunctions, PoolsAssumption
<1>4. taken' = taken /\ leaving' = leaving /\ started' = started + 1 /\ Idle(t)
  BY DEF Dispatch
<1>5. ApiShape'
  BY <1>2, <1>3, <1>4 DEF ApiInv, ApiShape
<1>6. taken[t] = <<>> /\ ~leaving[t]
  BY <1>4 DEF ApiInv, PrefixOf
<1>7. PrefixOf(t)'
  <2>1. calls'[t] = c /\ taken'[t] = <<>> /\ ~leaving'[t]
    BY <1>2, <1>4, <1>6 DEF ApiInv, ApiShape
  <2>2. c # <<>> => Head(c) \in Functions
    BY <1>3
  <2>3. c # <<>> => Len(Head(c)) \in {1, 2}
    BY <2>2, FunctionShapes
  <2> QED BY <2>1, <2>3 DEF PrefixOf, Idle, Function
<1>8. \A u \in Workers : PrefixOf(u)'
  BY <1>2, <1>4, <1>7, OthersKeep DEF ApiInv, ApiShape
<1>9. WithinLimit'
  BY <1>4, FewerUsers DEF Users, Has
<1> QED BY <1>5, <1>8, <1>9 DEF ApiInv

LEMMA GetInv == ASSUME ApiInv, NEW t \in Workers, NEW p \in Pools, Get(t, p) PROVE ApiInv'
<1> DEFINE f == Function(t)
<1> DEFINE n == Len(taken[t])
<1>1. /\ taken' = [taken EXCEPT ![t] = Append(taken[t], p)]
      /\ calls' = calls /\ leaving' = leaving /\ started' = started
      /\ Wants(t, p) /\ Cardinality(Users(p)) < Limit[p]
  BY DEF Get
<1>2. /\ taken[t] \in Seq(Pools) /\ n \in Nat /\ ~Idle(t) /\ calls[t] \in Seq(Functions)
      /\ n < Len(f) /\ f[n + 1] = p
      /\ \A i \in 1..n : taken[t][i] = f[i]
  <2>1. /\ taken[t] \in Seq(Pools) /\ calls[t] \in Seq(Functions) /\ n \in Nat /\ PrefixOf(t)
    BY DEF ApiInv, ApiShape
  <2>2. ~Idle(t) /\ n < Len(f) /\ f[n + 1] = p
    BY <1>1 DEF Wants
  <2> QED BY <2>1, <2>2 DEF PrefixOf
<1>3. /\ taken'[t] \in Seq(Pools) /\ Len(taken'[t]) = n + 1 /\ taken'[t][n + 1] = p
      /\ \A i \in 1..n : taken'[t][i] = taken[t][i]
  <2>1. taken'[t] = Append(taken[t], p)
    BY <1>1 DEF ApiInv, ApiShape
  <2> QED BY <1>2, <2>1
<1>4. ApiShape'
  <2>1. taken' \in [Workers -> Seq(Pools)]
    BY <1>1, <1>3 DEF ApiInv, ApiShape
  <2> QED BY <1>1, <2>1 DEF ApiInv, ApiShape
<1>5. PrefixOf(t)'
  <2>1. ~Idle(t)' /\ Function(t)' = f
    BY <1>1, <1>2 DEF Idle, Function
  <2>2. Len(f) \in Nat
    BY <1>2, FunctionShapes DEF Idle, Function
  <2> HIDE DEF f, n
  <2>3. \A i \in 1..(n + 1) : taken'[t][i] = f[i]
    BY <1>2, <1>3
  <2> QED BY <1>2, <1>3, <2>1, <2>2, <2>3 DEF PrefixOf
<1>6. \A u \in Workers \ {t} : taken'[u] = taken[u]
  BY <1>1 DEF ApiInv, ApiShape
<1>7. \A u \in Workers : PrefixOf(u)'
  BY <1>1, <1>5, <1>6, OthersKeep
<1>8. WithinLimit'
  <2> SUFFICES ASSUME NEW q \in Pools PROVE Cardinality(Users(q)') <= Limit[q]
    BY DEF WithinLimit
  <2>0. /\ Cardinality(Users(q)) \in Nat /\ Limit[q] \in Nat /\ IsFiniteSet(Users(q))
        /\ Cardinality(Users(q)) <= Limit[q]
    BY FiniteUsers, PoolsAssumption DEF ApiInv, WithinLimit
  <2>1. CASE q = p
    <3>1. Users(q)' \subseteq Users(q) \cup {t}
      BY <1>6 DEF Users, Has
    <3>2. IsFiniteSet(Users(q) \cup {t}) /\ Cardinality(Users(q) \cup {t}) <= Cardinality(Users(q)) + 1
      <4>1. /\ IsFiniteSet(Users(q) \cup {t})
            /\ \/ Cardinality(Users(q) \cup {t}) = Cardinality(Users(q))
               \/ Cardinality(Users(q) \cup {t}) = Cardinality(Users(q)) + 1
        BY <2>0, FS_AddElement
      <4> QED BY <2>0, <4>1
    <3>3. Cardinality(Users(q)') <= Cardinality(Users(q) \cup {t})
      BY <3>1, <3>2, FS_Subset
    <3>4. Cardinality(Users(q)') \in Nat /\ Cardinality(Users(q) \cup {t}) \in Nat
      BY <3>1, <3>2, FS_Subset, FS_CardinalityType
    <3> QED BY <1>1, <2>0, <2>1, <3>2, <3>3, <3>4
  <2>2. CASE q # p
    <3> HIDE DEF n
    <3>1. Has(t, q)' => Has(t, q)
      BY <1>2, <1>3, <2>2 DEF Has, n
    <3>2. Users(q)' \subseteq Users(q)
      BY <1>6, <3>1 DEF Users, Has
    <3>3. Cardinality(Users(q)') <= Cardinality(Users(q)) /\ Cardinality(Users(q)') \in Nat
      BY <2>0, <3>2, FS_Subset, FS_CardinalityType
    <3> QED BY <2>0, <3>3
  <2> QED BY <2>1, <2>2
<1> QED BY <1>4, <1>7, <1>8 DEF ApiInv

LEMMA BodyInv == ASSUME ApiInv, NEW t \in Workers, Body(t) PROVE ApiInv'
<1>1. /\ leaving' = [leaving EXCEPT ![t] = TRUE] /\ ~Idle(t)
      /\ calls' = calls /\ taken' = taken /\ started' = started
  BY DEF Body
<1>2. ApiShape'
  BY <1>1 DEF ApiInv, ApiShape
<1>3. PrefixOf(t)'
  BY <1>1 DEF ApiInv, PrefixOf, Idle, Function
<1>4. \A u \in Workers : PrefixOf(u)'
  BY <1>1, <1>3, OthersKeep DEF ApiInv, ApiShape
<1>5. WithinLimit'
  BY <1>1, FewerUsers DEF Users, Has
<1> QED BY <1>2, <1>4, <1>5 DEF ApiInv

LEMMA ReleaseInv == ASSUME ApiInv, NEW t \in Workers, Release(t) PROVE ApiInv'
<1> DEFINE n == Len(taken[t])
<1>1. /\ taken' = [taken EXCEPT ![t] = SubSeq(taken[t], 1, n - 1)]
      /\ calls' = calls /\ leaving' = leaving /\ started' = started
      /\ leaving[t] /\ taken[t] # <<>>
  BY DEF Release
<1>2. taken[t] \in Seq(Pools) /\ n \in Nat /\ n > 0
  BY <1>1 DEF ApiInv, ApiShape
<1>3. /\ taken'[t] \in Seq(Pools) /\ Len(taken'[t]) = n - 1
      /\ \A i \in 1..(n - 1) : taken'[t][i] = taken[t][i]
  <2> DEFINE s == taken[t]
  <2>1. SubSeq(s, 1, n - 1) = [i \in 1..(n - 1) |-> s[i]]
    BY <1>2
  <2>2. taken'[t] = [i \in 1..(n - 1) |-> s[i]]
    BY <1>1, <2>1 DEF ApiInv, ApiShape
  <2>3. n - 1 \in Nat /\ \A i \in 1..(n - 1) : s[i] \in Pools
    BY <1>2
  <2> QED BY <2>2, <2>3
<1>4. ApiShape'
  BY <1>1, <1>3 DEF ApiInv, ApiShape
<1>5. ~Idle(t) /\ calls[t] \in Seq(Functions)
  BY <1>1 DEF ApiInv, PrefixOf, ApiShape
<1>6. PrefixOf(t)'
  <2>1. ~Idle(t)' /\ Function(t)' = Function(t)
    BY <1>1, <1>5 DEF Idle, Function
  <2>2. Len(Function(t)) \in Nat
    BY <1>5, FunctionShapes DEF Idle, Function
  <2>3. n <= Len(Function(t)) /\ \A i \in 1..n : taken[t][i] = Function(t)[i]
    BY <1>5 DEF ApiInv, PrefixOf
  <2> HIDE DEF n
  <2> QED BY <1>2, <1>3, <2>1, <2>2, <2>3 DEF PrefixOf
<1>7. \A u \in Workers \ {t} : taken'[u] = taken[u]
  BY <1>1 DEF ApiInv, ApiShape
<1>8. \A u \in Workers : PrefixOf(u)'
  BY <1>1, <1>6, <1>7, OthersKeep
<1>9. WithinLimit'
  <2>1. \A q : Has(t, q)' => Has(t, q)
    <3> HIDE DEF n
    <3> QED BY <1>2, <1>3 DEF Has, n
  <2>2. \A q \in Pools : Users(q)' \subseteq Users(q)
    BY <1>7, <2>1 DEF Users, Has
  <2> QED BY <2>2, FewerUsers
<1> QED BY <1>4, <1>8, <1>9 DEF ApiInv

LEMMA ReturnInv == ASSUME ApiInv, NEW t \in Workers, Return(t) PROVE ApiInv'
<1>1. /\ leaving' = [leaving EXCEPT ![t] = FALSE]
      /\ calls' = [calls EXCEPT ![t] = Tail(calls[t])]
      /\ taken' = taken /\ started' = started
      /\ leaving[t] /\ taken[t] = <<>>
  BY DEF Return
<1>2. calls[t] \in Seq(Functions) /\ calls[t] # <<>>
  BY <1>1 DEF ApiInv, ApiShape, PrefixOf, Idle
<1>3. Tail(calls[t]) \in Seq(Functions)
  BY <1>2
<1>4. ApiShape'
  BY <1>1, <1>3 DEF ApiInv, ApiShape
<1>5. PrefixOf(t)'
  <2> DEFINE c == Tail(calls[t])
  <2>1. calls'[t] = c /\ taken'[t] = <<>> /\ ~leaving'[t]
    BY <1>1 DEF ApiInv, ApiShape
  <2> HIDE DEF c
  <2>2. c # <<>> => Head(c) \in Functions
    BY <1>3 DEF c
  <2>3. c # <<>> => Len(Head(c)) \in {1, 2}
    BY <2>2, FunctionShapes
  <2> QED BY <2>1, <2>3 DEF PrefixOf, Idle, Function
<1>6. \A u \in Workers : PrefixOf(u)'
  BY <1>1, <1>5, OthersKeep DEF ApiInv, ApiShape
<1>7. WithinLimit'
  BY <1>1, FewerUsers DEF Users, Has
<1> QED BY <1>4, <1>6, <1>7 DEF ApiInv

LEMMA ApiNext == ApiInv /\ [HandlersNext]_handlerVars => ApiInv'
<1> SUFFICES ASSUME ApiInv, [HandlersNext]_handlerVars PROVE ApiInv'
  OBVIOUS
<1>1. CASE UNCHANGED handlerVars
  BY <1>1 DEF ApiInv, ApiShape, WithinLimit, PrefixOf, Idle, Function, Users, Has, handlerVars
<1>2. ASSUME NEW t \in Workers, Dispatch(t) \/ Run(t) PROVE ApiInv'
  BY <1>2, DispatchInv, GetInv, BodyInv, ReleaseInv, ReturnInv DEF Run
<1> QED BY <1>1, <1>2 DEF HandlersNext

LEMMA ApiTypes == ApiInv => HandlersTyped
<1> SUFFICES ASSUME ApiInv PROVE HandlersTyped
  OBVIOUS
<1>1. Functions \subseteq Seq(Pools)
  BY FunctionShapes
<1>2. calls \in [Workers -> Seq(Seq(Pools))]
  BY <1>1 DEF ApiInv, ApiShape
<1>3. \A p \in Pools : Cardinality(Users(p)) \in 0..Limit[p]
  BY FiniteUsers, PoolsAssumption DEF ApiInv, WithinLimit
<1> QED BY <1>2, <1>3 DEF HandlersTyped, ApiInv, ApiShape

(* Types, and no pool lends more connections than it may open. *)
THEOREM ApiTyped == HandlersSpec => []HandlersTyped
BY ApiInit, ApiNext, ApiTypes, PTL DEF HandlersSpec

(* The handlers cannot deadlock on the connection pools, for any number of *)
(* threads and any size of the pools: every function takes its database    *)
(* connection before its Redis connection, and VerifyToken has returned    *)
(* its own before the handler starts.                                      *)
THEOREM HandlersNeverStuck == HandlersSpec => []NeverStuck
BY ApiInit, ApiNext, StuckImpossible, PTL DEF HandlersSpec
===============================================================================
