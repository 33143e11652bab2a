----------------------------- MODULE LibraryProofs -----------------------------
(***************************************************************************)
(* Proofs about three of the libraries the server is built on.             *)
(*                                                                         *)
(* TableIsTheMap: the hash table of redis/dict.c is the map it stands for. *)
(* The inductive invariant says that every entry is in the chain of its    *)
(* hash (Sound), that no key has two, that the entries are the map's and   *)
(* as many as used says, and, of an iterator, that it has returned exactly *)
(* the keys of the chains and places it has left behind (Walked).  The     *)
(* functions a table is moved with are recursive: what they compute is     *)
(* shown by induction over a set of numbers (SetInduction, Recursion).     *)
(*                                                                         *)
(* ConversionsKeepTheirWord: the numbers of jsoncpp/json_value.cpp.        *)
(*                                                                         *)
(* AsyncNoneLeftOut: the asynchronous context of redis/async.c leaves no   *)
(* callback of an ordinary command out.  The invariant (AsyncSound) gives  *)
(* the types of the context and the connection, and says that a callback   *)
(* which has not run is in one of the two lists.                           *)
(***************************************************************************)
EXTENDS RedisDict, RedisAsync, FiniteSetTheorems, SequenceTheorems, WellFoundedInduction, TLAPS

(* The conversions of Json::Value. *)
CONSTANTS maxInt, maxUInt, maxInt64, maxUInt64, Precision
Types == INSTANCE JsonTypes

-------------------------------------------------------------------------------
(* Induction and recursion on the natural numbers *)
LEMMA Least ==
    ASSUME NEW T \in SUBSET Nat, T # {}
    PROVE  \E m \in T : \A k \in T : m <= k
<1> DEFINE R == OpToRel(<, Nat)
<1>1. IsWellFoundedOn(R, Nat)
  BY NatLessThanWellFounded
<1> HIDE DEF R
<1>2. PICK m \in T : \A k \in T : ~ (<<k, m>> \in R)
  BY <1>1, WFMin
<1>3. \A k, n \in Nat : <<k, n>> \in R <=> k < n
  BY DEF R, OpToRel
<1>4. \A k \in T : ~ (k < m)
  BY <1>2, <1>3
<1> QED BY <1>4

LEMMA SetInduction ==
    ASSUME NEW T \in SUBSET Nat, 0 \in T, \A n \in T : n + 1 \in T
    PROVE  \A n \in Nat : n \in T
<1> SUFFICES ASSUME NEW n \in Nat, n \notin T PROVE FALSE
  OBVIOUS
<1>1. Nat \ T # {} /\ Nat \ T \in SUBSET Nat
  OBVIOUS
<1>2. PICK m \in Nat \ T : \A k \in Nat \ T : m <= k
  BY <1>1, Least
<1>3. m - 1 \in Nat /\ m - 1 \notin Nat \ T
  BY <1>2
<1>4. (m - 1) + 1 \in T
  BY <1>3
<1> QED BY <1>2, <1>4

(* A function on 0..n that begins with a and goes on with the steps of g;  *)
(* and the one on all natural numbers.                                     *)
Steps(f, a, g, n) == f[0] = a /\ \A k \in 1..n : f[k] = g[<<k, f[k - 1]>>]

LEMMA StepsExist ==
    ASSUME NEW A, NEW a \in A, NEW g \in [Nat \X A -> A]
    PROVE  \A n \in Nat : \E f \in [0..n -> A] : Steps(f, a, g, n)
<1> DEFINE T == {n \in Nat : \E f \in [0..n -> A] : Steps(f, a, g, n)}
<1>1. 0 \in T
  <2> DEFINE f == [k \in 0..0 |-> a]
  <2>1. f \in [0..0 -> A] /\ f[0] = a
    OBVIOUS
  <2>2. Steps(f, a, g, 0)
    BY <2>1 DEF Steps
  <2> QED BY <2>1, <2>2
<1>2. ASSUME NEW n \in T PROVE n + 1 \in T
  <2>1. PICK f \in [0..n -> A] : Steps(f, a, g, n)
    OBVIOUS
  <2> DEFINE h == [k \in 0..(n + 1) |-> IF k = n + 1 THEN g[<<n + 1, f[n]>>] ELSE f[k]]
  <2>2. f[n] \in A /\ n \in Nat
    OBVIOUS
  <2>3. h \in [0..(n + 1) -> A]
    BY <2>2
  <2>4. h[0] = a /\ \A k \in 0..n : h[k] = f[k]
    BY <2>1 DEF Steps
  <2>5. h[n + 1] = g[<<n + 1, h[(n + 1) - 1]>>]
    <3>1. n + 1 \in 0..(n + 1) /\ n \in 0..n /\ (n + 1) - 1 = n
      BY <2>2
    <3>2. h[n + 1] = g[<<n + 1, f[n]>>]
      BY <3>1
    <3>3. h[n] = f[n]
      BY <2>4, <3>1
    <3> HIDE DEF h
    <3> QED BY <3>1, <3>2, <3>3
  <2>6. ASSUME NEW k \in 1..(n + 1), k # n + 1 PROVE h[k] = g[<<k, h[k - 1]>>]
    <3>1. k \in 1..n /\ k \in 0..n /\ k - 1 \in 0..n
      BY <2>6
    <3> QED BY <2>1, <2>4, <3>1 DEF Steps
  <2> HIDE DEF h
  <2>7. Steps(h, a, g, n + 1)
    BY <2>4, <2>5, <2>6 DEF Steps
  <2> QED BY <2>3, <2>7
<1> HIDE DEF T
<1>3. \A n \in Nat : n \in T
  BY <1>1, <1>2, SetInduction DEF T
<1> QED BY <1>3 DEF T

LEMMA StepsUnique ==
    ASSUME NEW a, NEW g, NEW f, NEW h, NEW m \in Nat, Steps(f, a, g, m), Steps(h, a, g, m)
    PROVE  f[m] = h[m]
<1> DEFINE T == {n \in Nat : n <= m => f[n] = h[n]}
<1>1. 0 \in T
  BY DEF Steps
<1>2. ASSUME NEW n \in T PROVE n + 1 \in T
  <2> SUFFICES ASSUME n + 1 <= m PROVE f[n + 1] = h[n + 1]
    OBVIOUS
  <2>1. n + 1 \in 1..m /\ (n + 1) - 1 = n /\ f[n] = h[n]
    OBVIOUS
  <2> QED BY <2>1 DEF Steps
<1> HIDE DEF T
<1>3. \A n \in Nat : n \in T
  BY <1>1, <1>2, SetInduction DEF T
<1> QED BY <1>3 DEF T

LEMMA Recursion ==
    ASSUME NEW A, NEW a \in A, NEW g \in [Nat \X A -> A]
    PROVE  \E f \in [Nat -> A] : f[0] = a /\ \A k \in Nat \ {0} : f[k] = g[<<k, f[k - 1]>>]
<1> DEFINE w(n) == CHOOSE f \in [0..n -> A] : Steps(f, a, g, n)
           f == [n \in Nat |-> w(n)[n]]
<1>1. \A n \in Nat : w(n) \in [0..n -> A] /\ Steps(w(n), a, g, n)
  BY StepsExist
<1>2. f[0] = a
  BY <1>1 DEF Steps
<1>3. f \in [Nat -> A]
  <2> HIDE DEF w
  <2>1. \A n \in Nat : w(n)[n] \in A
    BY <1>1
  <2> QED BY <2>1
<1>4. ASSUME NEW n \in Nat \ {0} PROVE f[n] = g[<<n, f[n - 1]>>]
  <2> HIDE DEF w
  <2>0. n \in Nat /\ n - 1 \in Nat
    OBVIOUS
  <2>1. Steps(w(n), a, g, n) /\ Steps(w(n - 1), a, g, n - 1) /\ n - 1 \in Nat
    BY <1>1, <2>0
  <2>2. Steps(w(n), a, g, n - 1)
    BY <2>1 DEF Steps
  <2>3. w(n)[n - 1] = w(n - 1)[n - 1]
    BY <2>1, <2>2, StepsUnique
  <2>4. w(n)[n] = g[<<n, w(n)[n - 1]>>]
    BY <2>1 DEF Steps
  <2> QED BY <2>1, <2>3, <2>4
<1> HIDE DEF f
<1> QED BY <1>2, <1>3, <1>4

-------------------------------------------------------------------------------
Entry == [key : Keys, val : Vals]
Shaped(h, m) == h \in [size : {m}, table : [1..m -> Seq(Entry)], used : Nat]
Has(h, e) == \E i \in 1..h.size : \E p \in 1..Len(h.table[i]) : h.table[i][p] = e
HasKey(h, k) == \E e : Has(h, e) /\ e.key = k
Distinct(chain) ==
    \A p, q \in 1..Len(chain) : chain[p].key = chain[q].key => p = q
Sound(h) ==
    /\ h.size \in Nat /\ Shaped(h, h.size)
    /\ \A i \in 1..h.size : Distinct(h.table[i])
    /\ \A i \in 1..h.size : \A p \in 1..Len(h.table[i]) : Slot(h, h.table[i][p].key) = i
Dictionary(m) == DOMAIN m \subseteq Keys /\ IsFiniteSet(DOMAIN m) /\ m \in [DOMAIN m -> Vals]
Represents(h, m) ==
    /\ \A e : Has(h, e) => e.key \in DOMAIN m /\ e.val = m[e.key]
    /\ \A k \in DOMAIN m : Has(h, [key |-> k, val |-> m[k]])
    /\ h.used = Cardinality(DOMAIN m)

-------------------------------------------------------------------------------
LEMMA SlotInTable ==
    ASSUME DictAssumption, NEW h, NEW k \in Keys, h.size \in Nat \ {0}
    PROVE  Slot(h, k) \in 1..h.size
<1>1. HashOf[k] \in Nat
  BY DEF DictAssumption
<1>2. HashOf[k] % h.size \in 0..(h.size - 1)
  BY <1>1
<1> QED BY <1>2 DEF Slot

LEMMA Shapes ==
    ASSUME NEW h, Sound(h), NEW i \in 1..h.size
    PROVE  /\ h.table[i] \in Seq(Entry)
           /\ \A p \in 1..Len(h.table[i]) :
                  /\ h.table[i][p] \in Entry /\ h.table[i][p].key \in Keys
                  /\ h.table[i][p].val \in Vals /\ Slot(h, h.table[i][p].key) = i
<1>1. h.table[i] \in Seq(Entry)
  BY DEF Sound, Shaped
<1>2. \A p \in 1..Len(h.table[i]) : h.table[i][p] \in Entry
  BY <1>1
<1> QED BY <1>1, <1>2 DEF Sound, Entry

(* The entries of a key are in its slot, and there is one at most. *)
LEMMA OneEntry ==
    ASSUME NEW h, Sound(h), NEW d, NEW e, Has(h, d), Has(h, e), d.key = e.key
    PROVE  d = e
<1>1. PICK i \in 1..h.size : \E p \in 1..Len(h.table[i]) : h.table[i][p] = d
  BY DEF Has
<1>2. PICK p \in 1..Len(h.table[i]) : h.table[i][p] = d
  BY <1>1
<1>3. PICK j \in 1..h.size : \E q \in 1..Len(h.table[j]) : h.table[j][q] = e
  BY DEF Has
<1>4. PICK q \in 1..Len(h.table[j]) : h.table[j][q] = e
  BY <1>3
<1>5. i = j
  BY <1>2, <1>4 DEF Sound
<1>6. p = q
  BY <1>2, <1>4, <1>5 DEF Sound, Distinct
<1> QED BY <1>2, <1>4, <1>5, <1>6

LEMMA EntryTypes ==
    ASSUME NEW h, Sound(h), NEW e, Has(h, e)
    PROVE  /\ e \in Entry /\ e.key \in Keys /\ e.val \in Vals
           /\ e = [key |-> e.key, val |-> e.val]
<1>1. PICK i \in 1..h.size : \E p \in 1..Len(h.table[i]) : h.table[i][p] = e
  BY DEF Has
<1>2. e \in Entry
  BY <1>1, Shapes
<1> QED BY <1>2 DEF Entry

(* What the search of a slot finds. *)
LEMMA Search ==
    ASSUME DictAssumption, NEW h, Sound(h), h.size # 0, NEW k \in Keys
    PROVE  /\ Slot(h, k) \in 1..h.size
           /\ IndexIn(h.table[Slot(h, k)], k) # {} <=> HasKey(h, k)
           /\ \A i \in IndexIn(h.table[Slot(h, k)], k) :
                 /\ i \in 1..Len(h.table[Slot(h, k)])
                 /\ h.table[Slot(h, k)][i].key = k /\ Has(h, h.table[Slot(h, k)][i])
<1> DEFINE s == Slot(h, k)
<1>1. s \in 1..h.size
  BY SlotInTable DEF Sound
<1>2. \A i \in IndexIn(h.table[s], k) :
          i \in 1..Len(h.table[s]) /\ h.table[s][i].key = k
  BY DEF IndexIn
<1>3. \A i \in IndexIn(h.table[s], k) : Has(h, h.table[s][i])
  BY <1>1, <1>2 DEF Has
<1>4. ASSUME HasKey(h, k) PROVE IndexIn(h.table[s], k) # {}
  <2>1. PICK e : Has(h, e) /\ e.key = k
    BY <1>4 DEF HasKey
  <2>2. PICK i \in 1..h.size : \E p \in 1..Len(h.table[i]) : h.table[i][p] = e
    BY <2>1 DEF Has
  <2>3. PICK p \in 1..Len(h.table[i]) : h.table[i][p] = e
    BY <2>2
  <2>4. s = i
    BY <2>1, <2>3, Shapes
  <2>5. p \in IndexIn(h.table[s], k)
    BY <2>1, <2>3, <2>4 DEF IndexIn
  <2> QED BY <2>5
<1> HIDE DEF s
<1>5. IndexIn(h.table[s], k) # {} => HasKey(h, k)
  BY <1>2, <1>3 DEF HasKey
<1> QED BY <1>1, <1>2, <1>3, <1>4, <1>5 DEF s

LEMMA FindGives ==
    ASSUME DictAssumption, NEW h, Sound(h), NEW k \in Keys
    PROVE  /\ ~HasKey(h, k) => dictFind(h, k) = NULL
           /\ \A v : Has(h, [key |-> k, val |-> v]) => dictFind(h, k) = v
<1>1. CASE h.size = 0
  <2>1. ~HasKey(h, k) /\ \A e : ~Has(h, e)
    BY <1>1 DEF HasKey, Has
  <2> QED BY <1>1, <2>1 DEF dictFind
<1>2. CASE h.size # 0
  <2> DEFINE chain == h.table[Slot(h, k)]
             i == CHOOSE i \in IndexIn(chain, k) : TRUE
  <2>1. ~HasKey(h, k) => dictFind(h, k) = NULL
    BY <1>2, Search DEF dictFind
  <2>2. ASSUME NEW v, Has(h, [key |-> k, val |-> v]) PROVE dictFind(h, k) = v
    <3>1. HasKey(h, k)
      BY <2>2 DEF HasKey
    <3>2. IndexIn(chain, k) # {}
      BY <1>2, <3>1, Search
    <3>3. i \in IndexIn(chain, k)
      BY <3>2
    <3>4. chain[i].key = k /\ Has(h, chain[i])
      BY <1>2, <3>3, Search
    <3>5. chain[i] = [key |-> k, val |-> v]
      BY <2>2, <3>4, OneEntry
    <3>6. dictFind(h, k) = chain[i].val
      BY <1>2, <3>2 DEF dictFind
    <3> QED BY <3>5, <3>6
  <2> QED BY <2>1, <2>2
<1> QED BY <1>1, <1>2

-------------------------------------------------------------------------------
(* A chain with an entry before it. *)
LEMMA Push ==
    ASSUME NEW S, NEW e \in S, NEW c \in Seq(S)
    PROVE  /\ <<e>> \o c \in Seq(S) /\ Len(<<e>> \o c) = Len(c) + 1
           /\ (<<e>> \o c)[1] = e
           /\ \A p \in 1..Len(c) : (<<e>> \o c)[p + 1] = c[p]
<1> DEFINE d == <<e>>
<1>1. d \in Seq(S) /\ Len(d) = 1 /\ d[1] = e
  OBVIOUS
<1> HIDE DEF d
<1>2. /\ d \o c \in Seq(S) /\ Len(d \o c) = 1 + Len(c) /\ (d \o c)[1] = d[1]
      /\ \A p \in 1..Len(c) : (d \o c)[1 + p] = c[p]
  <2>1. /\ d \o c \in Seq(S) /\ Len(d \o c) = Len(d) + Len(c)
        /\ \A i \in 1..(Len(d) + Len(c)) :
              (d \o c)[i] = IF i <= Len(d) THEN d[i] ELSE c[i - Len(d)]
    BY <1>1, ConcatProperties
  <2> DEFINE dc == d \o c
  <2> HIDE DEF dc
  <2>2. /\ dc \in Seq(S) /\ Len(dc) = 1 + Len(c) /\ Len(c) \in Nat
        /\ \A i \in 1..(1 + Len(c)) : dc[i] = IF i <= 1 THEN d[i] ELSE c[i - 1]
    BY <1>1, <2>1, LenProperties DEF dc
  <2>3. dc[1] = d[1]
    BY <2>2
  <2>4. \A p \in 1..Len(c) : dc[1 + p] = c[p]
    BY <2>2
  <2> QED BY <2>2, <2>3, <2>4 DEF dc
<1>3. Len(c) \in Nat
  OBVIOUS
<1> DEFINE dc == d \o c
<1> HIDE DEF dc
<1>4. \A p \in 1..Len(c) : p + 1 = 1 + p
  BY <1>3
<1>5. /\ dc \in Seq(S) /\ Len(dc) = Len(c) + 1 /\ dc[1] = e
      /\ \A p \in 1..Len(c) : dc[p + 1] = c[p]
  BY <1>1, <1>2, <1>3, <1>4 DEF dc
<1> QED BY <1>5 DEF dc, d

LEMMA MovedHas ==
    ASSUME DictAssumption, NEW h, Sound(h), h.size # 0, NEW e \in Entry, ~HasKey(h, e.key)
    PROVE  /\ Sound(Moved(h, e)) /\ Moved(h, e).size = h.size /\ Moved(h, e).used = h.used
           /\ \A x : Has(Moved(h, e), x) <=> Has(h, x) \/ x = e
<1> DEFINE n == Moved(h, e)
           s == Slot(h, e.key)
           c == h.table[s]
           d == <<e>> \o c
<1>1. e.key \in Keys /\ s \in 1..h.size /\ h.size \in Nat
  BY SlotInTable DEF Sound, Entry
<1>2. c \in Seq(Entry) /\ Len(c) \in Nat
  BY <1>1, Shapes
<1>3. /\ d \in Seq(Entry) /\ Len(d) = Len(c) + 1 /\ d[1] = e
      /\ \A p \in 1..Len(c) : d[p + 1] = c[p]
  BY <1>2, Push
<1>4. n = [h EXCEPT !.table = [h.table EXCEPT ![s] = d]]
  BY DEF Moved
<1> HIDE DEF d, n
<1>5. /\ n.size = h.size /\ n.used = h.used /\ Shaped(n, h.size)
      /\ n.table[s] = d /\ \A i \in 1..h.size : i # s => n.table[i] = h.table[i]
  BY <1>1, <1>3, <1>4 DEF Sound, Shaped
<1>6. \A p \in 1..Len(d) : p # 1 => p - 1 \in 1..Len(c) /\ d[p] = c[p - 1]
  <2> SUFFICES ASSUME NEW p \in 1..Len(d), p # 1 PROVE p - 1 \in 1..Len(c) /\ d[p] = c[p - 1]
    OBVIOUS
  <2>1. p - 1 \in 1..Len(c) /\ (p - 1) + 1 = p
    BY <1>2, <1>3
  <2> QED BY <1>3, <2>1
<1>7. \A k \in Keys : Slot(n, k) = Slot(h, k)
  BY <1>5 DEF Slot
<1>8. \A p \in 1..Len(c) : Has(h, c[p]) /\ c[p].key # e.key
  <2>1. \A p \in 1..Len(c) : Has(h, c[p])
    BY <1>1 DEF Has
  <2> QED BY <2>1 DEF HasKey
<1>9. Distinct(d)
  <2> SUFFICES ASSUME NEW p \in 1..Len(d), NEW q \in 1..Len(d), d[p].key = d[q].key
               PROVE  p = q
    BY DEF Distinct
  <2>1. CASE p = 1 \/ q = 1
    BY <1>3, <1>6, <1>8, <2>1
  <2>2. CASE p # 1 /\ q # 1
    <3>1. c[p - 1].key = c[q - 1].key /\ p - 1 \in 1..Len(c) /\ q - 1 \in 1..Len(c)
      BY <1>6, <2>2
    <3>2. p - 1 = q - 1
      BY <1>1, <3>1 DEF Sound, Distinct
    <3> QED BY <1>2, <1>3, <3>2
  <2> QED BY <2>1, <2>2
<1>10. ASSUME NEW p \in 1..Len(d) PROVE Slot(h, d[p].key) = s
  <2>1. CASE p = 1
    BY <1>3, <2>1
  <2>2. CASE p # 1
    <3>1. p - 1 \in 1..Len(c) /\ d[p] = c[p - 1]
      BY <1>6, <2>2
    <3>2. \A q \in 1..Len(c) : Slot(h, c[q].key) = s
      BY <1>1, Shapes
    <3> QED BY <3>1, <3>2
  <2> QED BY <2>1, <2>2
<1>11. Sound(n)
  <2>1. \A i \in 1..n.size : Distinct(n.table[i])
    BY <1>5, <1>9 DEF Sound
  <2>2. n.size = h.size /\ \A i \in 1..n.size : n.table[i] \in Seq(Entry)
    BY <1>5 DEF Shaped
  <2>3. ASSUME NEW i \in 1..n.size, NEW p \in 1..Len(n.table[i])
        PROVE  Slot(n, n.table[i][p].key) = i
    <3>1. n.table[i][p] \in Entry
      BY <2>2, <2>3
    <3>2. Slot(n, n.table[i][p].key) = Slot(h, n.table[i][p].key)
      BY <1>7, <3>1 DEF Entry
    <3>3. CASE i = s
      BY <1>5, <1>10, <3>2, <3>3
    <3>4. CASE i # s
      <4>1. i \in 1..h.size /\ n.table[i] = h.table[i]
        BY <1>5, <3>4
      <4> QED BY <3>2, <4>1 DEF Sound
    <3> QED BY <3>3, <3>4
  <2> QED BY <1>1, <1>5, <2>1, <2>3 DEF Sound
<1>12. ASSUME NEW x, Has(n, x) PROVE Has(h, x) \/ x = e
  <2>1. PICK i \in 1..n.size : \E p \in 1..Len(n.table[i]) : n.table[i][p] = x
    BY <1>12 DEF Has
  <2>2. PICK p \in 1..Len(n.table[i]) : n.table[i][p] = x
    BY <2>1
  <2>3. CASE i # s
    <3>1. i \in 1..h.size /\ n.table[i] = h.table[i]
      BY <1>5, <2>3
    <3> QED BY <2>2, <3>1 DEF Has
  <2>4. CASE i = s
    <3>1. p \in 1..Len(d) /\ d[p] = x
      BY <1>5, <2>2, <2>4
    <3> QED BY <1>3, <1>6, <1>8, <3>1
  <2> QED BY <2>3, <2>4
<1>13. Has(n, e)
  <2>1. 1 \in 1..Len(d)
    BY <1>2, <1>3
  <2> QED BY <1>1, <1>3, <1>5, <2>1 DEF Has
<1>14. ASSUME NEW x, Has(h, x) PROVE Has(n, x)
  <2>1. PICK i \in 1..h.size : \E p \in 1..Len(h.table[i]) : h.table[i][p] = x
    BY <1>14 DEF Has
  <2>2. PICK p \in 1..Len(h.table[i]) : h.table[i][p] = x
    BY <2>1
  <2>3. CASE i # s
    BY <1>5, <2>2, <2>3 DEF Has
  <2>4. CASE i = s
    <3>1. p \in 1..Len(c) /\ c[p] = x
      BY <2>2, <2>4
    <3>2. p + 1 \in 1..Len(d) /\ d[p + 1] = x
      BY <1>2, <1>3, <3>1
    <3> QED BY <1>1, <1>5, <3>2 DEF Has
  <2> QED BY <2>3, <2>4
<1> QED BY <1>5, <1>11, <1>12, <1>13, <1>14 DEF n

-------------------------------------------------------------------------------
(* Rehashing *)

(* The entries of the chains before i, and of i before place p. *)
Before(h, i, x) == \E j \in 1..i : \E p \in 1..Len(h.table[j]) : h.table[j][p] = x
InChain(chain, k, x) == \E p \in 1..k : chain[p] = x

Tables(m) == [size : {m}, table : [1..m -> Seq(Entry)], used : Nat]

LEMMA MovedType ==
    ASSUME DictAssumption, NEW m \in Nat \ {0}, NEW h \in Tables(m), NEW e \in Entry
    PROVE  Moved(h, e) \in Tables(m)
<1>1. Slot(h, e.key) \in 1..m
  BY SlotInTable DEF Entry, Tables
<1>2. <<e>> \o h.table[Slot(h, e.key)] \in Seq(Entry)
  BY <1>1, Push DEF Tables
<1> QED BY <1>1, <1>2 DEF Moved, Tables

LEMMA MovedChainSteps ==
    ASSUME DictAssumption, NEW m \in Nat \ {0}, NEW n \in Tables(m), NEW chain \in Seq(Entry)
    PROVE  \E f \in [0..Len(chain) -> Tables(m)] :
              /\ MovedChain(n, chain) = f[Len(chain)] /\ f[0] = n
              /\ \A k \in 1..Len(chain) : f[k] = Moved(f[k - 1], chain[k])
<1> DEFINE A == Tables(m)
           G == [y \in Nat \X A |-> IF y[1] \in 1..Len(chain) THEN Moved(y[2], chain[y[1]]) ELSE y[2]]
           moved == CHOOSE f : f = [k \in 0..Len(chain) |->
                                       IF k = 0 THEN n ELSE Moved(f[k - 1], chain[k])]
<1>1. MovedChain(n, chain) = moved[Len(chain)]
  BY DEF MovedChain
<1>2. Len(chain) \in Nat /\ n \in A
  OBVIOUS
<1>3. \A h \in A, e \in Entry : Moved(h, e) \in A
  BY MovedType
<1>4. G \in [Nat \X A -> A]
  <2> SUFFICES ASSUME NEW y \in Nat \X A
               PROVE  (IF y[1] \in 1..Len(chain) THEN Moved(y[2], chain[y[1]]) ELSE y[2]) \in A
    OBVIOUS
  <2> HIDE DEF A
  <2> QED BY <1>3
<1>5. PICK f \in [0..Len(chain) -> A] : Steps(f, n, G, Len(chain))
  <2> HIDE DEF A, G
  <2> QED BY <1>2, <1>4, StepsExist
<1>6. \A k \in 1..Len(chain) : f[k] = Moved(f[k - 1], chain[k])
  <2> SUFFICES ASSUME NEW k \in 1..Len(chain) PROVE f[k] = Moved(f[k - 1], chain[k])
    OBVIOUS
  <2>1. k - 1 \in 0..Len(chain) /\ k \in Nat
    BY <1>2
  <2> HIDE DEF A
  <2>2. f[k - 1] \in A
    BY <2>1
  <2>3. f[k] = G[<<k, f[k - 1]>>]
    BY <1>5 DEF Steps
  <2> QED BY <2>1, <2>2, <2>3
<1>7. f[0] = n
  BY <1>5 DEF Steps
<1>8. f = [k \in 0..Len(chain) |-> IF k = 0 THEN n ELSE Moved(f[k - 1], chain[k])]
  <2> HIDE DEF A
  <2>1. f = [k \in 0..Len(chain) |-> f[k]]
    OBVIOUS
  <2>2. \A k \in 0..Len(chain) : f[k] = IF k = 0 THEN n ELSE Moved(f[k - 1], chain[k])
    BY <1>2, <1>6, <1>7
  <2> QED BY <2>1, <2>2
<1>9. moved = [k \in 0..Len(chain) |-> IF k = 0 THEN n ELSE Moved(moved[k - 1], chain[k])]
  BY <1>8
<1> HIDE DEF moved, A, G
<1>10. moved[0] = n /\ \A k \in 1..Len(chain) : moved[k] = Moved(moved[k - 1], chain[k])
  BY <1>2, <1>9
<1> DEFINE T == {k \in Nat : k <= Len(chain) => moved[k] \in A}
<1>11. 0 \in T
  BY <1>2, <1>10
<1>12. ASSUME NEW k \in T PROVE k + 1 \in T
  <2> SUFFICES ASSUME k + 1 <= Len(chain) PROVE moved[k + 1] \in A
    OBVIOUS
  <2>1. k \in Nat /\ k + 1 \in 1..Len(chain) /\ (k + 1) - 1 = k /\ moved[k] \in A
    BY <1>2
  <2>2. moved[k + 1] = Moved(moved[k], chain[k + 1]) /\ chain[k + 1] \in Entry
    BY <1>10, <2>1
  <2> QED BY <1>3, <2>1, <2>2
<1>13. \A k \in Nat : k \in T
  BY <1>11, <1>12, SetInduction DEF T
<1>14. moved \in [0..Len(chain) -> A]
  <2>1. \A k \in 0..Len(chain) : moved[k] \in A
    BY <1>2, <1>13 DEF T
  <2> QED BY <1>9, <2>1
<1> QED BY <1>1, <1>10, <1>14 DEF A

LEMMA MovedChainHas ==
    ASSUME DictAssumption, NEW n, Sound(n), n.size # 0, NEW chain \in Seq(Entry), Distinct(chain),
           \A p \in 1..Len(chain) : ~HasKey(n, chain[p].key)
    PROVE  /\ Sound(MovedChain(n, chain))
           /\ MovedChain(n, chain).size = n.size /\ MovedChain(n, chain).used = n.used
           /\ \A x : Has(MovedChain(n, chain), x) <=> Has(n, x) \/ InChain(chain, Len(chain), x)
<1>1. Len(chain) \in Nat /\ n.size \in Nat \ {0} /\ n \in Tables(n.size)
  BY DEF Sound, Shaped, Tables
<1>2. PICK moved \in [0..Len(chain) -> Tables(n.size)] :
              /\ MovedChain(n, chain) = moved[Len(chain)] /\ moved[0] = n
              /\ \A k \in 1..Len(chain) : moved[k] = Moved(moved[k - 1], chain[k])
  BY <1>1, MovedChainSteps
<1> DEFINE P(k) == /\ Sound(moved[k]) /\ moved[k].size = n.size /\ moved[k].used = n.used
                   /\ \A x : Has(moved[k], x) <=> Has(n, x) \/ InChain(chain, k, x)
           T == {k \in Nat : k <= Len(chain) => P(k)}
<1>11. 0 \in T
  <2>1. \A x : ~InChain(chain, 0, x)
    BY DEF InChain
  <2> QED BY <1>2, <2>1
<1>12. ASSUME NEW k \in T PROVE k + 1 \in T
  <2> SUFFICES ASSUME k + 1 <= Len(chain) PROVE P(k + 1)
    OBVIOUS
  <2> DEFINE e == chain[k + 1]
  <2>1. k \in Nat /\ k + 1 \in 1..Len(chain) /\ (k + 1) - 1 = k /\ P(k)
    BY <1>1
  <2>2. moved[k + 1] = Moved(moved[k], e) /\ e \in Entry
    BY <1>2, <2>1
  <2>3. ~HasKey(moved[k], e.key)
    <3> SUFFICES ASSUME NEW x, Has(moved[k], x), x.key = e.key PROVE FALSE
      BY DEF HasKey
    <3>1. ~Has(n, x)
      BY <2>1 DEF HasKey
    <3>2. InChain(chain, k, x)
      BY <2>1, <3>1
    <3>3. PICK p \in 1..k : chain[p] = x
      BY <3>2 DEF InChain
    <3>4. p \in 1..Len(chain) /\ p # k + 1
      BY <1>1, <2>1
    <3> QED BY <2>1, <3>3, <3>4 DEF Distinct
  <2>4. \A x : InChain(chain, k + 1, x) <=> InChain(chain, k, x) \/ x = e
    <3>1. 1..(k + 1) = (1..k) \cup {k + 1}
      BY <2>1
    <3> QED BY <3>1 DEF InChain
  <2> DEFINE m == moved[k]
  <2>5. Sound(m) /\ m.size # 0 /\ ~HasKey(m, e.key) /\ m.size = n.size /\ m.used = n.used
    BY <1>1, <2>1, <2>3
  <2>6. \A x : Has(m, x) <=> Has(n, x) \/ InChain(chain, k, x)
    BY <2>1
  <2>7. moved[k + 1] = Moved(m, e)
    BY <2>2
  <2> HIDE DEF m, e
  <2> QED BY <2>2, <2>4, <2>5, <2>6, <2>7, MovedHas
<1> HIDE DEF T, P
<1>13. \A k \in Nat : k \in T
  BY <1>11, <1>12, SetInduction DEF T
<1>14. P(Len(chain))
  BY <1>1, <1>13 DEF T
<1> QED BY <1>2, <1>14 DEF P

LEMMA DoubledDef ==
    ASSUME DictAssumption
    PROVE  /\ Doubled \in [Nat -> Nat \ {0}] /\ Doubled[0] = DICT_HT_INITIAL_SIZE
           /\ \A k \in Nat : Doubled[k + 1] = 2 * Doubled[k]
<1> DEFINE A == Nat \ {0}
           G == [y \in Nat \X A |-> 2 * y[2]]
           I == DICT_HT_INITIAL_SIZE
<1>1. I \in A
  BY DEF DictAssumption
<1>2. G \in [Nat \X A -> A]
  OBVIOUS
<1>3. PICK f \in [Nat -> A] : f[0] = I /\ \A k \in Nat \ {0} : f[k] = G[<<k, f[k - 1]>>]
  <2> HIDE DEF A, G
  <2> QED BY <1>1, <1>2, Recursion, SMTT(30)
<1>4. \A k \in Nat \ {0} : f[k] = 2 * f[k - 1]
  <2> SUFFICES ASSUME NEW k \in Nat \ {0} PROVE f[k] = 2 * f[k - 1]
    OBVIOUS
  <2>1. k - 1 \in Nat /\ k \in Nat
    OBVIOUS
  <2>2. f[k - 1] \in A
    BY <2>1
  <2> QED BY <1>3, <2>1, <2>2
<1>5. f = [k \in Nat |-> IF k = 0 THEN I ELSE 2 * f[k - 1]]
  <2>1. f = [k \in Nat |-> f[k]]
    OBVIOUS
  <2> QED BY <1>3, <1>4, <2>1
<1> DEFINE D == CHOOSE h : h = [k \in Nat |-> IF k = 0 THEN I ELSE 2 * h[k - 1]]
<1>6. Doubled = D
  BY DEF Doubled
<1>7. D = [k \in Nat |-> IF k = 0 THEN I ELSE 2 * D[k - 1]]
  BY <1>5
<1> HIDE DEF D
<1>8. D[0] = I /\ \A k \in Nat : D[k + 1] = 2 * D[k]
  BY <1>7
<1> DEFINE T == {k \in Nat : D[k] \in A}
<1>9. 0 \in T
  BY <1>1, <1>8
<1>10. ASSUME NEW k \in T PROVE k + 1 \in T
  BY <1>8
<1> HIDE DEF T
<1>11. \A k \in Nat : k \in T
  BY <1>9, <1>10, SetInduction DEF T
<1>12. D \in [Nat -> A]
  <2>1. \A k \in Nat : D[k] \in A
    BY <1>11 DEF T
  <2> QED BY <1>7, <2>1
<1> QED BY <1>6, <1>8, <1>12

(* The next power is there, and is enough. *)
LEMMA NextPower ==
    ASSUME DictAssumption, NEW size \in Nat
    PROVE  _dictNextPower(size) \in Nat \ {0} /\ _dictNextPower(size) >= size
<1> DEFINE T == {k \in Nat : Doubled[k] > k}
           P(i) == Doubled[i] >= size /\ \A j \in 0..(i - 1) : Doubled[j] < size
<1>1. 0 \in T
  BY DoubledDef
<1>2. ASSUME NEW k \in T PROVE k + 1 \in T
  <2>1. Doubled[k] \in Nat /\ Doubled[k] > k /\ k \in Nat /\ Doubled[k + 1] = 2 * Doubled[k]
    BY DoubledDef
  <2> QED BY <2>1
<1> HIDE DEF T
<1>3. \A k \in Nat : k \in T
  BY <1>1, <1>2, SetInduction DEF T
<1> DEFINE E == {k \in Nat : Doubled[k] >= size}
<1>4. size \in E
  BY <1>3, DoubledDef DEF T
<1>5. PICK i \in E : \A k \in E : i <= k
  BY <1>4, Least
<1>6. i \in 0..size /\ P(i)
  <2>1. i \in 0..size /\ Doubled[i] >= size
    BY <1>4, <1>5
  <2>2. ASSUME NEW j \in 0..(i - 1) PROVE Doubled[j] < size
    <3>1. j \in Nat /\ Doubled[j] \in Nat /\ j \notin E
      BY <1>5, DoubledDef
    <3> QED BY <3>1
  <2> QED BY <2>1, <2>2
<1> DEFINE c == CHOOSE k \in 0..size : P(k)
<1>7. c \in 0..size /\ P(c)
  <2> HIDE DEF P
  <2> QED BY <1>6
<1>8. _dictNextPower(size) = Doubled[c]
  BY DEF _dictNextPower
<1> HIDE DEF c
<1> QED BY <1>7, <1>8, DoubledDef

(* A table of no entries, with as many chains as there are to be. *)
Empty(h, m) == [size |-> m, used |-> h.used, table |-> [i \in 1..m |-> <<>>]]

LEMMA ExpandSteps ==
    ASSUME DictAssumption, NEW h, Sound(h), NEW size \in Nat, h.used <= size, NEW m \in Nat \ {0},
           m = _dictNextPower(size)
    PROVE  \E f \in [0..h.size -> Tables(m)] :
              /\ dictExpand(h, size) = f[h.size] /\ f[0] = Empty(h, m)
              /\ \A i \in 1..h.size : f[i] = MovedChain(f[i - 1], h.table[i])
<1> DEFINE A == Tables(m)
           n == Empty(h, m)
           t == h.table
           G == [y \in Nat \X A |-> IF y[1] \in 1..h.size THEN MovedChain(y[2], t[y[1]]) ELSE y[2]]
           moved == CHOOSE f : f = [i \in 0..h.size |->
                                       IF i = 0 THEN n ELSE MovedChain(f[i - 1], t[i])]
<1>1. dictExpand(h, size) = moved[h.size]
  <2>1. ~(h.used > size)
    BY DEF Sound, Shaped
  <2> QED BY <2>1 DEF dictExpand, Empty
<1>2. h.size \in Nat /\ n \in A
  <2>1. <<>> \in Seq(Entry)
    OBVIOUS
  <2> QED BY <2>1 DEF Sound, Shaped, Empty, Tables
<1>3. \A g \in A, i \in 1..h.size : MovedChain(g, t[i]) \in A
  <2> SUFFICES ASSUME NEW g \in A, NEW i \in 1..h.size PROVE MovedChain(g, t[i]) \in A
    OBVIOUS
  <2> DEFINE c == t[i]
  <2>1. c \in Seq(Entry)
    BY Shapes
  <2> HIDE DEF c, moved, G
  <2>2. \E f \in [0..Len(c) -> Tables(m)] : MovedChain(g, c) = f[Len(c)]
    BY <2>1, MovedChainSteps
  <2>3. Len(c) \in 0..Len(c)
    BY <2>1
  <2> HIDE DEF A
  <2>4. MovedChain(g, c) \in A
    BY <2>2, <2>3 DEF A
  <2> QED BY <2>4 DEF c
<1>4. G \in [Nat \X A -> A]
  <2> SUFFICES ASSUME NEW y \in Nat \X A
               PROVE  (IF y[1] \in 1..h.size THEN MovedChain(y[2], t[y[1]]) ELSE y[2]) \in A
    OBVIOUS
  <2> HIDE DEF A
  <2> QED BY <1>3
<1>5. PICK f \in [0..h.size -> A] : Steps(f, n, G, h.size)
  <2> HIDE DEF A, G, n
  <2> QED BY <1>2, <1>4, StepsExist
<1>6. \A k \in 1..h.size : f[k] = MovedChain(f[k - 1], t[k])
  <2> SUFFICES ASSUME NEW k \in 1..h.size PROVE f[k] = MovedChain(f[k - 1], t[k])
    OBVIOUS
  <2>1. k - 1 \in 0..h.size /\ k \in Nat
    BY <1>2
  <2> HIDE DEF A
  <2>2. f[k - 1] \in A
    BY <2>1
  <2>3. f[k] = G[<<k, f[k - 1]>>]
    BY <1>5 DEF Steps
  <2> QED BY <2>1, <2>2, <2>3
<1>7. f[0] = n
  BY <1>5 DEF Steps
<1>8. f = [i \in 0..h.size |-> IF i = 0 THEN n ELSE MovedChain(f[i - 1], t[i])]
  <2> HIDE DEF A, n, t
  <2>1. f = [k \in 0..h.size |-> f[k]]
    OBVIOUS
  <2>2. \A k \in 0..h.size : f[k] = IF k = 0 THEN n ELSE MovedChain(f[k - 1], t[k])
    BY <1>2, <1>6, <1>7
  <2> QED BY <2>1, <2>2
<1>9. moved = [i \in 0..h.size |-> IF i = 0 THEN n ELSE MovedChain(moved[i - 1], t[i])]
  BY <1>8
<1> HIDE DEF moved, A, G, n
<1>10. moved[0] = n /\ \A k \in 1..h.size : moved[k] = MovedChain(moved[k - 1], t[k])
  BY <1>2, <1>9
<1> DEFINE T == {k \in Nat : k <= h.size => moved[k] \in A}
<1>11. 0 \in T
  BY <1>2, <1>10
<1>12. ASSUME NEW k \in T PROVE k + 1 \in T
  <2> SUFFICES ASSUME k + 1 <= h.size PROVE moved[k + 1] \in A
    OBVIOUS
  <2>1. k \in Nat /\ k + 1 \in 1..h.size /\ (k + 1) - 1 = k /\ moved[k] \in A
    BY <1>2
  <2> QED BY <1>3, <1>10, <2>1
<1>13. \A k \in Nat : k \in T
  BY <1>11, <1>12, SetInduction DEF T
<1>14. moved \in [0..h.size -> A]
  <2>1. \A k \in 0..h.size : moved[k] \in A
    BY <1>2, <1>13 DEF T
  <2> QED BY <1>9, <2>1
<1> QED BY <1>1, <1>10, <1>14 DEF A, n

(* dictExpand keeps the entries. *)
LEMMA Expanded ==
    ASSUME DictAssumption, NEW h, Sound(h), NEW size \in Nat, h.used <= size
    PROVE  /\ Sound(dictExpand(h, size)) /\ dictExpand(h, size).used = h.used
           /\ dictExpand(h, size).size \in Nat \ {0}
           /\ \A x : Has(dictExpand(h, size), x) <=> Has(h, x)
<1> DEFINE m == _dictNextPower(size)
<1>1. m \in Nat \ {0} /\ h.size \in Nat
  BY NextPower DEF Sound
<1> HIDE DEF m
<1>2. PICK f \in [0..h.size -> Tables(m)] :
              /\ dictExpand(h, size) = f[h.size] /\ f[0] = Empty(h, m)
              /\ \A i \in 1..h.size : f[i] = MovedChain(f[i - 1], h.table[i])
  BY <1>1, ExpandSteps DEF m
<1> DEFINE P(i) == /\ Sound(f[i]) /\ f[i].size = m /\ f[i].used = h.used
                   /\ \A x : Has(f[i], x) <=> Before(h, i, x)
           T == {i \in Nat : i <= h.size => P(i)}
<1>11. 0 \in T
  <2>1. <<>> \in Seq(Entry) /\ Len(<<>>) = 0
    OBVIOUS
  <2> DEFINE e == Empty(h, m)
  <2>2. /\ e.size = m /\ e.used = h.used /\ Shaped(e, m)
        /\ \A i \in 1..m : e.table[i] = <<>>
    BY <1>1, <2>1 DEF Empty, Sound, Shaped
  <2> HIDE DEF e
  <2>3. Sound(e)
    BY <1>1, <2>1, <2>2 DEF Sound, Distinct
  <2>4. \A x : ~Has(e, x)
    BY <2>1, <2>2 DEF Has
  <2>5. \A x : ~Before(h, 0, x)
    BY DEF Before
  <2> QED BY <1>2, <2>2, <2>3, <2>4, <2>5 DEF e
<1>12. ASSUME NEW i \in T PROVE i + 1 \in T
  <2> SUFFICES ASSUME i + 1 <= h.size PROVE P(i + 1)
    OBVIOUS
  <2> DEFINE c == h.table[i + 1]
             n == f[i]
  <2>1. i \in Nat /\ i + 1 \in 1..h.size /\ (i + 1) - 1 = i /\ P(i)
    BY <1>1
  <2>2. f[i + 1] = MovedChain(n, c) /\ c \in Seq(Entry) /\ Distinct(c)
    BY <1>2, <2>1, Shapes DEF Sound
  <2>3. ASSUME NEW p \in 1..Len(c) PROVE ~HasKey(n, c[p].key)
    <3> SUFFICES ASSUME NEW x, Has(n, x), x.key = c[p].key PROVE FALSE
      BY DEF HasKey
    <3>1. PICK j \in 1..i : \E q \in 1..Len(h.table[j]) : h.table[j][q] = x
      BY <2>1 DEF Before
    <3>2. PICK q \in 1..Len(h.table[j]) : h.table[j][q] = x
      BY <3>1
    <3>3. j \in 1..h.size /\ j # i + 1
      BY <1>1, <2>1
    <3>4. Slot(h, h.table[j][q].key) = j /\ Slot(h, c[p].key) = i + 1
      BY <2>1, <3>2, <3>3, Shapes
    <3> QED BY <3>2, <3>3, <3>4
  <2>4. Sound(n) /\ n.size = m /\ n.used = h.used /\ \A x : Has(n, x) <=> Before(h, i, x)
    BY <2>1
  <2>5. \A x : Before(h, i + 1, x) <=> Before(h, i, x) \/ InChain(c, Len(c), x)
    <3>1. 1..(i + 1) = (1..i) \cup {i + 1}
      BY <2>1
    <3> QED BY <3>1 DEF Before, InChain
  <2> HIDE DEF n, c
  <2> QED BY <1>1, <2>2, <2>3, <2>4, <2>5, MovedChainHas
<1> HIDE DEF T, P
<1>13. \A i \in Nat : i \in T
  BY <1>11, <1>12, SetInduction DEF T
<1>14. P(h.size)
  BY <1>1, <1>13 DEF T
<1>15. \A x : Before(h, h.size, x) <=> Has(h, x)
  BY DEF Before, Has
<1> QED BY <1>1, <1>2, <1>14, <1>15 DEF P

LEMMA ExpandedIfNeeded ==
    ASSUME DictAssumption, NEW h, Sound(h), h.size = 0 => h.used = 0
    PROVE  /\ Sound(_dictExpandIfNeeded(h)) /\ _dictExpandIfNeeded(h).used = h.used
           /\ _dictExpandIfNeeded(h).size \in Nat \ {0}
           /\ \A x : Has(_dictExpandIfNeeded(h), x) <=> Has(h, x)
<1>1. h.size \in Nat /\ h.used \in Nat /\ DICT_HT_INITIAL_SIZE \in Nat
  BY DEF Sound, Shaped, DictAssumption
<1>2. CASE h.size = 0
  BY <1>1, <1>2, Expanded DEF _dictExpandIfNeeded
<1>3. CASE h.size # 0 /\ h.used = h.size
  <2>1. h.size * 2 \in Nat /\ h.used <= h.size * 2
    BY <1>1, <1>3
  <2> QED BY <1>3, <2>1, Expanded DEF _dictExpandIfNeeded
<1>4. CASE h.size # 0 /\ h.used # h.size
  BY <1>1, <1>4 DEF _dictExpandIfNeeded
<1> QED BY <1>2, <1>3, <1>4

-------------------------------------------------------------------------------
(* Adding, replacing, deleting *)
LEMMA OtherUsed ==
    ASSUME NEW h, Sound(h), NEW u \in Nat, NEW n, n = [h EXCEPT !.used = u]
    PROVE  /\ Sound(n) /\ n.size = h.size /\ n.used = u /\ n.table = h.table
           /\ \A x : Has(n, x) <=> Has(h, x)
<1>1. /\ n.size = h.size /\ n.used = u /\ n.table = h.table /\ n.size \in Nat
      /\ Shaped(n, n.size)
  BY DEF Sound, Shaped
<1>2. \A k : Slot(n, k) = Slot(h, k)
  BY <1>1 DEF Slot
<1>3. Sound(n)
  BY <1>1, <1>2 DEF Sound
<1> QED BY <1>1, <1>3 DEF Has

LEMMA Added ==
    ASSUME DictAssumption, NEW h, Sound(h), h.size = 0 => h.used = 0,
           NEW key \in Keys, NEW val \in Vals, NEW r, r = dictAdd(h, key, val)
    PROVE  /\ Sound(r.ht) /\ r.ht.size \in Nat \ {0} /\ r.ret = ~HasKey(h, key)
           /\ ~r.ret => r.ht.used = h.used /\ \A x : Has(r.ht, x) <=> Has(h, x)
           /\ r.ret => /\ r.ht.used = h.used + 1
                       /\ \A x : Has(r.ht, x) <=> Has(h, x) \/ x = [key |-> key, val |-> val]
<1> DEFINE g == _dictExpandIfNeeded(h)
           e == [key |-> key, val |-> val]
           m == Moved(g, e)
<1>1. Sound(g) /\ g.used = h.used /\ g.size \in Nat \ {0} /\ \A x : Has(g, x) <=> Has(h, x)
  BY ExpandedIfNeeded
<1>2. HasKey(g, key) <=> HasKey(h, key)
  BY <1>1 DEF HasKey
<1>3. IndexIn(g.table[Slot(g, key)], key) # {} <=> HasKey(h, key)
  <2> HIDE DEF g
  <2> QED BY <1>1, <1>2, Search
<1>4. g.used \in Nat /\ e \in Entry /\ e.key = key
  BY <1>1 DEF Sound, Shaped, Entry
<1>5. CASE HasKey(h, key)
  <2>1. r = [ht |-> g, ret |-> FALSE]
    BY <1>3, <1>5 DEF dictAdd, DICT_ERR
  <2> HIDE DEF g
  <2>2. r.ht = g /\ r.ret = FALSE
    BY <2>1
  <2> QED BY <1>1, <1>5, <2>2
<1>6. CASE ~HasKey(h, key)
  <2>1. r = [ret |-> TRUE, ht |-> [g EXCEPT !.used = @ + 1, !.table[Slot(g, key)] = <<e>> \o @]]
    BY <1>3, <1>6 DEF dictAdd, DICT_OK
  <2> HIDE DEF g, e
  <2>2. g \in [size : {g.size}, table : [1..g.size -> Seq(Entry)], used : Nat]
    BY <1>1 DEF Sound, Shaped
  <2>3. r.ret = TRUE /\ r.ht = [m EXCEPT !.used = g.used + 1]
    <3> DEFINE t == [g.table EXCEPT ![Slot(g, key)] = <<e>> \o @]
    <3>1. r = [ret |-> TRUE, ht |-> [g EXCEPT !.used = @ + 1, !.table = t]]
      BY <2>1, <2>2
    <3>2. m = [g EXCEPT !.table = t]
      BY <1>4, <2>2 DEF Moved
    <3> HIDE DEF t, m
    <3>3. m = [size |-> g.size, table |-> t, used |-> g.used]
      BY <2>2, <3>2
    <3>4. [g EXCEPT !.used = @ + 1, !.table = t] = [size |-> g.size, table |-> t, used |-> g.used + 1]
      <4>1. g = [size |-> g.size, table |-> g.table, used |-> g.used]
        BY <2>2
      <4>2. [g EXCEPT !.used = @ + 1] = [size |-> g.size, table |-> g.table, used |-> g.used + 1]
        BY <4>1
      <4>3. [g EXCEPT !.used = @ + 1, !.table = t] = [[g EXCEPT !.used = @ + 1] EXCEPT !.table = t]
        BY Zenon
      <4>4. [[size |-> g.size, table |-> g.table, used |-> g.used + 1] EXCEPT !.table = t]
              = [size |-> g.size, table |-> t, used |-> g.used + 1]
        OBVIOUS
      <4> QED BY <4>2, <4>3, <4>4, Zenon
    <3>5. [m EXCEPT !.used = g.used + 1] = [size |-> g.size, table |-> t, used |-> g.used + 1]
      BY <3>3
    <3> QED BY <3>1, <3>4, <3>5
  <2>4. Sound(m) /\ m.size = g.size /\ \A x : Has(m, x) <=> Has(g, x) \/ x = e
    BY <1>1, <1>2, <1>4, <1>6, MovedHas
  <2> HIDE DEF m
  <2>5. g.used + 1 \in Nat
    BY <1>4
  <2>6. /\ Sound(r.ht) /\ r.ht.size = m.size /\ r.ht.used = g.used + 1
        /\ \A x : Has(r.ht, x) <=> Has(m, x)
    BY <2>3, <2>4, <2>5, OtherUsed
  <2> QED BY <1>1, <1>6, <2>3, <2>4, <2>6 DEF e
<1> QED BY <1>5, <1>6

LEMMA Replaced ==
    ASSUME DictAssumption, NEW h, Sound(h), h.size = 0 => h.used = 0,
           NEW key \in Keys, NEW val \in Vals, NEW n, n = dictReplace(h, key, val).ht
    PROVE  /\ Sound(n) /\ n.size # 0
           /\ n.used = h.used + (IF HasKey(h, key) THEN 0 ELSE 1)
           /\ \A x : Has(n, x) <=> \/ x = [key |-> key, val |-> val]
                                   \/ Has(h, x) /\ x.key # key
<1> DEFINE r == dictAdd(h, key, val)
           e == [key |-> key, val |-> val]
<1>1. /\ Sound(r.ht) /\ r.ht.size \in Nat \ {0} /\ r.ret = ~HasKey(h, key)
      /\ ~r.ret => r.ht.used = h.used /\ \A x : Has(r.ht, x) <=> Has(h, x)
      /\ r.ret => /\ r.ht.used = h.used + 1
                  /\ \A x : Has(r.ht, x) <=> Has(h, x) \/ x = e
  BY Added
<1>2. h.used \in Nat
  BY DEF Sound, Shaped
<1>3. CASE ~HasKey(h, key)
  <2>1. n = r.ht
    BY <1>1, <1>3 DEF dictReplace
  <2> HIDE DEF r, e
  <2>2. \A x : Has(h, x) => x.key # key
    BY <1>3 DEF HasKey
  <2> QED BY <1>1, <1>2, <1>3, <2>1, <2>2 DEF e
<1>4. CASE HasKey(h, key)
  <2> DEFINE g == r.ht
             s == Slot(g, key)
             c == g.table[s]
             a == CHOOSE i \in IndexIn(c, key) : TRUE
             d == [c EXCEPT ![a].val = val]
  <2>1. n = [g EXCEPT !.table[s][a].val = val]
    BY <1>1, <1>4 DEF dictReplace
  <2>2. Sound(g) /\ g.size \in Nat \ {0} /\ g.used = h.used /\ \A x : Has(g, x) <=> Has(h, x)
    BY <1>1, <1>4
  <2> HIDE DEF r
  <2>3. HasKey(g, key)
    BY <1>4, <2>2 DEF HasKey
  <2> HIDE DEF g
  <2>4. IndexIn(c, key) # {}
    BY <2>2, <2>3, Search
  <2>5. a \in IndexIn(c, key)
    BY <2>4
  <2> HIDE DEF a
  <2>6. a \in 1..Len(c) /\ c[a].key = key /\ s \in 1..g.size
    BY <2>2, <2>5, Search
  <2> HIDE DEF s
  <2>7. c \in Seq(Entry) /\ c[a] \in Entry
    BY <2>2, <2>6, Shapes
  <2>8. /\ d \in Seq(Entry) /\ Len(d) = Len(c)
        /\ \A p \in 1..Len(c) : d[p] = IF p = a THEN e ELSE c[p]
    <3>1. [c[a] EXCEPT !.val = val] = e
      BY <2>6, <2>7 DEF Entry
    <3>2. d = [c EXCEPT ![a] = e]
      BY <2>6, <2>7, <3>1
    <3>3. e \in Entry
      BY DEF Entry
    <3> HIDE DEF e, d, c
    <3>4. [c EXCEPT ![a] = e] \in Seq(Entry) /\ Len([c EXCEPT ![a] = e]) = Len(c)
      BY <2>6, <2>7, <3>3, ExceptSeq
    <3> QED BY <2>6, <2>7, <3>2, <3>4
  <2>9. n = [g EXCEPT !.table = [g.table EXCEPT ![s] = d]]
    <3>1. g \in [size : {g.size}, table : [1..g.size -> Seq(Entry)], used : Nat]
      BY <2>2 DEF Sound, Shaped
    <3> QED BY <2>1, <2>6, <3>1
  <2>10. c = g.table[s]
    OBVIOUS
  <2> HIDE DEF c, d
  <2>11. /\ n.size = g.size /\ n.used = g.used /\ Shaped(n, g.size)
         /\ n.table[s] = d /\ \A i \in 1..g.size : i # s => n.table[i] = g.table[i]
    <3> DEFINE t == [g.table EXCEPT ![s] = d]
    <3>1. g \in [size : {g.size}, table : [1..g.size -> Seq(Entry)], used : Nat]
      BY <2>2 DEF Sound, Shaped
    <3>2. t \in [1..g.size -> Seq(Entry)] /\ t[s] = d /\ \A i \in 1..g.size : i # s => t[i] = g.table[i]
      BY <2>6, <2>8, <3>1
    <3>3. n = [g EXCEPT !.table = t]
      BY <2>9
    <3> HIDE DEF t
    <3>4. n.size = g.size /\ n.used = g.used /\ n.table = t
      BY <3>1, <3>3
    <3>5. n \in [size : {g.size}, table : [1..g.size -> Seq(Entry)], used : Nat]
      BY <3>1, <3>2, <3>3
    <3> QED BY <3>2, <3>4, <3>5 DEF Shaped
  <2>12. \A p \in 1..Len(c) : d[p].key = c[p].key
    BY <2>6, <2>8
  <2>13. \A i \in 1..g.size : /\ Len(n.table[i]) = Len(g.table[i])
                              /\ \A p \in 1..Len(g.table[i]) :
                                     n.table[i][p].key = g.table[i][p].key
    BY <2>8, <2>10, <2>11, <2>12
  <2>14. \A k : Slot(n, k) = Slot(g, k)
    BY <2>11 DEF Slot
  <2>15. Sound(n)
    <3>1. \A i \in 1..n.size : Distinct(n.table[i])
      BY <2>2, <2>11, <2>13, SMTT(30) DEF Sound, Distinct
    <3>2. \A i \in 1..n.size : \A p \in 1..Len(n.table[i]) : Slot(n, n.table[i][p].key) = i
      BY <2>2, <2>11, <2>13, <2>14 DEF Sound
    <3> QED BY <2>2, <2>11, <3>1, <3>2 DEF Sound
  <2>16. \A i \in 1..g.size : \A p \in 1..Len(g.table[i]) :
            n.table[i][p] = IF g.table[i][p].key = key THEN e ELSE g.table[i][p]
    <3> SUFFICES ASSUME NEW i \in 1..g.size, NEW p \in 1..Len(g.table[i])
                 PROVE  n.table[i][p] = IF g.table[i][p].key = key THEN e ELSE g.table[i][p]
      OBVIOUS
    <3>1. CASE i = s
      <4>1. c[p].key = key <=> p = a
        BY <2>2, <2>6, <2>10, <3>1 DEF Sound, Distinct
      <4> QED BY <2>8, <2>10, <2>11, <3>1, <4>1
    <3>2. CASE i # s
      <4>1. Slot(g, g.table[i][p].key) = i
        BY <2>2 DEF Sound
      <4>2. g.table[i][p].key # key
        BY <3>2, <4>1 DEF s
      <4> QED BY <2>11, <3>2, <4>2
    <3> QED BY <3>1, <3>2
  <2>17. Has(n, e)
    <3>1. n.table[s][a] = e
      BY <2>6, <2>8, <2>11
    <3> QED BY <2>6, <2>8, <2>11, <3>1 DEF Has
  <2>18. ASSUME NEW x, Has(n, x) PROVE x = e \/ (Has(g, x) /\ x.key # key)
    <3>1. PICK i \in 1..n.size : \E p \in 1..Len(n.table[i]) : n.table[i][p] = x
      BY <2>18 DEF Has
    <3>2. PICK p \in 1..Len(n.table[i]) : n.table[i][p] = x
      BY <3>1
    <3>3. i \in 1..g.size /\ p \in 1..Len(g.table[i])
      BY <2>11, <2>13
    <3> QED BY <2>16, <3>2, <3>3 DEF Has
  <2>19. ASSUME NEW x, Has(g, x), x.key # key PROVE Has(n, x)
    <3>1. PICK i \in 1..g.size : \E p \in 1..Len(g.table[i]) : g.table[i][p] = x
      BY <2>19 DEF Has
    <3>2. PICK p \in 1..Len(g.table[i]) : g.table[i][p] = x
      BY <3>1
    <3>3. i \in 1..n.size /\ p \in 1..Len(n.table[i]) /\ n.table[i][p] = x
      BY <2>11, <2>13, <2>16, <2>19, <3>2
    <3> QED BY <3>3 DEF Has
  <2> QED BY <1>2, <1>4, <2>2, <2>11, <2>15, <2>17, <2>18, <2>19 DEF e
<1> QED BY <1>3, <1>4

(* A chain without its entry at place a. *)
LEMMA Without ==
    ASSUME NEW S, NEW c \in Seq(S), NEW a \in 1..Len(c)
    PROVE  /\ RemoveAt(c, a) \in Seq(S) /\ Len(RemoveAt(c, a)) = Len(c) - 1
           /\ \A p \in 1..(Len(c) - 1) :
                 RemoveAt(c, a)[p] = IF p < a THEN c[p] ELSE c[p + 1]
<1> DEFINE l == SubSeq(c, 1, a - 1)
           r == SubSeq(c, a + 1, Len(c))
<1>1. Len(c) \in Nat /\ a \in Nat /\ a - 1 \in Int /\ a + 1 \in Int /\ \A p \in 1..Len(c) : c[p] \in S
  OBVIOUS
<1>2. \A p \in 1..(a - 1) : c[p] \in S
  BY <1>1
<1>3. \A p \in (a + 1)..Len(c) : c[p] \in S
  BY <1>1
<1>4. /\ l \in Seq(S) /\ Len(l) = IF 1 <= a - 1 THEN (a - 1) - 1 + 1 ELSE 0
      /\ \A p \in 1..((a - 1) - 1 + 1) : l[p] = c[1 + p - 1]
  BY <1>1, <1>2, SubSeqProperties
<1>5. /\ r \in Seq(S) /\ Len(r) = IF a + 1 <= Len(c) THEN Len(c) - (a + 1) + 1 ELSE 0
      /\ \A p \in 1..(Len(c) - (a + 1) + 1) : r[p] = c[(a + 1) + p - 1]
  BY <1>1, <1>3, SubSeqProperties
<1>6. RemoveAt(c, a) = l \o r
  BY DEF RemoveAt
<1> HIDE DEF l, r
<1>7. Len(l) = a - 1 /\ Len(r) = Len(c) - a
  BY <1>1, <1>4, <1>5
<1> DEFINE d == l \o r
<1>8. /\ d \in Seq(S) /\ Len(d) = Len(l) + Len(r)
      /\ \A p \in 1..(Len(l) + Len(r)) : d[p] = IF p <= Len(l) THEN l[p] ELSE r[p - Len(l)]
  BY <1>4, <1>5, ConcatProperties
<1> HIDE DEF d
<1>9. ASSUME NEW p \in 1..(Len(c) - 1) PROVE d[p] = IF p < a THEN c[p] ELSE c[p + 1]
  <2>1. CASE p < a
    <3>1. p \in 1..((a - 1) - 1 + 1) /\ p <= Len(l) /\ p \in 1..(Len(l) + Len(r)) /\ 1 + p - 1 = p
      BY <1>1, <1>7, <2>1
    <3>2. l[p] = c[1 + p - 1]
      BY <1>4, <3>1
    <3> QED BY <1>8, <2>1, <3>1, <3>2
  <2>2. CASE p >= a
    <3>1. /\ p - Len(l) \in 1..(Len(c) - (a + 1) + 1) /\ ~(p <= Len(l)) /\ p \in 1..(Len(l) + Len(r))
          /\ (a + 1) + (p - Len(l)) - 1 = p + 1 /\ ~(p < a)
      BY <1>1, <1>7, <2>2
    <3>2. r[p - Len(l)] = c[(a + 1) + (p - Len(l)) - 1]
      BY <1>5, <3>1
    <3> QED BY <1>8, <3>1, <3>2
  <2> QED BY <1>1, <2>1, <2>2
<1>10. Len(d) = Len(c) - 1
  BY <1>1, <1>7, <1>8
<1> QED BY <1>6, <1>8, <1>9, <1>10 DEF d

(* Place p of a chain that has lost its entry at place a. *)
Old(p, a) == IF p < a THEN p ELSE p + 1


(* n is h without the entry at place a of slot s, which was that of key. *)
Lost(h, n, s, a, key) ==
    /\ a \in 1..Len(h.table[s]) /\ h.table[s][a].key = key
    /\ \A i \in 1..h.size : i # s => n.table[i] = h.table[i]
    /\ Len(n.table[s]) = Len(h.table[s]) - 1
    /\ \A p \in 1..(Len(h.table[s]) - 1) : n.table[s][p] = h.table[s][Old(p, a)]

LEMMA Deleted ==
    ASSUME DictAssumption, NEW h, Sound(h), NEW key \in Keys, HasKey(h, key), h.used # 0,
           NEW r, r = dictDelete(h, key)
    PROVE  /\ Sound(r.ht) /\ r.ret = TRUE /\ r.ht.size = h.size /\ r.ht.used = h.used - 1
           /\ \A x : Has(r.ht, x) <=> Has(h, x) /\ x.key # key
           /\ Slot(h, key) \in 1..h.size
           /\ \E a : Lost(h, r.ht, Slot(h, key), a, key)
<1> DEFINE s == Slot(h, key)
           c == h.table[s]
           a == CHOOSE i \in IndexIn(c, key) : TRUE
           d == RemoveAt(c, a)
           n == r.ht
           t == [h.table EXCEPT ![s] = d]
<1>1. h.used - 1 \in Nat /\ h.size \in Nat
  BY DEF Sound, Shaped
<1>2. h.size # 0
  BY DEF HasKey, Has
<1>3. dictFind(h, key) # NULL
  <2>1. PICK e : Has(h, e) /\ e.key = key
    BY DEF HasKey
  <2>2. e = [key |-> key, val |-> e.val] /\ e.val \in Vals
    BY <2>1, EntryTypes
  <2>3. Has(h, [key |-> key, val |-> e.val])
    BY <2>1, <2>2
  <2>4. dictFind(h, key) = e.val
    BY <2>3, FindGives
  <2> QED BY <2>2, <2>4 DEF DictAssumption
<1>4. IndexIn(c, key) # {}
  BY <1>2, Search
<1>5. a \in IndexIn(c, key)
  BY <1>4
<1>6. r = [ret |-> TRUE, ht |-> [h EXCEPT !.used = @ - 1, !.table[s] = d]]
  BY <1>3 DEF dictDelete, DICT_OK
<1> HIDE DEF a
<1>7. a \in 1..Len(c) /\ c[a].key = key /\ s \in 1..h.size
  BY <1>2, <1>5, Search
<1>8. c \in Seq(Entry) /\ Len(c) \in Nat
  <2> HIDE DEF s
  <2>1. h.table[s] \in Seq(Entry)
    BY <1>7, Shapes
  <2> QED BY <2>1
<1>9. /\ d \in Seq(Entry) /\ Len(d) = Len(c) - 1
      /\ \A p \in 1..Len(d) : Old(p, a) \in 1..Len(c) /\ Old(p, a) # a /\ d[p] = c[Old(p, a)]
  <2> HIDE DEF c
  <2>1. /\ d \in Seq(Entry) /\ Len(d) = Len(c) - 1
        /\ \A p \in 1..(Len(c) - 1) : d[p] = IF p < a THEN c[p] ELSE c[p + 1]
    BY <1>7, <1>8, Without
  <2> HIDE DEF d
  <2> QED BY <1>7, <1>8, <2>1 DEF Old
<1> HIDE DEF d
<1>10. h \in [size : {h.size}, table : [1..h.size -> Seq(Entry)], used : Nat]
  BY DEF Sound, Shaped
<1>11. /\ t \in [1..h.size -> Seq(Entry)] /\ t[s] = d
       /\ \A i \in 1..h.size : i # s => t[i] = h.table[i]
  BY <1>7, <1>9, <1>10
<1>12. n = [size |-> h.size, table |-> t, used |-> h.used - 1] /\ r.ret = TRUE
  <2>0. [h EXCEPT !.used = @ - 1, !.table[s] = d] = [h EXCEPT !.used = @ - 1, !.table = t]
    BY <1>10
  <2>1. h = [size |-> h.size, table |-> h.table, used |-> h.used]
    BY <1>10
  <2> HIDE DEF t
  <2>2. [h EXCEPT !.used = @ - 1] = [size |-> h.size, table |-> h.table, used |-> h.used - 1]
    BY <2>1
  <2>3. [h EXCEPT !.used = @ - 1, !.table = t] = [[h EXCEPT !.used = @ - 1] EXCEPT !.table = t]
    BY Zenon
  <2>4. [[size |-> h.size, table |-> h.table, used |-> h.used - 1] EXCEPT !.table = t]
          = [size |-> h.size, table |-> t, used |-> h.used - 1]
    OBVIOUS
  <2>5. [h EXCEPT !.used = @ - 1, !.table = t] = [size |-> h.size, table |-> t, used |-> h.used - 1]
    BY <2>2, <2>3, <2>4, Zenon
  <2> QED BY <1>6, <2>0, <2>5
<1> HIDE DEF n, t
<1>13. /\ n.size = h.size /\ n.used = h.used - 1 /\ n.table = t /\ Shaped(n, h.size)
  BY <1>1, <1>11, <1>12 DEF Shaped
<1>14. \A k : Slot(n, k) = Slot(h, k)
  BY <1>13 DEF Slot
<1>15. c = h.table[s] /\ Distinct(c) /\ \A p \in 1..Len(c) : Slot(h, c[p].key) = s
  BY <1>7 DEF Sound
<1> HIDE DEF c
<1>16. Distinct(d)
  <2> SUFFICES ASSUME NEW p \in 1..Len(d), NEW q \in 1..Len(d), d[p].key = d[q].key
               PROVE  p = q
    BY DEF Distinct
  <2>1. Old(p, a) = Old(q, a)
    BY <1>9, <1>15, SMTT(30) DEF Distinct
  <2> QED BY <1>7, <1>8, <1>9, <2>1 DEF Old
<1>17. \A p \in 1..Len(d) : Slot(h, d[p].key) = s
  BY <1>9, <1>15
<1>18. Sound(n)
  <2>1. \A i \in 1..n.size : Distinct(n.table[i])
    BY <1>11, <1>13, <1>16 DEF Sound
  <2>2. \A i \in 1..n.size : \A p \in 1..Len(n.table[i]) : Slot(n, n.table[i][p].key) = i
    BY <1>11, <1>13, <1>14, <1>17 DEF Sound
  <2> QED BY <1>1, <1>13, <2>1, <2>2 DEF Sound
<1>19. ASSUME NEW x, Has(n, x) PROVE Has(h, x) /\ x.key # key
  <2>1. PICK i \in 1..n.size : \E p \in 1..Len(n.table[i]) : n.table[i][p] = x
    BY <1>19 DEF Has
  <2>2. PICK p \in 1..Len(n.table[i]) : n.table[i][p] = x
    BY <2>1
  <2>3. CASE i # s
    <3>1. i \in 1..h.size /\ n.table[i] = h.table[i]
      BY <1>11, <1>13, <2>3
    <3>2. Slot(h, x.key) = i
      BY <2>2, <3>1 DEF Sound
    <3>3. x.key # key
      BY <2>3, <3>2 DEF s
    <3> QED BY <2>2, <3>1, <3>3 DEF Has
  <2>4. CASE i = s
    <3>1. p \in 1..Len(d) /\ d[p] = x
      BY <1>11, <1>13, <2>2, <2>4
    <3>2. Old(p, a) \in 1..Len(c) /\ Old(p, a) # a /\ c[Old(p, a)] = x
      BY <1>9, <3>1
    <3>3. x.key # key
      BY <1>7, <1>15, <3>2 DEF Distinct
    <3> QED BY <1>7, <1>15, <3>2, <3>3 DEF Has
  <2> QED BY <2>3, <2>4
<1>20. ASSUME NEW x, Has(h, x), x.key # key PROVE Has(n, x)
  <2>1. PICK i \in 1..h.size : \E p \in 1..Len(h.table[i]) : h.table[i][p] = x
    BY <1>20 DEF Has
  <2>2. PICK p \in 1..Len(h.table[i]) : h.table[i][p] = x
    BY <2>1
  <2>3. CASE i # s
    <3>1. i \in 1..n.size /\ n.table[i] = h.table[i]
      BY <1>11, <1>13, <2>3
    <3> QED BY <2>2, <3>1 DEF Has
  <2>4. CASE i = s
    <3>1. p \in 1..Len(c) /\ c[p] = x /\ p # a
      BY <1>7, <1>15, <1>20, <2>2, <2>4
    <3> DEFINE q == IF p < a THEN p ELSE p - 1
    <3>2. q \in 1..Len(d) /\ Old(q, a) = p
      BY <1>7, <1>8, <1>9, <3>1 DEF Old
    <3>3. d[q] = x
      BY <1>9, <3>1, <3>2
    <3> HIDE DEF q
    <3>4. s \in 1..n.size /\ n.table[s] = d
      BY <1>7, <1>11, <1>13
    <3> QED BY <3>2, <3>3, <3>4 DEF Has
  <2> QED BY <2>3, <2>4
<1>21. \A p \in 1..(Len(h.table[s]) - 1) : n.table[s][p] = h.table[s][Old(p, a)]
  BY <1>9, <1>11, <1>13, <1>15
<1>22. /\ Len(n.table[s]) = Len(h.table[s]) - 1 /\ a \in 1..Len(h.table[s]) /\ h.table[s][a].key = key
       /\ \A i \in 1..h.size : i # s => n.table[i] = h.table[i]
  BY <1>7, <1>9, <1>11, <1>13, <1>15
<1>23. Lost(h, n, s, a, key)
  <2> HIDE DEF s
  <2> QED BY <1>21, <1>22 DEF Lost
<1> QED BY <1>7, <1>12, <1>13, <1>18, <1>19, <1>20, <1>23 DEF n, s

-------------------------------------------------------------------------------
(* The inductive invariant *)
IterType == [index : Nat, entry : Keys \cup {NULL}, next : Keys \cup {NULL},
             all : SUBSET Keys, seen : Seq(Keys)]
Once(seen) == \A i, j \in 1..Len(seen) : i # j => seen[i] # seen[j]
KeyOf(h, i, p) == h.table[i][p].key
Walked(h, it) ==
    /\ it.index <= h.size + 1
    /\ Once(it.seen) /\ ToSet(it.seen) \subseteq it.all
    /\ it.entry # NULL => it.entry \in ToSet(it.seen)
    /\ \A i \in 1..h.size : \A p \in 1..Len(h.table[i]) :
          /\ i < it.index => KeyOf(h, i, p) \in ToSet(it.seen)
          /\ i > it.index => KeyOf(h, i, p) \notin ToSet(it.seen)
          /\ i = it.index /\ it.next = NULL => KeyOf(h, i, p) \in ToSet(it.seen)
    /\ it.next # NULL =>
          /\ it.index \in 1..h.size
          /\ \E q \in 1..Len(h.table[it.index]) :
                /\ KeyOf(h, it.index, q) = it.next
                /\ \A p \in 1..Len(h.table[it.index]) :
                      KeyOf(h, it.index, p) \in ToSet(it.seen) <=> p < q
Covered(m, it) == DOMAIN m \subseteq it.all /\ it.all \subseteq DOMAIN m \cup ToSet(it.seen)

TableInv == Sound(ht) /\ Dictionary(map) /\ Represents(ht, map)
IterInv ==
    Idle \/ \E it \in IterType : iter = <<it>> /\ Walked(ht, it) /\ Covered(map, it)
Inv == TableInv /\ IterInv

LEMMA KeysHeld ==
    ASSUME NEW h, NEW m, Represents(h, m), NEW k
    PROVE  HasKey(h, k) <=> k \in DOMAIN m
<1>1. ASSUME k \in DOMAIN m PROVE HasKey(h, k)
  <2> DEFINE e == [key |-> k, val |-> m[k]]
  <2>1. Has(h, e) /\ e.key = k
    BY <1>1 DEF Represents
  <2> HIDE DEF e
  <2> QED BY <2>1 DEF HasKey
<1>2. HasKey(h, k) => k \in DOMAIN m
  BY DEF Represents, HasKey
<1> QED BY <1>1, <1>2

LEMMA Put ==
    ASSUME NEW h, NEW m, NEW n, NEW w, Sound(h), Dictionary(m), Represents(h, m),
           NEW key \in Keys, NEW val \in Vals,
           w = [k \in DOMAIN m \cup {key} |-> IF k = key THEN val ELSE m[k]],
           n.used = h.used + (IF HasKey(h, key) THEN 0 ELSE 1),
           \A x : Has(n, x) <=> x = [key |-> key, val |-> val] \/ (Has(h, x) /\ x.key # key)
    PROVE  Dictionary(w) /\ Represents(n, w)
<1>1. DOMAIN w = DOMAIN m \cup {key} /\ IsFiniteSet(DOMAIN w)
  BY FS_AddElement DEF Dictionary
<1>2. Dictionary(w)
  <2>1. \A k \in DOMAIN w : w[k] \in Vals
    BY <1>1 DEF Dictionary
  <2>2. w \in [DOMAIN w -> Vals]
    BY <1>1, <2>1
  <2> QED BY <1>1, <2>2 DEF Dictionary
<1>3. n.used = Cardinality(DOMAIN w)
  <2>1. Cardinality(DOMAIN m) \in Nat /\ h.used = Cardinality(DOMAIN m)
    BY FS_CardinalityType DEF Dictionary, Represents
  <2>2. CASE key \in DOMAIN m
    <3>1. DOMAIN w = DOMAIN m
      BY <1>1, <2>2
    <3> QED BY <2>1, <2>2, <3>1, KeysHeld
  <2>3. CASE key \notin DOMAIN m
    <3>1. Cardinality(DOMAIN w) = Cardinality(DOMAIN m) + 1
      BY <1>1, <2>3, FS_AddElement DEF Dictionary
    <3> QED BY <2>1, <2>3, <3>1, KeysHeld
  <2> QED BY <2>2, <2>3
<1>4. ASSUME NEW e, Has(n, e) PROVE e.key \in DOMAIN w /\ e.val = w[e.key]
  BY <1>1, <1>4 DEF Represents
<1>5. ASSUME NEW k \in DOMAIN w PROVE Has(n, [key |-> k, val |-> w[k]])
  <2>1. CASE k = key
    BY <1>1, <2>1
  <2>2. CASE k # key
    <3>1. k \in DOMAIN m /\ w[k] = m[k] /\ Has(h, [key |-> k, val |-> m[k]])
      BY <1>1, <2>2 DEF Represents
    <3> QED BY <2>2, <3>1
  <2> QED BY <2>1, <2>2
<1> QED BY <1>2, <1>3, <1>4, <1>5 DEF Represents

LEMMA Taken ==
    ASSUME NEW h, NEW m, NEW n, NEW w, Sound(h), Dictionary(m), Represents(h, m),
           NEW key \in DOMAIN m, w = [k \in DOMAIN m \ {key} |-> m[k]], n.used = h.used - 1,
           \A x : Has(n, x) <=> Has(h, x) /\ x.key # key
    PROVE  Dictionary(w) /\ Represents(n, w)
<1>1. DOMAIN w = DOMAIN m \ {key}
  OBVIOUS
<1>2. IsFiniteSet(DOMAIN w) /\ Cardinality(DOMAIN w) = Cardinality(DOMAIN m) - 1
  BY <1>1, FS_RemoveElement DEF Dictionary
<1>3. Dictionary(w)
  BY <1>1, <1>2 DEF Dictionary
<1>4. n.used = Cardinality(DOMAIN w)
  BY <1>2 DEF Represents
<1>5. ASSUME NEW e, Has(n, e) PROVE e.key \in DOMAIN w /\ e.val = w[e.key]
  BY <1>1, <1>5 DEF Represents
<1>6. ASSUME NEW k \in DOMAIN w PROVE Has(n, [key |-> k, val |-> w[k]])
  BY <1>1 DEF Represents
<1> QED BY <1>3, <1>4, <1>5, <1>6 DEF Represents

LEMMA UsedIsZero ==
    ASSUME NEW h, NEW m, Sound(h), Dictionary(m), Represents(h, m)
    PROVE  /\ h.size = 0 => h.used = 0
           /\ \A k : HasKey(h, k) => h.used # 0
<1>1. ASSUME h.size = 0 PROVE h.used = 0
  <2>1. \A e : ~Has(h, e)
    BY <1>1 DEF Has
  <2>2. DOMAIN m = {}
    BY <2>1 DEF Represents
  <2> QED BY <2>2, FS_EmptySet DEF Represents
<1>2. ASSUME NEW k, HasKey(h, k) PROVE h.used # 0
  <2>1. k \in DOMAIN m
    BY <1>2, KeysHeld
  <2>2. Cardinality(DOMAIN m) # 0
    BY <2>1, FS_EmptySet DEF Dictionary
  <2> QED BY <2>2 DEF Represents
<1> QED BY <1>1, <1>2

LEMMA EmptyTable ==
    ASSUME DictAssumption
    PROVE  Sound(_dictReset) /\ Dictionary(<<>>) /\ Represents(_dictReset, <<>>)
<1> DEFINE h == _dictReset
           m == <<>>
<1>1. h.size = 0 /\ h.used = 0 /\ h.table = <<>> /\ h \in [size : {0}, table : {<<>>}, used : Nat]
  BY DEF _dictReset
<1>2. <<>> \in [1..0 -> Seq(Entry)] /\ <<>> \in [{} -> Vals] /\ DOMAIN m = {}
  OBVIOUS
<1> HIDE DEF h, m
<1>3. Shaped(h, 0)
  BY <1>1, <1>2 DEF Shaped
<1>4. Sound(h)
  BY <1>1, <1>3 DEF Sound
<1>5. \A e : ~Has(h, e)
  BY <1>1 DEF Has
<1>6. Dictionary(m)
  BY <1>2, FS_EmptySet DEF Dictionary, m
<1>7. Represents(h, m)
  BY <1>1, <1>2, <1>5, FS_EmptySet DEF Represents
<1> QED BY <1>4, <1>6, <1>7 DEF h, m

-------------------------------------------------------------------------------
(* The steps *)
LEMMA AddKeeps ==
    ASSUME DictAssumption, Inv, NEW k \in Keys, NEW v \in Vals, Add(k, v)
    PROVE  Inv'
<1> DEFINE r == dictAdd(ht, k, v)
           e == [key |-> k, val |-> v]
<1>1. Sound(ht) /\ Dictionary(map) /\ Represents(ht, map)
  BY DEF Inv, TableInv
<1>2. /\ Sound(r.ht) /\ r.ret = ~HasKey(ht, k)
      /\ ~r.ret => r.ht.used = ht.used /\ \A x : Has(r.ht, x) <=> Has(ht, x)
      /\ r.ret => r.ht.used = ht.used + 1 /\ \A x : Has(r.ht, x) <=> Has(ht, x) \/ x = e
  BY <1>1, UsedIsZero, Added
<1>3. /\ ht' = r.ht /\ iter' = iter /\ Idle
      /\ map' = IF r.ret THEN [j \in DOMAIN map \cup {k} |-> IF j = k THEN v ELSE map[j]] ELSE map
  BY DEF Add
<1> HIDE DEF r
<1>4. CASE HasKey(ht, k)
  <2>1. ht'.used = ht.used /\ map' = map /\ \A x : Has(ht', x) <=> Has(ht, x)
    BY <1>2, <1>3, <1>4
  <2>2. Represents(ht', map')
    BY <1>1, <2>1 DEF Represents
  <2> QED BY <1>1, <1>2, <1>3, <2>1, <2>2 DEF Inv, TableInv, IterInv, Idle
<1>5. CASE ~HasKey(ht, k)
  <2>1. ht'.used = ht.used + 1 /\ \A x : Has(ht', x) <=> Has(ht, x) \/ x = e
    BY <1>2, <1>3, <1>5
  <2>2. map' = [j \in DOMAIN map \cup {k} |-> IF j = k THEN v ELSE map[j]]
    BY <1>2, <1>3, <1>5
  <2>3. \A x : Has(ht', x) <=> x = e \/ (Has(ht, x) /\ x.key # k)
    BY <1>5, <2>1 DEF HasKey
  <2>4. ht'.used = ht.used + (IF HasKey(ht, k) THEN 0 ELSE 1)
    BY <1>5, <2>1
  <2>5. Dictionary(map') /\ Represents(ht', map')
    BY <1>1, <2>2, <2>3, <2>4, Put
  <2> QED BY <1>2, <1>3, <2>5 DEF Inv, TableInv, IterInv, Idle
<1> QED BY <1>4, <1>5

LEMMA ReplaceKeeps ==
    ASSUME DictAssumption, Inv, NEW k \in Keys, NEW v \in Vals, Replace(k, v)
    PROVE  Inv'
<1>1. Sound(ht) /\ Dictionary(map) /\ Represents(ht, map)
  BY DEF Inv, TableInv
<1>2. /\ ht' = dictReplace(ht, k, v).ht /\ iter' = iter /\ Idle
      /\ map' = [j \in DOMAIN map \cup {k} |-> IF j = k THEN v ELSE map[j]]
  BY DEF Replace
<1>3. /\ Sound(ht') /\ ht'.used = ht.used + (IF HasKey(ht, k) THEN 0 ELSE 1)
      /\ \A x : Has(ht', x) <=> x = [key |-> k, val |-> v] \/ (Has(ht, x) /\ x.key # k)
  BY <1>1, <1>2, UsedIsZero, Replaced
<1>4. Dictionary(map') /\ Represents(ht', map')
  BY <1>1, <1>2, <1>3, Put
<1> QED BY <1>2, <1>3, <1>4 DEF Inv, TableInv, IterInv, Idle

LEMMA DeleteKeeps ==
    ASSUME DictAssumption, Inv, NEW k \in Keys, Delete(k)
    PROVE  Inv'
<1> DEFINE r == dictDelete(ht, k)
<1>1. Sound(ht) /\ Dictionary(map) /\ Represents(ht, map)
  BY DEF Inv, TableInv
<1>2. /\ ht' = r.ht /\ iter' = iter /\ Idle
      /\ map' = IF r.ret THEN [j \in DOMAIN map \ {k} |-> map[j]] ELSE map
  BY DEF Delete
<1>3. CASE HasKey(ht, k)
  <2>1. /\ Sound(r.ht) /\ r.ret = TRUE /\ r.ht.used = ht.used - 1
        /\ \A x : Has(r.ht, x) <=> Has(ht, x) /\ x.key # k
    <3> HIDE DEF r
    <3>1. ht.used # 0 /\ r = dictDelete(ht, k)
      BY <1>1, <1>3, UsedIsZero DEF r
    <3> QED BY <1>1, <1>3, <3>1, Deleted, ZenonT(60)
  <2>2. k \in DOMAIN map
    BY <1>1, <1>3, KeysHeld
  <2> HIDE DEF r
  <2>3. map' = [j \in DOMAIN map \ {k} |-> map[j]]
    BY <1>2, <2>1
  <2>4. Dictionary(map') /\ Represents(ht', map')
    BY <1>1, <1>2, <2>1, <2>2, <2>3, Taken
  <2> QED BY <1>2, <2>1, <2>4 DEF Inv, TableInv, IterInv, Idle
<1>4. CASE ~HasKey(ht, k)
  <2>1. dictFind(ht, k) = NULL
    BY <1>1, <1>4, FindGives
  <2>2. r = [ht |-> ht, ret |-> FALSE]
    BY <2>1 DEF dictDelete, DICT_ERR
  <2> HIDE DEF r
  <2>3. ht' = ht /\ map' = map
    BY <1>2, <2>2
  <2> QED BY <1>1, <1>2, <2>3 DEF Inv, TableInv, IterInv, Idle
<1> QED BY <1>3, <1>4

LEMMA GetIteratorKeeps ==
    ASSUME DictAssumption, Inv, dictGetIterator
    PROVE  Inv'
<1> DEFINE it == [index |-> 0, entry |-> NULL, next |-> NULL, all |-> DOMAIN map, seen |-> <<>>]
<1>1. Sound(ht) /\ Dictionary(map) /\ Represents(ht, map)
  BY DEF Inv, TableInv
<1>2. iter' = <<it>> /\ ht' = ht /\ map' = map
  BY DEF dictGetIterator
<1>3. /\ it.index = 0 /\ it.entry = NULL /\ it.next = NULL /\ it.all = DOMAIN map /\ it.seen = <<>>
      /\ it \in IterType
  <2>1. <<>> \in Seq(Keys)
    OBVIOUS
  <2> QED BY <1>1, <2>1 DEF IterType, Dictionary
<1> HIDE DEF it
<1>4. ToSet(it.seen) = {} /\ Len(it.seen) = 0
  BY <1>3 DEF ToSet
<1>5. Walked(ht, it)
  <2>1. ht.size \in Nat
    BY <1>1 DEF Sound
  <2> QED BY <1>3, <1>4, <2>1 DEF Walked, Once
<1>6. Covered(map, it)
  BY <1>3 DEF Covered
<1>7. TableInv'
  BY <1>1, <1>2 DEF TableInv
<1>8. \E x \in IterType : iter' = <<x>> /\ Walked(ht', x) /\ Covered(map', x)
  BY <1>2, <1>3, <1>5, <1>6
<1> QED BY <1>7, <1>8 DEF Inv, IterInv

(* The iterator, and what it holds to. *)
LEMMA Iterator ==
    ASSUME Inv, ~Idle
    PROVE  /\ iter = <<iter[1]>> /\ iter[1] \in IterType
           /\ Walked(ht, iter[1]) /\ Covered(map, iter[1])
<1>1. PICK it \in IterType : iter = <<it>> /\ Walked(ht, it) /\ Covered(map, it)
  BY DEF Inv, IterInv
<1>2. iter[1] = it
  BY <1>1
<1> QED BY <1>1, <1>2

(* Deleting an entry that has been returned. *)
LEMMA DeleteReturnedKeeps ==
    ASSUME DictAssumption, Inv, DeleteReturned
    PROVE  Inv'
<1> DEFINE it == iter[1]
           key == it.entry
           r == dictDelete(ht, key)
           s == Slot(ht, key)
           S == ToSet(it.seen)
<1>1. Sound(ht) /\ Dictionary(map) /\ Represents(ht, map)
  BY DEF Inv, TableInv
<1>2. iter = <<it>> /\ it \in IterType /\ Walked(ht, it) /\ Covered(map, it)
  BY Iterator DEF DeleteReturned
<1>3. /\ key # NULL /\ key \in DOMAIN map /\ ht' = r.ht /\ iter' = iter
      /\ map' = [k \in DOMAIN map \ {key} |-> map[k]]
  BY DEF DeleteReturned
<1>4. key \in Keys /\ HasKey(ht, key)
  BY <1>1, <1>3, KeysHeld DEF Dictionary
<1>5. ht.used # 0
  BY <1>1, <1>4, UsedIsZero
<1> HIDE DEF it
<1>6. /\ Sound(ht') /\ ht'.size = ht.size /\ ht'.used = ht.used - 1
      /\ \A x : Has(ht', x) <=> Has(ht, x) /\ x.key # key
      /\ s \in 1..ht.size /\ \E a : Lost(ht, ht', s, a, key)
  <2>1. r = dictDelete(ht, key) /\ s = Slot(ht, key)
    OBVIOUS
  <2> HIDE DEF r, s, key
  <2>2. /\ Sound(r.ht) /\ r.ht.size = ht.size /\ r.ht.used = ht.used - 1
        /\ \A x : Has(r.ht, x) <=> Has(ht, x) /\ x.key # key
        /\ Slot(ht, key) \in 1..ht.size /\ \E a : Lost(ht, r.ht, Slot(ht, key), a, key)
    <3>1. Sound(ht) /\ key \in Keys /\ HasKey(ht, key) /\ ht.used # 0
      BY <1>1, <1>4, <1>5
    <3>2. Sound(r.ht)
      BY <3>1, <2>1, Deleted
    <3>3. \A x : Has(r.ht, x) <=> Has(ht, x) /\ x.key # key
      BY <3>1, <2>1, Deleted, ZenonT(60)
    <3>4. Slot(ht, key) \in 1..ht.size
      BY <3>1, <2>1, Deleted
    <3>5. \E a : Lost(ht, r.ht, Slot(ht, key), a, key)
      BY <3>1, <2>1, Deleted
    <3>6. r.ht.used = ht.used - 1
      BY <3>1, <2>1, Deleted
    <3>7. r.ht.size = ht.size
      BY <3>1, <2>1, Deleted, Zenon
    <3> QED BY <3>2, <3>3, <3>4, <3>5, <3>6, <3>7
  <2> QED BY <1>3, <2>1, <2>2
<1>7. PICK a : Lost(ht, ht', s, a, key)
  BY <1>6
<1>8. Dictionary(map') /\ Represents(ht', map')
  BY <1>1, <1>3, <1>6, Taken
<1>9. key \in S
  BY <1>2, <1>3 DEF Walked
<1>10. Covered(map', it)
  BY <1>2, <1>3, <1>9 DEF Covered
<1>11. Len(ht.table[s]) \in Nat /\ ht.size \in Nat
  BY <1>1, <1>6, Shapes DEF Sound
<1> DEFINE c == ht.table[s]
           d == ht'.table[s]
<1>12. \A p \in 1..Len(d) : p \in Nat /\ Old(p, a) \in 1..Len(c) /\ d[p] = c[Old(p, a)]
  BY <1>7, <1>11 DEF Old, Lost
<1>13. ASSUME NEW i \in 1..ht.size, NEW p \in 1..Len(ht'.table[i])
       PROVE  \E q \in 1..Len(ht.table[i]) : KeyOf(ht', i, p) = KeyOf(ht, i, q)
  BY <1>7, <1>12, ZenonT(60) DEF KeyOf, Lost
<1>14. ASSUME NEW i \in 1..ht'.size, NEW p \in 1..Len(ht'.table[i])
       PROVE  /\ i < it.index => KeyOf(ht', i, p) \in S
              /\ i > it.index => KeyOf(ht', i, p) \notin S
              /\ i = it.index /\ it.next = NULL => KeyOf(ht', i, p) \in S
  <2>1. i \in 1..ht.size
    BY <1>6
  <2>2. PICK q \in 1..Len(ht.table[i]) : KeyOf(ht', i, p) = KeyOf(ht, i, q)
    BY <1>13, <2>1
  <2> QED BY <1>2, <2>1, <2>2 DEF Walked
<1>15. ASSUME it.next # NULL
       PROVE  /\ it.index \in 1..ht'.size
              /\ \E q \in 1..Len(ht'.table[it.index]) :
                    /\ KeyOf(ht', it.index, q) = it.next
                    /\ \A p \in 1..Len(ht'.table[it.index]) :
                          KeyOf(ht', it.index, p) \in S <=> p < q
  <2> DEFINE i == it.index
  <2>1. i \in 1..ht.size /\ i \in 1..ht'.size
    BY <1>2, <1>6, <1>15 DEF Walked
  <2>2. PICK q \in 1..Len(ht.table[i]) :
               /\ KeyOf(ht, i, q) = it.next
               /\ \A p \in 1..Len(ht.table[i]) : KeyOf(ht, i, p) \in S <=> p < q
    BY <1>2, <1>15 DEF Walked
  <2>3. CASE i # s
    <3>1. ht'.table[i] = ht.table[i]
      BY <1>7, <2>1, <2>3 DEF Lost
    <3> QED BY <2>1, <2>2, <3>1 DEF KeyOf
  <2>4. CASE i = s
    <3>1. a < q
      BY <1>7, <1>9, <2>2, <2>4 DEF KeyOf, Lost
    <3>2. q - 1 \in 1..Len(d) /\ Old(q - 1, a) = q /\ q \in Nat /\ a \in Nat
      BY <1>7, <1>11, <2>2, <2>4, <3>1 DEF Old, Lost
    <3>3. KeyOf(ht', i, q - 1) = it.next
      BY <1>12, <2>2, <2>4, <3>2 DEF KeyOf
    <3>4. ASSUME NEW p \in 1..Len(d) PROVE KeyOf(ht', i, p) \in S <=> p < q - 1
      <4>1. KeyOf(ht', i, p) = KeyOf(ht, i, Old(p, a)) /\ Old(p, a) \in 1..Len(c) /\ p \in Nat
        BY <1>12, <2>4 DEF KeyOf
      <4>2. Old(p, a) < q <=> p < q - 1
        BY <3>1, <3>2, <4>1 DEF Old
      <4> QED BY <2>2, <2>4, <4>1, <4>2
    <3> HIDE DEF S
    <3> QED BY <2>1, <2>4, <3>2, <3>3, <3>4
  <2> QED BY <2>3, <2>4
<1>16. Walked(ht', it)
  BY <1>2, <1>6, <1>14, <1>15 DEF Walked
<1>17. TableInv'
  BY <1>6, <1>8 DEF TableInv
<1>18. \E x \in IterType : iter' = <<x>> /\ Walked(ht', x) /\ Covered(map', x)
  BY <1>2, <1>3, <1>10, <1>16
<1> QED BY <1>17, <1>18 DEF Inv, IterInv

LEMMA AppendSet ==
    ASSUME NEW S, NEW s \in Seq(S), NEW k \in S
    PROVE  ToSet(Append(s, k)) = ToSet(s) \cup {k}
<1> DEFINE t == Append(s, k)
<1>1. /\ t \in Seq(S) /\ Len(t) = Len(s) + 1 /\ t[Len(s) + 1] = k
      /\ \A j \in 1..Len(s) : t[j] = s[j]
  BY AppendProperties
<1> HIDE DEF t
<1>2. Len(s) \in Nat /\ DOMAIN t = 1..(Len(s) + 1) /\ DOMAIN s = 1..Len(s)
  BY <1>1
<1>3. 1..(Len(s) + 1) = (1..Len(s)) \cup {Len(s) + 1}
  BY <1>2
<1>4. ToSet(t) = ToSet(s) \cup {k}
  BY <1>1, <1>2, <1>3 DEF ToSet
<1> QED BY <1>4 DEF t

LEMMA IteratorFields ==
    ASSUME NEW it \in IterType, NEW x, NEW y
    PROVE  [it EXCEPT !.index = x, !.entry = y]
             = [index |-> x, entry |-> y, next |-> it.next, all |-> it.all, seen |-> it.seen]
<1> DEFINE r0 == [index |-> it.index, entry |-> it.entry, next |-> it.next, all |-> it.all, seen |-> it.seen]
           r1 == [index |-> x, entry |-> it.entry, next |-> it.next, all |-> it.all, seen |-> it.seen]
           r2 == [index |-> x, entry |-> y, next |-> it.next, all |-> it.all, seen |-> it.seen]
<1>1. it = r0
  BY DEF IterType
<1>2. [r0 EXCEPT !.index = x] = r1 /\ [r1 EXCEPT !.entry = y] = r2
  OBVIOUS
<1>3. [it EXCEPT !.index = x, !.entry = y] = [[it EXCEPT !.index = x] EXCEPT !.entry = y]
  BY Zenon
<1> HIDE DEF r0, r1, r2
<1>4. [it EXCEPT !.index = x, !.entry = y] = r2
  BY <1>1, <1>2, <1>3, Zenon
<1> QED BY <1>4 DEF r2

(* What a step of the iterator returns is new, and is in the map. *)
LEMMA Stepped ==
    ASSUME DictAssumption, NEW h, Sound(h), NEW m, Dictionary(m), Represents(h, m),
           NEW it \in IterType, Walked(h, it), Covered(m, it),
           NEW i \in 1..h.size, NEW at \in 1..Len(h.table[i]), it.index <= i,
           it.index < i => it.next = NULL,
           \A j \in 1..h.size : it.index < j /\ j < i => h.table[j] = <<>>,
           \A p \in 1..Len(h.table[i]) : KeyOf(h, i, p) \in ToSet(it.seen) <=> p < at,
           NEW n, n = [index |-> n.index, entry |-> n.entry, next |-> n.next,
                       all |-> n.all, seen |-> n.seen],
           n.index = i, n.entry = KeyOf(h, i, at), n.next = KeyAt(h.table[i], at + 1),
           n.all = it.all, n.seen = Append(it.seen, KeyOf(h, i, at))
    PROVE  n \in IterType /\ Walked(h, n) /\ Covered(m, n)
<1> DEFINE c == h.table[i]
           k == KeyOf(h, i, at)
           next == KeyAt(h.table[i], at + 1)
           seen == Append(it.seen, k)
<1>1. /\ h.size \in Nat /\ i \in Nat /\ c \in Seq(Entry) /\ Len(c) \in Nat /\ at \in Nat
      /\ \A p \in 1..Len(c) : KeyOf(h, i, p) \in Keys
      /\ it.index \in Nat
  <2>1. h.size \in Nat /\ i \in Nat
    BY DEF Sound
  <2>2. c \in Seq(Entry) /\ \A p \in 1..Len(c) : KeyOf(h, i, p) \in Keys
    BY Shapes DEF KeyOf
  <2>3. Len(c) \in Nat /\ at \in Nat
    BY <2>2
  <2>4. it.index \in Nat
    BY DEF IterType
  <2> HIDE DEF c
  <2> QED BY <2>1, <2>2, <2>3, <2>4
<1>2. k \in Keys /\ NULL \notin Keys
  BY <1>1 DEF DictAssumption
<1>3. /\ seen \in Seq(Keys) /\ Len(seen) = Len(it.seen) + 1 /\ seen[Len(it.seen) + 1] = k
      /\ \A j \in 1..Len(it.seen) : seen[j] = it.seen[j]
  <2>1. it.seen \in Seq(Keys)
    BY DEF IterType
  <2> HIDE DEF k
  <2> QED BY <1>2, <2>1, AppendProperties
<1>4. Len(it.seen) \in Nat /\ it.seen \in Seq(Keys)
  BY DEF IterType
<1>5. next = IF at < Len(c) THEN KeyOf(h, i, at + 1) ELSE NULL
  BY <1>1 DEF KeyAt, KeyOf
<1>6. next \in Keys \cup {NULL} /\ (next = NULL <=> at = Len(c))
  <2>1. at < Len(c) => at + 1 \in 1..Len(c)
    BY <1>1
  <2> HIDE DEF next
  <2> QED BY <1>1, <1>2, <1>5, <2>1
<1>11. n.index = i /\ n.entry = k /\ n.next = next /\ n.all = it.all /\ n.seen = seen
  OBVIOUS
<1> HIDE DEF k, next, seen
<1>9. it.all \in SUBSET Keys
  BY DEF IterType
<1>10. n \in IterType
  BY <1>1, <1>2, <1>3, <1>6, <1>9, <1>11 DEF IterType
<1>12. ToSet(seen) = ToSet(it.seen) \cup {k}
  BY <1>2, <1>4, AppendSet DEF seen
<1>13. k \notin ToSet(it.seen)
  BY <1>1 DEF k
<1>14. k \in it.all
  <2>1. Has(h, c[at])
    BY DEF Has
  <2> QED BY <2>1 DEF Represents, Covered, k, KeyOf
<1>15. Once(seen)
  <2>1. \A j \in 1..Len(it.seen) : it.seen[j] # k
    BY <1>4, <1>13 DEF ToSet
  <2> SUFFICES ASSUME NEW x \in 1..Len(seen), NEW y \in 1..Len(seen), x # y
               PROVE  seen[x] # seen[y]
    BY DEF Once
  <2>2. CASE x = Len(it.seen) + 1
    <3>1. y \in 1..Len(it.seen)
      BY <1>3, <1>4, <2>2
    <3> QED BY <1>3, <2>1, <2>2, <3>1
  <2>3. CASE y = Len(it.seen) + 1
    <3>1. x \in 1..Len(it.seen)
      BY <1>3, <1>4, <2>3
    <3> QED BY <1>3, <2>1, <2>3, <3>1
  <2>4. CASE x # Len(it.seen) + 1 /\ y # Len(it.seen) + 1
    <3>1. x \in 1..Len(it.seen) /\ y \in 1..Len(it.seen)
      BY <1>3, <1>4, <2>4
    <3>2. it.seen[x] # it.seen[y]
      BY <3>1 DEF Walked, Once
    <3> QED BY <1>3, <3>1, <3>2
  <2> QED BY <2>2, <2>3, <2>4
<1>16. \A p \in 1..Len(c) : KeyOf(h, i, p) \in ToSet(seen) <=> p <= at
  <2> SUFFICES ASSUME NEW p \in 1..Len(c) PROVE KeyOf(h, i, p) \in ToSet(seen) <=> p <= at
    OBVIOUS
  <2>1. KeyOf(h, i, p) = k <=> p = at
    BY DEF Sound, Distinct, KeyOf, k
  <2>2. KeyOf(h, i, p) \in ToSet(it.seen) <=> p < at
    OBVIOUS
  <2>3. p <= at <=> p < at \/ p = at
    BY <1>1
  <2> HIDE DEF c
  <2> QED BY <1>12, <2>1, <2>2, <2>3
<1>17. ASSUME NEW j \in 1..h.size, NEW p \in 1..Len(h.table[j])
       PROVE  /\ j < i => KeyOf(h, j, p) \in ToSet(seen)
              /\ j > i => KeyOf(h, j, p) \notin ToSet(seen)
              /\ j = i /\ next = NULL => KeyOf(h, j, p) \in ToSet(seen)
  <2>1. CASE j < i
    <3>1. ~(it.index < j)
      <4> SUFFICES ASSUME it.index < j PROVE FALSE
        OBVIOUS
      <4>1. h.table[j] = <<>>
        BY <2>1
      <4> QED BY <4>1
    <3>2. j \in Nat
      OBVIOUS
    <3>3. KeyOf(h, j, p) \in ToSet(it.seen)
      <4>1. CASE j < it.index
        BY <4>1 DEF Walked
      <4>2. CASE j = it.index
        <5>1. it.next = NULL
          BY <2>1, <4>2
        <5> QED BY <4>2, <5>1 DEF Walked
      <4> QED BY <1>1, <3>1, <3>2, <4>1, <4>2
    <3> QED BY <1>1, <1>12, <2>1, <3>2, <3>3
  <2>2. CASE j > i
    <3>1. it.index < j /\ j # i /\ ~(j < i)
      BY <1>1, <2>2
    <3>2. KeyOf(h, j, p) \notin ToSet(it.seen)
      BY <3>1 DEF Walked
    <3>3. KeyOf(h, j, p) # k
      BY <3>1, SMTT(30) DEF Sound, KeyOf, k
    <3> QED BY <1>12, <3>1, <3>2, <3>3
  <2>3. CASE j = i
    <3>1. next = NULL => KeyOf(h, j, p) \in ToSet(seen)
      BY <1>1, <1>6, <1>16, <2>3
    <3> QED BY <1>1, <2>3, <3>1
  <2> QED BY <1>1, <2>1, <2>2, <2>3
<1>18. ASSUME next # NULL
       PROVE  \E q \in 1..Len(c) :
                 /\ KeyOf(h, i, q) = next
                 /\ \A p \in 1..Len(c) : KeyOf(h, i, p) \in ToSet(seen) <=> p < q
  <2>1. at + 1 \in 1..Len(c) /\ KeyOf(h, i, at + 1) = next
    BY <1>1, <1>5, <1>6, <1>18
  <2>2. \A p \in 1..Len(c) : p <= at <=> p < at + 1
    BY <1>1
  <2> HIDE DEF c
  <2> QED BY <1>16, <2>1, <2>2
<1>19. Walked(h, n)
  <2>1. n.index <= h.size + 1
    BY <1>1, <1>11
  <2>2. Once(n.seen) /\ ToSet(n.seen) \subseteq n.all /\ n.entry \in ToSet(n.seen)
    BY <1>11, <1>12, <1>14, <1>15 DEF Walked
  <2> QED BY <1>11, <1>17, <1>18, <2>1, <2>2 DEF Walked
<1>20. Covered(m, n)
  BY <1>11, <1>12 DEF Covered
<1> QED BY <1>10, <1>19, <1>20

LEMMA NextKeeps ==
    ASSUME DictAssumption, Inv, dictNext
    PROVE  Inv'
<1> DEFINE it == iter[1]
           later == {i \in (it.index + 1)..ht.size : ht.table[i] # <<>>}
           i == IF it.next # NULL THEN it.index
                ELSE CHOOSE i \in later : \A j \in later : i <= j
           c == ht.table[i]
           at == IF it.next = NULL THEN 1 ELSE CHOOSE x \in IndexIn(c, it.next) : TRUE
           S == ToSet(it.seen)
<1>1. Sound(ht) /\ Dictionary(map) /\ Represents(ht, map)
  BY DEF Inv, TableInv
<1>2. iter = <<it>> /\ it \in IterType /\ Walked(ht, it) /\ Covered(map, it)
  BY Iterator DEF dictNext
<1>3. /\ ht' = ht /\ map' = map
      /\ it.next = NULL /\ later = {} => iter' = <<[it EXCEPT !.index = ht.size + 1, !.entry = NULL]>>
      /\ ~(it.next = NULL /\ later = {}) =>
            iter' = <<[it EXCEPT !.index = i, !.entry = c[at].key,
                             !.next = KeyAt(c, at + 1), !.seen = Append(@, c[at].key)]>>
  BY Zenon DEF dictNext
<1> HIDE DEF it
<1>4. it.index \in Nat /\ ht.size \in Nat /\ NULL \notin Keys
  BY <1>1, <1>2 DEF IterType, Sound, DictAssumption
<1>5. TableInv'
  BY <1>1, <1>3 DEF TableInv
<1>6. SUFFICES \E x \in IterType : iter' = <<x>> /\ Walked(ht, x) /\ Covered(map, x)
  BY <1>3, <1>5 DEF Inv, IterInv
<1>7. CASE it.next = NULL /\ later = {}
  <2> DEFINE n == [it EXCEPT !.index = ht.size + 1, !.entry = NULL]
  <2>1. iter' = <<n>>
    BY <1>3, <1>7
  <2>2. n = [index |-> ht.size + 1, entry |-> NULL, next |-> NULL, all |-> it.all, seen |-> it.seen]
    <3>1. it.next = NULL
      BY <1>7
    <3> HIDE DEF later
    <3> QED BY <1>2, <3>1, IteratorFields
  <2>3. it.all \in SUBSET Keys /\ it.seen \in Seq(Keys)
    BY <1>2 DEF IterType
  <2> HIDE DEF n
  <2>4. n \in IterType
    BY <1>4, <2>2, <2>3 DEF IterType
  <2>5. n.index = ht.size + 1 /\ n.entry = NULL /\ n.next = NULL /\ n.all = it.all /\ n.seen = it.seen
    BY <2>2
  <2>6. ASSUME NEW j \in 1..ht.size, NEW p \in 1..Len(ht.table[j]) PROVE KeyOf(ht, j, p) \in S
    <3>1. CASE j <= it.index
      <4>1. j < it.index \/ j = it.index
        BY <1>4, <3>1
      <4> QED BY <1>2, <1>7, <4>1 DEF Walked
    <3>2. CASE j > it.index
      <4>1. j \in (it.index + 1)..ht.size
        BY <1>4, <3>2
      <4>2. ht.table[j] = <<>>
        BY <1>7, <4>1
      <4> QED BY <4>2
    <3> QED BY <1>4, <3>1, <3>2
  <2>7. Walked(ht, n)
    <3>1. Once(n.seen) /\ ToSet(n.seen) \subseteq n.all
      BY <1>2, <2>5 DEF Walked
    <3>2. \A j \in 1..ht.size : ~(j > ht.size + 1) /\ j # ht.size + 1
      BY <1>4
    <3>3. ht.size + 1 <= ht.size + 1
      BY <1>4
    <3> QED BY <2>5, <2>6, <3>1, <3>2, <3>3 DEF Walked
  <2>8. Covered(map, n)
    BY <1>2, <2>5 DEF Covered
  <2> QED BY <2>1, <2>4, <2>7, <2>8
<1>8. CASE ~(it.next = NULL /\ later = {})
  <2>1. /\ i \in 1..ht.size /\ it.index <= i /\ (it.index < i => it.next = NULL)
        /\ \A j \in 1..ht.size : it.index < j /\ j < i => ht.table[j] = <<>>
        /\ at \in 1..Len(c) /\ \A p \in 1..Len(c) : KeyOf(ht, i, p) \in S <=> p < at
    <3>1. CASE it.next # NULL
      <4>1. i = it.index /\ i \in 1..ht.size
        BY <1>2, <3>1 DEF Walked
      <4>2. PICK q \in 1..Len(c) :
                   /\ KeyOf(ht, i, q) = it.next
                   /\ \A p \in 1..Len(c) : KeyOf(ht, i, p) \in S <=> p < q
        BY <1>2, <3>1, <4>1 DEF Walked
      <4>3. IndexIn(c, it.next) = {q}
        <5> HIDE DEF i, later, at
        <5>1. Distinct(c) /\ c[q].key = it.next
          BY <1>1, <4>1, <4>2 DEF KeyOf, Sound
        <5> HIDE DEF c
        <5> QED BY <4>2, <5>1 DEF IndexIn, Distinct
      <4>4. at = q
        BY <3>1, <4>3
      <4>5. \A j \in 1..ht.size : ~(it.index < j /\ j < i) /\ it.index <= i
        BY <1>4, <4>1
      <4> HIDE DEF i, at, later
      <4> QED BY <1>4, <3>1, <4>1, <4>2, <4>4, <4>5
    <3>2. CASE it.next = NULL
      <4>1. later # {} /\ later \in SUBSET Nat
        BY <1>4, <1>8, <3>2
      <4>2. \E x \in later : \A j \in later : x <= j
        <5> HIDE DEF later
        <5> QED BY <4>1, Least
      <4>3. i \in later /\ \A j \in later : i <= j
        BY <3>2, <4>2
      <4> HIDE DEF i
      <4>4. i \in (it.index + 1)..ht.size /\ c # <<>>
        BY <4>3
      <4>5. i \in 1..ht.size /\ it.index < i /\ i \in Nat
        BY <1>4, <4>4
      <4>6. c \in Seq(Entry) /\ Len(c) \in Nat
        BY <1>1, <4>5, Shapes
      <4>7. 1 \in 1..Len(c)
        <5> HIDE DEF c
        <5>1. Len(c) # 0
          BY <4>4, <4>6, EmptySeq
        <5> QED BY <4>6, <5>1
      <4>8. at = 1
        BY <3>2
      <4>9. ASSUME NEW j \in 1..ht.size, it.index < j, j < i PROVE ht.table[j] = <<>>
        <5>1. j \notin later
          BY <4>3, <4>5, <4>9
        <5>2. j \in (it.index + 1)..ht.size
          BY <1>4, <4>9
        <5> QED BY <5>1, <5>2
      <4>10. \A p \in 1..Len(c) : KeyOf(ht, i, p) \in S <=> p < 1
        <5>1. i > it.index
          BY <1>4, <4>5
        <5>2. \A p \in 1..Len(c) : KeyOf(ht, i, p) \notin S
          BY <1>2, <4>5, <5>1 DEF Walked
        <5>3. \A p \in 1..Len(c) : ~(p < 1)
          BY <4>6
        <5> HIDE DEF c
        <5> QED BY <5>2, <5>3
      <4> HIDE DEF later, at
      <4> QED BY <1>4, <3>2, <4>5, <4>7, <4>8, <4>9, <4>10
    <3> QED BY <3>1, <3>2
  <2> HIDE DEF i, at
  <2> DEFINE n == [it EXCEPT !.index = i, !.entry = KeyOf(ht, i, at),
                             !.next = KeyAt(ht.table[i], at + 1),
                             !.seen = Append(@, KeyOf(ht, i, at))]
  <2>2. iter' = <<n>>
    BY <1>3, <1>8 DEF KeyOf
  <2>3. n \in IterType /\ Walked(ht, n) /\ Covered(map, n)
    <3> HIDE DEF later
    <3>1. n = [index |-> i, entry |-> KeyOf(ht, i, at), next |-> KeyAt(ht.table[i], at + 1),
               all |-> it.all, seen |-> Append(it.seen, KeyOf(ht, i, at))]
      <4> DEFINE K == KeyOf(ht, i, at)
                 Z == KeyAt(ht.table[i], at + 1)
                 W == Append(it.seen, K)
      <4>1. n = [it EXCEPT !.index = i, !.entry = K, !.next = Z, !.seen = W]
        OBVIOUS
      <4>2. [it EXCEPT !.index = i, !.entry = K, !.next = Z, !.seen = W]
              = [index |-> i, entry |-> K, next |-> Z, all |-> it.all, seen |-> W]
        <5> HIDE DEF K, Z, W
        <5> DEFINE r0 == [index |-> it.index, entry |-> it.entry, next |-> it.next, all |-> it.all, seen |-> it.seen]
                   r1 == [index |-> i, entry |-> it.entry, next |-> it.next, all |-> it.all, seen |-> it.seen]
                   r2 == [index |-> i, entry |-> K, next |-> it.next, all |-> it.all, seen |-> it.seen]
                   r3 == [index |-> i, entry |-> K, next |-> Z, all |-> it.all, seen |-> it.seen]
                   r4 == [index |-> i, entry |-> K, next |-> Z, all |-> it.all, seen |-> W]
        <5>1. it = r0
          BY <1>2 DEF IterType
        <5>2. [r0 EXCEPT !.index = i] = r1 /\ [r1 EXCEPT !.entry = K] = r2
          OBVIOUS
        <5>3. [r2 EXCEPT !.next = Z] = r3 /\ [r3 EXCEPT !.seen = W] = r4
          OBVIOUS
        <5>4. [it EXCEPT !.index = i, !.entry = K, !.next = Z, !.seen = W]
                = [[[[it EXCEPT !.index = i] EXCEPT !.entry = K] EXCEPT !.next = Z] EXCEPT !.seen = W]
          BY Zenon
        <5> HIDE DEF r0, r1, r2, r3, r4
        <5>5. [it EXCEPT !.index = i, !.entry = K, !.next = Z, !.seen = W] = r4
          BY <5>1, <5>2, <5>3, <5>4, Zenon
        <5> QED BY <5>5 DEF r4
      <4> QED BY <4>1, <4>2, Zenon
    <3> HIDE DEF n
    <3>2. /\ n = [index |-> n.index, entry |-> n.entry, next |-> n.next, all |-> n.all, seen |-> n.seen]
          /\ n.index = i /\ n.entry = KeyOf(ht, i, at) /\ n.next = KeyAt(ht.table[i], at + 1)
          /\ n.all = it.all /\ n.seen = Append(it.seen, KeyOf(ht, i, at))
      BY <3>1
    <3> QED BY <1>1, <1>2, <2>1, <3>2, Stepped
  <2> HIDE DEF n
  <2> QED BY <2>2, <2>3
<1> QED BY <1>7, <1>8

LEMMA InvImplies ==
    ASSUME DictAssumption, Inv
    PROVE  DictIsMap
<1>1. Sound(ht) /\ Dictionary(map) /\ Represents(ht, map)
  BY DEF Inv, TableInv
<1>2. ASSUME NEW k \in Keys PROVE dictFind(ht, k) = IF k \in DOMAIN map THEN map[k] ELSE NULL
  <2>1. CASE k \in DOMAIN map
    <3>1. Has(ht, [key |-> k, val |-> map[k]])
      BY <1>1, <2>1 DEF Represents
    <3> QED BY <1>1, <2>1, <3>1, FindGives
  <2>2. CASE k \notin DOMAIN map
    <3>1. ~HasKey(ht, k)
      BY <1>1, <2>2, KeysHeld
    <3> QED BY <1>1, <2>2, <3>1, FindGives
  <2> QED BY <2>1, <2>2
<1>3. ht.used = Cardinality(DOMAIN map)
  BY <1>1 DEF Represents
<1>4. ASSUME NEW i \in DOMAIN ht.table, NEW j \in DOMAIN ht.table,
             NEW p \in DOMAIN ht.table[i], NEW q \in DOMAIN ht.table[j]
      PROVE  /\ ht.table[i][p].key \in DOMAIN map
             /\ ht.table[i][p].key = ht.table[j][q].key => i = j /\ p = q
  <2>1. i \in 1..ht.size /\ j \in 1..ht.size
    BY <1>1 DEF Sound, Shaped
  <2>2. p \in 1..Len(ht.table[i]) /\ q \in 1..Len(ht.table[j])
    <3>1. ht.table[i] \in Seq(Entry) /\ ht.table[j] \in Seq(Entry)
      BY <1>1, <2>1, Shapes
    <3> QED BY <3>1
  <2>3. Has(ht, ht.table[i][p])
    BY <2>1, <2>2 DEF Has
  <2>4. ht.table[i][p].key \in DOMAIN map
    BY <1>1, <2>3 DEF Represents
  <2>5. ASSUME ht.table[i][p].key = ht.table[j][q].key PROVE i = j /\ p = q
    <3>1. i = j
      BY <1>1, <2>1, <2>2, <2>5 DEF Sound
    <3> QED BY <1>1, <2>1, <2>2, <2>5, <3>1 DEF Sound, Distinct
  <2> QED BY <2>4, <2>5
<1>5. ASSUME ~Idle
      PROVE  /\ \A i, j \in 1..Len(iter[1].seen) : i # j => iter[1].seen[i] # iter[1].seen[j]
             /\ iter[1].index > ht.size => ToSet(iter[1].seen) = iter[1].all
  <2> DEFINE it == iter[1]
  <2>1. it \in IterType /\ Walked(ht, it) /\ Covered(map, it)
    BY <1>5, Iterator
  <2> HIDE DEF it
  <2>2. \A i, j \in 1..Len(it.seen) : i # j => it.seen[i] # it.seen[j]
    BY <2>1 DEF Walked, Once
  <2>3. ASSUME it.index > ht.size PROVE ToSet(it.seen) = it.all
    <3>1. ASSUME NEW k \in DOMAIN map PROVE k \in ToSet(it.seen)
      <4>1. HasKey(ht, k)
        BY <1>1, KeysHeld
      <4>2. PICK e : Has(ht, e) /\ e.key = k
        BY <4>1 DEF HasKey
      <4>3. PICK i \in 1..ht.size : \E p \in 1..Len(ht.table[i]) : ht.table[i][p] = e
        BY <4>2 DEF Has
      <4>4. PICK p \in 1..Len(ht.table[i]) : ht.table[i][p] = e
        BY <4>3
      <4>5. i < it.index /\ KeyOf(ht, i, p) = k
        BY <1>1, <2>1, <2>3, <4>2, <4>4 DEF KeyOf, Sound, IterType
      <4> QED BY <2>1, <4>5 DEF Walked
    <3> QED BY <2>1, <3>1 DEF Walked, Covered
  <2> QED BY <2>2, <2>3 DEF it
<1> QED BY <1>2, <1>3, <1>4, <1>5 DEF DictIsMap

(* Whatever is added, replaced, deleted, rehashed and walked over, the     *)
(* table is the map it stands for, for every set of keys and every hash.   *)
THEOREM TableIsTheMap ==
    ASSUME DictAssumption
    PROVE  DictSpec => []DictIsMap
<1>1. DictInit => Inv
  <2> SUFFICES ASSUME DictInit PROVE Inv
    OBVIOUS
  <2>1. TableInv
    BY EmptyTable DEF DictInit, TableInv
  <2> QED BY <2>1 DEF Inv, IterInv, DictInit, Idle
<1>2. Inv /\ [DictNext]_dictVars => Inv'
  <2> SUFFICES ASSUME Inv, [DictNext]_dictVars PROVE Inv'
    OBVIOUS
  <2>1. ASSUME NEW k \in Keys, NEW v \in Vals, Add(k, v) \/ Replace(k, v) PROVE Inv'
    BY <2>1, AddKeeps, ReplaceKeeps
  <2>2. ASSUME NEW k \in Keys, Delete(k) PROVE Inv'
    BY <2>2, DeleteKeeps
  <2>3. CASE Release
    BY <2>3, EmptyTable DEF Release, Inv, TableInv, IterInv, Idle
  <2>4. CASE dictGetIterator
    BY <2>4, GetIteratorKeeps
  <2>5. CASE dictNext
    BY <2>5, NextKeeps
  <2>6. CASE DeleteReturned
    BY <2>6, DeleteReturnedKeeps
  <2>7. CASE dictReleaseIterator
    BY <2>7 DEF dictReleaseIterator, Inv, TableInv, IterInv, Idle
  <2>8. CASE UNCHANGED dictVars
    BY <2>8 DEF dictVars, Inv, TableInv, IterInv, Idle
  <2> QED BY <2>1, <2>2, <2>3, <2>4, <2>5, <2>6, <2>7, <2>8 DEF DictNext
<1>3. Inv => DictIsMap
  BY InvImplies
<1> QED BY <1>1, <1>2, <1>3, PTL DEF DictSpec

-------------------------------------------------------------------------------
(* JSON: numbers of different types *)

(* An integer below Precision is a double. *)
LEMMA SmallDouble ==
    ASSUME Types!TypesAssumption, NEW n \in Int, -Precision < n, n < Precision
    PROVE  Types!Double(n) = n
<1> DEFINE size == IF n < 0 THEN -n ELSE n
           Units == {1} \cup {w \in 2..size : Types!IsPowerOfTwo(w)}
           Fits(u) == size < Precision * u /\ (u = 1 \/ size >= Precision * (u \div 2))
<1>1. size \in Nat /\ size < Precision /\ Precision \in Nat
  BY DEF Types!TypesAssumption
<1>2. 1 \in Units /\ Fits(1)
  BY <1>1
<1>3. ASSUME NEW u \in Units, Fits(u) PROVE u = 1
  <2>1. SUFFICES ASSUME u \in 2..size PROVE FALSE
    OBVIOUS
  <2>2. u \div 2 >= 1 /\ u \div 2 \in Nat
    BY <1>1, <2>1
  <2>3. Precision * (u \div 2) >= Precision
    BY <1>1, <2>2
  <2> QED BY <1>1, <1>3, <2>1, <2>2, <2>3
<1>4. Types!Unit(size) = 1
  <2>1. Types!Unit(size) = CHOOSE u \in Units : Fits(u)
    BY DEF Types!Unit
  <2> HIDE DEF Units, Fits
  <2> QED BY <1>2, <1>3, <2>1
<1> HIDE DEF size
<1>5. size \div 1 = size /\ size % 1 = 0
  BY <1>1
<1>6. Types!Double(n) = (IF n < 0 THEN -1 ELSE 1) * size * 1
  <2>1. ~(2 * (size % 1) > 1 \/ (2 * (size % 1) = 1 /\ (size \div 1) % 2 = 1))
    BY <1>5
  <2> QED BY <1>4, <1>5, <2>1 DEF Types!Double, size
<1> QED BY <1>6 DEF size

(* The limits of the types, as the conversions compare with them. *)
LEMMA Limits ==
    ASSUME Types!TypesAssumption
    PROVE  /\ Types!Double(0) = 0 /\ Types!Double(maxInt) = maxInt
           /\ Types!Double(maxUInt) = maxUInt /\ Types!Double(Types!minInt) = Types!minInt
           /\ Types!minInt = -maxInt - 1 /\ Types!minInt64 = -maxInt64 - 1
           /\ Types!Double(Types!minInt64) = Types!minInt64
           /\ Types!Double(maxInt64) = maxInt64 + 1 /\ Types!Double(maxUInt64) = maxUInt64 + 1
           /\ maxInt \in Nat /\ maxUInt \in Nat /\ maxInt64 \in Nat /\ maxUInt64 \in Nat
           /\ maxInt <= maxInt64 /\ maxUInt <= maxInt64 /\ maxInt64 <= maxUInt64
<1>1. /\ maxInt \in Nat /\ maxUInt \in Nat /\ maxInt64 \in Nat /\ maxUInt64 \in Nat
      /\ Precision \in Nat /\ maxInt + 1 < Precision /\ maxUInt < Precision
      /\ maxInt <= maxInt64 /\ maxUInt <= maxInt64 /\ maxInt64 <= maxUInt64
  BY DEF Types!TypesAssumption
<1>2. Types!minInt = -maxInt - 1 /\ Types!minInt64 = -maxInt64 - 1
  BY DEF Types!minInt, Types!minInt64
<1>3. Types!Double(0) = 0
  BY <1>1, SmallDouble
<1>4. Types!Double(maxInt) = maxInt /\ Types!Double(maxUInt) = maxUInt
  BY <1>1, SmallDouble
<1>5. Types!Double(-maxInt - 1) = -maxInt - 1
  BY <1>1, SmallDouble
<1> QED BY <1>1, <1>2, <1>3, <1>4, <1>5 DEF Types!TypesAssumption

(* The range the code compares a double with holds the doubles between     *)
(* the limits; of a 64-bit type also the one after its last value, which   *)
(* isInt64 leaves out.                                                     *)
LEMMA Ranges ==
    ASSUME Types!TypesAssumption, NEW x \in Int
    PROVE  /\ Types!InRange(x, Types!minInt, maxInt) <=> x \in (2 * (-maxInt - 1))..(2 * maxInt)
           /\ Types!InRange(x, 0, maxUInt) <=> x \in 0..(2 * maxUInt)
           /\ Types!InRange(x, Types!minInt64, maxInt64)
                 <=> x \in (2 * (-maxInt64 - 1))..(2 * (maxInt64 + 1))
           /\ Types!InRange(x, 0, maxUInt64) <=> x \in 0..(2 * (maxUInt64 + 1))
BY Limits DEF Types!InRange, Types!Half

LEMMA HalfOfEven ==
    ASSUME NEW x \in Int, x % 2 = 0
    PROVE  Types!Truncated(x) = Types!Whole(x) /\ Types!Whole(x) \in Int /\ x = 2 * Types!Whole(x)
BY DEF Types!Truncated, Types!Whole

(* A conversion gives the integer that is said, for the two kinds of       *)
(* integers and for doubles.                                               *)
LEMMA IntegersExact ==
    ASSUME Types!TypesAssumption, NEW v \in Types!Numbers, v.type \in {"int", "uint"}
    PROVE  Types!ExactWhenSaid(v)
<1>1. v.is \in Int /\ (v.type = "int" => v.is \in (-maxInt64 - 1)..maxInt64)
      /\ (v.type = "uint" => v.is \in 0..maxUInt64)
  BY Limits DEF Types!Numbers
<1>2. Types!isInt(v) => Types!asInt(v) = <<v.is>> /\ v.is \in Types!minInt..maxInt
  BY <1>1, Limits DEF Types!isInt, Types!asInt, Types!AsInteger
<1>3. Types!isUInt(v) => Types!asUInt(v) = <<v.is>> /\ v.is \in 0..maxUInt
  BY <1>1, Limits DEF Types!isUInt, Types!asUInt, Types!AsInteger
<1>4. Types!isInt64(v) => Types!asInt64(v) = <<v.is>> /\ v.is \in Types!minInt64..maxInt64
  BY <1>1, Limits DEF Types!isInt64, Types!asInt64, Types!AsInteger
<1>5. Types!isUInt64(v) => Types!asUInt64(v) = <<v.is>> /\ v.is \in 0..maxUInt64
  BY <1>1, Limits DEF Types!isUInt64, Types!asUInt64, Types!AsInteger
<1> QED BY <1>2, <1>3, <1>4, <1>5 DEF Types!ExactWhenSaid

LEMMA DoublesExact ==
    ASSUME Types!TypesAssumption, NEW v \in Types!Numbers, v.type = "real"
    PROVE  Types!ExactWhenSaid(v)
<1> DEFINE n == Types!Whole(v.is)
<1>1. v.is \in Int
  BY DEF Types!Numbers
<1>2. ASSUME NEW min, NEW max, NEW fits, Types!InRange(v.is, min, max), v.is % 2 = 0
      PROVE  Types!AsInteger(v, fits, min, max) = <<n>>
  BY <1>1, <1>2, HalfOfEven DEF Types!AsInteger
<1>3. v.is % 2 = 0 => n \in Int /\ v.is = 2 * n
  BY <1>1, HalfOfEven
<1> HIDE DEF n
<1>4. Types!isInt(v) => Types!asInt(v) = <<n>> /\ n \in Types!minInt..maxInt
  <2> SUFFICES ASSUME Types!isInt(v) PROVE Types!asInt(v) = <<n>> /\ n \in Types!minInt..maxInt
    OBVIOUS
  <2>1. v.is \in (2 * (-maxInt - 1))..(2 * maxInt) /\ v.is % 2 = 0
    BY Limits DEF Types!isInt, Types!Half, Types!IsIntegral
  <2>2. Types!InRange(v.is, Types!minInt, maxInt)
    BY <1>1, <2>1, Ranges, Limits
  <2>3. n \in Types!minInt..maxInt
    BY <1>3, <2>1, Limits
  <2> QED BY <1>2, <2>1, <2>2, <2>3 DEF Types!asInt
<1>5. Types!isUInt(v) => Types!asUInt(v) = <<n>> /\ n \in 0..maxUInt
  <2> SUFFICES ASSUME Types!isUInt(v) PROVE Types!asUInt(v) = <<n>> /\ n \in 0..maxUInt
    OBVIOUS
  <2>1. v.is \in 0..(2 * maxUInt) /\ v.is % 2 = 0
    BY Limits DEF Types!isUInt, Types!Half, Types!IsIntegral
  <2>2. Types!InRange(v.is, 0, maxUInt)
    BY <1>1, <2>1, Ranges, Limits
  <2>3. n \in 0..maxUInt
    BY <1>3, <2>1, Limits
  <2> QED BY <1>2, <2>1, <2>2, <2>3 DEF Types!asUInt
<1>6. Types!isInt64(v) => Types!asInt64(v) = <<n>> /\ n \in Types!minInt64..maxInt64
  <2> SUFFICES ASSUME Types!isInt64(v)
               PROVE  Types!asInt64(v) = <<n>> /\ n \in Types!minInt64..maxInt64
    OBVIOUS
  <2>1. v.is >= 2 * (-maxInt64 - 1) /\ v.is < 2 * (maxInt64 + 1) /\ v.is % 2 = 0
    BY Limits DEF Types!isInt64, Types!Half, Types!IsIntegral
  <2>2. Types!InRange(v.is, Types!minInt64, maxInt64)
    BY <1>1, <2>1, Ranges, Limits
  <2>3. n \in Types!minInt64..maxInt64
    BY <1>3, <2>1, Limits
  <2> QED BY <1>2, <2>1, <2>2, <2>3 DEF Types!asInt64
<1>7. Types!isUInt64(v) => Types!asUInt64(v) = <<n>> /\ n \in 0..maxUInt64
  <2> SUFFICES ASSUME Types!isUInt64(v) PROVE Types!asUInt64(v) = <<n>> /\ n \in 0..maxUInt64
    OBVIOUS
  <2>1. v.is >= 0 /\ v.is < 2 * (maxUInt64 + 1) /\ v.is % 2 = 0
    BY Limits DEF Types!isUInt64, Types!Half, Types!IsIntegral
  <2>2. Types!InRange(v.is, 0, maxUInt64)
    BY <1>1, <2>1, Ranges, Limits
  <2>3. n \in 0..maxUInt64
    BY <1>3, <2>1, Limits
  <2> QED BY <1>2, <2>1, <2>2, <2>3 DEF Types!asUInt64
<1> QED BY <1>4, <1>5, <1>6, <1>7 DEF Types!ExactWhenSaid, n

(* A value of another type says of no type of integers that it is one. *)
LEMMA OthersExact ==
    ASSUME NEW v \in Types!Others
    PROVE  Types!ExactWhenSaid(v)
<1>1. v.type \notin {"int", "uint", "real"}
  BY DEF Types!Others
<1> QED BY <1>1 DEF Types!ExactWhenSaid, Types!isInt, Types!isUInt, Types!isInt64, Types!isUInt64

(* A conversion throws for the values that are not convertible, and only   *)
(* for those.                                                              *)
LEMMA Converts ==
    ASSUME Types!TypesAssumption, NEW v \in Types!Numbers \cup Types!Others
    PROVE  Types!ConvertsAsSaid(v)
<1> USE DEF Types!Throws, Types!AsInteger
<1> DEFINE t == v.type
<1>1. t \in {"int", "uint", "real", "boolean", "null", "string", "array", "object"}
  BY DEF Types!Numbers, Types!Others
<1>2. Types!isConvertibleTo(v, "int") <=> Types!asInt(v) # Types!Throws
  <2>1. Types!isInt(v) => t \in {"int", "uint"}
         \/ (t = "real" /\ Types!InRange(v.is, Types!minInt, maxInt))
    BY Ranges, Limits DEF Types!isInt, Types!Numbers, Types!Half
  <2> HIDE DEF t
  <2>2. Types!isConvertibleTo(v, "int") <=> Types!isInt(v) \/ t \in {"boolean", "null"}
                             \/ (t = "real" /\ Types!InRange(v.is, Types!minInt, maxInt))
    BY DEF Types!isConvertibleTo, t
  <2> QED BY <1>1, <2>1, <2>2 DEF Types!asInt, t
<1>3. Types!isConvertibleTo(v, "uint") <=> Types!asUInt(v) # Types!Throws
  <2>1. Types!isUInt(v) => t \in {"int", "uint"}
         \/ (t = "real" /\ Types!InRange(v.is, 0, maxUInt))
    BY Ranges, Limits DEF Types!isUInt, Types!Numbers, Types!Half
  <2> HIDE DEF t
  <2>2. Types!isConvertibleTo(v, "uint") <=> Types!isUInt(v) \/ t \in {"boolean", "null"}
                             \/ (t = "real" /\ Types!InRange(v.is, 0, maxUInt))
    BY DEF Types!isConvertibleTo, t
  <2> QED BY <1>1, <2>1, <2>2 DEF Types!asUInt, t
<1>4. Types!isNumeric(v) <=> t \in {"int", "uint", "real"}
  <2>1. t = "int" => Types!isInt64(v)
    BY DEF Types!isInt64
  <2>2. t = "uint" => Types!isUInt64(v)
    BY DEF Types!isUInt64
  <2> QED BY <1>1, <2>1, <2>2 DEF Types!isNumeric, Types!isDouble, Types!isIntegral,
             Types!isInt64, Types!isUInt64
<1>5. Types!isConvertibleTo(v, "real") <=> Types!asDouble(v) # Types!Throws
  BY <1>1, <1>4 DEF Types!isConvertibleTo, Types!asDouble
<1>6. Types!isConvertibleTo(v, "boolean") <=> Types!asBool(v) # Types!Throws
  BY <1>1, <1>4 DEF Types!isConvertibleTo, Types!asBool
<1>7. Types!isConvertibleTo(v, "string") <=> Types!asString(v) # Types!Throws
  BY <1>1, <1>4 DEF Types!isConvertibleTo, Types!asString
<1> QED BY <1>2, <1>3, <1>5, <1>6, <1>7 DEF Types!ConvertsAsSaid

(* For every width of the types: a JSON value that says it is an integer   *)
(* of a type is converted to it without a loss, and a conversion throws    *)
(* for the values that are said not to be convertible and for no other     *)
(* (json_value.cpp, isInt to isUInt64, asInt to asString, isConvertibleTo). *)
THEOREM ConversionsKeepTheirWord ==
    ASSUME Types!TypesAssumption
    PROVE  \A v \in Types!Numbers \cup Types!Others :
               Types!ExactWhenSaid(v) /\ Types!ConvertsAsSaid(v)
<1> SUFFICES ASSUME NEW v \in Types!Numbers \cup Types!Others
             PROVE  Types!ExactWhenSaid(v) /\ Types!ConvertsAsSaid(v)
  OBVIOUS
<1>1. Types!ConvertsAsSaid(v)
  BY Converts
<1>2. CASE v \in Types!Numbers
  <2>1. v.type \in {"int", "uint", "real"}
    BY <1>2 DEF Types!Numbers
  <2> QED BY <1>1, <1>2, <2>1, IntegersExact, DoublesExact
<1> QED BY <1>1, <1>2, OthersExact

-------------------------------------------------------------------------------
(* The asynchronous context *)

(* What the context and the connection hold. *)
CommandKinds == {"get", "subscribe", "unsubscribe", "monitor"}
ReplyKinds == {"own", "error", "subscribe", "unsubscribe", "message"}
Flags == {"CONNECTED", "SUBSCRIBED", "MONITORING", "DISCONNECTING", "FREEING"}
Outcomes == ReplyKinds \cup {"null", "other"}
Commands == [id : Nat, kind : CommandKinds, names : Seq(Names)]
Answers == [kind : ReplyKinds, id : Nat, name : Names \cup {""}, count : Nat, array : BOOLEAN]
Subscription == [cb : Nat, pending : Int]
Subscriptions == UNION {[D -> Subscription] : D \in SUBSET Names}
Context ==
    [flags : SUBSET Flags, err : BOOLEAN, live : BOOLEAN,
     replies : Seq(Nat), invalid : Seq(Nat), subs : Subscriptions,
     obuf : Seq(Commands), inbuf : Seq(Answers), cb : Nat,
     cmds : Seq(CommandKinds), got : [Ids -> Seq(Outcomes)]]
Wire ==
    [toServer : Seq(Commands), toClient : Seq(Answers), names : SUBSET Names,
     closed : BOOLEAN, messages : Nat, part : BOOLEAN]
AsyncTyped ==
    /\ ac \in Context /\ Len(ac.cmds) <= MaxCommands
    /\ net \in Wire
    /\ pc \in {"loop", "process"}

(* The ordinary commands whose callback has not run, the callbacks in the  *)
(* two lists, and the commands that no list would ever call back.          *)
Owed(a) == {id \in 1..Len(a.cmds) : a.cmds[id] = "get" /\ a.got[id] = <<>>}
Elements(s) == {s[i] : i \in 1..Len(s)}
Listed(a) == Elements(a.replies) \cup Elements(a.invalid)
Forgotten(a) == Owed(a) \ Listed(a)

NobodyForgotten ==
    /\ Forgotten(ac) = {}
    /\ ~ac.live => ac.replies = <<>> /\ ac.invalid = <<>>
    /\ pc = "process" => ac.live
AsyncSound == AsyncTyped /\ NobodyForgotten

LEMMA SubscriptionsFacts ==
    ASSUME NEW s
    PROVE  s \in Subscriptions <=> s \in [DOMAIN s -> Subscription] /\ DOMAIN s \subseteq Names
<1>1. ASSUME s \in Subscriptions PROVE s \in [DOMAIN s -> Subscription] /\ DOMAIN s \subseteq Names
  <2>1. PICK D \in SUBSET Names : s \in [D -> Subscription]
    BY <1>1 DEF Subscriptions
  <2>2. DOMAIN s = D
    BY <2>1
  <2> QED BY <2>1, <2>2
<1>2. ASSUME s \in [DOMAIN s -> Subscription], DOMAIN s \subseteq Names PROVE s \in Subscriptions
  BY <1>2 DEF Subscriptions
<1> QED BY <1>1, <1>2

LEMMA BoundIsNat == MaxCommands \in Nat
BY AsyncAssumption

(* A callback is added to a list, or a list is left alone. *)
LEMMA AppendLists ==
    ASSUME NEW s \in Seq(Nat), NEW c \in Nat
    PROVE  /\ Append(s, c) \in Seq(Nat)
           /\ Elements(Append(s, c)) = Elements(s) \cup {c}
<1>1. /\ Append(s, c) \in Seq(Nat) /\ Len(Append(s, c)) = Len(s) + 1 /\ Len(s) \in Nat
      /\ \A i \in 1..Len(s) : Append(s, c)[i] = s[i]
      /\ Append(s, c)[Len(s) + 1] = c
  OBVIOUS
<1> DEFINE t == Append(s, c)
<1> HIDE DEF t
<1>2. t \in Seq(Nat) /\ Len(t) = Len(s) + 1 /\ (\A i \in 1..Len(s) : t[i] = s[i]) /\ t[Len(s) + 1] = c
  BY <1>1 DEF t
<1>3. ASSUME NEW i \in 1..Len(t) PROVE t[i] \in {s[j] : j \in 1..Len(s)} \cup {c}
  <2>1. i \in 1..Len(s) \/ i = Len(s) + 1
    BY <1>1, <1>2
  <2> QED BY <1>2, <2>1
<1>4. ASSUME NEW j \in 1..Len(s) PROVE \E i \in 1..Len(t) : t[i] = s[j]
  <2>1. j \in 1..Len(t)
    BY <1>1, <1>2
  <2> QED BY <1>2, <2>1
<1>5. \E i \in 1..Len(t) : t[i] = c
  <2>1. Len(s) + 1 \in 1..Len(t)
    BY <1>1, <1>2
  <2> QED BY <1>2, <2>1
<1>6. Elements(t) = Elements(s) \cup {c}
  BY <1>3, <1>4, <1>5, ZenonT(60) DEF Elements
<1> QED BY <1>2, <1>6 DEF t

LEMMA HeadTailLists ==
    ASSUME NEW s \in Seq(Nat), s # <<>>
    PROVE  /\ Tail(s) \in Seq(Nat) /\ Head(s) \in Nat
           /\ Elements(s) \subseteq Elements(Tail(s)) \cup {Head(s)}
<1>1. /\ Tail(s) \in Seq(Nat) /\ Len(Tail(s)) = Len(s) - 1 /\ Len(s) \in Nat \ {0}
      /\ Head(s) = s[1] /\ s[1] \in Nat
      /\ \A i \in 1..(Len(s) - 1) : Tail(s)[i] = s[i + 1]
  OBVIOUS
<1>2. ASSUME NEW i \in 1..Len(s), i # 1 PROVE s[i] \in {Tail(s)[j] : j \in 1..Len(Tail(s))}
  <2>1. i - 1 \in 1..(Len(s) - 1) /\ (i - 1) + 1 = i
    BY <1>1, <1>2
  <2>2. Tail(s)[i - 1] = s[i]
    BY <1>1, <2>1
  <2> QED BY <1>1, <2>1, <2>2
<1> QED BY <1>1, <1>2 DEF Elements

LEMMA CatLists ==
    ASSUME NEW s \in Seq(Nat), NEW t \in Seq(Nat)
    PROVE  s \o t \in Seq(Nat) /\ Elements(s) \cup Elements(t) \subseteq Elements(s \o t)
<1>1. /\ s \o t \in Seq(Nat) /\ Len(s \o t) = Len(s) + Len(t) /\ Len(s) \in Nat /\ Len(t) \in Nat
      /\ \A i \in 1..Len(s) : (s \o t)[i] = s[i]
      /\ \A i \in 1..Len(t) : (s \o t)[Len(s) + i] = t[i]
  OBVIOUS
<1>2. ASSUME NEW i \in 1..Len(s) PROVE s[i] \in Elements(s \o t)
  <2>1. i \in 1..Len(s \o t)
    BY <1>1
  <2> QED BY <1>1, <2>1 DEF Elements
<1>3. ASSUME NEW i \in 1..Len(t) PROVE t[i] \in Elements(s \o t)
  <2>1. Len(s) + i \in 1..Len(s \o t)
    BY <1>1
  <2> QED BY <1>1, <2>1 DEF Elements
<1> QED BY <1>1, <1>2, <1>3 DEF Elements

LEMMA AppendNonempty ==
    ASSUME NEW S, NEW s \in Seq(S), NEW e \in S
    PROVE  Append(s, e) \in Seq(S) /\ Append(s, e) # <<>>
<1>1. Append(s, e) \in Seq(S) /\ Len(Append(s, e)) = Len(s) + 1 /\ Len(s) \in Nat
  OBVIOUS
<1>2. Len(Append(s, e)) # 0 /\ Len(<<>>) = 0
  BY <1>1
<1> QED BY <1>1, <1>2

LEMMA SequenceParts ==
    ASSUME NEW S, NEW s \in Seq(S)
    PROVE  /\ s # <<>> => Head(s) \in S /\ Tail(s) \in Seq(S)
           /\ \A t \in Seq(S) : s \o t \in Seq(S)
           /\ \A e \in S : Append(s, e) \in Seq(S) /\ <<e>> \in Seq(S)
           /\ <<>> \in Seq(S)
OBVIOUS

LEMMA ToSetIn ==
    ASSUME NEW S, NEW s \in Seq(S)
    PROVE  ToSet(s) \subseteq S
<1>1. \A i \in DOMAIN s : s[i] \in S
  OBVIOUS
<1> QED BY <1>1 DEF ToSet

LEMMA SliceTyped ==
    ASSUME NEW S, NEW s \in Seq(S), NEW n \in Nat, n <= Len(s)
    PROVE  SubSeq(s, 1, n) \in Seq(S) /\ SubSeq(s, n + 1, Len(s)) \in Seq(S)
<1>1. Len(s) \in Nat /\ \A i \in 1..Len(s) : s[i] \in S
  OBVIOUS
<1>2. SubSeq(s, 1, n) \in Seq(S)
  BY <1>1
<1>3. SubSeq(s, n + 1, Len(s)) \in Seq(S)
  BY <1>1
<1> QED BY <1>2, <1>3

(* The parts of a context. *)
LEMMA ContextFacts ==
    ASSUME NEW a \in Context
    PROVE  /\ a.flags \in SUBSET Flags /\ a.err \in BOOLEAN /\ a.live \in BOOLEAN
           /\ a.replies \in Seq(Nat) /\ a.invalid \in Seq(Nat) /\ a.subs \in Subscriptions
           /\ a.obuf \in Seq(Commands) /\ a.inbuf \in Seq(Answers) /\ a.cb \in Nat
           /\ a.cmds \in Seq(CommandKinds) /\ Len(a.cmds) \in Nat /\ a.got \in [Ids -> Seq(Outcomes)]
<1>1. /\ a.flags \in SUBSET Flags /\ a.err \in BOOLEAN /\ a.live \in BOOLEAN
      /\ a.replies \in Seq(Nat) /\ a.invalid \in Seq(Nat) /\ a.subs \in Subscriptions
      /\ a.obuf \in Seq(Commands) /\ a.inbuf \in Seq(Answers) /\ a.cb \in Nat
      /\ a.cmds \in Seq(CommandKinds) /\ a.got \in [Ids -> Seq(Outcomes)]
  BY DEF Context
<1>2. Len(a.cmds) \in Nat
  BY <1>1
<1> QED BY <1>1, <1>2

(* A flag is set. *)
Flagged(a, f) == [a EXCEPT !.flags = @ \cup {f}]

LEMMA FlagKeeps ==
    ASSUME NEW a \in Context, NEW f \in Flags
    PROVE  /\ Flagged(a, f) \in Context /\ Flagged(a, f).flags = a.flags \cup {f}
           /\ Flagged(a, f).live = a.live /\ Flagged(a, f).cmds = a.cmds
           /\ Flagged(a, f).got = a.got /\ Flagged(a, f).replies = a.replies
           /\ Flagged(a, f).invalid = a.invalid
<1> DEFINE g == a.flags \cup {f}
           b == [a EXCEPT !.flags = g]
<1>1. a.flags \in SUBSET Flags
  BY ContextFacts
<1>2. g \in SUBSET Flags
  BY <1>1
<1>3. Flagged(a, f) = b
  BY DEF Flagged
<1> HIDE DEF g
<1>4. b \in Context
  BY <1>2 DEF Context
<1>5. b.flags = g
  BY DEF Context
<1>6. /\ b.live = a.live /\ b.cmds = a.cmds /\ b.got = a.got /\ b.replies = a.replies
      /\ b.invalid = a.invalid
  OBVIOUS
<1> HIDE DEF b
<1> QED BY <1>3, <1>4, <1>5, <1>6 DEF g

(* The subscriptions after a callback for every name. *)
LEMMA SubscribeTyped ==
    ASSUME NEW a \in Context, NEW id \in Nat, NEW names \in Seq(Names)
    PROVE  LET b == Subscribe(a, id, names)
           IN  /\ b \in Context /\ b.flags = a.flags \cup {"SUBSCRIBED"} /\ b.live = a.live
               /\ b.cmds = a.cmds /\ b.got = a.got /\ b.replies = a.replies /\ b.invalid = a.invalid
<1> DEFINE A == [pending : Int, subs : Subscriptions]
           I == [pending |-> 1, subs |-> a.subs]
           n == Len(names)
           G == [y \in Nat \X A |-> IF y[1] \in 1..n THEN SubscribeOne(id, y[2], names[y[1]]) ELSE y[2]]
<1>0. a.subs \in Subscriptions
  BY ContextFacts
<1>1. I \in A /\ n \in Nat /\ \A k \in 1..n : names[k] \in Names
  BY <1>0
<1>2. ASSUME NEW x \in A, NEW m \in Names PROVE SubscribeOne(id, x, m) \in A
  <2> DEFINE p == IF m \in DOMAIN x.subs THEN x.subs[m].pending + 1 ELSE x.pending
             s == [l \in DOMAIN x.subs \cup {m} |->
                      IF l = m THEN [cb |-> id, pending |-> p] ELSE x.subs[l]]
  <2>1. x.subs \in [DOMAIN x.subs -> Subscription] /\ DOMAIN x.subs \subseteq Names /\ x.pending \in Int
    BY SubscriptionsFacts
  <2>2. p \in Int
    BY <2>1 DEF Subscription
  <2>3. [cb |-> id, pending |-> p] \in Subscription
    BY <2>2 DEF Subscription
  <2>4. s \in [DOMAIN s -> Subscription] /\ DOMAIN s \subseteq Names
    <3> HIDE DEF p
    <3> QED BY <2>1, <2>3
  <2>5. s \in Subscriptions
    <3> HIDE DEF s
    <3> QED BY <2>4, SubscriptionsFacts
  <2>6. SubscribeOne(id, x, m) = [pending |-> p, subs |-> s]
    BY DEF SubscribeOne
  <2> HIDE DEF p, s
  <2> QED BY <2>2, <2>5, <2>6
<1> HIDE DEF A, I
<1>3. G \in [Nat \X A -> A]
  <2>1. ASSUME NEW k \in Nat, NEW x \in A
        PROVE  (IF k \in 1..n THEN SubscribeOne(id, x, names[k]) ELSE x) \in A
    BY <1>1, <1>2
  <2> QED BY <2>1
<1>4. PICK f \in [0..n -> A] : Steps(f, I, G, n)
  <2> HIDE DEF G
  <2> QED BY <1>1, <1>3, StepsExist
<1>5. f[0] = I /\ \A k \in 1..n : f[k] = SubscribeOne(id, f[k - 1], names[k])
  <2>1. ASSUME NEW k \in 1..n PROVE f[k] = SubscribeOne(id, f[k - 1], names[k])
    <3>1. k - 1 \in 0..n /\ k \in Nat
      BY <1>1
    <3>2. f[k - 1] \in A
      BY <3>1
    <3> QED BY <1>4, <3>1, <3>2 DEF Steps
  <2> QED BY <1>4, <2>1 DEF Steps
<1>6. f = [k \in 0..n |-> IF k = 0 THEN I ELSE SubscribeOne(id, f[k - 1], names[k])]
  <2>1. f = [k \in 0..n |-> f[k]]
    OBVIOUS
  <2>2. \A k \in 0..n : k = 0 \/ k \in 1..n
    BY <1>1
  <2> QED BY <1>5, <2>1, <2>2
<1> DEFINE h == CHOOSE g : g = [k \in 0..n |-> IF k = 0 THEN I ELSE SubscribeOne(id, g[k - 1], names[k])]
<1>7. h = [k \in 0..n |-> IF k = 0 THEN I ELSE SubscribeOne(id, h[k - 1], names[k])]
  BY <1>6
<1>8. Subscribe(a, id, names) = [a EXCEPT !.flags = @ \cup {"SUBSCRIBED"}, !.subs = h[n].subs]
  BY DEF Subscribe, I
<1> HIDE DEF h
<1> DEFINE T == {k \in Nat : k <= n => h[k] \in A}
<1>9. 0 \in T
  BY <1>1, <1>7
<1>10. ASSUME NEW k \in T PROVE k + 1 \in T
  <2> SUFFICES ASSUME k + 1 <= n PROVE h[k + 1] \in A
    OBVIOUS
  <2>1. k + 1 \in 1..n /\ k + 1 \in 0..n /\ (k + 1) - 1 = k /\ h[k] \in A
    BY <1>1
  <2>2. h[k + 1] = SubscribeOne(id, h[k], names[k + 1])
    BY <1>7, <2>1
  <2> QED BY <1>1, <1>2, <2>1, <2>2
<1> HIDE DEF T
<1>11. \A k \in Nat : k \in T
  BY <1>9, <1>10, SetInduction DEF T
<1>12. h[n] \in A
  BY <1>1, <1>11 DEF T
<1>13. h[n].subs \in Subscriptions
  BY <1>12 DEF A
<1> DEFINE f1 == Flagged(a, "SUBSCRIBED")
           t == h[n].subs
           b == [f1 EXCEPT !.subs = t]
<1>14. Subscribe(a, id, names) = b
  BY <1>8 DEF Flagged
<1>15. /\ f1 \in Context /\ f1.flags = a.flags \cup {"SUBSCRIBED"} /\ f1.live = a.live
       /\ f1.cmds = a.cmds /\ f1.got = a.got /\ f1.replies = a.replies /\ f1.invalid = a.invalid
  <2>1. "SUBSCRIBED" \in Flags
    BY DEF Flags
  <2> QED BY <2>1, FlagKeeps, Zenon
<1> HIDE DEF f1, t
<1>16. b \in Context
  BY <1>13, <1>15 DEF Context, t
<1>17. b.cmds = f1.cmds /\ b.got = f1.got /\ b.replies = f1.replies
       /\ b.invalid = f1.invalid /\ b.live = f1.live /\ b.flags = f1.flags
  BY <1>15 DEF Context
<1> HIDE DEF b
<1> QED BY <1>14, <1>15, <1>16, <1>17

(* What a step of the context keeps: its type, and that no callback is     *)
(* lost but one that is put into cb to be run.                             *)
Bounded(a) == a \in Context /\ Len(a.cmds) <= MaxCommands
Same(a, b) == b.live = a.live /\ a.flags \subseteq b.flags

(* A command that is taken is in one of the lists. *)
LEMMA CommandKeeps ==
    ASSUME NEW a, Bounded(a), NEW c \in Commands
    PROVE  LET b == __redisAsyncCommand(a, c)
           IN  Bounded(b) /\ Same(a, b) /\ Forgotten(b) \subseteq Forgotten(a)
<1> DEFINE id == Len(a.cmds) + 1
           e == [c EXCEPT !.id = id]
           s == [a EXCEPT !.obuf = Append(@, e), !.cmds = Append(@, c.kind)]
           b == __redisAsyncCommand(a, c)
<1>1. CASE ~Accepts(a, c)
  BY <1>1 DEF __redisAsyncCommand, Bounded, Same
<1>2. CASE Accepts(a, c)
  <2> HIDE DEF b, s, e
  <2>0. a \in Context /\ Len(a.cmds) \in Nat /\ a.obuf \in Seq(Commands) /\ a.cmds \in Seq(CommandKinds)
    BY ContextFacts DEF Bounded
  <2>1. /\ Len(a.cmds) \in Nat /\ id \in Nat /\ id <= MaxCommands
        /\ c.kind \in CommandKinds /\ c.names \in Seq(Names)
    <3>1. c.kind \in CommandKinds /\ c.names \in Seq(Names)
      BY DEF Commands
    <3>2. id <= MaxCommands
      BY <1>2, <2>0, BoundIsNat DEF Accepts
    <3> QED BY <2>0, <3>1, <3>2
  <2>2. e \in Commands
    BY <2>1 DEF Commands, e
  <2> DEFINE o == Append(a.obuf, e)
             m == Append(a.cmds, c.kind)
  <2>3. o \in Seq(Commands)
    BY <2>0, <2>2
  <2>4. /\ m \in Seq(CommandKinds) /\ Len(m) = id /\ m[id] = c.kind
        /\ \A i \in 1..Len(a.cmds) : m[i] = a.cmds[i]
    BY <2>0, <2>1
  <2>5. s = [a EXCEPT !.obuf = o, !.cmds = m]
    BY DEF s
  <2> HIDE DEF o, m, id
  <2>5a. s \in Context
    BY <2>0, <2>3, <2>4, <2>5 DEF Context
  <2>5b. s.cmds = m
    BY <2>0, <2>5 DEF Context
  <2>6. /\ s.live = a.live /\ s.flags = a.flags /\ s.got = a.got
        /\ s.replies = a.replies /\ s.invalid = a.invalid
    BY <2>0, <2>5 DEF Context
  <2>7. Owed(s) \subseteq Owed(a) \cup {id} /\ (c.kind # "get" => Owed(s) \subseteq Owed(a))
    <3>1. ASSUME NEW i \in Owed(s), i # id PROVE i \in Owed(a)
      <4>1. i \in 1..Len(m) /\ m[i] = "get" /\ a.got[i] = <<>>
        BY <2>5b, <2>6 DEF Owed
      <4>2. i \in 1..Len(a.cmds)
        BY <2>1, <2>4, <3>1, <4>1 DEF id
      <4> QED BY <2>4, <4>1, <4>2 DEF Owed
    <3>2. ASSUME id \in Owed(s) PROVE c.kind = "get"
      BY <2>4, <2>5b, <3>2 DEF Owed
    <3> QED BY <3>1, <3>2
  <2>8. CASE c.kind = "subscribe"
    <3>1. b = Subscribe(s, id, c.names)
      BY <1>2, <2>8 DEF __redisAsyncCommand, b, s, e, id
    <3>2. id \in Nat /\ c.names \in Seq(Names)
      BY <2>1
    <3>3. /\ b \in Context /\ b.flags = s.flags \cup {"SUBSCRIBED"} /\ b.live = s.live
          /\ b.cmds = s.cmds /\ b.got = s.got /\ b.replies = s.replies /\ b.invalid = s.invalid
      BY <2>5a, <3>1, <3>2, SubscribeTyped
    <3>6. Bounded(b)
      BY <2>1, <2>4, <2>5b, <3>3 DEF Bounded
    <3>7. Owed(b) = Owed(s) /\ Listed(b) = Listed(a)
      BY <2>6, <3>3 DEF Owed, Listed
    <3>8. Forgotten(b) \subseteq Forgotten(a)
      BY <2>7, <2>8, <3>7 DEF Forgotten
    <3> QED BY <2>6, <3>3, <3>6, <3>8 DEF Same, b
  <2>9. CASE c.kind = "unsubscribe"
    <3>1. b = s
      BY <1>2, <2>9 DEF __redisAsyncCommand, b, s, e, id
    <3>1a. Owed(b) = Owed(s) /\ Listed(b) = Listed(a)
      BY <2>6, <3>1 DEF Owed, Listed
    <3>2. Forgotten(b) \subseteq Forgotten(a)
      BY <2>7, <2>9, <3>1a DEF Forgotten
    <3>3. Bounded(b)
      BY <2>1, <2>4, <2>5a, <2>5b, <3>1 DEF Bounded
    <3> QED BY <2>6, <3>1, <3>2, <3>3 DEF Same, b
  <2>10. ASSUME b.got = s.got, b.cmds = s.cmds, b.live = s.live, s.flags \subseteq b.flags, b \in Context,
                \/ b.replies = Append(s.replies, id) /\ b.invalid = s.invalid
                \/ b.invalid = Append(s.invalid, id) /\ b.replies = s.replies
         PROVE  Bounded(b) /\ Same(a, b) /\ Forgotten(b) \subseteq Forgotten(a)
    <3>1. s.replies \in Seq(Nat) /\ s.invalid \in Seq(Nat)
      BY <2>5a, ContextFacts
    <3>2. Listed(b) = Listed(s) \cup {id}
      <4>1. CASE b.replies = Append(s.replies, id) /\ b.invalid = s.invalid
        <5>1. Elements(b.replies) = Elements(s.replies) \cup {id}
          BY <2>1, <3>1, <4>1, AppendLists
        <5> QED BY <4>1, <5>1 DEF Listed
      <4>2. CASE b.invalid = Append(s.invalid, id) /\ b.replies = s.replies
        <5>1. Elements(b.invalid) = Elements(s.invalid) \cup {id}
          BY <2>1, <3>1, <4>2, AppendLists
        <5> QED BY <4>2, <5>1 DEF Listed
      <4> QED BY <2>10, <4>1, <4>2
    <3>3. Listed(s) = Listed(a) /\ Owed(b) = Owed(s)
      BY <2>6, <2>10 DEF Listed, Owed
    <3>4. Bounded(b)
      BY <2>1, <2>4, <2>5b, <2>10 DEF Bounded
    <3>5. Forgotten(b) \subseteq Forgotten(a)
      BY <2>7, <3>2, <3>3 DEF Forgotten
    <3> QED BY <2>6, <2>10, <3>4, <3>5 DEF Same
  <2>11. CASE c.kind = "monitor"
    <3> DEFINE f == Flagged(s, "MONITORING")
               w == Append(s.replies, id)
    <3>1. b = [f EXCEPT !.replies = w]
      BY <1>2, <2>11 DEF __redisAsyncCommand, Flagged, b, s, e, id
    <3>2. w \in Seq(Nat)
      BY <2>1, <2>5a, AppendLists, ContextFacts
    <3>3. /\ f \in Context /\ f.flags = s.flags \cup {"MONITORING"} /\ f.live = s.live
          /\ f.cmds = s.cmds /\ f.got = s.got /\ f.replies = s.replies /\ f.invalid = s.invalid
      <4>1. "MONITORING" \in Flags
        BY DEF Flags
      <4> QED BY <2>5a, <4>1, FlagKeeps, Zenon
    <3> HIDE DEF f, w
    <3>4. b \in Context
      BY <3>1, <3>2, <3>3 DEF Context
    <3>5. b.cmds = f.cmds /\ b.got = f.got /\ b.replies = w
          /\ b.invalid = f.invalid /\ b.live = f.live /\ b.flags = f.flags
      BY <3>1, <3>3 DEF Context
    <3> QED BY <2>10, <3>3, <3>4, <3>5 DEF b, w
  <2>12. CASE c.kind = "get"
    <3> DEFINE v == Append(s.invalid, id)
               w == Append(s.replies, id)
    <3>1. b = [s EXCEPT !.invalid = v] \/ b = [s EXCEPT !.replies = w]
      BY <1>2, <2>12 DEF __redisAsyncCommand, b, s, e, id
    <3>2. v \in Seq(Nat) /\ w \in Seq(Nat)
      BY <2>1, <2>5a, AppendLists, ContextFacts
    <3> HIDE DEF v, w
    <3>3. CASE b = [s EXCEPT !.invalid = v]
      <4>1. b \in Context
        BY <2>5a, <3>2, <3>3 DEF Context
      <4>2. b.cmds = s.cmds /\ b.got = s.got /\ b.replies = s.replies
            /\ b.invalid = v /\ b.live = s.live /\ b.flags = s.flags
        BY <2>5a, <3>3 DEF Context
      <4> QED BY <2>10, <4>1, <4>2 DEF b, v
    <3>4. CASE b = [s EXCEPT !.replies = w]
      <4>1. b \in Context
        BY <2>5a, <3>2, <3>4 DEF Context
      <4>2. b.cmds = s.cmds /\ b.got = s.got /\ b.replies = w
            /\ b.invalid = s.invalid /\ b.live = s.live /\ b.flags = s.flags
        BY <2>5a, <3>4 DEF Context
      <4> QED BY <2>10, <4>1, <4>2 DEF b, w
    <3> QED BY <3>1, <3>3, <3>4
  <2> QED BY <2>1, <2>8, <2>9, <2>11, <2>12 DEF CommandKinds, b
<1> QED BY <1>1, <1>2

(* A callback is told the outcome, when it has a function. *)
Told(a, cb, what) ==
    IF cb # NULLfn /\ a.cmds[cb] = "get" THEN [a EXCEPT !.got[cb] = Append(@, what)] ELSE a

LEMMA ToldKeeps ==
    ASSUME NEW a, Bounded(a), NEW cb \in Nat, NEW what \in Outcomes
    PROVE  LET told == Told(a, cb, what)
           IN  /\ Bounded(told) /\ told.live = a.live /\ told.flags = a.flags
               /\ Listed(told) = Listed(a) /\ Owed(told) \subseteq Owed(a) \ {cb}
<1> DEFINE told == Told(a, cb, what)
<1> HIDE DEF told
<1>1. /\ a \in Context /\ a.got \in [Ids -> Seq(Outcomes)] /\ Len(a.cmds) \in Nat
      /\ 1..Len(a.cmds) \subseteq Ids
  <2>1. a \in Context /\ a.got \in [Ids -> Seq(Outcomes)] /\ Len(a.cmds) \in Nat
    BY ContextFacts DEF Bounded
  <2> QED BY <2>1, BoundIsNat DEF Ids, Bounded
<1>2. CASE cb = NULLfn \/ a.cmds[cb] # "get"
  <2>1. told = a
    BY <1>2 DEF told, Told
  <2>2. cb \notin Owed(a)
    BY <1>2 DEF Owed, NULLfn
  <2> QED BY <2>1, <2>2 DEF told
<1>3. CASE cb # NULLfn /\ a.cmds[cb] = "get" /\ cb \in Ids
  <2> DEFINE g == Append(a.got[cb], what)
             h == [a.got EXCEPT ![cb] = g]
  <2>1. g \in Seq(Outcomes) /\ g # <<>>
    <3>1. a.got[cb] \in Seq(Outcomes)
      BY <1>1, <1>3
    <3> QED BY <3>1, AppendNonempty
  <2>2. told = [a EXCEPT !.got = h]
    BY <1>3 DEF told, Told
  <2> HIDE DEF g
  <2>3. h \in [Ids -> Seq(Outcomes)] /\ \A i \in Ids : h[i] = IF i = cb THEN g ELSE a.got[i]
    BY <1>1, <1>3, <2>1
  <2> HIDE DEF h
  <2>4. told \in Context
    BY <1>1, <2>2, <2>3 DEF Context
  <2>5. /\ told.cmds = a.cmds /\ told.live = a.live /\ told.flags = a.flags
        /\ told.replies = a.replies /\ told.invalid = a.invalid /\ told.got = h
    BY <1>1, <2>2 DEF Context
  <2>6. Owed(told) \subseteq Owed(a) \ {cb}
    BY <1>1, <2>1, <2>3, <2>5 DEF Owed
  <2>7. Listed(told) = Listed(a)
    BY <2>5 DEF Listed
  <2>8. Bounded(told)
    BY <2>4, <2>5 DEF Bounded
  <2> QED BY <2>5, <2>6, <2>7, <2>8 DEF told
<1>4. CASE cb # NULLfn /\ a.cmds[cb] = "get" /\ cb \notin Ids
  <2> DEFINE h == [a.got EXCEPT ![cb] = Append(@, what)]
  <2>1. h = a.got
    BY <1>1, <1>4
  <2>2. told = [a EXCEPT !.got = h]
    BY <1>4 DEF told, Told
  <2> HIDE DEF h
  <2>3. told = a
    BY <1>1, <2>1, <2>2 DEF Context
  <2>4. cb \notin Owed(a)
    BY <1>1, <1>4 DEF Owed
  <2> QED BY <2>3, <2>4 DEF told
<1> QED BY <1>2, <1>3, <1>4

(* A callback that is run is owed no more, whatever is done in it. *)
LEMMA CallbackKeeps ==
    ASSUME NEW a, Bounded(a), NEW cb \in Nat, NEW what \in Outcomes, NEW does \in CallbackDoes
    PROVE  LET b == __redisRunCallback(a, cb, what, does)
           IN  Bounded(b) /\ Same(a, b) /\ Forgotten(b) \subseteq Forgotten(a) \ {cb}
<1> DEFINE b == __redisRunCallback(a, cb, what, does)
           told == Told(a, cb, what)
<1> HIDE DEF b, told
<1>1. CASE cb = NULLfn
  <2>1. b = a
    BY <1>1 DEF __redisRunCallback, b
  <2>2. cb \notin Forgotten(a)
    BY <1>1 DEF Forgotten, Owed, NULLfn
  <2> QED BY <2>1, <2>2 DEF Same, b
<1>2. CASE cb # NULLfn
  <2>1. Bounded(told) /\ Same(a, told) /\ Forgotten(told) \subseteq Forgotten(a) \ {cb}
    <3>1. /\ Bounded(told) /\ told.live = a.live /\ told.flags = a.flags
          /\ Listed(told) = Listed(a) /\ Owed(told) \subseteq Owed(a) \ {cb}
      BY ToldKeeps DEF told
    <3> QED BY <3>1 DEF Same, Forgotten
  <2>2. CASE does = "nothing"
    <3>1. b = told
      BY <1>2, <2>2 DEF __redisRunCallback, Told, b, told
    <3> QED BY <2>1, <3>1 DEF b
  <2>3. CASE does = "get"
    <3>1. b = __redisAsyncCommand(told, Get)
      BY <1>2, <2>3 DEF __redisRunCallback, Told, b, told
    <3>2. Get \in Commands
      BY DEF Get, Cmd, Commands, CommandKinds
    <3>3. Bounded(b) /\ Same(told, b) /\ Forgotten(b) \subseteq Forgotten(told)
      BY <2>1, <3>1, <3>2, CommandKeeps
    <3> QED BY <2>1, <3>3 DEF Same, b
  <2>4. ASSUME NEW f \in Flags, b = Flagged(told, f)
        PROVE  Bounded(b) /\ Same(a, b) /\ Forgotten(b) \subseteq Forgotten(a) \ {cb}
    <3>1. /\ b \in Context /\ b.flags = told.flags \cup {f} /\ b.live = told.live
          /\ b.cmds = told.cmds /\ b.got = told.got /\ b.replies = told.replies
          /\ b.invalid = told.invalid
      BY <2>1, <2>4, FlagKeeps DEF Bounded
    <3>2. Owed(b) = Owed(told) /\ Listed(b) = Listed(told)
      BY <3>1 DEF Owed, Listed
    <3> QED BY <2>1, <3>1, <3>2 DEF Bounded, Same, Forgotten
  <2>5. CASE does = "disconnect"
    <3>1. b = Flagged(told, "DISCONNECTING")
      BY <1>2, <2>5 DEF __redisRunCallback, Told, Flagged, b, told
    <3> QED BY <2>4, <3>1 DEF b, Flags
  <2>6. CASE does = "free"
    <3>1. b = Flagged(told, "FREEING")
      BY <1>2, <2>6 DEF __redisRunCallback, Told, Flagged, b, told
    <3> QED BY <2>4, <3>1 DEF b, Flags
  <2> QED BY <2>2, <2>3, <2>5, <2>6 DEF CallbackDoes, b
<1> QED BY <1>1, <1>2

(* A context that goes takes no command, so that a callback which is run   *)
(* adds none to the lists.                                                 *)
Going(a) == Bounded(a) /\ a.flags \cap {"DISCONNECTING", "FREEING"} # {}

LEMMA GoingCallback ==
    ASSUME NEW a, Going(a), NEW cb \in Nat
    PROVE  LET b == __redisRunCallback(a, cb, "null", "get")
           IN  Going(b) /\ b.live = a.live /\ Owed(b) \subseteq Owed(a) \ {cb}
<1> DEFINE b == __redisRunCallback(a, cb, "null", "get")
           told == Told(a, cb, "null")
<1> HIDE DEF b, told
<1>1. CASE cb = NULLfn
  <2>1. b = a
    BY <1>1 DEF __redisRunCallback, b
  <2>2. cb \notin Owed(a)
    BY <1>1 DEF Owed, NULLfn
  <2> QED BY <2>1, <2>2 DEF b
<1>2. CASE cb # NULLfn
  <2>1. /\ Bounded(told) /\ told.live = a.live /\ told.flags = a.flags
        /\ Owed(told) \subseteq Owed(a) \ {cb}
    BY ToldKeeps DEF told, Going, Outcomes
  <2>2. b = __redisAsyncCommand(told, Get)
    BY <1>2 DEF __redisRunCallback, Told, b, told
  <2>3. ~Accepts(told, Get)
    BY <2>1 DEF Accepts, Going
  <2>4. b = told
    BY <2>2, <2>3 DEF __redisAsyncCommand
  <2> QED BY <2>1, <2>4 DEF Going, b
<1> QED BY <1>1, <1>2

LEMMA RunAllOwesNone ==
    ASSUME NEW a, Going(a), NEW w \in Seq(Nat)
    PROVE  LET b == RunAll(a, w)
           IN  Going(b) /\ b.live = a.live /\ Owed(b) \subseteq Owed(a) \ Elements(w)
<1> DEFINE A == {x \in Context : Going(x)}
           n == Len(w)
           R(x, cb) == __redisRunCallback(x, cb, "null", "get")
           G == [y \in Nat \X A |-> IF y[1] \in 1..n THEN R(y[2], w[y[1]]) ELSE y[2]]
<1>1. a \in A /\ n \in Nat /\ \A k \in 1..n : w[k] \in Nat
  BY DEF Going, Bounded
<1>2. \A x \in A, cb \in Nat :
          R(x, cb) \in A /\ R(x, cb).live = x.live /\ Owed(R(x, cb)) \subseteq Owed(x) \ {cb}
  BY GoingCallback DEF Going, Bounded
<1> HIDE DEF A, R
<1>3. G \in [Nat \X A -> A]
  <2>1. ASSUME NEW k \in Nat, NEW x \in A
        PROVE  (IF k \in 1..n THEN R(x, w[k]) ELSE x) \in A
    BY <1>1, <1>2
  <2> QED BY <2>1
<1>4. PICK f \in [0..n -> A] : Steps(f, a, G, n)
  <2> HIDE DEF G
  <2> QED BY <1>1, <1>3, StepsExist
<1>5. f[0] = a /\ \A k \in 1..n : f[k] = R(f[k - 1], w[k])
  <2>1. ASSUME NEW k \in 1..n PROVE f[k] = R(f[k - 1], w[k])
    <3>1. k - 1 \in 0..n /\ k \in Nat
      BY <1>1
    <3>2. f[k - 1] \in A
      BY <3>1
    <3> QED BY <1>4, <3>1, <3>2 DEF Steps
  <2> QED BY <1>4, <2>1 DEF Steps
<1>6. f = [k \in 0..n |-> IF k = 0 THEN a ELSE R(f[k - 1], w[k])]
  <2>1. f = [k \in 0..n |-> f[k]]
    OBVIOUS
  <2>2. \A k \in 0..n : k = 0 \/ k \in 1..n
    BY <1>1
  <2> QED BY <1>5, <2>1, <2>2
<1> DEFINE h == CHOOSE g : g = [k \in 0..n |-> IF k = 0 THEN a ELSE R(g[k - 1], w[k])]
<1>7. h = [k \in 0..n |-> IF k = 0 THEN a ELSE R(h[k - 1], w[k])]
  BY <1>6
<1>8. RunAll(a, w) = h[n]
  BY DEF RunAll, R
<1> HIDE DEF h
<1> DEFINE P(k) == /\ h[k] \in A /\ h[k].live = a.live
                   /\ Owed(h[k]) \subseteq Owed(a) \ {w[i] : i \in 1..k}
           T == {k \in Nat : k <= n => P(k)}
<1>9. 0 \in T
  <2>1. h[0] = a
    BY <1>1, <1>7
  <2>2. P(0)
    BY <1>1, <2>1
  <2> QED BY <2>2
<1>10. ASSUME NEW k \in T PROVE k + 1 \in T
  <2> HIDE DEF P
  <2> SUFFICES ASSUME k + 1 <= n PROVE P(k + 1)
    OBVIOUS
  <2>0. k + 1 \in 1..n /\ k + 1 \in 0..n /\ (k + 1) - 1 = k /\ P(k)
    BY <1>1
  <2>1. /\ k + 1 \in 1..n /\ k + 1 \in 0..n /\ (k + 1) - 1 = k
        /\ h[k] \in A /\ h[k].live = a.live
        /\ Owed(h[k]) \subseteq Owed(a) \ {w[i] : i \in 1..k}
    BY <2>0 DEF P
  <2>2. h[k + 1] = R(h[k], w[k + 1])
    BY <1>7, <2>1, SMTT(30)
  <2>3. /\ h[k + 1] \in A /\ h[k + 1].live = a.live
        /\ Owed(h[k + 1]) \subseteq Owed(h[k]) \ {w[k + 1]}
    <3>1. w[k + 1] \in Nat /\ h[k] \in A
      BY <1>1, <2>1
    <3>2. /\ R(h[k], w[k + 1]) \in A /\ R(h[k], w[k + 1]).live = h[k].live
          /\ Owed(R(h[k], w[k + 1])) \subseteq Owed(h[k]) \ {w[k + 1]}
      BY <1>2, <3>1
    <3> QED BY <2>1, <2>2, <3>2
  <2>4. {w[i] : i \in 1..(k + 1)} \subseteq {w[i] : i \in 1..k} \cup {w[k + 1]}
    OBVIOUS
  <2> QED BY <2>1, <2>3, <2>4 DEF P
<1> HIDE DEF T
<1>11. \A k \in Nat : k \in T
  BY <1>9, <1>10, SetInduction DEF T
<1>12. h[n] \in A /\ h[n].live = a.live /\ Owed(h[n]) \subseteq Owed(a) \ {w[i] : i \in 1..n}
  BY <1>1, <1>11 DEF T
<1> QED BY <1>8, <1>12 DEF A, Elements

(* The callbacks of the subscriptions, in some order. *)
LEMMA SubscribersListed ==
    ASSUME NEW a \in Context
    PROVE  SetToSeq({a.subs[n].cb : n \in DOMAIN a.subs}) \in Seq(Nat)
<1> DEFINE D == DOMAIN a.subs
           S == {a.subs[n].cb : n \in D}
           f == [n \in D |-> a.subs[n].cb]
           c == Cardinality(S)
<1>1. D \subseteq Names /\ a.subs \in [D -> Subscription]
  BY ContextFacts, SubscriptionsFacts
<1>2. IsFiniteSet(D)
  BY <1>1, FS_Subset, AsyncAssumption
<1>3. S \subseteq Nat
  BY <1>1 DEF Subscription
<1>4. f \in Surjection(D, S)
  BY DEF Surjection
<1> HIDE DEF f
<1>5. IsFiniteSet(S)
  BY <1>2, <1>4, FS_Surjection
<1> HIDE DEF S
<1>6. c \in Nat /\ ExistsBijection(1..c, S)
  BY <1>5, FS_CardinalityType
<1>7. \E g \in [1..c -> S] : IsInjective(g)
  <2>1. PICK g : g \in Bijection(1..c, S)
    BY <1>6 DEF ExistsBijection
  <2> QED BY <2>1 DEF Bijection, Injection, IsInjective
<1>8. SetToSeq(S) \in [1..c -> S]
  BY <1>7 DEF SetToSeq
<1>9. SetToSeq(S) \in [1..c -> Nat]
  BY <1>3, <1>8 DEF S
<1> QED BY <1>6, <1>9 DEF S

(* When the context goes, no callback is owed any more. *)
LEMMA FreeOwesNone ==
    ASSUME NEW a, Going(a), Forgotten(a) = {}
    PROVE  LET b == __redisAsyncFree(a)
           IN  /\ Bounded(b) /\ b.live = FALSE /\ Forgotten(b) = {}
               /\ b.replies = <<>> /\ b.invalid = <<>>
<1> DEFINE t == SetToSeq({a.subs[n].cb : n \in DOMAIN a.subs})
           w == a.replies \o a.invalid \o t
           r == RunAll(a, w)
           b == __redisAsyncFree(a)
<1>1. b = Freed(r)
  BY DEF __redisAsyncFree
<1>2. t \in Seq(Nat) /\ a.replies \in Seq(Nat) /\ a.invalid \in Seq(Nat)
  BY SubscribersListed, ContextFacts DEF Going, Bounded
<1> HIDE DEF t
<1>3. w \in Seq(Nat) /\ Listed(a) \subseteq Elements(w)
  <2> DEFINE u == a.replies \o a.invalid
  <2>1. u \in Seq(Nat) /\ Elements(a.replies) \cup Elements(a.invalid) \subseteq Elements(u)
    BY <1>2, CatLists
  <2>2. w = u \o t
    OBVIOUS
  <2> HIDE DEF u, w
  <2>3. w \in Seq(Nat) /\ Elements(u) \cup Elements(t) \subseteq Elements(w)
    BY <1>2, <2>1, <2>2, CatLists
  <2> QED BY <2>1, <2>3 DEF Listed
<1> HIDE DEF w
<1>4. Going(r) /\ Owed(r) \subseteq Owed(a) \ Elements(w)
  BY <1>3, RunAllOwesNone
<1>5. Owed(r) = {}
  BY <1>3, <1>4 DEF Forgotten
<1> HIDE DEF r, b
<1>6. r \in Context /\ <<>> \in Seq(Nat)
  BY <1>4 DEF Going, Bounded
<1>7. b \in Context
  BY <1>1, <1>6 DEF Freed, Context
<1>8. /\ b.live = FALSE /\ b.replies = <<>> /\ b.invalid = <<>>
      /\ b.cmds = r.cmds /\ b.got = r.got
  BY <1>1, <1>6 DEF Freed, Context
<1>9. Owed(b) = {} /\ Bounded(b)
  BY <1>4, <1>5, <1>7, <1>8 DEF Owed, Going, Bounded
<1> QED BY <1>8, <1>9 DEF Forgotten, b

(* What is left of a context that is gone. *)
Over(b) ==
    /\ Bounded(b) /\ b.live = FALSE /\ Forgotten(b) = {}
    /\ b.replies = <<>> /\ b.invalid = <<>>

LEMMA DisconnectOver ==
    ASSUME NEW a, Bounded(a), Forgotten(a) = {}, a.err = TRUE \/ Going(a)
    PROVE  Over(__redisAsyncDisconnect(a))
<1>1. CASE a.err = TRUE
  <2> DEFINE f == Flagged(a, "DISCONNECTING")
  <2>1. __redisAsyncDisconnect(a) = __redisAsyncFree(f)
    BY <1>1 DEF __redisAsyncDisconnect, Flagged
  <2>2. /\ f \in Context /\ f.flags = a.flags \cup {"DISCONNECTING"} /\ f.live = a.live
        /\ f.cmds = a.cmds /\ f.got = a.got /\ f.replies = a.replies /\ f.invalid = a.invalid
    <3>1. "DISCONNECTING" \in Flags
      BY DEF Flags
    <3> QED BY <3>1, FlagKeeps DEF Bounded
  <2> HIDE DEF f
  <2>3. Going(f) /\ Forgotten(f) = {}
    BY <2>2 DEF Going, Bounded, Forgotten, Owed, Listed
  <2> QED BY <2>1, <2>3, FreeOwesNone DEF Over
<1>2. CASE Going(a) /\ a.err # TRUE
  <2>1. a.err = FALSE
    BY <1>2, ContextFacts DEF Bounded
  <2>2. __redisAsyncDisconnect(a) = __redisAsyncFree(a)
    BY <2>1 DEF __redisAsyncDisconnect
  <2> QED BY <1>2, <2>2, FreeOwesNone DEF Over
<1> QED BY <1>1, <1>2

LEMMA FreeOver ==
    ASSUME NEW a, Bounded(a), Forgotten(a) = {}
    PROVE  Over(redisAsyncFree(a))
<1> DEFINE f == Flagged(a, "FREEING")
<1>1. redisAsyncFree(a) = __redisAsyncFree(f)
  BY DEF redisAsyncFree, Flagged
<1>2. /\ f \in Context /\ f.flags = a.flags \cup {"FREEING"} /\ f.live = a.live
      /\ f.cmds = a.cmds /\ f.got = a.got /\ f.replies = a.replies /\ f.invalid = a.invalid
  <2>1. "FREEING" \in Flags
    BY DEF Flags
  <2> QED BY <2>1, FlagKeeps DEF Bounded
<1> HIDE DEF f
<1>3. Going(f) /\ Forgotten(f) = {}
  BY <1>2 DEF Going, Bounded, Forgotten, Owed, Listed
<1> QED BY <1>1, <1>3, FreeOwesNone DEF Over

(* The parts a reply changes before its callback is run. *)
WithParts(a, c, s, f) == [a EXCEPT !.cb = c, !.subs = s, !.flags = f]

LEMMA PartsReplaced ==
    ASSUME NEW a, Bounded(a), NEW c \in Nat, NEW s \in Subscriptions, NEW f \in SUBSET Flags
    PROVE  LET b == WithParts(a, c, s, f)
           IN  Bounded(b) /\ b.live = a.live /\ b.cb = c /\ Forgotten(b) = Forgotten(a)
<1> DEFINE b == [a EXCEPT !.cb = c, !.subs = s, !.flags = f]
<1>1. b \in Context
  BY DEF Bounded, Context
<1>2. /\ b.live = a.live /\ b.cb = c /\ b.cmds = a.cmds /\ b.got = a.got
      /\ b.replies = a.replies /\ b.invalid = a.invalid
  BY DEF Bounded, Context
<1> HIDE DEF b
<1>3. Bounded(b) /\ Forgotten(b) = Forgotten(a)
  BY <1>1, <1>2 DEF Bounded, Forgotten, Owed, Listed
<1> QED BY <1>2, <1>3 DEF b, WithParts

LEMMA HeadsTaken ==
    ASSUME NEW a, Bounded(a)
    PROVE  /\ a.replies # <<>> =>
                LET b == [a EXCEPT !.cb = Head(a.replies), !.replies = Tail(@)]
                IN  Bounded(b) /\ b.live = a.live /\ Forgotten(b) \subseteq Forgotten(a) \cup {b.cb}
           /\ a.invalid # <<>> =>
                LET b == [a EXCEPT !.cb = Head(a.invalid), !.invalid = Tail(@)]
                IN  Bounded(b) /\ b.live = a.live /\ Forgotten(b) \subseteq Forgotten(a) \cup {b.cb}
<1>1. a \in Context /\ a.replies \in Seq(Nat) /\ a.invalid \in Seq(Nat)
  BY ContextFacts DEF Bounded
<1>2. ASSUME a.replies # <<>>
      PROVE  LET b == [a EXCEPT !.cb = Head(a.replies), !.replies = Tail(@)]
             IN  Bounded(b) /\ b.live = a.live /\ Forgotten(b) \subseteq Forgotten(a) \cup {b.cb}
  <2> DEFINE h == Head(a.replies)
             t == Tail(a.replies)
             b == [a EXCEPT !.cb = h, !.replies = t]
  <2>1. h \in Nat /\ t \in Seq(Nat) /\ Elements(a.replies) \subseteq Elements(t) \cup {h}
    BY <1>1, <1>2, HeadTailLists
  <2> HIDE DEF h, t
  <2>2. b \in Context
    BY <1>1, <2>1 DEF Context
  <2>3. /\ b.live = a.live /\ b.cb = h /\ b.cmds = a.cmds /\ b.got = a.got
        /\ b.replies = t /\ b.invalid = a.invalid
    BY <1>1 DEF Context
  <2> HIDE DEF b
  <2>4. Owed(b) = Owed(a) /\ Listed(a) \subseteq Listed(b) \cup {h}
    BY <2>1, <2>3 DEF Owed, Listed
  <2>5. Bounded(b) /\ b.live = a.live /\ Forgotten(b) \subseteq Forgotten(a) \cup {b.cb}
    BY <2>2, <2>3, <2>4 DEF Bounded, Forgotten
  <2> QED BY <2>5 DEF b, h, t
<1>3. ASSUME a.invalid # <<>>
      PROVE  LET b == [a EXCEPT !.cb = Head(a.invalid), !.invalid = Tail(@)]
             IN  Bounded(b) /\ b.live = a.live /\ Forgotten(b) \subseteq Forgotten(a) \cup {b.cb}
  <2> DEFINE h == Head(a.invalid)
             t == Tail(a.invalid)
             b == [a EXCEPT !.cb = h, !.invalid = t]
  <2>1. h \in Nat /\ t \in Seq(Nat) /\ Elements(a.invalid) \subseteq Elements(t) \cup {h}
    BY <1>1, <1>3, HeadTailLists
  <2> HIDE DEF h, t
  <2>2. b \in Context
    BY <1>1, <2>1 DEF Context
  <2>3. /\ b.live = a.live /\ b.cb = h /\ b.cmds = a.cmds /\ b.got = a.got
        /\ b.invalid = t /\ b.replies = a.replies
    BY <1>1 DEF Context
  <2> HIDE DEF b
  <2>4. Owed(b) = Owed(a) /\ Listed(a) \subseteq Listed(b) \cup {h}
    BY <2>1, <2>3 DEF Owed, Listed
  <2>5. Bounded(b) /\ b.live = a.live /\ Forgotten(b) \subseteq Forgotten(a) \cup {b.cb}
    BY <2>2, <2>3, <2>4 DEF Bounded, Forgotten
  <2> QED BY <2>5 DEF b, h, t
<1> QED BY <1>2, <1>3

(* The callback of a pub/sub reply is put into cb, and no other is lost. *)
LEMMA SubscribeCallbackKeeps ==
    ASSUME NEW a, Bounded(a), NEW reply \in Answers
    PROVE  LET b == __redisGetSubscribeCallback(a, reply)
           IN  Bounded(b) /\ b.live = a.live /\ Forgotten(b) \subseteq Forgotten(a) \cup {b.cb}
<1> DEFINE name == reply.name
           b == __redisGetSubscribeCallback(a, reply)
<1> HIDE DEF b
<1>1. a \in Context /\ a.subs \in Subscriptions /\ a.flags \in SUBSET Flags
  BY ContextFacts DEF Bounded
<1>2. a.subs \in [DOMAIN a.subs -> Subscription] /\ DOMAIN a.subs \subseteq Names
  BY <1>1, SubscriptionsFacts
<1>3. CASE ~reply.array
  <2>1. CASE a.invalid = <<>>
    <3>1. b = a
      BY <1>3, <2>1 DEF __redisGetSubscribeCallback, b
    <3> QED BY <3>1 DEF b
  <2>2. CASE a.invalid # <<>>
    <3>1. b = [a EXCEPT !.cb = Head(a.invalid), !.invalid = Tail(@)]
      BY <1>3, <2>2 DEF __redisGetSubscribeCallback, b
    <3> QED BY <2>2, <3>1, HeadsTaken DEF b
  <2> QED BY <2>1, <2>2
<1>4. CASE reply.array /\ name \notin DOMAIN a.subs
  <2>1. b = a
    BY <1>4 DEF __redisGetSubscribeCallback, b
  <2> QED BY <2>1 DEF b
<1>5. CASE reply.array /\ name \in DOMAIN a.subs
  <2> DEFINE p == IF reply.kind = "subscribe" THEN a.subs[name].pending - 1 ELSE a.subs[name].pending
             s == [a.subs EXCEPT ![name].pending = p]
             c == a.subs[name].cb
             kept == IF a.subs[name].pending # 0 THEN a.subs
                     ELSE [n \in DOMAIN a.subs \ {name} |-> a.subs[n]]
             f == IF reply.count = 0 /\ kept = <<>> THEN a.flags \ {"SUBSCRIBED"} ELSE a.flags
             known == [a EXCEPT !.cb = c, !.subs = s]
  <2>1. a.subs[name] \in Subscription
    BY <1>2, <1>5
  <2>2. c \in Nat /\ p \in Int
    BY <2>1 DEF Subscription
  <2>3. s \in Subscriptions
    <3> HIDE DEF p
    <3>1. [a.subs[name] EXCEPT !.pending = p] \in Subscription
      BY <2>1, <2>2 DEF Subscription
    <3>2. s = [a.subs EXCEPT ![name] = [a.subs[name] EXCEPT !.pending = p]]
      OBVIOUS
    <3>3. s \in [DOMAIN a.subs -> Subscription] /\ DOMAIN s = DOMAIN a.subs
      BY <1>2, <3>1, <3>2
    <3> QED BY <1>2, <3>3, SubscriptionsFacts
  <2>4. kept \in Subscriptions
    <3>1. DOMAIN kept \subseteq Names /\ kept \in [DOMAIN kept -> Subscription]
      BY <1>2
    <3> QED BY <3>1, SubscriptionsFacts
  <2>5. f \in SUBSET Flags
    BY <1>1
  <2>6. CASE reply.kind # "unsubscribe"
    <3>1. b = known
      BY <1>5, <2>6 DEF __redisGetSubscribeCallback, b
    <3> HIDE DEF s, c
    <3>2. known = WithParts(a, c, s, a.flags)
      BY <1>1 DEF Context, WithParts
    <3>3. Bounded(known) /\ known.live = a.live /\ Forgotten(known) = Forgotten(a)
      BY <1>1, <2>2, <2>3, <3>2, PartsReplaced
    <3> QED BY <3>1, <3>3 DEF b
  <2>7. CASE reply.kind = "unsubscribe"
    <3>1. b = [known EXCEPT !.subs = kept,
                 !.flags = IF reply.count = 0 /\ kept = <<>> THEN @ \ {"SUBSCRIBED"} ELSE @]
      BY <1>5, <2>7 DEF __redisGetSubscribeCallback, b
    <3>2. known.flags = a.flags
      BY <1>1 DEF Context
    <3>3. b = [known EXCEPT !.subs = kept, !.flags = f]
      BY <3>1, <3>2
    <3> HIDE DEF s, c, f, kept
    <3>4. b = WithParts(a, c, kept, f)
      BY <1>1, <3>3 DEF Context, WithParts
    <3>5. Bounded(b) /\ b.live = a.live /\ Forgotten(b) = Forgotten(a)
      BY <2>2, <2>4, <2>5, <3>4, PartsReplaced
    <3> QED BY <3>5 DEF b
  <2> QED BY <2>6, <2>7
<1>6. reply.array \in BOOLEAN
  BY DEF Answers
<1> QED BY <1>3, <1>4, <1>5, <1>6

(* An answer, and every other change of the connection. *)
LEMMA AnswerTyped ==
    ASSUME net \in Wire, NEW c \in Commands
    PROVE  Answer(c) \in Seq(Answers)
<1> DEFINE set(k) == IF c.kind = "subscribe" THEN net.names \cup ToSet(SubSeq(c.names, 1, k))
                                              ELSE net.names \ ToSet(SubSeq(c.names, 1, k))
           many == [k \in 1..Len(c.names) |-> Reply(c.kind, 0, c.names[k], Cardinality(set(k)))]
           one == Reply(IF net.names = {} THEN "own" ELSE "error", c.id, "", 0)
<1>1. /\ c.kind \in CommandKinds /\ c.names \in Seq(Names) /\ c.id \in Nat
      /\ net.names \subseteq Names
  BY DEF Commands, Wire
<1>2. Len(c.names) \in Nat /\ \A k \in 1..Len(c.names) : c.names[k] \in Names
  BY <1>1
<1>3. CASE c.kind \in {"subscribe", "unsubscribe"}
  <2>1. ASSUME NEW k \in 1..Len(c.names)
        PROVE  Reply(c.kind, 0, c.names[k], Cardinality(set(k))) \in Answers
    <3>1. SubSeq(c.names, 1, k) \in Seq(Names)
      BY <1>1, <1>2
    <3>2. ToSet(SubSeq(c.names, 1, k)) \subseteq Names
      BY <3>1 DEF ToSet
    <3>3. set(k) \subseteq Names
      BY <1>1, <3>2
    <3> HIDE DEF set
    <3>4. IsFiniteSet(set(k))
      BY <3>3, FS_Subset, AsyncAssumption
    <3>5. Cardinality(set(k)) \in Nat
      BY <3>4, FS_CardinalityType
    <3>6. c.names[k] \in Names /\ c.kind \in ReplyKinds
      BY <1>2, <1>3 DEF ReplyKinds
    <3> QED BY <3>5, <3>6 DEF Reply, Answers
  <2> HIDE DEF set
  <2>2. many \in Seq(Answers)
    BY <1>2, <2>1
  <2>3. Answer(c) = many
    BY <1>3 DEF Answer, set
  <2> QED BY <2>2, <2>3
<1>4. CASE c.kind \notin {"subscribe", "unsubscribe"}
  <2>1. one \in Answers
    BY <1>1 DEF Reply, Answers, ReplyKinds
  <2>2. Answer(c) = <<one>>
    BY <1>4 DEF Answer
  <2> HIDE DEF one
  <2> QED BY <2>1, <2>2
<1> QED BY <1>3, <1>4

LEMMA WireFacts ==
    ASSUME net \in Wire
    PROVE  /\ net.toServer \in Seq(Commands) /\ net.toClient \in Seq(Answers)
           /\ net.names \subseteq Names /\ net.messages + 1 \in Nat
BY DEF Wire

LEMMA ServerKeeps ==
    ASSUME AsyncSound,
           \/ ServerAnswers
           \/ \E n \in Names : ServerPublishes(n)
           \/ \E says \in {<<>>, <<Reply("error", 0, "", 0)>>} : ServerCloses(says)
    PROVE  AsyncSound'
<1>1. net \in Wire /\ UNCHANGED <<ac, pc>>
  BY DEF AsyncSound, AsyncTyped, ServerAnswers, ServerPublishes, ServerCloses
<1>2. /\ net.toServer \in Seq(Commands) /\ net.toClient \in Seq(Answers)
      /\ net.names \subseteq Names
  BY <1>1, WireFacts
<1>3. ASSUME ServerAnswers PROVE net' \in Wire
  <2> DEFINE c == Head(net.toServer)
             t == Tail(net.toServer)
             o == net.toClient \o Answer(c)
             n == CASE c.kind = "subscribe" -> net.names \cup ToSet(c.names)
                    [] c.kind = "unsubscribe" -> net.names \ ToSet(c.names)
                    [] OTHER -> net.names
  <2>1. net' = [net EXCEPT !.toServer = t, !.toClient = o, !.names = n]
    BY <1>3 DEF ServerAnswers
  <2>2. c \in Commands /\ t \in Seq(Commands)
    <3>1. net.toServer # <<>>
      BY <1>3 DEF ServerAnswers
    <3> QED BY <1>2, <3>1, SequenceParts
  <2> HIDE DEF c, t
  <2>3. o \in Seq(Answers)
    <3>1. Answer(c) \in Seq(Answers)
      BY <1>1, <2>2, AnswerTyped
    <3> QED BY <1>2, <3>1, SequenceParts
  <2>4. n \in SUBSET Names
    <3>1. c.names \in Seq(Names)
      BY <2>2 DEF Commands
    <3>2. ToSet(c.names) \subseteq Names
      BY <3>1, ToSetIn
    <3> QED BY <1>2, <3>2
  <2> HIDE DEF o, n
  <2> QED BY <1>1, <2>1, <2>2, <2>3, <2>4 DEF Wire
<1>4. ASSUME NEW n \in Names, ServerPublishes(n) PROVE net' \in Wire
  <2>0. net.messages + 1 \in Nat
    BY <1>1, WireFacts
  <2> DEFINE r == Reply("message", 0, n, 0)
             o == Append(net.toClient, r)
             m == net.messages + 1
  <2>1. r \in Answers
    BY DEF Reply, Answers, ReplyKinds
  <2>2. o \in Seq(Answers) /\ m \in Nat
    <3> HIDE DEF r
    <3>1. o \in Seq(Answers)
      BY <1>2, <2>1, SequenceParts
    <3> HIDE DEF o
    <3> QED BY <2>0, <3>1
  <2>3. net' = [net EXCEPT !.toClient = o, !.messages = m]
    BY <1>4 DEF ServerPublishes
  <2> HIDE DEF o, m
  <2> QED BY <1>1, <2>2, <2>3 DEF Wire
<1>5. ASSUME NEW says \in {<<>>, <<Reply("error", 0, "", 0)>>}, ServerCloses(says)
      PROVE  net' \in Wire
  <2> DEFINE r == Reply("error", 0, "", 0)
             o == net.toClient \o says
  <2>1. r \in Answers
    BY DEF Reply, Answers, ReplyKinds
  <2>2. says \in Seq(Answers)
    <3> HIDE DEF r
    <3>1. says = <<>> \/ says = <<r>>
      BY DEF r
    <3>2. <<r>> \in Seq(Answers) /\ <<>> \in Seq(Answers)
      BY <1>2, <2>1, SequenceParts
    <3> QED BY <3>1, <3>2
  <2>3. o \in Seq(Answers) /\ <<>> \in Seq(Commands)
    BY <1>2, <2>2, SequenceParts
  <2>4. net' = [net EXCEPT !.closed = TRUE, !.toServer = <<>>, !.toClient = o]
    BY <1>5 DEF ServerCloses
  <2> HIDE DEF o
  <2> QED BY <1>1, <2>3, <2>4 DEF Wire
<1>6. net' \in Wire
  BY <1>3, <1>4, <1>5
<1>7. ac' \in Context /\ Len(ac'.cmds) <= MaxCommands /\ pc' \in {"loop", "process"}
  BY <1>1 DEF AsyncSound, AsyncTyped
<1>8. NobodyForgotten'
  <2>1. Forgotten(ac)' = Forgotten(ac')
    BY DEF Forgotten, Owed, Listed, Elements
  <2> QED BY <1>1, <2>1 DEF AsyncSound, NobodyForgotten
<1> QED BY <1>6, <1>7, <1>8 DEF AsyncSound, AsyncTyped

(* A step of the context, from what it makes of it. *)
LEMMA SoundAfter ==
    ASSUME net' \in Wire, Over(ac') \/ (Bounded(ac') /\ ac'.live = TRUE /\ Forgotten(ac') = {}),
           pc' = "loop" \/ (pc' = "process" /\ ac'.live = TRUE)
    PROVE  AsyncSound'
<1>1. Bounded(ac') /\ Forgotten(ac') = {} /\ (ac'.live = TRUE \/ Over(ac'))
  BY DEF Over
<1>2. AsyncTyped'
  BY <1>1 DEF AsyncTyped, Bounded
<1>3. NobodyForgotten'
  <2>1. Forgotten(ac)' = Forgotten(ac')
    BY DEF Forgotten, Owed, Listed, Elements
  <2>2. ~ac'.live => ac'.replies = <<>> /\ ac'.invalid = <<>>
    BY <1>1 DEF Over
  <2>3. pc' = "process" => ac'.live
    OBVIOUS
  <2> QED BY <1>1, <2>1, <2>2, <2>3 DEF NobodyForgotten
<1> QED BY <1>2, <1>3 DEF AsyncSound

LEMMA SoundFacts ==
    ASSUME AsyncSound
    PROVE  /\ Bounded(ac) /\ ac \in Context /\ net \in Wire /\ Forgotten(ac) = {}
           /\ pc = "process" => ac.live = TRUE
           /\ EventLoop => ac.live = TRUE
<1>1. Bounded(ac) /\ ac \in Context /\ net \in Wire /\ Forgotten(ac) = {} /\ ac.live \in BOOLEAN
  BY ContextFacts DEF AsyncSound, AsyncTyped, NobodyForgotten, Bounded
<1> QED BY <1>1 DEF AsyncSound, NobodyForgotten, EventLoop

(* The parts of a context that the lists do not know of. *)
LEMMA ErrKeeps ==
    ASSUME NEW a, Bounded(a)
    PROVE  LET b == [a EXCEPT !.err = TRUE]
           IN  Bounded(b) /\ b.err = TRUE /\ b.live = a.live /\ Forgotten(b) = Forgotten(a)
<1> DEFINE b == [a EXCEPT !.err = TRUE]
<1>1. b \in Context
  BY DEF Bounded, Context
<1>2. /\ b.live = a.live /\ b.err = TRUE /\ b.cmds = a.cmds /\ b.got = a.got
      /\ b.replies = a.replies /\ b.invalid = a.invalid
  BY DEF Bounded, Context
<1> HIDE DEF b
<1>3. Bounded(b) /\ Forgotten(b) = Forgotten(a)
  BY <1>1, <1>2 DEF Bounded, Forgotten, Owed, Listed
<1> QED BY <1>2, <1>3 DEF b

LEMMA InbufKeeps ==
    ASSUME NEW a, Bounded(a), NEW s \in Seq(Answers)
    PROVE  LET b == [a EXCEPT !.inbuf = s]
           IN  Bounded(b) /\ b.live = a.live /\ Forgotten(b) = Forgotten(a)
<1> DEFINE b == [a EXCEPT !.inbuf = s]
<1>1. b \in Context
  BY DEF Bounded, Context
<1>2. /\ b.live = a.live /\ b.cmds = a.cmds /\ b.got = a.got
      /\ b.replies = a.replies /\ b.invalid = a.invalid
  BY DEF Bounded, Context
<1> HIDE DEF b
<1>3. Bounded(b) /\ Forgotten(b) = Forgotten(a)
  BY <1>1, <1>2 DEF Bounded, Forgotten, Owed, Listed
<1> QED BY <1>2, <1>3 DEF b

LEMMA FlaggedKeeps ==
    ASSUME NEW a, Bounded(a), NEW f \in Flags
    PROVE  LET b == Flagged(a, f)
           IN  Bounded(b) /\ b.live = a.live /\ Forgotten(b) = Forgotten(a) /\ b.flags = a.flags \cup {f}
BY FlagKeeps DEF Bounded, Forgotten, Owed, Listed

LEMMA NoMoreRepliesKeeps ==
    ASSUME AsyncSound, NoMoreReplies
    PROVE  AsyncSound'
<1>1. Bounded(ac) /\ ac \in Context /\ net \in Wire /\ Forgotten(ac) = {} /\ ac.live = TRUE
  BY SoundFacts DEF NoMoreReplies
<1>2. pc' = "loop" /\ net' \in Wire
  BY <1>1 DEF NoMoreReplies
<1>3. CASE "DISCONNECTING" \in ac.flags /\ ac.obuf = <<>> /\ ac.replies = <<>>
  <2>1. ac' = __redisAsyncDisconnect(ac) /\ Going(ac)
    BY <1>1, <1>3 DEF NoMoreReplies, Going
  <2>2. Over(ac')
    BY <1>1, <2>1, DisconnectOver
  <2> QED BY <1>2, <2>2, SoundAfter
<1>4. CASE ~("DISCONNECTING" \in ac.flags /\ ac.obuf = <<>> /\ ac.replies = <<>>)
  <2>1. CASE "MONITORING" \notin ac.flags
    <3>1. ac' = [ac EXCEPT !.replies = @]
      BY <1>4, <2>1 DEF NoMoreReplies
    <3>2. ac' = ac
      BY <1>1, <3>1 DEF Context
    <3> QED BY <1>1, <1>2, <3>2, SoundAfter
  <2>2. CASE "MONITORING" \in ac.flags
    <3> DEFINE w == Append(ac.replies, ac.cb)
               b == [ac EXCEPT !.replies = w]
    <3>1. ac' = b
      BY <1>4, <2>2 DEF NoMoreReplies
    <3>2. w \in Seq(Nat) /\ Elements(w) = Elements(ac.replies) \cup {ac.cb}
      BY <1>1, ContextFacts, AppendLists
    <3> HIDE DEF w
    <3>3. b \in Context
      BY <1>1, <3>2 DEF Context
    <3>4. /\ b.live = ac.live /\ b.cmds = ac.cmds /\ b.got = ac.got
          /\ b.replies = w /\ b.invalid = ac.invalid
      BY <1>1 DEF Context
    <3> HIDE DEF b
    <3>5. Owed(b) = Owed(ac) /\ Listed(ac) \subseteq Listed(b)
      BY <3>2, <3>4 DEF Owed, Listed
    <3>6. Bounded(b) /\ b.live = TRUE /\ Forgotten(b) = {}
      BY <1>1, <3>3, <3>4, <3>5 DEF Bounded, Forgotten
    <3> QED BY <1>2, <3>1, <3>6, SoundAfter
  <2> QED BY <2>1, <2>2
<1> QED BY <1>3, <1>4

LEMMA ProcessReplyKeeps ==
    ASSUME AsyncSound, NEW does \in CallbackDoes, ProcessReply(does)
    PROVE  AsyncSound'
<1> DEFINE reply == Head(ac.inbuf)
           t == Tail(ac.inbuf)
           taken == [ac EXCEPT !.inbuf = t]
           found == IF ac.replies # <<>>
                    THEN [taken EXCEPT !.cb = Head(ac.replies), !.replies = Tail(@)]
                    ELSE IF "SUBSCRIBED" \in ac.flags THEN __redisGetSubscribeCallback(taken, reply)
                    ELSE taken
           run == __redisRunCallback(found, found.cb, What(found.cb, reply), does)
<1>1. Bounded(ac) /\ ac \in Context /\ net \in Wire /\ Forgotten(ac) = {} /\ ac.live = TRUE
  BY SoundFacts DEF ProcessReply
<1>2. reply \in Answers /\ t \in Seq(Answers)
  <2>1. ac.inbuf # <<>> /\ ac.inbuf \in Seq(Answers)
    BY <1>1, ContextFacts DEF ProcessReply
  <2> QED BY <2>1, SequenceParts
<1>3. /\ \/ /\ ac.replies = <<>> /\ reply.kind = "error"
            /\ ac' = __redisAsyncDisconnect([taken EXCEPT !.err = TRUE])
         \/ "FREEING" \in run.flags /\ ac' = __redisAsyncFree(run)
         \/ ac' = run
      /\ Process(ac') /\ UNCHANGED net
  BY DEF ProcessReply
<1> HIDE DEF reply, t
<1>4. Bounded(taken) /\ taken.live = TRUE /\ Forgotten(taken) = {} /\ taken.replies = ac.replies
  <2>1. taken.replies = ac.replies
    BY <1>1 DEF Context
  <2>2. Bounded(taken) /\ taken.live = ac.live /\ Forgotten(taken) = Forgotten(ac)
    BY <1>1, <1>2, InbufKeeps
  <2> QED BY <1>1, <2>1, <2>2
<1> HIDE DEF taken
<1>5. Bounded(found) /\ found.live = TRUE /\ Forgotten(found) \subseteq {found.cb} /\ found.cb \in Nat
  <2>1. Bounded(found) /\ found.live = TRUE /\ Forgotten(found) \subseteq {found.cb}
    <3>1. CASE ac.replies # <<>>
      <4>1. found = [taken EXCEPT !.cb = Head(taken.replies), !.replies = Tail(@)]
        BY <1>4, <3>1
      <4> HIDE DEF found
      <4>2. Bounded(found) /\ found.live = taken.live /\ Forgotten(found) \subseteq Forgotten(taken) \cup {found.cb}
        BY <1>4, <3>1, <4>1, HeadsTaken
      <4> QED BY <1>4, <4>2
    <3>2. CASE ac.replies = <<>> /\ "SUBSCRIBED" \in ac.flags
      <4>1. found = __redisGetSubscribeCallback(taken, reply)
        BY <3>2
      <4> HIDE DEF found
      <4>2. Bounded(found) /\ found.live = taken.live /\ Forgotten(found) \subseteq Forgotten(taken) \cup {found.cb}
        BY <1>2, <1>4, <4>1, SubscribeCallbackKeeps
      <4> QED BY <1>4, <4>2
    <3>3. CASE ac.replies = <<>> /\ "SUBSCRIBED" \notin ac.flags
      <4>1. found = taken
        BY <3>3
      <4> HIDE DEF found
      <4> QED BY <1>4, <4>1
    <3> QED BY <3>1, <3>2, <3>3
  <2> HIDE DEF found
  <2> QED BY <2>1, ContextFacts DEF Bounded
<1> HIDE DEF found
<1>6. Bounded(run) /\ run.live = TRUE /\ Forgotten(run) = {}
  <2>1. What(found.cb, reply) \in Outcomes
    BY <1>2 DEF What, Outcomes, Answers
  <2>2. Bounded(run) /\ Same(found, run) /\ Forgotten(run) \subseteq Forgotten(found) \ {found.cb}
    BY <1>5, <2>1, CallbackKeeps
  <2> HIDE DEF run
  <2> QED BY <1>5, <2>2 DEF Same
<1> HIDE DEF run
<1>7. Over(ac') \/ (Bounded(ac') /\ ac'.live = TRUE /\ Forgotten(ac') = {})
  <2>1. ASSUME ac' = __redisAsyncDisconnect([taken EXCEPT !.err = TRUE]) PROVE Over(ac')
    <3> DEFINE b == [taken EXCEPT !.err = TRUE]
    <3>1. Bounded(b) /\ b.err = TRUE /\ Forgotten(b) = {}
      BY <1>4, ErrKeeps
    <3> HIDE DEF b
    <3>2. ac' = __redisAsyncDisconnect(b)
      BY <2>1 DEF b
    <3> QED BY <3>1, <3>2, DisconnectOver
  <2>2. ASSUME "FREEING" \in run.flags, ac' = __redisAsyncFree(run) PROVE Over(ac')
    <3>1. Going(run)
      BY <1>6, <2>2 DEF Going
    <3> QED BY <1>6, <2>2, <3>1, FreeOwesNone DEF Over
  <2> QED BY <1>3, <1>6, <2>1, <2>2
<1>8. pc' = "loop" \/ (pc' = "process" /\ ac'.live = TRUE)
  <2>1. CASE Over(ac')
    BY <1>3, <2>1 DEF Process, Over
  <2>2. CASE ac'.live = TRUE
    BY <1>3, <2>2 DEF Process
  <2> QED BY <1>7, <2>1, <2>2
<1> QED BY <1>1, <1>3, <1>7, <1>8, SoundAfter

LEMMA LostConnectionKeeps ==
    ASSUME AsyncSound, ConnectFails \/ ConnectionLost
    PROVE  AsyncSound'
<1>1. Bounded(ac) /\ net \in Wire /\ Forgotten(ac) = {}
  BY SoundFacts
<1>2. net' \in Wire /\ pc' = "loop"
  BY <1>1 DEF ConnectFails, ConnectionLost, EventLoop
<1>3. ASSUME NEW a, Bounded(a), Forgotten(a) = {}, ac' = __redisAsyncDisconnect([a EXCEPT !.err = TRUE])
      PROVE  Over(ac')
  <2> DEFINE b == [a EXCEPT !.err = TRUE]
  <2>1. Bounded(b) /\ b.err = TRUE /\ Forgotten(b) = {}
    BY <1>3, ErrKeeps
  <2>2. ac' = __redisAsyncDisconnect(b)
    BY <1>3
  <2> HIDE DEF b
  <2> QED BY <2>1, <2>2, DisconnectOver
<1>4. CASE ConnectFails
  <2>1. ac' = __redisAsyncDisconnect([ac EXCEPT !.err = TRUE])
    BY <1>4 DEF ConnectFails
  <2> QED BY <1>1, <1>2, <1>3, <2>1, SoundAfter
<1>5. CASE ConnectionLost
  <2> DEFINE c == Flagged(ac, "CONNECTED")
  <2>1. Bounded(c) /\ Forgotten(c) = {}
    <3>1. "CONNECTED" \in Flags
      BY DEF Flags
    <3> QED BY <1>1, <3>1, FlaggedKeeps
  <2>2. c = Connected(ac)
    BY DEF Connected, Flagged
  <2> HIDE DEF c
  <2>3. ac' = __redisAsyncDisconnect([c EXCEPT !.err = TRUE])
    BY <1>5, <2>2 DEF ConnectionLost
  <2> QED BY <1>2, <1>3, <2>1, <2>3, SoundAfter
<1> QED BY <1>4, <1>5

LEMMA ConnectedKeeps ==
    ASSUME AsyncSound, EventLoop
    PROVE  /\ Bounded(Connected(ac)) /\ Connected(ac).live = TRUE /\ Forgotten(Connected(ac)) = {}
           /\ Connected(ac) \in Context /\ Connected(ac).obuf = ac.obuf
<1> DEFINE c == Flagged(ac, "CONNECTED")
<1>1. Bounded(ac) /\ ac \in Context /\ Forgotten(ac) = {} /\ ac.live = TRUE
  BY SoundFacts
<1>2. Bounded(c) /\ c.live = ac.live /\ Forgotten(c) = Forgotten(ac)
  <2>1. "CONNECTED" \in Flags
    BY DEF Flags
  <2> QED BY <1>1, <2>1, FlaggedKeeps
<1>3. c = Connected(ac)
  BY DEF Connected, Flagged
<1>4. Connected(ac).obuf = ac.obuf
  BY <1>1 DEF Context, Connected
<1> HIDE DEF c
<1> QED BY <1>1, <1>2, <1>3, <1>4 DEF Bounded

LEMMA WriteKeeps ==
    ASSUME AsyncSound, NEW n \in Nat, redisAsyncHandleWrite(n)
    PROVE  AsyncSound'
<1> DEFINE c == Connected(ac)
           o == SubSeq(ac.obuf, n + 1, Len(ac.obuf))
           b == [c EXCEPT !.obuf = o]
           i == SubSeq(ac.obuf, 1, n)
           s == IF net.closed THEN net.toServer ELSE net.toServer \o i
<1>1. ac \in Context /\ net \in Wire /\ pc' = "loop" /\ EventLoop /\ n <= Len(ac.obuf)
  BY SoundFacts DEF redisAsyncHandleWrite, EventLoop
<1>2. Bounded(c) /\ c.live = TRUE /\ Forgotten(c) = {} /\ c \in Context /\ c.obuf = ac.obuf
  BY <1>1, ConnectedKeeps
<1>3. ac.obuf \in Seq(Commands) /\ net.toServer \in Seq(Commands)
  BY <1>1, ContextFacts, WireFacts
<1>4. o \in Seq(Commands) /\ i \in Seq(Commands)
  BY <1>1, <1>3, SliceTyped
<1>5. net' = [net EXCEPT !.toServer = s]
  BY DEF redisAsyncHandleWrite
<1>6. ac' = b
  BY <1>2 DEF redisAsyncHandleWrite
<1> HIDE DEF c, o, i
<1>7. net' \in Wire
  <2>1. s \in Seq(Commands)
    BY <1>3, <1>4, SequenceParts
  <2> HIDE DEF s
  <2> QED BY <1>1, <1>5, <2>1 DEF Wire
<1>8. b \in Context
  BY <1>2, <1>4 DEF Context
<1>9. /\ b.live = c.live /\ b.cmds = c.cmds /\ b.got = c.got
      /\ b.replies = c.replies /\ b.invalid = c.invalid
  BY <1>2 DEF Context
<1> HIDE DEF b
<1>10. Bounded(b) /\ b.live = TRUE /\ Forgotten(b) = {}
  BY <1>2, <1>8, <1>9 DEF Bounded, Forgotten, Owed, Listed
<1> QED BY <1>1, <1>6, <1>7, <1>10, SoundAfter

LEMMA ReadKeeps ==
    ASSUME AsyncSound, NEW n \in Nat, redisAsyncHandleRead(n)
    PROVE  AsyncSound'
<1> DEFINE c == Connected(ac)
           i == SubSeq(net.toClient, 1, n)
           o == SubSeq(net.toClient, n + 1, Len(net.toClient))
           p == n = 0
           b == [c EXCEPT !.inbuf = i, !.cb = NULLfn]
<1>1. ac \in Context /\ net \in Wire /\ pc' = "process" /\ EventLoop /\ n <= Len(net.toClient)
  BY SoundFacts DEF redisAsyncHandleRead
<1>2. Bounded(c) /\ c.live = TRUE /\ Forgotten(c) = {} /\ c \in Context
  BY <1>1, ConnectedKeeps
<1>3. net.toClient \in Seq(Answers)
  BY <1>1, WireFacts
<1>4. o \in Seq(Answers) /\ i \in Seq(Answers)
  BY <1>1, <1>3, SliceTyped
<1>5. net' = [net EXCEPT !.toClient = o, !.part = p]
  BY DEF redisAsyncHandleRead
<1>6. ac' = b
  BY DEF redisAsyncHandleRead
<1>7. p \in BOOLEAN
  OBVIOUS
<1> HIDE DEF c, o, i, p
<1>8. net' \in Wire
  BY <1>1, <1>4, <1>5, <1>7 DEF Wire
<1>9. b \in Context
  BY <1>2, <1>4 DEF Context, NULLfn
<1>10. /\ b.live = c.live /\ b.cmds = c.cmds /\ b.got = c.got
       /\ b.replies = c.replies /\ b.invalid = c.invalid
  BY <1>2 DEF Context
<1> HIDE DEF b
<1>11. Bounded(b) /\ b.live = TRUE /\ Forgotten(b) = {}
  BY <1>2, <1>9, <1>10 DEF Bounded, Forgotten, Owed, Listed
<1> QED BY <1>1, <1>6, <1>8, <1>11, SoundAfter

LEMMA IssueKeeps ==
    ASSUME AsyncSound, NEW c \in Commands, Issue(c)
    PROVE  AsyncSound'
<1>1. Bounded(ac) /\ net \in Wire /\ Forgotten(ac) = {} /\ ac.live = TRUE
  BY SoundFacts DEF Issue
<1>2. net' \in Wire /\ pc' = "loop" /\ ac' = __redisAsyncCommand(ac, c)
  BY <1>1 DEF Issue, EventLoop
<1>3. Bounded(ac') /\ Same(ac, ac') /\ Forgotten(ac') \subseteq Forgotten(ac)
  BY <1>1, <1>2, CommandKeeps
<1>4. Bounded(ac') /\ ac'.live = TRUE /\ Forgotten(ac') = {}
  BY <1>1, <1>3 DEF Same
<1> QED BY <1>2, <1>4, SoundAfter

LEMMA NameListsTyped ==
    \A names \in NameLists : Cmd("subscribe", names) \in Commands
<1> SUFFICES ASSUME NEW names \in NameLists PROVE Cmd("subscribe", names) \in Commands
  OBVIOUS
<1>1. names \in Seq(Names)
  BY DEF NameLists
<1> QED BY <1>1 DEF Cmd, Commands, CommandKinds

LEMMA IssuesKeep ==
    ASSUME AsyncSound,
           \/ IssueGet
           \/ \E names \in NameLists : IssueSubscribe(names)
           \/ \E n \in Names : IssueUnsubscribe(n)
           \/ IssueMonitor
    PROVE  AsyncSound'
<1>1. CASE IssueGet
  <2>1. Get \in Commands
    BY DEF Get, Cmd, Commands, CommandKinds
  <2> QED BY <1>1, <2>1, IssueKeeps DEF IssueGet
<1>2. CASE \E names \in NameLists : IssueSubscribe(names)
  <2>1. PICK names \in NameLists : Issue(Cmd("subscribe", names))
    BY <1>2 DEF IssueSubscribe
  <2> QED BY <2>1, NameListsTyped, IssueKeeps
<1>3. CASE \E n \in Names : IssueUnsubscribe(n)
  <2>1. PICK n \in Names : Issue(Cmd("unsubscribe", <<n>>))
    BY <1>3 DEF IssueUnsubscribe
  <2>2. Cmd("unsubscribe", <<n>>) \in Commands
    <3>1. <<n>> \in Seq(Names)
      OBVIOUS
    <3> QED BY <3>1 DEF Cmd, Commands, CommandKinds
  <2> QED BY <2>1, <2>2, IssueKeeps
<1>4. CASE IssueMonitor
  <2>1. Cmd("monitor", <<>>) \in Commands
    <3>1. <<>> \in Seq(Names)
      OBVIOUS
    <3> QED BY <3>1 DEF Cmd, Commands, CommandKinds
  <2> QED BY <1>4, <2>1, IssueKeeps DEF IssueMonitor
<1> QED BY <1>1, <1>2, <1>3, <1>4

LEMMA GoingKeeps ==
    ASSUME AsyncSound, Disconnect \/ Free
    PROVE  AsyncSound'
<1>1. Bounded(ac) /\ net \in Wire /\ Forgotten(ac) = {} /\ ac.live = TRUE
  BY SoundFacts DEF Disconnect, Free
<1>2. net' \in Wire /\ pc' = "loop"
  BY <1>1 DEF Disconnect, Free, EventLoop
<1>3. CASE Free
  <2>1. Over(ac')
    BY <1>1, <1>3, FreeOver DEF Free
  <2> QED BY <1>2, <2>1, SoundAfter
<1>4. CASE Disconnect
  <2> DEFINE b == Flagged(ac, "DISCONNECTING")
  <2>1. ac' = IF b.replies = <<>> THEN __redisAsyncDisconnect(b) ELSE b
    BY <1>4 DEF Disconnect, redisAsyncDisconnect, Flagged
  <2>2. /\ Bounded(b) /\ b.live = TRUE /\ Forgotten(b) = {}
        /\ b.flags = ac.flags \cup {"DISCONNECTING"}
    <3>1. "DISCONNECTING" \in Flags
      BY DEF Flags
    <3> QED BY <1>1, <3>1, FlaggedKeeps
  <2> HIDE DEF b
  <2>3. Going(b)
    BY <2>2 DEF Going
  <2>4. Over(ac') \/ ac' = b
    BY <2>1, <2>2, <2>3, DisconnectOver
  <2> QED BY <1>2, <2>2, <2>4, SoundAfter
<1> QED BY <1>3, <1>4

LEMMA AsyncSoundInit ==
    ASSUME AsyncInit PROVE AsyncSound
<1>1. /\ ac.flags = {} /\ ac.err = FALSE /\ ac.live = TRUE /\ ac.replies = <<>> /\ ac.invalid = <<>>
      /\ ac.subs = <<>> /\ ac.obuf = <<>> /\ ac.inbuf = <<>> /\ ac.cb = 0 /\ ac.cmds = <<>>
      /\ ac.got = [id \in Ids |-> <<>>]
  BY DEF AsyncInit, redisAsyncInitialize, NULLfn
<1>2. /\ <<>> \in Seq(Nat) /\ <<>> \in Seq(Commands) /\ <<>> \in Seq(Answers)
      /\ <<>> \in Seq(CommandKinds) /\ <<>> \in Seq(Outcomes)
  OBVIOUS
<1>3. <<>> \in Subscriptions
  <2> DEFINE e == <<>>
  <2>1. e \in [{} -> Subscription]
    OBVIOUS
  <2> QED BY <2>1 DEF Subscriptions
<1>4. ac \in Context
  <2>1. ac = [flags |-> {}, err |-> FALSE, live |-> TRUE,
              replies |-> <<>>, invalid |-> <<>>, subs |-> <<>>,
              obuf |-> <<>>, inbuf |-> <<>>, cb |-> 0,
              cmds |-> <<>>, got |-> [id \in Ids |-> <<>>]]
    BY DEF AsyncInit, redisAsyncInitialize, NULLfn
  <2>2. [id \in Ids |-> <<>>] \in [Ids -> Seq(Outcomes)]
    BY <1>2
  <2> QED BY <1>2, <1>3, <2>1, <2>2 DEF Context
<1>5. net \in Wire
  BY <1>2 DEF AsyncInit, Wire
<1>6. Len(ac.cmds) = 0
  BY <1>1
<1>7. AsyncTyped
  BY <1>4, <1>5, <1>6, BoundIsNat DEF AsyncTyped, AsyncInit
<1>8. NobodyForgotten
  BY <1>1, <1>6 DEF NobodyForgotten, Forgotten, Owed
<1> QED BY <1>7, <1>8 DEF AsyncSound

LEMMA AsyncSoundStep ==
    ASSUME AsyncSound, [AsyncNext]_asyncVars PROVE AsyncSound'
<1>1. CASE NoMoreReplies
  BY <1>1, NoMoreRepliesKeeps
<1>2. CASE \E does \in CallbackDoes : ProcessReply(does)
  BY <1>2, ProcessReplyKeeps
<1>3. CASE ConnectFails \/ ConnectionLost
  BY <1>3, LostConnectionKeeps
<1>4. CASE \E n \in 0..MaxCommands : redisAsyncHandleWrite(n)
  <2>1. PICK n \in 0..MaxCommands : redisAsyncHandleWrite(n)
    BY <1>4
  <2>2. n \in Nat
    OBVIOUS
  <2> QED BY <2>1, <2>2, WriteKeeps
<1>5. CASE \E n \in 0..Len(net.toClient) : redisAsyncHandleRead(n)
  <2>1. PICK n \in 0..Len(net.toClient) : redisAsyncHandleRead(n)
    BY <1>5
  <2>2. n \in Nat
    OBVIOUS
  <2> QED BY <2>1, <2>2, ReadKeeps
<1>6. CASE \/ IssueGet
           \/ \E names \in NameLists : IssueSubscribe(names)
           \/ \E n \in Names : IssueUnsubscribe(n)
           \/ IssueMonitor
  BY <1>6, IssuesKeep
<1>7. CASE Disconnect \/ Free
  BY <1>7, GoingKeeps
<1>8. CASE \/ ServerAnswers
           \/ \E n \in Names : ServerPublishes(n)
           \/ \E says \in {<<>>, <<Reply("error", 0, "", 0)>>} : ServerCloses(says)
  BY <1>8, ServerKeeps
<1>9. CASE UNCHANGED asyncVars
  <2>1. ac' = ac /\ net' = net /\ pc' = pc
    BY <1>9 DEF asyncVars
  <2> QED BY <2>1 DEF AsyncSound, AsyncTyped, NobodyForgotten, Forgotten, Owed, Listed, Elements
<1> QED BY <1>1, <1>2, <1>3, <1>4, <1>5, <1>6, <1>7, <1>8, <1>9 DEF AsyncNext

(* No callback is forgotten (redis/async.c): an ordinary command whose     *)
(* callback has not run is in one of the two lists, and when the context   *)
(* is gone every callback has run, whoever freed it, in a callback or out  *)
(* of one, and whatever the callbacks that were run before it did.         *)
THEOREM AsyncKeepsCallbacks == AsyncSpec => []AsyncSound
<1>1. AsyncInit => AsyncSound
  BY AsyncSoundInit
<1>2. AsyncSound /\ [AsyncNext]_asyncVars => AsyncSound'
  BY AsyncSoundStep
<1> QED BY <1>1, <1>2, PTL DEF AsyncSpec

THEOREM AsyncNoneLeftOut == AsyncSpec => []NoneLeftOut
<1>1. AsyncSound => NoneLeftOut
  <2> SUFFICES ASSUME AsyncSound PROVE NoneLeftOut
    OBVIOUS
  <2> SUFFICES ASSUME ~ac.live, NEW id \in 1..Len(ac.cmds), ac.cmds[id] = "get"
               PROVE  ac.got[id] # <<>>
    BY DEF NoneLeftOut
  <2>1. Forgotten(ac) = {} /\ ac.replies = <<>> /\ ac.invalid = <<>>
    BY DEF AsyncSound, NobodyForgotten
  <2>2. Elements(<<>>) = {}
    BY DEF Elements
  <2>3. id \notin Owed(ac)
    BY <2>1, <2>2 DEF Forgotten, Listed
  <2> QED BY <2>3 DEF Owed
<1> QED BY <1>1, AsyncKeepsCallbacks, PTL
================================================================================
