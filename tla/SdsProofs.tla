-------------------------------- MODULE SdsProofs --------------------------------
(***************************************************************************)
(* Proofs about the strings of redis/sds.c.                                *)
(*                                                                         *)
(* Every operation is shown to make a sound string of a sound string: Good *)
(* says that the type's fields hold the length and the space, that the     *)
(* space is inside the memory, and that the bytes are those of the string, *)
(* ended.  While sdscatfmt puts its pieces together the terminator is      *)
(* missing: that is Open.  Room is where the width of the types matters.   *)
(***************************************************************************)
EXTENDS Sds, SequenceTheorems, WellFoundedInduction, TLAPS

(* A set of numbers has a least one. *)
LEMMA LeastIn ==
    ASSUME NEW T \in SUBSET Nat, T # {}
    PROVE  \E m \in T : \A k \in T : m <= k
<1> DEFINE R == OpToRel(<, Nat)
<1>1. IsWellFoundedOn(R, Nat)
  BY NatLessThanWellFounded
<1> HIDE DEF R
<1>2. PICK m \in T : \A k \in T : ~ (<<k, m>> \in R)
  BY <1>1, WFMin
<1>3. \A k, n \in Nat : <<k, n>> \in R <=> k < n
  BY DEF R, OpToRel
<1>4. \A k \in T : ~ (k < m)
  BY <1>2, <1>3
<1> QED BY <1>4

-------------------------------------------------------------------------------
(* What a sound string is *)

Bytes == Chars \cup {Nul, Garbage}
Letters == Chars \cup {Nul}
SdsType == [type : {"t5", "t8", "t16"}, len : Nat, alloc : Nat, buf : Seq(Bytes), over : BOOLEAN]

(* A string of n bytes and its NUL are inside the memory and the header.   *)
Fits(x, n) ==
    /\ x \in SdsType /\ x.over = FALSE /\ n \in Nat /\ n < Len(x.buf) /\ n < Widths[x.type]
    /\ x.type # "t5" => n <= x.alloc /\ x.alloc < Len(x.buf) /\ x.alloc < Widths[x.type]
Begins(x, t) == \A i \in 1..Len(t) : x.buf[i] = t[i]
Good(x, t) ==
    /\ t \in Seq(Letters) /\ x.len = Len(t) /\ Fits(x, Len(t)) /\ Begins(x, t)
    /\ x.buf[Len(t) + 1] = Nul
Inv == Good(s, str) /\ Len(str) <= MaxLen

LEMMA WidthOf ==
    ASSUME SdsAssumption, NEW x \in SdsType
    PROVE  Widths[x.type] \in Nat \ {0}
BY DEF SdsAssumption, SdsType

LEMMA SetLen ==
    ASSUME SdsAssumption, NEW x \in SdsType, NEW n \in Nat, n < Widths[x.type]
    PROVE  /\ sdssetlen(x, n) \in SdsType /\ sdssetlen(x, n).len = n
           /\ sdssetlen(x, n).type = x.type /\ sdssetlen(x, n).alloc = x.alloc
           /\ sdssetlen(x, n).buf = x.buf /\ sdssetlen(x, n).over = x.over
<1>1. n % Widths[x.type] = n
  BY WidthOf
<1> QED BY <1>1 DEF sdssetlen, SdsType

LEMMA SetAlloc ==
    ASSUME SdsAssumption, NEW x \in SdsType, NEW n \in Nat, n < Widths[x.type]
    PROVE  /\ sdssetalloc(x, n) \in SdsType
           /\ sdssetalloc(x, n).alloc = IF x.type = "t5" THEN x.alloc ELSE n
           /\ sdssetalloc(x, n).type = x.type /\ sdssetalloc(x, n).len = x.len
           /\ sdssetalloc(x, n).buf = x.buf /\ sdssetalloc(x, n).over = x.over
<1>1. n % Widths[x.type] = n
  BY WidthOf
<1> QED BY <1>1 DEF sdssetalloc, SdsType

LEMMA OtherBuf ==
    ASSUME NEW x \in SdsType, NEW b \in Seq(Bytes), NEW y, y = [x EXCEPT !.buf = b]
    PROVE  /\ y \in SdsType /\ y.buf = b /\ y.type = x.type /\ y.len = x.len
           /\ y.alloc = x.alloc /\ y.over = x.over
BY DEF SdsType

(* A store that is inside the memory. *)
LEMMA Stores ==
    ASSUME NEW x \in SdsType, NEW at \in Nat, NEW t \in Seq(Bytes), at + Len(t) <= Len(x.buf)
    PROVE  /\ Write(x, at, t) \in SdsType /\ Write(x, at, t).type = x.type
           /\ Write(x, at, t).len = x.len /\ Write(x, at, t).alloc = x.alloc
           /\ Write(x, at, t).over = x.over /\ Len(Write(x, at, t).buf) = Len(x.buf)
           /\ \A i \in 1..Len(x.buf) :
                 Write(x, at, t).buf[i] = IF at < i /\ i <= at + Len(t) THEN t[i - at] ELSE x.buf[i]
<1> DEFINE b == x.buf
           l == SubSeq(b, 1, at)
           r == SubSeq(b, at + Len(t) + 1, Len(b))
           lt == l \o t
           c == lt \o r
           y == Write(x, at, t)
<1>1. b \in Seq(Bytes) /\ Len(b) \in Nat /\ Len(t) \in Nat /\ \A i \in 1..Len(b) : b[i] \in Bytes
  BY DEF SdsType
<1>2. y = [x EXCEPT !.buf = c]
  <2>1. ~(at + Len(t) > Len(x.buf))
    BY <1>1
  <2> QED BY <2>1 DEF Write
<1> HIDE DEF b
<1>3. /\ l \in Seq(Bytes) /\ Len(l) = at /\ \A i \in 1..at : l[i] = b[i]
  <2>1. \A i \in 1..at : b[i] \in Bytes
    BY <1>1 DEF b
  <2>2. /\ l \in Seq(Bytes) /\ Len(l) = IF 1 <= at THEN at - 1 + 1 ELSE 0
        /\ \A i \in 1..(at - 1 + 1) : l[i] = b[1 + i - 1]
    BY <2>1, SubSeqProperties
  <2> HIDE DEF l
  <2> QED BY <2>2
<1>4. /\ r \in Seq(Bytes) /\ Len(r) = Len(b) - (at + Len(t))
      /\ \A i \in 1..(Len(b) - (at + Len(t))) : r[i] = b[at + Len(t) + i]
  <2> DEFINE f == at + Len(t) + 1
  <2>1. f \in Nat /\ f >= 1 /\ f <= Len(b) + 1 /\ f - 1 = at + Len(t)
    BY <1>1 DEF b
  <2>2. r = SubSeq(b, f, Len(b))
    OBVIOUS
  <2> HIDE DEF f, r
  <2>3. \A i \in f..Len(b) : b[i] \in Bytes
    BY <1>1, <2>1
  <2>4. /\ r \in Seq(Bytes) /\ Len(r) = IF f <= Len(b) THEN Len(b) - f + 1 ELSE 0
        /\ \A i \in 1..(Len(b) - f + 1) : r[i] = b[f + i - 1]
    BY <1>1, <2>1, <2>2, <2>3, SubSeqProperties
  <2>5. Len(r) = Len(b) - (f - 1) /\ \A i \in 1..(Len(b) - (f - 1)) : r[i] = b[(f - 1) + i]
    BY <1>1, <2>1, <2>4
  <2> QED BY <2>1, <2>4, <2>5
<1> HIDE DEF l, r
<1>5. /\ lt \in Seq(Bytes) /\ Len(lt) = at + Len(t)
      /\ \A i \in 1..(at + Len(t)) : lt[i] = IF i <= at THEN l[i] ELSE t[i - at]
  BY <1>3, ConcatProperties
<1> HIDE DEF lt
<1>6. /\ c \in Seq(Bytes) /\ Len(c) = Len(b)
      /\ \A i \in 1..Len(b) : c[i] = IF i <= at + Len(t) THEN lt[i] ELSE r[i - (at + Len(t))]
  <2>1. /\ c \in Seq(Bytes) /\ Len(c) = Len(lt) + Len(r)
        /\ \A i \in 1..(Len(lt) + Len(r)) : c[i] = IF i <= Len(lt) THEN lt[i] ELSE r[i - Len(lt)]
    <3>1. lt \in Seq(Bytes) /\ r \in Seq(Bytes)
      BY <1>4, <1>5
    <3> QED BY <3>1, ConcatProperties
  <2> HIDE DEF c
  <2>2. Len(lt) + Len(r) = Len(b)
    BY <1>1, <1>4, <1>5
  <2> QED BY <1>5, <2>1, <2>2
<1> HIDE DEF c
<1>7. \A i \in 1..Len(b) : c[i] = IF at < i /\ i <= at + Len(t) THEN t[i - at] ELSE b[i]
  <2> SUFFICES ASSUME NEW i \in 1..Len(b)
               PROVE  c[i] = IF at < i /\ i <= at + Len(t) THEN t[i - at] ELSE b[i]
    OBVIOUS
  <2>1. CASE i <= at
    BY <1>1, <1>3, <1>5, <1>6, <2>1
  <2>2. CASE at < i /\ i <= at + Len(t)
    BY <1>1, <1>5, <1>6, <2>2
  <2>3. CASE i > at + Len(t)
    <3>1. i - (at + Len(t)) \in 1..(Len(b) - (at + Len(t))) /\ at + Len(t) + (i - (at + Len(t))) = i
      BY <1>1, <2>3
    <3> QED BY <1>1, <1>4, <1>6, <2>3, <3>1
  <2> QED BY <1>1, <2>1, <2>2, <2>3
<1> HIDE DEF y
<1>8. /\ y \in SdsType /\ y.buf = c /\ y.type = x.type /\ y.len = x.len
      /\ y.alloc = x.alloc /\ y.over = x.over
  BY <1>2, <1>6, OtherBuf
<1> QED BY <1>6, <1>7, <1>8 DEF y, b

(* A string that is there, ended: in either order of the two stores.       *)
LEMMA ZeroAt ==
    ASSUME NEW x \in SdsType, NEW n \in Nat, n < Len(x.buf)
    PROVE  /\ Zero(x, n) \in SdsType /\ Zero(x, n).type = x.type
           /\ Zero(x, n).len = x.len /\ Zero(x, n).alloc = x.alloc
           /\ Zero(x, n).over = x.over /\ Len(Zero(x, n).buf) = Len(x.buf)
           /\ Zero(x, n).buf[n + 1] = Nul
           /\ \A i \in 1..Len(x.buf) : i # n + 1 => Zero(x, n).buf[i] = x.buf[i]
<1> DEFINE t == <<Nul>>
           y == Write(x, n, t)
<1>1. t \in Seq(Bytes) /\ Len(t) = 1 /\ t[1] = Nul
  BY DEF Bytes
<1>2. Len(x.buf) \in Nat
  BY DEF SdsType
<1> HIDE DEF t
<1>3. n + Len(t) <= Len(x.buf)
  BY <1>1, <1>2
<1>4. /\ y \in SdsType /\ y.type = x.type /\ y.len = x.len /\ y.alloc = x.alloc
      /\ y.over = x.over /\ Len(y.buf) = Len(x.buf)
      /\ \A i \in 1..Len(x.buf) :
            y.buf[i] = IF n < i /\ i <= n + Len(t) THEN t[i - n] ELSE x.buf[i]
  BY <1>1, <1>3, Stores
<1> HIDE DEF y
<1>5. n + 1 \in 1..Len(x.buf) /\ (n + 1) - n = 1 /\ n < n + 1 /\ n + 1 <= n + Len(t)
  BY <1>1, <1>2
<1>6. y.buf[n + 1] = Nul
  BY <1>1, <1>4, <1>5
<1>7. \A i \in 1..Len(x.buf) : i # n + 1 => y.buf[i] = x.buf[i]
  BY <1>1, <1>2, <1>4
<1> QED BY <1>4, <1>6, <1>7 DEF Zero, y, t

LEMMA Ended ==
    ASSUME SdsAssumption, NEW x, NEW t \in Seq(Letters), Fits(x, Len(t)), Begins(x, t)
    PROVE  /\ Good(Zero(sdssetlen(x, Len(t)), Len(t)), t)
           /\ Good(sdssetlen(Zero(x, Len(t)), Len(t)), t)
<1> DEFINE n == Len(t)
<1>1. /\ x \in SdsType /\ x.over = FALSE /\ n \in Nat /\ n < Len(x.buf) /\ n < Widths[x.type]
      /\ Len(x.buf) \in Nat
      /\ x.type # "t5" => n <= x.alloc /\ x.alloc < Len(x.buf) /\ x.alloc < Widths[x.type]
  BY DEF Fits, SdsType
<1>2. \A i \in 1..n : i \in 1..Len(x.buf) /\ i # n + 1
  BY <1>1
<1>3. \A i \in 1..n : x.buf[i] = t[i]
  BY DEF Begins
<1> DEFINE y == sdssetlen(x, n)
           z == Zero(y, n)
<1>4. /\ y \in SdsType /\ y.len = n /\ y.type = x.type /\ y.alloc = x.alloc
      /\ y.buf = x.buf /\ y.over = x.over
  BY <1>1, SetLen
<1> HIDE DEF y
<1>5. /\ z \in SdsType /\ z.type = y.type /\ z.len = y.len /\ z.alloc = y.alloc
      /\ z.over = y.over /\ Len(z.buf) = Len(y.buf) /\ z.buf[n + 1] = Nul
      /\ \A i \in 1..Len(y.buf) : i # n + 1 => z.buf[i] = y.buf[i]
  BY <1>1, <1>4, ZeroAt
<1> HIDE DEF z
<1>6. Good(z, t)
  <2>1. Fits(z, n)
    BY <1>1, <1>4, <1>5 DEF Fits
  <2>2. Begins(z, t)
    BY <1>2, <1>3, <1>4, <1>5 DEF Begins
  <2> QED BY <1>4, <1>5, <2>1, <2>2 DEF Good
<1> DEFINE u == Zero(x, n)
           v == sdssetlen(u, n)
<1>7. /\ u \in SdsType /\ u.type = x.type /\ u.len = x.len /\ u.alloc = x.alloc
      /\ u.over = x.over /\ Len(u.buf) = Len(x.buf) /\ u.buf[n + 1] = Nul
      /\ \A i \in 1..Len(x.buf) : i # n + 1 => u.buf[i] = x.buf[i]
  BY <1>1, ZeroAt
<1> HIDE DEF u
<1>8. /\ v \in SdsType /\ v.len = n /\ v.type = u.type /\ v.alloc = u.alloc
      /\ v.buf = u.buf /\ v.over = u.over
  BY <1>1, <1>7, SetLen
<1> HIDE DEF v
<1>9. Good(v, t)
  <2>1. Fits(v, n)
    BY <1>1, <1>7, <1>8 DEF Fits
  <2>2. Begins(v, t)
    BY <1>2, <1>3, <1>7, <1>8 DEF Begins
  <2> QED BY <1>7, <1>8, <2>1, <2>2 DEF Good
<1> QED BY <1>6, <1>9 DEF y, z, u, v

LEMMA Filled ==
    ASSUME NEW k \in Int, NEW c \in Bytes
    PROVE  /\ [i \in 1..k |-> c] \in Seq(Bytes)
           /\ Len([i \in 1..k |-> c]) = IF k >= 0 THEN k ELSE 0
<1>1. CASE k >= 0
  <2>1. k \in Nat
    BY <1>1
  <2> QED BY <2>1
<1>2. CASE ~(k >= 0)
  <2>1. 1..k = 1..0
    BY <1>2
  <2>2. [i \in 1..0 |-> c] \in Seq(Bytes) /\ Len([i \in 1..0 |-> c]) = 0
    OBVIOUS
  <2> QED BY <1>2, <2>1, <2>2
<1> QED BY <1>1, <1>2

(* What malloc and realloc give. *)
LEMMA MemoryIs ==
    ASSUME NEW n \in Nat, NEW b \in Seq(Bytes)
    PROVE  /\ Memory(n, b) \in Seq(Bytes) /\ Len(Memory(n, b)) > n
           /\ Len(Memory(n, b)) >= Len(b)
           /\ \A i \in 1..Len(b) : Memory(n, b)[i] = b[i]
<1> DEFINE k == n + 1 - Len(b)
           g == [i \in 1..k |-> Garbage]
<1>1. k \in Int /\ Len(b) \in Nat
  OBVIOUS
<1>2. g \in Seq(Bytes) /\ Len(g) = IF k >= 0 THEN k ELSE 0
  <2>1. Garbage \in Bytes
    BY DEF Bytes
  <2> HIDE DEF k
  <2> QED BY <1>1, <2>1, Filled
<1> HIDE DEF g
<1> DEFINE m == b \o g
<1>3. /\ m \in Seq(Bytes) /\ Len(m) = Len(b) + Len(g)
      /\ \A i \in 1..(Len(b) + Len(g)) : m[i] = IF i <= Len(b) THEN b[i] ELSE g[i - Len(b)]
  BY <1>2, ConcatProperties
<1>4. Memory(n, b) = m
  BY DEF Memory, g
<1> HIDE DEF m
<1>5. Len(m) > n /\ Len(m) >= Len(b)
  BY <1>1, <1>2, <1>3
<1>6. \A i \in 1..Len(b) : m[i] = b[i]
  BY <1>1, <1>2, <1>3
<1> QED BY <1>3, <1>4, <1>5, <1>6

LEMMA KeepIs ==
    ASSUME NEW x \in SdsType, NEW n \in Nat, n <= Len(x.buf)
    PROVE  /\ Keep(x, n) \in Seq(Bytes) /\ Len(Keep(x, n)) = n
           /\ \A i \in 1..n : Keep(x, n)[i] = x.buf[i]
<1> DEFINE b == x.buf
           k == SubSeq(b, 1, n)
<1>1. b \in Seq(Bytes) /\ Len(b) \in Nat
  BY DEF SdsType
<1> HIDE DEF b
<1>2. \A i \in 1..n : b[i] \in Bytes
  BY <1>1 DEF b
<1>3. /\ k \in Seq(Bytes) /\ Len(k) = IF 1 <= n THEN n - 1 + 1 ELSE 0
      /\ \A i \in 1..(n - 1 + 1) : k[i] = b[1 + i - 1]
  BY <1>2, SubSeqProperties
<1> HIDE DEF k
<1>4. Len(k) = n /\ \A i \in 1..n : k[i] = b[i]
  BY <1>3
<1> QED BY <1>3, <1>4 DEF Keep, k, b

LEMMA ReqType ==
    ASSUME SdsAssumption, NEW n \in Nat, n < Widths.t16
    PROVE  sdsReqType(n) \in {"t5", "t8", "t16"} /\ n < Widths[sdsReqType(n)]
<1>1. Widths.t5 \in Nat /\ Widths.t8 \in Nat /\ Widths.t16 \in Nat
  BY DEF SdsAssumption
<1> QED BY <1>1 DEF sdsReqType

LEMMA GoodFacts ==
    ASSUME NEW x, NEW t, Good(x, t)
    PROVE  /\ x \in SdsType /\ t \in Seq(Letters) /\ Len(t) \in Nat /\ x.len = Len(t)
           /\ x.over = FALSE /\ Len(x.buf) \in Nat /\ Len(t) < Len(x.buf)
           /\ Len(t) < Widths[x.type] /\ x.alloc \in Nat
           /\ x.type # "t5" => Len(t) <= x.alloc /\ x.alloc < Len(x.buf) /\ x.alloc < Widths[x.type]
           /\ \A i \in 1..Len(t) : x.buf[i] = t[i]
           /\ x.buf[Len(t) + 1] = Nul /\ x.type \in {"t5", "t8", "t16"} /\ x.buf \in Seq(Bytes)
BY DEF Good, Fits, Begins, SdsType

(* A format: like the string, but the terminator is to come. *)
Open(x, t) == t \in Seq(Letters) /\ x.len = Len(t) /\ Fits(x, Len(t)) /\ Begins(x, t)

LEMMA OpenFacts ==
    ASSUME NEW x, NEW t, Open(x, t)
    PROVE  /\ x \in SdsType /\ t \in Seq(Letters) /\ Len(t) \in Nat /\ x.len = Len(t)
           /\ x.over = FALSE /\ Len(x.buf) \in Nat /\ Len(t) < Len(x.buf)
           /\ Len(t) < Widths[x.type] /\ x.alloc \in Nat
           /\ x.type # "t5" => Len(t) <= x.alloc /\ x.alloc < Len(x.buf) /\ x.alloc < Widths[x.type]
           /\ \A i \in 1..Len(t) : x.buf[i] = t[i]
           /\ x.type \in {"t5", "t8", "t16"} /\ x.buf \in Seq(Bytes)
BY DEF Open, Fits, Begins, SdsType

LEMMA GoodIsOpen ==
    ASSUME NEW x, NEW t
    PROVE  Good(x, t) <=> Open(x, t) /\ x.buf[Len(t) + 1] = Nul
BY DEF Good, Open

(* The room that is asked for is there, the string is what it was. *)
LEMMA RoomOpen ==
    ASSUME SdsAssumption, NEW x, NEW t, Open(x, t), NEW add \in Nat, Len(t) + add <= 2 * MaxLen
    PROVE  /\ Open(sdsMakeRoomFor(x, add), t)
           /\ sdsMakeRoomFor(x, add).buf[Len(t) + 1] = x.buf[Len(t) + 1]
           /\ sdsavail(sdsMakeRoomFor(x, add)) >= add
<1> DEFINE n == Len(t)
           want == x.len + add
           newlen == IF want < SDS_MAX_PREALLOC THEN want * 2 ELSE want + SDS_MAX_PREALLOC
           type == IF sdsReqType(newlen) = "t5" THEN "t8" ELSE sdsReqType(newlen)
           moved == [x EXCEPT !.type = type, !.buf = Memory(newlen, Keep(x, x.len + 1))]
           grown == [x EXCEPT !.buf = Memory(newlen, @)]
           y == sdsMakeRoomFor(x, add)
<1>1. /\ x \in SdsType /\ t \in Seq(Letters) /\ n \in Nat /\ x.len = n
      /\ x.over = FALSE /\ Len(x.buf) \in Nat /\ n < Len(x.buf)
      /\ n < Widths[x.type] /\ x.alloc \in Nat
      /\ x.type # "t5" => n <= x.alloc /\ x.alloc < Len(x.buf) /\ x.alloc < Widths[x.type]
      /\ \A i \in 1..n : x.buf[i] = t[i]
      /\ x.type \in {"t5", "t8", "t16"} /\ x.buf \in Seq(Bytes)
  BY OpenFacts
<1>2. CASE sdsavail(x) >= add
  BY <1>2 DEF sdsMakeRoomFor
<1>3. CASE ~(sdsavail(x) >= add)
  <2>0. /\ y = IF x.type = type THEN sdssetalloc(grown, newlen)
               ELSE sdssetalloc(sdssetlen(moved, x.len), newlen)
    BY <1>3 DEF sdsMakeRoomFor
  <2> HIDE DEF y
  <2>1. newlen \in Nat /\ newlen >= n + add /\ newlen < Widths.t16
    BY <1>1 DEF SdsAssumption
  <2> HIDE DEF newlen
  <2>2. type \in {"t8", "t16"} /\ newlen < Widths[type]
    <3>1. sdsReqType(newlen) \in {"t5", "t8", "t16"} /\ newlen < Widths[sdsReqType(newlen)]
      BY <2>1, ReqType
    <3>2. Widths.t5 \in Nat /\ Widths.t8 \in Nat /\ Widths.t5 <= Widths.t8
      BY DEF SdsAssumption
    <3> QED BY <2>1, <3>1, <3>2
  <2> HIDE DEF type
  <2>3. /\ y \in SdsType /\ y.type = type /\ y.len = n /\ y.alloc = newlen /\ y.over = FALSE
        /\ newlen < Len(y.buf) /\ n + 1 <= Len(y.buf) /\ Len(y.buf) \in Nat
        /\ \A i \in 1..(n + 1) : y.buf[i] = x.buf[i]
    <3>1. CASE x.type = type
      <4> DEFINE b == Memory(newlen, x.buf)
      <4>1. /\ b \in Seq(Bytes) /\ Len(b) > newlen /\ Len(b) >= Len(x.buf)
            /\ \A i \in 1..Len(x.buf) : b[i] = x.buf[i]
        BY <1>1, <2>1, MemoryIs
      <4>2. grown = [x EXCEPT !.buf = b]
        OBVIOUS
      <4> HIDE DEF b, grown
      <4>3. /\ grown \in SdsType /\ grown.buf = b /\ grown.type = x.type /\ grown.len = x.len
            /\ grown.over = x.over
        BY <1>1, <4>1, <4>2, OtherBuf
      <4>4. y = sdssetalloc(grown, newlen)
        BY <2>0, <3>1
      <4>5. /\ y \in SdsType /\ y.alloc = newlen /\ y.type = grown.type /\ y.len = grown.len
            /\ y.buf = grown.buf /\ y.over = grown.over
        BY <2>1, <2>2, <3>1, <4>3, <4>4, SetAlloc
      <4>6. Len(b) \in Nat /\ \A i \in 1..(n + 1) : i \in 1..Len(x.buf)
        BY <1>1, <4>1
      <4> QED BY <1>1, <2>1, <3>1, <4>1, <4>3, <4>5, <4>6
    <3>2. CASE x.type # type
      <4> DEFINE k == Keep(x, n + 1)
                 b == Memory(newlen, k)
      <4>1. k \in Seq(Bytes) /\ Len(k) = n + 1 /\ \A i \in 1..(n + 1) : k[i] = x.buf[i]
        <5>1. n + 1 \in Nat /\ n + 1 <= Len(x.buf) /\ x \in SdsType
          BY <1>1
        <5> HIDE DEF n
        <5> QED BY <5>1, KeepIs
      <4> HIDE DEF k
      <4>2. /\ b \in Seq(Bytes) /\ Len(b) > newlen /\ Len(b) >= Len(k)
            /\ \A i \in 1..Len(k) : b[i] = k[i]
        BY <2>1, <4>1, MemoryIs
      <4>3. moved = [x EXCEPT !.type = type, !.buf = b]
        BY <1>1 DEF k
      <4> HIDE DEF b, moved
      <4>4. /\ moved \in SdsType /\ moved.buf = b /\ moved.type = type /\ moved.len = x.len
            /\ moved.over = x.over
        BY <1>1, <2>2, <4>2, <4>3 DEF SdsType
      <4> DEFINE u == sdssetlen(moved, n)
      <4>5. n < Widths[moved.type]
        BY <1>1, <2>1, <2>2, <4>4 DEF SdsAssumption
      <4>6. /\ u \in SdsType /\ u.len = n /\ u.type = moved.type
            /\ u.buf = moved.buf /\ u.over = moved.over
        BY <1>1, <4>4, <4>5, SetLen
      <4>7. y = sdssetalloc(u, newlen)
        BY <1>1, <2>0, <3>2
      <4> HIDE DEF u
      <4>8. /\ y \in SdsType /\ y.alloc = newlen /\ y.type = u.type /\ y.len = u.len
            /\ y.buf = u.buf /\ y.over = u.over
        BY <2>1, <2>2, <4>4, <4>6, <4>7, SetAlloc
      <4>9. Len(b) \in Nat
        BY <4>2
      <4> QED BY <1>1, <2>1, <4>1, <4>2, <4>4, <4>6, <4>8, <4>9
    <3> QED BY <3>1, <3>2
  <2>4. Fits(y, n)
    BY <1>1, <2>1, <2>2, <2>3, SMTT(30) DEF Fits, SdsAssumption
  <2>5. Open(y, t) /\ y.buf[n + 1] = x.buf[n + 1]
    <3> HIDE DEF n
    <3>1. n + 1 \in 1..(n + 1) /\ \A i \in 1..n : i \in 1..(n + 1)
      BY <1>1
    <3>2. Begins(y, t)
      BY <1>1, <2>3, <3>1 DEF Begins, n
    <3> QED BY <1>1, <2>3, <2>4, <3>1, <3>2 DEF Open, n
  <2>6. sdsavail(y) >= add
    BY <1>1, <2>1, <2>2, <2>3 DEF sdsavail
  <2> QED BY <2>5, <2>6 DEF y, n
<1> HIDE DEF want, newlen, type, moved, grown, y
<1> QED BY <1>2, <1>3

LEMMA Room ==
    ASSUME SdsAssumption, NEW x, NEW t, Good(x, t), NEW add \in Nat, Len(t) + add <= 2 * MaxLen
    PROVE  /\ Good(sdsMakeRoomFor(x, add), t)
           /\ sdsavail(sdsMakeRoomFor(x, add)) >= add
BY RoomOpen, GoodIsOpen

-------------------------------------------------------------------------------
(* The operations *)

LEMMA Joined ==
    ASSUME NEW S, NEW t \in Seq(S), NEW u \in Seq(S)
    PROVE  /\ t \o u \in Seq(S) /\ Len(t \o u) = Len(t) + Len(u)
           /\ \A i \in 1..Len(t) : (t \o u)[i] = t[i]
           /\ \A i \in 1..Len(u) : (t \o u)[Len(t) + i] = u[i]
<1> DEFINE w == t \o u
<1>1. /\ w \in Seq(S) /\ Len(w) = Len(t) + Len(u)
      /\ \A i \in 1..(Len(t) + Len(u)) : w[i] = IF i <= Len(t) THEN t[i] ELSE u[i - Len(t)]
  BY ConcatProperties
<1>2. Len(t) \in Nat /\ Len(u) \in Nat
  OBVIOUS
<1> HIDE DEF w
<1>3. \A i \in 1..Len(t) : w[i] = t[i]
  BY <1>1, <1>2
<1>4. ASSUME NEW i \in 1..Len(u) PROVE w[Len(t) + i] = u[i]
  <2>1. Len(t) + i \in 1..(Len(t) + Len(u)) /\ ~(Len(t) + i <= Len(t)) /\ (Len(t) + i) - Len(t) = i
    BY <1>2
  <2> QED BY <1>1, <2>1
<1> QED BY <1>1, <1>3, <1>4 DEF w

LEMMA LettersAreBytes ==
    ASSUME NEW u \in Seq(Letters)
    PROVE  u \in Seq(Bytes)
BY DEF Letters, Bytes

(* A text that there is room for, stored behind the string. *)
LEMMA Behind ==
    ASSUME SdsAssumption, NEW x, NEW t, Open(x, t), NEW u \in Seq(Letters), sdsavail(x) >= Len(u),
           NEW w, w = t \o u, NEW y, y = Write(x, x.len, u)
    PROVE  /\ w \in Seq(Letters) /\ Len(w) = Len(t) + Len(u) /\ Len(w) \in Nat
           /\ Fits(y, Len(w)) /\ Begins(y, w)
           /\ y.len = x.len /\ y.type = x.type /\ y.alloc = x.alloc
<1> DEFINE n == Len(t)
           b == x.buf
<1>1. /\ x \in SdsType /\ t \in Seq(Letters) /\ n \in Nat /\ x.len = n
      /\ x.over = FALSE /\ Len(b) \in Nat /\ n < Len(b)
      /\ n < Widths[x.type] /\ x.alloc \in Nat
      /\ x.type # "t5" => n <= x.alloc /\ x.alloc < Len(b) /\ x.alloc < Widths[x.type]
      /\ \A i \in 1..n : b[i] = t[i]
  BY OpenFacts
<1>2. u \in Seq(Bytes) /\ Len(u) \in Nat
  BY LettersAreBytes
<1>3. /\ w \in Seq(Letters) /\ Len(w) = n + Len(u)
      /\ \A i \in 1..n : w[i] = t[i]
      /\ \A i \in 1..Len(u) : w[n + i] = u[i]
  BY <1>1, Joined
<1> HIDE DEF n, b
<1>4. n + Len(u) < Len(b) /\ n + Len(u) < Widths[x.type] /\ (x.type # "t5" => n + Len(u) <= x.alloc)
  <2>1. CASE x.type = "t5"
    <3>1. Len(u) = 0
      BY <1>2, <2>1 DEF sdsavail
    <3> QED BY <1>1, <2>1, <3>1
  <2>2. CASE x.type # "t5"
    <3>1. x.alloc - n >= Len(u)
      BY <1>1, <2>2 DEF sdsavail
    <3> QED BY <1>1, <1>2, <2>2, <3>1, WidthOf
  <2> QED BY <2>1, <2>2
<1>5. x.len + Len(u) <= Len(x.buf) /\ x.len \in Nat
  BY <1>1, <1>2, <1>4 DEF b
<1>6. /\ y \in SdsType /\ y.type = x.type /\ y.len = x.len /\ y.alloc = x.alloc
      /\ y.over = x.over /\ Len(y.buf) = Len(b)
      /\ \A i \in 1..Len(b) : y.buf[i] = IF n < i /\ i <= n + Len(u) THEN u[i - n] ELSE b[i]
  BY <1>1, <1>2, <1>5, Stores DEF b
<1>7. ASSUME NEW i \in 1..Len(w) PROVE y.buf[i] = w[i]
  <2>1. i \in 1..Len(b)
    BY <1>1, <1>2, <1>3, <1>4
  <2>2. CASE i <= n
    BY <1>1, <1>3, <1>6, <2>1, <2>2
  <2>3. CASE i > n
    <3>1. i - n \in 1..Len(u) /\ n + (i - n) = i /\ i <= n + Len(u)
      BY <1>1, <1>2, <1>3, <2>3
    <3> QED BY <1>3, <1>6, <2>1, <2>3, <3>1
  <2> QED BY <1>1, <2>2, <2>3
<1>8. Fits(y, Len(w))
  BY <1>1, <1>2, <1>3, <1>4, <1>6 DEF Fits
<1> QED BY <1>1, <1>2, <1>3, <1>6, <1>7, <1>8 DEF Begins, n

LEMMA CatIs ==
    ASSUME SdsAssumption, NEW x, NEW t, Good(x, t), NEW u \in Seq(Letters),
           Len(t) + Len(u) <= 2 * MaxLen
    PROVE  Good(sdscatlen(x, u), t \o u)
<1> DEFINE w == t \o u
           y == sdsMakeRoomFor(x, Len(u))
           z == Write(y, x.len, u)
<1>1. x.len = Len(t) /\ Len(t) \in Nat /\ Len(u) \in Nat
  <2>1. x.len = Len(t) /\ Len(t) \in Nat
    BY GoodFacts
  <2> QED BY <2>1
<1>2. Good(y, t) /\ sdsavail(y) >= Len(u)
  BY <1>1, Room
<1> HIDE DEF y
<1>3. y.len = x.len
  BY <1>1, <1>2, GoodFacts
<1>4. z = Write(y, y.len, u)
  BY <1>3
<1>5. w = t \o u
  OBVIOUS
<1> HIDE DEF z, w
<1>6. w \in Seq(Letters) /\ Len(w) = Len(t) + Len(u) /\ Fits(z, Len(w)) /\ Begins(z, w)
  <2>1. Open(y, t)
    BY <1>2, GoodIsOpen
  <2> QED BY <1>2, <1>4, <1>5, <2>1, Behind, ZenonT(60)
<1>7. Good(Zero(sdssetlen(z, Len(w)), Len(w)), w)
  BY <1>6, Ended
<1>8. sdscatlen(x, u) = Zero(sdssetlen(z, Len(w)), Len(w))
  BY <1>1, <1>6 DEF sdscatlen, z, y
<1> QED BY <1>7, <1>8 DEF w

(* A text that there is room for, stored over the string. *)
LEMMA Front ==
    ASSUME SdsAssumption, NEW y, NEW t, Good(y, t), NEW u \in Seq(Letters), Len(u) <= sdsalloc(y)
    PROVE  Good(sdssetlen(Zero(Write(y, 0, u), Len(u)), Len(u)), u)
<1> DEFINE z == Write(y, 0, u)
<1>1. Len(u) \in Nat /\ Len(t) \in Nat
  <2>1. Len(t) \in Nat
    BY GoodFacts
  <2> QED BY <2>1
<1>3. /\ y \in SdsType /\ y.over = FALSE /\ y.len = Len(t) /\ Len(y.buf) \in Nat /\ Len(t) < Len(y.buf)
      /\ Len(t) < Widths[y.type] /\ y.alloc \in Nat
      /\ y.type # "t5" => y.alloc < Len(y.buf) /\ y.alloc < Widths[y.type]
  BY GoodFacts
<1>4. Widths[y.type] \in Nat
  BY <1>3, WidthOf
<1>5. /\ Len(u) < Len(y.buf) /\ Len(u) < Widths[y.type] /\ (y.type # "t5" => Len(u) <= y.alloc)
      /\ 0 + Len(u) <= Len(y.buf)
  BY <1>1, <1>3, <1>4 DEF sdsalloc
<1>6. u \in Seq(Bytes)
  BY LettersAreBytes
<1>7. /\ z \in SdsType /\ z.type = y.type /\ z.alloc = y.alloc
      /\ z.over = y.over /\ Len(z.buf) = Len(y.buf)
      /\ \A i \in 1..Len(y.buf) : z.buf[i] = IF 0 < i /\ i <= 0 + Len(u) THEN u[i - 0] ELSE y.buf[i]
  BY <1>3, <1>5, <1>6, Stores
<1> HIDE DEF z
<1>8. Begins(z, u)
  <2> SUFFICES ASSUME NEW i \in 1..Len(u) PROVE z.buf[i] = u[i]
    BY DEF Begins
  <2>1. i \in 1..Len(y.buf) /\ 0 < i /\ i <= 0 + Len(u) /\ i - 0 = i
    BY <1>1, <1>3, <1>5
  <2> QED BY <1>7, <2>1
<1>9. Fits(z, Len(u))
  BY <1>1, <1>3, <1>5, <1>7 DEF Fits
<1>10. Good(sdssetlen(Zero(z, Len(u)), Len(u)), u)
  BY <1>8, <1>9, Ended
<1> QED BY <1>10 DEF z

LEMMA CopyIs ==
    ASSUME SdsAssumption, NEW x, NEW t, Good(x, t), NEW u \in Seq(Letters), Len(u) <= MaxLen
    PROVE  Good(sdscpylen(x, u), u)
<1> DEFINE y == IF sdsalloc(x) < Len(u) THEN sdsMakeRoomFor(x, Len(u) - x.len) ELSE x
<1>1. /\ x.len = Len(t) /\ Len(t) \in Nat /\ Len(u) \in Nat /\ x.alloc \in Nat
      /\ x.type # "t5" => Len(t) <= x.alloc
  <2>1. /\ x.len = Len(t) /\ Len(t) \in Nat /\ x.alloc \in Nat
        /\ x.type # "t5" => Len(t) <= x.alloc
    BY GoodFacts
  <2> QED BY <2>1
<1>2. Good(y, t) /\ Len(u) <= sdsalloc(y)
  <2>1. CASE sdsalloc(x) < Len(u)
    <3> DEFINE add == Len(u) - x.len
               r == sdsMakeRoomFor(x, add)
    <3>1. add \in Nat /\ add # 0 /\ Len(t) + add <= 2 * MaxLen /\ Len(t) + add = Len(u)
      BY <1>1, <2>1 DEF sdsalloc, SdsAssumption
    <3>2. y = r
      BY <2>1
    <3> HIDE DEF add
    <3>3. Good(r, t) /\ sdsavail(r) >= add
      BY <3>1, Room
    <3> HIDE DEF r, y
    <3>4. r.len = Len(t) /\ r.alloc \in Nat
      BY <3>3, GoodFacts
    <3>5. Len(u) <= sdsalloc(r)
      BY <1>1, <3>1, <3>3, <3>4 DEF sdsalloc, sdsavail
    <3> QED BY <3>2, <3>3, <3>5
  <2>2. CASE ~(sdsalloc(x) < Len(u))
    <3>1. y = x
      BY <2>2
    <3> HIDE DEF y
    <3>2. Len(u) <= sdsalloc(x)
      BY <1>1, <2>2 DEF sdsalloc
    <3> QED BY <3>1, <3>2
  <2> HIDE DEF y
  <2> QED BY <2>1, <2>2
<1> HIDE DEF y
<1> QED BY <1>2, Front DEF sdscpylen, y

(* A prefix of the string, wherever the terminator is put. *)
LEMMA PrefixIs ==
    ASSUME SdsAssumption, NEW x, NEW t, Good(x, t), NEW n \in 0..Len(t), NEW w, w = SubSeq(t, 1, n)
    PROVE  /\ w \in Seq(Letters) /\ Len(w) = n /\ \A i \in 1..n : w[i] = t[i]
           /\ Good(Zero(sdssetlen(x, n), n), w)
<1>1. /\ x \in SdsType /\ t \in Seq(Letters) /\ Len(t) \in Nat /\ x.over = FALSE
      /\ Len(x.buf) \in Nat /\ Len(t) < Len(x.buf)
      /\ Len(t) < Widths[x.type] /\ x.alloc \in Nat
      /\ x.type # "t5" => Len(t) <= x.alloc /\ x.alloc < Len(x.buf) /\ x.alloc < Widths[x.type]
      /\ \A i \in 1..Len(t) : x.buf[i] = t[i]
  BY GoodFacts
<1>2. n \in Nat /\ n <= Len(t) /\ \A i \in 1..n : i \in 1..Len(t) /\ t[i] \in Letters
  BY <1>1
<1>3. w \in Seq(Letters) /\ Len(w) = n /\ \A i \in 1..n : w[i] = t[i]
  <2>1. /\ w \in Seq(Letters) /\ Len(w) = IF 1 <= n THEN n - 1 + 1 ELSE 0
        /\ \A i \in 1..(n - 1 + 1) : w[i] = t[1 + i - 1]
    BY <1>2, SubSeqProperties
  <2> QED BY <1>2, <2>1
<1>4. Fits(x, Len(w))
  BY <1>1, <1>2, <1>3, WidthOf DEF Fits
<1>5. Begins(x, w)
  BY <1>1, <1>2, <1>3 DEF Begins
<1>6. Good(Zero(sdssetlen(x, Len(w)), Len(w)), w)
  BY <1>3, <1>4, <1>5, Ended
<1> QED BY <1>3, <1>6

(* What strlen counts. *)
LEMMA CStringIs ==
    ASSUME NEW S, NEW t \in Seq(S)
    PROVE  /\ CString(t) \in Seq(S) /\ Len(CString(t)) <= Len(t) /\ Len(CString(t)) \in Nat
           /\ \A i \in 1..Len(CString(t)) : CString(t)[i] = t[i] /\ t[i] # Nul
           /\ Len(CString(t)) < Len(t) => t[Len(CString(t)) + 1] = Nul
<1> DEFINE nuls == {i \in 1..Len(t) : t[i] = Nul}
           c == CString(t)
<1>1. Len(t) \in Nat /\ \A i \in 1..Len(t) : t[i] \in S
  OBVIOUS
<1>2. CASE nuls = {}
  <2>1. c = t
    BY <1>2 DEF CString
  <2> HIDE DEF c
  <2> QED BY <1>1, <1>2, <2>1 DEF c
<1>3. CASE nuls # {}
  <2> DEFINE m == Least(nuls)
  <2>1. m \in nuls /\ \A k \in nuls : m <= k
    <3>1. nuls \in SUBSET Nat
      OBVIOUS
    <3>2. \E i \in nuls : \A k \in nuls : i <= k
      <4> HIDE DEF nuls
      <4> QED BY <1>3, <3>1, LeastIn
    <3> HIDE DEF nuls
    <3> QED BY <3>2 DEF Least
  <2>2. c = SubSeq(t, 1, m - 1)
    BY <1>3 DEF CString
  <2> HIDE DEF m, c
  <2>3. m \in 1..Len(t) /\ t[m] = Nul /\ \A i \in 1..(m - 1) : i \in 1..Len(t) /\ t[i] # Nul /\ t[i] \in S
    <3>1. m \in 1..Len(t) /\ t[m] = Nul
      BY <2>1
    <3>2. ASSUME NEW i \in 1..(m - 1) PROVE i \in 1..Len(t) /\ t[i] # Nul
      <4>1. i \in 1..Len(t) /\ ~(m <= i)
        BY <1>1, <3>1
      <4> QED BY <2>1, <4>1
    <3> QED BY <1>1, <3>1, <3>2
  <2> HIDE DEF nuls
  <2>4. /\ c \in Seq(S) /\ Len(c) = IF 1 <= m - 1 THEN (m - 1) - 1 + 1 ELSE 0
        /\ \A i \in 1..((m - 1) - 1 + 1) : c[i] = t[1 + i - 1]
    BY <1>1, <2>2, <2>3, SubSeqProperties
  <2>5. Len(c) = m - 1 /\ \A i \in 1..(m - 1) : c[i] = t[i]
    BY <1>1, <2>3, <2>4
  <2> QED BY <1>1, <2>3, <2>4, <2>5 DEF c
<1> HIDE DEF nuls, c
<1> QED BY <1>2, <1>3

LEMMA PrintfIs ==
    ASSUME SdsAssumption, NEW x, NEW t, Good(x, t), NEW u \in Seq(Letters),
           Len(t) + Len(u) <= 2 * MaxLen
    PROVE  Good(sdscatvprintf(x, u), t \o CString(u))
<1> DEFINE c == CString(u)
<1>1. c \in Seq(Letters) /\ Len(c) <= Len(u) /\ Len(c) \in Nat
  BY CStringIs
<1>2. Len(t) \in Nat /\ MaxLen \in Nat
  BY GoodFacts DEF SdsAssumption
<1>3. Len(u) \in Nat
  OBVIOUS
<1> HIDE DEF c
<1>4. Len(t) + Len(c) <= 2 * MaxLen
  BY <1>1, <1>2, <1>3
<1>5. Good(sdscatlen(x, c), t \o c)
  BY <1>1, <1>4, CatIs
<1> QED BY <1>5 DEF sdscatvprintf, c

(* One text of a format. *)
LEMMA PutIs ==
    ASSUME SdsAssumption, NEW y, NEW t, Open(y, t), NEW u \in Seq(Letters),
           Len(t) + Len(u) <= MaxLen
    PROVE  Open(Put(y, u), t \o u)
<1> DEFINE one  == IF sdsavail(y) = 0 THEN sdsMakeRoomFor(y, 1) ELSE y
           room == IF Len(u) > 1 /\ sdsavail(one) < Len(u) THEN sdsMakeRoomFor(one, Len(u)) ELSE one
           z == Write(room, y.len, u)
           w == t \o u
<1>1. /\ Len(t) \in Nat /\ Len(u) \in Nat /\ y.len = Len(t) /\ MaxLen \in Nat /\ MaxLen >= 3
      /\ Len(t) + 1 <= 2 * MaxLen /\ Len(t) + Len(u) <= 2 * MaxLen
  <2>1. Len(t) \in Nat /\ y.len = Len(t)
    BY OpenFacts
  <2>2. Len(u) \in Nat
    OBVIOUS
  <2> QED BY <2>1, <2>2 DEF SdsAssumption
<1>2. ASSUME NEW x, Open(x, t) PROVE sdsavail(x) \in Nat
  <2>1. x.len = Len(t) /\ Len(t) \in Nat /\ x.alloc \in Nat /\ (x.type # "t5" => Len(t) <= x.alloc)
    BY <1>2, OpenFacts
  <2> QED BY <2>1 DEF sdsavail
<1>3. Open(one, t) /\ sdsavail(one) >= 1
  <2>1. CASE sdsavail(y) = 0
    BY <1>1, <2>1, RoomOpen
  <2>2. CASE sdsavail(y) # 0
    <3>1. one = y
      BY <2>2
    <3> HIDE DEF one
    <3>2. sdsavail(y) \in Nat
      BY <1>2
    <3> QED BY <2>2, <3>1, <3>2
  <2> QED BY <2>1, <2>2
<1> HIDE DEF one
<1>4. sdsavail(one) \in Nat
  BY <1>2, <1>3
<1>5. Open(room, t) /\ sdsavail(room) >= Len(u)
  <2>1. CASE Len(u) > 1 /\ sdsavail(one) < Len(u)
    BY <1>1, <1>3, <2>1, RoomOpen
  <2>2. CASE ~(Len(u) > 1 /\ sdsavail(one) < Len(u))
    <3>1. room = one
      BY <2>2
    <3> HIDE DEF room
    <3> QED BY <1>1, <1>3, <1>4, <2>2, <3>1
  <2> QED BY <2>1, <2>2
<1>6. Put(y, u) = sdsinclen(z, Len(u))
  BY DEF Put, one
<1> HIDE DEF room
<1>7. room.len = y.len
  BY <1>1, <1>5, OpenFacts
<1>8. z = Write(room, room.len, u) /\ w = t \o u
  BY <1>7
<1> HIDE DEF z, w
<1>9. /\ w \in Seq(Letters) /\ Len(w) = Len(t) + Len(u) /\ Len(w) \in Nat
      /\ Fits(z, Len(w)) /\ Begins(z, w) /\ z.len = room.len
  BY <1>5, <1>8, Behind, ZenonT(60)
<1> DEFINE v == sdssetlen(z, Len(w))
<1>10. Put(y, u) = v
  BY <1>1, <1>6, <1>7, <1>9 DEF sdsinclen
<1>11. z \in SdsType /\ Len(w) < Widths[z.type]
  BY <1>9 DEF Fits
<1>12. /\ v \in SdsType /\ v.len = Len(w) /\ v.type = z.type /\ v.alloc = z.alloc
       /\ v.buf = z.buf /\ v.over = z.over
  BY <1>9, <1>11, SetLen
<1> HIDE DEF v
<1>13. Fits(v, Len(w)) /\ Begins(v, w)
  BY <1>9, <1>12 DEF Fits, Begins
<1> QED BY <1>9, <1>10, <1>12, <1>13 DEF Open, w

LEMMA FormatIs ==
    ASSUME SdsAssumption, NEW x, NEW t, Good(x, t),
           NEW a \in Seq(Letters), NEW b \in Seq(Letters), NEW c \in Seq(Letters),
           Len(t) + Len(a) + Len(b) + Len(c) <= MaxLen
    PROVE  Good(sdscatfmt(x, <<a, b, c>>), t \o a \o b \o c)
<1> DEFINE p1 == Put(x, a)
           p2 == Put(p1, b)
           p3 == Put(p2, c)
           t1 == t \o a
           t2 == t1 \o b
           t3 == t2 \o c
<1>1. /\ Len(t) \in Nat /\ Len(a) \in Nat /\ Len(b) \in Nat /\ Len(c) \in Nat /\ MaxLen \in Nat
      /\ t \in Seq(Letters)
  <2>1. Len(t) \in Nat /\ t \in Seq(Letters)
    BY GoodFacts
  <2> QED BY <2>1 DEF SdsAssumption
<1>2. t1 \in Seq(Letters) /\ Len(t1) = Len(t) + Len(a)
  BY <1>1, Joined
<1>3. Open(p1, t1)
  <2>1. Open(x, t) /\ Len(t) + Len(a) <= MaxLen
    BY <1>1, GoodIsOpen
  <2> QED BY <2>1, PutIs
<1> HIDE DEF p1, t1
<1>4. t2 \in Seq(Letters) /\ Len(t2) = Len(t1) + Len(b)
  BY <1>2, Joined
<1>5. Open(p2, t2)
  <2>1. Len(t1) + Len(b) <= MaxLen
    BY <1>1, <1>2
  <2> QED BY <1>3, <2>1, PutIs
<1> HIDE DEF p2, t2
<1>6. Open(p3, t3)
  <2>1. Len(t2) + Len(c) <= MaxLen
    BY <1>1, <1>2, <1>4
  <2> QED BY <1>5, <2>1, PutIs
<1>7. t3 = t \o a \o b \o c
  BY DEF t1, t2
<1> HIDE DEF p3, t3
<1> DEFINE texts == <<a, b, c>>
           F(f) == [k \in 0..3 |-> IF k = 0 THEN x ELSE Put(f[k - 1], texts[k])]
           g == CHOOSE f : f = F(f)
<1>8. g = F(g)
  <2> DEFINE h == [k \in 0..3 |-> IF k = 0 THEN x ELSE IF k = 1 THEN p1 ELSE IF k = 2 THEN p2 ELSE p3]
  <2>1. h = F(h)
    <3>1. h[0] = x /\ h[1] = p1 /\ h[2] = p2 /\ h[3] = p3 /\ texts[1] = a /\ texts[2] = b /\ texts[3] = c
      OBVIOUS
    <3> HIDE DEF texts
    <3>2. ASSUME NEW k \in 0..3
          PROVE  h[k] = IF k = 0 THEN x ELSE Put(h[k - 1], texts[k])
      <4>1. k = 0 \/ k = 1 \/ k = 2 \/ k = 3
        OBVIOUS
      <4>2. 1 - 1 = 0 /\ 2 - 1 = 1 /\ 3 - 1 = 2
        OBVIOUS
      <4> HIDE DEF h
      <4> QED BY <3>1, <4>1, <4>2 DEF p1, p2, p3
    <3> QED BY <3>2
  <2> HIDE DEF h, F
  <2> QED BY <2>1
<1>9. sdscatfmt(x, texts) = Zero(g[3], g[3].len)
  <2>1. Len(texts) = 3
    OBVIOUS
  <2> QED BY <2>1, Zenon DEF sdscatfmt
<1> HIDE DEF g
<1>10. g[3] = p3
  <2>1. texts[1] = a /\ texts[2] = b /\ texts[3] = c
    OBVIOUS
  <2> HIDE DEF texts
  <2>2. \A k \in 0..3 : g[k] = IF k = 0 THEN x ELSE Put(g[k - 1], texts[k])
    BY <1>8
  <2> HIDE DEF F
  <2>3. g[0] = x
    BY <2>2
  <2>4. g[1] = p1
    <3>1. g[1] = Put(g[1 - 1], texts[1]) /\ 1 - 1 = 0
      BY <2>2
    <3> QED BY <2>1, <2>3, <3>1 DEF p1
  <2>5. g[2] = p2
    <3>1. g[2] = Put(g[2 - 1], texts[2]) /\ 2 - 1 = 1
      BY <2>2
    <3> QED BY <2>1, <2>4, <3>1 DEF p2
  <2>6. g[3] = Put(g[3 - 1], texts[3]) /\ 3 - 1 = 2
    BY <2>2
  <2> QED BY <2>1, <2>5, <2>6 DEF p3
<1> HIDE DEF texts
<1> DEFINE z == Zero(p3, p3.len)
<1>11. /\ p3 \in SdsType /\ t3 \in Seq(Letters) /\ Len(t3) \in Nat /\ p3.len = Len(t3)
       /\ Fits(p3, Len(t3)) /\ Begins(p3, t3) /\ Len(t3) < Len(p3.buf) /\ Len(p3.buf) \in Nat
  BY <1>6, OpenFacts DEF Open
<1>12. /\ z \in SdsType /\ z.type = p3.type /\ z.len = p3.len /\ z.alloc = p3.alloc
       /\ z.over = p3.over /\ Len(z.buf) = Len(p3.buf) /\ z.buf[Len(t3) + 1] = Nul
       /\ \A i \in 1..Len(p3.buf) : i # Len(t3) + 1 => z.buf[i] = p3.buf[i]
  BY <1>11, ZeroAt, SMTT(30)
<1> HIDE DEF z
<1>13. Fits(z, Len(t3))
  BY <1>11, <1>12 DEF Fits
<1>14. Begins(z, t3)
  <2>1. \A i \in 1..Len(t3) : i \in 1..Len(p3.buf) /\ i # Len(t3) + 1
    BY <1>11
  <2> QED BY <1>11, <1>12, <2>1 DEF Begins
<1>15. Good(z, t3)
  BY <1>11, <1>12, <1>13, <1>14 DEF Good
<1> QED BY <1>7, <1>9, <1>10, <1>15 DEF texts, z

(* A part of the string, moved to its front. *)
LEMMA PartIs ==
    ASSUME SdsAssumption, NEW x, NEW t, Good(x, t), NEW f \in Nat, NEW l \in Nat,
           f >= 1, f <= l + 1, l <= Len(t),
           NEW w, w = SubSeq(t, f, l), NEW n, n = l - f + 1
    PROVE  Good(sdssetlen(Zero(Write(x, 0, SubSeq(x.buf, f, l)), n), n), w)
<1>1. /\ x.buf \in Seq(Bytes) /\ t \in Seq(Letters) /\ Len(t) \in Nat /\ Len(x.buf) \in Nat
      /\ Len(t) < Len(x.buf) /\ x.len = Len(t) /\ x.alloc \in Nat
      /\ \A i \in 1..Len(t) : x.buf[i] = t[i]
      /\ x.type # "t5" => Len(t) <= x.alloc
  BY GoodFacts
<1> DEFINE v == SubSeq(x.buf, f, l)
<1>2. /\ w \in Seq(Letters) /\ Len(w) = n /\ \A i \in 1..n : w[i] = t[f + i - 1]
  <2>1. \A i \in f..l : t[i] \in Letters
    BY <1>1
  <2>2. /\ w \in Seq(Letters) /\ Len(w) = IF f <= l THEN l - f + 1 ELSE 0
        /\ \A i \in 1..(l - f + 1) : w[i] = t[f + i - 1]
    BY <1>1, <2>1, SubSeqProperties
  <2> QED BY <2>2
<1>3. /\ v \in Seq(Bytes) /\ Len(v) = n /\ \A i \in 1..n : v[i] = x.buf[f + i - 1]
  <2>1. \A i \in f..l : x.buf[i] \in Bytes
    <3>1. \A i \in f..l : i \in 1..Len(x.buf)
      BY <1>1
    <3> QED BY <1>1, <3>1
  <2>2. /\ v \in Seq(Bytes) /\ Len(v) = IF f <= l THEN l - f + 1 ELSE 0
        /\ \A i \in 1..(l - f + 1) : v[i] = x.buf[f + i - 1]
    BY <1>1, <2>1, SubSeqProperties
  <2> HIDE DEF v
  <2> QED BY <2>2
<1> HIDE DEF v
<1>4. v = w
  <2>1. \A i \in 1..n : v[i] = w[i]
    <3>1. \A i \in 1..n : f + i - 1 \in 1..Len(t)
      BY <1>1
    <3> QED BY <1>1, <1>2, <1>3, <3>1
  <2> QED BY <1>2, <1>3, <2>1, SeqEqual
<1>5. Len(w) <= sdsalloc(x)
  BY <1>1, <1>2 DEF sdsalloc
<1>6. Good(sdssetlen(Zero(Write(x, 0, w), Len(w)), Len(w)), w)
  BY <1>2, <1>5, Front
<1> QED BY <1>2, <1>4, <1>6 DEF v

LEMMA GrowIs ==
    ASSUME SdsAssumption, NEW x, NEW t, Good(x, t), NEW n \in 0..MaxLen, Len(t) <= MaxLen,
           ~(n <= Len(t)), NEW w, w = t \o Blanks(n - Len(t))
    PROVE  Good(sdsgrowzero(x, n), w)
<1> DEFINE m == Len(t)
           d == n - m
           y == sdsMakeRoomFor(x, d)
           u == [i \in 1..(d + 1) |-> Nul]
           z == Write(y, m, u)
<1>1. m \in Nat /\ x.len = m /\ t \in Seq(Letters)
  BY GoodFacts
<1>2. d \in Nat /\ d > 0 /\ m + d = n /\ n \in Nat /\ m + d <= 2 * MaxLen
  BY <1>1 DEF SdsAssumption
<1>3. Blanks(d) \in Seq(Letters) /\ Len(Blanks(d)) = d /\ \A i \in 1..d : Blanks(d)[i] = Nul
  <2> HIDE DEF d
  <2>1. Nul \in Letters
    BY DEF Letters
  <2> QED BY <1>2, <2>1 DEF Blanks
<1>4. u \in Seq(Bytes) /\ Len(u) = d + 1 /\ \A i \in 1..(d + 1) : u[i] = Nul
  <2> HIDE DEF d
  <2>1. Nul \in Bytes
    BY DEF Bytes
  <2> QED BY <1>2, <2>1
<1>5. sdsgrowzero(x, n) = sdssetlen(z, n)
  BY <1>1 DEF sdsgrowzero
<1> HIDE DEF u
<1>6. Good(y, t) /\ sdsavail(y) >= d
  BY <1>2, Room
<1> HIDE DEF y
<1>7. /\ y \in SdsType /\ y.over = FALSE /\ Len(y.buf) \in Nat /\ m < Len(y.buf) /\ y.len = m
      /\ y.alloc \in Nat
      /\ y.type # "t5" => m <= y.alloc /\ y.alloc < Len(y.buf) /\ y.alloc < Widths[y.type]
      /\ \A i \in 1..m : y.buf[i] = t[i]
  BY <1>6, GoodFacts
<1>8. y.type # "t5" /\ n <= y.alloc /\ n < Len(y.buf) /\ n < Widths[y.type]
  <2>1. y.type # "t5"
    BY <1>2, <1>6 DEF sdsavail
  <2>2. y.alloc - m >= d
    BY <1>6, <1>7, <2>1 DEF sdsavail
  <2> HIDE DEF d, m
  <2>3. Widths[y.type] \in Nat
    BY <1>7, WidthOf
  <2> QED BY <1>1, <1>2, <1>7, <2>1, <2>2, <2>3, SMTT(30)
<1> HIDE DEF d, m
<1>9. m + Len(u) <= Len(y.buf)
  BY <1>1, <1>2, <1>4, <1>7, <1>8
<1>10. /\ z \in SdsType /\ z.type = y.type /\ z.alloc = y.alloc
       /\ z.over = y.over /\ Len(z.buf) = Len(y.buf)
       /\ \A i \in 1..Len(y.buf) : z.buf[i] = IF m < i /\ i <= m + Len(u) THEN u[i - m] ELSE y.buf[i]
  BY <1>1, <1>4, <1>7, <1>9, Stores
<1> HIDE DEF z
<1>11. /\ w \in Seq(Letters) /\ Len(w) = n /\ \A i \in 1..m : w[i] = t[i]
       /\ \A i \in 1..d : w[m + i] = Nul
  <2>1. w = t \o Blanks(d)
    BY DEF d, m
  <2>2. /\ w \in Seq(Letters) /\ Len(w) = m + d /\ \A i \in 1..m : w[i] = t[i]
        /\ \A i \in 1..d : w[m + i] = Blanks(d)[i]
    <3> DEFINE e == Blanks(d)
    <3>1. e \in Seq(Letters) /\ Len(e) = d
      BY <1>3
    <3>2. w = t \o e
      BY <2>1
    <3> HIDE DEF e
    <3>3. /\ t \o e \in Seq(Letters) /\ Len(t \o e) = Len(t) + Len(e)
          /\ \A i \in 1..Len(t) : (t \o e)[i] = t[i]
          /\ \A i \in 1..Len(e) : (t \o e)[Len(t) + i] = e[i]
      <4>1. t \in Seq(Letters) /\ e \in Seq(Letters)
        BY <1>1, <3>1
      <4> QED BY <4>1, Joined
    <3> QED BY <3>1, <3>2, <3>3 DEF e, m
  <2> QED BY <1>2, <1>3, <2>2
<1>12. ASSUME NEW i \in 1..(n + 1) PROVE z.buf[i] = IF i <= n THEN w[i] ELSE Nul
  <2>1. i \in 1..Len(y.buf)
    BY <1>2, <1>7, <1>8
  <2>2. CASE i <= m
    <3>1. i \in 1..m /\ ~(m < i) /\ i <= n
      BY <1>1, <1>2, <2>2
    <3>2. z.buf[i] = y.buf[i]
      BY <1>10, <2>1, <3>1
    <3> QED BY <1>7, <1>11, <3>1, <3>2
  <2>3. CASE i > m
    <3>1. i - m \in 1..(d + 1) /\ m < i /\ i <= m + Len(u) /\ m + (i - m) = i
      BY <1>1, <1>2, <1>4, <2>3
    <3>2. z.buf[i] = Nul
      BY <1>4, <1>10, <2>1, <3>1
    <3>3. i <= n => i - m \in 1..d
      BY <1>1, <1>2, <2>3
    <3> QED BY <1>11, <3>1, <3>2, <3>3
  <2>4. i <= m \/ i > m
    BY <1>1, <1>2
  <2> QED BY <2>2, <2>3, <2>4, Zenon
<1> DEFINE v == sdssetlen(z, n)
<1>13. /\ v \in SdsType /\ v.len = n /\ v.type = z.type /\ v.alloc = z.alloc
       /\ v.buf = z.buf /\ v.over = z.over
  BY <1>2, <1>8, <1>10, SetLen
<1> HIDE DEF v
<1>14. Fits(v, n)
  BY <1>2, <1>7, <1>8, <1>10, <1>13 DEF Fits
<1>15. Begins(v, w) /\ v.buf[n + 1] = Nul
  <2>1. n + 1 \in 1..(n + 1) /\ ~(n + 1 <= n) /\ \A i \in 1..n : i \in 1..(n + 1) /\ i <= n
    BY <1>2
  <2> QED BY <1>11, <1>12, <1>13, <2>1 DEF Begins
<1> QED BY <1>5, <1>11, <1>13, <1>14, <1>15 DEF Good, v

LEMMA ReadIs ==
    ASSUME SdsAssumption, NEW x, NEW t, Good(x, t), NEW n \in 1..MaxLen, NEW u \in Seq(Letters),
           Len(u) <= n, Len(t) <= MaxLen
    PROVE  Good(sdsIncrLen(Write(sdsMakeRoomFor(x, n), x.len, u), Len(u)), t \o u)
<1> DEFINE y == sdsMakeRoomFor(x, n)
           z == Write(y, x.len, u)
           w == t \o u
<1>1. Len(t) \in Nat /\ x.len = Len(t) /\ Len(u) \in Nat /\ n \in Nat /\ Len(t) + n <= 2 * MaxLen
  <2>1. Len(t) \in Nat /\ x.len = Len(t)
    BY GoodFacts
  <2> QED BY <2>1 DEF SdsAssumption
<1>2. Good(y, t) /\ sdsavail(y) >= n
  BY <1>1, Room
<1> HIDE DEF y
<1>3. /\ y.len = Len(t) /\ y.alloc \in Nat
      /\ y.type # "t5" => y.alloc - y.len = sdsavail(y)
  BY <1>2, GoodFacts DEF sdsavail
<1>4. y.type # "t5" /\ y.alloc - y.len >= Len(u) /\ sdsavail(y) >= Len(u)
  <2>1. y.type # "t5"
    BY <1>2 DEF sdsavail
  <2>2. sdsavail(y) >= Len(u)
    BY <1>1, <1>2, <1>3, <2>1
  <2> QED BY <1>3, <2>1, <2>2
<1>5. z = Write(y, y.len, u) /\ w = t \o u
  BY <1>1, <1>3
<1> HIDE DEF z, w
<1>6. /\ w \in Seq(Letters) /\ Len(w) = Len(t) + Len(u) /\ Len(w) \in Nat
      /\ Fits(z, Len(w)) /\ Begins(z, w)
      /\ z.len = y.len /\ z.type = y.type /\ z.alloc = y.alloc
  <2>1. Open(y, t)
    BY <1>2, GoodIsOpen
  <2> HIDE DEF y
  <2>2. sdsavail(y) >= Len(u)
    BY <1>4
  <2> QED BY <1>5, <2>1, <2>2, Behind, ZenonT(60)
<1>7. sdsIncrLen(z, Len(u)) = Zero(sdsinclen(z, Len(u)), z.len + Len(u))
  BY <1>1, <1>4, <1>6 DEF sdsIncrLen
<1>8. @ = Zero(sdssetlen(z, Len(w)), Len(w))
  BY <1>3, <1>6 DEF sdsinclen
<1>9. Good(Zero(sdssetlen(z, Len(w)), Len(w)), w)
  BY <1>6, Ended
<1> QED BY <1>7, <1>8, <1>9 DEF w, z, y

LEMMA ShortenIs ==
    ASSUME SdsAssumption, NEW x, NEW t, Good(x, t), NEW n \in 1..Len(t)
    PROVE  Good(sdsIncrLen(x, -n), SubSeq(t, 1, Len(t) - n))
<1> DEFINE m == Len(t) - n
           w == SubSeq(t, 1, m)
<1>1. Len(t) \in Nat /\ x.len = Len(t)
  BY GoodFacts
<1>2. m \in 0..Len(t) /\ x.len + (-n) = m /\ x.len >= -(-n) /\ -n < 0
  BY <1>1
<1>3. sdsIncrLen(x, -n) = Zero(sdsinclen(x, -n), x.len + (-n))
  BY <1>2 DEF sdsIncrLen
<1>4. @ = Zero(sdssetlen(x, m), m)
  BY <1>2 DEF sdsinclen
<1>5. w = SubSeq(t, 1, m)
  OBVIOUS
<1> HIDE DEF m, w
<1>6. Good(Zero(sdssetlen(x, m), m), w)
  BY <1>2, <1>5, PrefixIs
<1> QED BY <1>3, <1>4, <1>6 DEF w, m

LEMMA ClearIs ==
    ASSUME SdsAssumption, NEW x, NEW t, Good(x, t)
    PROVE  Good(sdsclear(x), <<>>)
<1>1. Len(t) \in Nat /\ 0 \in 0..Len(t)
  BY GoodFacts
<1> DEFINE w == SubSeq(t, 1, 0)
<1>2. w = <<>>
  OBVIOUS
<1>3. Good(Zero(sdssetlen(x, 0), 0), w)
  BY <1>1, PrefixIs
<1> QED BY <1>2, <1>3 DEF sdsclear

LEMMA ShrinkIs ==
    ASSUME SdsAssumption, NEW x, NEW t, Good(x, t), Len(t) <= MaxLen
    PROVE  Good(sdsRemoveFreeSpace(x), t)
<1> DEFINE n == Len(t)
           T == sdsReqType(n)
           b == Keep(x, n + 1)
           y == [x EXCEPT !.type = T, !.buf = b]
           u == sdssetlen(y, n)
           v == sdssetalloc(u, n)
<1>1. /\ x \in SdsType /\ t \in Seq(Letters) /\ n \in Nat /\ x.len = n /\ x.over = FALSE
      /\ Len(x.buf) \in Nat /\ n < Len(x.buf)
      /\ \A i \in 1..n : x.buf[i] = t[i]
      /\ x.buf[n + 1] = Nul
  BY GoodFacts
<1>2. sdsRemoveFreeSpace(x) = v
  BY <1>1 DEF sdsRemoveFreeSpace
<1>3. T \in {"t5", "t8", "t16"} /\ n < Widths[T]
  <2>1. n < Widths.t16
    BY <1>1 DEF SdsAssumption
  <2> QED BY <1>1, <2>1, ReqType
<1>4. b \in Seq(Bytes) /\ Len(b) = n + 1 /\ \A i \in 1..(n + 1) : b[i] = x.buf[i]
  <2>1. n + 1 \in Nat /\ n + 1 <= Len(x.buf)
    BY <1>1
  <2> HIDE DEF n
  <2> QED BY <1>1, <2>1, KeepIs
<1> HIDE DEF T, b
<1>5. /\ y \in SdsType /\ y.buf = b /\ y.type = T /\ y.over = x.over
  BY <1>1, <1>3, <1>4 DEF SdsType
<1> HIDE DEF y, n
<1>6. /\ u \in SdsType /\ u.len = n /\ u.type = y.type /\ u.buf = y.buf /\ u.over = y.over
  BY <1>1, <1>3, <1>5, SetLen
<1> HIDE DEF u
<1>7. /\ v \in SdsType /\ v.alloc = (IF u.type = "t5" THEN u.alloc ELSE n)
      /\ v.type = u.type /\ v.len = u.len /\ v.buf = u.buf /\ v.over = u.over
  BY <1>1, <1>3, <1>5, <1>6, SetAlloc
<1> HIDE DEF v
<1>8. Fits(v, n)
  BY <1>1, <1>3, <1>4, <1>5, <1>6, <1>7 DEF Fits
<1>9. Begins(v, t) /\ v.buf[n + 1] = Nul
  <2>1. n + 1 \in 1..(n + 1) /\ \A i \in 1..n : i \in 1..(n + 1)
    BY <1>1
  <2>2. v.buf = b
    BY <1>5, <1>6, <1>7
  <2> QED BY <1>1, <1>4, <2>1, <2>2 DEF Begins, n
<1> QED BY <1>1, <1>2, <1>5, <1>6, <1>7, <1>8, <1>9 DEF Good, n

(* A NUL put into the string, and the length found again. *)
LEMMA CutIs ==
    ASSUME SdsAssumption, NEW x, NEW t, Good(x, t), NEW i \in 1..Len(t)
    PROVE  Good(sdsupdatelen(Zero(x, i - 1)), CString(SubSeq(t, 1, i - 1)))
<1> DEFINE p == SubSeq(t, 1, i - 1)
           y == Zero(x, i - 1)
           c == CString(p)
           m == Len(CString(y.buf))
           k == Len(c)
           v == sdssetlen(y, m)
<1>1. /\ x \in SdsType /\ t \in Seq(Letters) /\ Len(t) \in Nat /\ x.len = Len(t) /\ x.over = FALSE
      /\ Len(x.buf) \in Nat /\ Len(t) < Len(x.buf) /\ Len(t) < Widths[x.type] /\ x.alloc \in Nat
      /\ x.type # "t5" => Len(t) <= x.alloc /\ x.alloc < Len(x.buf) /\ x.alloc < Widths[x.type]
      /\ \A j \in 1..Len(t) : x.buf[j] = t[j]
  BY GoodFacts
<1>2. i \in Nat /\ i - 1 \in Nat /\ i - 1 < Len(x.buf) /\ (i - 1) + 1 = i /\ i - 1 \in 0..Len(t)
      /\ i <= Len(t)
  BY <1>1
<1>3. p \in Seq(Letters) /\ Len(p) = i - 1 /\ \A j \in 1..(i - 1) : p[j] = t[j]
  <2>1. p = SubSeq(t, 1, i - 1)
    OBVIOUS
  <2> HIDE DEF p
  <2> QED BY <1>2, <2>1, PrefixIs
<1> HIDE DEF p
<1>4. /\ y \in SdsType /\ y.type = x.type /\ y.len = x.len /\ y.alloc = x.alloc
      /\ y.over = x.over /\ Len(y.buf) = Len(x.buf) /\ y.buf[i] = Nul
      /\ \A j \in 1..Len(x.buf) : j # i => y.buf[j] = x.buf[j]
  <2> DEFINE at == i - 1
  <2>1. at \in Nat /\ at < Len(x.buf) /\ at + 1 = i
    BY <1>2
  <2>2. y = Zero(x, at)
    OBVIOUS
  <2> HIDE DEF at, y
  <2>3. /\ y \in SdsType /\ y.type = x.type /\ y.len = x.len /\ y.alloc = x.alloc
        /\ y.over = x.over /\ Len(y.buf) = Len(x.buf) /\ y.buf[at + 1] = Nul
        /\ \A j \in 1..Len(x.buf) : j # at + 1 => y.buf[j] = x.buf[j]
    BY <1>1, <2>1, <2>2, ZeroAt
  <2> QED BY <2>1, <2>3
<1> HIDE DEF y
<1>5. \A j \in 1..(i - 1) : y.buf[j] = p[j]
  <2> SUFFICES ASSUME NEW j \in 1..(i - 1) PROVE y.buf[j] = p[j]
    OBVIOUS
  <2>1. j \in 1..Len(t) /\ j \in 1..Len(x.buf) /\ j # i
    BY <1>1, <1>2
  <2> QED BY <1>1, <1>3, <1>4, <2>1
<1>6. /\ c \in Seq(Letters) /\ k <= i - 1 /\ k \in Nat
      /\ \A j \in 1..k : c[j] = p[j] /\ p[j] # Nul
      /\ k < i - 1 => p[k + 1] = Nul
  <2>1. /\ c \in Seq(Letters) /\ Len(c) <= Len(p) /\ Len(c) \in Nat
        /\ \A j \in 1..Len(c) : c[j] = p[j] /\ p[j] # Nul
        /\ Len(c) < Len(p) => p[Len(c) + 1] = Nul
    BY <1>3, CStringIs
  <2> QED BY <1>3, <2>1
<1>7. /\ m \in Nat /\ m <= Len(x.buf)
      /\ \A j \in 1..m : y.buf[j] # Nul
      /\ m < Len(x.buf) => y.buf[m + 1] = Nul
  <2>1. y.buf \in Seq(Bytes)
    BY <1>4 DEF SdsType
  <2>2. /\ Len(CString(y.buf)) <= Len(y.buf) /\ Len(CString(y.buf)) \in Nat
        /\ \A j \in 1..Len(CString(y.buf)) : CString(y.buf)[j] = y.buf[j] /\ y.buf[j] # Nul
        /\ Len(CString(y.buf)) < Len(y.buf) => y.buf[Len(CString(y.buf)) + 1] = Nul
    BY <2>1, CStringIs
  <2> QED BY <1>4, <2>2
<1>8. sdsupdatelen(y) = v
  BY DEF sdsupdatelen
<1> HIDE DEF c, m, k
<1>9. m <= i - 1
  <2>1. ~(m >= i)
    <3> SUFFICES ASSUME m >= i PROVE FALSE
      OBVIOUS
    <3>1. i \in 1..m
      BY <1>2, <1>7
    <3> QED BY <1>4, <1>7, <3>1
  <2> QED BY <1>2, <1>7, <2>1
<1>10. m = k
  <2>1. ~(m < k)
    <3> SUFFICES ASSUME m < k PROVE FALSE
      OBVIOUS
    <3>1. m + 1 \in 1..k /\ m + 1 \in 1..(i - 1) /\ m < Len(x.buf)
      BY <1>1, <1>2, <1>6, <1>7
    <3> QED BY <1>5, <1>6, <1>7, <3>1
  <2>2. ~(k < m)
    <3> SUFFICES ASSUME k < m PROVE FALSE
      OBVIOUS
    <3>1. k + 1 \in 1..m /\ k + 1 \in 1..(i - 1) /\ k < i - 1
      BY <1>2, <1>6, <1>7, <1>9
    <3> QED BY <1>5, <1>6, <1>7, <3>1
  <2> QED BY <1>6, <1>7, <2>1, <2>2
<1>11. Widths[x.type] \in Nat
  BY <1>1, WidthOf
<1>12. k < Widths[y.type] /\ k < Len(x.buf) /\ k <= Len(t)
  BY <1>1, <1>2, <1>4, <1>6, <1>11
<1>13. /\ v \in SdsType /\ v.len = k /\ v.type = y.type /\ v.alloc = y.alloc
       /\ v.buf = y.buf /\ v.over = y.over
  BY <1>4, <1>6, <1>10, <1>12, SetLen
<1> HIDE DEF v
<1>14. y.buf[k + 1] = Nul
  BY <1>7, <1>10, <1>12
<1>15. \A j \in 1..k : y.buf[j] = c[j]
  <2>1. \A j \in 1..k : j \in 1..(i - 1)
    BY <1>2, <1>6
  <2> QED BY <1>5, <1>6, <2>1
<1>16. Fits(v, k)
  BY <1>1, <1>4, <1>6, <1>11, <1>12, <1>13 DEF Fits
<1>17. Good(v, c)
  BY <1>6, <1>13, <1>14, <1>15, <1>16 DEF Good, Begins, k
<1> QED BY <1>8, <1>17 DEF c, p, y

LEMMA LeastOf ==
    ASSUME NEW T \in SUBSET Nat, T # {}
    PROVE  Least(T) \in T /\ \A k \in T : Least(T) <= k
<1>1. \E i \in T : \A k \in T : i <= k
  BY LeastIn
<1> QED BY <1>1 DEF Least

LEMMA GreatestOf ==
    ASSUME NEW n \in Nat, NEW T \in SUBSET (0..n), T # {}
    PROVE  Greatest(T) \in T /\ \A k \in T : Greatest(T) >= k
<1> DEFINE U == {m \in Nat : n - m \in T}
<1>1. U \in SUBSET Nat
  OBVIOUS
<1>2. U # {}
  <2>1. PICK k \in T : TRUE
    OBVIOUS
  <2>2. n - k \in U
    BY <2>1
  <2> QED BY <2>2
<1>3. PICK m \in U : \A k \in U : m <= k
  <2> HIDE DEF U
  <2> QED BY <1>1, <1>2, LeastIn
<1>4. n - m \in T
  BY <1>3
<1>5. ASSUME NEW k \in T PROVE n - m >= k
  <2>1. n - k \in Nat /\ n - (n - k) = k
    OBVIOUS
  <2>2. n - k \in U
    BY <2>1
  <2>3. m <= n - k /\ m \in Nat
    BY <1>3, <2>2
  <2> QED BY <2>1, <2>3
<1>6. \E i \in T : \A k \in T : i >= k
  BY <1>4, <1>5
<1> QED BY <1>6 DEF Greatest

LEMMA NothingIs ==
    ASSUME SdsAssumption, NEW x, NEW t, Good(x, t)
    PROVE  Good(sdssetlen(Zero(Write(x, 0, <<>>), 0), 0), <<>>)
<1> DEFINE u == <<>>
<1>1. u \in Seq(Letters) /\ Len(u) = 0
  OBVIOUS
<1> HIDE DEF u
<1>2. Len(u) <= sdsalloc(x)
  <2>1. x.len = Len(t) /\ Len(t) \in Nat /\ x.alloc \in Nat
    BY GoodFacts
  <2> QED BY <1>1, <2>1 DEF sdsalloc
<1>3. Good(sdssetlen(Zero(Write(x, 0, u), Len(u)), Len(u)), u)
  BY <1>1, <1>2, Front
<1> QED BY <1>1, <1>3 DEF u

LEMMA TrimIs ==
    ASSUME SdsAssumption, Good(s, str), NEW cset \in SUBSET Chars
    PROVE  Good(sdstrim(s, cset), Trimmed(cset))
<1> DEFINE n    == Len(str)
           K    == {i \in 1..n : str[i] \notin cset}
           kept == {i \in 1..s.len : s.buf[i] \notin cset}
           sp   == IF kept = {} THEN s.len + 1 ELSE Least(kept)
           down == {i \in sp..s.len : i = sp \/ s.buf[i] \notin cset}
           ep   == IF down = {} THEN s.len ELSE Greatest(down)
           len  == IF sp > ep THEN 0 ELSE ep - sp + 1
           r    == sdssetlen(Zero(Write(s, 0, SubSeq(s.buf, sp, sp + len - 1)), len), len)
<1>1. /\ n \in Nat /\ s.len = n /\ \A i \in 1..n : s.buf[i] = str[i]
      /\ s.buf \in Seq(Bytes) /\ n < Len(s.buf) /\ Len(s.buf) \in Nat
  BY GoodFacts
<1>2. sdstrim(s, cset) = r
  BY DEF sdstrim
<1>3. Trimmed(cset) = Between(K)
  BY DEF Trimmed
<1>4. kept = K
  BY <1>1
<1>5. CASE K = {}
  <2>1. sp = n + 1
    BY <1>1, <1>4, <1>5
  <2>2. down = {}
    <3> HIDE DEF sp
    <3> QED BY <1>1, <2>1
  <2>3. ep = n
    BY <1>1, <2>2
  <2> HIDE DEF sp, ep
  <2>4. len = 0
    BY <1>1, <2>1, <2>3
  <2>5. SubSeq(s.buf, sp, sp + len - 1) = <<>>
    <3> DEFINE w == SubSeq(s.buf, n + 1, n)
    <3>1. sp + len - 1 = n
      BY <1>1, <2>1, <2>4
    <3>2. \A i \in (n + 1)..n : s.buf[i] \in Bytes
      BY <1>1
    <3>3. n + 1 \in Nat
      BY <1>1
    <3>4. w \in Seq(Bytes) /\ Len(w) = IF n + 1 <= n THEN n - (n + 1) + 1 ELSE 0
      <4> HIDE DEF n
      <4> QED BY <1>1, <3>2, <3>3, SubSeqProperties
    <3>5. Len(w) = 0
      BY <1>1, <3>4
    <3> HIDE DEF w
    <3>6. w = <<>>
      BY <3>4, <3>5, EmptySeq
    <3> QED BY <2>1, <3>1, <3>6 DEF w
  <2> HIDE DEF len
  <2>6. r = sdssetlen(Zero(Write(s, 0, <<>>), 0), 0)
    BY <2>4, <2>5
  <2>7. Between(K) = <<>>
    BY <1>5 DEF Between
  <2> HIDE DEF r, K
  <2> QED BY <1>2, <1>3, <2>6, <2>7, NothingIs
<1>6. CASE K # {}
  <2>1. sp = Least(K)
    BY <1>4, <1>6
  <2>2. K \in SUBSET Nat /\ K \in SUBSET (0..n)
    BY <1>1
  <2> HIDE DEF sp
  <2>3. sp \in K /\ \A k \in K : sp <= k
    <3> HIDE DEF K
    <3> QED BY <1>6, <2>1, <2>2, LeastOf
  <2>4. sp \in Nat /\ sp >= 1 /\ sp <= n /\ str[sp] \notin cset
    BY <1>1, <2>3
  <2>5. down = K
    <3>1. ASSUME NEW i \in down PROVE i \in K
      <4>1. i \in 1..n
        BY <1>1, <2>4, <3>1
      <4>2. s.buf[i] \notin cset
        BY <1>1, <2>4, <3>1
      <4> QED BY <1>1, <4>1, <4>2
    <3>2. ASSUME NEW i \in K PROVE i \in down
      <4>1. sp <= i /\ i \in 1..n /\ str[i] \notin cset
        BY <2>3
      <4>2. i \in sp..s.len
        BY <1>1, <2>4, <4>1
      <4> QED BY <1>1, <4>1, <4>2
    <3> QED BY <3>1, <3>2
  <2> HIDE DEF down
  <2>6. ep = Greatest(K)
    BY <1>6, <2>5
  <2> HIDE DEF ep
  <2>7. ep \in K /\ \A k \in K : ep >= k
    <3> HIDE DEF K, n
    <3> QED BY <1>1, <1>6, <2>2, <2>6, GreatestOf
  <2>8. ep \in Nat /\ ep <= n /\ sp <= ep
    BY <1>1, <2>3, <2>7
  <2>9. len = ep - sp + 1 /\ sp + len - 1 = ep
    BY <2>4, <2>8
  <2> HIDE DEF len
  <2>10. r = sdssetlen(Zero(Write(s, 0, SubSeq(s.buf, sp, ep)), len), len)
    BY <2>9
  <2> DEFINE w == SubSeq(str, sp, ep)
  <2>11. Between(K) = w
    BY <1>6, <2>1, <2>6 DEF Between
  <2>12. sp <= ep + 1 /\ w = SubSeq(str, sp, ep)
    BY <2>4, <2>8
  <2> HIDE DEF w, r, K
  <2>13. Good(r, w)
    BY <2>4, <2>8, <2>9, <2>10, <2>12, PartIs DEF n
  <2> QED BY <1>2, <1>3, <2>11, <2>13
<1> HIDE DEF K, r
<1> QED BY <1>5, <1>6

LEMMA RangeIs ==
    ASSUME SdsAssumption, Good(s, str), NEW start \in Int, NEW end \in Int
    PROVE  Good(sdsrange(s, start, end), Sliced(start, end))
<1> DEFINE L == Len(str)
           a == IF start >= 0 THEN start ELSE IF L + start < 0 THEN 0 ELSE L + start
           b == IF end >= 0 THEN end ELSE IF L + end < 0 THEN 0 ELSE L + end
           n == IF a > b \/ a >= L THEN 0 ELSE (IF b >= L THEN L - 1 ELSE b) - a + 1
           place(i) == IF i >= 0 THEN i ELSE IF i < -L THEN 0 ELSE L + i
           K == {i \in 1..L : place(start) <= i - 1 /\ i - 1 <= place(end)}
           r == sdssetlen(Zero(Write(s, 0, SubSeq(s.buf, a + 1, a + n)), n), n)
<1>1. L \in Nat /\ s.len = L /\ s.buf \in Seq(Bytes) /\ str \in Seq(Letters)
  BY GoodFacts
<1>2. sdsrange(s, start, end) = IF L = 0 THEN s ELSE r
  BY <1>1 DEF sdsrange
<1>3. Sliced(start, end) = Between(K)
  BY DEF Sliced
<1>4. a = place(start) /\ b = place(end) /\ a \in Nat /\ b \in Nat
  BY <1>1
<1>5. K = {i \in 1..L : a <= i - 1 /\ i - 1 <= b}
  BY <1>4
<1> HIDE DEF a, b, K, place
<1>6. CASE L = 0
  <2>1. K = {}
    BY <1>5, <1>6
  <2>2. Between(K) = <<>>
    BY <2>1 DEF Between
  <2>3. str = <<>>
    BY <1>1, <1>6, EmptySeq
  <2> HIDE DEF L, r
  <2> QED BY <1>2, <1>3, <1>6, <2>2, <2>3
<1>7. CASE L # 0 /\ (a > b \/ a >= L)
  <2>1. K = {}
    BY <1>1, <1>4, <1>5, <1>7
  <2>2. Between(K) = <<>>
    BY <2>1 DEF Between
  <2>3. n = 0
    BY <1>7
  <2> HIDE DEF n
  <2>4. SubSeq(s.buf, a + 1, a + n) = <<>>
    <3> DEFINE w == SubSeq(s.buf, a + 1, a)
    <3>1. a + n = a /\ a + 1 \in Nat
      BY <1>4, <2>3
    <3>2. \A i \in (a + 1)..a : s.buf[i] \in Bytes
      BY <1>4
    <3>3. w \in Seq(Bytes) /\ Len(w) = IF a + 1 <= a THEN a - (a + 1) + 1 ELSE 0
      BY <1>1, <1>4, <3>1, <3>2, SubSeqProperties
    <3>4. Len(w) = 0
      BY <1>4, <3>3
    <3> HIDE DEF w
    <3>5. w = <<>>
      BY <3>3, <3>4, EmptySeq
    <3> QED BY <3>1, <3>5 DEF w
  <2>5. r = sdssetlen(Zero(Write(s, 0, <<>>), 0), 0)
    BY <2>3, <2>4
  <2> HIDE DEF r, L
  <2> QED BY <1>2, <1>3, <1>7, <2>2, <2>5, NothingIs
<1>8. CASE L # 0 /\ ~(a > b \/ a >= L)
  <2> DEFINE l == IF b >= L THEN L ELSE b + 1
             f == a + 1
             w == SubSeq(str, f, l)
  <2>1. l \in Nat /\ f \in Nat /\ f >= 1 /\ f <= l /\ l <= L /\ a + n = l /\ n = l - f + 1
    BY <1>1, <1>4, <1>8, SMTT(30)
  <2>2. f \in K /\ l \in K /\ \A k \in K : f <= k /\ k <= l
    BY <1>1, <1>4, <1>5, <1>8
  <2>3. K \in SUBSET Nat /\ K \in SUBSET (0..L) /\ K # {}
    BY <1>1, <1>5, <2>2
  <2>4. r = sdssetlen(Zero(Write(s, 0, SubSeq(s.buf, f, l)), n), n)
    BY <2>1
  <2> HIDE DEF l, f, n, r
  <2>5. Least(K) \in K /\ \A k \in K : Least(K) <= k
    BY <2>3, LeastOf
  <2>6. Greatest(K) \in K /\ \A k \in K : Greatest(K) >= k
    <3> HIDE DEF L
    <3> QED BY <1>1, <2>3, GreatestOf
  <2>7. Least(K) = f
    <3>1. Least(K) <= f /\ f <= Least(K) /\ Least(K) \in Nat
      BY <2>2, <2>3, <2>5
    <3> QED BY <2>1, <3>1
  <2>8. Greatest(K) = l
    <3>1. Greatest(K) <= l /\ l <= Greatest(K) /\ Greatest(K) \in Nat
      BY <2>2, <2>3, <2>6
    <3> QED BY <2>1, <3>1
  <2>9. Between(K) = w
    BY <2>3, <2>7, <2>8 DEF Between
  <2>10. f <= l + 1 /\ w = SubSeq(str, f, l)
    BY <2>1
  <2> HIDE DEF w
  <2>11. Good(r, w)
    BY <2>1, <2>4, <2>10, PartIs DEF L
  <2> HIDE DEF L
  <2> QED BY <1>2, <1>3, <1>8, <2>9, <2>11
<1> HIDE DEF L, n, r
<1> QED BY <1>6, <1>7, <1>8

LEMMA MapIs ==
    ASSUME SdsAssumption, NEW x, NEW t, Good(x, t), NEW from \in Chars, NEW to \in Chars
    PROVE  Good(sdsmapchars(x, from, to), [i \in DOMAIN t |-> IF t[i] = from THEN to ELSE t[i]])
<1> DEFINE n == Len(t)
           u == [i \in 1..n |-> IF x.buf[i] = from THEN to ELSE x.buf[i]]
           w == [i \in DOMAIN t |-> IF t[i] = from THEN to ELSE t[i]]
           y == Write(x, 0, u)
<1>1. /\ x \in SdsType /\ t \in Seq(Letters) /\ n \in Nat /\ x.len = n /\ x.over = FALSE
      /\ Len(x.buf) \in Nat /\ n < Len(x.buf) /\ n < Widths[x.type] /\ x.alloc \in Nat
      /\ x.type # "t5" => n <= x.alloc /\ x.alloc < Len(x.buf) /\ x.alloc < Widths[x.type]
      /\ \A i \in 1..n : x.buf[i] = t[i]
      /\ x.buf[n + 1] = Nul
  BY GoodFacts
<1>2. \A i \in 1..n : t[i] \in Letters /\ to \in Letters
  BY <1>1 DEF Letters
<1>3. DOMAIN t = 1..n
  BY <1>1
<1>4. w \in Seq(Letters) /\ Len(w) = n
  <2> HIDE DEF n
  <2>1. w = [i \in 1..n |-> IF t[i] = from THEN to ELSE t[i]]
    BY <1>3
  <2>2. w \in [1..n -> Letters]
    BY <1>2, <2>1
  <2> HIDE DEF w
  <2> QED BY <1>1, <2>2
<1>5. u = w
  BY <1>1, <1>3
<1>6. \A i \in 1..n : w[i] = IF t[i] = from THEN to ELSE t[i]
  BY <1>3
<1> HIDE DEF u, w
<1>7. w \in Seq(Bytes) /\ 0 + Len(w) <= Len(x.buf)
  BY <1>1, <1>4, LettersAreBytes
<1>8. y = Write(x, 0, w)
  BY <1>5
<1>9. sdsmapchars(x, from, to) = y
  BY <1>1 DEF sdsmapchars, u
<1> HIDE DEF y
<1>10. /\ y \in SdsType /\ y.type = x.type /\ y.len = x.len /\ y.alloc = x.alloc
       /\ y.over = x.over /\ Len(y.buf) = Len(x.buf)
       /\ \A i \in 1..Len(x.buf) :
             y.buf[i] = IF 0 < i /\ i <= 0 + Len(w) THEN w[i - 0] ELSE x.buf[i]
  BY <1>1, <1>7, <1>8, Stores
<1> HIDE DEF n
<1>11. \A i \in 1..n : y.buf[i] = w[i]
  <2> SUFFICES ASSUME NEW i \in 1..n PROVE y.buf[i] = w[i]
    OBVIOUS
  <2>1. i \in 1..Len(x.buf) /\ 0 < i /\ i <= 0 + Len(w) /\ i - 0 = i
    BY <1>1, <1>4
  <2> QED BY <1>10, <2>1
<1>12. y.buf[n + 1] = Nul
  <2>1. n + 1 \in 1..Len(x.buf) /\ ~(n + 1 <= 0 + Len(w))
    BY <1>1, <1>4
  <2> QED BY <1>1, <1>10, <2>1
<1>13. Fits(y, n)
  BY <1>1, <1>10 DEF Fits
<1>14. Good(y, w)
  BY <1>1, <1>4, <1>10, <1>11, <1>12, <1>13 DEF Good, Begins
<1> QED BY <1>9, <1>14 DEF w

LEMMA NewIs ==
    ASSUME SdsAssumption, NEW t \in Seq(Letters), Len(t) <= MaxLen
    PROVE  Good(sdsnewlen(t), t)
<1> DEFINE n == Len(t)
           type == IF t = <<>> THEN "t8" ELSE sdsReqType(n)
           b == Memory(n, <<>>)
           x == [type |-> type, len |-> 0, alloc |-> 0, buf |-> b, over |-> FALSE]
           p == sdssetlen(x, n)
           q == sdssetalloc(p, n)
           y == Write(q, 0, t)
           z == Zero(y, n)
<1>1. n \in Nat /\ n < Widths.t16 /\ t \in Seq(Bytes)
  BY LettersAreBytes DEF SdsAssumption
<1>2. type \in {"t5", "t8", "t16"} /\ n < Widths[type]
  <2>1. CASE t = <<>>
    <3>1. type = "t8" /\ n = 0
      BY <2>1
    <3>2. Widths.t8 \in Nat \ {0}
      BY DEF SdsAssumption
    <3> QED BY <3>1, <3>2
  <2>2. CASE t # <<>>
    <3>1. type = sdsReqType(n)
      BY <2>2
    <3> HIDE DEF type
    <3> QED BY <1>1, <3>1, ReqType
  <2> QED BY <2>1, <2>2
<1>3. sdsnewlen(t) = z
  BY DEF sdsnewlen
<1>4. b \in Seq(Bytes) /\ Len(b) > n /\ Len(b) \in Nat
  <2> DEFINE none == <<>>
  <2>1. none \in Seq(Bytes)
    OBVIOUS
  <2>2. b = Memory(n, none)
    OBVIOUS
  <2> HIDE DEF none, b, n
  <2>3. b \in Seq(Bytes) /\ Len(b) > n
    BY <1>1, <2>1, <2>2, MemoryIs
  <2> QED BY <2>3
<1> HIDE DEF type, b, n
<1>5. x \in SdsType /\ x.type = type /\ x.buf = b /\ x.over = FALSE
  BY <1>2, <1>4 DEF SdsType
<1> HIDE DEF x
<1>6. /\ p \in SdsType /\ p.len = n /\ p.type = type /\ p.buf = b /\ p.over = FALSE
  BY <1>1, <1>2, <1>5, SetLen
<1> HIDE DEF p
<1>7. /\ q \in SdsType /\ q.alloc = (IF type = "t5" THEN p.alloc ELSE n)
      /\ q.type = type /\ q.len = n /\ q.buf = b /\ q.over = FALSE
  BY <1>1, <1>2, <1>6, SetAlloc
<1> HIDE DEF q
<1>8. 0 + Len(t) <= Len(q.buf)
  BY <1>1, <1>4, <1>7 DEF n
<1>9. /\ y \in SdsType /\ y.type = q.type /\ y.len = q.len /\ y.alloc = q.alloc
      /\ y.over = q.over /\ Len(y.buf) = Len(q.buf)
      /\ \A i \in 1..Len(q.buf) : y.buf[i] = IF 0 < i /\ i <= 0 + Len(t) THEN t[i - 0] ELSE q.buf[i]
  BY <1>1, <1>7, <1>8, Stores
<1> HIDE DEF y
<1>10. /\ z \in SdsType /\ z.type = y.type /\ z.len = y.len /\ z.alloc = y.alloc
       /\ z.over = y.over /\ Len(z.buf) = Len(y.buf) /\ z.buf[n + 1] = Nul
       /\ \A i \in 1..Len(y.buf) : i # n + 1 => z.buf[i] = y.buf[i]
  BY <1>1, <1>4, <1>7, <1>9, ZeroAt
<1> HIDE DEF z
<1>11. Fits(z, n)
  BY <1>1, <1>2, <1>4, <1>7, <1>9, <1>10 DEF Fits
<1>12. ASSUME NEW i \in 1..n PROVE z.buf[i] = t[i]
  <2>1. i \in 1..Len(q.buf) /\ i # n + 1 /\ 0 < i /\ i <= 0 + Len(t) /\ i - 0 = i
    BY <1>1, <1>4, <1>7 DEF n
  <2> QED BY <1>9, <1>10, <2>1
<1> QED BY <1>3, <1>7, <1>9, <1>10, <1>11, <1>12 DEF Good, Begins, n

LEMMA TextsAre ==
    ASSUME SdsAssumption, NEW t \in Texts
    PROVE  t \in Seq(Letters) /\ Len(t) \in 0..3 /\ Len(t) <= MaxLen
<1>1. Nul \in Letters /\ Chars \subseteq Letters
  BY DEF Letters
<1>2. CASE t = <<>>
  BY <1>2 DEF SdsAssumption
<1>3. CASE t \in {<<c>> : c \in Chars \cup {Nul}}
  <2>1. PICK c \in Letters : t = <<c>>
    BY <1>3 DEF Letters
  <2>2. t \in Seq(Letters) /\ Len(t) = 1
    BY <2>1
  <2> QED BY <2>2 DEF SdsAssumption
<1>4. CASE t \in {<<c, Nul, d>> : c, d \in Chars}
  <2>1. PICK c \in Letters, d \in Letters : t = <<c, Nul, d>>
    BY <1>1, <1>4
  <2>2. t \in Seq(Letters) /\ Len(t) = 3
    BY <1>1, <2>1
  <2> QED BY <2>2 DEF SdsAssumption
<1> QED BY <1>2, <1>3, <1>4 DEF Texts

-------------------------------------------------------------------------------
(* The invariant *)

LEMMA InvInit ==
    ASSUME SdsAssumption, SdsInit
    PROVE  Inv
<1>1. PICK t \in Texts : s = sdsnewlen(t) /\ str = t
  BY DEF SdsInit
<1>2. Good(sdsnewlen(t), t) /\ Len(t) <= MaxLen
  BY TextsAre, NewIs
<1> QED BY <1>1, <1>2 DEF Inv

LEMMA OpKeeps ==
    ASSUME NEW x, NEW t, Op(x, t), Len(t) <= MaxLen => Good(x, t)
    PROVE  Inv'
BY DEF Op, Inv, Good, Fits, Begins

LEMMA InvNext ==
    ASSUME SdsAssumption, Inv, [SdsNext]_sdsVars
    PROVE  Inv'
<1> USE DEF Inv
<1>1. Good(s, str) /\ Len(str) <= MaxLen /\ Len(str) \in Nat /\ MaxLen \in Nat /\ str \in Seq(Letters)
  BY GoodFacts DEF SdsAssumption
<1>2. ASSUME NEW t \in Texts PROVE t \in Seq(Letters) /\ Len(t) <= MaxLen /\ Len(t) \in 0..3
  BY TextsAre
<1>3. \A c \in Chars : <<c>> \in Seq(Letters) /\ Len(<<c>>) = 1
  BY DEF Letters
<1> HIDE DEF Inv
<1>4. CASE Cat
  <2>1. PICK t \in Texts : Op(sdscatlen(s, t), str \o t)
    BY <1>4 DEF Cat
  <2>2. Good(sdscatlen(s, t), str \o t)
    <3>1. Len(str) + Len(t) <= 2 * MaxLen
      BY <1>1, <1>2
    <3> QED BY <1>1, <1>2, <3>1, CatIs
  <2> QED BY <2>1, <2>2, OpKeeps
<1>5. CASE Copy
  <2>1. PICK t \in Texts : Op(sdscpylen(s, t), t)
    BY <1>5 DEF Copy
  <2>2. Good(sdscpylen(s, t), t)
    BY <1>1, <1>2, CopyIs
  <2> QED BY <2>1, <2>2, OpKeeps
<1>6. CASE Printf
  <2>1. PICK t \in Texts : Op(sdscatvprintf(s, t), str \o CString(t))
    BY <1>6 DEF Printf
  <2>2. Good(sdscatvprintf(s, t), str \o CString(t))
    <3>1. Len(str) + Len(t) <= 2 * MaxLen
      BY <1>1, <1>2
    <3> QED BY <1>1, <1>2, <3>1, PrintfIs
  <2> QED BY <2>1, <2>2, OpKeeps
<1>7. CASE Format
  <2>1. PICK t \in Texts, c \in Chars :
           Op(sdscatfmt(s, <<<<c>>, t, <<c>>>>), str \o <<c>> \o t \o <<c>>)
    BY <1>7 DEF Format
  <2> DEFINE u == <<c>>
  <2>2. u \in Seq(Letters) /\ Len(u) = 1 /\ t \in Seq(Letters) /\ Len(t) \in 0..3
    BY <1>2, <1>3
  <2>3. Op(sdscatfmt(s, <<u, t, u>>), str \o u \o t \o u)
    BY <2>1
  <2> HIDE DEF u
  <2>4. str \o u \in Seq(Letters) /\ Len(str \o u) = Len(str) + Len(u)
    BY <1>1, <2>2, Joined
  <2>5. str \o u \o t \in Seq(Letters) /\ Len(str \o u \o t) = Len(str \o u) + Len(t)
    BY <2>2, <2>4, Joined
  <2>6. Len(str \o u \o t \o u) = Len(str \o u \o t) + Len(u)
    BY <2>2, <2>5, Joined
  <2>7. ASSUME Len(str \o u \o t \o u) <= MaxLen
        PROVE  Good(sdscatfmt(s, <<u, t, u>>), str \o u \o t \o u)
    <3>1. Len(str) + Len(u) + Len(t) + Len(u) <= MaxLen
      BY <1>1, <2>2, <2>4, <2>5, <2>6, <2>7
    <3> QED BY <1>1, <2>2, <3>1, FormatIs
  <2> QED BY <2>3, <2>7, OpKeeps
<1>8. CASE Grow
  <2>1. PICK n \in 0..MaxLen :
           Op(sdsgrowzero(s, n), IF n <= Len(str) THEN str ELSE str \o Blanks(n - Len(str)))
    BY <1>8 DEF Grow
  <2>2. CASE n <= Len(str)
    <3>1. sdsgrowzero(s, n) = s
      <4>1. s.len = Len(str)
        BY <1>1, GoodFacts
      <4> QED BY <2>2, <4>1 DEF sdsgrowzero
    <3>2. Op(s, str)
      BY <2>1, <2>2, <3>1
    <3> QED BY <1>1, <3>2, OpKeeps
  <2>3. CASE ~(n <= Len(str))
    <3>1. Op(sdsgrowzero(s, n), str \o Blanks(n - Len(str)))
      BY <2>1, <2>3
    <3>2. Good(sdsgrowzero(s, n), str \o Blanks(n - Len(str)))
      BY <1>1, <2>3, GrowIs
    <3> QED BY <3>1, <3>2, OpKeeps
  <2> QED BY <2>2, <2>3
<1>9. CASE Reserve
  <2>1. PICK n \in 1..MaxLen : Op(sdsMakeRoomFor(s, n), str)
    BY <1>9 DEF Reserve
  <2>2. n \in Nat /\ Len(str) + n <= 2 * MaxLen
    BY <1>1
  <2>3. Good(sdsMakeRoomFor(s, n), str)
    BY <1>1, <2>2, Room
  <2> QED BY <2>1, <2>3, OpKeeps
<1>10. CASE ReadInto
  <2>1. PICK n \in 1..MaxLen, t \in Texts :
           /\ Len(t) <= n
           /\ Op(sdsIncrLen(Write(sdsMakeRoomFor(s, n), s.len, t), Len(t)), str \o t)
    BY <1>10 DEF ReadInto
  <2>2. Good(sdsIncrLen(Write(sdsMakeRoomFor(s, n), s.len, t), Len(t)), str \o t)
    BY <1>1, <1>2, <2>1, ReadIs
  <2> QED BY <2>1, <2>2, OpKeeps
<1>11. CASE Shorten
  <2>1. PICK n \in 1..Len(str) : Op(sdsIncrLen(s, -n), SubSeq(str, 1, Len(str) - n))
    BY <1>11 DEF Shorten
  <2>2. Good(sdsIncrLen(s, -n), SubSeq(str, 1, Len(str) - n))
    BY <1>1, ShortenIs
  <2> QED BY <2>1, <2>2, OpKeeps
<1>12. CASE Shrink
  <2>1. Good(sdsRemoveFreeSpace(s), str)
    BY <1>1, ShrinkIs
  <2> QED BY <1>12, <2>1, OpKeeps DEF Shrink
<1>13. CASE Clear
  <2>1. Good(sdsclear(s), <<>>)
    BY <1>1, ClearIs
  <2> QED BY <1>13, <2>1, OpKeeps DEF Clear
<1>14. CASE Cut
  <2>1. PICK i \in 1..Len(str) :
           Op(sdsupdatelen(Zero(s, i - 1)), CString(SubSeq(str, 1, i - 1)))
    BY <1>14 DEF Cut
  <2>2. Good(sdsupdatelen(Zero(s, i - 1)), CString(SubSeq(str, 1, i - 1)))
    BY <1>1, CutIs
  <2> QED BY <2>1, <2>2, OpKeeps
<1>15. CASE Trim
  <2>1. PICK cset \in SUBSET Chars : Op(sdstrim(s, cset), Trimmed(cset))
    BY <1>15 DEF Trim
  <2>2. Good(sdstrim(s, cset), Trimmed(cset))
    BY <1>1, TrimIs
  <2> QED BY <2>1, <2>2, OpKeeps
<1>16. CASE RangeOf
  <2>1. PICK a \in -MaxLen..MaxLen, b \in -MaxLen..MaxLen : Op(sdsrange(s, a, b), Sliced(a, b))
    BY <1>16 DEF RangeOf
  <2>2. a \in Int /\ b \in Int
    BY <1>1
  <2>3. Good(sdsrange(s, a, b), Sliced(a, b))
    BY <1>1, <2>2, RangeIs
  <2> QED BY <2>1, <2>3, OpKeeps
<1>17. CASE Map
  <2>1. PICK c \in Chars, d \in Chars :
           Op(sdsmapchars(s, c, d), [i \in DOMAIN str |-> IF str[i] = c THEN d ELSE str[i]])
    BY <1>17 DEF Map
  <2>2. Good(sdsmapchars(s, c, d), [i \in DOMAIN str |-> IF str[i] = c THEN d ELSE str[i]])
    BY <1>1, MapIs
  <2> QED BY <2>1, <2>2, OpKeeps
<1>18. CASE UNCHANGED sdsVars
  BY <1>18 DEF sdsVars, Inv, Good, Fits, Begins
<1> QED BY <1>4, <1>5, <1>6, <1>7, <1>8, <1>9, <1>10, <1>11, <1>12, <1>13, <1>14, <1>15, <1>16,
           <1>17, <1>18 DEF SdsNext

LEMMA InvSuffices ==
    ASSUME SdsAssumption, Inv
    PROVE  SdsIsString
<1>1. /\ s \in SdsType /\ str \in Seq(Letters) /\ Len(str) \in Nat /\ s.len = Len(str)
      /\ s.over = FALSE /\ Len(s.buf) \in Nat /\ Len(str) < Len(s.buf)
      /\ s.type # "t5" => Len(str) <= s.alloc /\ s.alloc < Len(s.buf)
      /\ \A i \in 1..Len(str) : s.buf[i] = str[i]
      /\ s.buf[Len(str) + 1] = Nul
  BY GoodFacts DEF Inv
<1> DEFINE n == Len(str)
           k == Keep(s, n)
<1>2. k \in Seq(Bytes) /\ Len(k) = n /\ \A i \in 1..n : k[i] = s.buf[i]
  <2>1. n <= Len(s.buf) /\ n \in Nat
    BY <1>1
  <2> HIDE DEF n
  <2> QED BY <1>1, <2>1, KeepIs
<1> HIDE DEF k
<1>3. k = str
  BY <1>1, <1>2, SeqEqual
<1> QED BY <1>1, <1>3 DEF SdsIsString, sdsalloc, k

(* After any calls on it, in any order, an sds is the string that is meant  *)
(* and ended by a NUL; no call has written outside its memory or met an    *)
(* assertion, and the header tells no more free space than there is:       *)
(* whichever type the string has grown or shrunk into, for every width of  *)
(* the types, every preallocation and every length the widest type can     *)
(* hold.                                                                   *)
THEOREM SdsHoldsTheString ==
    ASSUME SdsAssumption
    PROVE  SdsSpec => []SdsIsString
<1>1. SdsInit => Inv
  BY InvInit
<1>2. Inv /\ [SdsNext]_sdsVars => Inv'
  BY InvNext
<1>3. Inv => SdsIsString
  BY InvSuffices
<1> QED BY <1>1, <1>2, <1>3, PTL DEF SdsSpec
==================================================================================
