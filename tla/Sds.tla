---------------------------------- MODULE Sds ----------------------------------
(***************************************************************************)
(* The strings of redis/sds.c in memory: a header whose type bounds the    *)
(* length it can hold, the space that is reserved, the bytes.  str is the  *)
(* string that is meant.  Bytes are members of Chars, NUL, or garbage.     *)
(***************************************************************************)
EXTENDS Integers, Sequences

CONSTANTS
    Chars,              \* printable characters
    Widths,             \* lengths each type can hold: [t5, t8, t16]
    SDS_MAX_PREALLOC,
    MaxLen,             \* bound: of a string
    MaxOps              \* bound: operations on the string

VARIABLES
    s,      \* the sds: type, len, alloc (of no meaning in t5), buf, over
    str,    \* the string that is meant
    ops     \* operations so far

sdsVars == <<s, str, ops>>

Nul == "NUL"
Garbage == "garbage"
Least(S) == CHOOSE i \in S : \A j \in S : i <= j
Greatest(S) == CHOOSE i \in S : \A j \in S : i >= j
CString(t) ==
    LET nuls == {i \in 1..Len(t) : t[i] = Nul}
    IN  IF nuls = {} THEN t ELSE SubSeq(t, 1, Least(nuls) - 1)

-----------------------------------------------------------------------------
(* Header *)
sdsReqType(size) ==
    IF size < Widths.t5 THEN "t5" ELSE IF size < Widths.t8 - 1 THEN "t8" ELSE "t16"

sdslen(x)   == x.len
sdsavail(x) == IF x.type = "t5" THEN 0 ELSE x.alloc - x.len
sdsalloc(x) == IF x.type = "t5" THEN x.len ELSE x.alloc

(* The fields are as wide as the type says. *)
sdssetlen(x, n)   == [x EXCEPT !.len = n % Widths[x.type]]
sdsinclen(x, n)   == sdssetlen(x, x.len + n)
sdssetalloc(x, n) == IF x.type = "t5" THEN x ELSE [x EXCEPT !.alloc = n % Widths[x.type]]

(* A store of bytes at offset at; over: outside of the memory there is. *)
Write(x, at, t) ==
    IF at + Len(t) > Len(x.buf) THEN [x EXCEPT !.over = TRUE]
    ELSE [x EXCEPT !.buf = SubSeq(@, 1, at) \o t \o SubSeq(@, at + Len(t) + 1, Len(@))]
Zero(x, at) == Write(x, at, <<Nul>>)

(* malloc and realloc of a string of n bytes that keeps the first kept. *)
Memory(n, kept) == kept \o [i \in 1..(n + 1 - Len(kept)) |-> Garbage]
Keep(x, n) == SubSeq(x.buf, 1, n)

-----------------------------------------------------------------------------
(* Operations *)
sdsnewlen(t) ==
    LET type == IF t = <<>> THEN "t8" ELSE sdsReqType(Len(t))
        x == [type |-> type, len |-> 0, alloc |-> 0, buf |-> Memory(Len(t), <<>>), over |-> FALSE]
    IN  Zero(Write(sdssetalloc(sdssetlen(x, Len(t)), Len(t)), 0, t), Len(t))

(* Mutant: the type is chosen for the string, not for the space that is    *)
(* reserved.                                                               *)
sdsMakeRoomFor_TypeOfLen(x, addlen) ==
    LET want == x.len + addlen
        newlen == IF want < SDS_MAX_PREALLOC THEN want * 2 ELSE want + SDS_MAX_PREALLOC
        type == IF sdsReqType(want) = "t5" THEN "t8" ELSE sdsReqType(want)
    IN  IF sdsavail(x) >= addlen THEN x
        ELSE sdssetalloc(sdssetlen([x EXCEPT !.type = type,
                           !.buf = Memory(newlen, Keep(x, x.len + 1))], x.len), newlen)

(* Twice what is needed, or what is needed and SDS_MAX_PREALLOC; type 5    *)
(* cannot remember free space and is left.                                 *)
sdsMakeRoomFor(x, addlen) ==
    LET want == x.len + addlen
        newlen == IF want < SDS_MAX_PREALLOC THEN want * 2 ELSE want + SDS_MAX_PREALLOC
        type == IF sdsReqType(newlen) = "t5" THEN "t8" ELSE sdsReqType(newlen)
        moved == [x EXCEPT !.type = type, !.buf = Memory(newlen, Keep(x, x.len + 1))]
        grown == [x EXCEPT !.buf = Memory(newlen, @)]
    IN  IF sdsavail(x) >= addlen THEN x
        ELSE IF x.type = type THEN sdssetalloc(grown, newlen)
        ELSE sdssetalloc(sdssetlen(moved, x.len), newlen)

sdsRemoveFreeSpace(x) ==
    sdssetalloc(sdssetlen([x EXCEPT !.type = sdsReqType(x.len), !.buf = Keep(x, x.len + 1)],
                          x.len), x.len)

sdsclear(x) == Zero(sdssetlen(x, 0), 0)
sdsupdatelen(x) == sdssetlen(x, Len(CString(x.buf)))

(* Its assertions: the space must be there. *)
sdsIncrLen(x, incr) ==
    LET fits == IF x.type = "t5"
                THEN (incr > 0 /\ x.len + incr < Widths.t5) \/ (incr < 0 /\ x.len >= -incr)
                ELSE (incr >= 0 /\ x.alloc - x.len >= incr) \/ (incr < 0 /\ x.len >= -incr)
    IN  IF ~fits THEN [x EXCEPT !.over = TRUE] ELSE Zero(sdsinclen(x, incr), x.len + incr)

sdsgrowzero(x, n) ==
    IF n <= x.len THEN x
    ELSE sdssetlen(Write(sdsMakeRoomFor(x, n - x.len), x.len,
                         [i \in 1..(n - x.len + 1) |-> Nul]), n)

sdscatlen(x, t) ==
    LET n == x.len + Len(t)
    IN  Zero(sdssetlen(Write(sdsMakeRoomFor(x, Len(t)), x.len, t), n), n)

sdscpylen(x, t) ==
    LET y == IF sdsalloc(x) < Len(t) THEN sdsMakeRoomFor(x, Len(t) - x.len) ELSE x
    IN  sdssetlen(Zero(Write(y, 0, t), Len(t)), Len(t))

(* vsnprintf into a buffer that is doubled until the text fits; a C string *)
(* is appended.                                                            *)
sdscatvprintf(x, text) == sdscatlen(x, CString(text))

(* A format is a sequence of texts: one character of it, or a value.  The  *)
(* terminator is written once, at the end.                                 *)
Put(y, t) ==
    LET one  == IF sdsavail(y) = 0 THEN sdsMakeRoomFor(y, 1) ELSE y
        room == IF Len(t) > 1 /\ sdsavail(one) < Len(t) THEN sdsMakeRoomFor(one, Len(t)) ELSE one
    IN  sdsinclen(Write(room, y.len, t), Len(t))
sdscatfmt(x, texts) ==
    LET put[k \in 0..Len(texts)] == IF k = 0 THEN x ELSE Put(put[k - 1], texts[k])
        end == put[Len(texts)]
    IN  Zero(end, end.len)

(* sp goes up to the end, ep goes down to sp. *)
sdstrim(x, cset) ==
    LET kept  == {i \in 1..x.len : x.buf[i] \notin cset}
        sp    == IF kept = {} THEN x.len + 1 ELSE Least(kept)
        down  == {i \in sp..x.len : i = sp \/ x.buf[i] \notin cset}
        ep    == IF down = {} THEN x.len ELSE Greatest(down)
        len   == IF sp > ep THEN 0 ELSE ep - sp + 1
    IN  sdssetlen(Zero(Write(x, 0, SubSeq(x.buf, sp, sp + len - 1)), len), len)

(* start and end as the code adjusts them, one after the other. *)
sdsrange(x, start, end) ==
    LET len == x.len
        a   == IF start >= 0 THEN start ELSE IF len + start < 0 THEN 0 ELSE len + start
        b   == IF end >= 0 THEN end ELSE IF len + end < 0 THEN 0 ELSE len + end
        n   == IF a > b \/ a >= len THEN 0 ELSE (IF b >= len THEN len - 1 ELSE b) - a + 1
    IN  IF len = 0 THEN x
        ELSE sdssetlen(Zero(Write(x, 0, SubSeq(x.buf, a + 1, a + n)), n), n)

(* sdstolower, sdstoupper and sdsmapchars: each byte on its own. *)
sdsmapchars(x, from, to) ==
    Write(x, 0, [i \in 1..x.len |-> IF x.buf[i] = from THEN to ELSE x.buf[i]])

-----------------------------------------------------------------------------
Texts == {<<>>} \cup {<<c>> : c \in Chars \cup {Nul}} \cup {<<c, Nul, d>> : c, d \in Chars}

SdsInit ==
    \E t \in Texts : s = sdsnewlen(t) /\ str = t /\ ops = 0

(* One call on the string, with what it is meant to do to it. *)
Op(result, meant) ==
    /\ ops < MaxOps /\ Len(meant) <= MaxLen
    /\ s' = result /\ str' = meant /\ ops' = ops + 1

Blanks(n) == [i \in 1..n |-> Nul]
Between(places) == IF places = {} THEN <<>> ELSE SubSeq(str, Least(places), Greatest(places))
Trimmed(cset) == Between({i \in 1..Len(str) : str[i] \notin cset})

(* The characters from place start to place end, counted from the end when *)
(* negative, and held inside the string.                                   *)
Sliced(start, end) ==
    LET place(i) == IF i >= 0 THEN i ELSE IF i < -Len(str) THEN 0 ELSE Len(str) + i
    IN  Between({i \in 1..Len(str) : place(start) <= i - 1 /\ i - 1 <= place(end)})

Cat       == \E t \in Texts : Op(sdscatlen(s, t), str \o t)
Copy      == \E t \in Texts : Op(sdscpylen(s, t), t)
Printf    == \E t \in Texts : Op(sdscatvprintf(s, t), str \o CString(t))
Format    == \E t \in Texts, c \in Chars :
                 Op(sdscatfmt(s, <<<<c>>, t, <<c>>>>), str \o <<c>> \o t \o <<c>>)
Grow      == \E n \in 0..MaxLen :
                 Op(sdsgrowzero(s, n), IF n <= Len(str) THEN str ELSE str \o Blanks(n - Len(str)))
Reserve   == \E n \in 1..MaxLen : Op(sdsMakeRoomFor(s, n), str)
ReadInto  == \E n \in 1..MaxLen, t \in Texts :
                 /\ Len(t) <= n
                 /\ Op(sdsIncrLen(Write(sdsMakeRoomFor(s, n), s.len, t), Len(t)), str \o t)
Shorten   == \E n \in 1..Len(str) : Op(sdsIncrLen(s, -n), SubSeq(str, 1, Len(str) - n))
Shrink    == Op(sdsRemoveFreeSpace(s), str)
Clear     == Op(sdsclear(s), <<>>)
Cut       == \E i \in 1..Len(str) :
                 Op(sdsupdatelen(Zero(s, i - 1)), CString(SubSeq(str, 1, i - 1)))
Trim      == \E cset \in SUBSET Chars : Op(sdstrim(s, cset), Trimmed(cset))
RangeOf   == \E a, b \in -MaxLen..MaxLen : Op(sdsrange(s, a, b), Sliced(a, b))
Map       == \E c, d \in Chars :
                 Op(sdsmapchars(s, c, d), [i \in DOMAIN str |-> IF str[i] = c THEN d ELSE str[i]])

SdsNext ==
    \/ Cat \/ Copy \/ Printf \/ Format \/ Grow \/ Reserve \/ ReadInto
    \/ Shorten \/ Shrink \/ Clear \/ Cut \/ Trim \/ RangeOf \/ Map

SdsSpec == SdsInit /\ [][SdsNext]_sdsVars

-----------------------------------------------------------------------------
(* No character is a NUL, and the widest type holds what is reserved for   *)
(* the longest string: twice what is needed, or SDS_MAX_PREALLOC more.     *)
SdsAssumption ==
    /\ Chars \cap {Nul, Garbage} = {}
    /\ Widths \in [t5 : Nat \ {0}, t8 : Nat \ {0}, t16 : Nat \ {0}] /\ Widths.t5 <= Widths.t8
    /\ MaxLen \in Nat /\ MaxLen >= 3 /\ SDS_MAX_PREALLOC \in Nat
    /\ 4 * MaxLen < Widths.t16 /\ 2 * MaxLen + SDS_MAX_PREALLOC < Widths.t16

(* After any calls on it the sds is the string that is meant, ended by a   *)
(* NUL, no call has written outside its memory or met an assertion, and    *)
(* the header tells no more free space than the memory has: whichever type *)
(* the string has grown or shrunk into.                                    *)
SdsIsString ==
    /\ ~s.over
    /\ s.len = Len(str) /\ Keep(s, s.len) = str /\ s.buf[s.len + 1] = Nul
    /\ s.len <= sdsalloc(s) /\ sdsalloc(s) < Len(s.buf)
================================================================================
