-------------------------------- MODULE MCLibs --------------------------------
(***************************************************************************)
(* Small instances of the libraries the server is built on.  They share no *)
(* state, so one run checks them side by side: part says which of them a   *)
(* behaviour is about, and the others keep their initial state.  Only two  *)
(* of them, whose names others have as well, are behind a prefix.          *)
(***************************************************************************)
EXTENDS MCHttpStream, RedisAsync, RedisDict, Sds, TLC

CONSTANTS
    LLONG_MAX, INT_MAX, MAX_DEPTH,                     \* the Redis protocol
    MaxRead,                                           \* the longest short read
    Threads, Callers, Tasks,                           \* the thread pool
    maxLargestUInt, maxLargestInt, maxInt, rightMargin \* JSON

VARIABLES
    part,
    sent, rpos, reader, replies,                       \* RedisStream
    tasks_, terminate_, atomic_, waiting, timed, at, task, done, given, needs, stop,
    doc                                                \* Json, SdsText

-----------------------------------------------------------------------------
(* What the Redis server sends, and the commands that are formatted. *)
Eol == <<"\r", "\n">>
Words == {<<>>, <<"a">>, <<" ", "%">>, Eol, [i \in 1..11 |-> "a"], <<"$", "1">> \o Eol}
Argvs == {<<>>} \cup {<<a>> : a \in Words} \cup (Words \X Words)
Formats ==
    {<<f, <<<<>>, <<" ", "%">>, <<"a">>, <<"b">>>>>> :
        f \in UNION {[1..n -> {"a", " ", "%s", "%%", "%?"}] : n \in 0..4}}
RawReplies ==
    {<<"*", "2">> \o Eol \o <<":", "1">> \o Eol \o <<"*", "2">> \o Eol \o <<"+", "a">> \o Eol
        \o <<"$", "-", "1">> \o Eol \o <<"-", "a">> \o Eol,
     <<"*", "1">> \o Eol \o <<"*", "1">> \o Eol \o <<"*", "1">> \o Eol \o <<"+", "a">> \o Eol,
     <<"*", "1">> \o Eol \o <<"*", "1">> \o Eol \o <<":", "a">> \o Eol,
     <<"+", "\r">> \o Eol \o <<"*", "0">> \o Eol \o <<"*", "1", "3">> \o Eol \o <<"+">> \o Eol,
     <<"+", "a">> \o Eol \o <<"$", "9">> \o Eol \o <<"a">> \o Eol,
     <<"*", "-", "1">> \o Eol \o <<"?">> \o Eol \o <<"+">> \o Eol}
    \cup {<<":">> \o n \o Eol \o <<"+", "a">> \o Eol :
        n \in {<<"0">>, <<"-", "0">>, <<"1", "2", "7">>, <<"1", "2", "8">>,
               <<"-", "1", "2", "8">>, <<"-", "1", "2", "9">>, <<"2", "5", "6">>,
               <<"0", "1">>, <<"-">>, <<>>, <<"1", "a">>}}

-----------------------------------------------------------------------------
(* Keys of the dictionary that meet in one chain, and some that part when  *)
(* the table grows; lengths that one, two or all types of a string hold.   *)
SmallHashes == "a" :> 2 @@ "b" :> 2 @@ "c" :> 6 @@ "d" :> 1
SmallWidths == [t5 |-> 3, t8 |-> 7, t16 |-> 32]

-----------------------------------------------------------------------------
(* JSON values and texts, and arguments for sdssplitargs. *)
Ascii == "NUL" :> 0 @@ "SOH" :> 1 @@ "BEL" :> 7 @@ "BS" :> 8 @@ "\t" :> 9 @@ "\n" :> 10
    @@ "\f" :> 12 @@ "\r" :> 13 @@ "US" :> 31 @@ " " :> 32 @@ "\"" :> 34 @@ "'" :> 39
    @@ "*" :> 42 @@ "+" :> 43 @@ "," :> 44 @@ "-" :> 45 @@ "." :> 46 @@ "/" :> 47
    @@ "0" :> 48 @@ "1" :> 49 @@ "2" :> 50 @@ "3" :> 51 @@ "4" :> 52 @@ "5" :> 53
    @@ "6" :> 54 @@ "7" :> 55 @@ "8" :> 56 @@ "9" :> 57 @@ ":" :> 58 @@ "A" :> 65
    @@ "B" :> 66 @@ "C" :> 67 @@ "D" :> 68 @@ "E" :> 69 @@ "F" :> 70 @@ "[" :> 91
    @@ "\\" :> 92 @@ "]" :> 93 @@ "a" :> 97 @@ "b" :> 98 @@ "c" :> 99 @@ "d" :> 100
    @@ "e" :> 101 @@ "f" :> 102 @@ "l" :> 108 @@ "n" :> 110 @@ "r" :> 114 @@ "s" :> 115
    @@ "t" :> 116 @@ "u" :> 117 @@ "x" :> 120 @@ "{" :> 123 @@ "}" :> 125
XByte(n) == "x" \o ToString(n)
Code == Ascii @@ [c \in {XByte(n) : n \in 127..255} |->
                      CHOOSE n \in 127..255 : XByte(n) = c]

J == INSTANCE Json
T == INSTANCE SdsText
R == INSTANCE RequestText WITH field_cnt <- 2, BufSize <- 7, PairSize <- 6
N == INSTANCE JsonTypes WITH
         maxUInt <- 15, maxInt64 <- maxLargestInt, maxUInt64 <- maxLargestUInt, Precision <- 16

UpTo(n, S) == UNION {[1..k -> S] : k \in 0..n}
Integral == {J!intValue(n) : n \in {0, 7, 8, 9, 10, -1, -31, 31}}
            \cup {J!uintValue(32), J!uintValue(63)}
Strings == {<<>>, <<"a">>, <<"\\", "b">>, <<"\"", "a">>, <<"US">>,
            <<"/", "\t", "\r", "\n", "BS", "\f">>, <<"x", "x195", "x169">>}
Atoms == Integral \cup {J!nullValue, J!booleanValue(TRUE), J!booleanValue(FALSE)}
    \cup {J!stringValue(t) : t \in Strings}
    \cup {J!realValue(t) : t \in {<<"1", ".", "5">>, <<"-", "2", "e", "+", "9">>, <<"6", "4">>}}
Few == {J!intValue(1), J!stringValue(<<"a">>), J!arrayValue(<<>>), J!objectValue(<<>>)}
Rows(S) == {J!arrayValue(a) : a \in UpTo(2, S)}
Maps(S) == {J!objectValue(<<>>)} \cup {J!objectValue(<<"a">> :> v) : v \in S}
    \cup {J!objectValue(<<"a">> :> v @@ <<"a", "b">> :> w) : v, w \in S}
(* Rows that fit on a line, that do not, and that have rows inside. *)
Nested == Rows({J!intValue(1)}) \cup Maps({J!intValue(1)})
    \cup {J!arrayValue([i \in 1..4 |-> J!intValue(10)]),
          J!arrayValue(<<J!stringValue([i \in 1..9 |-> "a"])>>)}
    \cup Rows({J!arrayValue(<<J!intValue(1)>>), J!arrayValue(<<>>)})
Values == Atoms \cup Rows(Few) \cup Maps(Few)
    \cup {J!arrayValue(<<v>>) : v \in Atoms} \cup {J!objectValue(<<"a">> :> v) : v \in Atoms}
    \cup {J!objectValue(t :> J!nullValue) : t \in Strings}
    \cup {J!arrayValue(<<v, w>>) : v, w \in Nested}
    \cup {J!objectValue(<<"a">> :> v @@ <<"b">> :> w) : v, w \in Nested}
Tokens == {<<"[">>, <<"]">>, <<"{">>, <<"}">>, <<",">>, <<":">>, <<"\"", "a", "\"">>, <<"1">>,
           <<"n", "u", "l", "l">>, <<"/", "*", "*", "/">>, <<" ", "/", "/", "\n">>}
Escapes == {<<"\\", "u", "0", "0", "E", "9">>, <<"\\", "u", "D", "8", "3", "D">>,
            <<"\\", "u", "d", "e", "0", "0">>, <<"\\", "u", "0", "0", "0", "0">>,
            <<"\\", "\"">>, <<"\\", "/">>, <<"\\", "t">>, <<"\\", "x">>, <<"\\">>, <<"\"">>, <<"a">>}
JsonTexts ==
    {FlattenSeq(t) : t \in UpTo(3, Tokens)}
    \cup {<<"{", "\"">> \o FlattenSeq(t) \o <<"\"", ":", "1", "}">> : t \in UpTo(2, Escapes)}
    \cup UpTo(3, {"0", "1", "6", "-", "+", ".", "e"})
Arguments == {"NUL", "BEL", "\n", " ", "\"", "'", "0", "\\", "x", "x200"}
(* The numbers a tiny double can be: with Precision 16, no halves from 8   *)
(* on, then only every second and every fourth integer.                    *)
Doubles ==
    LET sizes == 0..16 \cup {2 * n : n \in 8..16} \cup {4 * n : n \in 8..16}
                 \cup {8 * n : n \in 8..18}
    IN  sizes \cup {-n : n \in sizes}
Numbers == {[type |-> "int", is |-> n] : n \in (-maxLargestInt - 1)..maxLargestInt}
    \cup {[type |-> "uint", is |-> n] : n \in 0..maxLargestUInt}
    \cup {[type |-> "real", is |-> n] : n \in Doubles}
    \cup {[type |-> "boolean", is |-> b] : b \in BOOLEAN} \cup {[type |-> "null"]}
    \cup {[type |-> t, is |-> l] : t \in {"string", "array", "object"}, l \in {<<>>, <<"a">>}}
FormValues == UpTo(3, {"a", "\r", "\n", "-", "\"", "name="})
Forms == {<<<<f, v>>>> : f \in {<<"a">>}, v \in {<<>>, <<"a">>}}
    \cup {<<<<f, v>>, <<g, w>>>> : f \in {<<"a">>}, g \in {<<"a">>, <<"b">>},
                                 v \in FormValues, w \in UpTo(2, {"a", "-", "B", "\n"})}
    \cup {<<<<<<"a">>, v>>, <<<<"b">>, v>>, <<<<"c">>, v>>>> : v \in {<<>>, <<"a">>}}
Queries == UpTo(3, {"c", "=", "&", "?"})
Requests ==
    {<<"form", f>> : f \in Forms}
    \cup {<<"query", q, v, a>> : q \in Queries, v \in UpTo(2, {"c", "=", "?"}),
                                a \in {<<>>, <<"&", "c", "=">>, <<"#">>}}
    \cup {<<"suffix", f, t>> : f \in UpTo(3, {"a", "."}), t \in UpTo(2, {"a", "."})}
    \cup {<<"trim", l, t, r>> : l, r \in UpTo(2, {" ", "\n"}), t \in UpTo(3, {"a", " "})}
    \cup {<<"config", f>> : f \in UpTo(6, {"k", "=", "#", " ", "\n"})}
Docs ==
    {<<"value", v>> : v \in Values} \cup {<<"json", t>> : t \in JsonTexts}
    \cup {<<"args", <<a>>>> : a \in UpTo(3, Arguments)}
    \cup {<<"args", <<a, b>>>> : a, b \in UpTo(1, Arguments)}
    \cup {<<"split", t, sep>> : t \in UpTo(5, {"a", "x"}), sep \in UpTo(3, {"a", "x"}) \ {<<>>}}
    \cup Requests \cup {<<"number", v>> : v \in Numbers}
    \cup {<<"numbers">>, <<"commands">>}

-----------------------------------------------------------------------------
Stream == INSTANCE RedisStream
Pool   == INSTANCE ThreadPool

ASSUME LibsAssumption ==
    N!TypesAssumption /\ DictAssumption /\ SdsAssumption

reply == <<sent, rpos, reader, replies>>
pool  == <<tasks_, terminate_, atomic_, waiting, timed, at, task, done, given, needs, stop>>

(* The state of the parts a behaviour is not about. *)
LibsInit ==
    /\ part \in {"http", "reply", "async", "threads", "dict", "string", "text"}
    /\ StreamInit /\ (part # "http" => stream = CHOOSE t \in SomeStreams : TRUE)
    /\ IF part = "reply" THEN Stream!Init ELSE sent = <<>> /\ rpos = 0 /\ reader = <<>> /\ replies = <<>>
    /\ IF part = "string" THEN SdsInit ELSE s = sdsnewlen(<<>>) /\ str = <<>> /\ ops = 0
    /\ IF part = "text" THEN doc \in Docs ELSE doc = <<>>
    /\ AsyncInit
    /\ Pool!Init /\ (part # "threads" => needs = Pool!Independent)
    /\ DictInit

HttpStep ==
    /\ part = "http" /\ StreamNext
    /\ UNCHANGED <<part, doc, reply, asyncVars, pool, dictVars, sdsVars>>

ReplyStep ==
    /\ part = "reply" /\ Stream!Next
    /\ UNCHANGED <<part, doc, streamVars, asyncVars, pool, dictVars, sdsVars>>

AsyncStep ==
    /\ part = "async" /\ AsyncNext
    /\ UNCHANGED <<part, doc, streamVars, reply, pool, dictVars, sdsVars>>

PoolStep ==
    /\ part = "threads" /\ Pool!Next
    /\ UNCHANGED <<part, doc, streamVars, reply, asyncVars, dictVars, sdsVars>>

DictStep ==
    /\ part = "dict" /\ DictNext
    /\ UNCHANGED <<part, doc, streamVars, reply, asyncVars, pool, sdsVars>>

StringStep ==
    /\ part = "string" /\ SdsNext
    /\ UNCHANGED <<part, doc, streamVars, reply, asyncVars, pool, dictVars>>

LibsNext == HttpStep \/ ReplyStep \/ AsyncStep \/ PoolStep \/ DictStep \/ StringStep

(* ThreadPool's fairness, in its own behaviours. *)
Fairness ==
    /\ \A w \in Threads : WF_pool(part = "threads" /\ Pool!Worker(w))
    /\ \A c \in Callers : /\ WF_pool(part = "threads" /\ Pool!Caller(c))
                         /\ WF_pool(part = "threads" /\ Pool!WaitTimeout(c))
    /\ WF_pool(part = "threads" /\ Pool!Joined)

LibsSpec == LibsInit /\ [][LibsNext]_<<part, doc, streamVars, reply, asyncVars, pool,
                           dictVars, sdsVars>> /\ Fairness

-----------------------------------------------------------------------------
(* See ThreadPool: tasks run, waits end, Stop returns. *)
PoolServes == Pool!PoolServes

(* What was written is read back as what it was: JSON values by both       *)
(* writers, JSON texts once they are normal, quoted arguments, split       *)
(* strings, numbers, commands in the protocol of Redis, and the replies to *)
(* them wherever the reads cut them.                                       *)
ReadsBack ==
    /\ part = "reply" => Stream!ReaderSplit
    /\ part = "text" =>
        CASE doc[1] = "value"    -> J!JsonReadsBack(doc[2])
          [] doc[1] = "json"     -> J!JsonNormal(doc[2])
          [] doc[1] = "args"     -> T!ArgsReadBack(doc[2])
          [] doc[1] = "split"    -> T!SplitReadsBack(doc[2], doc[3])
          [] doc[1] = "numbers"  -> T!NumbersReadBack
          [] doc[1] = "commands" -> Stream!CommandsAreMeant
          [] doc[1] = "form"     -> R!FormReadsBack(doc[2], <<"B">>)
          [] doc[1] = "query"    -> R!QueryReadsBack(doc[2], <<"c">>, doc[3], doc[4])
          [] doc[1] = "suffix"   -> R!SuffixReadsBack(doc[2], doc[3])
          [] doc[1] = "trim"     -> R!TrimReadsBack(doc[2], doc[3], doc[4])
          [] doc[1] = "config"   -> R!ConfigReadsBack(doc[2], <<"k">>, <<"=">>)
          [] doc[1] = "number"   -> N!ExactWhenSaid(doc[2]) /\ N!ConvertsAsSaid(doc[2])
================================================================================
