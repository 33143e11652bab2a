------------------------------ MODULE RedisStream ------------------------------
(***************************************************************************)
(* The reader of redis/read.c on one connection: what the server sends     *)
(* arrives cut anywhere (redisReaderFeed), and the client asks for a reply *)
(* whenever it likes (redisReaderGetReply), as redisGetReply and           *)
(* redisProcessCallbacks do.                                               *)
(***************************************************************************)
EXTENDS RedisProtocol

CONSTANTS
    Argvs,       \* commands: sequences of strings
    Formats,     \* <<format, values>> given to redisvFormatCommand
    RawReplies,  \* other things the server may send
    MaxRead      \* bound: a read brings at most this, or all the rest

VARIABLES
    sent,      \* what the server sends in this behaviour
    rpos,      \* the characters of it that have arrived
    reader,    \* the reader
    replies    \* the replies it has returned

vars == <<sent, rpos, reader, replies>>

Init ==
    /\ sent \in RawReplies \cup {redisFormatCommandArgv(a) : a \in Argvs}
    /\ rpos = 0
    /\ reader = redisReaderCreate
    /\ replies = <<>>

Feed(n) ==
    /\ rpos + n <= Len(sent)
    /\ reader' = redisReaderFeed(reader, SubSeq(sent, rpos + 1, rpos + n))
    /\ rpos' = rpos + n
    /\ UNCHANGED <<sent, replies>>

(* The reply, if there is one, is handed over. *)
GetReply ==
    LET r == redisReaderGetReply(reader)
    IN  /\ r # reader
        /\ reader' = [r EXCEPT !.reply = <<>>]
        /\ replies' = replies \o r.reply
        /\ UNCHANGED <<sent, rpos>>

Next ==
    \/ \E n \in 1..MaxRead \cup {Len(sent) - rpos} : n > 0 /\ Feed(n)
    \/ GetReply

Spec == Init /\ [][Next]_vars

-----------------------------------------------------------------------------
(* The replies a reader still has to give, followed by whether it failed. *)
RECURSIVE Drain(_)
Drain(r) ==
    LET x == redisReaderGetReply(r)
    IN  IF x.reply = <<>> THEN <<x.err>> ELSE x.reply \o Drain([x EXCEPT !.reply = <<>>])

(* Wherever the stream is cut and whenever a reply is asked for, the       *)
(* replies returned so far and those still to come are the ones a single   *)
(* feed gives: a half-read type byte, length or nested array survives, and *)
(* a protocol error neither loses an earlier reply nor invents one.        *)
ReaderSplit ==
    replies \o Drain(reader)
        = Drain(redisReaderFeed(redisReaderCreate, SubSeq(sent, 1, rpos)))

(* What a command means to the server: its arguments, byte for byte. *)
ReadBack(cmd) == Drain(redisReaderFeed(redisReaderCreate, cmd))
AsArray(argv) == <<<<"array", [i \in 1..Len(argv) |-> <<"string", argv[i]>>]>>, FALSE>>

(* The arguments a format stands for: it is cut at its own blanks, each    *)
(* piece that is left stands for one argument, and only then do the values *)
(* take their places.                                                      *)
RECURSIVE Pieces(_)
Pieces(f) ==
    LET blank == {i \in 1..Len(f) : f[i] = " "}
        first == CHOOSE i \in blank : \A j \in blank : i <= j
    IN  IF f = <<>> THEN <<>>
        ELSE IF blank = {} THEN <<f>>
        ELSE (IF first = 1 THEN <<>> ELSE <<SubSeq(f, 1, first - 1)>>)
             \o Pieces(SubSeq(f, first + 1, Len(f)))
Takes(f, i)  == Len(SelectSeq(SubSeq(f, 1, i), LAMBDA c : c \in {"%s", "%b", "%d"}))
Interpolated(format, values) ==
    LET ps == Pieces(format)
        before(k) == FoldLeft(LAMBDA n, p : n + Takes(p, Len(p)), 0, SubSeq(ps, 1, k - 1))
        put(k, i) == CASE ps[k][i] \in {"%s", "%b", "%d"} -> values[before(k) + Takes(ps[k], i)]
                       [] ps[k][i] = "%%" -> <<"%">>
                       [] OTHER -> <<ps[k][i]>>
    IN  [k \in 1..Len(ps) |-> FlattenSeq([i \in 1..Len(ps[k]) |-> put(k, i)])]

(* A command reaches the server as the arguments that were meant, whatever *)
(* bytes they hold (blanks, line ends, percent signs, nothing at all), and *)
(* fills exactly the memory that was reserved for it (the asserts pos ==   *)
(* totlen of redisvFormatCommand and redisFormatCommandArgv).              *)
CommandsAreMeant ==
    /\ \A argv \in Argvs :
         /\ Len(redisFormatCommandArgv(argv)) = TotalLength(argv)
         /\ argv # <<>> => ReadBack(redisFormatCommandArgv(argv)) = AsArray(argv)
    /\ \A f \in Formats :
         redisvFormatCommand(f[1], f[2])
             = IF \E i \in 1..Len(f[1]) : f[1][i] = "%?" THEN <<>>
               ELSE <<redisFormatCommandArgv(Interpolated(f[1], f[2]))>>
================================================================================
