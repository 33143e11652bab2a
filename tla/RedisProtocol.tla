----------------------------- MODULE RedisProtocol -----------------------------
(***************************************************************************)
(* The Redis protocol of hiredis: the reader of replies (redis/read.c, the *)
(* objects of redis/hiredis.c), which is fed with what a read brings and   *)
(* goes on from any byte, and the formatting of commands.                  *)
(*                                                                         *)
(* A string is a sequence of characters, and a value is <<type, content>>. *)
(***************************************************************************)
EXTENDS Integers, Sequences, SequencesExt

CONSTANTS
    LLONG_MAX,    \* 2^(w-1) - 1
    INT_MAX,      \* no array has more elements
    MAX_DEPTH     \* rstack has one entry more than arrays may be nested (8)

CRLF == <<"\r", "\n">>
Digits == <<"0", "1", "2", "3", "4", "5", "6", "7", "8", "9">>
IsDigit(ch) == \E i \in 1..10 : Digits[i] = ch
DigitOf(ch) == (CHOOSE i \in 1..10 : Digits[i] = ch) - 1

-----------------------------------------------------------------------------
(* Reading *)

(* seekNewline: the place of the first \r\n, or 0 *)
seekNewline(s) ==
    LET at == {i \in 1..(Len(s) - 1) : s[i] = "\r" /\ s[i + 1] = "\n"}
    IN  IF at = {} THEN 0 ELSE CHOOSE i \in at : \A j \in at : i <= j

(* The digits that follow v: unsigned arithmetic that stops at an overflow. *)
RECURSIVE Accumulate(_, _)
Accumulate(v, s) ==
    LET limit == 2 * LLONG_MAX + 1
    IN  IF s = <<>> THEN <<v>>
        ELSE IF ~IsDigit(Head(s)) \/ v > limit \div 10
                \/ v * 10 > limit - DigitOf(Head(s)) THEN <<>>
        ELSE Accumulate(v * 10 + DigitOf(Head(s)), Tail(s))

(* <<the number>>, or <<>> for REDIS_ERR *)
string2ll(s) ==
    LET negative == s # <<>> /\ Head(s) = "-"
        p == IF negative THEN Tail(s) ELSE s
        v == Accumulate(DigitOf(Head(p)), Tail(p))
    IN  CASE s = <<"0">> -> <<0>>
          [] s # <<"0">> /\ (p = <<>> \/ ~IsDigit(Head(p)) \/ Head(p) = "0") -> <<>>
          [] OTHER -> IF v = <<>> \/ v[1] > (IF negative THEN LLONG_MAX + 1 ELSE LLONG_MAX)
                      THEN <<>>
                      ELSE IF negative THEN <<-v[1]>> ELSE v

(* The reader: buf from pos on, the stack of tasks, the reply when it is   *)
(* whole.  A task knows its type, and for an array its length and the      *)
(* elements it has.                                                        *)
NewTask == [type |-> "none", elements |-> -1, obj |-> <<>>]
redisReaderCreate == [buf |-> <<>>, rstack |-> <<>>, reply |-> <<>>, err |-> FALSE]

__redisReaderSetError(r) == [buf |-> <<>>, rstack |-> <<>>, reply |-> <<>>, err |-> TRUE]

(* Reply objects; an array is filled before it becomes one here. *)
createStringObject(type, str) == <<type, str>>
createIntegerObject(value)    == <<"integer", value>>
createNilObject               == <<"nil", <<>>>>
createArrayObject(element)    == <<"array", element>>

(* The object goes into its parent's element; parents that are full go     *)
(* into theirs (moveToNextTask); the root object is the reply.             *)
RECURSIVE moveToNextTask(_, _)
moveToNextTask(r, obj) ==
    LET below  == Front(r.rstack)
        parent == [Last(below) EXCEPT !.obj = Append(@, obj)]
        stack  == Front(below) \o <<parent>>
    IN  IF Len(r.rstack) = 1 THEN [r EXCEPT !.rstack = <<>>, !.reply = <<obj>>]
        ELSE IF Len(parent.obj) = parent.elements
        THEN moveToNextTask([r EXCEPT !.rstack = stack], createArrayObject(parent.obj))
        ELSE [r EXCEPT !.rstack = Append(stack, NewTask)]

(* What processItem and its parts return: the reader, and whether it can   *)
(* go on (REDIS_OK).                                                       *)
Stuck(r)   == [r |-> r, ok |-> FALSE]
Failed(r)  == Stuck(__redisReaderSetError(r))
Item(r, used, obj) ==
    [r |-> moveToNextTask([r EXCEPT !.buf = SubSeq(@, used + 1, Len(@))], obj), ok |-> TRUE]

processLineItem(r) ==
    LET at   == seekNewline(r.buf)
        line == SubSeq(r.buf, 1, at - 1)
        type == Last(r.rstack).type
    IN  IF at = 0 THEN Stuck(r)
        ELSE IF type # "integer" THEN Item(r, at + 1, createStringObject(type, line))
        ELSE IF string2ll(line) = <<>> THEN Failed(r)
        ELSE Item(r, at + 1, createIntegerObject(string2ll(line)))

(* A bulk string is taken only when it is there to its last byte. *)
processBulkItem(r) ==
    LET at  == seekNewline(r.buf)
        len == string2ll(SubSeq(r.buf, 1, at - 1))
    IN  IF at = 0 THEN Stuck(r)
        ELSE IF len = <<>> \/ len[1] < -1 THEN Failed(r)
        ELSE IF len[1] = -1 THEN Item(r, at + 1, createNilObject)
        ELSE IF at + 1 + len[1] + 2 > Len(r.buf) THEN Stuck(r)
        ELSE Item(r, at + 1 + len[1] + 2,
                  createStringObject("string", SubSeq(r.buf, at + 2, at + 1 + len[1])))

processMultiBulkItem(r) ==
    LET at   == seekNewline(r.buf)
        len  == string2ll(SubSeq(r.buf, 1, at - 1))
        task == [Last(r.rstack) EXCEPT !.elements = len[1]]
    IN  IF Len(r.rstack) = MAX_DEPTH + 1 THEN Failed(r)
        ELSE IF at = 0 THEN Stuck(r)
        ELSE IF len = <<>> \/ len[1] \notin -1..INT_MAX THEN Failed(r)
        ELSE IF len[1] = -1 THEN Item(r, at + 1, createNilObject)
        ELSE IF len[1] = 0 THEN Item(r, at + 1, createArrayObject(<<>>))
        ELSE [ok |-> TRUE, r |-> [r EXCEPT !.buf = SubSeq(@, at + 2, Len(@)),
                                    !.rstack = Front(@) \o <<task, NewTask>>]]

TypeOf(ch) ==
    CASE ch = "-" -> "error" [] ch = "+" -> "status" [] ch = ":" -> "integer"
      [] ch = "$" -> "string" [] ch = "*" -> "array" [] OTHER -> "bad"

(* The type byte is consumed when it is seen, before the rest is there. *)
processItem(r) ==
    LET typed == IF Last(r.rstack).type # "none" THEN r
                 ELSE [r EXCEPT !.buf = Tail(@),
                          !.rstack = Front(@) \o <<[NewTask EXCEPT !.type = TypeOf(Head(r.buf))]>>]
        type == Last(typed.rstack).type
    IN  IF Last(r.rstack).type = "none" /\ r.buf = <<>> THEN Stuck(r)
        ELSE CASE type \in {"error", "status", "integer"} -> processLineItem(typed)
               [] type = "string" -> processBulkItem(typed)
               [] type = "array" -> processMultiBulkItem(typed)
               [] type = "bad" -> Failed(r)

redisReaderFeed(r, data) == IF r.err THEN r ELSE [r EXCEPT !.buf = @ \o data]

RECURSIVE ProcessItems(_)
ProcessItems(r) ==
    LET x == processItem(r)
    IN  IF r.rstack = <<>> THEN r ELSE IF x.ok THEN ProcessItems(x.r) ELSE x.r

(* The reader afterwards; its reply is <<>> when there is none. *)
redisReaderGetReply(r) ==
    IF r.err \/ r.buf = <<>> THEN r
    ELSE ProcessItems([r EXCEPT !.rstack = IF @ = <<>> THEN <<NewTask>> ELSE @])

-----------------------------------------------------------------------------
(* Formatting *)
RECURSIVE countDigits(_, _)
countDigits(v, result) ==
    IF v < 10 THEN result ELSE IF v < 100 THEN result + 1
    ELSE IF v < 1000 THEN result + 2 ELSE IF v < 10000 THEN result + 3
    ELSE countDigits(v \div 10000, result + 4)

bulklen(len) == 1 + countDigits(len, 1) + 2 + len + 2

(* sprintf %d of a length *)
RECURSIVE Decimal(_)
Decimal(v) == IF v < 10 THEN <<Digits[v + 1]>>
              ELSE Decimal(v \div 10) \o <<Digits[(v % 10) + 1]>>

TotalLength(argv) ==
    FoldLeft(LAMBDA sum, arg : sum + bulklen(Len(arg)),
             1 + countDigits(Len(argv), 1) + 2, argv)

redisFormatCommandArgv(argv) ==
    FoldLeft(LAMBDA cmd, arg : cmd \o <<"$">> \o Decimal(Len(arg)) \o CRLF \o arg \o CRLF,
             <<"*">> \o Decimal(Len(argv)) \o CRLF, argv)

(* A format is a sequence of characters and directives: "%s" and "%b" take *)
(* the next argument, "%%" is a percent sign, "%d" (and the other formats  *)
(* of printf) prints one, "%?" is none of them.  A blank of the format     *)
(* ends an argument, a blank in a value does not.                          *)
FormatStep(x, f) ==
    LET put(s) == [x EXCEPT !.curarg = @ \o s, !.touched = TRUE]
    IN  CASE f = " " -> IF x.touched
                        THEN [x EXCEPT !.argv = Append(@, x.curarg), !.curarg = <<>>,
                                       !.touched = FALSE]
                        ELSE x
          [] f \in {"%s", "%b", "%d"} -> [put(Head(x.ap)) EXCEPT !.ap = Tail(@)]
          [] f = "%%" -> put(<<"%">>)
          [] f = "%?" -> [x EXCEPT !.bad = TRUE]
          [] OTHER -> put(<<f>>)

(* <<the command>>, or <<>> for a format error. *)
redisvFormatCommand(format, ap) ==
    LET x == FoldLeft(FormatStep, [argv |-> <<>>, curarg |-> <<>>, touched |-> FALSE,
                                   ap |-> ap, bad |-> FALSE], format)
    IN  IF x.bad THEN <<>>
        ELSE <<redisFormatCommandArgv(IF x.touched THEN Append(x.argv, x.curarg)
                                                   ELSE x.argv)>>
================================================================================
