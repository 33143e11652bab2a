--------------------------------- MODULE SdsText ---------------------------------
(***************************************************************************)
(* The text functions of redis/sds.c: numbers, separators, and quoted      *)
(* arguments.  Pure operators; a string is a sequence of characters.       *)
(***************************************************************************)
EXTENDS RedisProtocol

CONSTANT
    Code     \* [character -> its code, 0..255], the characters in use

NUL == "NUL"
LowerHex == Digits \o <<"a", "b", "c", "d", "e", "f">>
UpperHex == Digits \o <<"A", "B", "C", "D", "E", "F">>
is_hex_digit(c) == c \in ToSet(LowerHex) \cup ToSet(UpperHex)
hex_digit_to_int(c) ==
    (CHOOSE i \in 1..16 : LowerHex[i] = c \/ UpperHex[i] = c) - 1
isprint(c) == Code[c] \in 32..126
isspace(c) == Code[c] \in 9..13 \cup {32}
CharOf(n)  == CHOOSE c \in DOMAIN Code : Code[c] = n

-----------------------------------------------------------------------------
RECURSIVE DigitsOf(_)
DigitsOf(v) == (IF v < 10 THEN <<>> ELSE DigitsOf(v \div 10)) \o <<Digits[(v % 10) + 1]>>

sdsll2str(value) ==
    (IF value < 0 THEN <<"-">> ELSE <<>>) \o DigitsOf(IF value < 0 THEN -value ELSE value)

-----------------------------------------------------------------------------
(* Separators are looked for from the left and do not overlap. *)
sdssplitlen(s, sep) ==
    LET RECURSIVE Split(_, _, _)
        Split(start, j, tokens) ==
            IF j + Len(sep) - 1 > Len(s) THEN Append(tokens, SubSeq(s, start, Len(s)))
            ELSE IF SubSeq(s, j, j + Len(sep) - 1) = sep
            THEN Split(j + Len(sep), j + Len(sep), Append(tokens, SubSeq(s, start, j - 1)))
            ELSE Split(start, j + 1, tokens)
    IN  IF s = <<>> THEN <<>> ELSE Split(1, 1, <<>>)

sdsjoinsds(argv, sep) ==
    FlattenSeq([j \in DOMAIN argv |-> IF j = Len(argv) THEN argv[j] ELSE argv[j] \o sep])

-----------------------------------------------------------------------------
(* Quoted arguments *)

Letter == [c \in {"\n", "\r", "\t", "BEL", "BS"} |->
              CASE c = "\n" -> "n" [] c = "\r" -> "r" [] c = "\t" -> "t"
                [] c = "BEL" -> "a" [] OTHER -> "b"]
Unescaped(c) ==
    IF \E e \in DOMAIN Letter : Letter[e] = c THEN CHOOSE e \in DOMAIN Letter : Letter[e] = c ELSE c

sdscatrepr(s, p) ==
    LET one(c) ==
            IF c \in {"\\", "\""} THEN <<"\\", c>>
            ELSE IF c \in DOMAIN Letter THEN <<"\\", Letter[c]>>
            ELSE IF isprint(c) THEN <<c>>
            ELSE <<"\\", "x", LowerHex[(Code[c] \div 16) + 1], LowerHex[(Code[c] % 16) + 1]>>
    IN  s \o <<"\"">> \o FlattenSeq([i \in DOMAIN p |-> one(p[i])]) \o <<"\"">>

(* <<the arguments>>, or <<>> for NULL.  mode is inq, insq, plain or out;   *)
(* a line is a C string: beyond its end there is NUL.                      *)
sdssplitargs(line) ==
    LET At(p) == IF p \in DOMAIN line THEN line[p] ELSE NUL
        Ends(p) == At(p) = NUL \/ isspace(At(p))
        RECURSIVE Arg(_, _, _, _)
        Arg(p, mode, current, vector) ==
            LET c == At(p)
                hex == c = "\\" /\ At(p + 1) = "x" /\ is_hex_digit(At(p + 2)) /\ is_hex_digit(At(p + 3))
                byte == CharOf((16 * hex_digit_to_int(At(p + 2))) + hex_digit_to_int(At(p + 3)))
                quoted == mode \in {"inq", "insq"}
                closed == (mode = "inq" /\ c = "\"") \/ (mode = "insq" /\ c = "'")
                Take(ch, n) == Arg(p + n, mode, Append(current, ch), vector)
            IN  CASE mode = "out" /\ c = NUL -> <<vector>>
                  [] mode = "out" /\ c # NUL ->
                        IF isspace(c) THEN Arg(p + 1, "out", <<>>, vector)
                        ELSE Arg(p, "plain", <<>>, vector)
                  [] mode = "plain" /\ c \in {" ", "\n", "\r", "\t", NUL} ->
                        Arg(IF c = NUL THEN p ELSE p + 1, "out", <<>>, Append(vector, current))
                  [] mode = "plain" /\ c = "\"" -> Arg(p + 1, "inq", current, vector)
                  [] mode = "plain" /\ c = "'" -> Arg(p + 1, "insq", current, vector)
                  [] mode = "inq" /\ hex -> Take(byte, 4)
                  [] mode = "inq" /\ ~hex /\ c = "\\" /\ At(p + 1) # NUL -> Take(Unescaped(At(p + 1)), 2)
                  [] mode = "insq" /\ c = "\\" /\ At(p + 1) = "'" -> Take("'", 2)
                  [] closed -> IF Ends(p + 1) THEN Arg(p + 1, "out", <<>>, Append(vector, current)) ELSE <<>>
                  [] quoted /\ c = NUL -> <<>>
                  [] OTHER -> Take(c, 1)
    IN  Arg(1, "out", <<>>, <<>>)

-----------------------------------------------------------------------------
(* A number that is written is read as itself (sdsfromlonglong, and the     *)
(* integers of a reply).                                                   *)
NumbersReadBack == \A v \in -LLONG_MAX..LLONG_MAX : string2ll(sdsll2str(v)) = <<v>>

(* Joining the parts of any string gives it back, and no separator is left *)
(* inside a part.                                                          *)
HasInside(s, sep) ==
    \E j \in 1..(Len(s) - Len(sep) + 1) : SubSeq(s, j, j + Len(sep) - 1) = sep
SplitReadsBack(s, sep) ==
    LET parts == sdssplitlen(s, sep)
    IN  /\ sdsjoinsds(parts, sep) = s
        /\ \A i \in DOMAIN parts : ~HasInside(parts[i], sep)

(* What sdscatrepr quotes, whatever bytes it has, sdssplitargs reads as the *)
(* one argument it was: the comment of sdscatrepr promises it.             *)
ArgsReadBack(args) ==
    sdssplitargs(sdsjoinsds([i \in DOMAIN args |-> sdscatrepr(<<>>, args[i])], <<" ">>)) = <<args>>
==================================================================================
