---------------------------------- MODULE Json ----------------------------------
(***************************************************************************)
(* What jsoncpp/ makes of a text, and the texts it writes: Reader::parse,  *)
(* FastWriter::write, StyledWriter::write and the conversions of Value.    *)
(* Pure operators.  A text is a sequence of one-character strings.  Of a   *)
(* failed parse only the failure is kept: every caller that meets one      *)
(* skips tokens (recoverFromError) and fails in turn.  Comments are read   *)
(* and not kept: the program writes no value it has parsed.                *)
(***************************************************************************)
EXTENDS Integers, Sequences, SequencesExt, TLC

CONSTANTS
    Code,               \* [character -> its code], the characters in use
    maxLargestUInt,     \* 2^64-1
    maxLargestInt,      \* 2^63-1
    maxInt,             \* 2^31-1
    rightMargin         \* of StyledWriter

NUL == "NUL"
Digits == <<"0", "1", "2", "3", "4", "5", "6", "7", "8", "9">>
HexDigits == Digits \o <<"A", "B", "C", "D", "E", "F">>
LowerHex == Digits \o <<"a", "b", "c", "d", "e", "f">>
DigitOf(hex, c) == (CHOOSE i \in DOMAIN hex : hex[i] = c) - 1
isControlCharacter(c) == Code[c] \in 1..31

nullValue == [type |-> "null"]
booleanValue(b) == [type |-> "boolean", is |-> b]
intValue(n) == [type |-> "int", is |-> n]
uintValue(n) == [type |-> "uint", is |-> n]
realValue(text) == [type |-> "real", is |-> text]
(* A string ends at its first NUL for every reader of value_.string_. *)
CStr(s) == IF NUL \in Range(s) THEN SubSeq(s, 1, (CHOOSE i \in DOMAIN s : s[i] = NUL /\ \A j \in 1..i - 1 : s[j] # NUL) - 1) ELSE s
stringValue(s) == [type |-> "string", is |-> CStr(s)]
arrayValue(a) == [type |-> "array", is |-> a]
objectValue(m) == [type |-> "object", is |-> m]     \* [names -> values]

-----------------------------------------------------------------------------
(* Tokens.  Positions are 1-based: current_ is text[p], end_ is after the  *)
(* last; a character read beyond the end is 0.                             *)

At(d, p) == IF p > Len(d) THEN NUL ELSE d[p]
After(d, p) == IF p > Len(d) THEN p ELSE p + 1     \* getNextChar
First(d, p, S(_)) ==      \* the first place from p on that S holds of, or the end
    LET here == {i \in p..Len(d) : S(d[i])}
    IN  IF here = {} THEN Len(d) + 1 ELSE CHOOSE i \in here : \A j \in here : i <= j

skipSpaces(d, p) == First(d, p, LAMBDA c : c \notin {" ", "\t", "\r", "\n"})

Slice(s, p, q) == SubSeq(s, p, IF q < Len(s) THEN q ELSE Len(s))
match(d, p, word) == Slice(d, p, p + Len(word) - 1) = word

readNumber(d, p) ==
    First(d, p, LAMBDA c : c \notin Range(Digits) \cup {".", "e", "E", "+", "-"})

(* The end of the string whose opening quote is before p, 0 without one. *)
RECURSIVE readString(_, _)
readString(d, p) ==
    CASE p > Len(d) -> 0
      [] d[p] = "\\" -> readString(d, After(d, p + 1))
      [] d[p] = "\"" -> p + 1
      [] OTHER -> readString(d, p + 1)

(* The end of the comment whose slash is before p, 0 when it has none. *)
readComment(d, p) ==
    CASE At(d, p) = "*" ->
            LET star == {i \in p + 1..Len(d) - 1 : d[i] = "*" /\ d[i + 1] = "/"}
            IN  IF star = {} THEN 0 ELSE (CHOOSE i \in star : \A j \in star : i <= j) + 2
      [] At(d, p) = "/" -> After(d, First(d, p + 1, LAMBDA c : c \in {"\r", "\n"}))
      [] OTHER -> 0

Word == "t" :> <<"r", "u", "e">> @@ "f" :> <<"a", "l", "s", "e">> @@ "n" :> <<"u", "l", "l">>
TokenFrom(d, start) ==
    LET c == At(d, start)
        p == After(d, start)
        Tok(type, end) == [type |-> IF end = 0 THEN "error" ELSE type,
                           start |-> start, end |-> IF end = 0 THEN p ELSE end]
    IN  CASE c \in {"{", "}", "[", "]", ",", ":"} -> Tok(c, p)
          [] c = "\"" -> Tok("string", readString(d, p))
          [] c = "/" -> Tok("comment", readComment(d, p))
          [] c \in Range(Digits) \cup {"-"} -> Tok("number", readNumber(d, p))
          [] c \in DOMAIN Word -> Tok(c, IF match(d, p, Word[c]) THEN p + Len(Word[c]) ELSE 0)
          [] c = NUL -> Tok("end", p)
          [] OTHER -> Tok("error", 0)

readToken(d, p) == TokenFrom(d, skipSpaces(d, p))

RECURSIVE PastComments(_, _)
PastComments(d, tok) ==
    IF tok.type = "comment" THEN PastComments(d, readToken(d, tok.end)) ELSE tok
skipCommentTokens(d, p) == PastComments(d, readToken(d, p))

-----------------------------------------------------------------------------
(* Numbers and strings. *)

Failed == [ok |-> FALSE]
Done(value) == [ok |-> TRUE, value |-> value]

(* sscanf("%lf") finds a number when a digit follows a sign and a point. *)
decodeDouble(word) ==
    LET p == First(word, 1, LAMBDA c : c \notin {"-", "+"})
        q == IF At(word, p) = "." THEN p + 1 ELSE p
    IN  IF p <= 2 /\ At(word, q) \in Range(Digits) THEN Done(realValue(word)) ELSE Failed

decodeNumber(word) ==
    LET negative == word[1] = "-"
        max == IF negative THEN maxLargestInt + 1 ELSE maxLargestUInt
        RECURSIVE Dec(_, _)
        Dec(p, value) ==
            IF p > Len(word)
            THEN Done(IF negative THEN intValue(-value)
                      ELSE IF value <= maxInt THEN intValue(value) ELSE uintValue(value))
            ELSE LET digit == DigitOf(Digits, word[p])
                 IN  IF value >= max \div 10
                        /\ (value > max \div 10 \/ p # Len(word) \/ digit > max % 10)
                     THEN decodeDouble(word)
                     ELSE Dec(p + 1, value * 10 + digit)
    IN  IF \E i \in DOMAIN word : word[i] \in {".", "e", "E", "+"} \/ (word[i] = "-" /\ i > 1)
        THEN decodeDouble(word)
        ELSE Dec(IF negative THEN 2 ELSE 1, 0)

Unicode(n) == IF \E c \in DOMAIN Code : Code[c] = n
              THEN CHOOSE c \in DOMAIN Code : Code[c] = n ELSE "x" \o ToString(n)
codePointToUTF8(cp) ==
    LET Low(shift) == 128 + ((cp \div shift) % 64)
        bytes == CASE cp <= 127 -> <<cp>>
                   [] cp \in 128..2047 -> <<192 + (cp \div 64), Low(1)>>
                   [] cp \in 2048..65535 -> <<224 + (cp \div 4096), Low(64), Low(1)>>
                   [] OTHER -> <<240 + (cp \div 262144), Low(4096), Low(64), Low(1)>>
    IN  [i \in DOMAIN bytes |-> Unicode(bytes[i])]

(* Four hexadecimal digits from p: their value, or -1. *)
decodeUnicodeEscapeSequence(s, p) ==
    LET four == Slice(s, p, p + 3)
        Hex(c) == IF c \in Range(HexDigits) THEN DigitOf(HexDigits, c) ELSE DigitOf(LowerHex, c)
    IN  IF Len(four) < 4 \/ ~(Range(four) \subseteq Range(HexDigits) \cup Range(LowerHex)) THEN -1
        ELSE FoldLeft(LAMBDA n, c : 16 * n + Hex(c), 0, four)

(* The code point of the escape whose digits begin at p, and what follows. *)
decodeUnicodeCodePoint(s, p) ==
    LET high == decodeUnicodeEscapeSequence(s, p)
        low  == decodeUnicodeEscapeSequence(s, p + 6)
    IN  CASE high = -1 -> Failed
          [] high \in 55296..56319 ->
                IF Slice(s, p + 4, p + 5) = <<"\\", "u">> /\ low # -1
                THEN [ok |-> TRUE, next |-> p + 10,
                      value |-> 65536 + ((high % 1024) * 1024) + (low % 1024)]
                ELSE Failed
          [] OTHER -> [ok |-> TRUE, next |-> p + 4, value |-> high]

Escapes == "\"" :> "\"" @@ "/" :> "/" @@ "\\" :> "\\" @@ "b" :> "BS" @@ "f" :> "\f"
           @@ "n" :> "\n" @@ "r" :> "\r" @@ "t" :> "\t"
(* s is what is between the quotes. *)
decodeString(s) ==
    LET RECURSIVE Dec(_, _)
        Dec(p, out) ==
            CASE p > Len(s) -> Done(out)
              [] s[p] = "\"" -> Done(out)
              [] s[p] # "\\" -> Dec(p + 1, Append(out, s[p]))
              [] At(s, p + 1) \in DOMAIN Escapes -> Dec(p + 2, Append(out, Escapes[s[p + 1]]))
              [] At(s, p + 1) = "u" ->
                    LET u == decodeUnicodeCodePoint(s, p + 2)
                    IN  IF u.ok THEN Dec(u.next, out \o codePointToUTF8(u.value)) ELSE Failed
              [] OTHER -> Failed
    IN  Dec(1, <<>>)

-----------------------------------------------------------------------------
(* Values: what is read from p on, and where it ends. *)

Of(result, end) == IF result.ok THEN [ok |-> TRUE, value |-> result.value, end |-> end] ELSE Failed
Inside(d, tok) == SubSeq(d, tok.start + 1, tok.end - 2)
StrOf(result) == IF result.ok THEN Done(stringValue(result.value)) ELSE Failed

RECURSIVE ValueFrom(_, _), readArray(_, _, _), readObject(_, _, _, _)
readValue(d, p) == ValueFrom(d, skipCommentTokens(d, p))
ValueFrom(d, tok) ==
    LET bracket == skipSpaces(d, tok.end)
    IN  CASE tok.type = "{" -> readObject(d, tok.end, <<>>, <<>>)
          [] tok.type = "[" -> IF At(d, bracket) = "]" THEN Of(Done(arrayValue(<<>>)), bracket + 1)
                               ELSE readArray(d, tok.end, <<>>)
          [] tok.type = "number" -> Of(decodeNumber(SubSeq(d, tok.start, tok.end - 1)), tok.end)
          [] tok.type = "string" -> Of(StrOf(decodeString(Inside(d, tok))), tok.end)
          [] tok.type = "t" -> Of(Done(booleanValue(TRUE)), tok.end)
          [] tok.type = "f" -> Of(Done(booleanValue(FALSE)), tok.end)
          [] tok.type = "n" -> Of(Done(nullValue), tok.end)
          [] OTHER -> Failed

ArrayEnd(d, item, tok, read) ==
    CASE tok.type = "]" -> Of(Done(arrayValue(Append(read, item.value))), tok.end)
      [] tok.type = "," -> readArray(d, tok.end, Append(read, item.value))
      [] OTHER -> Failed
ArrayItem(d, item, read) ==
    IF item.ok THEN ArrayEnd(d, item, skipCommentTokens(d, item.end), read) ELSE Failed
readArray(d, p, read) == ArrayItem(d, readValue(d, p), read)

(* A closing brace is taken for the end of an empty object as long as the  *)
(* last name read is empty; after a comment any token stands for a comma.  *)
MemberEnd(d, last, tok, read) ==
    CASE tok.type = "}" -> Of(Done(objectValue(read)), tok.end)
      [] OTHER -> readObject(d, tok.end, last, read)
MemberComma(d, last, item, tok, read) ==
    IF tok.type \in {"}", ",", "comment"}
    THEN MemberEnd(d, last, PastComments(d, tok), CStr(last) :> item.value @@ read)
    ELSE Failed
MemberItem(d, last, item, read) ==
    IF item.ok THEN MemberComma(d, last, item, readToken(d, item.end), read) ELSE Failed
MemberColon(d, text, colon, read) ==
    IF text.ok /\ colon.type = ":" THEN MemberItem(d, text.value, readValue(d, colon.end), read)
    ELSE Failed
MemberName(d, name, last, read) ==
    CASE name.type = "}" /\ last = <<>> -> Of(Done(objectValue(read)), name.end)
      [] name.type = "string" -> MemberColon(d, decodeString(Inside(d, name)), readToken(d, name.end), read)
      [] OTHER -> Failed
readObject(d, p, last, read) == MemberName(d, skipCommentTokens(d, p), last, read)

(* What follows the first value of a document is not looked at. *)
Whole(r) == IF r.ok THEN Done(r.value) ELSE Failed
parse(d) == Whole(readValue(d, 1))

-----------------------------------------------------------------------------
(* Writing. *)

RECURSIVE uintToString(_)
uintToString(n) ==
    (IF n < 10 THEN <<>> ELSE uintToString(n \div 10)) \o <<Digits[(n % 10) + 1]>>
valueToString(n) == IF n < 0 THEN <<"-">> \o uintToString(-n) ELSE uintToString(n)

Escaped == "\"" :> <<"\\", "\"">> @@ "\\" :> <<"\\", "\\">> @@ "BS" :> <<"\\", "b">>
           @@ "\f" :> <<"\\", "f">> @@ "\n" :> <<"\\", "n">> @@ "\r" :> <<"\\", "r">>
           @@ "\t" :> <<"\\", "t">>
valueToQuotedString(s) ==
    LET U(c) == <<"\\", "u", "0", "0", HexDigits[(Code[c] \div 16) + 1], HexDigits[(Code[c] % 16) + 1]>>
    IN  <<"\"">> \o FlattenSeq([i \in DOMAIN s |->
            IF s[i] \in DOMAIN Escaped THEN Escaped[s[i]]
            ELSE IF isControlCharacter(s[i]) THEN U(s[i]) ELSE <<s[i]>>]) \o <<"\"">>

Atom(v) ==
    CASE v.type = "null" -> <<"n", "u", "l", "l">>
      [] v.type = "boolean" -> IF v.is THEN <<"t", "r", "u", "e">> ELSE <<"f", "a", "l", "s", "e">>
      [] v.type \in {"int", "uint"} -> valueToString(v.is)
      [] v.type = "real" -> v.is
      [] v.type = "string" -> valueToQuotedString(v.is)

(* The order of a std::map keyed by strcmp. *)
Before(a, b) ==
    \/ Len(a) < Len(b) /\ a = SubSeq(b, 1, Len(a))
    \/ \E i \in 1..Len(a) : /\ i <= Len(b) /\ Code[a[i]] < Code[b[i]]
                            /\ \A j \in 1..i - 1 : a[j] = b[j]
getMemberNames(v) == SetToSortSeq(DOMAIN v.is, Before)

Between(parts, sep) == FlattenSeq([i \in DOMAIN parts |-> IF i = 1 THEN parts[i] ELSE sep \o parts[i]])

RECURSIVE writeValue(_)
writeValue(v) ==
    CASE v.type = "array" ->
            <<"[">> \o Between([i \in DOMAIN v.is |-> writeValue(v.is[i])], <<",">>) \o <<"]">>
      [] v.type = "object" ->
            LET names == getMemberNames(v)
            IN  <<"{">> \o Between([i \in DOMAIN names |->
                    valueToQuotedString(names[i]) \o <<":">> \o writeValue(v.is[names[i]])], <<",">>)
                \o <<"}">>
      [] OTHER -> Atom(v)
FastWrite(v) == writeValue(v) \o <<"\n">>

-----------------------------------------------------------------------------
(* StyledWriter.  w is the writer: its document_, the depth of its         *)
(* indentString_ and childValues_.                                         *)

writeIndent(w) ==
    LET spaces == [i \in 1..3 * w.depth |-> " "]
    IN  IF w.doc # <<>> /\ Last(w.doc) = " " THEN w
        ELSE [w EXCEPT !.doc = @ \o (IF @ # <<>> /\ Last(@) # "\n" THEN <<"\n">> ELSE <<>>) \o spaces]
Put(w, text) == [w EXCEPT !.doc = @ \o text]
writeWithIndent(w, text) == Put(writeIndent(w), text)
indent(w) == [w EXCEPT !.depth = @ + 1]
unindent(w) == [w EXCEPT !.depth = @ - 1]
Children(v) == v.type \in {"array", "object"} /\ v.is # <<>>

(* isMultineArray writes the children of a row that has no children of its *)
(* own into childValues_ (addChildValues_), and measures them.             *)
Row(a) == [i \in DOMAIN a |-> CASE a[i].type = "array" -> <<"[", "]">>
                                 [] a[i].type = "object" -> <<"{", "}">>
                                 [] OTHER -> Atom(a[i])]
Flat(a) == Len(a) * 3 < rightMargin /\ \A i \in DOMAIN a : ~Children(a[i])
Wide(a) == FoldLeft(LAMBDA n, t : n + Len(t), 2 + 2 * Len(a), Row(a)) >= rightMargin
(* Mutant: the children of an earlier row are kept. *)
isMultineArray_Kept(w, a) ==
    [w |-> IF Flat(a) THEN [w EXCEPT !.child = Row(a)] ELSE w, multi |-> Flat(a) => Wide(a)]
isMultineArray(w, a) ==
    [w |-> [w EXCEPT !.child = IF Flat(a) THEN Row(a) ELSE <<>>], multi |-> Flat(a) => Wide(a)]

RECURSIVE writeStyled(_, _), ArrayItems(_, _, _, _), ObjectItems(_, _, _, _)
writeStyled(w, v) ==
    CASE ~Children(v) ->
            Put(w, IF v.type = "array" THEN <<"[", "]">>
                         ELSE IF v.type = "object" THEN <<"{", "}">> ELSE Atom(v))
      [] Children(v) /\ v.type = "array" ->
            LET m == isMultineArray(w, v.is)
                open == indent(writeWithIndent(m.w, <<"[">>))
            IN  IF m.multi
                THEN writeWithIndent(unindent(ArrayItems(open, v.is, 1, open.child # <<>>)), <<"]">>)
                ELSE Put(m.w, <<"[", " ">> \o Between(m.w.child, <<",", " ">>) \o <<" ", "]">>)
      [] OTHER -> LET open == indent(writeWithIndent(w, <<"{">>))
                  IN  writeWithIndent(unindent(ObjectItems(open, v.is, getMemberNames(v), 1)), <<"}">>)

ArrayItems(w, a, i, collected) ==
    LET one == IF collected THEN writeWithIndent(w, w.child[i]) ELSE writeStyled(writeIndent(w), a[i])
    IN  IF i = Len(a) THEN one ELSE ArrayItems(Put(one, <<",">>), a, i + 1, collected)

ObjectItems(w, m, names, i) ==
    LET one == writeStyled(Put(writeWithIndent(w, valueToQuotedString(names[i])), <<" ", ":", " ">>), m[names[i]])
    IN  IF i = Len(names) THEN one ELSE ObjectItems(Put(one, <<",">>), m, names, i + 1)

StyledWrite(v) ==
    writeStyled([doc |-> <<>>, depth |-> 0, child |-> <<>>], v).doc \o <<"\n">>

-----------------------------------------------------------------------------
(* A number is the same number whatever integer type holds it. *)
RECURSIVE Same(_)
Same(v) == CASE v.type = "uint" -> intValue(v.is)
             [] v.type = "array" -> arrayValue([i \in DOMAIN v.is |-> Same(v.is[i])])
             [] v.type = "object" -> objectValue([n \in DOMAIN v.is |-> Same(v.is[n])])
             [] OTHER -> v

IsValue(r, v) == r.ok /\ Same(r.value) = Same(v)

(* What either writer makes of a value, the reader turns back into it: the *)
(* answers of the handlers (FastWriter, toStyledString) are read by        *)
(* clients of the same library.                                            *)
JsonReadsBack(v) ==
    \A text \in {FastWrite(v), StyledWrite(v)} : IsValue(parse(text), v)

(* Reading is a projection: what was read once, whatever spaces, comments, *)
(* escapes and repeated names the text had, is written and read as itself. *)
Normal(r) == r.ok => JsonReadsBack(r.value)
JsonNormal(text) == Normal(parse(text))
=================================================================================
