------------------------------ MODULE RequestText ------------------------------
(***************************************************************************)
(* The texts the server takes apart itself: the form of an upload          *)
(* (api/api_upload.cc), the query of a URL, file names and the answer of   *)
(* fdfs_upload_file (base/tc_common.cc), and tc_http_server.conf           *)
(* (base/config_file_reader.cc).  Pure operators; a text is a sequence of  *)
(* one-character strings, the name=" of a form being NAME and a quote.     *)
(***************************************************************************)
EXTENDS Integers, Sequences, SequencesExt, Functions, TLC

CONSTANTS
    field_cnt,      \* UploadMsg::field_cnt: the fields a form has
    BufSize,        \* of _LoadFile: the lines of a file are read into it
    PairSize        \* of _WriteFIle: a line is printed into it

NAME == "name="
DASH == "-"

(* std::search, strstr: the first place of part in t from p on, or the end. *)
Search(t, p, part) ==
    LET at == {i \in p..Len(t) : IsPrefix(part, SubSeq(t, i, Len(t)))}
    IN  IF at = {} THEN Len(t) + 1 ELSE CHOOSE i \in at : \A j \in at : i <= j
FirstOf(t, p, S) ==
    LET at == {i \in p..Len(t) : t[i] \in S}
    IN  IF at = {} THEN Len(t) + 1 ELSE CHOOSE i \in at : \A j \in at : i <= j
LastOf(t, S) ==
    LET at == {i \in DOMAIN t : t[i] \in S}
    IN  IF at = {} THEN 0 ELSE CHOOSE i \in at : \A j \in at : i >= j

(* Without the characters of S at both ends. *)
Trimmed(t, S) ==
    LET kept == {i \in DOMAIN t : t[i] \notin S}
    IN  IF kept = {} THEN <<>> ELSE SubSeq(t, FirstOf(t, 1, Range(t) \ S), LastOf(t, Range(t) \ S))

-----------------------------------------------------------------------------
(* The form of an upload *)

(* What a string(first, last) with last before first does.  The callers of *)
(* decodeMsg do not catch it.                                              *)
Throws == <<"length_error">>

(* The two ends are looked for independently: in a text of line ends only  *)
(* they pass each other.                                                   *)
strip(t) ==
    LET stripped == Trimmed(t, {"\r", "\n"})
    IN  IF t # <<>> /\ stripped = <<>> THEN Throws ELSE stripped

(* From one boundary to the next: a field and its value, until there is no *)
(* next boundary or a part has no name.  A quote right before a boundary   *)
(* leaves a value of less than no characters.                              *)
RECURSIVE Parts(_, _, _)
Parts(t, cur, split) ==
    LET from  == cur + Len(split)
        next  == Search(t, from, split)
        part  == SubSeq(t, 1, next - 1)
        left  == Search(part, from, <<NAME, "\"">>)
        right == Search(part, left + 2, <<"\"">>)
        value == IF right = next - 1 THEN Throws ELSE strip(SubSeq(t, right + 1, next - 2))
    IN  IF cur > Len(t) \/ next > Len(t) \/ left >= next \/ right >= next THEN <<>>
        ELSE <<<<SubSeq(t, left + 2, right - 1), value>>>> \o Parts(t, next, split)

(* The fields, or -1 when they are not as many as they should be.          *)
decodeMsg(t, split) ==
    LET found == Parts(t, Search(t, 1, split), split)
        LastWith(f) == CHOOSE i \in DOMAIN found :
            found[i][1] = f /\ \A j \in DOMAIN found : found[j][1] = f => j <= i
    IN  IF \E i \in DOMAIN found : found[i][2] = Throws THEN Throws
        ELSE IF Len(found) # field_cnt THEN <<"-1">>
        ELSE <<"0", [f \in {found[i][1] : i \in DOMAIN found} |-> found[LastWith(f)][2]]>>

-----------------------------------------------------------------------------
(* Queries, file names, output of fdfs_upload_file *)

(* A query does not end with the key: the code would read past its end.   *)
QueryParseKeyValue(query, key) ==
    LET temp == Search(query, 1, key)
        from == temp + Len(key) + 1
    IN  IF temp > Len(query) THEN <<>>
        ELSE <<SubSeq(query, from, FirstOf(query, from, {"#", "&"}) - 1)>>

GetFileSuffix(file_name) ==
    LET k == LastOf(file_name, {"."})
    IN  IF k \in {0, Len(file_name)} THEN <<"null">> ELSE SubSeq(file_name, k + 1, Len(file_name))

TrimSpace(t) == Trimmed(t, {" ", "\t", "\n", "\r"})

-----------------------------------------------------------------------------
(* The configuration *)

(* What one fgets reads: up to a newline, or as much as buf holds. *)
RECURSIVE Lines(_)
Lines(file) ==
    LET end == FirstOf(file, 1, {"\n"})
        len == CHOOSE n \in {end, BufSize - 1, Len(file)} :
                   n <= end /\ n <= BufSize - 1 /\ n <= Len(file)
    IN  IF file = <<>> THEN <<>>
        ELSE <<SubSeq(file, 1, len)>> \o Lines(SubSeq(file, len + 1, Len(file)))

_TrimSpace(t) == Trimmed(t, {" ", "\t"})

(* A line without its comment; the first of two entries of a key stays. *)
_ParseLine(config_map, line) ==
    LET text  == SubSeq(line, 1, FirstOf(line, 1, {"\n", "#"}) - 1)
        p     == FirstOf(text, 1, {"="})
        key   == _TrimSpace(SubSeq(text, 1, p - 1))
        value == _TrimSpace(SubSeq(text, p + 1, Len(text)))
    IN  IF p > Len(text) \/ key = <<>> \/ value = <<>> THEN config_map
        ELSE config_map @@ (key :> value)

_LoadFile(file) == FoldLeft(_ParseLine, <<>>, Lines(file))

SetConfigValue(config_map, name, value) == (name :> value) @@ config_map

(* The entries in some order, each cut to what szPaire holds. *)
_WriteFile(config_map) ==
    LET line(k) == k \o <<"=">> \o config_map[k] \o <<"\n">>
        cut(t)  == SubSeq(t, 1, IF Len(t) < PairSize THEN Len(t) ELSE PairSize - 1)
        keys    == SetToSeq(DOMAIN config_map)
    IN  FlattenSeq([i \in DOMAIN keys |-> cut(line(keys[i]))])

-----------------------------------------------------------------------------
(* The form of an upload as the web server in front of this one sends it:  *)
(* two dashes before every boundary, and two after the last.               *)
Form(fields, boundary) ==
    LET line == <<DASH, DASH>> \o boundary
        part(f) == line \o <<"\r", "\n", NAME, "\"">> \o f[1] \o <<"\"", "\r", "\n", "\r", "\n">>
                   \o f[2] \o <<"\r", "\n">>
    IN  FlattenSeq([i \in DOMAIN fields |-> part(fields[i])]) \o line \o <<DASH, DASH, "\r", "\n">>

(* The fields of a form are read as they were sent (fields of one name: the *)
(* last of them), without line ends at their ends and whatever else their  *)
(* values hold, the boundary with its dash excepted; a form with too few   *)
(* or too many fields is refused.  A form in which a field is empty, or    *)
(* nothing but line ends, is neither: strip throws, nobody catches it, and *)
(* the process ends.                                                       *)
FormReadsBack(fields, boundary) ==
    LET split == <<DASH>> \o boundary
        value(i) == Trimmed(fields[i][2], {"\r", "\n"})
        sent  == FoldLeft(LAMBDA m, i : (fields[i][1] :> value(i)) @@ m, <<>>,
                          [i \in DOMAIN fields |-> i])
    IN  (\A i \in DOMAIN fields : Search(fields[i][2], 1, split) > Len(fields[i][2]))
        => decodeMsg(Form(fields, boundary), split)
           = IF \E i \in DOMAIN fields : value(i) = <<>> THEN Throws
             ELSE IF Len(fields) = field_cnt THEN <<"0", sent>> ELSE <<"-1">>

(* What follows key= in a query, whatever the rest of the query says, if   *)
(* the key is nowhere before it.                                           *)
QueryReadsBack(before, key, value, after) ==
    LET query == before \o key \o <<"=">> \o value \o after
    IN  Search(query, 1, key) = Len(before) + 1
        => QueryParseKeyValue(query, key) = <<value>>

(* A suffix put behind a file name is found again; a trimmed text is found *)
(* again between blanks.                                                   *)
SuffixReadsBack(name, suffix) ==
    "." \notin Range(suffix)
        => GetFileSuffix(name \o <<".">> \o suffix) = IF suffix = <<>> THEN <<"null">> ELSE suffix
TrimReadsBack(left, text, right) ==
    TrimSpace(text) = text => TrimSpace(left \o text \o right) = text

(* What _WriteFile writes of a configuration that was loaded, before and   *)
(* after a value was set, _LoadFile reads as the same configuration, as    *)
(* long as szPaire holds its lines.                                        *)
ConfigReadsBack(file, name, value) ==
    LET loaded == _LoadFile(file)
        fits(m) == \A k \in DOMAIN m : Len(k) + Len(m[k]) + 2 < PairSize
    IN  \A m \in {loaded, SetConfigValue(loaded, name, value)} :
            fits(m) => _LoadFile(_WriteFile(m)) = m
================================================================================
