------------------------------- MODULE HttpParser -------------------------------
(***************************************************************************)
(* base/http_parser.cc, the incremental HTTP parser, as functions on its   *)
(* parser record.  http_parser_execute is called with whatever the network *)
(* has delivered and must go on from any byte.                             *)
(*                                                                         *)
(* The input is a sequence of lexical units.  Single characters that       *)
(* decide something are units; a word is cut into the pieces between which *)
(* the matching states of the code branch ("con" + "nection" and           *)
(* "con" + "tent-length"), so that a read may end inside a word.           *)
(***************************************************************************)
EXTENDS Integers, Sequences

CONSTANTS
    HTTP_MAX_HEADER_SIZE,
    ULLONG_MAX              \* 2^w - 1: also "no Content-Length was seen"

ASSUME ParserAssumption ==
    /\ HTTP_MAX_HEADER_SIZE \in Nat
    /\ ULLONG_MAX \in Nat /\ ULLONG_MAX > 15

SP  == " "
CR  == "\r"
LF  == "\n"
TAB == "\t"
NUL == "nul"

Numerals == <<"0", "1", "2", "3", "4", "5", "6", "7", "8", "9">>
HexNumerals == <<"0", "1", "2", "3", "4", "5", "6", "7", "8", "9",
                 "a", "b", "c", "d", "e", "f">>
IS_NUM(ch) == \E i \in 1..10 : Numerals[i] = ch
IS_HEX(ch) == \E i \in 1..16 : HexNumerals[i] = ch
Unhex(ch)  == (CHOOSE i \in 1..16 : HexNumerals[i] = ch) - 1

Letters == {"a", "b", "c", "d", "e", "f"}
IS_USERINFO_CHAR(ch) == ch \in Letters \/ IS_NUM(ch) \/ ch \in {":", ".", "*", ";"}
IS_HOST_CHAR(ch)     == ch \in Letters \/ IS_NUM(ch) \/ ch = "."
IS_URL_CHAR(ch)      == ch \notin {SP, CR, LF, TAB, NUL, "?", "#"}
TOKEN(ch) == ch \notin {SP, CR, LF, TAB, NUL, ":", "/", "@", "[", "]", "?", ";"}

(* The words that are matched piece by piece *)
CONNECT == <<"C", "O", "NNECT">>
Methods == {CONNECT, <<"C", "O", "PY">>, <<"G", "ET">>, <<"H", "EAD">>,
            <<"P", "OST">>, <<"P", "U", "T">>, <<"P", "U", "RGE">>}
CONNECTION        == <<"con", "nection">>
PROXY_CONNECTION  == <<"proxy-", "connection">>
CONTENT_LENGTH    == <<"con", "tent-length">>
TRANSFER_ENCODING == <<"transfer-", "encoding">>
UPGRADE           == <<"up", "grade">>
CHUNKED           == <<"chun", "ked">>
KEEP_ALIVE        == <<"keep-", "alive">>
CLOSE             == <<"cl", "ose">>
FieldWords == {CONNECTION, PROXY_CONNECTION, CONTENT_LENGTH, TRANSFER_ENCODING, UPGRADE}

(* The words still possible when the next piece, number i, is ch *)
Matching(words, i, ch) == {w \in words : i <= Len(w) /\ w[i] = ch}
Complete(words, i)     == {w \in words : i = Len(w)}
WholeWord(words, i)    == IF Complete(words, i) = {} THEN <<>>
                          ELSE CHOOSE w \in Complete(words, i) : TRUE

-----------------------------------------------------------------------------
(* The parser.  header_state is the set of words a field or a value may    *)
(* still be, and "hit" the one it is: h_general is no word at all.         *)
http_parser_init(type) ==
    [type |-> type,
     state |-> CASE type = "HTTP_REQUEST" -> "s_start_req"
                 [] type = "HTTP_RESPONSE" -> "s_start_res"
                 [] OTHER -> "s_start_req_or_res",
     header_state |-> {}, hit |-> <<>>, index |-> 0, flags |-> {}, method |-> {},
     nread |-> 0, content_length |-> 0, http_major |-> 0, http_minor |-> 0,
     status_code |-> 0, http_errno |-> "HPE_OK", upgrade |-> FALSE]

http_message_needs_eof(q) ==
    /\ q.type # "HTTP_REQUEST"
    /\ q.status_code \div 100 # 1 /\ q.status_code \notin {204, 304}
    /\ q.flags \cap {"F_SKIPBODY", "F_CHUNKED"} = {}
    /\ q.content_length = ULLONG_MAX

http_should_keep_alive(q) ==
    /\ IF q.http_major > 0 /\ q.http_minor > 0
       THEN "F_CONNECTION_CLOSE" \notin q.flags
       ELSE "F_CONNECTION_KEEP_ALIVE" \in q.flags
    /\ ~http_message_needs_eof(q)

NEW_MESSAGE(q) ==
    IF ~http_should_keep_alive(q) THEN "s_dead"
    ELSE IF q.type = "HTTP_REQUEST" THEN "s_start_req" ELSE "s_start_res"

(* The execution of one call: the parser q, the data and the place in it,  *)
(* the marks (0 is NULL), the callbacks so far, and whether it goes on.    *)
NoMark == [url |-> 0, header_field |-> 0, header_value |-> 0, body |-> 0]

Go(x, s)    == [x EXCEPT !.q.state = s]
Error(x, e) == [x EXCEPT !.q.http_errno = e, !.run = FALSE]
Check(x, cond, y) == IF cond THEN y ELSE Error(x, "HPE_STRICT")
Asserted(x, cond, y) == IF cond THEN y ELSE Error(x, "ASSERT")
MARK(x, for) == [x EXCEPT !.mark[for] = IF @ = 0 THEN x.i ELSE @]

CALLBACK_NOTIFY(x, for) == [x EXCEPT !.out = Append(@, <<for, <<>>>>)]

(* The data callback gets what lies between the mark and unit last. *)
CALLBACK_DATA(x, for, last) ==
    IF x.mark[for] = 0 THEN x
    ELSE [x EXCEPT !.out = Append(@, <<for, SubSeq(x.data, x.mark[for], last)>>),
                   !.mark[for] = 0]

MessageComplete(x) == CALLBACK_NOTIFY(Go(x, NEW_MESSAGE(x.q)), "message_complete")

-----------------------------------------------------------------------------
(* URLs *)
parse_url_char(s, ch) ==
    IF ch \in {SP, CR, LF, TAB} THEN "s_dead" ELSE
    CASE s = "s_req_spaces_before_url" ->
            IF ch \in {"/", "*"} THEN "s_req_path"
            ELSE IF ch \in Letters THEN "s_req_schema" ELSE "s_dead"
      [] s = "s_req_schema" ->
            IF ch \in Letters THEN s
            ELSE IF ch = ":" THEN "s_req_schema_slash" ELSE "s_dead"
      [] s = "s_req_schema_slash" ->
            IF ch = "/" THEN "s_req_schema_slash_slash" ELSE "s_dead"
      [] s = "s_req_schema_slash_slash" ->
            IF ch = "/" THEN "s_req_server_start" ELSE "s_dead"
      [] s \in {"s_req_server_start", "s_req_server", "s_req_server_with_at"} ->
            CASE ch = "/" -> "s_req_path"
              [] ch = "?" -> "s_req_query_string_start"
              [] ch = "@" -> IF s = "s_req_server_with_at" THEN "s_dead"
                             ELSE "s_req_server_with_at"
              [] IS_USERINFO_CHAR(ch) \/ ch \in {"[", "]"} -> "s_req_server"
              [] OTHER -> "s_dead"
      [] s = "s_req_path" ->
            IF IS_URL_CHAR(ch) THEN s
            ELSE IF ch = "?" THEN "s_req_query_string_start"
            ELSE IF ch = "#" THEN "s_req_fragment_start" ELSE "s_dead"
      [] s \in {"s_req_query_string_start", "s_req_query_string"} ->
            IF IS_URL_CHAR(ch) \/ ch = "?" THEN "s_req_query_string"
            ELSE IF ch = "#" THEN "s_req_fragment_start" ELSE "s_dead"
      [] s = "s_req_fragment_start" ->
            IF IS_URL_CHAR(ch) \/ ch = "?" THEN "s_req_fragment"
            ELSE IF ch = "#" THEN s ELSE "s_dead"
      [] s = "s_req_fragment" ->
            IF IS_URL_CHAR(ch) \/ ch \in {"?", "#"} THEN s ELSE "s_dead"
      [] OTHER -> "s_dead"

UrlStart  == {"s_req_schema", "s_req_schema_slash", "s_req_schema_slash_slash",
              "s_req_server_start"}
UrlInside == {"s_req_server", "s_req_server_with_at", "s_req_path",
              "s_req_query_string_start", "s_req_query_string",
              "s_req_fragment_start", "s_req_fragment"}

UrlChar(x, s, ch) ==
    LET t == parse_url_char(s, ch)
    IN  IF t = "s_dead" THEN Error(x, "HPE_INVALID_URL") ELSE Go(x, t)

SpacesBeforeUrl(x, ch) ==
    IF ch = SP THEN x
    ELSE UrlChar(MARK(x, "url"),
                 IF CONNECT \in x.q.method
                 THEN "s_req_server_start" ELSE x.q.state, ch)

InUrl(x, ch) ==
    CASE x.q.state \in UrlStart /\ ch \in {SP, CR, LF} -> Error(x, "HPE_INVALID_URL")
      [] x.q.state \in UrlInside /\ ch = SP ->
            CALLBACK_DATA(Go(x, "s_req_http_start"), "url", x.i - 1)
      [] x.q.state \in UrlInside /\ ch \in {CR, LF} ->
            CALLBACK_DATA([x EXCEPT !.q.http_major = 0, !.q.http_minor = 9,
                               !.q.state = IF ch = CR THEN "s_req_line_almost_done"
                                           ELSE "s_header_field_start"],
                          "url", x.i - 1)
      [] OTHER -> UrlChar(x, x.q.state, ch)

-----------------------------------------------------------------------------
(* Request and status lines *)
StartMessage(x) == [x EXCEPT !.q.flags = {}, !.q.content_length = ULLONG_MAX]

StartReq(x, ch) ==
    LET words == Matching(Methods, 1, ch)
    IN  IF ch \in {CR, LF} THEN x
        ELSE IF words = {} THEN Error(StartMessage(x), "HPE_INVALID_METHOD")
        ELSE CALLBACK_NOTIFY([StartMessage(x) EXCEPT !.q.method = words,
                 !.q.index = 1, !.q.state = "s_req_method"], "message_begin")

ReqMethod(x, ch) ==
    LET words == Matching(x.q.method, x.q.index + 1, ch)
        whole == Complete(x.q.method, x.q.index)
    IN  CASE ch = SP /\ whole # {} ->
                [x EXCEPT !.q.state = "s_req_spaces_before_url", !.q.method = whole]
          [] words # {} -> [x EXCEPT !.q.method = words, !.q.index = @ + 1]
          [] OTHER -> Error(x, "HPE_INVALID_METHOD")

StartReqOrRes(x, ch) ==
    CASE ch \in {CR, LF} -> x
      [] ch = "H" -> CALLBACK_NOTIFY(Go(StartMessage(x), "s_res_or_resp_H"),
                                     "message_begin")
      [] OTHER -> StartReq([StartMessage(x) EXCEPT !.q.type = "HTTP_REQUEST",
                                                  !.q.state = "s_start_req"], ch)

ResOrRespH(x, ch) ==
    CASE ch = "TTP/" -> [x EXCEPT !.q.type = "HTTP_RESPONSE",
                                  !.q.state = "s_res_first_http_major"]
      [] ch = "EAD" -> [x EXCEPT !.q.type = "HTTP_REQUEST", !.q.index = 2,
                                 !.q.method = {<<"H", "EAD">>},
                                 !.q.state = "s_req_method"]
      [] OTHER -> Error(x, "HPE_INVALID_CONSTANT")

(* Every CR and LF before a response announces a message too. *)
StartRes(x, ch) ==
    CASE ch = "H" -> CALLBACK_NOTIFY(Go(StartMessage(x), "s_res_H"), "message_begin")
      [] ch \in {CR, LF} -> CALLBACK_NOTIFY(StartMessage(x), "message_begin")
      [] OTHER -> Error(StartMessage(x), "HPE_INVALID_CONSTANT")

ReqHttpStart(x, ch) ==
    CASE ch = "H" -> Go(x, "s_req_http_H")
      [] ch = SP -> x
      [] OTHER -> Error(x, "HPE_INVALID_CONSTANT")

(* HTTP/major.minor: the state after the number, the digits so far *)
FirstDigit(x, ch, field, s) ==
    IF IS_NUM(ch) THEN [x EXCEPT !.q[field] = Unhex(ch), !.q.state = s]
    ELSE Error(x, "HPE_INVALID_VERSION")

NextDigit(x, ch, field, error) ==
    LET n == x.q[field] * 10 + Unhex(ch)
    IN  IF ~IS_NUM(ch) THEN Error(x, error)
        ELSE IF n > 999 THEN Error([x EXCEPT !.q[field] = n], error)
        ELSE [x EXCEPT !.q[field] = n]

ReqFirstMajor(x, ch) ==
    IF ch = "0" THEN Error(x, "HPE_INVALID_VERSION")
    ELSE FirstDigit(x, ch, "http_major", "s_req_http_major")

Major(x, ch, s) ==
    IF ch = "." THEN Go(x, s) ELSE NextDigit(x, ch, "http_major", "HPE_INVALID_VERSION")

ReqMinor(x, ch) ==
    CASE ch = CR -> Go(x, "s_req_line_almost_done")
      [] ch = LF -> Go(x, "s_header_field_start")
      [] OTHER -> NextDigit(x, ch, "http_minor", "HPE_INVALID_VERSION")

ResMinor(x, ch) ==
    IF ch = SP THEN Go(x, "s_res_first_status_code")
    ELSE NextDigit(x, ch, "http_minor", "HPE_INVALID_VERSION")

FirstStatusCode(x, ch) ==
    CASE IS_NUM(ch) -> [x EXCEPT !.q.status_code = Unhex(ch),
                                 !.q.state = "s_res_status_code"]
      [] ch = SP -> x
      [] OTHER -> Error(x, "HPE_INVALID_STATUS")

StatusCode(x, ch) ==
    CASE ch = SP -> Go(x, "s_res_status")
      [] ch = CR -> Go(x, "s_res_line_almost_done")
      [] ch = LF -> Go(x, "s_header_field_start")
      [] OTHER -> NextDigit(x, ch, "status_code", "HPE_INVALID_STATUS")

Status(x, ch) ==
    CASE ch = CR -> Go(x, "s_res_line_almost_done")
      [] ch = LF -> Go(x, "s_header_field_start")
      [] OTHER -> x

ReqLineAlmostDone(x, ch) ==
    IF ch = LF THEN Go(x, "s_header_field_start") ELSE Error(x, "HPE_LF_EXPECTED")

ResLineAlmostDone(x, ch) ==
    Check(x, ch = LF, CALLBACK_NOTIFY(Go(x, "s_header_field_start"), "status_complete"))

-----------------------------------------------------------------------------
(* Header fields *)
HeaderField(x, ch) ==
    LET words == Matching(x.q.header_state, x.q.index + 1, ch)
        end(s) == CALLBACK_DATA(Go(x, s), "header_field", x.i - 1)
    IN  CASE TOKEN(ch) ->
                [x EXCEPT !.q.header_state = words, !.q.index = @ + 1,
                          !.q.hit = WholeWord(words, x.q.index + 1)]
          [] ch = ":" -> end("s_header_value_start")
          [] ch = CR -> end("s_header_almost_done")
          [] ch = LF -> end("s_header_field_start")
          [] OTHER -> Error(x, "HPE_INVALID_HEADER_TOKEN")

(* The first piece of a value that is not blank.  After it header_state    *)
(* holds the words the value may be, and hit stays the field while it is   *)
(* Content-Length.                                                         *)
ValueWords(field) == CASE field = TRANSFER_ENCODING -> {CHUNKED}
                       [] field \in {CONNECTION, PROXY_CONNECTION} -> {KEEP_ALIVE, CLOSE}
                       [] OTHER -> {}

HeaderValueStart(x, ch) ==
    LET y == [MARK(x, "header_value") EXCEPT !.q.state = "s_header_value",
                                             !.q.index = 1]
        general == [y EXCEPT !.q.header_state = {}, !.q.hit = <<>>]
    IN  IF ch \in {SP, TAB} THEN x
        ELSE IF ch = CR THEN CALLBACK_DATA(Go(general, "s_header_almost_done"),
                                           "header_value", x.i - 1)
        ELSE IF ch = LF THEN CALLBACK_DATA(Go(y, "s_header_field_start"),
                                           "header_value", x.i - 1)
        ELSE CASE x.q.hit = UPGRADE -> [general EXCEPT !.q.flags = @ \cup {"F_UPGRADE"}]
               [] x.q.hit = CONTENT_LENGTH ->
                    IF IS_NUM(ch) THEN [y EXCEPT !.q.content_length = Unhex(ch)]
                    ELSE Error(y, "HPE_INVALID_CONTENT_LENGTH")
               [] OTHER -> [general EXCEPT !.q.header_state =
                                              Matching(ValueWords(x.q.hit), 1, ch)]

(* Another digit of a length: unsigned arithmetic, and the code's test for *)
(* an overflow.                                                            *)
AppendDigit(x, base, digit) ==
    LET t == (x.q.content_length * base + digit) % (ULLONG_MAX + 1)
    IN  IF t < x.q.content_length \/ t = ULLONG_MAX
        THEN Error(x, "HPE_INVALID_CONTENT_LENGTH")
        ELSE [x EXCEPT !.q.content_length = t]

(* s_header_almost_done, on LF: what the value turned out to be *)
HeaderAlmostDone(x, ch) ==
    LET flag == CASE x.q.hit = KEEP_ALIVE -> {"F_CONNECTION_KEEP_ALIVE"}
                  [] x.q.hit = CLOSE -> {"F_CONNECTION_CLOSE"}
                  [] x.q.hit = CHUNKED -> {"F_CHUNKED"}
                  [] OTHER -> {}
    IN  Check(x, ch = LF, [x EXCEPT !.q.state = "s_header_value_lws",
                                    !.q.flags = @ \cup flag])

HeaderValue(x, ch) ==
    LET words == Matching(x.q.header_state, x.q.index + 1, ch)
        end   == CALLBACK_DATA(Go(x, "s_header_almost_done"), "header_value", x.i - 1)
    IN  IF ch = CR THEN end
        ELSE IF ch = LF THEN HeaderAlmostDone(end, ch)
        ELSE CASE x.q.hit = CONTENT_LENGTH ->
                    CASE ch = SP -> x
                      [] IS_NUM(ch) -> AppendDigit(x, 10, Unhex(ch))
                      [] OTHER -> Error(x, "HPE_INVALID_CONTENT_LENGTH")
               [] x.q.hit \in {CHUNKED, KEEP_ALIVE, CLOSE} /\ ch = SP -> x
               [] OTHER -> [x EXCEPT !.q.header_state = words, !.q.index = @ + 1,
                                !.q.hit = WholeWord(words, x.q.index + 1)]

-----------------------------------------------------------------------------
(* The end of the headers, and bodies *)

BodyBegins(x) ==
    CASE x.q.upgrade -> [MessageComplete(x) EXCEPT !.run = FALSE, !.i = @ + 1]
      [] ~x.q.upgrade /\ "F_CHUNKED" \in x.q.flags -> Go(x, "s_chunk_size_start")
      [] ~x.q.upgrade /\ "F_CHUNKED" \notin x.q.flags ->
            CASE x.q.content_length = 0 -> MessageComplete(x)
              [] x.q.content_length \notin {0, ULLONG_MAX} -> Go(x, "s_body_identity")
              [] x.q.content_length = ULLONG_MAX ->
                    IF x.q.type = "HTTP_REQUEST" \/ ~http_message_needs_eof(x.q)
                    THEN MessageComplete(x) ELSE Go(x, "s_body_identity_eof")

(* Mutant: nread is not reset after the headers. *)
HeadersDone_NoReset(x) == BodyBegins(x)
HeadersDone(x) == BodyBegins([x EXCEPT !.q.nread = 0])

HeadersAlmostDone(x, ch) ==
    LET up == "F_UPGRADE" \in x.q.flags \/ x.q.method = {CONNECT}
        y  == [x EXCEPT !.q.state = "s_headers_done", !.q.upgrade = up]
    IN  Check(x, ch = LF,
            IF "F_TRAILING" \in x.q.flags THEN MessageComplete(x)
            ELSE HeadersDone(CALLBACK_NOTIFY(y, "headers_complete")))

HeaderFieldStart(x, ch) ==
    CASE ch = CR -> Go(x, "s_headers_almost_done")
      [] ch = LF -> HeadersAlmostDone(Go(x, "s_headers_almost_done"), ch)
      [] TOKEN(ch) ->
            [MARK(x, "header_field") EXCEPT !.q.state = "s_header_field",
                 !.q.index = 1, !.q.hit = <<>>,
                 !.q.header_state = Matching(FieldWords, 1, ch)]
      [] OTHER -> Error(x, "HPE_INVALID_HEADER_TOKEN")

HeaderValueLws(x, ch) ==
    IF ch \in {SP, TAB} THEN Go(x, "s_header_value_start")
    ELSE HeaderFieldStart(Go(x, "s_header_field_start"), ch)

(* As much of the body as there is: the units up to last, then the message *)
(* or the chunk is done, or the call is.                                   *)
TakeBody(x, whole(_)) ==
    LET left == Len(x.data) - x.i + 1
        to_read == IF x.q.content_length < left THEN x.q.content_length ELSE left
        y == [MARK(x, "body") EXCEPT !.q.content_length = @ - to_read,
                                     !.i = @ + to_read - 1]
    IN  Asserted(x, x.q.content_length \notin {0, ULLONG_MAX},
               IF y.q.content_length = 0 THEN whole(y) ELSE y)

BodyIdentity(x) ==
    TakeBody(x, LAMBDA y : MessageComplete(CALLBACK_DATA(Go(y, "s_message_done"),
                                                         "body", y.i)))

BodyIdentityEof(x) == [MARK(x, "body") EXCEPT !.i = Len(x.data)]

ChunkSizeStart(x, ch) ==
    Asserted(x, x.q.nread = 1 /\ "F_CHUNKED" \in x.q.flags,
           IF IS_HEX(ch) THEN [x EXCEPT !.q.content_length = Unhex(ch),
                                        !.q.state = "s_chunk_size"]
           ELSE Error(x, "HPE_INVALID_CHUNK_SIZE"))

ChunkSize(x, ch) ==
    CASE ch = CR -> Go(x, "s_chunk_size_almost_done")
      [] ch \in {";", SP} -> Go(x, "s_chunk_parameters")
      [] IS_HEX(ch) -> AppendDigit(x, 16, Unhex(ch))
      [] OTHER -> Error(x, "HPE_INVALID_CHUNK_SIZE")

ChunkParameters(x, ch) == IF ch = CR THEN Go(x, "s_chunk_size_almost_done") ELSE x

ChunkSizeAlmostDone(x, ch) ==
    LET y == [x EXCEPT !.q.nread = 0]
    IN  Check(x, ch = LF,
              IF x.q.content_length = 0
              THEN [y EXCEPT !.q.flags = @ \cup {"F_TRAILING"},
                             !.q.state = "s_header_field_start"]
              ELSE Go(y, "s_chunk_data"))

ChunkData(x) == TakeBody(x, LAMBDA y : Go(y, "s_chunk_data_almost_done"))

ChunkDataAlmostDone(x, ch) ==
    Asserted(x, x.q.content_length = 0,
           Check(x, ch = CR, CALLBACK_DATA(Go(x, "s_chunk_data_done"), "body", x.i - 1)))

ChunkDataDone(x, ch) ==
    Check(x, ch = LF, [x EXCEPT !.q.nread = 0, !.q.state = "s_chunk_size_start"])

-----------------------------------------------------------------------------
(* One unit: the switch on the state. *)
Dispatch(x) ==
    LET s == x.q.state
        ch == x.data[x.i]
    IN
    CASE s = "s_dead" ->
            IF ch \in {CR, LF} THEN x ELSE Error(x, "HPE_CLOSED_CONNECTION")
      [] s = "s_start_req_or_res"      -> StartReqOrRes(x, ch)
      [] s = "s_res_or_resp_H"         -> ResOrRespH(x, ch)
      [] s = "s_start_res"             -> StartRes(x, ch)
      [] s = "s_res_H"                 -> Check(x, ch = "TTP/", Go(x, "s_res_first_http_major"))
      [] s = "s_res_first_http_major"  -> FirstDigit(x, ch, "http_major", "s_res_http_major")
      [] s = "s_res_http_major"        -> Major(x, ch, "s_res_first_http_minor")
      [] s = "s_res_first_http_minor"  -> FirstDigit(x, ch, "http_minor", "s_res_http_minor")
      [] s = "s_res_http_minor"        -> ResMinor(x, ch)
      [] s = "s_res_first_status_code" -> FirstStatusCode(x, ch)
      [] s = "s_res_status_code"       -> StatusCode(x, ch)
      [] s = "s_res_status"            -> Status(x, ch)
      [] s = "s_res_line_almost_done"  -> ResLineAlmostDone(x, ch)
      [] s = "s_start_req"             -> StartReq(x, ch)
      [] s = "s_req_method"            -> ReqMethod(x, ch)
      [] s = "s_req_spaces_before_url" -> SpacesBeforeUrl(x, ch)
      [] s \in UrlStart \cup UrlInside -> InUrl(x, ch)
      [] s = "s_req_http_start"        -> ReqHttpStart(x, ch)
      [] s = "s_req_http_H"            -> Check(x, ch = "TTP/", Go(x, "s_req_first_http_major"))
      [] s = "s_req_first_http_major"  -> ReqFirstMajor(x, ch)
      [] s = "s_req_http_major"        -> Major(x, ch, "s_req_first_http_minor")
      [] s = "s_req_first_http_minor"  -> FirstDigit(x, ch, "http_minor", "s_req_http_minor")
      [] s = "s_req_http_minor"        -> ReqMinor(x, ch)
      [] s = "s_req_line_almost_done"  -> ReqLineAlmostDone(x, ch)
      [] s = "s_header_field_start"    -> HeaderFieldStart(x, ch)
      [] s = "s_header_field"          -> HeaderField(x, ch)
      [] s = "s_header_value_start"    -> HeaderValueStart(x, ch)
      [] s = "s_header_value"          -> HeaderValue(x, ch)
      [] s = "s_header_almost_done"    -> HeaderAlmostDone(x, ch)
      [] s = "s_header_value_lws"      -> HeaderValueLws(x, ch)
      [] s = "s_headers_almost_done"   -> HeadersAlmostDone(x, ch)
      [] s = "s_body_identity"         -> BodyIdentity(x)
      [] s = "s_body_identity_eof"     -> BodyIdentityEof(x)
      [] s = "s_chunk_size_start"      -> ChunkSizeStart(x, ch)
      [] s = "s_chunk_size"            -> ChunkSize(x, ch)
      [] s = "s_chunk_parameters"      -> ChunkParameters(x, ch)
      [] s = "s_chunk_size_almost_done" -> ChunkSizeAlmostDone(x, ch)
      [] s = "s_chunk_data"            -> ChunkData(x)
      [] s = "s_chunk_data_almost_done" -> ChunkDataAlmostDone(x, ch)
      [] s = "s_chunk_data_done"       -> ChunkDataDone(x, ch)

BodyStates == {"s_chunk_data", "s_chunk_data_almost_done", "s_chunk_data_done",
               "s_body_identity", "s_body_identity_eof", "s_message_done"}

(* The loop: a unit of a header counts against HTTP_MAX_HEADER_SIZE. *)
Byte(x) ==
    LET y == [x EXCEPT !.q.nread = IF x.q.state \in BodyStates THEN @ ELSE @ + 1]
    IN  IF x.q.state \notin BodyStates /\ y.q.nread > HTTP_MAX_HEADER_SIZE
        THEN Error(y, "HPE_HEADER_OVERFLOW")
        ELSE Dispatch(y)

Step(x) ==
    LET y == Byte(x)
    IN  IF ~x.run \/ x.i > Len(x.data) THEN x
        ELSE IF y.run THEN [y EXCEPT !.i = @ + 1] ELSE y

(* Each turn uses a unit at least. *)
Turns(x) == LET turn[n \in Nat] == IF n = 0 THEN x ELSE Step(turn[n - 1]) IN turn
Loop(x)  == Turns(x)[Len(x.data)]

(* Mutant: a call that begins inside a value does not mark it. *)
EntryMarks_NoValue(q) ==
    [url |-> IF q.state \in UrlStart \cup UrlInside THEN 1 ELSE 0,
     header_field |-> IF q.state = "s_header_field" THEN 1 ELSE 0,
     header_value |-> 0, body |-> 0]

(* The marks a call starts with: the call may begin inside a URL, a field  *)
(* or a value.                                                             *)
EntryMarks(q) ==
    [url |-> IF q.state \in UrlStart \cup UrlInside THEN 1 ELSE 0,
     header_field |-> IF q.state = "s_header_field" THEN 1 ELSE 0,
     header_value |-> IF q.state = "s_header_value" THEN 1 ELSE 0,
     body |-> 0]

(* What is marked when the data is used up is reported. *)
FlushMarks(x) ==
    LET flush(y, for) == CALLBACK_DATA(y, for, Len(x.data))
    IN  flush(flush(flush(flush(x, "header_field"), "header_value"), "url"), "body")

Eof(q) ==
    CASE q.state = "s_body_identity_eof" ->
            [q |-> q, out |-> <<<<"message_complete", <<>>>>>>, parsed |-> 0]
      [] q.state \in {"s_dead", "s_start_req_or_res", "s_start_res", "s_start_req"} ->
            [q |-> q, out |-> <<>>, parsed |-> 0]
      [] OTHER -> [q |-> [q EXCEPT !.http_errno = "HPE_INVALID_EOF_STATE"],
                   out |-> <<>>, parsed |-> 1]

Returned(x) ==
    LET y == IF x.run THEN FlushMarks(x) ELSE x
    IN  [q |-> y.q, out |-> y.out, parsed |-> y.i - 1]

(* The parser after the call, the callbacks it made, the units it used. *)
http_parser_execute(q, data) ==
    IF q.http_errno # "HPE_OK" THEN [q |-> q, out |-> <<>>, parsed |-> 0]
    ELSE IF data = <<>> THEN Eof(q)
    ELSE Returned(Loop([q |-> q, data |-> data, i |-> 1, mark |-> EntryMarks(q),
                        out |-> <<>>, run |-> TRUE]))
=================================================================================
