---------------------------- MODULE HttpProofs ----------------------------
(***************************************************************************)
(* Proofs about the parser of base/http_parser.cc and about the front that *)
(* uses it (AnsweredOnce and TasksAreSent: a request that the parser has   *)
(* made out has one answer, and a task that was queued sends it).          *)
(*                                                                         *)
(* ParserAsserts: whatever it is fed with, and wherever the input is cut,  *)
(* none of its assertions about bodies and chunks fails.  Every handler is *)
(* shown to leave a sound record behind it.                                *)
(*                                                                         *)
(* CutsDoNotMatter: several calls make of a stream what one call makes of  *)
(* it.  One call with c and d is followed beside a call with c and one     *)
(* with d.  Up to the end of c the two are the same (Same); from there on  *)
(* they meet the same units in the same state, and what is marked of a     *)
(* piece of data, or has been reported of it, makes up the same piece      *)
(* (Sim).  A unit leads from there to there whatever handler it comes to,  *)
(* and bodies, which are taken as much at a time as there is of them, come *)
(* out the same after one turn more or less.                               *)
(***************************************************************************)
EXTENDS HttpStream, HttpFront, FiniteSetTheorems, SequenceTheorems, WellFoundedInduction, TLAPS

-------------------------------------------------------------------------------
(* Induction over the natural numbers, said of a set. *)

LEMMA Least ==
    ASSUME NEW T \in SUBSET Nat, T # {}
    PROVE  \E m \in T : \A k \in T : m <= k
<1> DEFINE R == OpToRel(<, Nat)
<1>1. IsWellFoundedOn(R, Nat)
  BY NatLessThanWellFounded
<1> HIDE DEF R
<1>2. PICK m \in T : \A k \in T : ~ (<<k, m>> \in R)
  BY <1>1, WFMin
<1>3. \A k, n \in Nat : <<k, n>> \in R <=> k < n
  BY DEF R, OpToRel
<1>4. \A k \in T : ~ (k < m)
  BY <1>2, <1>3
<1> QED BY <1>4

LEMMA SetInduction ==
    ASSUME NEW T \in SUBSET Nat, 0 \in T, \A n \in T : n + 1 \in T
    PROVE  \A n \in Nat : n \in T
<1> SUFFICES ASSUME NEW n \in Nat, n \notin T PROVE FALSE
  OBVIOUS
<1>1. Nat \ T # {} /\ Nat \ T \in SUBSET Nat
  OBVIOUS
<1>2. PICK m \in Nat \ T : \A k \in Nat \ T : m <= k
  BY <1>1, Least
<1>3. m - 1 \in Nat /\ m - 1 \notin Nat \ T
  BY <1>2
<1>4. (m - 1) + 1 \in T
  BY <1>3
<1> QED BY <1>2, <1>4

-------------------------------------------------------------------------------
(* The turns of the loop *)

(* The first n turns from x. *)
First(g, x, n) ==
    /\ g[0] = x
    /\ \A k \in 1..n : g[k] = Step(g[k - 1])

LEMMA FirstExists ==
    ASSUME NEW x
    PROVE  \A n \in Nat : \E g : First(g, x, n)
<1> DEFINE T == {n \in Nat : \E g : First(g, x, n)}
<1>1. 0 \in T
  <2>1. First([k \in {0} |-> x], x, 0)
    BY DEF First
  <2> QED BY <2>1
<1>2. ASSUME NEW n \in T PROVE n + 1 \in T
  <2>1. PICK g : First(g, x, n)
    OBVIOUS
  <2> DEFINE h == [k \in 0..(n + 1) |-> IF k = n + 1 THEN Step(g[n]) ELSE g[k]]
  <2>2. h[0] = x
    BY <2>1 DEF First
  <2>3. \A k \in 1..(n + 1) : h[k] = Step(h[k - 1])
    <3> SUFFICES ASSUME NEW k \in 1..(n + 1) PROVE h[k] = Step(h[k - 1])
      OBVIOUS
    <3>1. h[k - 1] = g[k - 1]
      OBVIOUS
    <3>2. CASE k = n + 1
      BY <3>1, <3>2
    <3>3. CASE k # n + 1
      <4>1. k \in 1..n /\ h[k] = g[k]
        BY <3>3
      <4> QED BY <2>1, <3>1, <4>1 DEF First
    <3> QED BY <3>2, <3>3
  <2>4. First(h, x, n + 1)
    BY <2>2, <2>3 DEF First
  <2> QED BY <2>4
<1> HIDE DEF T
<1>3. \A n \in Nat : n \in T
  BY <1>1, <1>2, SetInduction DEF T
<1> QED BY <1>3 DEF T

LEMMA FirstUnique ==
    ASSUME NEW x, NEW g, NEW h, NEW m \in Nat, First(g, x, m), First(h, x, m)
    PROVE  g[m] = h[m]
<1> DEFINE T == {n \in Nat : n <= m => g[n] = h[n]}
<1>1. 0 \in T
  BY DEF First
<1>2. ASSUME NEW n \in T PROVE n + 1 \in T
  <2> SUFFICES ASSUME n + 1 <= m PROVE g[n + 1] = h[n + 1]
    OBVIOUS
  <2>1. n + 1 \in 1..m /\ (n + 1) - 1 = n /\ g[n] = h[n]
    OBVIOUS
  <2> QED BY <2>1 DEF First
<1> HIDE DEF T
<1>3. \A n \in Nat : n \in T
  BY <1>1, <1>2, SetInduction DEF T
<1> QED BY <1>3 DEF T

LEMMA TurnsDef ==
    ASSUME NEW x
    PROVE  /\ Turns(x)[0] = x
           /\ \A n \in Nat : Turns(x)[n + 1] = Step(Turns(x)[n])
<1> DEFINE g(n) == CHOOSE f : First(f, x, n)
           f == [n \in Nat |-> g(n)[n]]
<1>1. \A n \in Nat : First(g(n), x, n)
  BY FirstExists
<1>2. f[0] = x
  BY <1>1 DEF First
<1>3. ASSUME NEW n \in Nat \ {0} PROVE f[n] = Step(f[n - 1])
  <2>1. First(g(n), x, n) /\ First(g(n - 1), x, n - 1)
    BY <1>1
  <2>2. First(g(n), x, n - 1) /\ n - 1 \in Nat
    BY <2>1 DEF First
  <2> HIDE DEF g
  <2>3. g(n)[n - 1] = g(n - 1)[n - 1]
    BY <2>1, <2>2, FirstUnique
  <2>4. g(n)[n] = Step(g(n)[n - 1])
    BY <2>1 DEF First
  <2> QED BY <2>2, <2>3, <2>4
<1> HIDE DEF f
<1>4. f = [n \in Nat |-> IF n = 0 THEN x ELSE Step(f[n - 1])]
  <2>1. f = [n \in Nat |-> f[n]]
    BY DEF f
  <2> QED BY <2>1, <1>2, <1>3
<1>5. Turns(x) = [n \in Nat |-> IF n = 0 THEN x ELSE Step(Turns(x)[n - 1])]
  BY <1>4 DEF Turns
<1> QED BY <1>5

-------------------------------------------------------------------------------
(* What the assertions rely on.  While a message has chunks its flag is    *)
(* set; nread was reset before a chunk; a body or a chunk that is read has *)
(* a length that is known and not used up, and a chunk that was read has   *)
(* none left.                                                              *)

InLength == {"s_chunk_size", "s_chunk_parameters", "s_chunk_size_almost_done"}

(* The states in which a turn begins *)
States == {
    "s_dead", "s_start_req_or_res", "s_res_or_resp_H", "s_start_res", "s_res_H",
    "s_res_first_http_major", "s_res_http_major", "s_res_first_http_minor",
    "s_res_http_minor", "s_res_first_status_code", "s_res_status_code", "s_res_status",
    "s_res_line_almost_done", "s_start_req", "s_req_method", "s_req_spaces_before_url",
    "s_req_schema", "s_req_schema_slash", "s_req_schema_slash_slash",
    "s_req_server_start", "s_req_server", "s_req_server_with_at", "s_req_path",
    "s_req_query_string_start", "s_req_query_string", "s_req_fragment_start",
    "s_req_fragment", "s_req_http_start", "s_req_http_H", "s_req_first_http_major",
    "s_req_http_major", "s_req_first_http_minor", "s_req_http_minor",
    "s_req_line_almost_done", "s_header_field_start", "s_header_field",
    "s_header_value_start", "s_header_value", "s_header_almost_done",
    "s_header_value_lws", "s_headers_almost_done", "s_body_identity",
    "s_body_identity_eof", "s_chunk_size_start", "s_chunk_size", "s_chunk_parameters",
    "s_chunk_size_almost_done", "s_chunk_data", "s_chunk_data_almost_done",
    "s_chunk_data_done"}

Ready(q, n) ==
    /\ q.http_errno = "HPE_OK" /\ q.state \in States
    /\ q.state = "s_chunk_size_start" => q.nread = n
    /\ q.state \in InChunks => "F_CHUNKED" \in q.flags
    /\ q.state \in InLength => q.content_length # ULLONG_MAX
    /\ q.state \in {"s_chunk_data", "s_body_identity"}
          => q.content_length \notin {0, ULLONG_MAX}
    /\ q.state = "s_chunk_data_almost_done" => q.content_length = 0

Fields(q) ==
    /\ {"type", "state", "header_state", "hit", "index", "flags", "method", "nread",
        "content_length", "http_major", "http_minor", "status_code", "http_errno",
        "upgrade"} \subseteq DOMAIN q
    /\ q.nread \in Nat /\ q.content_length \in 0..ULLONG_MAX

(* The parser between two calls. *)
Sound(q) == Fields(q) /\ q.http_errno # "ASSERT" /\ (q.http_errno = "HPE_OK" => Ready(q, 0))

Places(x) ==
    /\ {"q", "data", "i", "mark", "out", "run"} \subseteq DOMAIN x
    /\ x.i \in Nat /\ Len(x.data) \in Nat

(* The call between two turns, and in one, on state s. *)
Turning(x) == Places(x) /\ Sound(x.q) /\ (x.run => x.q.http_errno = "HPE_OK")
Inside(x, s) ==
    /\ Places(x) /\ Fields(x.q) /\ Ready(x.q, 1) /\ x.q.state = s
    /\ x.i <= Len(x.data)

-------------------------------------------------------------------------------
(* The steps that the states share *)

LEMMA ErrorTurns ==
    ASSUME NEW x, NEW e, Places(x), Fields(x.q), e \notin {"HPE_OK", "ASSERT"}
    PROVE  Turning(Error(x, e))
BY DEF Error, Turning, Places, Sound, Fields

(* A state outside of bodies needs nothing. *)
Plain(s) == s \in States \ (InChunks \cup {"s_body_identity"})

LEMMA GoTurns ==
    ASSUME NEW x, NEW s, Places(x), Fields(x.q), x.q.http_errno = "HPE_OK", Plain(s)
    PROVE  Turning(Go(x, s)) /\ Go(x, s).q.http_errno = "HPE_OK"
BY DEF Go, Turning, Places, Sound, Fields, Ready, Plain, InLength, InChunks, States

(* The marks and the callbacks leave the parser alone. *)
Beside(x, y) == y.q = x.q /\ y.i = x.i /\ y.data = x.data /\ y.run = x.run
                /\ (Places(x) => Places(y))

LEMMA MarkBeside == \A x, f : Places(x) => Beside(x, MARK(x, f))
BY DEF MARK, Beside, Places

LEMMA NotifyBeside == \A x, f : Places(x) => Beside(x, CALLBACK_NOTIFY(x, f))
BY DEF CALLBACK_NOTIFY, Beside, Places

LEMMA DataBeside == \A x, f, n : Places(x) => Beside(x, CALLBACK_DATA(x, f, n))
BY DEF CALLBACK_DATA, Beside, Places

LEMMA BesideTurns ==
    ASSUME NEW x, NEW y, Beside(x, y), Turning(x)
    PROVE  Turning(y)
BY DEF Beside, Turning

LEMMA MessageDone ==
    ASSUME NEW x, Places(x), Fields(x.q), x.q.http_errno = "HPE_OK"
    PROVE  Turning(MessageComplete(x)) /\ MessageComplete(x).q.http_errno = "HPE_OK"
<1> DEFINE s == NEW_MESSAGE(x.q)
           y == Go(x, s)
<1>1. Plain(s)
  BY DEF NEW_MESSAGE, Plain, InChunks, States
<1> HIDE DEF s
<1>2. Turning(y) /\ y.q.http_errno = "HPE_OK"
  BY <1>1, GoTurns
<1> HIDE DEF y
<1>3. Beside(y, CALLBACK_NOTIFY(y, "message_complete"))
  BY <1>2, NotifyBeside DEF Turning
<1>4. Turning(CALLBACK_NOTIFY(y, "message_complete"))
  BY <1>2, <1>3, BesideTurns
<1> QED BY <1>2, <1>3, <1>4 DEF Beside, MessageComplete, y, s

-------------------------------------------------------------------------------
(* URLs, request and status lines: states that are not of a body *)

Line == {"s_dead", "s_start_req_or_res", "s_res_or_resp_H", "s_start_res", "s_res_H",
         "s_res_first_http_major", "s_res_http_major", "s_res_first_http_minor",
         "s_res_http_minor", "s_res_first_status_code", "s_res_status_code",
         "s_res_status", "s_res_line_almost_done", "s_start_req", "s_req_method",
         "s_req_spaces_before_url", "s_req_http_start", "s_req_http_H",
         "s_req_first_http_major", "s_req_http_major", "s_req_first_http_minor",
         "s_req_http_minor", "s_req_line_almost_done"} \cup UrlStart \cup UrlInside

(* What a line makes of the parser besides its state. *)
Like(p, q) ==
    /\ DOMAIN p = DOMAIN q /\ p.http_errno = q.http_errno
    /\ p.nread = q.nread /\ p.content_length \in 0..ULLONG_MAX

LEMMA LikeTurns ==
    ASSUME NEW x, NEW y, Places(x), Fields(x.q), x.q.http_errno = "HPE_OK",
           Places(y), Like(y.q, x.q), Plain(y.q.state)
    PROVE  Turning(y)
BY DEF Turning, Places, Sound, Fields, Ready, Plain, InLength, InChunks, States, Like

LEMMA LinePlain == \A s \in Line : Plain(s)
BY DEF Line, Plain, InChunks, States, UrlStart, UrlInside

LEMMA UrlChars ==
    ASSUME NEW s \in Line, NEW ch
    PROVE  parse_url_char(s, ch) \in Line
BY DEF parse_url_char, Line, UrlStart, UrlInside

LEMMA UrlTurns ==
    ASSUME NEW x, NEW s \in Line, NEW ch, Places(x), Fields(x.q), x.q.http_errno = "HPE_OK"
    PROVE  Turning(UrlChar(x, s, ch))
<1> DEFINE t == parse_url_char(s, ch)
<1>1. Plain(t)
  BY UrlChars, LinePlain
<1> HIDE DEF t
<1>2. Turning(Go(x, t)) /\ Turning(Error(x, "HPE_INVALID_URL"))
  BY <1>1, GoTurns, ErrorTurns
<1> QED BY <1>2 DEF UrlChar, t

LEMMA InUrlTurns ==
    ASSUME NEW x, NEW ch, Inside(x, x.q.state), x.q.state \in UrlStart \cup UrlInside
    PROVE  Turning(InUrl(x, ch))
<1> USE DEF Inside, Ready
<1>1. Turning(Error(x, "HPE_INVALID_URL"))
  BY ErrorTurns
<1>2. Turning(UrlChar(x, x.q.state, ch))
  BY UrlTurns DEF Line
<1>3. Turning(CALLBACK_DATA(Go(x, "s_req_http_start"), "url", x.i - 1))
  BY GoTurns, DataBeside, BesideTurns DEF Plain, InChunks, States, Turning
<1>4. ASSUME NEW s \in {"s_req_line_almost_done", "s_header_field_start"}
      PROVE  Turning(CALLBACK_DATA([x EXCEPT !.q.http_major = 0, !.q.http_minor = 9,
                                      !.q.state = s], "url", x.i - 1))
  <2> DEFINE y == [x EXCEPT !.q.http_major = 0, !.q.http_minor = 9, !.q.state = s]
  <2>1. Places(y) /\ Like(y.q, x.q) /\ Plain(y.q.state)
    BY DEF Places, Fields, Like, Plain, InChunks, States
  <2> HIDE DEF y
  <2>2. Turning(y)
    BY <2>1, LikeTurns
  <2>3. Turning(CALLBACK_DATA(y, "url", x.i - 1))
    BY <2>1, <2>2, DataBeside, BesideTurns
  <2> QED BY <2>3 DEF y
<1> QED BY <1>1, <1>2, <1>3, <1>4 DEF InUrl

LEMMA SpacesTurns ==
    ASSUME NEW x, NEW ch, Inside(x, "s_req_spaces_before_url")
    PROVE  Turning(SpacesBeforeUrl(x, ch))
<1> USE DEF Inside, Ready
<1>1. Turning(x)
  BY DEF Turning, Sound, InChunks, States, InLength
<1> DEFINE y == MARK(x, "url")
           s == IF CONNECT \in x.q.method THEN "s_req_server_start" ELSE x.q.state
<1>2. Places(y) /\ y.q = x.q
  BY MarkBeside DEF Beside
<1>3. s \in Line
  BY DEF Line, UrlStart
<1> HIDE DEF y, s
<1>4. Turning(UrlChar(y, s, ch))
  BY <1>2, <1>3, UrlTurns
<1> QED BY <1>1, <1>4 DEF SpacesBeforeUrl, y, s

(* A message begins: flags and length are reset. *)
LEMMA StartPlaces ==
    ASSUME NEW x, Places(x), Fields(x.q), x.q.http_errno = "HPE_OK"
    PROVE  /\ Places(StartMessage(x)) /\ Fields(StartMessage(x).q)
           /\ Like(StartMessage(x).q, x.q)
           /\ StartMessage(x).q.http_errno = "HPE_OK"
           /\ StartMessage(x).q.state = x.q.state
<1>1. ULLONG_MAX \in 0..ULLONG_MAX
  BY ParserAssumption
<1>2. StartMessage(x).q.content_length = ULLONG_MAX
  BY DEF StartMessage, Places, Fields
<1>3. /\ DOMAIN StartMessage(x).q = DOMAIN x.q /\ StartMessage(x).q.nread = x.q.nread
      /\ StartMessage(x).q.http_errno = x.q.http_errno
      /\ StartMessage(x).q.state = x.q.state
      /\ Places(StartMessage(x))
  BY DEF StartMessage, Places, Fields
<1> QED BY <1>1, <1>2, <1>3 DEF Fields, Like

LEMMA StartReqTurns ==
    ASSUME NEW x, NEW ch, Places(x), Fields(x.q), x.q.http_errno = "HPE_OK",
           x.q.state = "s_start_req"
    PROVE  Turning(StartReq(x, ch))
<1>1. Turning(x)
  BY DEF Turning, Sound, Ready, InChunks, States, InLength
<1> DEFINE z == StartMessage(x)
           y(w) == [z EXCEPT !.q.method = w, !.q.index = 1, !.q.state = "s_req_method"]
<1>2. Places(z) /\ Fields(z.q) /\ z.q.http_errno = "HPE_OK"
  BY StartPlaces
<1> HIDE DEF z
<1>3. Turning(Error(z, "HPE_INVALID_METHOD"))
  BY <1>2, ErrorTurns
<1>4. ASSUME NEW w PROVE Turning(CALLBACK_NOTIFY(y(w), "message_begin"))
  <2>1. Places(y(w)) /\ Like(y(w).q, z.q) /\ Plain(y(w).q.state)
    BY <1>2 DEF Places, Fields, Like, Plain, InChunks, States
  <2> HIDE DEF y
  <2>2. Turning(y(w))
    BY <1>2, <2>1, LikeTurns
  <2> QED BY <2>1, <2>2, NotifyBeside, BesideTurns
<1> QED BY <1>1, <1>3, <1>4 DEF StartReq, z

LEMMA ReqMethodTurns ==
    ASSUME NEW x, NEW ch, Inside(x, "s_req_method")
    PROVE  Turning(ReqMethod(x, ch))
<1> USE DEF Inside, Ready
<1>1. Turning(Error(x, "HPE_INVALID_METHOD"))
  BY ErrorTurns
<1>2. ASSUME NEW w
      PROVE  Turning([x EXCEPT !.q.state = "s_req_spaces_before_url", !.q.method = w])
  <2> DEFINE y == [x EXCEPT !.q.state = "s_req_spaces_before_url", !.q.method = w]
  <2>1. Places(y) /\ Like(y.q, x.q) /\ Plain(y.q.state)
    BY DEF Places, Fields, Like, Plain, InChunks, States
  <2> HIDE DEF y
  <2>2. Turning(y)
    BY <2>1, LikeTurns
  <2> QED BY <2>2 DEF y
<1>3. ASSUME NEW w
      PROVE  Turning([x EXCEPT !.q.method = w, !.q.index = @ + 1])
  <2> DEFINE y == [x EXCEPT !.q.method = w, !.q.index = @ + 1]
  <2>1. Places(y) /\ Like(y.q, x.q) /\ Plain(y.q.state)
    BY DEF Places, Fields, Like, Plain, InChunks, States
  <2> HIDE DEF y
  <2>2. Turning(y)
    BY <2>1, LikeTurns
  <2> QED BY <2>2 DEF y
<1> QED BY <1>1, <1>2, <1>3 DEF ReqMethod

LEMMA StartReqOrResTurns ==
    ASSUME NEW x, NEW ch, Inside(x, "s_start_req_or_res")
    PROVE  Turning(StartReqOrRes(x, ch))
<1> USE DEF Inside, Ready
<1>1. Turning(x)
  BY DEF Turning, Sound, InChunks, States, InLength
<1> DEFINE z == StartMessage(x)
           y == [z EXCEPT !.q.type = "HTTP_REQUEST", !.q.state = "s_start_req"]
<1>2. Places(z) /\ Fields(z.q) /\ z.q.http_errno = "HPE_OK"
  BY StartPlaces
<1> HIDE DEF z
<1>3. Turning(CALLBACK_NOTIFY(Go(z, "s_res_or_resp_H"), "message_begin"))
  BY <1>2, GoTurns, NotifyBeside, BesideTurns DEF Turning, Plain, InChunks, States
<1>4. /\ Places(y) /\ Fields(y.q) /\ y.q.http_errno = "HPE_OK"
      /\ y.q.state = "s_start_req"
  BY <1>2 DEF Places, Fields
<1> HIDE DEF y
<1>5. Turning(StartReq(y, ch))
  BY <1>4, StartReqTurns
<1> QED BY <1>1, <1>3, <1>5 DEF StartReqOrRes, z, y

LEMMA ResOrRespHTurns ==
    ASSUME NEW x, NEW ch, Inside(x, "s_res_or_resp_H")
    PROVE  Turning(ResOrRespH(x, ch))
<1> USE DEF Inside, Ready
<1>1. Turning(Error(x, "HPE_INVALID_CONSTANT"))
  BY ErrorTurns
<1> DEFINE y == [x EXCEPT !.q.type = "HTTP_RESPONSE", !.q.state = "s_res_first_http_major"]
           z == [x EXCEPT !.q.type = "HTTP_REQUEST", !.q.index = 2,
                          !.q.method = {<<"H", "EAD">>}, !.q.state = "s_req_method"]
<1>2. Places(y) /\ Like(y.q, x.q) /\ Plain(y.q.state)
  BY DEF Places, Fields, Like, Plain, InChunks, States
<1>3. Places(z) /\ Like(z.q, x.q) /\ Plain(z.q.state)
  BY DEF Places, Fields, Like, Plain, InChunks, States
<1> HIDE DEF y, z
<1>4. Turning(y) /\ Turning(z)
  BY <1>2, <1>3, LikeTurns
<1> QED BY <1>1, <1>4 DEF ResOrRespH, y, z

LEMMA StartResTurns ==
    ASSUME NEW x, NEW ch, Inside(x, "s_start_res")
    PROVE  Turning(StartRes(x, ch))
<1> USE DEF Inside, Ready
<1> DEFINE z == StartMessage(x)
<1>1. /\ Places(z) /\ Fields(z.q) /\ z.q.http_errno = "HPE_OK"
      /\ z.q.state = "s_start_res"
  BY StartPlaces
<1> HIDE DEF z
<1>2. Turning(z)
  BY <1>1 DEF Turning, Sound, InChunks, States, InLength
<1>3. Turning(CALLBACK_NOTIFY(Go(z, "s_res_H"), "message_begin"))
  BY <1>1, GoTurns, NotifyBeside, BesideTurns DEF Turning, Plain, InChunks, States
<1>4. Turning(CALLBACK_NOTIFY(z, "message_begin"))
  BY <1>1, <1>2, NotifyBeside, BesideTurns
<1>5. Turning(Error(z, "HPE_INVALID_CONSTANT"))
  BY <1>1, ErrorTurns
<1> QED BY <1>3, <1>4, <1>5 DEF StartRes, z

(* A test of the code that is not an assertion. *)
LEMMA CheckTurns ==
    ASSUME NEW x, NEW cond, NEW y, Places(x), Fields(x.q), cond => Turning(y)
    PROVE  Turning(Check(x, cond, y))
BY ErrorTurns DEF Check

Digits == {"http_major", "http_minor", "status_code"}

LEMMA DigitTurns ==
    ASSUME NEW x, NEW ch, NEW f \in Digits, NEW s, NEW e, Plain(s), Plain(x.q.state),
           Places(x), Fields(x.q), x.q.http_errno = "HPE_OK", e \notin {"HPE_OK", "ASSERT"}
    PROVE  Turning(FirstDigit(x, ch, f, s)) /\ Turning(NextDigit(x, ch, f, e))
<1>1. Turning(Error(x, e)) /\ Turning(Error(x, "HPE_INVALID_VERSION"))
  BY ErrorTurns
<1> DEFINE y(n) == [x EXCEPT !.q[f] = n]
           z(n) == [x EXCEPT !.q[f] = n, !.q.state = s]
<1>2. ASSUME NEW n PROVE /\ Places(y(n)) /\ Like(y(n).q, x.q) /\ Plain(y(n).q.state)
                         /\ Fields(y(n).q)
  BY DEF Places, Fields, Like, Digits
<1>3. ASSUME NEW n PROVE Places(z(n)) /\ Like(z(n).q, x.q) /\ Plain(z(n).q.state)
  BY DEF Places, Fields, Like, Digits
<1> HIDE DEF y, z
<1>4. ASSUME NEW n PROVE Turning(y(n)) /\ Turning(Error(y(n), e))
  BY <1>2, LikeTurns, ErrorTurns
<1>5. ASSUME NEW n PROVE Turning(z(n))
  BY <1>3, LikeTurns
<1>6. Turning(FirstDigit(x, ch, f, s))
  BY <1>1, <1>5 DEF FirstDigit, z
<1>7. Turning(NextDigit(x, ch, f, e))
  BY <1>1, <1>4 DEF NextDigit, y
<1> QED BY <1>6, <1>7

(* The states in which a unit leads to another state, and nothing else. *)
LEMMA VersionTurns ==
    ASSUME NEW x, NEW ch, Inside(x, x.q.state), x.q.state \in Line
    PROVE  /\ Turning(ReqHttpStart(x, ch)) /\ Turning(ReqFirstMajor(x, ch))
           /\ Turning(Major(x, ch, "s_res_first_http_minor"))
           /\ Turning(Major(x, ch, "s_req_first_http_minor"))
           /\ Turning(FirstDigit(x, ch, "http_major", "s_res_http_major"))
           /\ Turning(FirstDigit(x, ch, "http_minor", "s_res_http_minor"))
           /\ Turning(FirstDigit(x, ch, "http_minor", "s_req_http_minor"))
           /\ Turning(ReqMinor(x, ch)) /\ Turning(ResMinor(x, ch))
           /\ Turning(StatusCode(x, ch)) /\ Turning(Status(x, ch))
           /\ Turning(FirstStatusCode(x, ch)) /\ Turning(ReqLineAlmostDone(x, ch))
<1> USE DEF Inside, Ready
<1>1. Plain(x.q.state)
  BY LinePlain
<1>2. Turning(x)
  BY <1>1 DEF Turning, Sound, Plain, InChunks, States, InLength
<1>3. ASSUME NEW s \in Line \cup {"s_header_field_start"} PROVE Turning(Go(x, s))
  BY LinePlain, GoTurns DEF Plain, InChunks, States
<1>4. ASSUME NEW e, e \notin {"HPE_OK", "ASSERT"} PROVE Turning(Error(x, e))
  BY <1>4, ErrorTurns
<1>5. ASSUME NEW f \in Digits, NEW s \in Line, NEW e, e \notin {"HPE_OK", "ASSERT"}
      PROVE  Turning(FirstDigit(x, ch, f, s)) /\ Turning(NextDigit(x, ch, f, e))
  BY <1>1, <1>5, LinePlain, DigitTurns
<1>6. Turning(ReqHttpStart(x, ch))
  BY <1>2, <1>3, <1>4 DEF ReqHttpStart, Line
<1>7. Turning(FirstDigit(x, ch, "http_major", "s_req_http_major")) /\ Turning(ReqFirstMajor(x, ch))
  BY <1>4, <1>5 DEF ReqFirstMajor, Line, Digits
<1>8. /\ Turning(Major(x, ch, "s_res_first_http_minor"))
      /\ Turning(Major(x, ch, "s_req_first_http_minor"))
  BY <1>3, <1>5 DEF Major, Line, Digits
<1>9. /\ Turning(FirstDigit(x, ch, "http_major", "s_res_http_major"))
      /\ Turning(FirstDigit(x, ch, "http_minor", "s_res_http_minor"))
      /\ Turning(FirstDigit(x, ch, "http_minor", "s_req_http_minor"))
  BY <1>5 DEF Line, Digits
<1>10. Turning(ReqMinor(x, ch)) /\ Turning(ResMinor(x, ch))
  BY <1>3, <1>5 DEF ReqMinor, ResMinor, Line, Digits
<1>11. Turning(StatusCode(x, ch)) /\ Turning(Status(x, ch))
  BY <1>2, <1>3, <1>5 DEF StatusCode, Status, Line, Digits
<1>12. Turning(FirstStatusCode(x, ch))
  <2> DEFINE y == [x EXCEPT !.q.status_code = Unhex(ch), !.q.state = "s_res_status_code"]
  <2>1. Places(y) /\ Like(y.q, x.q) /\ Plain(y.q.state)
    BY DEF Places, Fields, Like, Plain, InChunks, States
  <2> HIDE DEF y
  <2>2. Turning(y)
    BY <2>1, LikeTurns
  <2> QED BY <1>2, <1>4, <2>2 DEF FirstStatusCode, y
<1>13. Turning(ReqLineAlmostDone(x, ch))
  BY <1>3, <1>4 DEF ReqLineAlmostDone
<1> QED BY <1>6, <1>7, <1>8, <1>9, <1>10, <1>11, <1>12, <1>13

LEMMA StrictTurns ==
    ASSUME NEW x, NEW ch, Inside(x, x.q.state), x.q.state \in Line
    PROVE  /\ Turning(ResLineAlmostDone(x, ch))
           /\ Turning(Check(x, ch = "TTP/", Go(x, "s_res_first_http_major")))
           /\ Turning(Check(x, ch = "TTP/", Go(x, "s_req_first_http_major")))
<1> USE DEF Inside, Ready
<1>1. ASSUME NEW s \in Line \cup {"s_header_field_start"} PROVE Turning(Go(x, s))
  BY LinePlain, GoTurns DEF Plain, InChunks, States
<1>2. Turning(CALLBACK_NOTIFY(Go(x, "s_header_field_start"), "status_complete"))
  BY <1>1, NotifyBeside, BesideTurns DEF Turning
<1>3. Turning(ResLineAlmostDone(x, ch))
  BY <1>2, ErrorTurns DEF ResLineAlmostDone, Check
<1>4. /\ Turning(Go(x, "s_res_first_http_major"))
      /\ Turning(Go(x, "s_req_first_http_major"))
      /\ Turning(Error(x, "HPE_STRICT"))
  BY <1>1, ErrorTurns DEF Line
<1> QED BY <1>3, <1>4 DEF Check

-------------------------------------------------------------------------------
(* Headers *)

LEMMA HexDigit ==
    ASSUME NEW ch, IS_HEX(ch)
    PROVE  Unhex(ch) \in 0..15
BY DEF IS_HEX, Unhex

LEMMA NumIsHex ==
    ASSUME NEW ch, IS_NUM(ch)
    PROVE  IS_HEX(ch)
<1>1. PICK i \in 1..10 : Numerals[i] = ch
  BY DEF IS_NUM
<1>2. HexNumerals[i] = Numerals[i]
  BY DEF Numerals, HexNumerals
<1> QED BY <1>1, <1>2 DEF IS_HEX

(* A value of a field that no assertion is about. *)
LEMMA HeaderFieldTurns ==
    ASSUME NEW x, NEW ch, Inside(x, "s_header_field")
    PROVE  Turning(HeaderField(x, ch))
<1> USE DEF Inside, Ready
<1>1. ASSUME NEW s, Plain(s) PROVE Turning(CALLBACK_DATA(Go(x, s), "header_field", x.i - 1))
  <2>1. Turning(Go(x, s))
    BY <1>1, GoTurns
  <2> QED BY <2>1, DataBeside, BesideTurns DEF Turning
<1>2. ASSUME NEW w, NEW h
      PROVE  Turning([x EXCEPT !.q.header_state = w, !.q.index = @ + 1, !.q.hit = h])
  <2> DEFINE y == [x EXCEPT !.q.header_state = w, !.q.index = @ + 1, !.q.hit = h]
  <2>1. Places(y) /\ Like(y.q, x.q) /\ Plain(y.q.state)
    BY DEF Places, Fields, Like, Plain, InChunks, States
  <2> HIDE DEF y
  <2>2. Turning(y)
    BY <2>1, LikeTurns
  <2> QED BY <2>2 DEF y
<1>3. Turning(Error(x, "HPE_INVALID_HEADER_TOKEN"))
  BY ErrorTurns
<1>4. Plain("s_header_value_start") /\ Plain("s_header_almost_done") /\ Plain("s_header_field_start")
  BY DEF Plain, InChunks, States
<1> QED BY <1>1, <1>2, <1>3, <1>4 DEF HeaderField

LEMMA HeaderDoneTurns ==
    ASSUME NEW x, NEW ch, Places(x), Fields(x.q), x.q.http_errno = "HPE_OK"
    PROVE  Turning(HeaderAlmostDone(x, ch))
<1> DEFINE y(flag) == [x EXCEPT !.q.state = "s_header_value_lws", !.q.flags = @ \cup flag]
<1>1. ASSUME NEW flag PROVE Turning(y(flag))
  <2>1. Places(y(flag)) /\ Like(y(flag).q, x.q) /\ Plain(y(flag).q.state)
    BY DEF Places, Fields, Like, Plain, InChunks, States
  <2> HIDE DEF y
  <2> QED BY <2>1, LikeTurns
<1>2. Turning(Error(x, "HPE_STRICT"))
  BY ErrorTurns
<1> QED BY <1>1, <1>2 DEF HeaderAlmostDone, Check

LEMMA HeaderStartTurns ==
    ASSUME NEW x, NEW ch, Inside(x, "s_header_value_start")
    PROVE  Turning(HeaderValueStart(x, ch))
<1> USE DEF Inside, Ready
<1> DEFINE m == MARK(x, "header_value")
           y == [m EXCEPT !.q.state = "s_header_value", !.q.index = 1]
           g == [y EXCEPT !.q.header_state = {}, !.q.hit = <<>>]
<1>1. Turning(x)
  BY DEF Turning, Sound, InChunks, States, InLength
<1>2. Places(m) /\ m.q = x.q
  BY MarkBeside DEF Beside
<1> HIDE DEF m
<1>3. Places(y) /\ Fields(y.q) /\ y.q.http_errno = "HPE_OK" /\ y.q.state = "s_header_value"
  BY <1>2 DEF Places, Fields
<1> HIDE DEF y
<1>4. Places(g) /\ Fields(g.q) /\ g.q.http_errno = "HPE_OK" /\ g.q.state = "s_header_value"
  BY <1>3 DEF Places, Fields
<1> HIDE DEF g
<1>5. ASSUME NEW z, z = y \/ z = g, NEW s, Plain(s)
      PROVE  Turning(CALLBACK_DATA(Go(z, s), "header_value", x.i - 1))
  <2>1. Turning(Go(z, s))
    BY <1>3, <1>4, <1>5, GoTurns
  <2> QED BY <2>1, DataBeside, BesideTurns DEF Turning
<1>6. ASSUME NEW w PROVE Turning([g EXCEPT !.q.flags = w])
  <2> DEFINE z == [g EXCEPT !.q.flags = w]
  <2>1. Places(z) /\ Like(z.q, g.q) /\ Plain(z.q.state)
    BY <1>4 DEF Places, Fields, Like, Plain, InChunks, States
  <2> HIDE DEF z
  <2>2. Turning(z)
    BY <1>4, <2>1, LikeTurns
  <2> QED BY <2>2 DEF z
<1>7. ASSUME NEW w PROVE Turning([g EXCEPT !.q.header_state = w])
  <2> DEFINE z == [g EXCEPT !.q.header_state = w]
  <2>1. Places(z) /\ Like(z.q, g.q) /\ Plain(z.q.state)
    BY <1>4 DEF Places, Fields, Like, Plain, InChunks, States
  <2> HIDE DEF z
  <2>2. Turning(z)
    BY <1>4, <2>1, LikeTurns
  <2> QED BY <2>2 DEF z
<1>8. ASSUME NEW n \in 0..ULLONG_MAX PROVE Turning([y EXCEPT !.q.content_length = n])
  <2> DEFINE z == [y EXCEPT !.q.content_length = n]
  <2>1. Places(z) /\ Like(z.q, y.q) /\ Plain(z.q.state)
    BY <1>3 DEF Places, Fields, Like, Plain, InChunks, States
  <2> HIDE DEF z
  <2>2. Turning(z)
    BY <1>3, <2>1, LikeTurns
  <2> QED BY <2>2 DEF z
<1>9. Turning(Error(y, "HPE_INVALID_CONTENT_LENGTH"))
  BY <1>3, ErrorTurns
<1>10. IS_NUM(ch) => Unhex(ch) \in 0..ULLONG_MAX
  BY NumIsHex, HexDigit, ParserAssumption
<1>11. Plain("s_header_almost_done") /\ Plain("s_header_field_start")
  BY DEF Plain, InChunks, States
<1> QED BY <1>1, <1>5, <1>6, <1>7, <1>8, <1>9, <1>10, <1>11 DEF HeaderValueStart, m, y, g

(* The lengths that a message can have. *)
Known == 0..ULLONG_MAX \ {ULLONG_MAX}

LEMMA DigitLength ==
    ASSUME NEW x, NEW base \in Nat, NEW d \in Nat, Places(x), Fields(x.q),
           x.q.http_errno = "HPE_OK"
    PROVE  \/ AppendDigit(x, base, d) = Error(x, "HPE_INVALID_CONTENT_LENGTH")
           \/ \E t \in Known :
                 AppendDigit(x, base, d) = [x EXCEPT !.q.content_length = t]
<1> DEFINE n == x.q.content_length * base + d
           t == n % (ULLONG_MAX + 1)
<1>1. n \in Nat /\ ULLONG_MAX + 1 \in Nat \ {0}
  BY ParserAssumption DEF Fields
<1> HIDE DEF n
<1>2. t \in 0..ULLONG_MAX
  <2> DEFINE b == ULLONG_MAX + 1
  <2>1. b \in Nat /\ b > 0 /\ b - 1 = ULLONG_MAX
    BY <1>1, ParserAssumption
  <2> HIDE DEF b
  <2>2. n % b \in 0..(b - 1)
    BY <1>1, <2>1
  <2> QED BY <2>1, <2>2 DEF b
<1> HIDE DEF t
<1> QED BY <1>2 DEF AppendDigit, Known, n, t

LEMMA HeaderValueTurns ==
    ASSUME NEW x, NEW ch, Inside(x, "s_header_value")
    PROVE  Turning(HeaderValue(x, ch))
<1> USE DEF Inside, Ready
<1> DEFINE end == CALLBACK_DATA(Go(x, "s_header_almost_done"), "header_value", x.i - 1)
<1>1. Turning(x)
  BY DEF Turning, Sound, InChunks, States, InLength
<1>2. Turning(end) /\ end.q.http_errno = "HPE_OK"
  <2>1. /\ Turning(Go(x, "s_header_almost_done"))
        /\ Go(x, "s_header_almost_done").q.http_errno = "HPE_OK"
    BY GoTurns DEF Plain, InChunks, States
  <2>2. Beside(Go(x, "s_header_almost_done"), end)
    BY <2>1, DataBeside DEF Turning
  <2> QED BY <2>1, <2>2, BesideTurns DEF Beside
<1>3. Turning(HeaderAlmostDone(end, ch))
  BY <1>2, HeaderDoneTurns DEF Turning, Sound
<1>4. ASSUME NEW n \in 0..ULLONG_MAX PROVE Turning([x EXCEPT !.q.content_length = n])
  <2> DEFINE y == [x EXCEPT !.q.content_length = n]
  <2>1. Places(y) /\ Like(y.q, x.q) /\ Plain(y.q.state)
    BY DEF Places, Fields, Like, Plain, InChunks, States
  <2> HIDE DEF y
  <2>2. Turning(y)
    BY <2>1, LikeTurns
  <2> QED BY <2>2 DEF y
<1>5. Turning(Error(x, "HPE_INVALID_CONTENT_LENGTH"))
  BY ErrorTurns
<1>6. IS_NUM(ch) => Turning(AppendDigit(x, 10, Unhex(ch)))
  <2> SUFFICES ASSUME IS_NUM(ch) PROVE Turning(AppendDigit(x, 10, Unhex(ch)))
    OBVIOUS
  <2> DEFINE d == Unhex(ch)
  <2>1. d \in Nat /\ 10 \in Nat
    BY NumIsHex, HexDigit
  <2> HIDE DEF d
  <2>2. \/ AppendDigit(x, 10, d) = Error(x, "HPE_INVALID_CONTENT_LENGTH")
        \/ \E t \in Known :
              AppendDigit(x, 10, d) = [x EXCEPT !.q.content_length = t]
    <3>1. Places(x) /\ Fields(x.q) /\ x.q.http_errno = "HPE_OK"
      OBVIOUS
    <3> HIDE DEF Inside, Ready
    <3> QED BY <2>1, <3>1, DigitLength
  <2>3. Turning(AppendDigit(x, 10, d))
    BY <1>4, <1>5, <2>2 DEF Known
  <2> QED BY <2>3 DEF d
<1>7. ASSUME NEW w, NEW h
      PROVE  Turning([x EXCEPT !.q.header_state = w, !.q.index = @ + 1, !.q.hit = h])
  <2> DEFINE y == [x EXCEPT !.q.header_state = w, !.q.index = @ + 1, !.q.hit = h]
  <2>1. Places(y) /\ Like(y.q, x.q) /\ Plain(y.q.state)
    BY DEF Places, Fields, Like, Plain, InChunks, States
  <2> HIDE DEF y
  <2>2. Turning(y)
    BY <2>1, LikeTurns
  <2> QED BY <2>2 DEF y
<1> HIDE DEF end
<1> QED BY <1>1, <1>2, <1>3, <1>5, <1>6, <1>7 DEF HeaderValue, end

-------------------------------------------------------------------------------
(* The end of the headers, and bodies *)

LEMMA BodyBeginsTurns ==
    ASSUME NEW x, Places(x), Fields(x.q), x.q.http_errno = "HPE_OK", x.q.nread = 0,
           x.q.upgrade \in BOOLEAN
    PROVE  Turning(BodyBegins(x))
<1>1. Turning(MessageComplete(x)) /\ MessageComplete(x).q.http_errno = "HPE_OK"
  BY MessageDone
<1>2. Turning([MessageComplete(x) EXCEPT !.run = FALSE, !.i = @ + 1])
  <2> DEFINE y == MessageComplete(x)
  <2> HIDE DEF y
  <2>1. Turning(y) => Turning([y EXCEPT !.run = FALSE, !.i = @ + 1])
    BY DEF Turning, Places
  <2> QED BY <1>1, <2>1 DEF y
<1>3. "F_CHUNKED" \in x.q.flags => Turning(Go(x, "s_chunk_size_start"))
  BY DEF Go, Turning, Places, Sound, Fields, Ready, InChunks, States, InLength
<1>4. x.q.content_length \notin {0, ULLONG_MAX} => Turning(Go(x, "s_body_identity"))
  BY DEF Go, Turning, Places, Sound, Fields, Ready, InChunks, States, InLength
<1>5. Turning(Go(x, "s_body_identity_eof"))
  BY GoTurns DEF Plain, InChunks, States
<1> QED BY <1>1, <1>2, <1>3, <1>4, <1>5 DEF BodyBegins

LEMMA HeadersTurns ==
    ASSUME NEW x, NEW ch, Places(x), Fields(x.q), x.q.http_errno = "HPE_OK"
    PROVE  Turning(HeadersAlmostDone(x, ch))
<1> DEFINE up == "F_UPGRADE" \in x.q.flags \/ x.q.method = {CONNECT}
           y == [x EXCEPT !.q.state = "s_headers_done", !.q.upgrade = up]
           z == CALLBACK_NOTIFY(y, "headers_complete")
           w == [z EXCEPT !.q.nread = 0]
<1>1. up \in BOOLEAN
  OBVIOUS
<1> HIDE DEF up
<1>2. Places(y) /\ Fields(y.q) /\ y.q.http_errno = "HPE_OK" /\ y.q.upgrade \in BOOLEAN
  BY <1>1 DEF Places, Fields
<1> HIDE DEF y
<1>3. Places(z) /\ z.q = y.q
  BY <1>2, NotifyBeside DEF Beside
<1> HIDE DEF z
<1>4. /\ Places(w) /\ Fields(w.q) /\ w.q.http_errno = "HPE_OK"
      /\ w.q.nread = 0 /\ w.q.upgrade \in BOOLEAN
  BY <1>2, <1>3 DEF Places, Fields
<1> HIDE DEF w
<1>5. Turning(BodyBegins(w))
  BY <1>4, BodyBeginsTurns
<1>6. Turning(MessageComplete(x)) /\ Turning(Error(x, "HPE_STRICT"))
  BY MessageDone, ErrorTurns
<1> QED BY <1>5, <1>6 DEF HeadersAlmostDone, HeadersDone, Check, w, z, y, up

LEMMA FieldStartTurns ==
    ASSUME NEW x, NEW ch, Places(x), Fields(x.q), x.q.http_errno = "HPE_OK"
    PROVE  Turning(HeaderFieldStart(x, ch))
<1> DEFINE g == Go(x, "s_headers_almost_done")
           m == MARK(x, "header_field")
<1>1. Turning(g) /\ g.q.http_errno = "HPE_OK"
  BY GoTurns DEF Plain, InChunks, States
<1>2. Turning(HeadersAlmostDone(g, ch))
  BY <1>1, HeadersTurns DEF Turning, Sound
<1>3. Places(m) /\ m.q = x.q
  BY MarkBeside DEF Beside
<1> HIDE DEF m
<1>4. ASSUME NEW w
      PROVE  Turning([m EXCEPT !.q.state = "s_header_field", !.q.index = 1,
                               !.q.hit = <<>>, !.q.header_state = w])
  <2> DEFINE y == [m EXCEPT !.q.state = "s_header_field", !.q.index = 1,
                            !.q.hit = <<>>, !.q.header_state = w]
  <2>1. Places(y) /\ Like(y.q, m.q) /\ Plain(y.q.state)
    BY <1>3 DEF Places, Fields, Like, Plain, InChunks, States
  <2> HIDE DEF y
  <2>2. Turning(y)
    BY <1>3, <2>1, LikeTurns
  <2> QED BY <2>2 DEF y
<1>5. Turning(Error(x, "HPE_INVALID_HEADER_TOKEN"))
  BY ErrorTurns
<1> QED BY <1>1, <1>2, <1>4, <1>5 DEF HeaderFieldStart, m

LEMMA LwsTurns ==
    ASSUME NEW x, NEW ch, Inside(x, "s_header_value_lws")
    PROVE  Turning(HeaderValueLws(x, ch))
<1> USE DEF Inside, Ready
<1> DEFINE g == Go(x, "s_header_field_start")
<1>1. Turning(g) /\ g.q.http_errno = "HPE_OK" /\ Turning(Go(x, "s_header_value_start"))
  BY GoTurns DEF Plain, InChunks, States
<1>2. Turning(HeaderFieldStart(g, ch))
  BY <1>1, FieldStartTurns DEF Turning, Sound
<1> QED BY <1>1, <1>2 DEF HeaderValueLws

(* As much of a body as there is: less is left, or nothing. *)
Taken(x) ==
    LET left == Len(x.data) - x.i + 1
        to_read == IF x.q.content_length < left THEN x.q.content_length ELSE left
    IN  [MARK(x, "body") EXCEPT !.q.content_length = @ - to_read, !.i = @ + to_read - 1]

LEMMA BodyTaken ==
    ASSUME NEW x, Inside(x, x.q.state), x.q.state \in {"s_body_identity", "s_chunk_data"}
    PROVE  /\ Places(Taken(x)) /\ Fields(Taken(x).q) /\ Taken(x).q.http_errno = "HPE_OK"
           /\ Taken(x).q.flags = x.q.flags
           /\ Taken(x).q.content_length # 0 => Turning(Taken(x))
           /\ x.q.content_length \notin {0, ULLONG_MAX}
<1> DEFINE left == Len(x.data) - x.i + 1
           to_read == IF x.q.content_length < left THEN x.q.content_length ELSE left
           m == MARK(x, "body")
           y == [m EXCEPT !.q.content_length = @ - to_read, !.i = @ + to_read - 1]
<1>1. /\ x.q.content_length \in 0..ULLONG_MAX
      /\ x.q.content_length \notin {0, ULLONG_MAX}
      /\ left \in Nat /\ left > 0
  BY DEF Inside, Ready, Places, Fields
<1>2. to_read \in Nat /\ to_read > 0 /\ to_read <= x.q.content_length
  BY <1>1
<1>3. Places(m) /\ m.q = x.q /\ m.i = x.i /\ m.data = x.data
  BY MarkBeside DEF Beside, Inside
<1>4. Taken(x) = y
  BY DEF Taken
<1> HIDE DEF m, to_read, left
<1>5. /\ Places(y) /\ DOMAIN y.q = DOMAIN x.q
      /\ y.q.state = x.q.state /\ y.q.flags = x.q.flags
      /\ y.q.http_errno = x.q.http_errno /\ y.q.nread = x.q.nread
      /\ y.q.content_length = x.q.content_length - to_read
  BY <1>1, <1>2, <1>3 DEF Places, Fields, Inside
<1>6. y.q.content_length \in 0..ULLONG_MAX /\ y.q.content_length # ULLONG_MAX
  BY <1>1, <1>2, <1>5, ParserAssumption
<1> HIDE DEF y
<1>7. Fields(y.q)
  BY <1>5, <1>6 DEF Fields, Inside
<1>8. y.q.content_length # 0 => Turning(y)
  BY <1>5, <1>6, <1>7 DEF Turning, Sound, Ready, Inside, InChunks, States, InLength
<1> QED BY <1>1, <1>4, <1>5, <1>7, <1>8 DEF Inside, Ready

LEMMA IdentityTurns ==
    ASSUME NEW x, Inside(x, "s_body_identity")
    PROVE  Turning(BodyIdentity(x))
<1> DEFINE y == Taken(x)
           g == Go(y, "s_message_done")
           d == CALLBACK_DATA(g, "body", y.i)
<1>1. /\ Places(y) /\ Fields(y.q) /\ y.q.http_errno = "HPE_OK"
      /\ y.q.content_length # 0 => Turning(y)
      /\ x.q.content_length \notin {0, ULLONG_MAX}
  BY BodyTaken DEF Inside
<1> HIDE DEF y
<1>2. Places(g) /\ Fields(g.q) /\ g.q.http_errno = "HPE_OK"
  BY <1>1 DEF Go, Places, Fields
<1> HIDE DEF g
<1>3. Places(d) /\ d.q = g.q
  BY <1>2, DataBeside DEF Beside
<1> HIDE DEF d
<1>4. Turning(MessageComplete(d))
  BY <1>2, <1>3, MessageDone
<1> QED BY <1>1, <1>4 DEF BodyIdentity, TakeBody, Asserted, Taken, d, g, y

LEMMA ChunkDataTurns ==
    ASSUME NEW x, Inside(x, "s_chunk_data")
    PROVE  Turning(ChunkData(x))
<1> DEFINE y == Taken(x)
           g == Go(y, "s_chunk_data_almost_done")
<1>1. /\ Places(y) /\ Fields(y.q) /\ y.q.http_errno = "HPE_OK" /\ y.q.flags = x.q.flags
      /\ y.q.content_length # 0 => Turning(y)
      /\ x.q.content_length \notin {0, ULLONG_MAX}
  BY BodyTaken DEF Inside
<1> HIDE DEF y
<1>2. "F_CHUNKED" \in x.q.flags
  BY DEF Inside, Ready, InChunks, States
<1>3. y.q.content_length = 0 => Turning(g)
  BY <1>1, <1>2 DEF Go, Turning, Places, Sound, Fields, Ready, InChunks, States, InLength
<1> HIDE DEF g
<1> QED BY <1>1, <1>3 DEF ChunkData, TakeBody, Asserted, Taken, g, y

LEMMA EofTurns ==
    ASSUME NEW x, Inside(x, "s_body_identity_eof")
    PROVE  Turning(BodyIdentityEof(x))
<1>1. Places(MARK(x, "body")) /\ MARK(x, "body").q = x.q
  BY MarkBeside DEF Beside, Inside
<1>2. x.q.http_errno = "HPE_OK" /\ Sound(x.q) /\ Len(x.data) \in Nat
  BY DEF Inside, Ready, Sound, InChunks, States, InLength, Places
<1> QED BY <1>1, <1>2 DEF BodyIdentityEof, Turning, Places

LEMMA SizeStartTurns ==
    ASSUME NEW x, NEW ch, Inside(x, "s_chunk_size_start")
    PROVE  Turning(ChunkSizeStart(x, ch))
<1>1. x.q.nread = 1 /\ "F_CHUNKED" \in x.q.flags
  BY DEF Inside, Ready, InChunks, States
<1>2. Turning(Error(x, "HPE_INVALID_CHUNK_SIZE"))
  BY ErrorTurns DEF Inside
<1>3. ASSUME NEW d \in 0..15
      PROVE  Turning([x EXCEPT !.q.content_length = d, !.q.state = "s_chunk_size"])
  <2> DEFINE y == [x EXCEPT !.q.content_length = d, !.q.state = "s_chunk_size"]
  <2>1. d \in 0..ULLONG_MAX /\ d # ULLONG_MAX
    BY ParserAssumption
  <2>2. /\ Places(y) /\ DOMAIN y.q = DOMAIN x.q /\ y.q.state = "s_chunk_size"
        /\ y.q.flags = x.q.flags /\ y.q.http_errno = x.q.http_errno
        /\ y.q.nread = x.q.nread /\ y.q.content_length = d
    BY DEF Inside, Places, Fields
  <2> HIDE DEF y
  <2>3. Turning(y)
    BY <1>1, <2>1, <2>2 DEF Turning, Sound, Fields, Ready, Inside, InLength, States
  <2> QED BY <2>3 DEF y
<1>4. IS_HEX(ch) => Unhex(ch) \in 0..15
  BY HexDigit
<1> QED BY <1>1, <1>2, <1>3, <1>4 DEF ChunkSizeStart, Asserted

LEMMA SizeTurns ==
    ASSUME NEW x, NEW ch, Inside(x, "s_chunk_size")
    PROVE  Turning(ChunkSize(x, ch))
<1>1. /\ Places(x) /\ Fields(x.q) /\ x.q.http_errno = "HPE_OK"
      /\ x.q.state = "s_chunk_size"
      /\ "F_CHUNKED" \in x.q.flags /\ x.q.content_length # ULLONG_MAX
  BY DEF Inside, Ready, InChunks, States, InLength
<1>2. Turning(Go(x, "s_chunk_size_almost_done")) /\ Turning(Go(x, "s_chunk_parameters"))
  BY <1>1 DEF Go, Turning, Places, Sound, Fields, Ready, States
<1>3. Turning(Error(x, "HPE_INVALID_CHUNK_SIZE")) /\ Turning(Error(x, "HPE_INVALID_CONTENT_LENGTH"))
  BY <1>1, ErrorTurns
<1>4. ASSUME NEW t \in Known PROVE Turning([x EXCEPT !.q.content_length = t])
  <2> DEFINE y == [x EXCEPT !.q.content_length = t]
  <2>1. /\ Places(y) /\ DOMAIN y.q = DOMAIN x.q /\ y.q.state = "s_chunk_size"
        /\ y.q.flags = x.q.flags /\ y.q.http_errno = x.q.http_errno
        /\ y.q.nread = x.q.nread /\ y.q.content_length = t
    BY <1>1 DEF Places, Fields
  <2>2. t \in 0..ULLONG_MAX /\ t # ULLONG_MAX
    BY DEF Known
  <2> HIDE DEF y
  <2>3. Turning(y)
    BY <1>1, <2>1, <2>2 DEF Turning, Sound, Fields, Ready, States, InLength
  <2> QED BY <2>3 DEF y
<1>5. IS_HEX(ch) => Turning(AppendDigit(x, 16, Unhex(ch)))
  <2> SUFFICES ASSUME IS_HEX(ch) PROVE Turning(AppendDigit(x, 16, Unhex(ch)))
    OBVIOUS
  <2> DEFINE d == Unhex(ch)
  <2>1. d \in Nat /\ 16 \in Nat
    BY HexDigit
  <2> HIDE DEF d
  <2>2. \/ AppendDigit(x, 16, d) = Error(x, "HPE_INVALID_CONTENT_LENGTH")
        \/ \E t \in Known : AppendDigit(x, 16, d) = [x EXCEPT !.q.content_length = t]
    BY <1>1, <2>1, DigitLength
  <2>3. Turning(AppendDigit(x, 16, d))
    BY <1>3, <1>4, <2>2
  <2> QED BY <2>3 DEF d
<1> QED BY <1>2, <1>3, <1>5 DEF ChunkSize

LEMMA ParametersTurns ==
    ASSUME NEW x, NEW ch, Inside(x, "s_chunk_parameters")
    PROVE  Turning(ChunkParameters(x, ch))
<1>1. /\ Places(x) /\ Fields(x.q) /\ x.q.http_errno = "HPE_OK"
      /\ x.q.state = "s_chunk_parameters"
      /\ "F_CHUNKED" \in x.q.flags /\ x.q.content_length # ULLONG_MAX
  BY DEF Inside, Ready, InChunks, States, InLength
<1>2. Turning(Go(x, "s_chunk_size_almost_done"))
  BY <1>1 DEF Go, Turning, Places, Sound, Fields, Ready, States
<1>3. Turning(x)
  BY <1>1 DEF Turning, Sound, Ready, States
<1> QED BY <1>2, <1>3 DEF ChunkParameters

LEMMA SizeDoneTurns ==
    ASSUME NEW x, NEW ch, Inside(x, "s_chunk_size_almost_done")
    PROVE  Turning(ChunkSizeAlmostDone(x, ch))
<1> DEFINE y == [x EXCEPT !.q.nread = 0]
           z == [y EXCEPT !.q.flags = @ \cup {"F_TRAILING"},
                          !.q.state = "s_header_field_start"]
<1>1. /\ Places(x) /\ Fields(x.q) /\ x.q.http_errno = "HPE_OK"
      /\ "F_CHUNKED" \in x.q.flags /\ x.q.content_length # ULLONG_MAX
  BY DEF Inside, Ready, InChunks, States, InLength
<1>2. /\ Places(y) /\ Fields(y.q) /\ y.q.http_errno = "HPE_OK"
      /\ "F_CHUNKED" \in y.q.flags /\ y.q.content_length = x.q.content_length
  BY <1>1 DEF Places, Fields
<1> HIDE DEF y
<1>3. Places(z) /\ Like(z.q, y.q) /\ Plain(z.q.state)
  BY <1>2 DEF Places, Fields, Like, Plain, InChunks, States
<1> HIDE DEF z
<1>4. Turning(z)
  BY <1>2, <1>3, LikeTurns
<1>5. x.q.content_length # 0 => Turning(Go(y, "s_chunk_data"))
  BY <1>1, <1>2 DEF Go, Turning, Places, Sound, Fields, Ready, States, InLength
<1>6. Turning(Error(x, "HPE_STRICT"))
  BY <1>1, ErrorTurns
<1> QED BY <1>4, <1>5, <1>6 DEF ChunkSizeAlmostDone, Check, y, z

LEMMA DataDoneTurns ==
    ASSUME NEW x, NEW ch
    PROVE  /\ Inside(x, "s_chunk_data_almost_done") => Turning(ChunkDataAlmostDone(x, ch))
           /\ Inside(x, "s_chunk_data_done") => Turning(ChunkDataDone(x, ch))
<1>1. ASSUME Inside(x, "s_chunk_data_almost_done") PROVE Turning(ChunkDataAlmostDone(x, ch))
  <2>1. /\ Places(x) /\ Fields(x.q) /\ x.q.http_errno = "HPE_OK"
        /\ "F_CHUNKED" \in x.q.flags /\ x.q.content_length = 0
    BY <1>1 DEF Inside, Ready, InChunks, States
  <2>2. Turning(Go(x, "s_chunk_data_done"))
    BY <2>1 DEF Go, Turning, Places, Sound, Fields, Ready, States, InLength
  <2>3. Turning(CALLBACK_DATA(Go(x, "s_chunk_data_done"), "body", x.i - 1))
    BY <2>2, DataBeside, BesideTurns DEF Turning
  <2>4. Turning(Error(x, "HPE_STRICT"))
    BY <2>1, ErrorTurns
  <2> QED BY <2>1, <2>3, <2>4 DEF ChunkDataAlmostDone, Asserted, Check
<1>2. ASSUME Inside(x, "s_chunk_data_done") PROVE Turning(ChunkDataDone(x, ch))
  <2> DEFINE y == [x EXCEPT !.q.nread = 0, !.q.state = "s_chunk_size_start"]
  <2>1. /\ Places(x) /\ Fields(x.q) /\ x.q.http_errno = "HPE_OK"
        /\ "F_CHUNKED" \in x.q.flags
    BY <1>2 DEF Inside, Ready, InChunks, States
  <2>2. /\ Places(y) /\ Fields(y.q) /\ y.q.http_errno = "HPE_OK"
        /\ "F_CHUNKED" \in y.q.flags /\ y.q.nread = 0
        /\ y.q.state = "s_chunk_size_start"
    BY <2>1 DEF Places, Fields
  <2> HIDE DEF y
  <2>3. Turning(y)
    BY <2>2 DEF Turning, Sound, Ready, States, InLength
  <2>4. Turning(Error(x, "HPE_STRICT"))
    BY <2>1, ErrorTurns
  <2> QED BY <2>3, <2>4 DEF ChunkDataDone, Check, y
<1> QED BY <1>1, <1>2

(* A turn, whatever the state: one case of the switch after the other *)
LEMMA DispatchTurns ==
    ASSUME NEW x, Inside(x, x.q.state)
    PROVE  Turning(Dispatch(x))
<1> DEFINE s  == x.q.state
           ch == x.data[x.i]
<1>1. Places(x) /\ Fields(x.q) /\ x.q.http_errno = "HPE_OK" /\ Inside(x, s) /\ s \in States
  BY DEF Inside, Ready
<1>2. CASE s = "s_dead"
  <2>1. Turning(Error(x, "HPE_CLOSED_CONNECTION"))
    BY <1>1, ErrorTurns
  <2>2. Turning(x)
    BY <1>1, <1>2 DEF Turning, Sound, Ready, InChunks, InLength
  <2>3. Dispatch(x) = x \/ Dispatch(x) = Error(x, "HPE_CLOSED_CONNECTION")
    BY <1>2 DEF Dispatch, UrlStart, UrlInside
  <2> QED BY <2>1, <2>2, <2>3
<1>3. CASE s = "s_start_req_or_res"
  <2>1. Dispatch(x) = StartReqOrRes(x, ch)
    BY <1>3 DEF Dispatch, UrlStart, UrlInside
  <2> QED BY <1>1, <1>3, <2>1, StartReqOrResTurns
<1>4. CASE s = "s_res_or_resp_H"
  <2>1. Dispatch(x) = ResOrRespH(x, ch)
    BY <1>4 DEF Dispatch, UrlStart, UrlInside
  <2> QED BY <1>1, <1>4, <2>1, ResOrRespHTurns
<1>5. CASE s = "s_start_res"
  <2>1. Dispatch(x) = StartRes(x, ch)
    BY <1>5 DEF Dispatch, UrlStart, UrlInside
  <2> QED BY <1>1, <1>5, <2>1, StartResTurns
<1>6. CASE s = "s_start_req"
  <2>1. Dispatch(x) = StartReq(x, ch)
    BY <1>6 DEF Dispatch, UrlStart, UrlInside
  <2> QED BY <1>1, <1>6, <2>1, StartReqTurns DEF Inside, Ready
<1>7. CASE s = "s_req_method"
  <2>1. Dispatch(x) = ReqMethod(x, ch)
    BY <1>7 DEF Dispatch, UrlStart, UrlInside
  <2> QED BY <1>1, <1>7, <2>1, ReqMethodTurns
<1>8. CASE s = "s_req_spaces_before_url"
  <2>1. Dispatch(x) = SpacesBeforeUrl(x, ch)
    BY <1>8 DEF Dispatch, UrlStart, UrlInside
  <2> QED BY <1>1, <1>8, <2>1, SpacesTurns
<1>9. CASE s \in UrlStart \cup UrlInside
  <2>1. Dispatch(x) = InUrl(x, ch)
    BY <1>9 DEF Dispatch, UrlStart, UrlInside
  <2> QED BY <1>1, <1>9, <2>1, InUrlTurns
<1>10. CASE s \in {"s_res_first_http_major", "s_res_http_major",
                "s_res_first_http_minor", "s_res_http_minor",
                "s_res_first_status_code", "s_res_status_code", "s_res_status",
                "s_req_http_start", "s_req_first_http_major", "s_req_http_major",
                "s_req_first_http_minor", "s_req_http_minor", "s_req_line_almost_done"}
  <2>1. s \in Line
    BY <1>10 DEF Line
  <2>2. s = "s_res_first_http_major" =>
           Dispatch(x) = FirstDigit(x, ch, "http_major", "s_res_http_major")
    BY DEF Dispatch, UrlStart, UrlInside
  <2>3. s = "s_res_http_major" =>
           Dispatch(x) = Major(x, ch, "s_res_first_http_minor")
    BY DEF Dispatch, UrlStart, UrlInside
  <2>4. s = "s_res_first_http_minor" =>
           Dispatch(x) = FirstDigit(x, ch, "http_minor", "s_res_http_minor")
    BY DEF Dispatch, UrlStart, UrlInside
  <2>5. s = "s_res_http_minor" =>
           Dispatch(x) = ResMinor(x, ch)
    BY DEF Dispatch, UrlStart, UrlInside
  <2>6. s = "s_res_first_status_code" =>
           Dispatch(x) = FirstStatusCode(x, ch)
    BY DEF Dispatch, UrlStart, UrlInside
  <2>7. s = "s_res_status_code" =>
           Dispatch(x) = StatusCode(x, ch)
    BY DEF Dispatch, UrlStart, UrlInside
  <2>8. s = "s_res_status" =>
           Dispatch(x) = Status(x, ch)
    BY DEF Dispatch, UrlStart, UrlInside
  <2>9. s = "s_req_http_start" =>
           Dispatch(x) = ReqHttpStart(x, ch)
    BY DEF Dispatch, UrlStart, UrlInside
  <2>10. s = "s_req_first_http_major" =>
           Dispatch(x) = ReqFirstMajor(x, ch)
    BY DEF Dispatch, UrlStart, UrlInside
  <2>11. s = "s_req_http_major" =>
           Dispatch(x) = Major(x, ch, "s_req_first_http_minor")
    BY DEF Dispatch, UrlStart, UrlInside
  <2>12. s = "s_req_first_http_minor" =>
           Dispatch(x) = FirstDigit(x, ch, "http_minor", "s_req_http_minor")
    BY DEF Dispatch, UrlStart, UrlInside
  <2>13. s = "s_req_http_minor" =>
           Dispatch(x) = ReqMinor(x, ch)
    BY DEF Dispatch, UrlStart, UrlInside
  <2>14. s = "s_req_line_almost_done" =>
           Dispatch(x) = ReqLineAlmostDone(x, ch)
    BY DEF Dispatch, UrlStart, UrlInside
  <2> HIDE DEF s, ch
  <2> QED BY <1>1, <1>10, <2>1, <2>2, <2>3, <2>4, <2>5, <2>6, <2>7, <2>8, <2>9, <2>10, <2>11, <2>12, <2>13, <2>14, VersionTurns DEF s
<1>11. CASE s \in {"s_res_line_almost_done", "s_res_H", "s_req_http_H"}
  <2>1. s \in Line
    BY <1>11 DEF Line
  <2>2. s = "s_res_line_almost_done" =>
           Dispatch(x) = ResLineAlmostDone(x, ch)
    BY DEF Dispatch, UrlStart, UrlInside
  <2>3. s = "s_res_H" =>
           Dispatch(x) = Check(x, ch = "TTP/", Go(x, "s_res_first_http_major"))
    BY DEF Dispatch, UrlStart, UrlInside
  <2>4. s = "s_req_http_H" =>
           Dispatch(x) = Check(x, ch = "TTP/", Go(x, "s_req_first_http_major"))
    BY DEF Dispatch, UrlStart, UrlInside
  <2> HIDE DEF s, ch
  <2> QED BY <1>1, <1>11, <2>1, <2>2, <2>3, <2>4, StrictTurns DEF s
<1>12. CASE s = "s_header_field_start"
  <2>1. Dispatch(x) = HeaderFieldStart(x, ch)
    BY <1>12 DEF Dispatch, UrlStart, UrlInside
  <2> QED BY <1>1, <1>12, <2>1, FieldStartTurns
<1>13. CASE s = "s_header_field"
  <2>1. Dispatch(x) = HeaderField(x, ch)
    BY <1>13 DEF Dispatch, UrlStart, UrlInside
  <2> QED BY <1>1, <1>13, <2>1, HeaderFieldTurns
<1>14. CASE s = "s_header_value_start"
  <2>1. Dispatch(x) = HeaderValueStart(x, ch)
    BY <1>14 DEF Dispatch, UrlStart, UrlInside
  <2> QED BY <1>1, <1>14, <2>1, HeaderStartTurns
<1>15. CASE s = "s_header_value"
  <2>1. Dispatch(x) = HeaderValue(x, ch)
    BY <1>15 DEF Dispatch, UrlStart, UrlInside
  <2> QED BY <1>1, <1>15, <2>1, HeaderValueTurns
<1>16. CASE s = "s_header_almost_done"
  <2>1. Dispatch(x) = HeaderAlmostDone(x, ch)
    BY <1>16 DEF Dispatch, UrlStart, UrlInside
  <2> QED BY <1>1, <1>16, <2>1, HeaderDoneTurns
<1>17. CASE s = "s_header_value_lws"
  <2>1. Dispatch(x) = HeaderValueLws(x, ch)
    BY <1>17 DEF Dispatch, UrlStart, UrlInside
  <2> QED BY <1>1, <1>17, <2>1, LwsTurns
<1>18. CASE s = "s_headers_almost_done"
  <2>1. Dispatch(x) = HeadersAlmostDone(x, ch)
    BY <1>18 DEF Dispatch, UrlStart, UrlInside
  <2> QED BY <1>1, <1>18, <2>1, HeadersTurns
<1>19. CASE s = "s_body_identity"
  <2>1. Dispatch(x) = BodyIdentity(x)
    BY <1>19 DEF Dispatch, UrlStart, UrlInside
  <2> QED BY <1>1, <1>19, <2>1, IdentityTurns
<1>20. CASE s = "s_body_identity_eof"
  <2>1. Dispatch(x) = BodyIdentityEof(x)
    BY <1>20 DEF Dispatch, UrlStart, UrlInside
  <2> QED BY <1>1, <1>20, <2>1, EofTurns
<1>21. CASE s = "s_chunk_size_start"
  <2>1. Dispatch(x) = ChunkSizeStart(x, ch)
    BY <1>21 DEF Dispatch, UrlStart, UrlInside
  <2> QED BY <1>1, <1>21, <2>1, SizeStartTurns
<1>22. CASE s = "s_chunk_size"
  <2>1. Dispatch(x) = ChunkSize(x, ch)
    BY <1>22 DEF Dispatch, UrlStart, UrlInside
  <2> QED BY <1>1, <1>22, <2>1, SizeTurns
<1>23. CASE s = "s_chunk_parameters"
  <2>1. Dispatch(x) = ChunkParameters(x, ch)
    BY <1>23 DEF Dispatch, UrlStart, UrlInside
  <2> QED BY <1>1, <1>23, <2>1, ParametersTurns
<1>24. CASE s = "s_chunk_size_almost_done"
  <2>1. Dispatch(x) = ChunkSizeAlmostDone(x, ch)
    BY <1>24 DEF Dispatch, UrlStart, UrlInside
  <2> QED BY <1>1, <1>24, <2>1, SizeDoneTurns
<1>25. CASE s = "s_chunk_data"
  <2>1. Dispatch(x) = ChunkData(x)
    BY <1>25 DEF Dispatch, UrlStart, UrlInside
  <2> QED BY <1>1, <1>25, <2>1, ChunkDataTurns
<1>26. CASE s = "s_chunk_data_almost_done"
  <2>1. Dispatch(x) = ChunkDataAlmostDone(x, ch)
    BY <1>26 DEF Dispatch, UrlStart, UrlInside
  <2> QED BY <1>1, <1>26, <2>1, DataDoneTurns
<1>27. CASE s = "s_chunk_data_done"
  <2>1. Dispatch(x) = ChunkDataDone(x, ch)
    BY <1>27 DEF Dispatch, UrlStart, UrlInside
  <2> QED BY <1>1, <1>27, <2>1, DataDoneTurns
<1> HIDE DEF s
<1> QED BY <1>1, <1>2, <1>3, <1>4, <1>5, <1>6, <1>7, <1>8, <1>9, <1>10, <1>11,
           <1>12, <1>13, <1>14, <1>15, <1>16, <1>17, <1>18, <1>19, <1>20, <1>21,
           <1>22, <1>23, <1>24, <1>25, <1>26, <1>27 DEF States, UrlStart,
           UrlInside

LEMMA ByteTurns ==
    ASSUME NEW x, Turning(x), x.run, x.i <= Len(x.data)
    PROVE  Turning(Byte(x))
<1> DEFINE n == IF x.q.state \in BodyStates THEN x.q.nread ELSE x.q.nread + 1
           y == [x EXCEPT !.q.nread = n]
<1>1. Places(x) /\ Fields(x.q) /\ Ready(x.q, 0)
  BY DEF Turning, Sound
<1>2. n \in Nat /\ (x.q.state = "s_chunk_size_start" => n = 1)
  BY <1>1 DEF Fields, Ready, BodyStates, InChunks
<1> HIDE DEF n
<1>3. /\ Places(y) /\ DOMAIN y.q = DOMAIN x.q /\ y.q.nread = n
      /\ y.q.state = x.q.state /\ y.q.flags = x.q.flags
      /\ y.q.http_errno = x.q.http_errno /\ y.q.content_length = x.q.content_length
      /\ y.i = x.i /\ y.data = x.data
  BY <1>1 DEF Places, Fields
<1> HIDE DEF y
<1>4. Fields(y.q)
  BY <1>1, <1>2, <1>3 DEF Fields
<1>5. Ready(y.q, 1)
  BY <1>1, <1>2, <1>3 DEF Ready
<1>6. Turning(Dispatch(y))
  BY <1>3, <1>4, <1>5, DispatchTurns DEF Inside
<1>7. Turning(Error(y, "HPE_HEADER_OVERFLOW"))
  BY <1>3, <1>4, ErrorTurns
<1>8. Byte(x) = Dispatch(y) \/ Byte(x) = Error(y, "HPE_HEADER_OVERFLOW")
  BY DEF Byte, y, n
<1> QED BY <1>6, <1>7, <1>8

LEMMA StepTurns ==
    ASSUME NEW x, Turning(x)
    PROVE  Turning(Step(x))
<1> DEFINE y == Byte(x)
<1>1. CASE ~x.run \/ x.i > Len(x.data)
  BY <1>1 DEF Step
<1>2. CASE ~(~x.run \/ x.i > Len(x.data))
  <2>1. x.run /\ x.i <= Len(x.data)
    BY <1>2 DEF Turning, Places
  <2>2. Turning(y)
    BY <2>1, ByteTurns
  <2>3. Step(x) = IF y.run THEN [y EXCEPT !.i = @ + 1] ELSE y
    BY <1>2 DEF Step
  <2> HIDE DEF y
  <2>4. Turning([y EXCEPT !.i = @ + 1])
    BY <2>2 DEF Turning, Places
  <2> QED BY <2>2, <2>3, <2>4
<1> QED BY <1>1, <1>2

LEMMA LoopTurns ==
    ASSUME NEW x, Turning(x)
    PROVE  Turning(Loop(x))
<1> DEFINE T == {n \in Nat : Turning(Turns(x)[n])}
<1>1. 0 \in T
  BY TurnsDef
<1>2. ASSUME NEW n \in T PROVE n + 1 \in T
  BY TurnsDef, StepTurns
<1> HIDE DEF T
<1>3. \A n \in Nat : n \in T
  BY <1>1, <1>2, SetInduction DEF T
<1>4. Len(x.data) \in T
  BY <1>3 DEF Turning, Places
<1> QED BY <1>4 DEF T, Loop

-------------------------------------------------------------------------------
(* The call *)

LEMMA FlushKeeps ==
    ASSUME NEW x, Places(x)
    PROVE  FlushMarks(x).q = x.q
<1> DEFINE a == CALLBACK_DATA(x, "header_field", Len(x.data))
           b == CALLBACK_DATA(a, "header_value", Len(x.data))
           c == CALLBACK_DATA(b, "url", Len(x.data))
<1>1. Places(a) /\ a.q = x.q
  BY DataBeside DEF Beside
<1> HIDE DEF a
<1>2. Places(b) /\ b.q = a.q
  BY <1>1, DataBeside DEF Beside
<1> HIDE DEF b
<1>3. Places(c) /\ c.q = b.q
  BY <1>2, DataBeside DEF Beside
<1> HIDE DEF c
<1>4. CALLBACK_DATA(c, "body", Len(x.data)).q = c.q
  BY <1>3, DataBeside DEF Beside
<1> QED BY <1>1, <1>2, <1>3, <1>4 DEF FlushMarks, a, b, c

LEMMA EofSound ==
    ASSUME NEW q, Sound(q), q.http_errno = "HPE_OK"
    PROVE  Sound(Eof(q).q)
<1> DEFINE r == [q EXCEPT !.http_errno = "HPE_INVALID_EOF_STATE"]
<1>1. Sound(r)
  BY DEF Sound, Fields
<1> HIDE DEF r
<1>2. Eof(q).q = q \/ Eof(q).q = r
  BY DEF Eof, r
<1> QED BY <1>1, <1>2

LEMMA ExecuteSound ==
    ASSUME NEW q, NEW U, NEW data \in Seq(U), Sound(q)
    PROVE  Sound(http_parser_execute(q, data).q)
<1> DEFINE x == [q |-> q, data |-> data, i |-> 1, mark |-> EntryMarks(q),
                 out |-> <<>>, run |-> TRUE]
           y == Loop(x)
<1>1. CASE q.http_errno # "HPE_OK"
  BY <1>1 DEF http_parser_execute
<1>2. CASE q.http_errno = "HPE_OK" /\ data = <<>>
  BY <1>2, EofSound DEF http_parser_execute
<1>3. CASE q.http_errno = "HPE_OK" /\ data # <<>>
  <2>1. Turning(x)
    BY <1>3 DEF Turning, Places
  <2>2. http_parser_execute(q, data) = Returned(y)
    BY <1>3 DEF http_parser_execute
  <2> HIDE DEF x
  <2>3. Turning(y)
    BY <2>1, LoopTurns
  <2> HIDE DEF y
  <2>4. Returned(y).q = y.q
    BY <2>3, FlushKeeps DEF Returned, Turning
  <2> QED BY <2>2, <2>3, <2>4 DEF Turning
<1> QED BY <1>1, <1>2, <1>3

LEMMA InitSound ==
    ASSUME NEW type
    PROVE  Sound(http_parser_init(type))
<1> DEFINE q == http_parser_init(type)
<1>1. q.state \in {"s_start_req", "s_start_res", "s_start_req_or_res"}
  BY DEF http_parser_init
<1>2. /\ Fields(q) /\ q.http_errno = "HPE_OK"
  BY ParserAssumption DEF http_parser_init, Fields
<1> HIDE DEF q
<1>3. Sound(q)
  BY <1>1, <1>2 DEF Sound, Ready, States, InChunks, InLength
<1> QED BY <1>3 DEF q

-------------------------------------------------------------------------------
(* The inductive invariant *)
StreamInv ==
    /\ stream \in Streams
    /\ pos \in Nat
    /\ Sound(parser)

LEMMA StreamStep == StreamInv /\ [StreamNext]_streamVars => StreamInv'
<1> SUFFICES ASSUME StreamInv, [StreamNext]_streamVars PROVE StreamInv'
  OBVIOUS
<1> DEFINE L == Len(stream[2])
<1>1. stream[2] \in Seq(STRING)
  BY StreamsAssumption DEF StreamInv
<1>2. ASSUME NEW n \in 1..MaxPiece \cup {L - pos}, n > 0, Feed(n) PROVE StreamInv'
  <2>1. n \in Nat \ {0} /\ pos + n <= L
    BY <1>1, <1>2, StreamsAssumption DEF Feed, StreamInv
  <2>2. SubSeq(stream[2], pos + 1, pos + n) \in Seq(STRING)
    BY <1>1, <2>1 DEF StreamInv
  <2>3. Sound(parser')
    BY <1>2, <2>2, ExecuteSound DEF Feed, Execute, StreamInv
  <2> QED BY <1>2, <2>1, <2>3 DEF Feed, StreamInv
<1>3. CASE Close
  <2>1. <<>> \in Seq(STRING)
    OBVIOUS
  <2>2. Sound(parser')
    BY <1>3, <2>1, ExecuteSound DEF Close, Execute, StreamInv
  <2> QED BY <1>3, <2>2 DEF Close, StreamInv
<1>4. CASE UNCHANGED streamVars
  BY <1>4 DEF streamVars, StreamInv
<1> QED BY <1>2, <1>3, <1>4 DEF StreamNext

(* No assert of the parser about bodies and chunks fails: at no call does  *)
(* it stand in a state whose counter, flag or length is not the one the    *)
(* code asserts, for all streams, of any length, and all ways to cut them  *)
(* into reads.                                                             *)
THEOREM ParserAsserts == StreamSpec => []AssertsHold
<1>1. StreamInit => StreamInv
  BY InitSound DEF StreamInit, StreamInv
<1>2. StreamInv /\ [StreamNext]_streamVars => StreamInv'
  BY StreamStep
<1>3. StreamInv => AssertsHold
  BY DEF StreamInv, Sound, Ready, AssertsHold
<1> QED BY <1>1, <1>2, <1>3, PTL DEF StreamSpec

-------------------------------------------------------------------------------
(* Merging callbacks *)

Callbacks == DataKinds \cup {"message_begin", "status_complete", "headers_complete",
                             "message_complete"}
Events == Callbacks \X Seq(STRING)

FirstAdjoined(g, acc, events, n) ==
    /\ g[0] = acc
    /\ \A k \in 1..n : g[k] = Adjoin(g[k - 1], events[k])

LEMMA FirstAdjoinedExists ==
    ASSUME NEW acc, NEW events
    PROVE  \A n \in Nat : \E g : FirstAdjoined(g, acc, events, n)
<1> DEFINE T == {n \in Nat : \E g : FirstAdjoined(g, acc, events, n)}
<1>1. 0 \in T
  <2>1. FirstAdjoined([k \in {0} |-> acc], acc, events, 0)
    BY DEF FirstAdjoined
  <2> QED BY <2>1
<1>2. ASSUME NEW n \in T PROVE n + 1 \in T
  <2>1. PICK g : FirstAdjoined(g, acc, events, n)
    OBVIOUS
  <2> DEFINE h == [k \in 0..(n + 1) |-> IF k = n + 1 THEN Adjoin(g[n], events[k]) ELSE g[k]]
  <2>2. h[0] = acc
    BY <2>1 DEF FirstAdjoined
  <2>3. \A k \in 1..(n + 1) : h[k] = Adjoin(h[k - 1], events[k])
    <3> SUFFICES ASSUME NEW k \in 1..(n + 1) PROVE h[k] = Adjoin(h[k - 1], events[k])
      OBVIOUS
    <3>1. h[k - 1] = g[k - 1]
      OBVIOUS
    <3>2. CASE k = n + 1
      BY <3>1, <3>2
    <3>3. CASE k # n + 1
      <4>1. k \in 1..n /\ h[k] = g[k]
        BY <3>3
      <4> QED BY <2>1, <3>1, <4>1 DEF FirstAdjoined
    <3> QED BY <3>2, <3>3
  <2>4. FirstAdjoined(h, acc, events, n + 1)
    BY <2>2, <2>3 DEF FirstAdjoined
  <2> QED BY <2>4
<1> HIDE DEF T
<1>3. \A n \in Nat : n \in T
  BY <1>1, <1>2, SetInduction DEF T
<1> QED BY <1>3 DEF T

(* The first m callbacks decide what they are merged to. *)
LEMMA FirstAdjoinedUnique ==
    ASSUME NEW acc, NEW s, NEW t, NEW g, NEW h, NEW m \in Nat,
           FirstAdjoined(g, acc, s, m), FirstAdjoined(h, acc, t, m),
           \A k \in 1..m : s[k] = t[k]
    PROVE  g[m] = h[m]
<1> DEFINE T == {n \in Nat : n <= m => g[n] = h[n]}
<1>1. 0 \in T
  BY DEF FirstAdjoined
<1>2. ASSUME NEW n \in T PROVE n + 1 \in T
  <2> SUFFICES ASSUME n + 1 <= m PROVE g[n + 1] = h[n + 1]
    OBVIOUS
  <2>1. n + 1 \in 1..m /\ (n + 1) - 1 = n /\ g[n] = h[n]
    OBVIOUS
  <2> QED BY <2>1 DEF FirstAdjoined
<1> HIDE DEF T
<1>3. \A n \in Nat : n \in T
  BY <1>1, <1>2, SetInduction DEF T
<1> QED BY <1>3 DEF T

LEMMA AdjoinedDef ==
    ASSUME NEW acc, NEW events
    PROVE  \A n \in Nat : FirstAdjoined(Adjoined(acc, events), acc, events, n)
<1> DEFINE g(n) == CHOOSE f : FirstAdjoined(f, acc, events, n)
           f == [n \in Nat |-> g(n)[n]]
<1>1. \A n \in Nat : FirstAdjoined(g(n), acc, events, n)
  BY FirstAdjoinedExists
<1>2. f[0] = acc
  BY <1>1 DEF FirstAdjoined
<1>3. ASSUME NEW n \in Nat \ {0} PROVE f[n] = Adjoin(f[n - 1], events[n])
  <2>1. FirstAdjoined(g(n), acc, events, n) /\ FirstAdjoined(g(n - 1), acc, events, n - 1)
    BY <1>1
  <2>2. FirstAdjoined(g(n), acc, events, n - 1) /\ n - 1 \in Nat
    BY <2>1 DEF FirstAdjoined
  <2> HIDE DEF g
  <2>3. g(n)[n - 1] = g(n - 1)[n - 1]
    BY <2>1, <2>2, FirstAdjoinedUnique
  <2>4. g(n)[n] = Adjoin(g(n)[n - 1], events[n])
    BY <2>1 DEF FirstAdjoined
  <2> QED BY <2>2, <2>3, <2>4
<1> HIDE DEF f
<1>4. f = [n \in Nat |-> IF n = 0 THEN acc ELSE Adjoin(f[n - 1], events[n])]
  <2>1. f = [n \in Nat |-> f[n]]
    BY DEF f
  <2> QED BY <2>1, <1>2, <1>3
<1>5. Adjoined(acc, events)
        = [n \in Nat |-> IF n = 0 THEN acc ELSE Adjoin(Adjoined(acc, events)[n - 1], events[n])]
  BY <1>4 DEF Adjoined
<1> HIDE DEF f
<1> QED BY <1>5 DEF FirstAdjoined

LEMMA MergeNone ==
    ASSUME NEW acc
    PROVE  Merge(acc, <<>>) = acc
BY AdjoinedDef DEF Merge, FirstAdjoined

LEMMA MergeMore ==
    ASSUME NEW acc, NEW U, NEW events \in Seq(U), NEW e
    PROVE  Merge(acc, Append(events, e)) = Adjoin(Merge(acc, events), e)
<1> DEFINE n == Len(events)
           t == Append(events, e)
           f == Adjoined(acc, events)
           h == Adjoined(acc, t)
<1>1. n \in Nat /\ Len(t) = n + 1 /\ t[n + 1] = e /\ \A k \in 1..n : events[k] = t[k]
  OBVIOUS
<1>2. FirstAdjoined(f, acc, events, n) /\ FirstAdjoined(h, acc, t, n + 1)
  BY <1>1, AdjoinedDef
<1>3. FirstAdjoined(h, acc, t, n) /\ h[n + 1] = Adjoin(h[n], e)
  BY <1>1, <1>2 DEF FirstAdjoined
<1> HIDE DEF n, t, f, h
<1>4. f[n] = h[n]
  BY <1>1, <1>2, <1>3, FirstAdjoinedUnique
<1> QED BY <1>1, <1>3, <1>4 DEF Merge, n, t, f, h

LEMMA EventParts ==
    /\ \A e \in Events : e[1] \in Callbacks /\ e[2] \in Seq(STRING)
    /\ \A k \in Callbacks, u \in Seq(STRING) :
          <<k, u>> \in Events /\ <<k, u>>[1] = k /\ <<k, u>>[2] = u
    /\ \A k \in Callbacks : <<k, <<>>>> \in Events
<1>1. <<>> \in Seq(STRING)
  OBVIOUS
<1> QED BY <1>1 DEF Events

LEMMA AdjoinType ==
    ASSUME NEW acc \in Seq(Events), NEW e \in Events
    PROVE  Adjoin(acc, e) \in Seq(Events)
<1>1. CASE acc # <<>>
  <2> DEFINE n == Len(acc)
             v == acc[n][2] \o e[2]
  <2>1. n \in 1..Len(acc) /\ acc[n] \in Events
    BY <1>1
  <2>2. <<e[1], v>> \in Events
    BY <2>1, EventParts, ConcatProperties
  <2> HIDE DEF v
  <2>3. [acc EXCEPT ![n] = <<e[1], v>>] \in Seq(Events)
    BY <2>1, <2>2, ExceptSeq
  <2> QED BY <2>3 DEF Adjoin, v
<1> QED BY <1>1 DEF Adjoin

LEMMA MergeType ==
    ASSUME NEW acc \in Seq(Events), NEW events \in Seq(Events)
    PROVE  Merge(acc, events) \in Seq(Events)
<1> DEFINE f == Adjoined(acc, events)
           T == {n \in Nat : n <= Len(events) => f[n] \in Seq(Events)}
<1>1. 0 \in T
  BY AdjoinedDef DEF FirstAdjoined
<1>2. ASSUME NEW n \in T PROVE n + 1 \in T
  <2> SUFFICES ASSUME n + 1 <= Len(events) PROVE f[n + 1] \in Seq(Events)
    OBVIOUS
  <2>1. n + 1 \in 1..Len(events) /\ f[n] \in Seq(Events) /\ events[n + 1] \in Events
    OBVIOUS
  <2>2. FirstAdjoined(f, acc, events, n + 1)
    BY AdjoinedDef
  <2>3. f[n + 1] = Adjoin(f[n], events[n + 1])
    BY <2>2 DEF FirstAdjoined
  <2> HIDE DEF f
  <2> QED BY <2>1, <2>3, AdjoinType
<1> HIDE DEF T, f
<1>3. \A n \in Nat : n \in T
  BY <1>1, <1>2, SetInduction DEF T
<1>4. f[Len(events)] \in Seq(Events)
  BY <1>3 DEF T
<1> QED BY <1>4 DEF Merge, f

(* A piece of data in two parts is one piece. *)
LEMMA ReplaceLast ==
    ASSUME NEW S, NEW s \in Seq(S), NEW e \in S, NEW f \in S
    PROVE  [Append(s, e) EXCEPT ![Len(s) + 1] = f] = Append(s, f)
<1> DEFINE n == Len(s)
           b == Append(s, e)
           c == Append(s, f)
           d == [b EXCEPT ![n + 1] = f]
<1>1. /\ b \in Seq(S) /\ Len(b) = n + 1 /\ \A i \in 1..n : b[i] = s[i]
      /\ c \in Seq(S) /\ Len(c) = n + 1 /\ \A i \in 1..n : c[i] = s[i]
      /\ c[n + 1] = f /\ n \in Nat
  BY AppendProperties
<1> HIDE DEF b, c, n
<1>2. n + 1 \in 1..Len(b)
  BY <1>1
<1>3. /\ d \in Seq(S) /\ Len(d) = n + 1
      /\ \A i \in 1..(n + 1) : d[i] = IF i = n + 1 THEN f ELSE b[i]
  BY <1>1, <1>2, ExceptSeq
<1> HIDE DEF d
<1>4. \A i \in 1..(n + 1) : d[i] = c[i]
  BY <1>1, <1>3
<1>5. d = c
  BY <1>1, <1>3, <1>4, SeqEqual
<1> QED BY <1>5 DEF b, c, d, n

LEMMA AdjoinParts ==
    ASSUME NEW acc \in Seq(Events), NEW k \in DataKinds,
           NEW u \in Seq(STRING), NEW v \in Seq(STRING)
    PROVE  Adjoin(Adjoin(acc, <<k, u>>), <<k, v>>) = Adjoin(acc, <<k, u \o v>>)
<1> DEFINE n == Len(acc)
           b == Adjoin(acc, <<k, u>>)
           t == acc[n][2]
           w == t \o u
<1>0. k \in Callbacks /\ u \o v \in Seq(STRING)
  <2>1. k \in Callbacks
    BY DEF Callbacks
  <2> QED BY <2>1, ConcatProperties
<1>1. CASE acc # <<>> /\ acc[n][1] = k
  <2>1. n \in 1..Len(acc) /\ acc[n] \in Events
    BY <1>1
  <2>2. t \in Seq(STRING)
    BY <2>1, EventParts
  <2>3. w \in Seq(STRING) /\ w \o v = t \o (u \o v)
    <3> HIDE DEF t
    <3> QED BY <2>2, ConcatProperties, ConcatAssociative
  <2>4. <<k, w>> \in Events
    BY <1>0, <2>3, EventParts
  <2>5. b = [acc EXCEPT ![n] = <<k, w>>]
    BY <1>1 DEF Adjoin
  <2>6. Adjoin(acc, <<k, u \o v>>) = [acc EXCEPT ![n] = <<k, w \o v>>]
    BY <1>1, <2>3 DEF Adjoin
  <2> HIDE DEF w, b
  <2>7. Len(b) = n /\ b # <<>> /\ b[n] = <<k, w>>
    BY <2>1, <2>4, <2>5, ExceptSeq
  <2>8. b[n][1] = k /\ b[n][2] = w
    BY <2>7
  <2> HIDE DEF n
  <2>9. Adjoin(b, <<k, v>>) = [b EXCEPT ![n] = <<k, w \o v>>]
    BY <2>7, <2>8 DEF Adjoin
  <2>10. [b EXCEPT ![n] = <<k, w \o v>>] = [acc EXCEPT ![n] = <<k, w \o v>>]
    BY <2>5
  <2> QED BY <2>6, <2>9, <2>10 DEF b
<1>2. CASE ~ (acc # <<>> /\ acc[n][1] = k)
  <2> DEFINE e == <<k, u>>
             f == <<k, u \o v>>
  <2>1. b = Append(acc, e) /\ Adjoin(acc, f) = Append(acc, f)
    BY <1>2 DEF Adjoin
  <2>2. e \in Events /\ f \in Events /\ e[1] = k /\ e[2] = u
    BY <1>0, EventParts
  <2> HIDE DEF e, f
  <2>3. Len(b) = n + 1 /\ b # <<>> /\ b[n + 1] = e
    BY <2>1, <2>2, AppendProperties
  <2> HIDE DEF b, n
  <2>4. Adjoin(b, <<k, v>>) = [b EXCEPT ![n + 1] = f]
    BY <2>2, <2>3 DEF Adjoin, f
  <2>5. [Append(acc, e) EXCEPT ![n + 1] = f] = Append(acc, f)
    BY <2>2, ReplaceLast DEF n
  <2> QED BY <2>1, <2>4, <2>5 DEF b, f
<1> QED BY <1>1, <1>2
-------------------------------------------------------------------------------
(* Two runs over the same unit.  A call that goes over a whole stream and  *)
(* a call that got only a part of it stand at different places of          *)
(* different data, and have reported different things; but the parser is   *)
(* the same, and the same kind of data is marked.                          *)

(* The kind of data the parser is inside of, in the states that tell. *)
Kind(s) ==
    IF s \in UrlStart \cup UrlInside THEN "url"
    ELSE IF s = "s_header_field" THEN "header_field"
    ELSE IF s = "s_header_value" THEN "header_value"
    ELSE IF s = "s_chunk_data_almost_done" THEN "body"
    ELSE "none"

(* A call at a unit *)
At(x) ==
    /\ Places(x) /\ Fields(x.q) /\ x.q.http_errno = "HPE_OK" /\ x.q.upgrade = FALSE
    /\ x.run = TRUE /\ x.mark \in [DataKinds -> Nat]
    /\ \A f \in DataKinds : (x.mark[f] # 0) <=> (f = Kind(x.q.state))
Twins(x, y) == At(x) /\ At(y) /\ y.q = x.q

(* What a unit can do to a call *)
Still(x, u) ==
    /\ Places(u) /\ u.out = x.out /\ u.i = x.i /\ u.data = x.data /\ u.run = x.run

Fails(x, u)     == u.q.http_errno # "HPE_OK" /\ u.out = x.out /\ u.run = FALSE /\ u.i = x.i
Goes(x, u)      == /\ u.q.http_errno = "HPE_OK" /\ u.data = x.data
                   /\ IF u.q.upgrade
                      THEN u.run = FALSE /\ u.i = x.i + 1 /\ Kind(u.q.state) = "none"
                      ELSE u.q.upgrade = FALSE /\ u.run = TRUE /\ u.i = x.i
Rests(x, u)     == /\ u.out = x.out /\ u.mark = x.mark
                   /\ Kind(u.q.state) = Kind(x.q.state)
Begins(x, u, f) == /\ u.out = x.out /\ u.mark = [x.mark EXCEPT ![f] = x.i]
                   /\ Kind(x.q.state) = "none" /\ Kind(u.q.state) = f
Closes(x, u, f) == /\ u.out = Append(x.out, <<f, SubSeq(x.data, x.mark[f], x.i - 1)>>)
                   /\ u.mark = [x.mark EXCEPT ![f] = 0]
                   /\ Kind(x.q.state) = f /\ Kind(u.q.state) = "none"
Tells(x, u, e)  == /\ u.out = Append(x.out, e) /\ u.mark = x.mark
                   /\ Kind(x.q.state) = "none" /\ Kind(u.q.state) = "none"
TellsTwo(x, u, e, f) ==
    /\ u.out = Append(Append(x.out, e), f) /\ u.mark = x.mark
    /\ Kind(x.q.state) = "none" /\ Kind(u.q.state) = "none"

Alike(x, y, u, v) ==
    /\ v.q = u.q
    /\ \/ Fails(x, u) /\ Fails(y, v)
       \/ /\ Goes(x, u) /\ Goes(y, v)
          /\ \/ Rests(x, u) /\ Rests(y, v)
             \/ \E f \in DataKinds : Begins(x, u, f) /\ Begins(y, v, f)
             \/ \E f \in DataKinds : Closes(x, u, f) /\ Closes(y, v, f)
             \/ \E e \in Events : Tells(x, u, e) /\ Tells(y, v, e)
             \/ \E e, f \in Events : TellsTwo(x, u, e, f) /\ TellsTwo(y, v, e, f)

LEMMA ErrorAlike ==
    ASSUME NEW x, NEW y, NEW u, NEW v, NEW e, e # "HPE_OK",
           Still(x, u), Still(y, v), Fields(u.q), u.q = v.q
    PROVE  Alike(x, y, Error(u, e), Error(v, e))
BY DEF Alike, Fails, Error, Still, Places, Fields

LEMMA SelfAlike ==
    ASSUME NEW x, NEW y, Twins(x, y)
    PROVE  Alike(x, y, x, y)
BY DEF Twins, At, Alike, Goes, Rests

(* Only the parser goes on. *)
Quiet(x, u) == Still(x, u) /\ u.mark = x.mark
               /\ u.q.http_errno = x.q.http_errno /\ u.q.upgrade = x.q.upgrade

LEMMA QuietAlike ==
    ASSUME NEW x, NEW y, NEW u, NEW v, Twins(x, y), Quiet(x, u), Quiet(y, v),
           u.q = v.q, Kind(u.q.state) = Kind(x.q.state)
    PROVE  Alike(x, y, u, v)
BY DEF Quiet, Still, Twins, At, Alike, Goes, Rests

LEMMA GoQuiet ==
    ASSUME NEW x, NEW s, At(x)
    PROVE  Quiet(x, Go(x, s)) /\ Go(x, s).q = [x.q EXCEPT !.state = s]
           /\ Go(x, s).q.state = s
BY DEF Quiet, Still, Go, At, Places, Fields

LEMMA GoAlike ==
    ASSUME NEW x, NEW y, NEW s, Twins(x, y), Kind(s) = Kind(x.q.state)
    PROVE  Alike(x, y, Go(x, s), Go(y, s))
<1>1. Quiet(x, Go(x, s)) /\ Quiet(y, Go(y, s)) /\ Go(x, s).q.state = s
  BY GoQuiet DEF Twins
<1>2. Go(x, s).q = Go(y, s).q
  BY DEF Go, Twins, At, Places
<1> QED BY <1>1, <1>2, QuietAlike

LEMMA StillSelf ==
    ASSUME NEW x, At(x)
    PROVE  Still(x, x) /\ Quiet(x, x)
BY DEF Still, Quiet, At, Places

(* Version and status numbers, methods, constants *)
LEMMA DigitAlike ==
    ASSUME NEW x, NEW y, NEW ch, NEW f \in Digits, NEW s, NEW e, e # "HPE_OK",
           Twins(x, y), Kind(s) = Kind(x.q.state)
    PROVE  /\ Alike(x, y, FirstDigit(x, ch, f, s), FirstDigit(y, ch, f, s))
           /\ Alike(x, y, NextDigit(x, ch, f, e), NextDigit(y, ch, f, e))
<1> DEFINE n == x.q[f] * 10 + Unhex(ch)
           u(z) == [z EXCEPT !.q[f] = Unhex(ch), !.q.state = s]
           v(z) == [z EXCEPT !.q[f] = n]
<1>1. Quiet(x, u(x)) /\ Quiet(y, u(y)) /\ u(x).q = u(y).q /\ u(x).q.state = s
  BY DEF Quiet, Still, Twins, At, Places, Fields, Digits
<1>2. Alike(x, y, u(x), u(y))
  <2> HIDE DEF u
  <2> QED BY <1>1, QuietAlike
<1>3. Quiet(x, v(x)) /\ Quiet(y, v(y)) /\ v(x).q = v(y).q /\ v(x).q.state = x.q.state
      /\ Fields(v(x).q)
  BY DEF Quiet, Still, Twins, At, Places, Fields, Digits
<1>4. Alike(x, y, v(x), v(y)) /\ Alike(x, y, Error(v(x), e), Error(v(y), e))
  <2> HIDE DEF v
  <2> QED BY <1>3, QuietAlike, ErrorAlike DEF Quiet
<1>5. Alike(x, y, Error(x, e), Error(y, e))
      /\ Alike(x, y, Error(x, "HPE_INVALID_VERSION"), Error(y, "HPE_INVALID_VERSION"))
  BY StillSelf, ErrorAlike DEF Twins, At
<1> USE DEF Twins
<1> QED BY <1>2, <1>4, <1>5 DEF FirstDigit, NextDigit

LEMMA VersionAlike ==
    ASSUME NEW x, NEW y, NEW ch, NEW s, Twins(x, y),
           Kind(x.q.state) = "none", Kind(s) = "none"
    PROVE  /\ Alike(x, y, ReqFirstMajor(x, ch), ReqFirstMajor(y, ch))
           /\ Alike(x, y, Major(x, ch, s), Major(y, ch, s))
           /\ Alike(x, y, ReqMinor(x, ch), ReqMinor(y, ch))
           /\ Alike(x, y, ResMinor(x, ch), ResMinor(y, ch))
           /\ Alike(x, y, FirstStatusCode(x, ch), FirstStatusCode(y, ch))
           /\ Alike(x, y, StatusCode(x, ch), StatusCode(y, ch))
           /\ Alike(x, y, Status(x, ch), Status(y, ch))
<1>1. ASSUME NEW e, e # "HPE_OK" PROVE Alike(x, y, Error(x, e), Error(y, e))
  BY <1>1, StillSelf, ErrorAlike DEF Twins, At
<1>2. ASSUME NEW f \in Digits, NEW t, NEW e, e # "HPE_OK", Kind(t) = "none"
      PROVE  /\ Alike(x, y, FirstDigit(x, ch, f, t), FirstDigit(y, ch, f, t))
             /\ Alike(x, y, NextDigit(x, ch, f, e), NextDigit(y, ch, f, e))
  BY <1>2, DigitAlike
<1>3. ASSUME NEW t, Kind(t) = "none" PROVE Alike(x, y, Go(x, t), Go(y, t))
  BY <1>3, GoAlike
<1>4. /\ Kind("s_req_http_major") = "none" /\ Kind("s_req_line_almost_done") = "none"
      /\ Kind("s_header_field_start") = "none" /\ Kind("s_res_first_status_code") = "none"
      /\ Kind("s_res_status") = "none" /\ Kind("s_res_line_almost_done") = "none"
      /\ Kind("s_res_status_code") = "none"
  BY DEF Kind, UrlStart, UrlInside
<1>5. "http_major" \in Digits /\ "http_minor" \in Digits /\ "status_code" \in Digits
  BY DEF Digits
<1>6. Alike(x, y, x, y)
  BY SelfAlike
<1>7. Alike(x, y, ReqFirstMajor(x, ch), ReqFirstMajor(y, ch))
  BY <1>1, <1>2, <1>4, <1>5 DEF ReqFirstMajor
<1>8. Alike(x, y, Major(x, ch, s), Major(y, ch, s))
  BY <1>2, <1>3, <1>5 DEF Major
<1>9. Alike(x, y, ReqMinor(x, ch), ReqMinor(y, ch))
  BY <1>2, <1>3, <1>4, <1>5 DEF ReqMinor
<1>10. Alike(x, y, ResMinor(x, ch), ResMinor(y, ch))
  BY <1>2, <1>3, <1>4, <1>5 DEF ResMinor
<1>11. Alike(x, y, FirstStatusCode(x, ch), FirstStatusCode(y, ch))
  <2> DEFINE u(z) == [z EXCEPT !.q.status_code = Unhex(ch), !.q.state = "s_res_status_code"]
  <2>1. Quiet(x, u(x)) /\ Quiet(y, u(y)) /\ u(x).q = u(y).q
        /\ u(x).q.state = "s_res_status_code"
    BY DEF Quiet, Still, Twins, At, Places, Fields
  <2>2. Alike(x, y, u(x), u(y))
    <3> HIDE DEF u
    <3> QED BY <1>4, <2>1, QuietAlike
  <2> QED BY <1>1, <1>6, <2>2 DEF FirstStatusCode
<1>12. Alike(x, y, StatusCode(x, ch), StatusCode(y, ch))
  BY <1>2, <1>3, <1>4, <1>5 DEF StatusCode
<1>13. Alike(x, y, Status(x, ch), Status(y, ch))
  BY <1>3, <1>4, <1>6 DEF Status
<1> QED BY <1>7, <1>8, <1>9, <1>10, <1>11, <1>12, <1>13

LEMMA ConstantAlike ==
    ASSUME NEW x, NEW y, NEW ch, NEW s, Twins(x, y),
           Kind(x.q.state) = "none", Kind(s) = "none"
    PROVE  /\ Alike(x, y, Check(x, ch = "TTP/", Go(x, s)), Check(y, ch = "TTP/", Go(y, s)))
           /\ Alike(x, y, ReqHttpStart(x, ch), ReqHttpStart(y, ch))
           /\ Alike(x, y, ReqLineAlmostDone(x, ch), ReqLineAlmostDone(y, ch))
           /\ Alike(x, y, ResOrRespH(x, ch), ResOrRespH(y, ch))
           /\ Alike(x, y, ReqMethod(x, ch), ReqMethod(y, ch))
           /\ Alike(x, y, ChunkParameters(x, ch), ChunkParameters(y, ch))
           /\ Alike(x, y, HeaderAlmostDone(x, ch), HeaderAlmostDone(y, ch))
<1>1. ASSUME NEW e, e # "HPE_OK" PROVE Alike(x, y, Error(x, e), Error(y, e))
  BY <1>1, StillSelf, ErrorAlike DEF Twins, At
<1>2. ASSUME NEW t, Kind(t) = "none" PROVE Alike(x, y, Go(x, t), Go(y, t))
  BY <1>2, GoAlike
<1>3. \A t \in {"s_req_http_H", "s_header_field_start", "s_res_first_http_major",
                "s_req_method", "s_req_spaces_before_url", "s_chunk_size_almost_done",
                "s_header_value_lws"} : Kind(t) = "none"
  BY DEF Kind, UrlStart, UrlInside
<1>4. Alike(x, y, x, y)
  BY SelfAlike
<1>5. Alike(x, y, Check(x, ch = "TTP/", Go(x, s)), Check(y, ch = "TTP/", Go(y, s)))
  BY <1>1, <1>2 DEF Check
<1>6. Alike(x, y, ReqHttpStart(x, ch), ReqHttpStart(y, ch))
  BY <1>1, <1>2, <1>3, <1>4 DEF ReqHttpStart
<1>7. Alike(x, y, ReqLineAlmostDone(x, ch), ReqLineAlmostDone(y, ch))
  BY <1>1, <1>2, <1>3 DEF ReqLineAlmostDone
<1>8. Alike(x, y, ResOrRespH(x, ch), ResOrRespH(y, ch))
  <2> DEFINE u(z) == [z EXCEPT !.q.type = "HTTP_RESPONSE",
                               !.q.state = "s_res_first_http_major"]
             v(z) == [z EXCEPT !.q.type = "HTTP_REQUEST", !.q.index = 2,
                               !.q.method = {<<"H", "EAD">>},
                               !.q.state = "s_req_method"]
  <2>1. Quiet(x, u(x)) /\ Quiet(y, u(y)) /\ u(x).q = u(y).q
        /\ u(x).q.state = "s_res_first_http_major"
    BY DEF Quiet, Still, Twins, At, Places, Fields
  <2>2. Quiet(x, v(x)) /\ Quiet(y, v(y)) /\ v(x).q = v(y).q
        /\ v(x).q.state = "s_req_method"
    BY DEF Quiet, Still, Twins, At, Places, Fields
  <2>3. Alike(x, y, u(x), u(y)) /\ Alike(x, y, v(x), v(y))
    <3> HIDE DEF u, v
    <3> QED BY <1>3, <2>1, <2>2, QuietAlike
  <2> QED BY <1>1, <2>3 DEF ResOrRespH
<1>9. Alike(x, y, ReqMethod(x, ch), ReqMethod(y, ch))
  <2> DEFINE u(z, w) == [z EXCEPT !.q.state = "s_req_spaces_before_url", !.q.method = w]
             v(z, w) == [z EXCEPT !.q.method = w, !.q.index = @ + 1]
  <2>1. ASSUME NEW w PROVE Alike(x, y, u(x, w), u(y, w)) /\ Alike(x, y, v(x, w), v(y, w))
    <3>1. Quiet(x, u(x, w)) /\ Quiet(y, u(y, w)) /\ u(x, w).q = u(y, w).q
          /\ u(x, w).q.state = "s_req_spaces_before_url"
      BY DEF Quiet, Still, Twins, At, Places, Fields
    <3>2. Quiet(x, v(x, w)) /\ Quiet(y, v(y, w)) /\ v(x, w).q = v(y, w).q
          /\ v(x, w).q.state = x.q.state
      BY DEF Quiet, Still, Twins, At, Places, Fields
    <3> HIDE DEF u, v
    <3> QED BY <1>3, <3>1, <3>2, QuietAlike
  <2> DEFINE words == Matching(x.q.method, x.q.index + 1, ch)
             whole == Complete(x.q.method, x.q.index)
  <2>2. ASSUME NEW z, z.q = x.q
        PROVE  ReqMethod(z, ch) = CASE ch = SP /\ whole # {} -> u(z, whole)
                                    [] words # {} -> v(z, words)
                                    [] OTHER -> Error(z, "HPE_INVALID_METHOD")
    BY <2>2 DEF ReqMethod
  <2> HIDE DEF u, v, words, whole
  <2>3. /\ ReqMethod(x, ch) = CASE ch = SP /\ whole # {} -> u(x, whole)
                                 [] words # {} -> v(x, words)
                                 [] OTHER -> Error(x, "HPE_INVALID_METHOD")
        /\ ReqMethod(y, ch) = CASE ch = SP /\ whole # {} -> u(y, whole)
                                 [] words # {} -> v(y, words)
                                 [] OTHER -> Error(y, "HPE_INVALID_METHOD")
    BY <2>2 DEF Twins
  <2> QED BY <1>1, <2>1, <2>3
<1>10. Alike(x, y, ChunkParameters(x, ch), ChunkParameters(y, ch))
  BY <1>2, <1>3, <1>4 DEF ChunkParameters
<1>11. Alike(x, y, HeaderAlmostDone(x, ch), HeaderAlmostDone(y, ch))
  <2> DEFINE u(z, w) == [z EXCEPT !.q.state = "s_header_value_lws", !.q.flags = @ \cup w]
  <2>1. ASSUME NEW w PROVE Alike(x, y, u(x, w), u(y, w))
    <3>1. Quiet(x, u(x, w)) /\ Quiet(y, u(y, w)) /\ u(x, w).q = u(y, w).q
          /\ u(x, w).q.state = "s_header_value_lws"
      BY DEF Quiet, Still, Twins, At, Places, Fields
    <3> HIDE DEF u
    <3> QED BY <1>3, <3>1, QuietAlike
  <2> DEFINE w == CASE x.q.hit = KEEP_ALIVE -> {"F_CONNECTION_KEEP_ALIVE"}
                    [] x.q.hit = CLOSE -> {"F_CONNECTION_CLOSE"}
                    [] x.q.hit = CHUNKED -> {"F_CHUNKED"}
                    [] OTHER -> {}
  <2>2. ASSUME NEW z, z.q = x.q
        PROVE  HeaderAlmostDone(z, ch) = Check(z, ch = LF, u(z, w))
    BY <2>2 DEF HeaderAlmostDone
  <2> HIDE DEF u, w
  <2>3. /\ HeaderAlmostDone(x, ch) = Check(x, ch = LF, u(x, w))
        /\ HeaderAlmostDone(y, ch) = Check(y, ch = LF, u(y, w))
    BY <2>2 DEF Twins
  <2> QED BY <1>1, <2>1, <2>3 DEF Check
<1> QED BY <1>5, <1>6, <1>7, <1>8, <1>9, <1>10, <1>11

LEMMA ChainAlike ==
    ASSUME NEW x, NEW y, NEW a, NEW b, NEW u, NEW v, Quiet(x, a), Quiet(y, b),
           Kind(a.q.state) = Kind(x.q.state), Kind(b.q.state) = Kind(y.q.state),
           Alike(a, b, u, v)
    PROVE  Alike(x, y, u, v)
<1>1. a.out = x.out /\ a.i = x.i /\ a.data = x.data /\ a.mark = x.mark
      /\ b.out = y.out /\ b.i = y.i /\ b.data = y.data /\ b.mark = y.mark
  BY DEF Quiet, Still
<1>2. v.q = u.q
  BY DEF Alike
<1>3. CASE Fails(a, u) /\ Fails(b, v)
  BY <1>1, <1>2, <1>3 DEF Fails, Alike
<1>4. CASE Goes(a, u) /\ Goes(b, v)
  <2>1. Goes(x, u) /\ Goes(y, v)
    BY <1>1, <1>4 DEF Goes
  <2>2. \/ Rests(x, u) /\ Rests(y, v)
        \/ \E f \in DataKinds : Begins(x, u, f) /\ Begins(y, v, f)
        \/ \E f \in DataKinds : Closes(x, u, f) /\ Closes(y, v, f)
        \/ \E e \in Events : Tells(x, u, e) /\ Tells(y, v, e)
        \/ \E e, f \in Events : TellsTwo(x, u, e, f) /\ TellsTwo(y, v, e, f)
    <3>1. CASE Rests(a, u) /\ Rests(b, v)
      BY <1>1, <3>1 DEF Rests
    <3>2. ASSUME NEW f \in DataKinds, Begins(a, u, f), Begins(b, v, f)
          PROVE  Begins(x, u, f) /\ Begins(y, v, f)
      BY <1>1, <3>2 DEF Begins
    <3>3. ASSUME NEW f \in DataKinds, Closes(a, u, f), Closes(b, v, f)
          PROVE  Closes(x, u, f) /\ Closes(y, v, f)
      BY <1>1, <3>3 DEF Closes
    <3>4. ASSUME NEW e \in Events, Tells(a, u, e), Tells(b, v, e)
          PROVE  Tells(x, u, e) /\ Tells(y, v, e)
      BY <1>1, <3>4 DEF Tells
    <3>5. ASSUME NEW e \in Events, NEW f \in Events,
                 TellsTwo(a, u, e, f), TellsTwo(b, v, e, f)
          PROVE  TellsTwo(x, u, e, f) /\ TellsTwo(y, v, e, f)
      BY <1>1, <3>5 DEF TellsTwo
    <3>6. Fails(a, u) => u.q.http_errno # "HPE_OK"
      BY DEF Fails
    <3> QED BY <1>4, <3>1, <3>2, <3>3, <3>4, <3>5, <3>6 DEF Alike, Goes
  <2> QED BY <1>2, <2>1, <2>2 DEF Alike
<1> QED BY <1>3, <1>4 DEF Alike

LEMMA TellAlike ==
    ASSUME NEW x, NEW y, NEW a, NEW b, NEW e \in Callbacks, Twins(x, y),
           Quiet(x, a), Quiet(y, b), a.q = b.q,
           Kind(x.q.state) = "none", Kind(a.q.state) = "none"
    PROVE  Alike(x, y, CALLBACK_NOTIFY(a, e), CALLBACK_NOTIFY(b, e))
<1> DEFINE u == CALLBACK_NOTIFY(a, e)
           v == CALLBACK_NOTIFY(b, e)
           g == <<e, <<>>>>
<1>1. g \in Events
  BY EventParts
<1>2. /\ u.q = a.q /\ u.i = a.i /\ u.data = a.data /\ u.mark = a.mark /\ u.run = a.run
      /\ u.out = Append(a.out, g)
      /\ v.q = b.q /\ v.i = b.i /\ v.data = b.data /\ v.mark = b.mark /\ v.run = b.run
      /\ v.out = Append(b.out, g)
  BY DEF CALLBACK_NOTIFY, Quiet, Still, Places
<1> HIDE DEF u, v, g
<1>3. Tells(x, u, g) /\ Tells(y, v, g)
  BY <1>2 DEF Tells, Quiet, Still, Twins
<1>4. Goes(x, u) /\ Goes(y, v)
  BY <1>2 DEF Goes, Quiet, Still, Twins, At
<1>5. v.q = u.q
  BY <1>2
<1>6. Alike(x, y, u, v)
  BY <1>1, <1>3, <1>4, <1>5 DEF Alike
<1> QED BY <1>6 DEF u, v

LEMMA StartTwins ==
    ASSUME NEW x, NEW y, Twins(x, y)
    PROVE  /\ Quiet(x, StartMessage(x)) /\ Quiet(y, StartMessage(y))
           /\ Twins(StartMessage(x), StartMessage(y))
           /\ StartMessage(x).q.state = x.q.state
<1> DEFINE a == StartMessage(x)
           b == StartMessage(y)
<1>1. ULLONG_MAX \in 0..ULLONG_MAX
  BY ParserAssumption
<1>2. Quiet(x, a) /\ Quiet(y, b) /\ a.q = b.q /\ a.q.state = x.q.state
  BY DEF StartMessage, Quiet, Still, Twins, At, Places, Fields
<1>3. Fields(a.q) /\ Fields(b.q)
  BY <1>1 DEF StartMessage, Twins, At, Places, Fields
<1> HIDE DEF a, b
<1>4. At(a) /\ At(b)
  BY <1>2, <1>3 DEF Quiet, Still, Twins, At
<1> QED BY <1>2, <1>4 DEF Twins, a, b

LEMMA StartReqAlike ==
    ASSUME NEW x, NEW y, NEW ch, Twins(x, y), Kind(x.q.state) = "none"
    PROVE  Alike(x, y, StartReq(x, ch), StartReq(y, ch))
<1> DEFINE a == StartMessage(x)
           b == StartMessage(y)
           words == Matching(Methods, 1, ch)
           u(z) == [z EXCEPT !.q.method = words, !.q.index = 1, !.q.state = "s_req_method"]
<1>1. Quiet(x, a) /\ Quiet(y, b) /\ Twins(a, b) /\ a.q.state = x.q.state
  BY StartTwins
<1>2. Alike(x, y, x, y)
  BY SelfAlike
<1> HIDE DEF a, b, words
<1>3. Alike(x, y, Error(a, "HPE_INVALID_METHOD"), Error(b, "HPE_INVALID_METHOD"))
  BY <1>1, ErrorAlike DEF Quiet, Twins, At
<1>4. Quiet(a, u(a)) /\ Quiet(b, u(b)) /\ u(a).q = u(b).q /\ u(a).q.state = "s_req_method"
  BY <1>1 DEF Quiet, Still, Twins, At, Places, Fields
<1> HIDE DEF u
<1>5. Kind("s_req_method") = "none" /\ "message_begin" \in Callbacks
  BY DEF Kind, UrlStart, UrlInside, Callbacks
<1>6. Alike(a, b, CALLBACK_NOTIFY(u(a), "message_begin"), CALLBACK_NOTIFY(u(b), "message_begin"))
  BY <1>1, <1>4, <1>5, TellAlike
<1>7. Alike(x, y, CALLBACK_NOTIFY(u(a), "message_begin"), CALLBACK_NOTIFY(u(b), "message_begin"))
  BY <1>1, <1>6, ChainAlike DEF Twins
<1>8. ASSUME NEW z
      PROVE  StartReq(z, ch) = IF ch \in {CR, LF} THEN z
                   ELSE IF words = {} THEN Error(StartMessage(z), "HPE_INVALID_METHOD")
                   ELSE CALLBACK_NOTIFY(u(StartMessage(z)), "message_begin")
  BY DEF StartReq, u, words
<1> QED BY <1>2, <1>3, <1>7, <1>8 DEF a, b

LEMMA StartAlike ==
    ASSUME NEW x, NEW y, NEW ch, Twins(x, y), Kind(x.q.state) = "none"
    PROVE  /\ Alike(x, y, StartReqOrRes(x, ch), StartReqOrRes(y, ch))
           /\ Alike(x, y, StartRes(x, ch), StartRes(y, ch))
<1> DEFINE a == StartMessage(x)
           b == StartMessage(y)
           u(z) == [z EXCEPT !.q.type = "HTTP_REQUEST", !.q.state = "s_start_req"]
<1>1. Quiet(x, a) /\ Quiet(y, b) /\ Twins(a, b) /\ a.q.state = x.q.state
  BY StartTwins
<1>2. Alike(x, y, x, y)
  BY SelfAlike
<1>3. Kind("s_res_or_resp_H") = "none" /\ Kind("s_res_H") = "none"
      /\ Kind("s_start_req") = "none" /\ "message_begin" \in Callbacks
  BY DEF Kind, UrlStart, UrlInside, Callbacks
<1> HIDE DEF a, b
<1>4. ASSUME NEW s, Kind(s) = "none"
      PROVE  Alike(x, y, CALLBACK_NOTIFY(Go(a, s), "message_begin"),
                         CALLBACK_NOTIFY(Go(b, s), "message_begin"))
  <2>1. Quiet(a, Go(a, s)) /\ Quiet(b, Go(b, s)) /\ Go(a, s).q.state = s
    BY <1>1, GoQuiet DEF Twins
  <2>2. Go(a, s).q = Go(b, s).q
    BY <1>1 DEF Go, Twins, At, Places
  <2>3. Alike(a, b, CALLBACK_NOTIFY(Go(a, s), "message_begin"),
                    CALLBACK_NOTIFY(Go(b, s), "message_begin"))
    BY <1>1, <1>3, <1>4, <2>1, <2>2, TellAlike
  <2> QED BY <1>1, <2>3, ChainAlike DEF Twins
<1>5. Alike(x, y, CALLBACK_NOTIFY(a, "message_begin"), CALLBACK_NOTIFY(b, "message_begin"))
  BY <1>1, <1>3, TellAlike DEF Twins
<1>6. Alike(x, y, Error(a, "HPE_INVALID_CONSTANT"), Error(b, "HPE_INVALID_CONSTANT"))
  BY <1>1, ErrorAlike DEF Quiet, Twins, At
<1>7. Alike(x, y, StartReq(u(a), ch), StartReq(u(b), ch))
  <2>1. Quiet(a, u(a)) /\ Quiet(b, u(b)) /\ u(a).q = u(b).q /\ u(a).q.state = "s_start_req"
        /\ Fields(u(a).q)
    BY <1>1 DEF Quiet, Still, Twins, At, Places, Fields
  <2> HIDE DEF u
  <2>2. Twins(u(a), u(b))
    BY <1>1, <1>3, <2>1 DEF Quiet, Still, Twins, At
  <2>3. Alike(u(a), u(b), StartReq(u(a), ch), StartReq(u(b), ch))
    BY <1>3, <2>1, <2>2, StartReqAlike
  <2>4. Quiet(x, u(a)) /\ Quiet(y, u(b))
    BY <1>1, <2>1 DEF Quiet, Still
  <2> QED BY <1>3, <2>1, <2>3, <2>4, ChainAlike DEF Twins
<1>8. Alike(x, y, StartReqOrRes(x, ch), StartReqOrRes(y, ch))
  BY <1>2, <1>3, <1>4, <1>7 DEF StartReqOrRes, a, b
<1>9. Alike(x, y, StartRes(x, ch), StartRes(y, ch))
  BY <1>3, <1>4, <1>5, <1>6 DEF StartRes, a, b
<1> QED BY <1>8, <1>9

LEMMA MarkFacts ==
    ASSUME NEW x, NEW f \in DataKinds, At(x), Kind(x.q.state) = "none"
    PROVE  /\ Still(x, MARK(x, f)) /\ MARK(x, f).q = x.q
           /\ MARK(x, f).mark = [x.mark EXCEPT ![f] = x.i]
<1>1. x.mark[f] = 0
  BY DEF At, DataKinds
<1> QED BY <1>1 DEF MARK, Still, At, Places

Marked(x, a, f) ==
    /\ Still(x, a) /\ a.mark = [x.mark EXCEPT ![f] = x.i]
    /\ a.q.http_errno = x.q.http_errno /\ a.q.upgrade = x.q.upgrade

LEMMA BeginAlike ==
    ASSUME NEW x, NEW y, NEW a, NEW b, NEW f \in DataKinds, Twins(x, y),
           Kind(x.q.state) = "none", Marked(x, a, f), Marked(y, b, f),
           a.q = b.q, Kind(a.q.state) = f
    PROVE  Alike(x, y, a, b)
<1>1. Goes(x, a) /\ Goes(y, b)
  BY DEF Goes, Marked, Still, Twins, At
<1>2. Begins(x, a, f) /\ Begins(y, b, f)
  BY DEF Begins, Marked, Still, Twins
<1> QED BY <1>1, <1>2 DEF Alike

LEMMA CloseAlike ==
    ASSUME NEW x, NEW y, NEW a, NEW b, NEW f \in DataKinds, Twins(x, y),
           Kind(x.q.state) = f, Quiet(x, a), Quiet(y, b), a.q = b.q,
           Kind(a.q.state) = "none"
    PROVE  Alike(x, y, CALLBACK_DATA(a, f, x.i - 1), CALLBACK_DATA(b, f, y.i - 1))
<1> DEFINE u == CALLBACK_DATA(a, f, x.i - 1)
           v == CALLBACK_DATA(b, f, y.i - 1)
<1>1. x.mark[f] # 0 /\ y.mark[f] # 0
  BY DEF Twins, At
<1>2. a.mark = x.mark /\ a.data = x.data /\ a.out = x.out
      /\ b.mark = y.mark /\ b.data = y.data /\ b.out = y.out
  BY DEF Quiet, Still
<1>3. /\ u.q = a.q /\ u.i = a.i /\ u.data = a.data /\ u.run = a.run
      /\ u.out = Append(x.out, <<f, SubSeq(x.data, x.mark[f], x.i - 1)>>)
      /\ u.mark = [x.mark EXCEPT ![f] = 0]
  BY <1>1, <1>2 DEF CALLBACK_DATA, Quiet, Still, Places
<1>4. /\ v.q = b.q /\ v.i = b.i /\ v.data = b.data /\ v.run = b.run
      /\ v.out = Append(y.out, <<f, SubSeq(y.data, y.mark[f], y.i - 1)>>)
      /\ v.mark = [y.mark EXCEPT ![f] = 0]
  BY <1>1, <1>2 DEF CALLBACK_DATA, Quiet, Still, Places
<1> HIDE DEF u, v
<1>5. Goes(x, u) /\ Goes(y, v)
  BY <1>3, <1>4 DEF Goes, Quiet, Still, Twins, At
<1>6. Closes(x, u, f) /\ Closes(y, v, f)
  BY <1>3, <1>4 DEF Closes, Twins
<1>7. Alike(x, y, u, v)
  BY <1>3, <1>4, <1>5, <1>6 DEF Alike
<1> QED BY <1>7 DEF u, v

Urls == UrlStart \cup UrlInside

LEMMA UrlKind ==
    /\ \A s \in Urls : Kind(s) = "url"
    /\ \A s : Kind(s) = "url" => s \in Urls
    /\ Kind("s_req_spaces_before_url") = "none"
    /\ "url" \in DataKinds
BY DEF Kind, DataKinds, Urls, UrlStart, UrlInside

LEMMA UrlGoesOn ==
    ASSUME NEW s \in Urls \cup {"s_req_spaces_before_url"}, NEW ch
    PROVE  parse_url_char(s, ch) \in Urls \cup {"s_dead"}
BY DEF parse_url_char, Urls, UrlStart, UrlInside

LEMMA SpacesAlike ==
    ASSUME NEW x, NEW y, NEW ch, Twins(x, y), x.q.state = "s_req_spaces_before_url"
    PROVE  Alike(x, y, SpacesBeforeUrl(x, ch), SpacesBeforeUrl(y, ch))
<1> DEFINE s == IF CONNECT \in x.q.method THEN "s_req_server_start" ELSE x.q.state
           t == parse_url_char(s, ch)
           a == MARK(x, "url")
           b == MARK(y, "url")
<1>1. Alike(x, y, x, y)
  BY SelfAlike
<1>2. s \in Urls \cup {"s_req_spaces_before_url"}
  BY DEF Urls, UrlStart
<1>3. /\ Still(x, a) /\ a.q = x.q /\ a.mark = [x.mark EXCEPT !["url"] = x.i]
      /\ Still(y, b) /\ b.q = y.q /\ b.mark = [y.mark EXCEPT !["url"] = y.i]
  BY UrlKind, MarkFacts DEF Twins
<1> HIDE DEF s, a, b
<1>4. t \in Urls \cup {"s_dead"}
  BY <1>2, UrlGoesOn
<1> HIDE DEF t
<1>5. Alike(x, y, Error(a, "HPE_INVALID_URL"), Error(b, "HPE_INVALID_URL"))
  BY <1>3, ErrorAlike DEF Twins, At
<1>6. CASE t \in Urls
  <2>1. Marked(x, Go(a, t), "url") /\ Marked(y, Go(b, t), "url")
        /\ Go(a, t).q = Go(b, t).q /\ Go(a, t).q.state = t
    BY <1>3 DEF Go, Marked, Still, Twins, At, Places, Fields
  <2>2. Alike(x, y, Go(a, t), Go(b, t))
    BY <1>6, <2>1, UrlKind, BeginAlike
  <2>3. t # "s_dead"
    BY <1>6 DEF Urls, UrlStart, UrlInside
  <2>4. UrlChar(a, s, ch) = Go(a, t) /\ UrlChar(b, s, ch) = Go(b, t)
    BY <2>3 DEF UrlChar, t
  <2> QED BY <1>1, <2>2, <2>4 DEF SpacesBeforeUrl, Twins, s, a, b
<1>7. CASE t = "s_dead"
  <2>1. UrlChar(a, s, ch) = Error(a, "HPE_INVALID_URL")
        /\ UrlChar(b, s, ch) = Error(b, "HPE_INVALID_URL")
    BY <1>7 DEF UrlChar, t
  <2> QED BY <1>1, <1>5, <2>1 DEF SpacesBeforeUrl, Twins, s, a, b
<1> QED BY <1>4, <1>6, <1>7

LEMMA InUrlAlike ==
    ASSUME NEW x, NEW y, NEW ch, Twins(x, y), x.q.state \in Urls
    PROVE  Alike(x, y, InUrl(x, ch), InUrl(y, ch))
<1> DEFINE t == parse_url_char(x.q.state, ch)
           u(z, s) == [z EXCEPT !.q.http_major = 0, !.q.http_minor = 9, !.q.state = s]
<1>1. Alike(x, y, Error(x, "HPE_INVALID_URL"), Error(y, "HPE_INVALID_URL"))
  BY StillSelf, ErrorAlike DEF Twins, At
<1>2. /\ Kind("s_req_http_start") = "none" /\ Kind("s_req_line_almost_done") = "none"
      /\ Kind("s_header_field_start") = "none"
  BY DEF Kind, UrlStart, UrlInside
<1>3. Kind(x.q.state) = "url" /\ "url" \in DataKinds
  BY UrlKind
<1>4. Alike(x, y, CALLBACK_DATA(Go(x, "s_req_http_start"), "url", x.i - 1),
                  CALLBACK_DATA(Go(y, "s_req_http_start"), "url", y.i - 1))
  <2>1. /\ Quiet(x, Go(x, "s_req_http_start")) /\ Quiet(y, Go(y, "s_req_http_start"))
        /\ Go(x, "s_req_http_start").q.state = "s_req_http_start"
    BY GoQuiet DEF Twins
  <2>2. Go(x, "s_req_http_start").q = Go(y, "s_req_http_start").q
    BY DEF Go, Twins, At, Places
  <2> QED BY <1>2, <1>3, <2>1, <2>2, CloseAlike
<1>5. ASSUME NEW s \in {"s_req_line_almost_done", "s_header_field_start"}
      PROVE  Alike(x, y, CALLBACK_DATA(u(x, s), "url", x.i - 1),
                         CALLBACK_DATA(u(y, s), "url", y.i - 1))
  <2>1. Quiet(x, u(x, s)) /\ Quiet(y, u(y, s)) /\ u(x, s).q = u(y, s).q
        /\ u(x, s).q.state = s
    BY DEF Quiet, Still, Twins, At, Places, Fields
  <2> HIDE DEF u
  <2> QED BY <1>2, <1>3, <2>1, CloseAlike
<1>6. Alike(x, y, UrlChar(x, x.q.state, ch), UrlChar(y, x.q.state, ch))
  <2>1. t \in Urls \cup {"s_dead"}
    BY UrlGoesOn
  <2> HIDE DEF t
  <2>2. t \in Urls => Alike(x, y, Go(x, t), Go(y, t))
    BY <1>3, UrlKind, GoAlike
  <2>3. "s_dead" \notin Urls
    BY DEF Urls, UrlStart, UrlInside
  <2> QED BY <1>1, <2>1, <2>2, <2>3 DEF UrlChar, t
<1>7. CASE ch \in {CR, LF} /\ x.q.state \in UrlInside
  <2> DEFINE s == IF ch = CR THEN "s_req_line_almost_done" ELSE "s_header_field_start"
  <2>1. \A z : z.q = x.q => InUrl(z, ch) = CALLBACK_DATA(u(z, s), "url", z.i - 1)
    BY <1>7 DEF InUrl, UrlStart, UrlInside, CR, LF, SP
  <2>2. s \in {"s_req_line_almost_done", "s_header_field_start"}
    OBVIOUS
  <2> HIDE DEF u, s
  <2>3. /\ InUrl(x, ch) = CALLBACK_DATA(u(x, s), "url", x.i - 1)
        /\ InUrl(y, ch) = CALLBACK_DATA(u(y, s), "url", y.i - 1)
    BY <2>1 DEF Twins
  <2> QED BY <1>5, <2>2, <2>3
<1>8. CASE ~(ch \in {CR, LF} /\ x.q.state \in UrlInside)
  BY <1>1, <1>4, <1>6, <1>8 DEF InUrl, Twins
<1> QED BY <1>7, <1>8

(* Headers *)
LEMMA HeaderKinds ==
    /\ Kind("s_header_field") = "header_field" /\ "header_field" \in DataKinds
    /\ Kind("s_header_value") = "header_value" /\ "header_value" \in DataKinds
    /\ Kind("s_chunk_data_almost_done") = "body" /\ "body" \in DataKinds
    /\ \A s \in {"s_header_value_start", "s_header_almost_done", "s_header_field_start",
                 "s_header_value_lws", "s_headers_almost_done", "s_chunk_size_start",
                 "s_chunk_size", "s_chunk_size_almost_done", "s_chunk_parameters",
                 "s_chunk_data", "s_chunk_data_done", "s_body_identity",
                 "s_body_identity_eof", "s_dead", "s_start_req", "s_start_res",
                 "s_res_line_almost_done", "s_message_done"} : Kind(s) = "none"
BY DEF Kind, DataKinds, UrlStart, UrlInside

LEMMA HeaderFieldAlike ==
    ASSUME NEW x, NEW y, NEW ch, Twins(x, y), x.q.state = "s_header_field"
    PROVE  Alike(x, y, HeaderField(x, ch), HeaderField(y, ch))
<1> DEFINE words == Matching(x.q.header_state, x.q.index + 1, ch)
           w == WholeWord(words, x.q.index + 1)
           u(z) == [z EXCEPT !.q.header_state = words, !.q.index = @ + 1, !.q.hit = w]
           end(z, s) == CALLBACK_DATA(Go(z, s), "header_field", z.i - 1)
<1>1. Alike(x, y, Error(x, "HPE_INVALID_HEADER_TOKEN"), Error(y, "HPE_INVALID_HEADER_TOKEN"))
  BY StillSelf, ErrorAlike DEF Twins, At
<1>2. ASSUME NEW s \in {"s_header_value_start", "s_header_almost_done", "s_header_field_start"}
      PROVE  Alike(x, y, end(x, s), end(y, s))
  <2>1. Quiet(x, Go(x, s)) /\ Quiet(y, Go(y, s)) /\ Go(x, s).q.state = s
    BY GoQuiet DEF Twins
  <2>2. Go(x, s).q = Go(y, s).q
    BY DEF Go, Twins, At, Places
  <2> QED BY <2>1, <2>2, HeaderKinds, CloseAlike
<1>3. Alike(x, y, u(x), u(y))
  <2> HIDE DEF words, w
  <2>1. Quiet(x, u(x)) /\ Quiet(y, u(y)) /\ u(x).q = u(y).q /\ u(x).q.state = x.q.state
    BY DEF Quiet, Still, Twins, At, Places, Fields
  <2> HIDE DEF u
  <2> QED BY <2>1, QuietAlike
<1>4. ASSUME NEW z, z.q = x.q
      PROVE  HeaderField(z, ch) = CASE TOKEN(ch) -> u(z)
                                    [] ch = ":" -> end(z, "s_header_value_start")
                                    [] ch = CR -> end(z, "s_header_almost_done")
                                    [] ch = LF -> end(z, "s_header_field_start")
                                    [] OTHER -> Error(z, "HPE_INVALID_HEADER_TOKEN")
  BY <1>4 DEF HeaderField
<1> HIDE DEF u, end
<1>5. /\ HeaderField(x, ch) = CASE TOKEN(ch) -> u(x)
                                [] ch = ":" -> end(x, "s_header_value_start")
                                [] ch = CR -> end(x, "s_header_almost_done")
                                [] ch = LF -> end(x, "s_header_field_start")
                                [] OTHER -> Error(x, "HPE_INVALID_HEADER_TOKEN")
      /\ HeaderField(y, ch) = CASE TOKEN(ch) -> u(y)
                                [] ch = ":" -> end(y, "s_header_value_start")
                                [] ch = CR -> end(y, "s_header_almost_done")
                                [] ch = LF -> end(y, "s_header_field_start")
                                [] OTHER -> Error(y, "HPE_INVALID_HEADER_TOKEN")
  BY <1>4 DEF Twins
<1> QED BY <1>1, <1>2, <1>3, <1>5

(* A value that is empty is reported as such at once. *)
LEMMA EmptyAlike ==
    ASSUME NEW x, NEW y, NEW a, NEW b, NEW f \in DataKinds, Twins(x, y),
           Kind(x.q.state) = "none", Marked(x, a, f), Marked(y, b, f), a.q = b.q,
           Kind(a.q.state) = "none", x.i # 0, y.i # 0
    PROVE  Alike(x, y, CALLBACK_DATA(a, f, x.i - 1), CALLBACK_DATA(b, f, y.i - 1))
<1> DEFINE u == CALLBACK_DATA(a, f, x.i - 1)
           v == CALLBACK_DATA(b, f, y.i - 1)
           g == <<f, <<>>>>
<1>1. x.mark[f] = 0 /\ y.mark[f] = 0 /\ x.mark \in [DataKinds -> Nat]
      /\ y.mark \in [DataKinds -> Nat] /\ x.i \in Nat /\ y.i \in Nat
  BY DEF Twins, At, DataKinds, Places
<1>2. /\ a.mark[f] = x.i /\ a.data = x.data /\ a.out = x.out /\ [a.mark EXCEPT ![f] = 0] = x.mark
      /\ b.mark[f] = y.i /\ b.data = y.data /\ b.out = y.out /\ [b.mark EXCEPT ![f] = 0] = y.mark
  BY <1>1 DEF Marked, Still
<1>3. SubSeq(x.data, x.i, x.i - 1) = <<>> /\ SubSeq(y.data, y.i, y.i - 1) = <<>>
  BY <1>1, SubSeqEmpty
<1>4. /\ u.q = a.q /\ u.i = a.i /\ u.data = a.data /\ u.run = a.run
      /\ u.out = Append(x.out, g) /\ u.mark = x.mark
  BY <1>2, <1>3 DEF CALLBACK_DATA, Marked, Still, Places
<1>5. /\ v.q = b.q /\ v.i = b.i /\ v.data = b.data /\ v.run = b.run
      /\ v.out = Append(y.out, g) /\ v.mark = y.mark
  BY <1>2, <1>3 DEF CALLBACK_DATA, Marked, Still, Places
<1>6. g \in Events
  BY EventParts DEF Callbacks
<1> HIDE DEF u, v, g
<1>7. Goes(x, u) /\ Goes(y, v)
  BY <1>4, <1>5 DEF Goes, Marked, Still, Twins, At
<1>8. Tells(x, u, g) /\ Tells(y, v, g)
  BY <1>4, <1>5 DEF Tells, Twins
<1>9. Alike(x, y, u, v)
  BY <1>4, <1>5, <1>6, <1>7, <1>8 DEF Alike
<1> QED BY <1>9 DEF u, v

LEMMA ValueStartAlike ==
    ASSUME NEW x, NEW y, NEW ch, Twins(x, y), x.q.state = "s_header_value_start",
           x.i # 0, y.i # 0
    PROVE  Alike(x, y, HeaderValueStart(x, ch), HeaderValueStart(y, ch))
<1> DEFINE f == "header_value"
           w == Matching(ValueWords(x.q.hit), 1, ch)
           m(z) == [MARK(z, f) EXCEPT !.q.state = "s_header_value", !.q.index = 1]
           g(z) == [m(z) EXCEPT !.q.header_state = {}, !.q.hit = <<>>]
           fl(z) == [g(z) EXCEPT !.q.flags = @ \cup {"F_UPGRADE"}]
           l(z) == [m(z) EXCEPT !.q.content_length = Unhex(ch)]
           h(z) == [g(z) EXCEPT !.q.header_state = w]
<1>1. Kind(x.q.state) = "none" /\ f \in DataKinds /\ Kind("s_header_value") = f
  BY HeaderKinds
<1>2. /\ Still(x, MARK(x, f)) /\ MARK(x, f).q = x.q /\ MARK(x, f).mark = [x.mark EXCEPT ![f] = x.i]
      /\ Still(y, MARK(y, f)) /\ MARK(y, f).q = y.q /\ MARK(y, f).mark = [y.mark EXCEPT ![f] = y.i]
  BY <1>1, MarkFacts DEF Twins
<1>3. /\ Marked(x, m(x), f) /\ Marked(y, m(y), f) /\ m(x).q = m(y).q
      /\ m(x).q.state = "s_header_value" /\ Fields(m(x).q)
  BY <1>2 DEF Marked, Still, Twins, At, Places, Fields
<1> HIDE DEF m
<1>4. /\ Marked(x, g(x), f) /\ Marked(y, g(y), f) /\ g(x).q = g(y).q
      /\ g(x).q.state = "s_header_value" /\ Fields(g(x).q)
  BY <1>3 DEF Marked, Still, Twins, At, Places, Fields
<1> HIDE DEF g, w
<1>5. /\ Marked(x, fl(x), f) /\ Marked(y, fl(y), f) /\ fl(x).q = fl(y).q
      /\ fl(x).q.state = "s_header_value"
  BY <1>4 DEF Marked, Still, Twins, At, Places, Fields
<1>6. /\ Marked(x, l(x), f) /\ Marked(y, l(y), f) /\ l(x).q = l(y).q
      /\ l(x).q.state = "s_header_value"
  BY <1>3 DEF Marked, Still, Twins, At, Places, Fields
<1>7. /\ Marked(x, h(x), f) /\ Marked(y, h(y), f) /\ h(x).q = h(y).q
      /\ h(x).q.state = "s_header_value"
  BY <1>4 DEF Marked, Still, Twins, At, Places, Fields
<1> HIDE DEF fl, l, h
<1>8. Alike(x, y, fl(x), fl(y)) /\ Alike(x, y, l(x), l(y)) /\ Alike(x, y, h(x), h(y))
  BY <1>1, <1>5, <1>6, <1>7, BeginAlike
<1>9. Alike(x, y, x, y)
  BY SelfAlike
<1>10. Alike(x, y, Error(m(x), "HPE_INVALID_CONTENT_LENGTH"),
                   Error(m(y), "HPE_INVALID_CONTENT_LENGTH"))
  BY <1>3, ErrorAlike DEF Marked
<1>11. Alike(x, y, CALLBACK_DATA(Go(g(x), "s_header_almost_done"), f, x.i - 1),
                   CALLBACK_DATA(Go(g(y), "s_header_almost_done"), f, y.i - 1))
  <2> DEFINE a == Go(g(x), "s_header_almost_done")
             b == Go(g(y), "s_header_almost_done")
  <2>1. /\ Marked(x, a, f) /\ Marked(y, b, f) /\ a.q = b.q
        /\ a.q.state = "s_header_almost_done"
    BY <1>4 DEF Go, Marked, Still, Twins, At, Places, Fields
  <2> HIDE DEF a, b, f
  <2> QED BY <1>1, <2>1, HeaderKinds, EmptyAlike DEF a, b
<1>12. Alike(x, y, CALLBACK_DATA(Go(m(x), "s_header_field_start"), f, x.i - 1),
                   CALLBACK_DATA(Go(m(y), "s_header_field_start"), f, y.i - 1))
  <2> DEFINE a == Go(m(x), "s_header_field_start")
             b == Go(m(y), "s_header_field_start")
  <2>1. /\ Marked(x, a, f) /\ Marked(y, b, f) /\ a.q = b.q
        /\ a.q.state = "s_header_field_start"
    BY <1>3 DEF Go, Marked, Still, Twins, At, Places, Fields
  <2> HIDE DEF a, b, f
  <2> QED BY <1>1, <2>1, HeaderKinds, EmptyAlike DEF a, b
<1> DEFINE R(z) == IF ch \in {SP, TAB} THEN z
             ELSE IF ch = CR THEN CALLBACK_DATA(Go(g(z), "s_header_almost_done"), f, z.i - 1)
             ELSE IF ch = LF THEN CALLBACK_DATA(Go(m(z), "s_header_field_start"), f, z.i - 1)
             ELSE CASE x.q.hit = UPGRADE -> fl(z)
             [] x.q.hit = CONTENT_LENGTH ->
                   IF IS_NUM(ch) THEN l(z) ELSE Error(m(z), "HPE_INVALID_CONTENT_LENGTH")
             [] OTHER -> h(z)
<1>13. ASSUME NEW z, z.q = x.q
       PROVE  HeaderValueStart(z, ch) = R(z)
  BY <1>13 DEF HeaderValueStart, m, g, fl, l, h, w
<1>14. HeaderValueStart(x, ch) = R(x) /\ HeaderValueStart(y, ch) = R(y)
  BY <1>13 DEF Twins
<1>15. Alike(x, y, R(x), R(y))
  BY <1>8, <1>9, <1>10, <1>11, <1>12
<1> QED BY <1>14, <1>15

LEMMA AppendDigitAlike ==
    ASSUME NEW x, NEW y, NEW base, NEW digit, Twins(x, y)
    PROVE  Alike(x, y, AppendDigit(x, base, digit), AppendDigit(y, base, digit))
<1> DEFINE t == (x.q.content_length * base + digit) % (ULLONG_MAX + 1)
           u(z) == [z EXCEPT !.q.content_length = t]
<1>1. Alike(x, y, Error(x, "HPE_INVALID_CONTENT_LENGTH"), Error(y, "HPE_INVALID_CONTENT_LENGTH"))
  BY StillSelf, ErrorAlike DEF Twins, At
<1>2. Alike(x, y, u(x), u(y))
  <2> HIDE DEF t
  <2>1. Quiet(x, u(x)) /\ Quiet(y, u(y)) /\ u(x).q = u(y).q /\ u(x).q.state = x.q.state
    BY DEF Quiet, Still, Twins, At, Places, Fields
  <2> HIDE DEF u
  <2> QED BY <2>1, QuietAlike
<1> DEFINE R(z) == IF t < x.q.content_length \/ t = ULLONG_MAX
                   THEN Error(z, "HPE_INVALID_CONTENT_LENGTH") ELSE u(z)
<1>3. \A z : z.q = x.q => AppendDigit(z, base, digit) = R(z)
  BY DEF AppendDigit
<1> HIDE DEF t, u
<1>4. AppendDigit(x, base, digit) = R(x) /\ AppendDigit(y, base, digit) = R(y)
  BY <1>3 DEF Twins
<1> QED BY <1>1, <1>2, <1>4

LEMMA HeaderValueAlike ==
    ASSUME NEW x, NEW y, NEW ch, Twins(x, y), x.q.state = "s_header_value"
    PROVE  Alike(x, y, HeaderValue(x, ch), HeaderValue(y, ch))
<1> DEFINE f == "header_value"
           words == Matching(x.q.header_state, x.q.index + 1, ch)
           w == WholeWord(words, x.q.index + 1)
           u(z) == [z EXCEPT !.q.header_state = words, !.q.index = @ + 1, !.q.hit = w]
           end(z) == CALLBACK_DATA(Go(z, "s_header_almost_done"), f, z.i - 1)
           done(z) == HeaderAlmostDone(end(z), ch)
<1>1. Alike(x, y, Error(x, "HPE_INVALID_CONTENT_LENGTH"), Error(y, "HPE_INVALID_CONTENT_LENGTH"))
  BY StillSelf, ErrorAlike DEF Twins, At
<1>2. Alike(x, y, end(x), end(y))
  <2>1. Quiet(x, Go(x, "s_header_almost_done")) /\ Quiet(y, Go(y, "s_header_almost_done"))
        /\ Go(x, "s_header_almost_done").q.state = "s_header_almost_done"
    BY GoQuiet DEF Twins
  <2>2. Go(x, "s_header_almost_done").q = Go(y, "s_header_almost_done").q
    BY DEF Go, Twins, At, Places
  <2> QED BY <2>1, <2>2, HeaderKinds, CloseAlike
<1>3. CASE ch = LF
  <2> DEFINE fl == CASE x.q.hit = KEEP_ALIVE -> {"F_CONNECTION_KEEP_ALIVE"}
                     [] x.q.hit = CLOSE -> {"F_CONNECTION_CLOSE"}
                     [] x.q.hit = CHUNKED -> {"F_CHUNKED"}
                     [] OTHER -> {}
             a(z) == [Go(z, "s_header_almost_done") EXCEPT
                        !.q.state = "s_header_value_lws", !.q.flags = @ \cup fl]
             v(z) == [end(z) EXCEPT !.q.state = "s_header_value_lws",
                                    !.q.flags = @ \cup fl]
  <2>1. \A z : end(z).q.hit = x.q.hit => done(z) = v(z)
    BY <1>3 DEF HeaderAlmostDone, Check
  <2>2. end(x).q.hit = x.q.hit /\ end(y).q.hit = x.q.hit
    BY DEF CALLBACK_DATA, Go, Twins, At, Places, Fields
  <2>3. done(x) = v(x) /\ done(y) = v(y)
    <3> HIDE DEF end, v, done
    <3> QED BY <2>1, <2>2
  <2> HIDE DEF fl
  <2>4. /\ Quiet(x, a(x)) /\ Quiet(y, a(y)) /\ a(x).q = a(y).q
        /\ a(x).q.state = "s_header_value_lws"
    BY DEF Go, Quiet, Still, Twins, At, Places, Fields
  <2>5. Alike(x, y, CALLBACK_DATA(a(x), f, x.i - 1), CALLBACK_DATA(a(y), f, y.i - 1))
    <3> HIDE DEF a
    <3> QED BY <2>4, HeaderKinds, CloseAlike
  <2>6. ASSUME NEW z, At(z), z.q.state = "s_header_value"
        PROVE  v(z) = CALLBACK_DATA(a(z), f, z.i - 1)
    <3>1. z.mark[f] # 0
      BY <2>6, HeaderKinds DEF At
    <3> DEFINE n == [f2 \in DataKinds |-> 0]
    <3> QED BY <2>6, <3>1 DEF CALLBACK_DATA, Go, At, Places, Fields
  <2>7. v(x) = CALLBACK_DATA(a(x), f, x.i - 1) /\ v(y) = CALLBACK_DATA(a(y), f, y.i - 1)
    <3> HIDE DEF v, a
    <3> QED BY <2>6 DEF Twins
  <2>8. HeaderValue(x, ch) = done(x) /\ HeaderValue(y, ch) = done(y)
    <3>1. ch # CR
      BY <1>3 DEF CR, LF
    <3>2. \A z : HeaderValue(z, ch) = done(z)
      BY <1>3, <3>1 DEF HeaderValue
    <3> QED BY <3>2
  <2> HIDE DEF done, v, a
  <2> QED BY <2>3, <2>5, <2>7, <2>8
<1>4. CASE ch # LF
  <2>1. Alike(x, y, x, y)
    BY SelfAlike
  <2>2. Alike(x, y, u(x), u(y))
    <3> HIDE DEF words, w
    <3>1. Quiet(x, u(x)) /\ Quiet(y, u(y)) /\ u(x).q = u(y).q /\ u(x).q.state = x.q.state
      BY DEF Quiet, Still, Twins, At, Places, Fields
    <3> HIDE DEF u
    <3> QED BY <3>1, QuietAlike
  <2>3. Alike(x, y, AppendDigit(x, 10, Unhex(ch)), AppendDigit(y, 10, Unhex(ch)))
    BY AppendDigitAlike
  <2> DEFINE R(z) == IF ch = CR THEN end(z)
                 ELSE CASE x.q.hit = CONTENT_LENGTH ->
                       (CASE ch = SP -> z
                         [] IS_NUM(ch) -> AppendDigit(z, 10, Unhex(ch))
                         [] OTHER -> Error(z, "HPE_INVALID_CONTENT_LENGTH"))
                 [] x.q.hit \in {CHUNKED, KEEP_ALIVE, CLOSE} /\ ch = SP -> z
                 [] OTHER -> u(z)
  <2>4. \A z : z.q = x.q => HeaderValue(z, ch) = R(z)
    BY <1>4 DEF HeaderValue
  <2>5. HeaderValue(x, ch) = R(x) /\ HeaderValue(y, ch) = R(y)
    BY <2>4 DEF Twins
  <2> HIDE DEF u, end
  <2>6. Alike(x, y, R(x), R(y))
    BY <1>1, <1>2, <2>1, <2>2, <2>3
  <2> QED BY <2>5, <2>6
<1> QED BY <1>3, <1>4

LEMMA MessageAlike ==
    ASSUME NEW x, NEW y, Twins(x, y), Kind(x.q.state) = "none"
    PROVE  Alike(x, y, MessageComplete(x), MessageComplete(y))
<1> DEFINE s == NEW_MESSAGE(x.q)
<1>1. Kind(s) = "none"
  BY HeaderKinds DEF NEW_MESSAGE
<1> HIDE DEF s
<1>2. Quiet(x, Go(x, s)) /\ Quiet(y, Go(y, s)) /\ Go(x, s).q.state = s
  BY GoQuiet DEF Twins
<1>3. Go(x, s).q = Go(y, s).q
  BY DEF Go, Twins, At, Places
<1>4. "message_complete" \in Callbacks
  BY DEF Callbacks
<1>5. Alike(x, y, CALLBACK_NOTIFY(Go(x, s), "message_complete"),
                  CALLBACK_NOTIFY(Go(y, s), "message_complete"))
  BY <1>1, <1>2, <1>3, <1>4, TellAlike
<1> QED BY <1>5 DEF MessageComplete, Twins, s

(* The headers are told to be complete, and perhaps the message too. *)
Told(x, w, e) ==
    /\ Places(w) /\ w.i = x.i /\ w.data = x.data /\ w.run = x.run /\ w.mark = x.mark
    /\ w.out = Append(x.out, e)

LEMMA BodyBeginsAlike ==
    ASSUME NEW x, NEW y, NEW w, NEW t, NEW e \in Events, Twins(x, y),
           Kind(x.q.state) = "none", Told(x, w, e), Told(y, t, e), w.q = t.q,
           Fields(w.q), w.q.http_errno = "HPE_OK", w.q.upgrade \in BOOLEAN
    PROVE  Alike(x, y, BodyBegins(w), BodyBegins(t))
<1> DEFINE g == <<"message_complete", <<>>>>
           s == NEW_MESSAGE(w.q)
           k == [w.q EXCEPT !.state = s]
           h(z) == [MessageComplete(z) EXCEPT !.run = FALSE, !.i = @ + 1]
<1>1. g \in Events
  BY EventParts DEF Callbacks
<1>2. Kind(s) = "none"
  BY HeaderKinds DEF NEW_MESSAGE
<1>3. ASSUME NEW z, Places(z), z.q = w.q
      PROVE  /\ MessageComplete(z).q = k /\ MessageComplete(z).i = z.i
             /\ MessageComplete(z).data = z.data /\ MessageComplete(z).mark = z.mark
             /\ MessageComplete(z).out = Append(z.out, g) /\ MessageComplete(z).run = z.run
             /\ h(z).q = k /\ h(z).i = z.i + 1
             /\ h(z).data = z.data /\ h(z).mark = z.mark
             /\ h(z).out = Append(z.out, g) /\ h(z).run = FALSE
  BY <1>3 DEF MessageComplete, CALLBACK_NOTIFY, Go, Places
<1>4. k.state = s /\ k.http_errno = "HPE_OK" /\ k.upgrade = w.q.upgrade
  BY DEF Fields
<1> DEFINE told(z, m, j, r) ==
             /\ m.q = k /\ m.i = j
             /\ m.data = z.data /\ m.mark = z.mark
             /\ m.out = Append(Append(z.out, e), g) /\ m.run = r
<1> HIDE DEF g, s, h, k
<1>31. /\ told(x, MessageComplete(w), x.i, x.run) /\ told(x, h(w), x.i + 1, FALSE)
       /\ told(y, MessageComplete(t), y.i, y.run) /\ told(y, h(t), y.i + 1, FALSE)
  <2>1. /\ Places(w) /\ w.i = x.i /\ w.data = x.data /\ w.run = x.run /\ w.mark = x.mark
        /\ w.out = Append(x.out, e)
    BY DEF Told
  <2>2. /\ Places(t) /\ t.i = y.i /\ t.data = y.data /\ t.run = y.run /\ t.mark = y.mark
        /\ t.out = Append(y.out, e) /\ t.q = w.q
    BY DEF Told
  <2>3. told(x, MessageComplete(w), x.i, x.run) /\ told(x, h(w), x.i + 1, FALSE)
    BY <1>3, <2>1, ZenonT(60)
  <2>4. told(y, MessageComplete(t), y.i, y.run) /\ told(y, h(t), y.i + 1, FALSE)
    BY <1>3, <2>2, ZenonT(60)
  <2> QED BY <2>3, <2>4
<1>5. w.q.upgrade = FALSE => Alike(x, y, MessageComplete(w), MessageComplete(t))
  <2> SUFFICES ASSUME w.q.upgrade = FALSE
               PROVE  Alike(x, y, MessageComplete(w), MessageComplete(t))
    OBVIOUS
  <2> DEFINE u == MessageComplete(w)
             v == MessageComplete(t)
  <2>1. u.q = v.q /\ u.q.state = s /\ u.q.http_errno = "HPE_OK" /\ u.q.upgrade = FALSE
        /\ u.i = x.i /\ u.data = x.data /\ u.mark = x.mark /\ u.run = x.run
        /\ u.out = Append(Append(x.out, e), g)
        /\ v.i = y.i /\ v.data = y.data /\ v.mark = y.mark /\ v.run = y.run
        /\ v.out = Append(Append(y.out, e), g)
    BY <1>31, <1>4
  <2> HIDE DEF u, v
  <2>2. Goes(x, u) /\ Goes(y, v)
    BY <2>1 DEF Goes, Twins, At
  <2>3. TellsTwo(x, u, e, g) /\ TellsTwo(y, v, e, g)
    BY <1>2, <2>1 DEF TellsTwo, Twins
  <2>4. Alike(x, y, u, v)
    BY <1>1, <2>1, <2>2, <2>3 DEF Alike
  <2> QED BY <2>4 DEF u, v
<1>6. w.q.upgrade = TRUE => Alike(x, y, h(w), h(t))
  <2> SUFFICES ASSUME w.q.upgrade = TRUE PROVE Alike(x, y, h(w), h(t))
    OBVIOUS
  <2> DEFINE u == h(w)
             v == h(t)
  <2>1. u.q = v.q /\ u.q.state = s /\ u.q.http_errno = "HPE_OK" /\ u.q.upgrade = TRUE
        /\ u.i = x.i + 1 /\ u.data = x.data /\ u.mark = x.mark /\ u.run = FALSE
        /\ u.out = Append(Append(x.out, e), g)
        /\ v.i = y.i + 1 /\ v.data = y.data /\ v.mark = y.mark /\ v.run = FALSE
        /\ v.out = Append(Append(y.out, e), g)
    BY <1>31, <1>4
  <2> HIDE DEF u, v
  <2>2. Goes(x, u) /\ Goes(y, v)
    BY <1>2, <2>1 DEF Goes, Twins, At
  <2>3. TellsTwo(x, u, e, g) /\ TellsTwo(y, v, e, g)
    BY <1>2, <2>1 DEF TellsTwo, Twins
  <2>4. Alike(x, y, u, v)
    BY <1>1, <2>1, <2>2, <2>3 DEF Alike
  <2> QED BY <2>4 DEF u, v
<1>7. ASSUME NEW r, Kind(r) = "none", w.q.upgrade = FALSE
      PROVE  Alike(x, y, Go(w, r), Go(t, r))
  <2> DEFINE u == Go(w, r)
             v == Go(t, r)
  <2>1. u.q = v.q /\ u.q.state = r /\ u.q.http_errno = "HPE_OK" /\ u.q.upgrade = FALSE
        /\ u.i = x.i /\ u.data = x.data /\ u.mark = x.mark /\ u.run = x.run
        /\ u.out = Append(x.out, e)
        /\ v.i = y.i /\ v.data = y.data /\ v.mark = y.mark /\ v.run = y.run
        /\ v.out = Append(y.out, e)
    BY <1>7 DEF Told, Go, Places, Fields
  <2> HIDE DEF u, v
  <2>2. Goes(x, u) /\ Goes(y, v)
    BY <2>1 DEF Goes, Twins, At
  <2>3. Tells(x, u, e) /\ Tells(y, v, e)
    BY <1>7, <2>1 DEF Tells, Twins
  <2>4. Alike(x, y, u, v)
    BY <2>1, <2>2, <2>3 DEF Alike
  <2> QED BY <2>4 DEF u, v
<1> DEFINE R(z) ==
        CASE w.q.upgrade -> h(z)
          [] ~w.q.upgrade /\ "F_CHUNKED" \in w.q.flags -> Go(z, "s_chunk_size_start")
          [] ~w.q.upgrade /\ "F_CHUNKED" \notin w.q.flags ->
                (CASE w.q.content_length = 0 -> MessageComplete(z)
                  [] w.q.content_length \notin {0, ULLONG_MAX} -> Go(z, "s_body_identity")
                  [] w.q.content_length = ULLONG_MAX ->
                        IF w.q.type = "HTTP_REQUEST" \/ ~http_message_needs_eof(w.q)
                        THEN MessageComplete(z) ELSE Go(z, "s_body_identity_eof"))
<1>8. \A z : z.q = w.q => BodyBegins(z) = R(z)
  BY DEF BodyBegins, h
<1>9. BodyBegins(w) = R(w) /\ BodyBegins(t) = R(t)
  BY <1>8
<1>10. Alike(x, y, R(w), R(t))
  <2>1. ULLONG_MAX # 0
    BY ParserAssumption
  <2>2. CASE w.q.upgrade = TRUE
    BY <1>6, <2>2
  <2>3. CASE w.q.upgrade = FALSE
    BY <1>5, <1>7, HeaderKinds, <2>1, <2>3
  <2> QED BY <2>2, <2>3
<1> QED BY <1>9, <1>10

LEMMA HeadersAlike ==
    ASSUME NEW x, NEW y, NEW ch, Twins(x, y), Kind(x.q.state) = "none"
    PROVE  Alike(x, y, HeadersAlmostDone(x, ch), HeadersAlmostDone(y, ch))
<1> DEFINE up == "F_UPGRADE" \in x.q.flags \/ x.q.method = {CONNECT}
           e == <<"headers_complete", <<>>>>
           a(z) == [z EXCEPT !.q.state = "s_headers_done", !.q.upgrade = up]
           b(z) == CALLBACK_NOTIFY(a(z), "headers_complete")
           c(z) == [b(z) EXCEPT !.q.nread = 0]
<1>1. e \in Events
  BY EventParts DEF Callbacks
<1>2. up \in BOOLEAN
  OBVIOUS
<1> HIDE DEF up, e
<1>3. ASSUME NEW z, At(z), z.q = x.q
      PROVE  /\ Told(z, c(z), e) /\ Fields(c(z).q) /\ c(z).q.http_errno = "HPE_OK"
             /\ c(z).q.upgrade = up
             /\ c(z).q = [x.q EXCEPT !.state = "s_headers_done", !.upgrade = up, !.nread = 0]
  BY <1>3 DEF Told, CALLBACK_NOTIFY, At, Places, Fields, e
<1>4. /\ Told(x, c(x), e) /\ Told(y, c(y), e) /\ c(x).q = c(y).q
      /\ Fields(c(x).q) /\ c(x).q.http_errno = "HPE_OK" /\ c(x).q.upgrade \in BOOLEAN
  <2> HIDE DEF c
  <2> QED BY <1>2, <1>3 DEF Twins
<1>5. \A z : z.q = x.q =>
         HeadersAlmostDone(z, ch)
           = Check(z, ch = LF, IF "F_TRAILING" \in x.q.flags THEN MessageComplete(z)
                               ELSE BodyBegins(c(z)))
  BY DEF HeadersAlmostDone, HeadersDone, up
<1> HIDE DEF c
<1>6. Alike(x, y, BodyBegins(c(x)), BodyBegins(c(y)))
  BY <1>1, <1>4, BodyBeginsAlike
<1>7. Alike(x, y, MessageComplete(x), MessageComplete(y))
  BY MessageAlike
<1>8. Alike(x, y, Error(x, "HPE_STRICT"), Error(y, "HPE_STRICT"))
  BY StillSelf, ErrorAlike DEF Twins, At
<1>9. /\ HeadersAlmostDone(x, ch)
           = Check(x, ch = LF, IF "F_TRAILING" \in x.q.flags THEN MessageComplete(x)
                               ELSE BodyBegins(c(x)))
      /\ HeadersAlmostDone(y, ch)
           = Check(y, ch = LF, IF "F_TRAILING" \in x.q.flags THEN MessageComplete(y)
                               ELSE BodyBegins(c(y)))
  BY <1>5 DEF Twins
<1> QED BY <1>6, <1>7, <1>8, <1>9 DEF Check

LEMMA FieldStartAlike ==
    ASSUME NEW x, NEW y, NEW ch, Twins(x, y), Kind(x.q.state) = "none"
    PROVE  Alike(x, y, HeaderFieldStart(x, ch), HeaderFieldStart(y, ch))
<1> DEFINE f == "header_field"
           s == "s_headers_almost_done"
           w == Matching(FieldWords, 1, ch)
           m(z) == [MARK(z, f) EXCEPT !.q.state = "s_header_field", !.q.index = 1,
                                      !.q.hit = <<>>, !.q.header_state = w]
<1>1. /\ Quiet(x, Go(x, s)) /\ Quiet(y, Go(y, s)) /\ Go(x, s).q.state = s
      /\ Go(x, s).q = [x.q EXCEPT !.state = s] /\ Go(y, s).q = Go(x, s).q
  BY GoQuiet DEF Twins
<1>2. Kind(s) = "none" /\ f \in DataKinds /\ Kind("s_header_field") = f
  BY HeaderKinds
<1>3. Alike(x, y, Go(x, s), Go(y, s))
  BY <1>2, GoAlike
<1>4. Fields(Go(x, s).q)
  BY <1>1 DEF Fields, Twins, At
<1>5. Twins(Go(x, s), Go(y, s))
  BY <1>1, <1>2, <1>4 DEF Quiet, Still, Twins, At
<1>6. Alike(x, y, HeadersAlmostDone(Go(x, s), ch), HeadersAlmostDone(Go(y, s), ch))
  <2>1. Alike(Go(x, s), Go(y, s), HeadersAlmostDone(Go(x, s), ch), HeadersAlmostDone(Go(y, s), ch))
    BY <1>1, <1>2, <1>5, HeadersAlike
  <2> QED BY <1>1, <1>2, <2>1, ChainAlike DEF Twins
<1>7. Alike(x, y, m(x), m(y))
  <2> HIDE DEF w
  <2>1. /\ Still(x, MARK(x, f)) /\ MARK(x, f).q = x.q /\ MARK(x, f).mark = [x.mark EXCEPT ![f] = x.i]
        /\ Still(y, MARK(y, f)) /\ MARK(y, f).q = y.q /\ MARK(y, f).mark = [y.mark EXCEPT ![f] = y.i]
    BY <1>2, MarkFacts DEF Twins
  <2>2. /\ Marked(x, m(x), f) /\ Marked(y, m(y), f) /\ m(x).q = m(y).q
        /\ m(x).q.state = "s_header_field"
    BY <2>1 DEF Marked, Still, Twins, At, Places, Fields
  <2> HIDE DEF m
  <2> QED BY <1>2, <2>2, BeginAlike
<1>8. Alike(x, y, Error(x, "HPE_INVALID_HEADER_TOKEN"), Error(y, "HPE_INVALID_HEADER_TOKEN"))
  BY StillSelf, ErrorAlike DEF Twins, At
<1>9. \A z : HeaderFieldStart(z, ch) =
         CASE ch = CR -> Go(z, s)
           [] ch = LF -> HeadersAlmostDone(Go(z, s), ch)
           [] TOKEN(ch) -> m(z)
           [] OTHER -> Error(z, "HPE_INVALID_HEADER_TOKEN")
  BY DEF HeaderFieldStart
<1> HIDE DEF m
<1>10. CR # LF /\ ~TOKEN(CR) /\ ~TOKEN(LF)
  BY DEF CR, LF, TOKEN
<1> QED BY <1>3, <1>6, <1>7, <1>8, <1>9, <1>10

LEMMA LwsAlike ==
    ASSUME NEW x, NEW y, NEW ch, Twins(x, y), x.q.state = "s_header_value_lws"
    PROVE  Alike(x, y, HeaderValueLws(x, ch), HeaderValueLws(y, ch))
<1> DEFINE s == "s_header_field_start"
<1>1. /\ Quiet(x, Go(x, s)) /\ Quiet(y, Go(y, s)) /\ Go(x, s).q.state = s
      /\ Go(x, s).q = [x.q EXCEPT !.state = s] /\ Go(y, s).q = Go(x, s).q
  BY GoQuiet DEF Twins
<1>2. Kind(s) = "none" /\ Kind(x.q.state) = "none" /\ Kind("s_header_value_start") = "none"
  BY HeaderKinds
<1>3. Fields(Go(x, s).q)
  BY <1>1 DEF Fields, Twins, At
<1>4. Twins(Go(x, s), Go(y, s))
  BY <1>1, <1>2, <1>3 DEF Quiet, Still, Twins, At
<1>5. Alike(Go(x, s), Go(y, s), HeaderFieldStart(Go(x, s), ch), HeaderFieldStart(Go(y, s), ch))
  BY <1>1, <1>2, <1>4, FieldStartAlike
<1>6. Alike(x, y, HeaderFieldStart(Go(x, s), ch), HeaderFieldStart(Go(y, s), ch))
  BY <1>1, <1>2, <1>5, ChainAlike DEF Twins
<1>7. Alike(x, y, Go(x, "s_header_value_start"), Go(y, "s_header_value_start"))
  BY <1>2, GoAlike
<1> QED BY <1>6, <1>7 DEF HeaderValueLws

(* Chunks, and what comes before a message *)
LEMMA ChunkAlike ==
    ASSUME NEW x, NEW y, NEW ch, Twins(x, y), Kind(x.q.state) = "none"
    PROVE  /\ Alike(x, y, ResLineAlmostDone(x, ch), ResLineAlmostDone(y, ch))
           /\ Alike(x, y, ChunkSizeStart(x, ch), ChunkSizeStart(y, ch))
           /\ Alike(x, y, ChunkSize(x, ch), ChunkSize(y, ch))
           /\ Alike(x, y, ChunkSizeAlmostDone(x, ch), ChunkSizeAlmostDone(y, ch))
           /\ Alike(x, y, ChunkDataDone(x, ch), ChunkDataDone(y, ch))
           /\ Alike(x, y, Error(x, "HPE_CLOSED_CONNECTION"), Error(y, "HPE_CLOSED_CONNECTION"))
           /\ Alike(x, y, x, y)
<1>1. ASSUME NEW e, e # "HPE_OK" PROVE Alike(x, y, Error(x, e), Error(y, e))
  BY <1>1, StillSelf, ErrorAlike DEF Twins, At
<1>2. ASSUME NEW t, Kind(t) = "none" PROVE Alike(x, y, Go(x, t), Go(y, t))
  BY <1>2, GoAlike
<1>3. Alike(x, y, x, y)
  BY SelfAlike
<1>4. ASSUME NEW u, NEW v, Quiet(x, u), Quiet(y, v), u.q = v.q, Kind(u.q.state) = "none"
      PROVE  Alike(x, y, u, v)
  BY <1>4, QuietAlike
<1>5. Alike(x, y, ResLineAlmostDone(x, ch), ResLineAlmostDone(y, ch))
  <2> DEFINE s == "s_header_field_start"
  <2>1. Quiet(x, Go(x, s)) /\ Quiet(y, Go(y, s)) /\ Go(x, s).q.state = s
    BY GoQuiet DEF Twins
  <2>2. Go(x, s).q = Go(y, s).q
    BY DEF Go, Twins, At, Places
  <2>3. "status_complete" \in Callbacks
    BY DEF Callbacks
  <2>4. Alike(x, y, CALLBACK_NOTIFY(Go(x, s), "status_complete"),
                    CALLBACK_NOTIFY(Go(y, s), "status_complete"))
    BY <2>1, <2>2, <2>3, HeaderKinds, TellAlike
  <2> QED BY <1>1, <2>4 DEF ResLineAlmostDone, Check
<1>6. Alike(x, y, ChunkSizeStart(x, ch), ChunkSizeStart(y, ch))
  <2> DEFINE u(z) == [z EXCEPT !.q.content_length = Unhex(ch), !.q.state = "s_chunk_size"]
  <2>1. Quiet(x, u(x)) /\ Quiet(y, u(y)) /\ u(x).q = u(y).q /\ u(x).q.state = "s_chunk_size"
    BY DEF Quiet, Still, Twins, At, Places, Fields
  <2>2. \A z : z.q = x.q =>
           ChunkSizeStart(z, ch)
             = Asserted(z, x.q.nread = 1 /\ "F_CHUNKED" \in x.q.flags,
                        IF IS_HEX(ch) THEN u(z) ELSE Error(z, "HPE_INVALID_CHUNK_SIZE"))
    BY DEF ChunkSizeStart
  <2> HIDE DEF u
  <2>3. Alike(x, y, u(x), u(y))
    BY <1>4, <2>1, HeaderKinds
  <2>4. /\ ChunkSizeStart(x, ch)
             = Asserted(x, x.q.nread = 1 /\ "F_CHUNKED" \in x.q.flags,
                        IF IS_HEX(ch) THEN u(x) ELSE Error(x, "HPE_INVALID_CHUNK_SIZE"))
        /\ ChunkSizeStart(y, ch)
             = Asserted(y, x.q.nread = 1 /\ "F_CHUNKED" \in x.q.flags,
                        IF IS_HEX(ch) THEN u(y) ELSE Error(y, "HPE_INVALID_CHUNK_SIZE"))
    BY <2>2 DEF Twins
  <2> QED BY <1>1, <2>3, <2>4 DEF Asserted
<1>7. Alike(x, y, ChunkSize(x, ch), ChunkSize(y, ch))
  <2>1. Alike(x, y, AppendDigit(x, 16, Unhex(ch)), AppendDigit(y, 16, Unhex(ch)))
    BY AppendDigitAlike
  <2>2. ~IS_HEX(CR) /\ ~IS_HEX(SP) /\ ~IS_HEX(";") /\ CR \notin {";", SP}
    BY DEF IS_HEX, HexNumerals, CR, SP
  <2> HIDE DEF IS_HEX
  <2> DEFINE R(z) == CASE ch = CR -> Go(z, "s_chunk_size_almost_done")
                       [] ch \in {";", SP} -> Go(z, "s_chunk_parameters")
                       [] IS_HEX(ch) -> AppendDigit(z, 16, Unhex(ch))
                       [] OTHER -> Error(z, "HPE_INVALID_CHUNK_SIZE")
  <2>3. ChunkSize(x, ch) = R(x) /\ ChunkSize(y, ch) = R(y)
    BY DEF ChunkSize
  <2>4. Alike(x, y, Go(x, "s_chunk_size_almost_done"), Go(y, "s_chunk_size_almost_done"))
        /\ Alike(x, y, Go(x, "s_chunk_parameters"), Go(y, "s_chunk_parameters"))
        /\ Alike(x, y, Error(x, "HPE_INVALID_CHUNK_SIZE"), Error(y, "HPE_INVALID_CHUNK_SIZE"))
    BY <1>1, <1>2, HeaderKinds
  <2>5. Alike(x, y, R(x), R(y))
    BY <2>1, <2>2, <2>4
  <2> QED BY <2>3, <2>5
<1>8. Alike(x, y, ChunkSizeAlmostDone(x, ch), ChunkSizeAlmostDone(y, ch))
  <2> DEFINE a(z) == [z EXCEPT !.q.nread = 0, !.q.flags = @ \cup {"F_TRAILING"},
                               !.q.state = "s_header_field_start"]
             b(z) == [z EXCEPT !.q.nread = 0, !.q.state = "s_chunk_data"]
  <2>1. Quiet(x, a(x)) /\ Quiet(y, a(y)) /\ a(x).q = a(y).q
        /\ a(x).q.state = "s_header_field_start"
    BY DEF Quiet, Still, Twins, At, Places, Fields
  <2>2. Quiet(x, b(x)) /\ Quiet(y, b(y)) /\ b(x).q = b(y).q
        /\ b(x).q.state = "s_chunk_data"
    BY DEF Quiet, Still, Twins, At, Places, Fields
  <2>3. ASSUME NEW z, At(z), z.q = x.q
        PROVE  ChunkSizeAlmostDone(z, ch)
                 = Check(z, ch = LF, IF x.q.content_length = 0 THEN a(z) ELSE b(z))
    BY <2>3 DEF ChunkSizeAlmostDone, Go, At, Places, Fields
  <2> HIDE DEF a, b
  <2>4. Alike(x, y, a(x), a(y)) /\ Alike(x, y, b(x), b(y))
    BY <1>4, <2>1, <2>2, HeaderKinds
  <2>5. /\ ChunkSizeAlmostDone(x, ch)
             = Check(x, ch = LF, IF x.q.content_length = 0 THEN a(x) ELSE b(x))
        /\ ChunkSizeAlmostDone(y, ch)
             = Check(y, ch = LF, IF x.q.content_length = 0 THEN a(y) ELSE b(y))
    BY <2>3 DEF Twins
  <2> QED BY <1>1, <2>4, <2>5 DEF Check
<1>9. Alike(x, y, ChunkDataDone(x, ch), ChunkDataDone(y, ch))
  <2> DEFINE u(z) == [z EXCEPT !.q.nread = 0, !.q.state = "s_chunk_size_start"]
  <2>1. Quiet(x, u(x)) /\ Quiet(y, u(y)) /\ u(x).q = u(y).q
        /\ u(x).q.state = "s_chunk_size_start"
    BY DEF Quiet, Still, Twins, At, Places, Fields
  <2>2. \A z : ChunkDataDone(z, ch) = Check(z, ch = LF, u(z))
    BY DEF ChunkDataDone
  <2> HIDE DEF u
  <2>3. Alike(x, y, u(x), u(y))
    BY <1>4, <2>1, HeaderKinds
  <2> QED BY <1>1, <2>2, <2>3 DEF Check
<1> QED BY <1>1, <1>3, <1>5, <1>6, <1>7, <1>8, <1>9

LEMMA DataDoneAlike ==
    ASSUME NEW x, NEW y, NEW ch, Twins(x, y), x.q.state = "s_chunk_data_almost_done"
    PROVE  Alike(x, y, ChunkDataAlmostDone(x, ch), ChunkDataAlmostDone(y, ch))
<1> DEFINE s == "s_chunk_data_done"
<1>1. Quiet(x, Go(x, s)) /\ Quiet(y, Go(y, s)) /\ Go(x, s).q.state = s
  BY GoQuiet DEF Twins
<1>2. Go(x, s).q = Go(y, s).q
  BY DEF Go, Twins, At, Places
<1>3. Alike(x, y, CALLBACK_DATA(Go(x, s), "body", x.i - 1), CALLBACK_DATA(Go(y, s), "body", y.i - 1))
  BY <1>1, <1>2, HeaderKinds, CloseAlike
<1>4. ASSUME NEW e, e # "HPE_OK" PROVE Alike(x, y, Error(x, e), Error(y, e))
  BY <1>4, StillSelf, ErrorAlike DEF Twins, At
<1> QED BY <1>3, <1>4 DEF ChunkDataAlmostDone, Asserted, Check, Twins

(* The states outside of data, and those whose units are looked at one by one *)
Outside == {
    "s_start_req_or_res", "s_res_or_resp_H", "s_start_res", "s_res_H",
    "s_res_first_http_major", "s_res_http_major", "s_res_first_http_minor",
    "s_res_http_minor", "s_res_first_status_code", "s_res_status_code",
    "s_res_status", "s_res_line_almost_done", "s_start_req", "s_req_method",
    "s_req_http_start", "s_req_http_H", "s_req_first_http_major",
    "s_req_http_major", "s_req_first_http_minor", "s_req_http_minor",
    "s_req_line_almost_done", "s_header_field_start", "s_header_almost_done",
    "s_headers_almost_done", "s_chunk_size_start", "s_chunk_size",
    "s_chunk_parameters", "s_chunk_size_almost_done", "s_chunk_data_done",
    "s_dead"}
Unitwise == Outside \cup Urls \cup {
    "s_req_spaces_before_url", "s_header_field", "s_header_value_start",
    "s_header_value", "s_header_value_lws", "s_chunk_data_almost_done"}

LEMMA DispatchAlike ==
    ASSUME NEW x, NEW y, Twins(x, y), x.data[x.i] = y.data[y.i],
           x.q.state \in Unitwise, x.i # 0, y.i # 0
    PROVE  Alike(x, y, Dispatch(x), Dispatch(y))
<1> DEFINE s == x.q.state
           ch == x.data[x.i]
<1>1. y.q.state = s /\ y.data[y.i] = ch
  BY DEF Twins
<1> HIDE DEF s, ch
<1>2. \A t \in Outside : Kind(t) = "none"
  BY DEF Outside, Kind, UrlStart, UrlInside
<1>3. "http_major" \in Digits /\ "http_minor" \in Digits
  BY DEF Digits
<1>4. CASE s = "s_start_req_or_res"
  <2>1. Dispatch(x) = StartReqOrRes(x, ch)
    BY <1>4 DEF Dispatch, s, ch, UrlStart, UrlInside
  <2>2. Dispatch(y) = StartReqOrRes(y, ch)
    BY <1>1, <1>4 DEF Dispatch, UrlStart, UrlInside
  <2>3. Kind("s_start_req_or_res") = "none"
    BY <1>2 DEF Outside
  <2> QED BY <1>4, <2>1, <2>2, <2>3, StartAlike DEF s
<1>5. CASE s = "s_res_or_resp_H"
  <2>1. Dispatch(x) = ResOrRespH(x, ch)
    BY <1>5 DEF Dispatch, s, ch, UrlStart, UrlInside
  <2>2. Dispatch(y) = ResOrRespH(y, ch)
    BY <1>1, <1>5 DEF Dispatch, UrlStart, UrlInside
  <2>3. Kind("s_res_or_resp_H") = "none"
    BY <1>2 DEF Outside
  <2> QED BY <1>5, <2>1, <2>2, <2>3, ConstantAlike DEF s
<1>6. CASE s = "s_start_res"
  <2>1. Dispatch(x) = StartRes(x, ch)
    BY <1>6 DEF Dispatch, s, ch, UrlStart, UrlInside
  <2>2. Dispatch(y) = StartRes(y, ch)
    BY <1>1, <1>6 DEF Dispatch, UrlStart, UrlInside
  <2>3. Kind("s_start_res") = "none"
    BY <1>2 DEF Outside
  <2> QED BY <1>6, <2>1, <2>2, <2>3, StartAlike DEF s
<1>7. CASE s = "s_res_H"
  <2>1. Dispatch(x) = Check(x, ch = "TTP/", Go(x, "s_res_first_http_major"))
    BY <1>7 DEF Dispatch, s, ch, UrlStart, UrlInside
  <2>2. Dispatch(y) = Check(y, ch = "TTP/", Go(y, "s_res_first_http_major"))
    BY <1>1, <1>7 DEF Dispatch, UrlStart, UrlInside
  <2>3. Kind("s_res_H") = "none" /\ Kind("s_res_first_http_major") = "none"
    BY <1>2 DEF Outside
  <2>4. Alike(x, y, Check(x, ch = "TTP/", Go(x, "s_res_first_http_major")),
                  Check(y, ch = "TTP/", Go(y, "s_res_first_http_major")))
    BY <1>7, <2>3, ConstantAlike DEF s
  <2> QED BY <2>1, <2>2, <2>4
<1>8. CASE s = "s_res_first_http_major"
  <2>1. Dispatch(x) = FirstDigit(x, ch, "http_major", "s_res_http_major")
    BY <1>8 DEF Dispatch, s, ch, UrlStart, UrlInside
  <2>2. Dispatch(y) = FirstDigit(y, ch, "http_major", "s_res_http_major")
    BY <1>1, <1>8 DEF Dispatch, UrlStart, UrlInside
  <2>3. Kind("s_res_first_http_major") = "none" /\ Kind("s_res_http_major") = "none"
    BY <1>2 DEF Outside
  <2> QED BY <1>3, <1>8, <2>1, <2>2, <2>3, DigitAlike DEF s
<1>9. CASE s = "s_res_http_major"
  <2>1. Dispatch(x) = Major(x, ch, "s_res_first_http_minor")
    BY <1>9 DEF Dispatch, s, ch, UrlStart, UrlInside
  <2>2. Dispatch(y) = Major(y, ch, "s_res_first_http_minor")
    BY <1>1, <1>9 DEF Dispatch, UrlStart, UrlInside
  <2>3. Kind("s_res_http_major") = "none" /\ Kind("s_res_first_http_minor") = "none"
    BY <1>2 DEF Outside
  <2> QED BY <1>9, <2>1, <2>2, <2>3, VersionAlike DEF s
<1>10. CASE s = "s_res_first_http_minor"
  <2>1. Dispatch(x) = FirstDigit(x, ch, "http_minor", "s_res_http_minor")
    BY <1>10 DEF Dispatch, s, ch, UrlStart, UrlInside
  <2>2. Dispatch(y) = FirstDigit(y, ch, "http_minor", "s_res_http_minor")
    BY <1>1, <1>10 DEF Dispatch, UrlStart, UrlInside
  <2>3. Kind("s_res_first_http_minor") = "none" /\ Kind("s_res_http_minor") = "none"
    BY <1>2 DEF Outside
  <2> QED BY <1>3, <1>10, <2>1, <2>2, <2>3, DigitAlike DEF s
<1>11. CASE s = "s_res_http_minor"
  <2>1. Dispatch(x) = ResMinor(x, ch)
    BY <1>11 DEF Dispatch, s, ch, UrlStart, UrlInside
  <2>2. Dispatch(y) = ResMinor(y, ch)
    BY <1>1, <1>11 DEF Dispatch, UrlStart, UrlInside
  <2>3. Kind("s_res_http_minor") = "none"
    BY <1>2 DEF Outside
  <2> QED BY <1>11, <2>1, <2>2, <2>3, VersionAlike DEF s
<1>12. CASE s = "s_res_first_status_code"
  <2>1. Dispatch(x) = FirstStatusCode(x, ch)
    BY <1>12 DEF Dispatch, s, ch, UrlStart, UrlInside
  <2>2. Dispatch(y) = FirstStatusCode(y, ch)
    BY <1>1, <1>12 DEF Dispatch, UrlStart, UrlInside
  <2>3. Kind("s_res_first_status_code") = "none"
    BY <1>2 DEF Outside
  <2> QED BY <1>12, <2>1, <2>2, <2>3, VersionAlike DEF s
<1>13. CASE s = "s_res_status_code"
  <2>1. Dispatch(x) = StatusCode(x, ch)
    BY <1>13 DEF Dispatch, s, ch, UrlStart, UrlInside
  <2>2. Dispatch(y) = StatusCode(y, ch)
    BY <1>1, <1>13 DEF Dispatch, UrlStart, UrlInside
  <2>3. Kind("s_res_status_code") = "none"
    BY <1>2 DEF Outside
  <2> QED BY <1>13, <2>1, <2>2, <2>3, VersionAlike DEF s
<1>14. CASE s = "s_res_status"
  <2>1. Dispatch(x) = Status(x, ch)
    BY <1>14 DEF Dispatch, s, ch, UrlStart, UrlInside
  <2>2. Dispatch(y) = Status(y, ch)
    BY <1>1, <1>14 DEF Dispatch, UrlStart, UrlInside
  <2>3. Kind("s_res_status") = "none"
    BY <1>2 DEF Outside
  <2> QED BY <1>14, <2>1, <2>2, <2>3, VersionAlike DEF s
<1>15. CASE s = "s_res_line_almost_done"
  <2>1. Dispatch(x) = ResLineAlmostDone(x, ch)
    BY <1>15 DEF Dispatch, s, ch, UrlStart, UrlInside
  <2>2. Dispatch(y) = ResLineAlmostDone(y, ch)
    BY <1>1, <1>15 DEF Dispatch, UrlStart, UrlInside
  <2>3. Kind("s_res_line_almost_done") = "none"
    BY <1>2 DEF Outside
  <2> QED BY <1>15, <2>1, <2>2, <2>3, ChunkAlike DEF s
<1>16. CASE s = "s_start_req"
  <2>1. Dispatch(x) = StartReq(x, ch)
    BY <1>16 DEF Dispatch, s, ch, UrlStart, UrlInside
  <2>2. Dispatch(y) = StartReq(y, ch)
    BY <1>1, <1>16 DEF Dispatch, UrlStart, UrlInside
  <2>3. Kind("s_start_req") = "none"
    BY <1>2 DEF Outside
  <2> QED BY <1>16, <2>1, <2>2, <2>3, StartReqAlike DEF s
<1>17. CASE s = "s_req_method"
  <2>1. Dispatch(x) = ReqMethod(x, ch)
    BY <1>17 DEF Dispatch, s, ch, UrlStart, UrlInside
  <2>2. Dispatch(y) = ReqMethod(y, ch)
    BY <1>1, <1>17 DEF Dispatch, UrlStart, UrlInside
  <2>3. Kind("s_req_method") = "none"
    BY <1>2 DEF Outside
  <2> QED BY <1>17, <2>1, <2>2, <2>3, ConstantAlike DEF s
<1>18. CASE s = "s_req_http_start"
  <2>1. Dispatch(x) = ReqHttpStart(x, ch)
    BY <1>18 DEF Dispatch, s, ch, UrlStart, UrlInside
  <2>2. Dispatch(y) = ReqHttpStart(y, ch)
    BY <1>1, <1>18 DEF Dispatch, UrlStart, UrlInside
  <2>3. Kind("s_req_http_start") = "none"
    BY <1>2 DEF Outside
  <2> QED BY <1>18, <2>1, <2>2, <2>3, ConstantAlike DEF s
<1>19. CASE s = "s_req_http_H"
  <2>1. Dispatch(x) = Check(x, ch = "TTP/", Go(x, "s_req_first_http_major"))
    BY <1>19 DEF Dispatch, s, ch, UrlStart, UrlInside
  <2>2. Dispatch(y) = Check(y, ch = "TTP/", Go(y, "s_req_first_http_major"))
    BY <1>1, <1>19 DEF Dispatch, UrlStart, UrlInside
  <2>3. Kind("s_req_http_H") = "none" /\ Kind("s_req_first_http_major") = "none"
    BY <1>2 DEF Outside
  <2>4. Alike(x, y, Check(x, ch = "TTP/", Go(x, "s_req_first_http_major")),
                  Check(y, ch = "TTP/", Go(y, "s_req_first_http_major")))
    BY <1>19, <2>3, ConstantAlike DEF s
  <2> QED BY <2>1, <2>2, <2>4
<1>20. CASE s = "s_req_first_http_major"
  <2>1. Dispatch(x) = ReqFirstMajor(x, ch)
    BY <1>20 DEF Dispatch, s, ch, UrlStart, UrlInside
  <2>2. Dispatch(y) = ReqFirstMajor(y, ch)
    BY <1>1, <1>20 DEF Dispatch, UrlStart, UrlInside
  <2>3. Kind("s_req_first_http_major") = "none"
    BY <1>2 DEF Outside
  <2> QED BY <1>20, <2>1, <2>2, <2>3, VersionAlike DEF s
<1>21. CASE s = "s_req_http_major"
  <2>1. Dispatch(x) = Major(x, ch, "s_req_first_http_minor")
    BY <1>21 DEF Dispatch, s, ch, UrlStart, UrlInside
  <2>2. Dispatch(y) = Major(y, ch, "s_req_first_http_minor")
    BY <1>1, <1>21 DEF Dispatch, UrlStart, UrlInside
  <2>3. Kind("s_req_http_major") = "none" /\ Kind("s_req_first_http_minor") = "none"
    BY <1>2 DEF Outside
  <2> QED BY <1>21, <2>1, <2>2, <2>3, VersionAlike DEF s
<1>22. CASE s = "s_req_first_http_minor"
  <2>1. Dispatch(x) = FirstDigit(x, ch, "http_minor", "s_req_http_minor")
    BY <1>22 DEF Dispatch, s, ch, UrlStart, UrlInside
  <2>2. Dispatch(y) = FirstDigit(y, ch, "http_minor", "s_req_http_minor")
    BY <1>1, <1>22 DEF Dispatch, UrlStart, UrlInside
  <2>3. Kind("s_req_first_http_minor") = "none" /\ Kind("s_req_http_minor") = "none"
    BY <1>2 DEF Outside
  <2> QED BY <1>3, <1>22, <2>1, <2>2, <2>3, DigitAlike DEF s
<1>23. CASE s = "s_req_http_minor"
  <2>1. Dispatch(x) = ReqMinor(x, ch)
    BY <1>23 DEF Dispatch, s, ch, UrlStart, UrlInside
  <2>2. Dispatch(y) = ReqMinor(y, ch)
    BY <1>1, <1>23 DEF Dispatch, UrlStart, UrlInside
  <2>3. Kind("s_req_http_minor") = "none"
    BY <1>2 DEF Outside
  <2> QED BY <1>23, <2>1, <2>2, <2>3, VersionAlike DEF s
<1>24. CASE s = "s_req_line_almost_done"
  <2>1. Dispatch(x) = ReqLineAlmostDone(x, ch)
    BY <1>24 DEF Dispatch, s, ch, UrlStart, UrlInside
  <2>2. Dispatch(y) = ReqLineAlmostDone(y, ch)
    BY <1>1, <1>24 DEF Dispatch, UrlStart, UrlInside
  <2>3. Kind("s_req_line_almost_done") = "none"
    BY <1>2 DEF Outside
  <2> QED BY <1>24, <2>1, <2>2, <2>3, ConstantAlike DEF s
<1>25. CASE s = "s_header_field_start"
  <2>1. Dispatch(x) = HeaderFieldStart(x, ch)
    BY <1>25 DEF Dispatch, s, ch, UrlStart, UrlInside
  <2>2. Dispatch(y) = HeaderFieldStart(y, ch)
    BY <1>1, <1>25 DEF Dispatch, UrlStart, UrlInside
  <2>3. Kind("s_header_field_start") = "none"
    BY <1>2 DEF Outside
  <2> QED BY <1>25, <2>1, <2>2, <2>3, FieldStartAlike DEF s
<1>26. CASE s = "s_header_almost_done"
  <2>1. Dispatch(x) = HeaderAlmostDone(x, ch)
    BY <1>26 DEF Dispatch, s, ch, UrlStart, UrlInside
  <2>2. Dispatch(y) = HeaderAlmostDone(y, ch)
    BY <1>1, <1>26 DEF Dispatch, UrlStart, UrlInside
  <2>3. Kind("s_header_almost_done") = "none"
    BY <1>2 DEF Outside
  <2> QED BY <1>26, <2>1, <2>2, <2>3, ConstantAlike DEF s
<1>27. CASE s = "s_headers_almost_done"
  <2>1. Dispatch(x) = HeadersAlmostDone(x, ch)
    BY <1>27 DEF Dispatch, s, ch, UrlStart, UrlInside
  <2>2. Dispatch(y) = HeadersAlmostDone(y, ch)
    BY <1>1, <1>27 DEF Dispatch, UrlStart, UrlInside
  <2>3. Kind("s_headers_almost_done") = "none"
    BY <1>2 DEF Outside
  <2> QED BY <1>27, <2>1, <2>2, <2>3, HeadersAlike DEF s
<1>28. CASE s = "s_chunk_size_start"
  <2>1. Dispatch(x) = ChunkSizeStart(x, ch)
    BY <1>28 DEF Dispatch, s, ch, UrlStart, UrlInside
  <2>2. Dispatch(y) = ChunkSizeStart(y, ch)
    BY <1>1, <1>28 DEF Dispatch, UrlStart, UrlInside
  <2>3. Kind("s_chunk_size_start") = "none"
    BY <1>2 DEF Outside
  <2> QED BY <1>28, <2>1, <2>2, <2>3, ChunkAlike DEF s
<1>29. CASE s = "s_chunk_size"
  <2>1. Dispatch(x) = ChunkSize(x, ch)
    BY <1>29 DEF Dispatch, s, ch, UrlStart, UrlInside
  <2>2. Dispatch(y) = ChunkSize(y, ch)
    BY <1>1, <1>29 DEF Dispatch, UrlStart, UrlInside
  <2>3. Kind("s_chunk_size") = "none"
    BY <1>2 DEF Outside
  <2> QED BY <1>29, <2>1, <2>2, <2>3, ChunkAlike DEF s
<1>30. CASE s = "s_chunk_parameters"
  <2>1. Dispatch(x) = ChunkParameters(x, ch)
    BY <1>30 DEF Dispatch, s, ch, UrlStart, UrlInside
  <2>2. Dispatch(y) = ChunkParameters(y, ch)
    BY <1>1, <1>30 DEF Dispatch, UrlStart, UrlInside
  <2>3. Kind("s_chunk_parameters") = "none"
    BY <1>2 DEF Outside
  <2> QED BY <1>30, <2>1, <2>2, <2>3, ConstantAlike DEF s
<1>31. CASE s = "s_chunk_size_almost_done"
  <2>1. Dispatch(x) = ChunkSizeAlmostDone(x, ch)
    BY <1>31 DEF Dispatch, s, ch, UrlStart, UrlInside
  <2>2. Dispatch(y) = ChunkSizeAlmostDone(y, ch)
    BY <1>1, <1>31 DEF Dispatch, UrlStart, UrlInside
  <2>3. Kind("s_chunk_size_almost_done") = "none"
    BY <1>2 DEF Outside
  <2> QED BY <1>31, <2>1, <2>2, <2>3, ChunkAlike DEF s
<1>32. CASE s = "s_chunk_data_done"
  <2>1. Dispatch(x) = ChunkDataDone(x, ch)
    BY <1>32 DEF Dispatch, s, ch, UrlStart, UrlInside
  <2>2. Dispatch(y) = ChunkDataDone(y, ch)
    BY <1>1, <1>32 DEF Dispatch, UrlStart, UrlInside
  <2>3. Kind("s_chunk_data_done") = "none"
    BY <1>2 DEF Outside
  <2> QED BY <1>32, <2>1, <2>2, <2>3, ChunkAlike DEF s
<1>33. CASE s = "s_req_spaces_before_url"
  <2>1. Dispatch(x) = SpacesBeforeUrl(x, ch)
    BY <1>33 DEF Dispatch, s, ch, UrlStart, UrlInside
  <2>2. Dispatch(y) = SpacesBeforeUrl(y, ch)
    BY <1>1, <1>33 DEF Dispatch, UrlStart, UrlInside
  <2> QED BY <1>33, <2>1, <2>2, SpacesAlike DEF s
<1>34. CASE s = "s_header_field"
  <2>1. Dispatch(x) = HeaderField(x, ch)
    BY <1>34 DEF Dispatch, s, ch, UrlStart, UrlInside
  <2>2. Dispatch(y) = HeaderField(y, ch)
    BY <1>1, <1>34 DEF Dispatch, UrlStart, UrlInside
  <2> QED BY <1>34, <2>1, <2>2, HeaderFieldAlike DEF s
<1>35. CASE s = "s_header_value_start"
  <2>1. Dispatch(x) = HeaderValueStart(x, ch)
    BY <1>35 DEF Dispatch, s, ch, UrlStart, UrlInside
  <2>2. Dispatch(y) = HeaderValueStart(y, ch)
    BY <1>1, <1>35 DEF Dispatch, UrlStart, UrlInside
  <2> QED BY <1>35, <2>1, <2>2, ValueStartAlike DEF s
<1>36. CASE s = "s_header_value"
  <2>1. Dispatch(x) = HeaderValue(x, ch)
    BY <1>36 DEF Dispatch, s, ch, UrlStart, UrlInside
  <2>2. Dispatch(y) = HeaderValue(y, ch)
    BY <1>1, <1>36 DEF Dispatch, UrlStart, UrlInside
  <2> QED BY <1>36, <2>1, <2>2, HeaderValueAlike DEF s
<1>37. CASE s = "s_header_value_lws"
  <2>1. Dispatch(x) = HeaderValueLws(x, ch)
    BY <1>37 DEF Dispatch, s, ch, UrlStart, UrlInside
  <2>2. Dispatch(y) = HeaderValueLws(y, ch)
    BY <1>1, <1>37 DEF Dispatch, UrlStart, UrlInside
  <2> QED BY <1>37, <2>1, <2>2, LwsAlike DEF s
<1>38. CASE s = "s_chunk_data_almost_done"
  <2>1. Dispatch(x) = ChunkDataAlmostDone(x, ch)
    BY <1>38 DEF Dispatch, s, ch, UrlStart, UrlInside
  <2>2. Dispatch(y) = ChunkDataAlmostDone(y, ch)
    BY <1>1, <1>38 DEF Dispatch, UrlStart, UrlInside
  <2> QED BY <1>38, <2>1, <2>2, DataDoneAlike DEF s
<1>39. CASE s \in Urls
  <2>1. Dispatch(x) = InUrl(x, ch)
    BY <1>39 DEF Dispatch, s, ch, Urls, UrlStart, UrlInside
  <2>2. Dispatch(y) = InUrl(y, ch)
    BY <1>1, <1>39 DEF Dispatch, Urls, UrlStart, UrlInside
  <2> QED BY <1>39, <2>1, <2>2, InUrlAlike DEF s
<1>40. CASE s = "s_dead"
  <2> DEFINE R(z) == IF ch \in {CR, LF} THEN z ELSE Error(z, "HPE_CLOSED_CONNECTION")
  <2>1. Dispatch(x) = R(x)
    BY <1>40 DEF Dispatch, s, ch, UrlStart, UrlInside
  <2>2. Dispatch(y) = R(y)
    BY <1>1, <1>40 DEF Dispatch, UrlStart, UrlInside
  <2>3. Kind("s_dead") = "none"
    BY <1>2 DEF Outside
  <2> QED BY <1>40, <2>1, <2>2, <2>3, ChunkAlike DEF s
<1> QED BY <1>4, <1>5, <1>6, <1>7, <1>8, <1>9, <1>10, <1>11, <1>12, <1>13,
           <1>14, <1>15, <1>16, <1>17, <1>18, <1>19, <1>20, <1>21, <1>22,
           <1>23, <1>24, <1>25, <1>26, <1>27, <1>28, <1>29, <1>30, <1>31,
           <1>32, <1>33, <1>34, <1>35, <1>36, <1>37, <1>38, <1>39, <1>40
          DEF s, Unitwise, Outside

LEMMA ByteAlike ==
    ASSUME NEW x, NEW y, Twins(x, y), x.data[x.i] = y.data[y.i],
           x.q.state \in Unitwise, x.i # 0, y.i # 0
    PROVE  Alike(x, y, Byte(x), Byte(y))
<1> DEFINE n == IF x.q.state \in BodyStates THEN x.q.nread ELSE x.q.nread + 1
           a(z) == [z EXCEPT !.q.nread = n]
<1>1. n \in Nat
  BY DEF Twins, At, Fields
<1>2. \A z : z.q = x.q =>
         Byte(z) = IF x.q.state \notin BodyStates /\ a(z).q.nread > HTTP_MAX_HEADER_SIZE
                   THEN Error(a(z), "HPE_HEADER_OVERFLOW") ELSE Dispatch(a(z))
  BY DEF Byte
<1> HIDE DEF n
<1>3. /\ Quiet(x, a(x)) /\ Quiet(y, a(y)) /\ a(x).q = a(y).q
      /\ a(x).q.state = x.q.state /\ a(x).q.nread = n /\ Fields(a(x).q)
  BY <1>1 DEF Quiet, Still, Twins, At, Places, Fields
<1> HIDE DEF a
<1>4. Twins(a(x), a(y))
  BY <1>3 DEF Quiet, Still, Twins, At
<1>5. a(x).data[a(x).i] = a(y).data[a(y).i] /\ a(x).i # 0 /\ a(y).i # 0
  BY <1>3 DEF Quiet, Still
<1>6. Alike(a(x), a(y), Dispatch(a(x)), Dispatch(a(y)))
  BY <1>3, <1>4, <1>5, DispatchAlike
<1>7. Alike(x, y, Dispatch(a(x)), Dispatch(a(y)))
  BY <1>3, <1>6, ChainAlike DEF Twins
<1>8. Alike(x, y, Error(a(x), "HPE_HEADER_OVERFLOW"), Error(a(y), "HPE_HEADER_OVERFLOW"))
  BY <1>3, ErrorAlike DEF Quiet
<1>9. /\ Byte(x) = IF x.q.state \notin BodyStates /\ a(x).q.nread > HTTP_MAX_HEADER_SIZE
                   THEN Error(a(x), "HPE_HEADER_OVERFLOW") ELSE Dispatch(a(x))
      /\ Byte(y) = IF x.q.state \notin BodyStates /\ a(x).q.nread > HTTP_MAX_HEADER_SIZE
                   THEN Error(a(y), "HPE_HEADER_OVERFLOW") ELSE Dispatch(a(y))
  BY <1>2, <1>3 DEF Twins
<1> QED BY <1>7, <1>8, <1>9

-------------------------------------------------------------------------------
(* What two runs have reported.  One call got all of c \o d; two calls got *)
(* c and then d, and s is what the first of them reported.  The one call   *)
(* has reported xo and has data of kind f marked from m on; the second of  *)
(* the two has reported bo and has marked n.  Either what the two have     *)
(* reported is what the one has, or the piece of data was begun in c: the  *)
(* first of the two reported its beginning.                                *)
Own(c, s, xo, bo, f, m, n) ==
    /\ Merge(<<>>, xo) = Merge(s, bo)
    /\ f # "none" => n \in Nat \ {0} /\ m = Len(c) + n
Carried(c, s, xo, bo, f, m, n) ==
    /\ f # "none" /\ bo = <<>> /\ n = 1 /\ m \in 1..Len(c)
    /\ s = Adjoin(Merge(<<>>, xo), <<f, SubSeq(c, m, Len(c))>>)
Agree(c, s, xo, bo, f, m, n) ==
    Own(c, s, xo, bo, f, m, n) \/ Carried(c, s, xo, bo, f, m, n)

LEMMA Pieces ==
    ASSUME NEW c \in Seq(STRING), NEW d \in Seq(STRING), NEW j \in 0..Len(d)
    PROVE  /\ \A n \in Nat \ {0} : SubSeq(c \o d, Len(c) + n, Len(c) + j) = SubSeq(d, n, j)
           /\ \A m \in 1..Len(c) :
                /\ SubSeq(c, m, Len(c)) \in Seq(STRING) /\ SubSeq(d, 1, j) \in Seq(STRING)
                /\ SubSeq(c \o d, m, Len(c) + j) = SubSeq(c, m, Len(c)) \o SubSeq(d, 1, j)
<1>1. /\ c \o d \in Seq(STRING) /\ Len(c \o d) = Len(c) + Len(d)
      /\ \A i \in 1..Len(c) : (c \o d)[i] = c[i]
      /\ \A i \in 1..Len(d) : (c \o d)[Len(c) + i] = d[i]
  BY ConcatProperties
<1> DEFINE e == c \o d
<1> HIDE DEF e
<1>2. ASSUME NEW n \in Nat \ {0}
      PROVE  SubSeq(e, Len(c) + n, Len(c) + j) = SubSeq(d, n, j)
  <2> DEFINE u == SubSeq(e, Len(c) + n, Len(c) + j)
             v == SubSeq(d, n, j)
  <2>1. CASE n <= j
    <3>1. /\ u \in Seq(STRING) /\ Len(u) = j - n + 1
          /\ \A i \in 1..(j - n + 1) : u[i] = e[Len(c) + n + i - 1]
      BY <1>1, <2>1, SubSeqProperties DEF e
    <3>2. /\ v \in Seq(STRING) /\ Len(v) = j - n + 1
          /\ \A i \in 1..(j - n + 1) : v[i] = d[n + i - 1]
      BY <2>1, SubSeqProperties
    <3> HIDE DEF u, v
    <3>3. ASSUME NEW i \in 1..(j - n + 1) PROVE u[i] = v[i]
      <4>1. n + i - 1 \in 1..Len(d) /\ Len(c) + n + i - 1 = Len(c) + (n + i - 1)
        BY <2>1
      <4> QED BY <1>1, <3>1, <3>2, <4>1 DEF e
    <3>4. u = v
      BY <3>1, <3>2, <3>3, SeqEqual
    <3> QED BY <3>4 DEF u, v
  <2>2. CASE n > j
    BY <2>2, SubSeqEmpty
  <2> QED BY <2>1, <2>2
<1>3. ASSUME NEW m \in 1..Len(c)
      PROVE  /\ SubSeq(c, m, Len(c)) \in Seq(STRING) /\ SubSeq(d, 1, j) \in Seq(STRING)
             /\ SubSeq(e, m, Len(c) + j) = SubSeq(c, m, Len(c)) \o SubSeq(d, 1, j)
  <2> DEFINE u == SubSeq(e, m, Len(c) + j)
             v == SubSeq(c, m, Len(c))
             w == SubSeq(d, 1, j)
  <2>1. /\ u \in Seq(STRING) /\ Len(u) = Len(c) + j - m + 1
        /\ \A i \in 1..(Len(c) + j - m + 1) : u[i] = e[m + i - 1]
    BY <1>1, SubSeqProperties DEF e
  <2>2. /\ v \in Seq(STRING) /\ Len(v) = Len(c) - m + 1
        /\ \A i \in 1..(Len(c) - m + 1) : v[i] = c[m + i - 1]
    BY SubSeqProperties
  <2>3. /\ w \in Seq(STRING) /\ Len(w) = j /\ \A i \in 1..j : w[i] = d[i]
    BY SubSeqProperties
  <2> HIDE DEF u, v, w
  <2>4. /\ v \o w \in Seq(STRING) /\ Len(v \o w) = Len(v) + Len(w)
        /\ \A i \in 1..Len(v) : (v \o w)[i] = v[i]
        /\ \A i \in 1..Len(w) : (v \o w)[Len(v) + i] = w[i]
    <3>1. v \in Seq(STRING) /\ w \in Seq(STRING)
      BY <2>2, <2>3
    <3> QED BY <3>1, ConcatProperties
  <2>5. ASSUME NEW i \in 1..Len(u) PROVE u[i] = (v \o w)[i]
    <3>1. CASE i <= Len(v)
      <4>1. i \in 1..Len(v) /\ m + i - 1 \in 1..Len(c)
        BY <2>1, <2>2, <3>1
      <4> QED BY <1>1, <2>1, <2>2, <2>4, <4>1 DEF e
    <3>2. CASE i > Len(v)
      <4> DEFINE k == i - Len(v)
      <4>1. k \in 1..Len(w) /\ i = Len(v) + k /\ m + i - 1 = Len(c) + k /\ k \in 1..Len(d)
        BY <2>1, <2>2, <2>3, <3>2
      <4> HIDE DEF k
      <4>2. u[i] = e[Len(c) + k]
        BY <2>1, <4>1
      <4>3. e[Len(c) + k] = d[k]
        BY <1>1, <4>1 DEF e
      <4>4. w[k] = d[k]
        BY <2>3, <4>1
      <4>5. (v \o w)[i] = w[k]
        BY <2>4, <4>1
      <4> QED BY <4>2, <4>3, <4>4, <4>5
    <3>3. Len(v) \in Nat /\ i \in Nat
      BY <2>1, <2>2
    <3>4. i <= Len(v) \/ i > Len(v)
      BY <3>3
    <3> QED BY <3>1, <3>2, <3>4
  <2>6. u = v \o w
    <3>1. Len(u) = Len(v \o w)
      BY <2>1, <2>2, <2>3, <2>4
    <3> QED BY <2>1, <2>4, <2>5, <3>1, SeqEqual
  <2> QED BY <2>2, <2>3, <2>6 DEF u, v, w
<1> QED BY <1>2, <1>3 DEF e

LEMMA AgreeEnd ==
    ASSUME NEW c \in Seq(STRING), NEW d \in Seq(STRING), NEW j \in 0..Len(d),
           NEW s \in Seq(Events), NEW xo \in Seq(Events), NEW bo \in Seq(Events),
           NEW f \in DataKinds, NEW m, NEW n, Agree(c, s, xo, bo, f, m, n),
           NEW e \in Events, e[1] = f, e[2] = SubSeq(c \o d, m, Len(c) + j),
           NEW g \in Events, g[1] = f, g[2] = SubSeq(d, n, j)
    PROVE  Agree(c, s, Append(xo, e), Append(bo, g), "none", 0, 0)
<1> DEFINE u == SubSeq(c \o d, m, Len(c) + j)
           v == SubSeq(d, n, j)
           p == SubSeq(c, m, Len(c))
<1>0. e[2] = u /\ g[2] = v
  OBVIOUS
<1>1. Merge(<<>>, Append(xo, e)) = Adjoin(Merge(<<>>, xo), e)
  BY MergeMore
<1>2. Merge(s, Append(bo, g)) = Adjoin(Merge(s, bo), g)
  BY MergeMore
<1>3. f # "none"
  BY DEF DataKinds
<1>4. CASE Own(c, s, xo, bo, f, m, n)
  <2>1. n \in Nat \ {0} /\ m = Len(c) + n /\ Merge(<<>>, xo) = Merge(s, bo)
    BY <1>3, <1>4 DEF Own
  <2>2. SubSeq(c \o d, Len(c) + n, Len(c) + j) = SubSeq(d, n, j)
    BY <2>1, Pieces
  <2>3. e[2] = v /\ g[2] = v
    BY <2>1, <2>2
  <2> HIDE DEF v
  <2>4. e = <<f, v>> /\ g = <<f, v>>
    BY <2>3 DEF Events
  <2>5. Merge(<<>>, Append(xo, e)) = Merge(s, Append(bo, g))
    BY <1>1, <1>2, <2>1, <2>4
  <2> QED BY <2>5 DEF Agree, Own
<1>5. CASE Carried(c, s, xo, bo, f, m, n)
  <2> DEFINE z == Merge(<<>>, xo)
  <2>1. u = p \o v /\ p \in Seq(STRING) /\ v \in Seq(STRING)
    BY <1>5, Pieces DEF Carried
  <2>2. s = Adjoin(z, <<f, p>>) /\ Merge(s, bo) = s
    BY <1>5, MergeNone DEF Carried
  <2>3. z \in Seq(Events)
    <3>1. <<>> \in Seq(Events)
      OBVIOUS
    <3> QED BY <3>1, MergeType
  <2> HIDE DEF u, v, p, z
  <2>4. Adjoin(Adjoin(z, <<f, p>>), <<f, v>>) = Adjoin(z, <<f, p \o v>>)
    BY <2>1, <2>3, AdjoinParts
  <2>5. e = <<f, p \o v>> /\ g = <<f, v>>
    BY <1>0, <2>1 DEF Events
  <2>6. Merge(<<>>, Append(xo, e)) = Adjoin(z, <<f, p \o v>>)
    BY <1>1, <2>5 DEF z
  <2>7. Merge(s, Append(bo, g)) = Adjoin(Adjoin(z, <<f, p>>), <<f, v>>)
    BY <1>2, <2>2, <2>5
  <2>8. Merge(<<>>, Append(xo, e)) = Merge(s, Append(bo, g))
    BY <2>4, <2>6, <2>7
  <2> QED BY <2>8 DEF Agree, Own
<1> QED BY <1>4, <1>5 DEF Agree

LEMMA AgreeTell ==
    ASSUME NEW c, NEW s \in Seq(Events), NEW xo \in Seq(Events), NEW bo \in Seq(Events),
           NEW m, NEW n, Agree(c, s, xo, bo, "none", m, n), NEW e \in Events
    PROVE  Agree(c, s, Append(xo, e), Append(bo, e), "none", m, n)
<1>1. Merge(<<>>, xo) = Merge(s, bo)
  BY DEF Agree, Own, Carried
<1>2. Merge(<<>>, Append(xo, e)) = Adjoin(Merge(<<>>, xo), e)
  BY MergeMore
<1>3. Merge(s, Append(bo, e)) = Adjoin(Merge(s, bo), e)
  BY MergeMore
<1> QED BY <1>1, <1>2, <1>3 DEF Agree, Own

-------------------------------------------------------------------------------
(* A call between two turns, with data of kind f marked from m on *)
Marks(f, m)   == [g \in DataKinds |-> IF g = f THEN m ELSE 0]
Only(x, f, m) == x.mark = Marks(f, m)
Kinds == DataKinds \cup {"none"}

Mid(x) ==
    /\ Places(x) /\ Sound(x.q) /\ x.run = TRUE /\ x.q.http_errno = "HPE_OK"
    /\ x.q.upgrade = FALSE /\ x.out \in Seq(Events)
    /\ x.data \in Seq(STRING) /\ x.i \in 1..(Len(x.data) + 1)

(* The states that take as much of a body as there is *)
Taking == {"s_chunk_data", "s_body_identity", "s_body_identity_eof"}

LEMMA KindType == \A s : Kind(s) \in Kinds
BY DEF Kind, Kinds, DataKinds

LEMMA StateSplit == States = Unitwise \cup Taking
BY DEF States, Unitwise, Outside, Urls, UrlStart, UrlInside, Taking

LEMMA MarksFacts ==
    /\ \A m, n : Marks("none", m) = Marks("none", n)
    /\ \A f \in DataKinds : \A m, n :
          /\ [Marks("none", m) EXCEPT ![f] = n] = Marks(f, n)
          /\ [Marks(f, n) EXCEPT ![f] = 0] = Marks("none", m)
          /\ Marks(f, n)[f] = n
<1>1. "none" \notin DataKinds
  BY DEF DataKinds
<1> QED BY <1>1 DEF Marks

LEMMA MidAt ==
    ASSUME NEW x, NEW m, Mid(x), Only(x, Kind(x.q.state), m),
           Kind(x.q.state) # "none" => m \in Nat \ {0}
    PROVE  At(x)
<1> DEFINE k == Kind(x.q.state)
<1>1. k \in Kinds /\ "none" \notin DataKinds
  BY KindType DEF DataKinds
<1> HIDE DEF k
<1>2. x.mark \in [DataKinds -> Nat]
  BY <1>1 DEF Only, Marks, Kinds, k
<1>3. \A f \in DataKinds : (x.mark[f] # 0) <=> (f = k)
  BY <1>1 DEF Only, Marks, Kinds, k
<1> QED BY <1>2, <1>3 DEF Mid, At, Sound, k

LEMMA UnitStep ==
    ASSUME NEW x, Mid(x), x.i <= Len(x.data)
    PROVE  /\ Fails(x, Byte(x)) =>
                /\ Step(x).run = FALSE /\ Step(x).q = Byte(x).q /\ Step(x).out = x.out
           /\ Goes(x, Byte(x)) /\ Byte(x).q.upgrade =>
                /\ Step(x).run = FALSE /\ Step(x).q = Byte(x).q /\ Step(x).out = Byte(x).out
           /\ Goes(x, Byte(x)) /\ ~Byte(x).q.upgrade =>
                /\ Step(x).run = TRUE /\ Step(x).q = Byte(x).q /\ Step(x).out = Byte(x).out
                /\ Step(x).i = x.i + 1 /\ Step(x).data = x.data
                /\ Step(x).mark = Byte(x).mark /\ Places(Step(x)) /\ Sound(Step(x).q)
<1> DEFINE u == Byte(x)
<1>1. Turning(u)
  BY ByteTurns DEF Mid, Turning, Places
<1>2. Step(x) = IF u.run THEN [u EXCEPT !.i = @ + 1] ELSE u
  BY DEF Step, Mid, Places
<1> HIDE DEF u
<1>3. Fails(x, u) =>
        /\ Step(x).run = FALSE /\ Step(x).q = u.q /\ Step(x).out = x.out
  BY <1>2 DEF Fails
<1>4. Goes(x, u) /\ u.q.upgrade =>
        /\ Step(x).run = FALSE /\ Step(x).q = u.q /\ Step(x).out = u.out
  BY <1>2 DEF Goes
<1>5. Goes(x, u) /\ ~u.q.upgrade =>
        /\ Step(x).run = TRUE /\ Step(x).q = u.q /\ Step(x).out = u.out
        /\ Step(x).i = x.i + 1 /\ Step(x).data = x.data
        /\ Step(x).mark = u.mark /\ Places(Step(x)) /\ Sound(Step(x).q)
  <2> SUFFICES ASSUME Goes(x, u), ~u.q.upgrade
               PROVE  /\ Step(x).run = TRUE /\ Step(x).q = u.q /\ Step(x).out = u.out
                      /\ Step(x).i = x.i + 1 /\ Step(x).data = x.data
                      /\ Step(x).mark = u.mark /\ Places(Step(x)) /\ Sound(Step(x).q)
    OBVIOUS
  <2>1. u.run = TRUE /\ u.i = x.i /\ u.data = x.data
    BY DEF Goes
  <2>2. Step(x) = [u EXCEPT !.i = @ + 1]
    BY <1>2, <2>1
  <2> QED BY <1>1, <2>1, <2>2 DEF Turning, Places
<1> QED BY <1>3, <1>4, <1>5 DEF u

(* The one call at x, the second of the two at b, at the same unit *)
Sim(c, d, s, x, b, f, m, n) ==
    /\ Mid(x) /\ Mid(b) /\ b.q = x.q
    /\ x.data = c \o d /\ b.data = d /\ x.i = Len(c) + b.i
    /\ Only(x, f, m) /\ Only(b, f, n) /\ f \in Kinds
    /\ Agree(c, s, x.out, b.out, f, m, n)

(* What a unit makes of that *)
Moved(c, s, x, b, u, v, f, m, n) ==
    /\ Only(u, f, m) /\ Only(v, f, n)
    /\ u.out \in Seq(Events) /\ v.out \in Seq(Events)
    /\ Agree(c, s, u.out, v.out, f, m, n)

LEMMA SimMoves ==
    ASSUME NEW c \in Seq(STRING), NEW d \in Seq(STRING), NEW s \in Seq(Events),
           NEW x, NEW b, NEW m, NEW n, Sim(c, d, s, x, b, Kind(x.q.state), m, n),
           b.i <= Len(d), NEW u, NEW v, Alike(x, b, u, v), u.q.http_errno = "HPE_OK"
    PROVE  \E p, r : Moved(c, s, x, b, u, v, Kind(u.q.state), p, r)
<1> DEFINE k == Kind(x.q.state)
           l == Kind(u.q.state)
<1>1. /\ x.out \in Seq(Events) /\ b.out \in Seq(Events) /\ x.i \in Nat /\ b.i \in Nat \ {0}
      /\ x.i = Len(c) + b.i /\ x.data = c \o d /\ b.data = d /\ Len(c) \in Nat
      /\ x.mark = Marks(k, m) /\ b.mark = Marks(k, n)
      /\ Agree(c, s, x.out, b.out, k, m, n)
  BY DEF Sim, Mid, Only
<1>2. "none" \notin DataKinds /\ v.q = u.q
  BY DEF DataKinds, Alike
<1> HIDE DEF k, l
<1>3. CASE Rests(x, u) /\ Rests(b, v)
  <2>0. l = k /\ u.out = x.out /\ v.out = b.out /\ u.mark = x.mark /\ v.mark = b.mark
    BY <1>3 DEF Rests, k, l
  <2>1. Moved(c, s, x, b, u, v, l, m, n)
    BY <1>1, <2>0 DEF Moved, Only
  <2> QED BY <2>1 DEF l
<1>4. ASSUME NEW f \in DataKinds, Begins(x, u, f), Begins(b, v, f)
      PROVE  Moved(c, s, x, b, u, v, l, x.i, b.i)
  <2>1. k = "none" /\ l = f /\ u.out = x.out /\ v.out = b.out
    BY <1>4 DEF Begins, k, l
  <2>2. u.mark = Marks(f, x.i) /\ v.mark = Marks(f, b.i)
    <3>1. ASSUME NEW p, NEW r PROVE [Marks("none", p) EXCEPT ![f] = r] = Marks(f, r)
      BY <1>2 DEF Marks
    <3>2. u.mark = [Marks("none", m) EXCEPT ![f] = x.i]
          /\ v.mark = [Marks("none", n) EXCEPT ![f] = b.i]
      BY <1>1, <1>4, <2>1 DEF Begins
    <3> QED BY <3>1, <3>2
  <2>3. Own(c, s, x.out, b.out, f, x.i, b.i)
    BY <1>1, <2>1 DEF Agree, Own, Carried
  <2> QED BY <1>1, <2>1, <2>2, <2>3 DEF Moved, Only, Agree
<1>5. ASSUME NEW f \in DataKinds, Closes(x, u, f), Closes(b, v, f)
      PROVE  Moved(c, s, x, b, u, v, l, 0, 0)
  <2> DEFINE j == b.i - 1
             e == <<f, SubSeq(c \o d, m, Len(c) + j)>>
             g == <<f, SubSeq(d, n, j)>>
  <2>1. k = f /\ l = "none"
    BY <1>5 DEF Closes, k, l
  <2>2. x.mark[f] = m /\ b.mark[f] = n
    BY <1>1, <2>1 DEF Marks
  <2>3. u.mark = Marks("none", 0) /\ v.mark = Marks("none", 0)
    BY <1>1, <1>2, <1>5, <2>1, ZenonT(60) DEF Closes, Marks
  <2>4. j \in 0..Len(d) /\ x.i - 1 = Len(c) + j
    BY <1>1, SMTT(30)
  <2>5. u.out = Append(x.out, e) /\ v.out = Append(b.out, g)
    BY <1>1, <1>5, <2>2, <2>4 DEF Closes
  <2>6. Agree(c, s, x.out, b.out, f, m, n)
    BY <1>1, <2>1
  <2>8. e \in Events /\ g \in Events
    <3>1. m \in Nat \ {0} /\ n \in Nat \ {0}
      <4>1. f # "none"
        BY <1>2
      <4> QED BY <1>1, <2>6, <4>1, SMTT(30) DEF Agree, Own, Carried
    <3>2. SubSeq(c \o d, m, Len(c) + j) \in Seq(STRING) /\ SubSeq(d, n, j) \in Seq(STRING)
      <4>1. c \o d \in Seq(STRING) /\ Len(c \o d) = Len(c) + Len(d)
        BY ConcatProperties
      <4>2. j \in Nat /\ j <= Len(d)
        BY <2>4
      <4> HIDE DEF j
      <4>3. ASSUME NEW w \in Seq(STRING), NEW h \in Nat \ {0}, NEW i \in Nat, i <= Len(w)
            PROVE  SubSeq(w, h, i) \in Seq(STRING)
        <5>1. CASE h <= i
          BY <4>3, <5>1, SubSeqProperties
        <5>2. CASE h > i
          BY <4>3, <5>2, SubSeqEmpty
        <5> QED BY <5>1, <5>2
      <4>4. Len(c) + j \in Nat /\ Len(c) + j <= Len(c \o d)
        BY <1>1, <4>1, <4>2
      <4> QED BY <3>1, <4>1, <4>2, <4>3, <4>4
    <3> QED BY <3>2, EventParts DEF Callbacks
  <2>7. e[1] = f /\ e[2] = SubSeq(c \o d, m, Len(c) + j) /\ g[1] = f /\ g[2] = SubSeq(d, n, j)
    OBVIOUS
  <2> HIDE DEF e, g, j
  <2>9. u.out \in Seq(Events) /\ v.out \in Seq(Events)
    BY <1>1, <2>5, <2>8
  <2>10. Agree(c, s, Append(x.out, e), Append(b.out, g), "none", 0, 0)
    BY <1>1, <2>4, <2>6, <2>7, <2>8, AgreeEnd
  <2> QED BY <2>1, <2>3, <2>5, <2>9, <2>10 DEF Moved, Only
<1>6. ASSUME NEW e \in Events, Tells(x, u, e), Tells(b, v, e)
      PROVE  Moved(c, s, x, b, u, v, l, m, n)
  <2>1. k = "none" /\ l = "none" /\ u.mark = x.mark /\ v.mark = b.mark
        /\ u.out = Append(x.out, e) /\ v.out = Append(b.out, e)
    BY <1>6 DEF Tells, k, l
  <2>2. Agree(c, s, u.out, v.out, "none", m, n)
    BY <1>1, <2>1, AgreeTell
  <2> QED BY <1>1, <2>1, <2>2 DEF Moved, Only
<1>7. ASSUME NEW e \in Events, NEW f \in Events, TellsTwo(x, u, e, f), TellsTwo(b, v, e, f)
      PROVE  Moved(c, s, x, b, u, v, l, m, n)
  <2>1. k = "none" /\ l = "none" /\ u.mark = x.mark /\ v.mark = b.mark
        /\ u.out = Append(Append(x.out, e), f) /\ v.out = Append(Append(b.out, e), f)
    BY <1>7 DEF TellsTwo, k, l
  <2>2. Append(x.out, e) \in Seq(Events) /\ Append(b.out, e) \in Seq(Events)
    BY <1>1
  <2>3. Agree(c, s, Append(x.out, e), Append(b.out, e), "none", m, n)
    BY <1>1, <2>1, AgreeTell
  <2>4. Agree(c, s, u.out, v.out, "none", m, n)
    BY <2>1, <2>2, <2>3, AgreeTell
  <2>5. u.out \in Seq(Events) /\ v.out \in Seq(Events)
    BY <2>1, <2>2
  <2> QED BY <1>1, <2>1, <2>4, <2>5 DEF Moved, Only
<1>8. \/ Rests(x, u) /\ Rests(b, v)
      \/ \E f \in DataKinds : Begins(x, u, f) /\ Begins(b, v, f)
      \/ \E f \in DataKinds : Closes(x, u, f) /\ Closes(b, v, f)
      \/ \E e \in Events : Tells(x, u, e) /\ Tells(b, v, e)
      \/ \E e, f \in Events : TellsTwo(x, u, e, f) /\ TellsTwo(b, v, e, f)
  BY DEF Alike, Fails
<1> QED BY <1>3, <1>4, <1>5, <1>6, <1>7, <1>8 DEF l

(* Both have stopped: at an error, or where the protocol is left. *)
Stop(c, s, x, b) ==
    /\ x.run = FALSE /\ b.run = FALSE /\ b.q = x.q
    /\ x.out \in Seq(Events) /\ b.out \in Seq(Events)
    /\ x.q.http_errno # "HPE_OK" \/ x.q.upgrade
    /\ \E f \in Kinds : \E m, n :
          /\ Agree(c, s, x.out, b.out, f, m, n)
          /\ x.q.http_errno = "HPE_OK" => f = "none"

(* Both go on. *)
Running(c, d, s, x, b) ==
    \E f, m, n :
        /\ Sim(c, d, s, x, b, f, m, n)
        /\ \/ f = Kind(x.q.state)
           \/ b.i = Len(d) + 1 /\ f = "body" /\ x.q.state \in Taking

LEMMA SimAt ==
    ASSUME NEW c \in Seq(STRING), NEW d \in Seq(STRING), NEW s, NEW x, NEW b, NEW m, NEW n,
           Sim(c, d, s, x, b, Kind(x.q.state), m, n), b.i <= Len(d)
    PROVE  /\ Twins(x, b) /\ x.i # 0 /\ b.i # 0 /\ x.data[x.i] = b.data[b.i]
           /\ x.i <= Len(x.data) /\ b.i <= Len(b.data)
<1> DEFINE k == Kind(x.q.state)
<1>1. /\ Mid(x) /\ Mid(b) /\ b.q = x.q /\ x.data = c \o d /\ b.data = d
      /\ x.i = Len(c) + b.i /\ Only(x, k, m) /\ Only(b, k, n) /\ b.i \in Nat \ {0}
      /\ Agree(c, s, x.out, b.out, k, m, n)
  BY DEF Sim, Mid
<1>2. k # "none" => m \in Nat \ {0} /\ n \in Nat \ {0}
  BY <1>1 DEF Agree, Own, Carried
<1>3. At(x) /\ At(b)
  BY <1>1, <1>2, MidAt
<1>4. /\ Len(c \o d) = Len(c) + Len(d) /\ Len(c) \in Nat
      /\ \A i \in 1..Len(d) : (c \o d)[Len(c) + i] = d[i]
  BY ConcatProperties
<1> HIDE DEF k
<1>5. b.i \in 1..Len(d)
  BY <1>1
<1> QED BY <1>1, <1>3, <1>4, <1>5 DEF Twins

LEMMA SimUnit ==
    ASSUME NEW c \in Seq(STRING), NEW d \in Seq(STRING), NEW s \in Seq(Events),
           NEW x, NEW b, NEW m, NEW n, Sim(c, d, s, x, b, Kind(x.q.state), m, n),
           b.i <= Len(d), x.q.state \in Unitwise
    PROVE  \/ Stop(c, s, Step(x), Step(b))
           \/ Running(c, d, s, Step(x), Step(b)) /\ Step(b).i = b.i + 1
<1> DEFINE u == Byte(x)
           v == Byte(b)
           y == Step(x)
           z == Step(b)
<1>1. /\ Mid(x) /\ Mid(b) /\ x.data = c \o d /\ b.data = d /\ x.i = Len(c) + b.i
      /\ x.out \in Seq(Events) /\ b.out \in Seq(Events)
      /\ Agree(c, s, x.out, b.out, Kind(x.q.state), m, n) /\ Kind(x.q.state) \in Kinds
      /\ b.i \in Nat \ {0} /\ Len(c) \in Nat /\ Len(d) \in Nat
  BY DEF Sim, Mid
<1>2. /\ Twins(x, b) /\ x.i # 0 /\ b.i # 0 /\ x.data[x.i] = b.data[b.i]
      /\ x.i <= Len(x.data) /\ b.i <= Len(b.data)
  BY SimAt
<1>3. Alike(x, b, u, v)
  BY <1>2, ByteAlike
<1>4. /\ Fails(x, u) => y.run = FALSE /\ y.q = u.q /\ y.out = x.out
      /\ Goes(x, u) /\ u.q.upgrade => y.run = FALSE /\ y.q = u.q /\ y.out = u.out
      /\ Goes(x, u) /\ ~u.q.upgrade =>
           /\ y.run = TRUE /\ y.q = u.q /\ y.out = u.out /\ y.i = x.i + 1
           /\ y.data = x.data /\ y.mark = u.mark /\ Places(y) /\ Sound(y.q)
  BY <1>1, <1>2, UnitStep
<1>5. /\ Fails(b, v) => z.run = FALSE /\ z.q = v.q /\ z.out = b.out
      /\ Goes(b, v) /\ v.q.upgrade => z.run = FALSE /\ z.q = v.q /\ z.out = v.out
      /\ Goes(b, v) /\ ~v.q.upgrade =>
           /\ z.run = TRUE /\ z.q = v.q /\ z.out = v.out /\ z.i = b.i + 1
           /\ z.data = b.data /\ z.mark = v.mark /\ Places(z) /\ Sound(z.q)
  BY <1>1, <1>2, UnitStep
<1> HIDE DEF u, v, y, z
<1>6. v.q = u.q
  BY <1>3 DEF Alike
<1>7. CASE Fails(x, u) /\ Fails(b, v)
  <2>1. u.q.http_errno # "HPE_OK"
    BY <1>7 DEF Fails
  <2>2. Stop(c, s, y, z)
    BY <1>1, <1>4, <1>5, <1>6, <1>7, <2>1 DEF Stop
  <2> QED BY <2>2 DEF y, z
<1>8. CASE Goes(x, u) /\ Goes(b, v)
  <2>1. u.q.http_errno = "HPE_OK"
    BY <1>8 DEF Goes
  <2>2. PICK p, r : Moved(c, s, x, b, u, v, Kind(u.q.state), p, r)
    BY <1>3, <2>1, SimMoves
  <2>3. CASE u.q.upgrade
    <3>1. Kind(u.q.state) = "none" /\ "none" \in Kinds
      BY <1>8, <2>3 DEF Goes, Kinds
    <3>2. Stop(c, s, y, z)
      BY <1>4, <1>5, <1>6, <1>8, <2>1, <2>2, <2>3, <3>1 DEF Stop, Moved
    <3> QED BY <3>2 DEF y, z
  <2>4. CASE ~u.q.upgrade
    <3>1. u.q.upgrade = FALSE
      BY <1>8, <2>4 DEF Goes
    <3>2. /\ y.run = TRUE /\ y.q = u.q /\ y.out = u.out /\ y.i = x.i + 1
          /\ y.data = x.data /\ y.mark = u.mark /\ Places(y) /\ Sound(y.q)
          /\ z.run = TRUE /\ z.q = u.q /\ z.out = v.out /\ z.i = b.i + 1
          /\ z.data = b.data /\ z.mark = v.mark /\ Places(z) /\ Sound(z.q)
      BY <1>4, <1>5, <1>6, <1>8, <2>4
    <3> DEFINE k == Kind(u.q.state)
    <3>6. /\ u.mark = Marks(k, p) /\ v.mark = Marks(k, r)
          /\ u.out \in Seq(Events) /\ v.out \in Seq(Events)
          /\ Agree(c, s, u.out, v.out, k, p, r)
          /\ k \in Kinds
      BY <2>2, KindType DEF Moved, Only
    <3> HIDE DEF k
    <3>3. Mid(y) /\ Mid(z)
      <4>1. /\ x.data \in Seq(STRING) /\ x.i \in 1..(Len(x.data) + 1)
            /\ b.data \in Seq(STRING) /\ b.i \in 1..(Len(b.data) + 1)
        BY <1>1 DEF Mid
      <4>2. x.i + 1 \in 1..(Len(x.data) + 1)
        <5>1. x.i \in Nat /\ Len(x.data) \in Nat /\ x.i <= Len(x.data)
          BY <1>2, <4>1
        <5> QED BY <5>1
      <4>3. b.i + 1 \in 1..(Len(b.data) + 1)
        <5>1. b.i \in Nat /\ Len(b.data) \in Nat /\ b.i <= Len(b.data)
          BY <1>2, <4>1
        <5> QED BY <5>1
      <4> QED BY <2>1, <3>1, <3>2, <3>6, <4>1, <4>2, <4>3 DEF Mid
    <3>4. Sim(c, d, s, y, z, Kind(y.q.state), p, r)
      <4>1. k = Kind(y.q.state) /\ y.i = Len(c) + z.i
        BY <1>1, <3>2 DEF k
      <4> QED BY <1>1, <3>2, <3>3, <3>6, <4>1 DEF Sim, Only
    <3>5. Running(c, d, s, y, z) /\ z.i = b.i + 1
      BY <3>2, <3>4 DEF Running
    <3> QED BY <3>5 DEF y, z
  <2> QED BY <2>3, <2>4
<1> QED BY <1>3, <1>7, <1>8 DEF Alike

-------------------------------------------------------------------------------
(* Bodies, of which a turn takes what there is *)

(* The parser when n units of a body have been read, when all have been,   *)
(* and when the message or the chunk is done with that.                    *)
Read(q, n, s) == [f \in DOMAIN q |->
    IF f = "content_length" THEN q.content_length - n ELSE IF f = "state" THEN s ELSE q[f]]
Rest(q, n)  == Read(q, n, q.state)
WholeBody(q) == Read(q, q.content_length, "s_message_done")
Message(q)  == Read(q, q.content_length, NEW_MESSAGE(WholeBody(q)))
Chunk(q)    == Read(q, q.content_length, "s_chunk_data_almost_done")
Left(x)     == Len(x.data) - x.i + 1

LEMMA ReadFacts ==
    ASSUME NEW q, Fields(q), NEW n \in Nat, NEW s
    PROVE  /\ [q EXCEPT !.nread = q.nread] = Read(q, 0, q.state)
           /\ [Read(q, n, q.state) EXCEPT !.state = s] = Read(q, n, s)
<1>1. q.content_length - 0 = q.content_length
  BY DEF Fields
<1>2. [q EXCEPT !.nread = q.nread] = Read(q, 0, q.state)
  BY <1>1 DEF Read, Fields
<1>3. [Read(q, n, q.state) EXCEPT !.state = s] = Read(q, n, s)
  BY DEF Read, Fields
<1> QED BY <1>2, <1>3

LEMMA ReadAt ==
    ASSUME NEW q, Fields(q), NEW n, NEW s
    PROVE  /\ Read(q, n, s).state = s
           /\ Read(q, n, s).content_length = q.content_length - n
           /\ Read(q, n, s).http_errno = q.http_errno
           /\ Read(q, n, s).upgrade = q.upgrade
           /\ Read(q, n, s).flags = q.flags
           /\ Read(q, n, s).nread = q.nread
           /\ DOMAIN Read(q, n, s) = DOMAIN q
BY DEF Read, Fields

LEMMA ReadMore ==
    ASSUME NEW q, Fields(q), NEW k \in Nat, NEW n \in Nat, NEW s, NEW t
    PROVE  Read(Read(q, k, s), n, t) = Read(q, k + n, t)
<1>1. (q.content_length - k) - n = q.content_length - (k + n)
  BY DEF Fields
<1> QED BY <1>1 DEF Read, Fields

LEMMA ReadSome ==
    ASSUME NEW q, Fields(q), NEW n \in Nat, NEW s
    PROVE  [Read(q, 0, s) EXCEPT !.content_length = @ - n] = Read(q, n, s)
<1>1. (q.content_length - 0) - n = q.content_length - n
  BY DEF Fields
<1> QED BY <1>1 DEF Read, Fields

Took(x, t) == /\ t.run = TRUE /\ t.data = x.data /\ Places(t) /\ Sound(t.q)
              /\ t.q.http_errno = "HPE_OK" /\ t.q.upgrade = FALSE

LEMMA BodyEof ==
    ASSUME NEW x, Mid(x), Only(x, "none", 0), x.i <= Len(x.data),
           x.q.state = "s_body_identity_eof"
    PROVE  /\ Took(x, Step(x)) /\ Step(x).q = Rest(x.q, 0)
           /\ Step(x).out = x.out /\ Only(Step(x), "body", x.i)
           /\ Step(x).i = Len(x.data) + 1
<1> DEFINE a == [x EXCEPT !.q.nread = x.q.nread]
           m == MARK(a, "body")
           u == [m EXCEPT !.i = Len(a.data)]
           t == [u EXCEPT !.i = @ + 1]
<1>1. Places(x) /\ Fields(x.q) /\ Len(x.data) \in Nat /\ x.i \in Nat \ {0} /\ x.run = TRUE
      /\ x.mark = Marks("none", 0) /\ x.q.content_length \in Nat
  BY DEF Mid, Sound, Only, Fields
<1>2. /\ a.q = Rest(x.q, 0) /\ a.i = x.i /\ a.data = x.data /\ a.out = x.out
      /\ a.run = TRUE /\ a.mark = x.mark /\ Places(a)
  <2>1. a.q = [x.q EXCEPT !.nread = x.q.nread]
    BY <1>1 DEF Places
  <2>2. a.q = Rest(x.q, 0)
    BY <1>1, <2>1, ReadFacts DEF Rest
  <2> QED BY <1>1, <2>2 DEF Places
<1>3. Rest(x.q, 0).state = "s_body_identity_eof" /\ Rest(x.q, 0).http_errno = x.q.http_errno
      /\ Rest(x.q, 0).upgrade = x.q.upgrade
  BY <1>1, ReadAt DEF Rest
<1>4. Byte(x) = u
  <2>1. Byte(x) = Dispatch(a)
    BY DEF Byte, BodyStates
  <2>2. Dispatch(a) = BodyIdentityEof(a)
    BY <1>2, <1>3 DEF Dispatch, UrlStart, UrlInside
  <2> QED BY <2>1, <2>2 DEF BodyIdentityEof
<1> HIDE DEF a
<1>5. /\ m.q = a.q /\ m.i = a.i /\ m.data = a.data /\ m.out = a.out /\ m.run = a.run
      /\ m.mark = Marks("body", x.i) /\ Places(m)
  BY <1>1, <1>2 DEF MARK, Places, Marks, DataKinds
<1> HIDE DEF m
<1>6. /\ u.q = a.q /\ u.i = Len(x.data) /\ u.data = x.data /\ u.out = x.out /\ u.run = TRUE
      /\ u.mark = Marks("body", x.i) /\ Places(u)
  BY <1>1, <1>2, <1>5 DEF Places
<1> HIDE DEF u
<1>7. /\ t.q = a.q /\ t.i = Len(x.data) + 1 /\ t.data = x.data /\ t.out = x.out /\ t.run = TRUE
      /\ t.mark = Marks("body", x.i)
  BY <1>1, <1>6 DEF Places
<1>8. Step(x) = t
  BY <1>1, <1>4, <1>6 DEF Step
<1>9. Turning(Step(x))
  BY StepTurns DEF Mid, Turning
<1> HIDE DEF t
<1> QED BY <1>2, <1>3, <1>7, <1>8, <1>9 DEF Took, Only, Turning, Mid

LEMMA BodyTake ==
    ASSUME NEW x, Mid(x), Only(x, "none", 0), x.i <= Len(x.data),
           x.q.state \in {"s_chunk_data", "s_body_identity"}
    PROVE  /\ x.q.content_length \in Nat \ {0}
           /\ Took(x, Step(x))
           /\ x.q.content_length > Left(x) =>
                /\ Step(x).q = Rest(x.q, Left(x)) /\ Step(x).out = x.out
                /\ Only(Step(x), "body", x.i) /\ Step(x).i = Len(x.data) + 1
           /\ x.q.content_length <= Left(x) /\ x.q.state = "s_chunk_data" =>
                /\ Step(x).q = Chunk(x.q) /\ Step(x).out = x.out
                /\ Only(Step(x), "body", x.i) /\ Step(x).i = x.i + x.q.content_length
           /\ x.q.content_length <= Left(x) /\ x.q.state = "s_body_identity" =>
                /\ Step(x).q = Message(x.q)
                /\ Step(x).out = Append(Append(x.out,
                       <<"body", SubSeq(x.data, x.i, x.i + x.q.content_length - 1)>>),
                       <<"message_complete", <<>>>>)
                /\ Only(Step(x), "none", 0) /\ Step(x).i = x.i + x.q.content_length
<1> DEFINE a == [x EXCEPT !.q.nread = x.q.nread]
           k == x.q.content_length
           m == MARK(a, "body")
           left == Len(a.data) - a.i + 1
           n == IF a.q.content_length < left THEN a.q.content_length ELSE left
           y == [m EXCEPT !.q.content_length = @ - n, !.i = @ + n - 1]
<1>1. /\ Places(x) /\ Fields(x.q) /\ Len(x.data) \in Nat /\ x.i \in Nat \ {0} /\ x.run = TRUE
      /\ x.mark = Marks("none", 0) /\ k \in Nat \ {0, ULLONG_MAX}
      /\ x.q.http_errno = "HPE_OK" /\ x.q.upgrade = FALSE
  BY DEF Mid, Sound, Only, Fields, Ready
<1>2. /\ a.q = Rest(x.q, 0) /\ a.i = x.i /\ a.data = x.data /\ a.out = x.out
      /\ a.run = TRUE /\ a.mark = x.mark /\ Places(a)
  <2>1. a.q = [x.q EXCEPT !.nread = x.q.nread]
    BY <1>1 DEF Places
  <2>2. a.q = Rest(x.q, 0)
    BY <1>1, <2>1, ReadFacts DEF Rest
  <2> QED BY <1>1, <2>2 DEF Places
<1>3. Rest(x.q, 0).state = x.q.state /\ Rest(x.q, 0).content_length = k
  <2>1. x.q.content_length - 0 = k
    BY <1>1
  <2> QED BY <1>1, <2>1, ReadAt DEF Rest
<1>4. Byte(x) = Dispatch(a)
  BY DEF Byte, BodyStates
<1>16. left = Left(x) /\ a.q.content_length = k
  BY <1>1, <1>2, <1>3 DEF Left
<1>15. n = IF k < Left(x) THEN k ELSE Left(x)
  BY <1>16
<1>8. /\ ChunkData(a) = IF y.q.content_length = 0 THEN Go(y, "s_chunk_data_almost_done") ELSE y
      /\ BodyIdentity(a) = IF y.q.content_length = 0
                           THEN MessageComplete(CALLBACK_DATA(Go(y, "s_message_done"), "body", y.i))
                           ELSE y
  <2>1. a.q.content_length \notin {0, ULLONG_MAX}
    BY <1>1, <1>16
  <2> HIDE DEF a, k
  <2>2. ChunkData(a) = IF y.q.content_length = 0 THEN Go(y, "s_chunk_data_almost_done") ELSE y
    BY <2>1 DEF ChunkData, TakeBody, Asserted
  <2>3. BodyIdentity(a) = IF y.q.content_length = 0
                THEN MessageComplete(CALLBACK_DATA(Go(y, "s_message_done"), "body", y.i)) ELSE y
    BY <2>1 DEF BodyIdentity, TakeBody, Asserted
  <2> QED BY <2>2, <2>3
<1>5. Dispatch(a) = IF x.q.state = "s_chunk_data" THEN ChunkData(a) ELSE BodyIdentity(a)
  BY <1>2, <1>3 DEF Dispatch, UrlStart, UrlInside
<1> HIDE DEF a
<1>6. /\ m.q = a.q /\ m.i = a.i /\ m.data = a.data /\ m.out = a.out /\ m.run = a.run
      /\ m.mark = Marks("body", x.i) /\ Places(m)
  BY <1>1, <1>2 DEF MARK, Places, Marks, DataKinds
<1>7. Left(x) \in Nat \ {0} /\ n \in Nat \ {0} /\ n <= k /\ n <= Left(x)
  <2>1. Left(x) \in Nat \ {0}
    BY <1>1 DEF Left
  <2> HIDE DEF n
  <2> QED BY <1>1, <1>15, <2>1
<1> HIDE DEF m, n
<1>9. /\ y.q = Rest(x.q, n) /\ y.i = x.i + n - 1 /\ y.data = x.data /\ y.out = x.out
      /\ y.run = TRUE /\ y.mark = Marks("body", x.i) /\ Places(y)
  <2>1. m.q = Rest(x.q, 0) /\ m.i = x.i
    BY <1>2, <1>6
  <2>2. y.q = [Rest(x.q, 0) EXCEPT !.content_length = @ - n]
    BY <1>6, <2>1 DEF Places
  <2>3. [Rest(x.q, 0) EXCEPT !.content_length = @ - n] = Rest(x.q, n)
    BY <1>1, <1>7, ReadSome DEF Rest
  <2>4. y.i = x.i + n - 1
    BY <1>6, <2>1 DEF Places
  <2>5. x.i + n - 1 \in Nat
    BY <1>1, <1>7
  <2> QED BY <1>2, <1>6, <2>2, <2>3, <2>4, <2>5 DEF Places
<1> HIDE DEF y
<1>10. Rest(x.q, n).content_length = k - n /\ Rest(x.q, n).http_errno = "HPE_OK"
       /\ Rest(x.q, n).upgrade = FALSE
  BY <1>1, <1>7, ReadAt DEF Rest
<1>11. Turning(Step(x))
  BY StepTurns DEF Mid, Turning
<1>12. CASE k > Left(x)
  <2>1. n = Left(x) /\ k - n # 0
    BY <1>1, <1>7, <1>12, <1>15
  <2>2. Byte(x) = y
    BY <1>4, <1>5, <1>8, <1>9, <1>10, <2>1
  <2> DEFINE t == [y EXCEPT !.i = @ + 1]
  <2>3. Step(x) = t
    BY <1>1, <1>9, <2>2 DEF Step
  <2>4. /\ t.q = Rest(x.q, Left(x)) /\ t.i = Len(x.data) + 1 /\ t.data = x.data /\ t.out = x.out
        /\ t.run = TRUE /\ t.mark = Marks("body", x.i)
    BY <1>1, <1>9, <2>1 DEF Places, Left
  <2> HIDE DEF t
  <2> QED BY <1>1, <1>7, <1>10, <1>11, <1>12, <2>1, <2>3, <2>4 DEF Took, Only, Turning
<1>13. CASE k <= Left(x) /\ x.q.state = "s_chunk_data"
  <2>1. n = k
    BY <1>1, <1>7, <1>13, <1>15
  <2> DEFINE u == Go(y, "s_chunk_data_almost_done")
             t == [u EXCEPT !.i = @ + 1]
  <2>2. Byte(x) = u
    BY <1>1, <1>4, <1>5, <1>8, <1>9, <1>10, <1>13, <2>1
  <2>3. /\ u.q = [Rest(x.q, n) EXCEPT !.state = "s_chunk_data_almost_done"]
        /\ u.i = y.i /\ u.data = x.data /\ u.out = x.out
        /\ u.run = TRUE /\ u.mark = Marks("body", x.i) /\ Places(u)
    BY <1>9 DEF Go, Places
  <2>4. [Rest(x.q, n) EXCEPT !.state = "s_chunk_data_almost_done"] = Chunk(x.q)
    BY <1>1, <2>1, ReadFacts DEF Rest, Chunk
  <2> HIDE DEF u
  <2>5. Step(x) = t
    BY <1>1, <2>2, <2>3 DEF Step
  <2>6. /\ t.q = Chunk(x.q) /\ t.i = x.i + k /\ t.data = x.data /\ t.out = x.out
        /\ t.run = TRUE /\ t.mark = Marks("body", x.i)
    BY <1>1, <1>9, <2>1, <2>3, <2>4 DEF Places
  <2>7. Chunk(x.q).http_errno = "HPE_OK" /\ Chunk(x.q).upgrade = FALSE
    BY <1>1, ReadAt DEF Chunk
  <2> HIDE DEF t
  <2> QED BY <1>1, <1>7, <1>11, <1>13, <2>5, <2>6, <2>7 DEF Took, Only, Turning
<1>14. CASE k <= Left(x) /\ x.q.state = "s_body_identity"
  <2>1. n = k
    BY <1>1, <1>7, <1>14, <1>15
  <2> DEFINE g == Go(y, "s_message_done")
             e == CALLBACK_DATA(g, "body", y.i)
             u == MessageComplete(e)
             t == [u EXCEPT !.i = @ + 1]
             w == <<"body", SubSeq(x.data, x.i, x.i + k - 1)>>
             h == <<"message_complete", <<>>>>
  <2>2. Byte(x) = u
    BY <1>1, <1>4, <1>5, <1>8, <1>9, <1>10, <1>14, <2>1
  <2>3. /\ g.q = [Rest(x.q, n) EXCEPT !.state = "s_message_done"]
        /\ g.i = y.i /\ g.data = x.data /\ g.out = x.out
        /\ g.run = TRUE /\ g.mark = Marks("body", x.i) /\ Places(g)
    BY <1>9 DEF Go, Places
  <2>4. [Rest(x.q, n) EXCEPT !.state = "s_message_done"] = WholeBody(x.q)
    BY <1>1, <2>1, ReadFacts DEF Rest, WholeBody
  <2> HIDE DEF g
  <2>5. /\ e.q = WholeBody(x.q) /\ e.i = y.i /\ e.data = x.data /\ e.out = Append(x.out, w)
        /\ e.run = TRUE /\ e.mark = Marks("none", 0) /\ Places(e)
    <3>1. "body" \in DataKinds /\ Marks("body", x.i)["body"] = x.i
      BY DEF DataKinds, Marks
    <3>2. g.mark["body"] # 0 /\ g.mark["body"] = x.i
      BY <1>1, <2>3, <3>1
    <3>3. e = [g EXCEPT !.out = Append(@, <<"body", SubSeq(g.data, g.mark["body"], y.i)>>),
                        !.mark["body"] = 0]
      BY <3>2 DEF CALLBACK_DATA
    <3>4. [Marks("body", x.i) EXCEPT !["body"] = 0] = Marks("none", 0)
      BY <3>1 DEF Marks, DataKinds
    <3>5. y.i = x.i + k - 1
      BY <1>9, <2>1
    <3>6. e.out = Append(g.out, <<"body", SubSeq(g.data, g.mark["body"], y.i)>>)
          /\ e.mark = [g.mark EXCEPT !["body"] = 0]
          /\ e.q = g.q /\ e.i = g.i /\ e.data = g.data /\ e.run = g.run
      BY <2>3, <2>4, <3>3, ZenonT(60) DEF Places
    <3>7. e.mark = Marks("none", 0)
      BY <2>3, <3>4, <3>6
    <3>8. e.out = Append(x.out, w)
      BY <2>3, <3>2, <3>5, <3>6
    <3>9. Places(e)
      <4>1. DOMAIN e = DOMAIN g
        BY <3>3
      <4>2. e.i = g.i /\ e.data = g.data
        BY <3>6
      <4> HIDE DEF e
      <4> QED BY <2>3, <4>1, <4>2 DEF Places
    <3> QED BY <2>3, <2>4, <3>6, <3>7, <3>8, <3>9
  <2> HIDE DEF e, w
  <2>6. /\ u.q = [WholeBody(x.q) EXCEPT !.state = NEW_MESSAGE(WholeBody(x.q))] /\ u.i = y.i
        /\ u.data = x.data /\ u.out = Append(Append(x.out, w), h)
        /\ u.run = TRUE /\ u.mark = Marks("none", 0) /\ Places(u)
    BY <2>5 DEF MessageComplete, CALLBACK_NOTIFY, Go, Places
  <2>7. [WholeBody(x.q) EXCEPT !.state = NEW_MESSAGE(WholeBody(x.q))] = Message(x.q)
    <3> DEFINE r == NEW_MESSAGE(WholeBody(x.q))
    <3> HIDE DEF r
    <3>1. [Read(x.q, k, "s_message_done") EXCEPT !.state = r] = Read(x.q, k, r)
      BY <1>1 DEF Read, Fields
    <3> QED BY <3>1 DEF Message, WholeBody, r
  <2> HIDE DEF u, h
  <2>8. Step(x) = t
    BY <1>1, <2>2, <2>6 DEF Step
  <2>9. /\ t.q = Message(x.q) /\ t.i = x.i + k /\ t.data = x.data
        /\ t.out = Append(Append(x.out, w), h)
        /\ t.run = TRUE /\ t.mark = Marks("none", 0)
    BY <1>1, <1>9, <2>1, <2>6, <2>7 DEF Places
  <2>10. Message(x.q).http_errno = "HPE_OK" /\ Message(x.q).upgrade = FALSE
    BY <1>1, ReadAt DEF Message
  <2> HIDE DEF t
  <2>11. /\ Took(x, Step(x)) /\ Step(x).q = Message(x.q)
         /\ Step(x).out = Append(Append(x.out, w), h)
         /\ Only(Step(x), "none", 0) /\ Step(x).i = x.i + k
    BY <1>1, <1>11, <2>8, <2>9, <2>10 DEF Took, Only, Turning
  <2> QED BY <1>1, <1>7, <1>14, <2>11 DEF w, h
<1>17. \/ k > Left(x)
       \/ k <= Left(x) /\ x.q.state = "s_chunk_data"
       \/ k <= Left(x) /\ x.q.state = "s_body_identity"
  BY <1>1, <1>7
<1> QED BY <1>12, <1>13, <1>14, <1>17

LEMMA TookMid ==
    ASSUME NEW x, NEW t, Mid(x), Took(x, t), t.out \in Seq(Events), t.i \in 1..(Len(x.data) + 1)
    PROVE  Mid(t)
BY DEF Mid, Took

LEMMA NewMessage ==
    ASSUME NEW q
    PROVE  Kind(NEW_MESSAGE(q)) = "none" /\ NEW_MESSAGE(q) \notin Taking
BY DEF NEW_MESSAGE, Kind, UrlStart, UrlInside, Taking

LEMMA Beyond ==
    ASSUME NEW c \in Seq(STRING), NEW d \in Seq(STRING), NEW k \in 1..(Len(d) + 1)
    PROVE  Len(c) + k \in 1..(Len(c \o d) + 1)
<1>1. Len(c \o d) = Len(c) + Len(d) /\ Len(c) \in Nat /\ Len(d) \in Nat
  BY ConcatProperties
<1> QED BY <1>1

LEMMA RunMarked ==
    ASSUME NEW c \in Seq(STRING), NEW d \in Seq(STRING), NEW s \in Seq(Events),
           NEW xo \in Seq(Events), NEW bo \in Seq(Events), NEW m, NEW n,
           Agree(c, s, xo, bo, "body", m, n), NEW x, NEW y, NEW b, NEW z,
           Mid(x), x.data = c \o d, Mid(b), b.data = d, Took(x, y), Took(b, z), z.q = y.q,
           y.out = xo, z.out = bo, Only(y, "body", m), Only(z, "body", n),
           y.i = Len(c) + z.i, z.i \in 1..(Len(d) + 1),
           \/ Kind(y.q.state) = "body"
           \/ z.i = Len(d) + 1 /\ y.q.state \in Taking
    PROVE  Running(c, d, s, y, z)
<1>2. y.i \in 1..(Len(c \o d) + 1)
  BY Beyond
<1>3. Mid(y) /\ Mid(z)
  BY <1>2, TookMid
<1>4. "body" \in Kinds
  BY DEF Kinds, DataKinds
<1>5. y.data = c \o d /\ z.data = d
  BY DEF Took
<1>6. Sim(c, d, s, y, z, "body", m, n)
  BY <1>3, <1>4, <1>5 DEF Sim
<1> QED BY <1>6 DEF Running

LEMMA RunTold ==
    ASSUME NEW c \in Seq(STRING), NEW d \in Seq(STRING), NEW s \in Seq(Events),
           NEW xo \in Seq(Events), NEW bo \in Seq(Events), NEW m, NEW n,
           Agree(c, s, xo, bo, "body", m, n), NEW x, NEW y, NEW b, NEW z,
           Mid(x), x.data = c \o d, Mid(b), b.data = d, Took(x, y), Took(b, z), z.q = y.q,
           NEW j \in 0..Len(d),
           NEW e \in Events, e[1] = "body", e[2] = SubSeq(c \o d, m, Len(c) + j),
           NEW g \in Events, g[1] = "body", g[2] = SubSeq(d, n, j), NEW h \in Events,
           y.out = Append(Append(xo, e), h), z.out = Append(Append(bo, g), h),
           Only(y, "none", 0), Only(z, "none", 0), Kind(y.q.state) = "none",
           y.i = Len(c) + z.i, z.i \in 1..(Len(d) + 1)
    PROVE  Running(c, d, s, y, z)
<1>2. y.i \in 1..(Len(c \o d) + 1)
  BY Beyond
<1>3. "body" \in DataKinds /\ "none" \in Kinds
  BY DEF Kinds, DataKinds
<1>4. Agree(c, s, Append(xo, e), Append(bo, g), "none", 0, 0)
  BY <1>3, AgreeEnd
<1>5. Append(xo, e) \in Seq(Events) /\ Append(bo, g) \in Seq(Events)
  OBVIOUS
<1>6. Agree(c, s, y.out, z.out, "none", 0, 0)
  BY <1>4, <1>5, AgreeTell
<1>7. y.out \in Seq(Events) /\ z.out \in Seq(Events)
  BY <1>5
<1>8. Mid(y) /\ Mid(z)
  BY <1>2, <1>7, TookMid
<1>9. y.data = c \o d /\ z.data = d
  BY DEF Took
<1>10. Sim(c, d, s, y, z, "none", 0, 0)
  BY <1>3, <1>6, <1>8, <1>9 DEF Sim
<1> QED BY <1>10 DEF Running

(* The places in a body of k units, of which the second of the two calls   *)
(* has v to read and the first l behind it.                                *)
Tally(C, D, X, B, l, k, v, L, R) ==
    /\ C \in Nat /\ D \in Nat /\ X \in Nat /\ B \in 1..D /\ l \in Nat /\ k \in Nat
    /\ v \in Nat \ {0} /\ v = k - l /\ X + l = C + B
    /\ L = C + D - X + 1 /\ R = D - B + 1

LEMMA Tallied ==
    ASSUME NEW C, NEW D, NEW X, NEW B, NEW l, NEW k, NEW v, NEW L, NEW R,
           Tally(C, D, X, B, l, k, v, L, R)
    PROVE  /\ L = l + R /\ L \in Nat
           /\ k > L <=> v > R
           /\ k <= L =>
                /\ v <= R
                /\ X + k = C + (B + v) /\ B + v \in 1..(D + 1) /\ B + v > B
                /\ X + k - 1 = C + (B + v - 1) /\ B + v - 1 \in 0..D /\ B <= B + v - 1
                /\ X <= C + (B + v - 1) /\ C + (B + v - 1) <= C + D
                /\ C + (B + v - 1) \in Nat
BY DEF Tally

(* Both take of a body what there is, of which the second of the two calls *)
(* has l units less to take.                                               *)
LEMMA BodyPair ==
    ASSUME NEW c \in Seq(STRING), NEW d \in Seq(STRING), NEW s \in Seq(Events),
           NEW x, NEW b, NEW q, NEW l \in Nat, Mid(x), Mid(b), Fields(q),
           x.data = c \o d, b.data = d, b.i \in 1..Len(d), x.i \in Nat,
           IF q.state = "s_body_identity_eof" THEN l = 0
           ELSE l < q.content_length /\ x.i + l = Len(c) + b.i, x.q = q, (b.q = q /\ l = 0) \/ b.q = Rest(q, l),
           Only(x, "none", 0), Only(b, "none", 0),
           x.i <= Len(c \o d), q.state \in Taking,
           Agree(c, s, x.out, b.out, "body", x.i, b.i)
    PROVE  Running(c, d, s, Step(x), Step(b)) /\ Step(b).i > b.i

<1> DEFINE y == Step(x)
           z == Step(b)
           k == q.content_length
           v == b.q.content_length
<1>1. /\ x.out \in Seq(Events) /\ b.out \in Seq(Events) /\ Len(c) \in Nat /\ Len(d) \in Nat
      /\ x.i \in Nat \ {0} /\ k \in Nat
  BY DEF Mid, Fields
<1>2. Len(c \o d) = Len(c) + Len(d) /\ c \o d \in Seq(STRING)
  BY ConcatProperties
<1>3. /\ b.q.state = q.state /\ v = k - l
      /\ Chunk(b.q) = Chunk(q) /\ Message(b.q) = Message(q)
      /\ \A n \in Nat : Rest(b.q, n) = Rest(q, l + n)
  <2>1. CASE b.q = q /\ l = 0
    BY <1>1, <2>1
  <2>2. CASE b.q = Rest(q, l)
    <3>1. b.q = Read(q, l, q.state) /\ Fields(b.q)
      BY <2>2 DEF Rest, Mid, Sound
    <3>2. b.q.state = q.state /\ v = k - l
      BY <3>1, ReadAt
    <3> HIDE DEF k, v
    <3>3. v \in Nat /\ l + v = k
      BY <1>1, <3>1, <3>2 DEF Fields, v
    <3>4. ASSUME NEW n \in Nat, NEW t PROVE Read(b.q, n, t) = Read(q, l + n, t)
      BY <3>1, ReadMore
    <3>5. \A t : Read(b.q, v, t) = Read(q, k, t)
      BY <3>3, <3>4
    <3>6. WholeBody(b.q) = WholeBody(q) /\ Chunk(b.q) = Chunk(q)
      BY <3>5 DEF WholeBody, Chunk, k, v
    <3>7. Message(b.q) = Message(q)
      BY <3>5, <3>6 DEF Message, k, v
    <3>8. \A n \in Nat : Rest(b.q, n) = Rest(q, l + n)
      BY <3>2, <3>4 DEF Rest
    <3> QED BY <3>2, <3>6, <3>7, <3>8
  <2> QED BY <2>1, <2>2
<1>4. /\ x.i <= Len(x.data) /\ b.i <= Len(b.data)
      /\ Left(b) \in Nat \ {0} /\ Left(b) = Len(d) - b.i + 1
  BY <1>1, SMTT(30) DEF Left
<1>5. CASE q.state = "s_body_identity_eof"
  <2>1. /\ Took(x, y) /\ y.q = Rest(q, 0) /\ y.out = x.out
        /\ Only(y, "body", x.i) /\ y.i = Len(x.data) + 1
    BY <1>4, <1>5, BodyEof
  <2>2. /\ Took(b, z) /\ z.q = Rest(b.q, 0) /\ z.out = b.out
        /\ Only(z, "body", b.i) /\ z.i = Len(b.data) + 1
    BY <1>3, <1>4, <1>5, BodyEof

  <2> HIDE DEF y, z, k, v
  <2>3. z.q = y.q /\ y.q.state = q.state /\ l = 0
    <3>1. l = 0 /\ 0 + 0 = 0
      BY <1>5
    <3>2. y.q.state = q.state
      BY <2>1, ReadAt DEF Rest
    <3> QED BY <1>3, <2>1, <2>2, <3>1, <3>2
  <2>4. y.i = Len(c) + z.i /\ z.i \in 1..(Len(d) + 1) /\ z.i = Len(d) + 1 /\ z.i > b.i
    BY <1>1, <1>2, <2>1, <2>2
  <2>5. Running(c, d, s, y, z)
    BY <1>1, <2>1, <2>2, <2>3, <2>4, RunMarked
  <2> QED BY <2>4, <2>5 DEF y, z
<1>6. CASE q.state \in {"s_chunk_data", "s_body_identity"}
  <2>1. /\ Took(x, y)
        /\ k > Left(x) =>
             /\ y.q = Rest(q, Left(x)) /\ y.out = x.out
             /\ Only(y, "body", x.i) /\ y.i = Len(x.data) + 1
        /\ k <= Left(x) /\ q.state = "s_chunk_data" =>
             /\ y.q = Chunk(q) /\ y.out = x.out
             /\ Only(y, "body", x.i) /\ y.i = x.i + k
        /\ k <= Left(x) /\ q.state = "s_body_identity" =>
             /\ y.q = Message(q)
             /\ y.out = Append(Append(x.out,
                    <<"body", SubSeq(x.data, x.i, x.i + k - 1)>>), <<"message_complete", <<>>>>)
             /\ Only(y, "none", 0) /\ y.i = x.i + k
    BY <1>4, <1>6, BodyTake
  <2>2. /\ Took(b, z) /\ v \in Nat \ {0}
        /\ v > Left(b) =>
             /\ z.q = Rest(b.q, Left(b)) /\ z.out = b.out
             /\ Only(z, "body", b.i) /\ z.i = Len(b.data) + 1
        /\ v <= Left(b) /\ q.state = "s_chunk_data" =>
             /\ z.q = Chunk(q) /\ z.out = b.out
             /\ Only(z, "body", b.i) /\ z.i = b.i + v
        /\ v <= Left(b) /\ q.state = "s_body_identity" =>
             /\ z.q = Message(q)
             /\ z.out = Append(Append(b.out,
                    <<"body", SubSeq(b.data, b.i, b.i + v - 1)>>), <<"message_complete", <<>>>>)
             /\ Only(z, "none", 0) /\ z.i = b.i + v
    BY <1>3, <1>4, <1>6, BodyTake
  <2> HIDE DEF y, z, k, v
  <2>8. Tally(Len(c), Len(d), x.i, b.i, l, k, v, Left(x), Left(b))
    <3>1. x.i + l = Len(c) + b.i
      BY <1>6
    <3>2. v = k - l /\ v \in Nat \ {0}
      BY <1>3, <2>2
    <3>3. k \in Nat
      BY <1>1
    <3>4. Left(x) = Len(c) + Len(d) - x.i + 1 /\ Left(b) = Len(d) - b.i + 1
      BY <1>2 DEF Left
    <3> QED BY <1>1, <3>1, <3>2, <3>3, <3>4 DEF Tally
  <2>3. /\ Left(x) = l + Left(b) /\ Left(x) \in Nat
        /\ k > Left(x) <=> v > Left(b)
        /\ k <= Left(x) =>
             /\ v <= Left(b)
             /\ x.i + k = Len(c) + (b.i + v) /\ b.i + v \in 1..(Len(d) + 1) /\ b.i + v > b.i
             /\ x.i + k - 1 = Len(c) + (b.i + v - 1) /\ b.i + v - 1 \in 0..Len(d)
             /\ b.i <= b.i + v - 1
             /\ x.i <= Len(c) + (b.i + v - 1) /\ Len(c) + (b.i + v - 1) <= Len(c) + Len(d)
             /\ Len(c) + (b.i + v - 1) \in Nat
    BY <2>8, Tallied
  <2>4. CASE k > Left(x)
    <3>1. /\ y.q = Rest(q, Left(x)) /\ y.out = x.out /\ Only(y, "body", x.i)
          /\ y.i = Len(x.data) + 1
      BY <2>1, <2>4
    <3>2. /\ z.q = Rest(b.q, Left(b)) /\ z.out = b.out /\ Only(z, "body", b.i)
          /\ z.i = Len(b.data) + 1
      BY <2>2, <2>3, <2>4
    <3>3. z.q = y.q
      <4>1. Rest(b.q, Left(b)) = Rest(q, l + Left(b)) 
        BY <1>3, <1>4
      <4> QED BY <2>3, <3>1, <3>2, <4>1
    <3>4. y.q.state \in Taking
      BY <3>1, ReadAt DEF Rest
    <3>5. y.i = Len(c) + z.i /\ z.i \in 1..(Len(d) + 1) /\ z.i = Len(d) + 1 /\ z.i > b.i
      BY <1>1, <1>2, <3>1, <3>2
    <3>6. Took(x, y) /\ Took(b, z)
      BY <2>1, <2>2
    <3>7. Running(c, d, s, y, z)
      BY <1>1, <3>1, <3>2, <3>3, <3>4, <3>5, <3>6, RunMarked
    <3> QED BY <3>5, <3>7 DEF y, z
  <2>5. CASE k <= Left(x) /\ q.state = "s_chunk_data"
    <3>1. y.q = Chunk(q) /\ y.out = x.out /\ Only(y, "body", x.i) /\ y.i = x.i + k
      BY <2>1, <2>5
    <3>0. v <= Left(b)
      BY <1>4, <2>3, <2>5
    <3>2. z.q = Chunk(q) /\ z.out = b.out /\ Only(z, "body", b.i) /\ z.i = b.i + v
      BY <2>2, <2>5, <3>0
    <3>3. Kind(y.q.state) = "body"
      BY <3>1, ReadAt, HeaderKinds DEF Chunk
    <3>4. y.i = Len(c) + z.i /\ z.i \in 1..(Len(d) + 1) /\ z.i > b.i
      BY <2>3, <2>5, <3>1, <3>2
    <3>5. Took(x, y) /\ Took(b, z)
      BY <2>1, <2>2
    <3>6. Running(c, d, s, y, z)
      BY <1>1, <3>1, <3>2, <3>3, <3>4, <3>5, RunMarked
    <3> QED BY <3>4, <3>6 DEF y, z
  <2>6. CASE k <= Left(x) /\ q.state = "s_body_identity"
    <3> DEFINE j == b.i + v - 1
               e == <<"body", SubSeq(c \o d, x.i, Len(c) + j)>>
               g == <<"body", SubSeq(d, b.i, j)>>
               h == <<"message_complete", <<>>>>
    <3>0. v <= Left(b)
      BY <1>4, <2>3, <2>6
    <3>1. j \in 0..Len(d) /\ x.i + k - 1 = Len(c) + j /\ j \in b.i..Len(d)
      BY <2>3, <2>6
    <3>2. /\ y.q = Message(q) /\ Only(y, "none", 0) /\ y.i = x.i + k
          /\ y.out = Append(Append(x.out, e), h)
      BY <2>1, <2>6, <3>1
    <3>3. /\ z.q = Message(q) /\ Only(z, "none", 0) /\ z.i = b.i + v
          /\ z.out = Append(Append(b.out, g), h)
      BY <2>2, <2>6, <3>0
    <3>4. SubSeq(c \o d, x.i, Len(c) + j) \in Seq(STRING) /\ SubSeq(d, b.i, j) \in Seq(STRING)
      <4>1. x.i <= Len(c) + j /\ Len(c) + j <= Len(c \o d) /\ Len(c) + j \in Nat
        BY <1>2, <2>3, <2>6
      <4>2. x.i \in 1..Len(c \o d) /\ Len(c) + j \in x.i..Len(c \o d)
        BY <1>1, <4>1
      <4>3. b.i \in 1..Len(d) /\ j \in b.i..Len(d)
        BY <3>1
      <4> HIDE DEF j
      <4> QED BY <1>2, <4>2, <4>3, SubSeqProperties, SMTT(30)
    <3>5. e \in Events /\ g \in Events /\ h \in Events
      BY <3>4, EventParts DEF Callbacks, DataKinds
    <3>6. e[1] = "body" /\ e[2] = SubSeq(c \o d, x.i, Len(c) + j)
          /\ g[1] = "body" /\ g[2] = SubSeq(d, b.i, j)
      OBVIOUS
    <3>7. Kind(y.q.state) = "none"
      <4>1. y.q.state = NEW_MESSAGE(WholeBody(q))
        BY <3>2, ReadAt DEF Message
      <4> QED BY <4>1, NewMessage
    <3>8. y.i = Len(c) + z.i /\ z.i \in 1..(Len(d) + 1) /\ z.i > b.i
      BY <2>3, <2>6, <3>2, <3>3
    <3>9. Took(x, y) /\ Took(b, z) /\ z.q = y.q
      BY <2>1, <2>2, <3>2, <3>3
    <3> HIDE DEF e, g, h, j
    <3>10. Running(c, d, s, y, z)
      BY <1>1, <3>1, <3>2, <3>3, <3>5, <3>6, <3>7, <3>8, <3>9, RunTold, ZenonT(90)
    <3> QED BY <3>8, <3>10 DEF y, z
  <2>7. k \in Nat /\ Left(x) \in Nat
    BY <1>1, <2>3 DEF k
  <2> QED BY <1>6, <2>4, <2>5, <2>6, <2>7
<1> QED BY <1>5, <1>6 DEF Taking

(* A body is taken alike by the one call and by the second of the two. *)
LEMMA SimBody ==
    ASSUME NEW c \in Seq(STRING), NEW d \in Seq(STRING), NEW s \in Seq(Events),
           NEW x, NEW b, NEW m, NEW n, Sim(c, d, s, x, b, "none", m, n),
           b.i <= Len(d), x.q.state \in Taking
    PROVE  Running(c, d, s, Step(x), Step(b)) /\ Step(b).i > b.i
<1>1. /\ Mid(x) /\ Mid(b) /\ b.q = x.q /\ x.data = c \o d /\ b.data = d
      /\ x.i = Len(c) + b.i /\ b.i \in 1..Len(d) /\ Len(c) \in Nat
      /\ Fields(x.q) /\ Ready(x.q, 0)
      /\ Merge(<<>>, x.out) = Merge(s, b.out)
  BY DEF Sim, Mid, Agree, Own, Carried, Sound
<1>2. Only(x, "none", 0) /\ Only(b, "none", 0)
  BY MarksFacts DEF Sim, Only
<1>3. x.i <= Len(c \o d) /\ x.i \in Nat /\ x.i + 0 = Len(c) + b.i
  <2>1. Len(c \o d) = Len(c) + Len(d)
    BY ConcatProperties
  <2> QED BY <1>1, <2>1
<1>4. x.q.state # "s_body_identity_eof" => 0 < x.q.content_length
  BY <1>1 DEF Ready, Fields, Taking
<1>5. Agree(c, s, x.out, b.out, "body", x.i, b.i)
  BY <1>1 DEF Agree, Own
<1> QED BY <1>1, <1>2, <1>3, <1>4, <1>5, BodyPair

LEMMA RunningStep ==
    ASSUME NEW c \in Seq(STRING), NEW d \in Seq(STRING), NEW s \in Seq(Events),
           NEW x, NEW b, Running(c, d, s, x, b), b.i <= Len(d)
    PROVE  \/ Stop(c, s, Step(x), Step(b))
           \/ Running(c, d, s, Step(x), Step(b)) /\ Step(b).i \in Nat /\ Step(b).i > b.i
<1>1. PICK f, m, n :
        /\ Sim(c, d, s, x, b, f, m, n)
        /\ \/ f = Kind(x.q.state)
           \/ b.i = Len(d) + 1 /\ f = "body" /\ x.q.state \in Taking
  BY DEF Running
<1>2. b.i \in Nat /\ Len(d) \in Nat /\ x.q.state \in States
  BY <1>1 DEF Sim, Mid, Sound, Ready
<1>3. f = Kind(x.q.state)
  BY <1>1, <1>2
<1>4. ASSUME Running(c, d, s, Step(x), Step(b)) PROVE Step(b).i \in Nat
  BY <1>4 DEF Running, Sim, Mid
<1>5. CASE x.q.state \in Unitwise
  <2>1. Sim(c, d, s, x, b, Kind(x.q.state), m, n)
    BY <1>1, <1>3
  <2>2. \/ Stop(c, s, Step(x), Step(b))
        \/ Running(c, d, s, Step(x), Step(b)) /\ Step(b).i = b.i + 1
    BY <1>5, <2>1, SimUnit
  <2> QED BY <1>2, <2>2
<1>6. CASE x.q.state \in Taking
  <2>1. f = "none"
    BY <1>3, <1>6, HeaderKinds DEF Taking
  <2> QED BY <1>1, <1>4, <1>6, <2>1, SimBody
<1> QED BY <1>2, <1>5, <1>6, StateSplit

(* Turns that change nothing any more *)
Finished(x) == x.run = FALSE \/ x.i > Len(x.data)

LEMMA FinishedStays ==
    ASSUME NEW x, NEW m \in Nat, Finished(Turns(x)[m])
    PROVE  \A n \in Nat : Turns(x)[m + n] = Turns(x)[m]
<1> DEFINE y == Turns(x)[m]
           T == {n \in Nat : Turns(x)[m + n] = y}
<1>1. 0 \in T
  OBVIOUS
<1>2. Step(y) = y
  BY DEF Step, Finished
<1>3. ASSUME NEW n \in T PROVE n + 1 \in T
  <2>1. Turns(x)[(m + n) + 1] = Step(Turns(x)[m + n]) /\ m + (n + 1) = (m + n) + 1
    BY TurnsDef
  <2> HIDE DEF y
  <2>2. Turns(x)[m + n] = y
    BY <1>3
  <2> QED BY <1>2, <2>1, <2>2
<1> HIDE DEF T
<1>4. \A n \in Nat : n \in T
  BY <1>1, <1>3, SetInduction DEF T
<1> QED BY <1>4 DEF T

(* Both turn together to the end of d, from wherever they began. *)
Together(c, d, s, x, b, n) ==
    \/ Stop(c, s, x, b)
    \/ Running(c, d, s, x, b) /\ (b.i > Len(d) \/ b.i > n)

LEMMA RunTogether ==
    ASSUME NEW c \in Seq(STRING), NEW d \in Seq(STRING), NEW s \in Seq(Events),
           NEW x, NEW b, NEW m \in Nat, NEW r \in Nat,
           Together(c, d, s, Turns(x)[m], Turns(b)[r], r)
    PROVE  \A n \in Nat : Together(c, d, s, Turns(x)[m + n], Turns(b)[r + n], r + n)
<1> DEFINE X == Turns(x)
           B == Turns(b)
           T == {n \in Nat : Together(c, d, s, X[m + n], B[r + n], r + n)}
<1>1. 0 \in T
  OBVIOUS
<1>2. ASSUME NEW n \in T PROVE n + 1 \in T
  <2> DEFINE y == X[m + n]
             z == B[r + n]
  <2>0. m + n \in Nat /\ r + n \in Nat /\ m + (n + 1) = (m + n) + 1
        /\ r + (n + 1) = (r + n) + 1
    OBVIOUS
  <2>1. /\ X[(m + n) + 1] = Step(y) /\ m + (n + 1) = (m + n) + 1
        /\ B[(r + n) + 1] = Step(z) /\ r + (n + 1) = (r + n) + 1
    BY <2>0, TurnsDef
  <2>2. Together(c, d, s, y, z, r + n)
    BY <1>2
  <2> HIDE DEF y, z, X, B
  <2>3. Together(c, d, s, Step(y), Step(z), (r + n) + 1)
    <3>1. CASE Stop(c, s, y, z)
      <4>1. Step(y) = y /\ Step(z) = z
        BY <3>1 DEF Stop, Step
      <4> QED BY <3>1, <4>1 DEF Together
    <3>2. CASE Running(c, d, s, y, z) /\ z.i > Len(d)
      <4>1. /\ y.data = c \o d /\ z.data = d /\ y.i = Len(c) + z.i /\ z.i \in Nat
            /\ Len(c) \in Nat /\ Len(d) \in Nat
        BY <3>2, SMTT(30) DEF Running, Sim, Mid
      <4>2. Len(c \o d) = Len(c) + Len(d)
        BY ConcatProperties
      <4>3. y.i > Len(y.data) /\ z.i > Len(z.data)
        BY <3>2, <4>1, <4>2
      <4>4. Step(y) = y /\ Step(z) = z
        BY <4>3 DEF Step
      <4> QED BY <3>2, <4>4 DEF Together
    <3>3. CASE Running(c, d, s, y, z) /\ z.i <= Len(d) /\ z.i > r + n
      <4>1. \/ Stop(c, s, Step(y), Step(z))
            \/ Running(c, d, s, Step(y), Step(z)) /\ Step(z).i \in Nat /\ Step(z).i > z.i
        BY <3>3, RunningStep
      <4>2. z.i \in Nat
        BY <3>3 DEF Running, Sim, Mid
      <4>3. Step(z).i \in Nat /\ Step(z).i > z.i => Step(z).i > (r + n) + 1
        BY <3>3, <4>2
      <4> QED BY <4>1, <4>3 DEF Together
    <3>4. ASSUME Running(c, d, s, y, z) PROVE z.i \in Nat /\ Len(d) \in Nat
      BY <3>4 DEF Running, Sim, Mid
    <3> QED BY <2>2, <3>1, <3>2, <3>3, <3>4 DEF Together
  <2>4. Together(c, d, s, X[m + (n + 1)], B[r + (n + 1)], r + (n + 1))
    BY <2>1, <2>3
  <2> QED BY <2>4
<1> HIDE DEF T
<1>3. \A n \in Nat : n \in T
  BY <1>1, <1>2, SetInduction DEF T
<1> QED BY <1>3 DEF T

(* So the loops end together, if the one call is not late. *)
LEMMA LoopsEnd ==
    ASSUME NEW c \in Seq(STRING), NEW d \in Seq(STRING), NEW s \in Seq(Events),
           NEW x, NEW b, x.data = c \o d, b.data = d, NEW m \in Nat, NEW r \in Nat,
           r <= Len(d), m <= Len(c) + r,
           Together(c, d, s, Turns(x)[m], Turns(b)[r], r)
    PROVE  \/ Stop(c, s, Loop(x), Loop(b))
           \/ Running(c, d, s, Loop(x), Loop(b)) /\ Loop(b).i > Len(d)
<1> DEFINE n == Len(d) - r
           y == Turns(x)[m + n]
           z == Turns(b)[r + n]
           k == Len(c) + Len(d) - (m + n)
<1>1. Len(c) \in Nat /\ Len(d) \in Nat /\ Len(c \o d) = Len(c) + Len(d)
  BY ConcatProperties
<1>2. n \in Nat /\ r + n = Len(d) /\ m + n \in Nat /\ k \in Nat
      /\ (m + n) + k = Len(c \o d)
  BY <1>1
<1> HIDE DEF n, k
<1>3. Together(c, d, s, y, z, Len(d))
  BY <1>2, RunTogether, ZenonT(60)
<1>4. z = Loop(b)
  BY <1>2 DEF Loop
<1>5. Turns(x)[(m + n) + k] = Loop(x)
  BY <1>2 DEF Loop
<1>6. \/ Stop(c, s, y, z)
      \/ Running(c, d, s, y, z) /\ z.i > Len(d)
  BY <1>3 DEF Together
<1> HIDE DEF z
<1>7. Finished(y)
  <2>1. CASE Stop(c, s, y, z)
    BY <2>1 DEF Stop, Finished
  <2>2. CASE Running(c, d, s, y, z) /\ z.i > Len(d)
    <3>1. y.data = c \o d /\ y.i = Len(c) + z.i /\ z.i \in Nat
      BY <2>2 DEF Running, Sim, Mid
    <3> QED BY <1>1, <2>2, <3>1 DEF Finished
  <2> QED BY <1>6, <2>1, <2>2
<1>8. Turns(x)[(m + n) + k] = y
  BY <1>2, <1>7, FinishedStays
<1> HIDE DEF y
<1> QED BY <1>4, <1>5, <1>6, <1>8

-------------------------------------------------------------------------------
(* Before the end of c the one call and the first of the two are the same. *)
Call(q, data) == [q |-> q, data |-> data, i |-> 1, mark |-> EntryMarks(q),
                  out |-> <<>>, run |-> TRUE]

Same(c, d, x, a, m) ==
    /\ Mid(x) /\ Mid(a) /\ a.q = x.q /\ x.data = c \o d /\ a.data = c
    /\ x.i = a.i /\ x.out = a.out
    /\ Only(x, Kind(x.q.state), m) /\ Only(a, Kind(x.q.state), m)
    /\ Kind(x.q.state) # "none" => m \in 1..(a.i - 1)
Halted(x, a) ==
    /\ x.run = FALSE /\ a.run = FALSE /\ a.q = x.q /\ x.out = a.out /\ a.out \in Seq(Events)
    /\ x.q.http_errno # "HPE_OK" \/ x.q.upgrade

(* What the call has of a body is used up, and the next read brings what   *)
(* the one call has of it.                                                 *)
Ahead(c, d, x, a, m) ==
    /\ Mid(a) /\ a.i = Len(c) + 1 /\ a.data = c /\ Only(a, "body", m) /\ m \in 1..Len(c)
    /\ \E e \in Events :
         /\ e[1] = "body" /\ e[2] = SubSeq(c, m, Len(c))
         /\ Running(c, d, Merge(<<>>, Append(a.out, e)), x, Step(Call(a.q, d)))
    /\ Step(Call(a.q, d)).i > 1

LEMMA Beginning ==
    ASSUME NEW c \in Seq(STRING), NEW d \in Seq(STRING), NEW m \in Nat \ {0}, NEW j \in 0..Len(c)
    PROVE  SubSeq(c \o d, m, j) = SubSeq(c, m, j) /\ SubSeq(c, m, j) \in Seq(STRING)
<1> DEFINE e == c \o d
           u == SubSeq(e, m, j)
           v == SubSeq(c, m, j)
<1>1. /\ e \in Seq(STRING) /\ Len(e) = Len(c) + Len(d) /\ \A i \in 1..Len(c) : e[i] = c[i]
  BY ConcatProperties
<1> HIDE DEF e
<1>2. CASE m > j
  <2>1. u = <<>> /\ v = <<>>
    BY <1>2, SubSeqEmpty
  <2> QED BY <2>1 DEF e
<1>3. CASE m <= j
  <2>1. /\ u \in Seq(STRING) /\ Len(u) = j - m + 1 /\ \A i \in 1..(j - m + 1) : u[i] = e[m + i - 1]
    <3>1. \A i \in m..j : e[i] \in STRING
      BY <1>1
    <3> QED BY <1>3, <3>1, SubSeqProperties
  <2>2. /\ v \in Seq(STRING) /\ Len(v) = j - m + 1 /\ \A i \in 1..(j - m + 1) : v[i] = c[m + i - 1]
    <3>1. \A i \in m..j : c[i] \in STRING
      OBVIOUS
    <3> QED BY <1>3, <3>1, SubSeqProperties
  <2> HIDE DEF u, v
  <2>3. ASSUME NEW i \in 1..(j - m + 1) PROVE u[i] = v[i]
    <3>1. m + i - 1 \in 1..Len(c)
      BY <1>3
    <3> QED BY <1>1, <2>1, <2>2, <3>1
  <2>4. u = v
    BY <2>1, <2>2, <2>3, SeqEqual
  <2> QED BY <2>2, <2>4 DEF u, v, e
<1> QED BY <1>2, <1>3

LEMMA SameAt ==
    ASSUME NEW c \in Seq(STRING), NEW d \in Seq(STRING), NEW x, NEW a, NEW m,
           Same(c, d, x, a, m), a.i <= Len(c)
    PROVE  /\ Twins(x, a) /\ x.i # 0 /\ a.i # 0 /\ x.data[x.i] = a.data[a.i]
           /\ x.i <= Len(x.data) /\ a.i <= Len(a.data)
<1> DEFINE k == Kind(x.q.state)
<1>1. /\ Mid(x) /\ Mid(a) /\ a.q = x.q /\ x.data = c \o d /\ a.data = c
      /\ x.i = a.i /\ Only(x, k, m) /\ Only(a, k, m) /\ a.i \in Nat \ {0}
      /\ k # "none" => m \in Nat \ {0}
  BY DEF Same, Mid
<1>2. At(x) /\ At(a)
  BY <1>1, MidAt
<1>3. /\ Len(c \o d) = Len(c) + Len(d) /\ Len(c) \in Nat /\ Len(d) \in Nat
      /\ \A i \in 1..Len(c) : (c \o d)[i] = c[i]
  BY ConcatProperties
<1> HIDE DEF k
<1>4. a.i \in 1..Len(c) /\ a.i <= Len(c \o d)
  BY <1>1, <1>3
<1> QED BY <1>1, <1>2, <1>3, <1>4 DEF Twins

(* What a unit makes of that *)
LEMMA SameMoves ==
    ASSUME NEW c \in Seq(STRING), NEW d \in Seq(STRING), NEW x, NEW a, NEW m,
           Same(c, d, x, a, m), a.i <= Len(c),
           NEW u, NEW v, Alike(x, a, u, v), u.q.http_errno = "HPE_OK"
    PROVE  /\ u.out = v.out /\ u.out \in Seq(Events)
           /\ \E p : /\ Only(u, Kind(u.q.state), p) /\ Only(v, Kind(u.q.state), p)
                     /\ Kind(u.q.state) # "none" => p \in 1..a.i
<1> DEFINE k == Kind(x.q.state)
           l == Kind(u.q.state)
           G(p) == /\ u.out = v.out /\ u.out \in Seq(Events)
                   /\ Only(u, l, p) /\ Only(v, l, p)
                   /\ l # "none" => p \in 1..a.i
<1>1. /\ x.out \in Seq(Events) /\ a.out = x.out /\ a.i \in Nat \ {0} /\ x.i = a.i
      /\ x.data = c \o d /\ a.data = c /\ Len(c) \in Nat
      /\ x.mark = Marks(k, m) /\ a.mark = Marks(k, m)
      /\ k # "none" => m \in 1..(a.i - 1)
  BY DEF Same, Mid, Only
<1>2. "none" \notin DataKinds /\ v.q = u.q
  BY DEF DataKinds, Alike
<1> HIDE DEF k, l
<1>3. ASSUME Rests(x, u), Rests(a, v)
      PROVE  G(m)
  <2>1. l = k /\ u.out = x.out /\ v.out = a.out /\ u.mark = x.mark /\ v.mark = a.mark
    BY <1>3 DEF Rests, k, l
  <2> QED BY <1>1, <2>1 DEF Only
<1>4. ASSUME NEW f \in DataKinds, Begins(x, u, f), Begins(a, v, f)
      PROVE  G(a.i)
  <2>1. k = "none" /\ l = f /\ u.out = x.out /\ v.out = a.out
    BY <1>4 DEF Begins, k, l
  <2>2. u.mark = Marks(f, a.i) /\ v.mark = Marks(f, a.i)
    <3>1. u.mark = [Marks("none", m) EXCEPT ![f] = a.i]
          /\ v.mark = [Marks("none", m) EXCEPT ![f] = a.i]
      BY <1>1, <1>4, <2>1 DEF Begins
    <3> HIDE DEF l, k
    <3> QED BY <3>1, MarksFacts
  <2> QED BY <1>1, <2>1, <2>2 DEF Only
<1>5. ASSUME NEW f \in DataKinds, Closes(x, u, f), Closes(a, v, f)
      PROVE  G(0)
  <2> DEFINE e == <<f, SubSeq(c, m, a.i - 1)>>
  <2>1. k = f /\ l = "none"
    BY <1>5 DEF Closes, k, l
  <2>2. x.mark[f] = m /\ a.mark[f] = m
    BY <1>1, <2>1, MarksFacts
  <2>3. u.mark = Marks("none", 0) /\ v.mark = Marks("none", 0)
    BY <1>1, <1>5, <2>1, MarksFacts DEF Closes
  <2>4. m \in Nat \ {0} /\ a.i - 1 \in 0..Len(c)
    BY <1>1, <1>2, <2>1
  <2>5. SubSeq(c \o d, m, a.i - 1) = SubSeq(c, m, a.i - 1)
        /\ SubSeq(c, m, a.i - 1) \in Seq(STRING)
    BY <2>4, Beginning
  <2>6. v.out = Append(a.out, e)
    BY <1>1, <1>5, <2>2 DEF Closes
  <2>7. u.out = Append(x.out, e)
    <3>1. u.out = Append(x.out, <<f, SubSeq(c \o d, m, a.i - 1)>>)
      BY <1>1, <1>5, <2>2 DEF Closes
    <3> QED BY <2>5, <3>1
  <2>8. e \in Events
    BY <2>5, EventParts DEF Callbacks
  <2> HIDE DEF e
  <2> QED BY <1>1, <2>1, <2>3, <2>6, <2>7, <2>8 DEF Only
<1>6. ASSUME NEW e \in Events, Tells(x, u, e), Tells(a, v, e)
      PROVE  G(m)
  BY <1>1, <1>6 DEF Tells, Only, k, l
<1>7. ASSUME NEW e \in Events, NEW f \in Events, TellsTwo(x, u, e, f), TellsTwo(a, v, e, f)
      PROVE  G(m)
  BY <1>1, <1>7 DEF TellsTwo, Only, k, l
<1>8. \/ Rests(x, u) /\ Rests(a, v)
      \/ \E f \in DataKinds : Begins(x, u, f) /\ Begins(a, v, f)
      \/ \E f \in DataKinds : Closes(x, u, f) /\ Closes(a, v, f)
      \/ \E e \in Events : Tells(x, u, e) /\ Tells(a, v, e)
      \/ \E e, f \in Events : TellsTwo(x, u, e, f) /\ TellsTwo(a, v, e, f)
  BY DEF Alike, Fails
<1>9. \E p : G(p)
  <2> HIDE DEF G
  <2> QED BY <1>3, <1>4, <1>5, <1>6, <1>7, <1>8
<1> QED BY <1>9 DEF l

LEMMA SameUnit ==
    ASSUME NEW c \in Seq(STRING), NEW d \in Seq(STRING), NEW x, NEW a, NEW m,
           Same(c, d, x, a, m), a.i <= Len(c), x.q.state \in Unitwise
    PROVE  \/ Halted(Step(x), Step(a))
           \/ (\E p : Same(c, d, Step(x), Step(a), p)) /\ Step(a).i = a.i + 1
<1> DEFINE u == Byte(x)
           v == Byte(a)
           y == Step(x)
           z == Step(a)
<1>1. /\ Mid(x) /\ Mid(a) /\ x.data = c \o d /\ a.data = c /\ x.i = a.i /\ x.out = a.out
      /\ a.out \in Seq(Events) /\ a.i \in Nat \ {0} /\ Len(c) \in Nat
  BY DEF Same, Mid
<1>2. /\ Twins(x, a) /\ x.i # 0 /\ a.i # 0 /\ x.data[x.i] = a.data[a.i]
      /\ x.i <= Len(x.data) /\ a.i <= Len(a.data)
  BY SameAt
<1>3. Alike(x, a, u, v)
  BY <1>2, ByteAlike
<1>4. /\ Fails(x, u) => y.run = FALSE /\ y.q = u.q /\ y.out = x.out
      /\ Goes(x, u) /\ u.q.upgrade => y.run = FALSE /\ y.q = u.q /\ y.out = u.out
      /\ Goes(x, u) /\ ~u.q.upgrade =>
           /\ y.run = TRUE /\ y.q = u.q /\ y.out = u.out /\ y.i = x.i + 1
           /\ y.data = x.data /\ y.mark = u.mark /\ Places(y) /\ Sound(y.q)
  BY <1>1, <1>2, UnitStep
<1>5. /\ Fails(a, v) => z.run = FALSE /\ z.q = v.q /\ z.out = a.out
      /\ Goes(a, v) /\ v.q.upgrade => z.run = FALSE /\ z.q = v.q /\ z.out = v.out
      /\ Goes(a, v) /\ ~v.q.upgrade =>
           /\ z.run = TRUE /\ z.q = v.q /\ z.out = v.out /\ z.i = a.i + 1
           /\ z.data = a.data /\ z.mark = v.mark /\ Places(z) /\ Sound(z.q)
  BY <1>1, <1>2, UnitStep
<1> HIDE DEF u, v, y, z
<1>6. v.q = u.q
  BY <1>3 DEF Alike
<1>7. CASE Fails(x, u) /\ Fails(a, v)
  <2>1. u.q.http_errno # "HPE_OK"
    BY <1>7 DEF Fails
  <2>2. Halted(y, z)
    BY <1>1, <1>4, <1>5, <1>6, <1>7, <2>1 DEF Halted
  <2> QED BY <2>2 DEF y, z
<1>8. CASE Goes(x, u) /\ Goes(a, v)
  <2>1. u.q.http_errno = "HPE_OK"
    BY <1>8 DEF Goes
  <2> DEFINE k == Kind(u.q.state)
  <2>2. /\ u.out = v.out /\ u.out \in Seq(Events)
        /\ \E p : /\ Only(u, k, p) /\ Only(v, k, p)
                  /\ k # "none" => p \in 1..a.i
    BY <1>3, <2>1, SameMoves
  <2>3. CASE u.q.upgrade
    <3>1. Halted(y, z)
      BY <1>4, <1>5, <1>6, <1>8, <2>2, <2>3 DEF Halted
    <3> QED BY <3>1 DEF y, z
  <2>4. CASE ~u.q.upgrade
    <3>1. u.q.upgrade = FALSE
      BY <1>8, <2>4 DEF Goes
    <3>2. /\ y.run = TRUE /\ y.q = u.q /\ y.out = u.out /\ y.i = x.i + 1
          /\ y.data = x.data /\ y.mark = u.mark /\ Places(y) /\ Sound(y.q)
          /\ z.run = TRUE /\ z.q = u.q /\ z.out = v.out /\ z.i = a.i + 1
          /\ z.data = a.data /\ z.mark = v.mark /\ Places(z) /\ Sound(z.q)
      BY <1>4, <1>5, <1>6, <1>8, <2>4
    <3>3. PICK p : /\ Only(u, k, p) /\ Only(v, k, p)
                   /\ k # "none" => p \in 1..a.i
      BY <2>2
    <3> HIDE DEF k
    <3>4. Mid(y) /\ Mid(z)
      <4>1. /\ x.data \in Seq(STRING) /\ x.i \in 1..(Len(x.data) + 1)
            /\ a.data \in Seq(STRING) /\ a.i \in 1..(Len(a.data) + 1)
        BY <1>1 DEF Mid
      <4>2. x.i + 1 \in 1..(Len(x.data) + 1) /\ a.i + 1 \in 1..(Len(a.data) + 1)
        BY <1>2, <4>1, SMTT(30)
      <4> QED BY <2>1, <2>2, <3>1, <3>2, <4>1, <4>2 DEF Mid
    <3>5. k # "none" => p \in 1..(z.i - 1)
      BY <1>1, <3>2, <3>3
    <3>6. k = Kind(y.q.state) /\ Only(y, k, p) /\ Only(z, k, p)
      BY <3>2, <3>3 DEF k, Only
    <3>7. Same(c, d, y, z, p)
      BY <1>1, <2>2, <3>2, <3>4, <3>5, <3>6 DEF Same
    <3> QED BY <3>2, <3>7 DEF y, z
  <2> QED BY <2>3, <2>4
<1> QED BY <1>3, <1>7, <1>8 DEF Alike

(* A call that begins in the middle of a body *)
Opened(q, x, data) ==
    /\ Mid(x) /\ x.q = q /\ x.data = data /\ x.i = 1 /\ x.out = <<>>
    /\ Kind(q.state) # "body" => Only(x, Kind(q.state), 1)
    /\ Kind(q.state) = "body" => Only(x, "none", 0)

LEMMA CallMid ==
    ASSUME NEW q, NEW d \in Seq(STRING), Sound(q), q.http_errno = "HPE_OK", q.upgrade = FALSE
    PROVE  Opened(q, Call(q, d), d)
<1>1. 1 \in 1..(Len(d) + 1) /\ <<>> \in Seq(Events)
  OBVIOUS
<1>2. Mid(Call(q, d))
  BY <1>1 DEF Mid, Call, Places
<1>3. \A f \in DataKinds :
         EntryMarks(q)[f] = IF f = Kind(q.state) /\ f # "body" THEN 1 ELSE 0
  BY DEF EntryMarks, Kind, DataKinds, UrlStart, UrlInside
<1>4. EntryMarks(q) = [f \in DataKinds |-> EntryMarks(q)[f]]
  BY DEF EntryMarks, DataKinds
<1>5. /\ Kind(q.state) # "body" => EntryMarks(q) = Marks(Kind(q.state), 1)
      /\ Kind(q.state) = "body" => EntryMarks(q) = Marks("none", 0)
  <2> DEFINE g == EntryMarks(q)
  <2> HIDE DEF g
  <2>1. /\ g = [f \in DataKinds |-> g[f]]
        /\ \A f \in DataKinds : g[f] = IF f = Kind(q.state) /\ f # "body" THEN 1 ELSE 0
    BY <1>3, <1>4 DEF g
  <2>2. Kind(q.state) # "body" => g = Marks(Kind(q.state), 1)
    BY <2>1 DEF Marks
  <2>3. Kind(q.state) = "body" => g = Marks("none", 0)
    <3>1. "none" \notin DataKinds
      BY DEF DataKinds
    <3> QED BY <2>1, <3>1 DEF Marks
  <2> QED BY <2>2, <2>3 DEF g
<1> QED BY <1>2, <1>5 DEF Call, Only, Opened

LEMMA SameBody ==
    ASSUME NEW c \in Seq(STRING), NEW d \in Seq(STRING), d # <<>>, NEW x, NEW a, NEW m,
           Same(c, d, x, a, m), a.i <= Len(c), x.q.state \in Taking
    PROVE  \/ (\E p : Same(c, d, Step(x), Step(a), p)) /\ Step(a).i \in Nat /\ Step(a).i > a.i
           \/ Ahead(c, d, Step(x), Step(a), a.i)
<1> DEFINE q == a.q
           k == q.content_length
           y == Step(x)
           z == Step(a)
           b == Call(z.q, d)
           e == <<"body", SubSeq(c, a.i, Len(c))>>
           s == Merge(<<>>, Append(a.out, e))
<1>1. /\ Mid(x) /\ Mid(a) /\ x.q = q /\ x.data = c \o d /\ a.data = c /\ x.i = a.i
      /\ x.out = a.out /\ a.out \in Seq(Events) /\ a.i \in 1..Len(c)
      /\ Len(c) \in Nat /\ Fields(q) /\ Ready(q, 0) /\ k \in Nat /\ q.state \in Taking
  BY DEF Same, Mid, Sound, Fields
<1>2. Only(x, "none", 0) /\ Only(a, "none", 0)
  <2>1. Kind(x.q.state) = "none"
    BY HeaderKinds DEF Taking
  <2> QED BY <2>1, MarksFacts DEF Same, Only
<1>3. Len(d) \in Nat \ {0} /\ Len(c \o d) = Len(c) + Len(d)
  BY ConcatProperties
<1>4. a.i <= Len(a.data) /\ x.i <= Len(x.data) /\ a.i <= Len(c \o d)
      /\ Left(a) = Len(c) - a.i + 1 /\ Left(a) \in Nat \ {0} /\ Left(a) <= Left(x)
      /\ Left(x) \in Nat
  BY <1>1, <1>3 DEF Left
<1>5. SubSeq(c, a.i, Len(c)) \in Seq(STRING)
  BY <1>1, Beginning
<1>6. e \in Events /\ e[1] = "body" /\ e[2] = SubSeq(c, a.i, Len(c))
  BY <1>5, EventParts DEF Callbacks, DataKinds
<1>7. s \in Seq(Events) /\ s = Adjoin(Merge(<<>>, a.out), e)
  <2>1. <<>> \in Seq(Events)
    OBVIOUS
  <2>2. Append(a.out, e) \in Seq(Events)
    BY <1>1, <1>6
  <2> HIDE DEF e
  <2>3. Merge(<<>>, Append(a.out, e)) \in Seq(Events)
    BY <2>1, <2>2, MergeType
  <2>4. Merge(<<>>, Append(a.out, e)) = Adjoin(Merge(<<>>, a.out), e)
    BY <1>1, MergeMore
  <2> QED BY <2>3, <2>4
<1>8. Agree(c, s, x.out, <<>>, "body", a.i, 1)
  BY <1>1, <1>7 DEF Agree, Carried
<1> HIDE DEF q, k, y, z, b, e, s
<1>9. ASSUME Took(a, z), z.out = a.out, Only(z, "body", a.i), z.i = Len(c) + 1,
             NEW l \in Nat, z.q = Rest(q, l),
             IF q.state = "s_body_identity_eof" THEN l = 0
             ELSE l < k /\ a.i + l = Len(c) + 1
      PROVE  Ahead(c, d, y, z, a.i)
  <2>1. Mid(z) /\ z.data = c
    <3>1. z.i \in 1..(Len(a.data) + 1) /\ z.out \in Seq(Events)
      BY <1>1, <1>9
    <3> QED BY <1>1, <1>9, <3>1, TookMid DEF Took
  <2>2. z.q.state = q.state
    BY <1>1, <1>9, ReadAt DEF Rest
  <2>3. /\ Mid(b) /\ b.q = z.q /\ b.data = d /\ b.i = 1 /\ b.out = <<>>
        /\ Only(b, "none", 0)
    <3>1. Kind(z.q.state) = "none"
      BY <1>1, <2>2, HeaderKinds DEF Taking
    <3>2. Sound(z.q) /\ z.q.http_errno = "HPE_OK" /\ z.q.upgrade = FALSE
      BY <2>1 DEF Mid
    <3>5. Opened(z.q, b, d)
      BY <3>2, CallMid DEF b
    <3>3. Only(b, "none", 1)
      <4>1. Kind(z.q.state) # "body" => Only(Call(z.q, d), Kind(z.q.state), 1)
        BY <3>5 DEF Opened, b
      <4> QED BY <3>1, <4>1 DEF b
    <3>4. Only(b, "none", 0)
      BY <3>3, MarksFacts DEF Only
    <3> QED BY <3>4, <3>5 DEF Opened
  <2>4. b.i \in 1..Len(d) /\ x.i \in Nat /\ b.q = Rest(q, l)
    BY <1>1, <1>3, <1>9, <2>3
  <2>5. IF q.state = "s_body_identity_eof" THEN l = 0
        ELSE l < q.content_length /\ x.i + l = Len(c) + b.i
    BY <1>1, <1>9, <2>3 DEF k
  <2>6. Agree(c, s, x.out, b.out, "body", x.i, b.i)
    BY <1>1, <1>8, <2>3
  <2>7. Running(c, d, s, y, Step(b)) /\ Step(b).i > b.i
    <3>1. x.i <= Len(c \o d)
      BY <1>1, <1>4
    <3> QED BY <1>1, <1>2, <1>7, <2>3, <2>4, <2>5, <2>6, <3>1, BodyPair DEF y
  <2> QED BY <1>1, <1>6, <1>9, <2>1, <2>3, <2>7 DEF Ahead, b, s
<1>10. CASE q.state = "s_body_identity_eof"
  <2>1. /\ Took(a, z) /\ z.q = Rest(q, 0) /\ z.out = a.out
        /\ Only(z, "body", a.i) /\ z.i = Len(a.data) + 1
    BY <1>1, <1>2, <1>4, <1>10, BodyEof DEF q, z
  <2>2. z.i = Len(c) + 1
    BY <1>1, <2>1
  <2>3. Ahead(c, d, y, z, a.i)
    BY <1>9, <1>10, <2>1, <2>2
  <2> QED BY <2>3 DEF y, z
<1>11. CASE q.state \in {"s_chunk_data", "s_body_identity"}
  <2>1. /\ Took(a, z)
        /\ k > Left(a) =>
             /\ z.q = Rest(q, Left(a)) /\ z.out = a.out
             /\ Only(z, "body", a.i) /\ z.i = Len(a.data) + 1
        /\ k <= Left(a) /\ q.state = "s_chunk_data" =>
             /\ z.q = Chunk(q) /\ z.out = a.out
             /\ Only(z, "body", a.i) /\ z.i = a.i + k
        /\ k <= Left(a) /\ q.state = "s_body_identity" =>
             /\ z.q = Message(q)
             /\ z.out = Append(Append(a.out,
                    <<"body", SubSeq(a.data, a.i, a.i + k - 1)>>), <<"message_complete", <<>>>>)
             /\ Only(z, "none", 0) /\ z.i = a.i + k
    BY <1>1, <1>2, <1>4, <1>11, BodyTake DEF k, q, z
  <2>2. /\ Took(x, y) /\ k \in Nat \ {0}
        /\ k <= Left(x) /\ q.state = "s_chunk_data" =>
             /\ y.q = Chunk(q) /\ y.out = x.out
             /\ Only(y, "body", x.i) /\ y.i = x.i + k
        /\ k <= Left(x) /\ q.state = "s_body_identity" =>
             /\ y.q = Message(q)
             /\ y.out = Append(Append(x.out,
                    <<"body", SubSeq(x.data, x.i, x.i + k - 1)>>), <<"message_complete", <<>>>>)
             /\ Only(y, "none", 0) /\ y.i = x.i + k
    BY <1>1, <1>2, <1>4, <1>11, BodyTake DEF k, y
  <2>3. CASE k > Left(a)
    <3>1. /\ Took(a, z) /\ z.q = Rest(q, Left(a)) /\ z.out = a.out
          /\ Only(z, "body", a.i) /\ z.i = Len(a.data) + 1
      BY <2>1, <2>3
    <3>2. z.i = Len(c) + 1 /\ Left(a) \in Nat
      BY <1>1, <1>4, <3>1
    <3>3. Left(a) < k /\ a.i + Left(a) = Len(c) + 1
      BY <1>1, <1>4, <2>2, <2>3
    <3>4. Ahead(c, d, y, z, a.i)
      BY <1>9, <1>11, <3>1, <3>2, <3>3
    <3> QED BY <3>4 DEF y, z
  <2>4. CASE k <= Left(a)
    <3>1. k <= Left(x)
      BY <1>4, <2>2, <2>4
    <3>2. a.i + k \in 1..(Len(c) + 1) /\ a.i + k > a.i /\ a.i + k \in 1..(Len(c \o d) + 1)
          /\ a.i + k \in Nat /\ a.i \in 1..(a.i + k - 1) /\ a.i + k - 1 \in 0..Len(c)
      <4>1. /\ a.i \in Nat \ {0} /\ k \in Nat \ {0} /\ k <= Len(c) - a.i + 1
            /\ Len(c) \in Nat /\ Len(d) \in Nat
        BY <1>1, <1>3, <1>4, <2>2, <2>4
      <4>2. /\ a.i + k \in 1..(Len(c) + 1) /\ a.i + k > a.i /\ a.i + k \in Nat
            /\ a.i \in 1..(a.i + k - 1) /\ a.i + k - 1 \in 0..Len(c)
        BY <4>1
      <4>3. a.i + k \in 1..(Len(c) + Len(d) + 1)
        BY <4>1
      <4> QED BY <1>3, <4>2, <4>3
    <3>3. CASE q.state = "s_chunk_data"
      <4>1. /\ z.q = Chunk(q) /\ z.out = a.out /\ Only(z, "body", a.i) /\ z.i = a.i + k
            /\ y.q = Chunk(q) /\ y.out = a.out /\ Only(y, "body", a.i) /\ y.i = a.i + k
            /\ Took(a, z) /\ Took(x, y)
        BY <1>1, <2>1, <2>2, <2>4, <3>1, <3>3
      <4>2. Mid(y) /\ Mid(z)
        BY <1>1, <3>2, <4>1, TookMid
      <4>3. Kind(y.q.state) = "body"
        BY <1>1, <4>1, ReadAt, HeaderKinds DEF Chunk
      <4>4. Same(c, d, y, z, a.i)
        BY <1>1, <3>2, <4>1, <4>2, <4>3 DEF Same, Took
      <4> QED BY <3>2, <4>1, <4>4 DEF y, z
    <3>4. CASE q.state = "s_body_identity"
      <4> DEFINE w == SubSeq(c, a.i, a.i + k - 1)
                 g == <<"body", w>>
                 h == <<"message_complete", <<>>>>
      <4>1. w \in Seq(STRING) /\ SubSeq(c \o d, a.i, a.i + k - 1) = w
        <5>1. a.i \in Nat \ {0} /\ a.i + k - 1 \in 0..Len(c)
          BY <1>1, <3>2
        <5> QED BY <5>1, Beginning
      <4>2. g \in Events /\ h \in Events
        BY <4>1, EventParts DEF Callbacks, DataKinds
      <4>3. /\ z.q = Message(q) /\ Only(z, "none", 0) /\ z.i = a.i + k
            /\ z.out = Append(Append(a.out, g), h)
        BY <1>1, <2>1, <2>4, <3>4
      <4>4. /\ y.q = Message(q) /\ Only(y, "none", 0) /\ y.i = a.i + k
            /\ y.out = Append(Append(a.out, g), h)
        <5>1. /\ y.q = Message(q) /\ Only(y, "none", 0) /\ y.i = a.i + k
              /\ y.out = Append(Append(a.out, <<"body", SubSeq(c \o d, a.i, a.i + k - 1)>>), h)
          BY <1>1, <2>2, <3>1, <3>4
        <5> QED BY <4>1, <5>1
      <4> HIDE DEF g, h
      <4>5. y.out \in Seq(Events) /\ z.out \in Seq(Events)
        BY <1>1, <4>2, <4>3, <4>4
      <4>6. Mid(y) /\ Mid(z)
        BY <1>1, <2>1, <2>2, <3>2, <4>3, <4>4, <4>5, TookMid
      <4>7. Kind(y.q.state) = "none"
        <5>1. y.q.state = NEW_MESSAGE(WholeBody(q))
          BY <1>1, <4>4, ReadAt DEF Message
        <5> QED BY <5>1, NewMessage
      <4>8. y.data = c \o d /\ z.data = c
        BY <1>1, <2>1, <2>2 DEF Took
      <4>9. Same(c, d, y, z, 0)
        BY <4>3, <4>4, <4>6, <4>7, <4>8 DEF Same
      <4> QED BY <3>2, <4>3, <4>9 DEF y, z
    <3> QED BY <1>11, <3>3, <3>4
  <2> QED BY <1>4, <2>2, <2>3, <2>4
<1> QED BY <1>1, <1>10, <1>11 DEF Taking

(* The first of the two calls has come to its end. *)
Ends(c, d, x, a) ==
    \/ Halted(x, a)
    \/ a.i = Len(c) + 1 /\ \E m : Same(c, d, x, a, m)
    \/ \E m : Ahead(c, d, x, a, m)

LEMMA SameStep ==
    ASSUME NEW c \in Seq(STRING), NEW d \in Seq(STRING), d # <<>>, NEW x, NEW a, NEW m,
           Same(c, d, x, a, m), a.i <= Len(c)
    PROVE  \/ Ends(c, d, Step(x), Step(a))
           \/ (\E p : Same(c, d, Step(x), Step(a), p)) /\ Step(a).i \in Nat /\ Step(a).i > a.i
<1>1. x.q.state \in States /\ a.i \in Nat
  BY DEF Same, Mid, Sound, Ready
<1>2. CASE x.q.state \in Unitwise
  <2>1. \/ Halted(Step(x), Step(a))
        \/ (\E p : Same(c, d, Step(x), Step(a), p)) /\ Step(a).i = a.i + 1
    BY <1>2, SameUnit
  <2> QED BY <1>1, <2>1 DEF Ends
<1>3. CASE x.q.state \in Taking
  <2>1. \/ (\E p : Same(c, d, Step(x), Step(a), p)) /\ Step(a).i \in Nat /\ Step(a).i > a.i
        \/ Ahead(c, d, Step(x), Step(a), a.i)
    BY <1>3, SameBody
  <2> QED BY <2>1 DEF Ends
<1> QED BY <1>1, <1>2, <1>3, StateSplit

LEMMA FirstRead ==
    ASSUME NEW c \in Seq(STRING), c # <<>>, NEW d \in Seq(STRING), d # <<>>,
           NEW x, NEW a, NEW m, Same(c, d, x, a, m)
    PROVE  \E k \in 0..Len(c) : Ends(c, d, Turns(x)[k], Turns(a)[k])
<1> DEFINE X == Turns(x)
           A == Turns(a)
           Over(n) == \E k \in 0..n : k <= Len(c) /\ Ends(c, d, X[k], A[k])
           On(n) == /\ \E p : Same(c, d, X[n], A[n], p)
                    /\ A[n].i \in Nat /\ A[n].i > n /\ A[n].i <= Len(c)
           T == {n \in Nat : Over(n) \/ On(n)}
<1>1. Len(c) \in Nat \ {0}
  OBVIOUS
<1>2. X[0] = x /\ A[0] = a
  BY TurnsDef
<1> HIDE DEF X, A
<1>3. ASSUME NEW n \in Nat, n <= Len(c), \E p : Same(c, d, X[n], A[n], p), A[n].i > n
      PROVE  Over(n) \/ On(n)
  <2>1. PICK p : Same(c, d, X[n], A[n], p)
    BY <1>3
  <2>2. A[n].i \in 1..(Len(c) + 1)
    BY <2>1 DEF Same, Mid
  <2>3. CASE A[n].i = Len(c) + 1
    <3>1. Ends(c, d, X[n], A[n])
      BY <2>1, <2>3 DEF Ends
    <3>2. n \in 0..n
      BY <1>3
    <3> QED BY <1>3, <3>1, <3>2
  <2>4. CASE A[n].i # Len(c) + 1
    <3>1. A[n].i \in Nat /\ A[n].i <= Len(c)
      BY <1>1, <2>2, <2>4
    <3> QED BY <1>3, <2>1, <3>1
  <2> QED BY <2>3, <2>4
<1>4. 0 \in T
  <2>1. Same(c, d, X[0], A[0], m) /\ A[0].i > 0
    <3>1. a.i \in 1..(Len(a.data) + 1) /\ Len(a.data) \in Nat
      BY DEF Same, Mid
    <3> QED BY <1>2, <3>1
  <2>2. 0 \in Nat /\ 0 <= Len(c)
    BY <1>1
  <2> HIDE DEF Over, On
  <2> QED BY <1>3, <2>1, <2>2
<1>5. ASSUME NEW n \in T PROVE n + 1 \in T
  <2>1. CASE Over(n)
    <3>1. PICK k \in 0..n : k <= Len(c) /\ Ends(c, d, X[k], A[k])
      BY <2>1
    <3>2. k \in 0..(n + 1)
      OBVIOUS
    <3>3. Over(n + 1)
      BY <3>1, <3>2
    <3> QED BY <3>3
  <2>2. CASE On(n)
    <3>1. PICK p : Same(c, d, X[n], A[n], p)
      BY <2>2
    <3>2. A[n].i \in Nat /\ A[n].i > n /\ A[n].i <= Len(c) /\ n \in Nat
      BY <2>2
    <3>3. X[n + 1] = Step(X[n]) /\ A[n + 1] = Step(A[n])
      BY <3>2, TurnsDef DEF X, A
    <3>4. n + 1 \in Nat /\ n + 1 <= Len(c) /\ n + 1 \in 0..(n + 1)
      BY <1>1, <3>2
    <3>5. \/ Ends(c, d, X[n + 1], A[n + 1])
          \/ /\ \E r : Same(c, d, X[n + 1], A[n + 1], r)
             /\ A[n + 1].i \in Nat /\ A[n + 1].i > A[n].i
      BY <3>1, <3>2, <3>3, SameStep
    <3>6. CASE Ends(c, d, X[n + 1], A[n + 1])
      <4>1. Over(n + 1)
        BY <3>4, <3>6
      <4> QED BY <3>4, <4>1
    <3>7. CASE /\ \E r : Same(c, d, X[n + 1], A[n + 1], r)
               /\ A[n + 1].i \in Nat /\ A[n + 1].i > A[n].i
      <4>1. A[n + 1].i > n + 1
        BY <3>2, <3>7
      <4> HIDE DEF Over, On
      <4>2. Over(n + 1) \/ On(n + 1)
        BY <1>3, <3>4, <3>7, <4>1
      <4> QED BY <3>4, <4>2
    <3> QED BY <3>5, <3>6, <3>7
  <2> QED BY <2>1, <2>2
<1> HIDE DEF T
<1>6. Len(c) \in T
  BY <1>1, <1>4, <1>5, SetInduction DEF T
<1>7. Over(Len(c)) \/ On(Len(c))
  BY <1>6 DEF T
<1>8. Over(Len(c))
  BY <1>1, <1>7
<1> QED BY <1>8 DEF X, A

LEMMA EndsFinished ==
    ASSUME NEW c \in Seq(STRING), NEW d \in Seq(STRING), NEW x, NEW a, Ends(c, d, x, a)
    PROVE  Finished(a)
<1>1. Halted(x, a) => Finished(a)
  BY DEF Halted, Finished
<1>2. a.i = Len(c) + 1 /\ (\E m : Same(c, d, x, a, m)) => Finished(a)
  BY DEF Same, Finished
<1>3. (\E m : Ahead(c, d, x, a, m)) => Finished(a)
  BY DEF Ahead, Finished
<1> QED BY <1>1, <1>2, <1>3 DEF Ends

(* At the end of a call what is marked is reported. *)
LEMMA Unmarked ==
    ASSUME NEW x, NEW f, NEW n, x.mark[f] = 0
    PROVE  CALLBACK_DATA(x, f, n) = x
BY DEF CALLBACK_DATA

LEMMA MarkedFlush ==
    ASSUME NEW x, NEW f \in DataKinds, NEW m \in Nat \ {0}, NEW n, Places(x), Only(x, f, m)
    PROVE  LET y == CALLBACK_DATA(x, f, n)
           IN  /\ y.out = Append(x.out, <<f, SubSeq(x.data, m, n)>>)
               /\ Only(y, "none", 0)
<1> DEFINE y == CALLBACK_DATA(x, f, n)
<1>1. x.mark[f] = m /\ x.mark[f] # 0
  BY MarksFacts DEF Only
<1>2. y = [x EXCEPT !.out = Append(@, <<f, SubSeq(x.data, x.mark[f], n)>>), !.mark[f] = 0]
  BY <1>1 DEF CALLBACK_DATA
<1>3. y.out = Append(x.out, <<f, SubSeq(x.data, m, n)>>) /\ y.mark = [x.mark EXCEPT ![f] = 0]
  BY <1>1, <1>2 DEF Places
<1> HIDE DEF y
<1>4. y.mark = Marks("none", 0)
  BY <1>3, MarksFacts DEF Only
<1> QED BY <1>3, <1>4 DEF Only, y

LEMMA FlushOne ==
    ASSUME NEW x, Places(x)
    PROVE  /\ \A m : Only(x, "none", m) => FlushMarks(x).out = x.out
           /\ \A f \in DataKinds, m \in Nat \ {0} : Only(x, f, m) =>
                 FlushMarks(x).out = Append(x.out, <<f, SubSeq(x.data, m, Len(x.data))>>)
<1> DEFINE n == Len(x.data)
           a == CALLBACK_DATA(x, "header_field", n)
           b == CALLBACK_DATA(a, "header_value", n)
           c == CALLBACK_DATA(b, "url", n)
           e == CALLBACK_DATA(c, "body", n)
<1>1. FlushMarks(x) = e
  BY DEF FlushMarks
<1>2. \A f \in DataKinds, g \in DataKinds : \A m :
         Marks(f, m)[g] = (IF g = f THEN m ELSE 0) /\ Marks("none", m)[g] = 0
  BY DEF Marks, DataKinds
<1>3. DataKinds = {"url", "header_field", "header_value", "body"}
  BY DEF DataKinds
<1>4. ASSUME NEW y, NEW f \in DataKinds, NEW g \in DataKinds, NEW m, f # g, Only(y, f, m)
      PROVE  CALLBACK_DATA(y, g, n) = y
  <2>1. y.mark[g] = 0
    BY <1>2, <1>4 DEF Only
  <2> QED BY <2>1, Unmarked
<1>5. ASSUME NEW y, NEW g \in DataKinds, NEW m, Only(y, "none", m)
      PROVE  CALLBACK_DATA(y, g, n) = y
  <2>1. y.mark[g] = 0
    BY <1>2, <1>5 DEF Only
  <2> QED BY <2>1, Unmarked
<1>6. ASSUME NEW f \in DataKinds, NEW m \in Nat \ {0}, Only(x, f, m)
      PROVE  CALLBACK_DATA(x, f, n).out = Append(x.out, <<f, SubSeq(x.data, m, n)>>)
             /\ Only(CALLBACK_DATA(x, f, n), "none", 0)
  BY <1>6, MarkedFlush
<1> HIDE DEF n
<1>7. ASSUME NEW m, Only(x, "none", m) PROVE e.out = x.out
  <2>1. a = x
    BY <1>3, <1>5, <1>7
  <2>2. b = a
    BY <1>3, <1>5, <1>7, <2>1
  <2>3. c = b
    BY <1>3, <1>5, <1>7, <2>1, <2>2
  <2>4. e = c
    BY <1>3, <1>5, <1>7, <2>1, <2>2, <2>3
  <2> QED BY <2>1, <2>2, <2>3, <2>4
<1>8. ASSUME NEW f \in DataKinds, NEW m \in Nat \ {0}, Only(x, f, m)
      PROVE  e.out = Append(x.out, <<f, SubSeq(x.data, m, n)>>)
  <2> DEFINE y == CALLBACK_DATA(x, f, n)
             w == Append(x.out, <<f, SubSeq(x.data, m, n)>>)
  <2>1. y.out = w /\ Only(y, "none", 0)
    BY <1>6, <1>8
  <2> HIDE DEF y, w
  <2>2. \A g \in DataKinds : CALLBACK_DATA(y, g, n) = y /\ (g # f => CALLBACK_DATA(x, g, n) = x)
    BY <1>4, <1>5, <1>8, <2>1
  <2>3. CASE f = "header_field"
    <3>1. a = y
      BY <2>3 DEF y
    <3> QED BY <1>3, <2>1, <2>2, <3>1 DEF w
  <2>4. CASE f = "header_value"
    <3>1. a = x
      BY <1>3, <2>2, <2>4
    <3>2. b = y
      BY <2>4, <3>1 DEF y
    <3> QED BY <1>3, <2>1, <2>2, <3>2 DEF w
  <2>5. CASE f = "url"
    <3>1. a = x
      BY <1>3, <2>2, <2>5
    <3>2. b = x
      BY <1>3, <2>2, <2>5, <3>1
    <3>3. c = y
      BY <2>5, <3>2 DEF y
    <3> QED BY <1>3, <2>1, <2>2, <3>3 DEF w
  <2>6. CASE f = "body"
    <3>1. a = x
      BY <1>3, <2>2, <2>6
    <3>2. b = x
      BY <1>3, <2>2, <2>6, <3>1
    <3>3. c = x
      BY <1>3, <2>2, <2>6, <3>2
    <3>4. e = y
      BY <2>6, <3>3 DEF y
    <3> QED BY <2>1, <3>4 DEF w
  <2> QED BY <1>3, <2>3, <2>4, <2>5, <2>6
<1> QED BY <1>1, <1>7, <1>8 DEF n

-------------------------------------------------------------------------------
(* The next read.  A call marks a url, a field or a value it begins in,    *)
(* but not the body whose chunk is read: what is marked of that has been   *)
(* reported, and only its end is to come.                                  *)
Same0(q) == [q EXCEPT !.nread = q.nread]
Done(q)  == [Same0(q) EXCEPT !.state = "s_chunk_data_done"]

LEMMA DataDone ==
    ASSUME NEW x, NEW f \in {"body", "none"}, NEW m, Mid(x), x.i <= Len(x.data),
           x.q.state = "s_chunk_data_almost_done", Only(x, f, m), f = "body" => m \in Nat \ {0}
    PROVE  /\ x.data[x.i] = CR =>
                /\ Took(x, Step(x)) /\ Step(x).q = Done(x.q) /\ Step(x).i = x.i + 1
                /\ Only(Step(x), "none", 0) /\ Kind(Step(x).q.state) = "none"
                /\ f = "none" => Step(x).out = x.out
                /\ f = "body" =>
                     Step(x).out = Append(x.out, <<"body", SubSeq(x.data, m, x.i - 1)>>)
           /\ x.data[x.i] # CR =>
                /\ Step(x).run = FALSE /\ Step(x).out = x.out
                /\ Step(x).q = [Same0(x.q) EXCEPT !.http_errno = "HPE_STRICT"]
                /\ Step(x).q.http_errno # "HPE_OK"
<1> DEFINE a == [x EXCEPT !.q.nread = x.q.nread]
           g == Go(a, "s_chunk_data_done")
           e == CALLBACK_DATA(g, "body", a.i - 1)
           u == Byte(x)
           ch == x.data[x.i]
<1>1. /\ Places(x) /\ Fields(x.q) /\ Len(x.data) \in Nat /\ x.i \in Nat \ {0} /\ x.run = TRUE
      /\ x.mark = Marks(f, m) /\ x.q.content_length = 0
      /\ x.q.http_errno = "HPE_OK" /\ x.q.upgrade = FALSE
  BY DEF Mid, Sound, Only, Ready
<1>2. /\ a.q = Same0(x.q) /\ a.i = x.i /\ a.data = x.data /\ a.out = x.out
      /\ a.run = TRUE /\ a.mark = x.mark /\ Places(a)
  BY <1>1 DEF Places, Same0
<1>3. /\ Same0(x.q).state = x.q.state /\ Same0(x.q).content_length = 0
      /\ Same0(x.q).http_errno = "HPE_OK" /\ Same0(x.q).upgrade = FALSE
      /\ Done(x.q).state = "s_chunk_data_done" /\ Done(x.q).http_errno = "HPE_OK"
      /\ Done(x.q).upgrade = FALSE
      /\ [Same0(x.q) EXCEPT !.http_errno = "HPE_STRICT"].http_errno = "HPE_STRICT"
  BY <1>1 DEF Same0, Done, Fields
<1>4. u = IF ch = CR THEN e ELSE Error(a, "HPE_STRICT")
  <2>1. u = Dispatch(a)
    BY SMTT(30) DEF Byte, BodyStates
  <2>2. Dispatch(a) = ChunkDataAlmostDone(a, ch)
    BY <1>2, <1>3 DEF Dispatch, UrlStart, UrlInside
  <2> QED BY <1>2, <1>3, <2>1, <2>2 DEF ChunkDataAlmostDone, Asserted, Check
<1> HIDE DEF a
<1>5. /\ g.q = Done(x.q) /\ g.i = x.i /\ g.data = x.data /\ g.out = x.out
      /\ g.run = TRUE /\ g.mark = x.mark /\ Places(g)
  BY <1>2 DEF Go, Places, Done
<1> HIDE DEF g
<1>6. /\ e.q = Done(x.q) /\ e.i = x.i /\ e.data = x.data /\ e.run = TRUE /\ Places(e)
  BY <1>5, DataBeside DEF Beside
<1>7. /\ Only(e, "none", 0)
      /\ f = "none" => e.out = x.out
      /\ f = "body" => e.out = Append(x.out, <<"body", SubSeq(x.data, m, x.i - 1)>>)
  <2>1. CASE f = "body"
    <3>1. "body" \in DataKinds /\ Only(g, "body", m)
      BY <1>1, <1>5, <2>1 DEF DataKinds, Only
    <3>2. /\ e.out = Append(g.out, <<"body", SubSeq(g.data, m, a.i - 1)>>)
          /\ Only(e, "none", 0)
      BY <1>5, <2>1, <3>1, MarkedFlush
    <3> QED BY <1>2, <1>5, <2>1, <3>2
  <2>2. CASE f = "none"
    <3>1. g.mark["body"] = 0
      BY <1>1, <1>5, <2>2 DEF Marks, DataKinds
    <3>2. e = g
      BY <3>1, Unmarked
    <3>3. g.mark = Marks("none", 0)
      BY <1>1, <1>5, <2>2, MarksFacts
    <3> QED BY <1>5, <2>2, <3>2, <3>3 DEF Only
  <2> QED BY <2>1, <2>2
<1> HIDE DEF e
<1>8. CASE ch = CR
  <2>1. u = e
    BY <1>4, <1>8
  <2>2. Goes(x, u) /\ ~u.q.upgrade
    BY <1>1, <1>3, <1>6, <2>1 DEF Goes
  <2>3. /\ Step(x).run = TRUE /\ Step(x).q = u.q /\ Step(x).out = u.out
        /\ Step(x).i = x.i + 1 /\ Step(x).data = x.data
        /\ Step(x).mark = u.mark /\ Places(Step(x)) /\ Sound(Step(x).q)
    BY <2>2, UnitStep
  <2>4. Kind("s_chunk_data_done") = "none"
    BY HeaderKinds
  <2> HIDE DEF u
  <2> QED BY <1>3, <1>6, <1>7, <1>8, <2>1, <2>3, <2>4 DEF Took, Only
<1>9. CASE ch # CR
  <2>1. u = Error(a, "HPE_STRICT")
    BY <1>4, <1>9
  <2>2. /\ u.q = [Same0(x.q) EXCEPT !.http_errno = "HPE_STRICT"] /\ u.out = x.out
        /\ u.run = FALSE /\ u.i = x.i
    BY <1>2, <2>1 DEF Error, Places
  <2>3. Fails(x, u)
    BY <1>3, <2>2 DEF Fails
  <2>4. Step(x).run = FALSE /\ Step(x).q = u.q /\ Step(x).out = x.out
    BY <2>3, UnitStep
  <2> HIDE DEF u
  <2> QED BY <1>3, <1>9, <2>2, <2>4
<1> QED BY <1>8, <1>9

LEMMA SecondRead ==
    ASSUME NEW c \in Seq(STRING), NEW d \in Seq(STRING), d # <<>>, NEW x, NEW a,
           \/ a.i = Len(c) + 1 /\ \E m : Same(c, d, x, a, m)
           \/ \E m : Ahead(c, d, x, a, m)
    PROVE  LET b == Call(a.q, d)
               s == Merge(<<>>, FlushMarks(a).out)
           IN  /\ FlushMarks(a).out \in Seq(Events)
               /\ \/ Together(c, d, s, x, b, 0)
                  \/ Together(c, d, s, x, Step(b), 1)
                  \/ Together(c, d, s, Step(x), Step(b), 1)
<1> DEFINE b == Call(a.q, d)
           o == FlushMarks(a).out
           s == Merge(<<>>, o)
           Good == /\ o \in Seq(Events)
                   /\ \/ Together(c, d, s, x, b, 0)
                      \/ Together(c, d, s, x, Step(b), 1)
                      \/ Together(c, d, s, Step(x), Step(b), 1)
<1>1. Mid(a) /\ a.data = c /\ a.i = Len(c) + 1 /\ Places(a) /\ a.out \in Seq(Events)
  BY DEF Same, Ahead, Mid
<1>2. /\ Sound(a.q) /\ a.q.http_errno = "HPE_OK" /\ a.q.upgrade = FALSE
      /\ Len(d) \in Nat \ {0} /\ Len(c) \in Nat
  BY <1>1 DEF Mid
<1>3. /\ Mid(b) /\ b.q = a.q /\ b.data = d /\ b.i = 1 /\ b.out = <<>>
      /\ Kind(a.q.state) # "body" => Only(b, Kind(a.q.state), 1)
      /\ Kind(a.q.state) = "body" => Only(b, "none", 0)
  <2>1. Opened(a.q, b, d)
    BY <1>2, CallMid
  <2> QED BY <2>1 DEF Opened
<1>4. Len(c \o d) = Len(c) + Len(d)
  BY ConcatProperties
<1>5. ASSUME NEW f \in DataKinds, NEW m \in 1..Len(c), Only(a, f, m)
      PROVE  \E e \in Events :
               /\ e[1] = f /\ e[2] = SubSeq(c, m, Len(c)) /\ o = Append(a.out, e)
               /\ o \in Seq(Events) /\ s \in Seq(Events) /\ s = Adjoin(Merge(<<>>, a.out), e)
  <2> DEFINE e == <<f, SubSeq(c, m, Len(c))>>
  <2>1. m \in Nat \ {0} /\ Len(c) \in 0..Len(c)
    BY <1>2
  <2>2. SubSeq(c, m, Len(c)) \in Seq(STRING)
    BY <2>1, Beginning
  <2>3. e \in Events /\ e[1] = f /\ e[2] = SubSeq(c, m, Len(c))
    BY <2>2, EventParts DEF Callbacks
  <2>4. o = Append(a.out, e)
    BY <1>1, <1>5, <2>1, FlushOne
  <2> HIDE DEF e, o
  <2>5. o \in Seq(Events) /\ <<>> \in Seq(Events)
    BY <1>1, <2>3, <2>4
  <2>6. s \in Seq(Events)
    BY <2>5, MergeType
  <2>7. s = Adjoin(Merge(<<>>, a.out), e)
    BY <1>1, <2>4, MergeMore
  <2> QED BY <2>3, <2>4, <2>5, <2>6, <2>7
<1> HIDE DEF b, o, s
<1>6. ASSUME \E m : Ahead(c, d, x, a, m) PROVE Good
  <2>1. PICK m : Ahead(c, d, x, a, m)
    BY <1>6
  <2>2. PICK e \in Events :
         /\ e[1] = "body" /\ e[2] = SubSeq(c, m, Len(c))
         /\ Running(c, d, Merge(<<>>, Append(a.out, e)), x, Step(b))
    BY <2>1 DEF Ahead, b
  <2>3. "body" \in DataKinds /\ m \in 1..Len(c) /\ Only(a, "body", m)
    BY <2>1 DEF Ahead, DataKinds
  <2>4. PICK g \in Events :
           /\ g[1] = "body" /\ g[2] = SubSeq(c, m, Len(c)) /\ o = Append(a.out, g)
           /\ o \in Seq(Events)
    BY <1>5, <2>3
  <2>5. g = e
    <3>1. e[1] = g[1] /\ e[2] = g[2]
      BY <2>2, <2>4
    <3> QED BY <3>1 DEF Events
  <2>6. Running(c, d, s, x, Step(b))
    BY <2>2, <2>4, <2>5 DEF s
  <2>7. Step(b).i > 1
    BY <2>1 DEF Ahead, b
  <2> QED BY <2>4, <2>6, <2>7 DEF Together
<1>7. ASSUME \E m : Same(c, d, x, a, m) PROVE Good
  <2>1. PICK m : Same(c, d, x, a, m)
    BY <1>7
  <2> DEFINE k == Kind(a.q.state)
  <2>2. /\ Mid(x) /\ x.q = a.q /\ x.data = c \o d /\ x.i = Len(c) + b.i /\ x.out = a.out
        /\ Only(x, k, m) /\ Only(a, k, m) /\ k \in Kinds
        /\ k # "none" => m \in 1..Len(c)
    BY <1>1, <1>2, <1>3, <2>1, KindType DEF Same
  <2>3. k = Kind(x.q.state)
    BY <2>2
  <2> HIDE DEF k
  <2>4. \A t : Merge(t, <<>>) = t
    BY MergeNone
  <2>5. CASE k = "none"
    <3>1. o = a.out
      BY <1>1, <2>2, <2>5, FlushOne DEF o
    <3>2. Own(c, s, x.out, b.out, "none", m, 1)
      BY <1>3, <2>2, <2>4, <3>1 DEF Own, s
    <3>3. Sim(c, d, s, x, b, k, m, 1)
      <4>1. Only(b, k, 1)
        BY <1>3, <2>5 DEF k
      <4> QED BY <1>3, <2>2, <2>5, <3>2, <4>1 DEF Sim, Agree
    <3>4. Running(c, d, s, x, b)
      BY <2>3, <3>3 DEF Running
    <3> QED BY <1>1, <1>3, <3>1, <3>4 DEF Together
  <2>6. CASE k \notin {"none", "body"}
    <3>1. k \in DataKinds /\ m \in 1..Len(c)
      BY <2>2, <2>6 DEF Kinds
    <3>2. PICK e \in Events :
             /\ e[1] = k /\ e[2] = SubSeq(c, m, Len(c)) /\ o = Append(a.out, e)
             /\ o \in Seq(Events) /\ s \in Seq(Events) /\ s = Adjoin(Merge(<<>>, a.out), e)
      BY <1>5, <2>2, <3>1
    <3>3. e = <<k, SubSeq(c, m, Len(c))>>
      BY <3>2 DEF Events
    <3>4. Carried(c, s, x.out, b.out, k, m, 1)
      BY <1>3, <2>2, <2>6, <3>1, <3>2, <3>3 DEF Carried
    <3>5. Only(b, k, 1)
      BY <1>3, <2>6 DEF k
    <3>6. Sim(c, d, s, x, b, k, m, 1)
      BY <1>3, <2>2, <3>4, <3>5 DEF Sim, Agree
    <3>7. Running(c, d, s, x, b)
      BY <2>3, <3>6 DEF Running
    <3> QED BY <1>3, <3>2, <3>7 DEF Together
  <2>7. CASE k = "body"
    <3>1. "body" \in DataKinds /\ m \in 1..Len(c) /\ m \in Nat \ {0} /\ Only(a, "body", m)
      BY <2>2, <2>7 DEF DataKinds
    <3>2. PICK e \in Events :
             /\ e[1] = "body" /\ e[2] = SubSeq(c, m, Len(c)) /\ o = Append(a.out, e)
             /\ o \in Seq(Events) /\ s \in Seq(Events) /\ s = Adjoin(Merge(<<>>, a.out), e)
      BY <1>5, <3>1
    <3>3. e = <<"body", SubSeq(c, m, Len(c))>>
      BY <3>2 DEF Events
    <3>4. x.q.state = "s_chunk_data_almost_done"
      BY <2>3, <2>7 DEF Kind
    <3>5. b.q = x.q /\ Only(b, "none", 0) /\ Only(x, "body", m) /\ b.i <= Len(b.data)
          /\ x.i = Len(c) + 1 /\ x.i <= Len(x.data)
      BY <1>2, <1>3, <1>4, <2>2, <2>7 DEF k
    <3>6. x.data[x.i] = b.data[b.i]
      <4>1. (c \o d)[Len(c) + 1] = d[1]
        BY <1>2, ConcatProperties
      <4> QED BY <1>3, <2>2, <3>5, <4>1
    <3> DEFINE y == Step(x)
               z == Step(b)
    <3>7. /\ x.data[x.i] = CR =>
                /\ Took(x, y) /\ y.q = Done(x.q) /\ y.i = x.i + 1
                /\ Only(y, "none", 0) /\ Kind(y.q.state) = "none"
                /\ y.out = Append(x.out, <<"body", SubSeq(x.data, m, x.i - 1)>>)
          /\ x.data[x.i] # CR =>
                /\ y.run = FALSE /\ y.out = x.out
                /\ y.q = [Same0(x.q) EXCEPT !.http_errno = "HPE_STRICT"]
                /\ y.q.http_errno # "HPE_OK"
      BY <2>2, <3>1, <3>4, <3>5, DataDone
    <3>8. /\ x.data[x.i] = CR =>
                /\ Took(b, z) /\ z.q = Done(x.q) /\ z.i = 2
                /\ Only(z, "none", 0) /\ z.out = b.out
          /\ x.data[x.i] # CR =>
                /\ z.run = FALSE /\ z.out = b.out
                /\ z.q = [Same0(x.q) EXCEPT !.http_errno = "HPE_STRICT"]
      <4>1. Mid(b) /\ b.q.state = "s_chunk_data_almost_done" /\ b.i <= Len(b.data)
            /\ Only(b, "none", 0) /\ "none" \in {"none", "body"} /\ b.data[b.i] = x.data[x.i]
            /\ Same0(b.q) = Same0(x.q) /\ Done(b.q) = Done(x.q) /\ b.i + 1 = 2
        BY <1>3, <3>4, <3>5, <3>6
      <4>2. /\ b.data[b.i] = CR =>
                  /\ Took(b, Step(b)) /\ Step(b).q = Done(b.q) /\ Step(b).i = b.i + 1
                  /\ Only(Step(b), "none", 0) /\ Step(b).out = b.out
            /\ b.data[b.i] # CR =>
                  /\ Step(b).run = FALSE /\ Step(b).out = b.out
                  /\ Step(b).q = [Same0(b.q) EXCEPT !.http_errno = "HPE_STRICT"]
        BY <4>1, DataDone
      <4> QED BY <4>1, <4>2 DEF z
    <3> HIDE DEF y, z
    <3>9. CASE x.data[x.i] = CR
      <4>1. SubSeq(x.data, m, x.i - 1) = SubSeq(c, m, Len(c))
        <5>1. x.i - 1 = Len(c) /\ Len(c) \in 0..Len(c)
          BY <1>2, <3>5
        <5> QED BY <2>2, <3>1, <5>1, Beginning
      <4>2. y.out = Append(a.out, e)
        BY <2>2, <3>3, <3>7, <3>9, <4>1
      <4>3. Merge(<<>>, y.out) = s /\ y.out \in Seq(Events)
        BY <3>2, <4>2 DEF s
      <4>4. Agree(c, s, y.out, z.out, "none", 0, 0)
        BY <1>3, <2>4, <3>8, <3>9, <4>3 DEF Agree, Own
      <4>5. Took(x, y) /\ Took(b, z) /\ z.q = y.q /\ Only(y, "none", 0) /\ Only(z, "none", 0)
            /\ Kind(y.q.state) = "none" /\ y.i = Len(c) + 2 /\ z.i = 2
        BY <1>2, <3>5, <3>7, <3>8, <3>9
      <4>6. Mid(y) /\ Mid(z)
        <5>0. <<>> \in Seq(Events)
          OBVIOUS
        <5>1. z.out \in Seq(Events)
          BY <1>3, <3>8, <3>9, <5>0
        <5>2. z.i \in 1..(Len(b.data) + 1) /\ y.i \in 1..(Len(x.data) + 1)
          BY <1>2, <1>3, <1>4, <2>2, <4>5
        <5> QED BY <1>3, <2>2, <4>3, <4>5, <5>1, <5>2, TookMid
      <4>7. y.data = c \o d /\ z.data = d /\ "none" \in Kinds
        BY <1>3, <2>2, <4>5 DEF Took, Kinds
      <4>8. Sim(c, d, s, y, z, "none", 0, 0)
        BY <4>4, <4>5, <4>6, <4>7 DEF Sim
      <4>9. Running(c, d, s, y, z)
        BY <4>5, <4>8 DEF Running
      <4>10. Together(c, d, s, y, z, 1)
        BY <4>5, <4>9 DEF Together
      <4> QED BY <3>2, <4>10 DEF y, z
    <3>10. CASE x.data[x.i] # CR
      <4>1. Carried(c, s, x.out, b.out, "body", m, 1)
        BY <1>3, <2>2, <3>1, <3>2, <3>3 DEF Carried
      <4>2. "body" \in Kinds /\ x.out \in Seq(Events) /\ b.out \in Seq(Events)
        BY <1>1, <1>3, <2>2 DEF Kinds, DataKinds
      <4>3. Stop(c, s, y, z)
        BY <3>7, <3>8, <3>10, <4>1, <4>2 DEF Stop, Agree
      <4>4. Together(c, d, s, y, z, 1)
        BY <4>3 DEF Together
      <4> QED BY <3>2, <4>4 DEF y, z
    <3> QED BY <3>9, <3>10
  <2> QED BY <2>5, <2>6, <2>7
<1>8. Good
  <2> HIDE DEF Good
  <2>1. (\E m : Same(c, d, x, a, m)) \/ (\E m : Ahead(c, d, x, a, m))
    OBVIOUS
  <2> QED BY <1>6, <1>7, <2>1
<1> QED BY <1>8 DEF b, o, s

LEMMA MergeOne ==
    ASSUME NEW acc, NEW e \in Events
    PROVE  Merge(acc, <<e>>) = Adjoin(acc, e)
<1>1. <<>> \in Seq(Events) /\ Append(<<>>, e) = <<e>>
  OBVIOUS
<1>2. Merge(acc, Append(<<>>, e)) = Adjoin(Merge(acc, <<>>), e)
  BY <1>1, MergeMore
<1> QED BY <1>1, <1>2, MergeNone

(* What the calls return, when their loops have ended together *)
LEMMA Flushed ==
    ASSUME NEW c \in Seq(STRING), NEW d \in Seq(STRING), NEW s \in Seq(Events),
           NEW x, NEW b, Running(c, d, s, x, b)
    PROVE  /\ Returned(x).q = x.q /\ Returned(b).q = x.q
           /\ Merge(<<>>, Returned(x).out) = Merge(s, Returned(b).out)
<1>1. PICK f, m, n : Sim(c, d, s, x, b, f, m, n)
  BY DEF Running
<1>2. /\ Places(x) /\ Places(b) /\ x.run = TRUE /\ b.run = TRUE /\ b.q = x.q
      /\ x.q.http_errno = "HPE_OK" /\ x.q.upgrade = FALSE
      /\ x.out \in Seq(Events) /\ b.out \in Seq(Events)
      /\ x.data = c \o d /\ b.data = d /\ Only(x, f, m) /\ Only(b, f, n) /\ f \in Kinds
      /\ Agree(c, s, x.out, b.out, f, m, n)
  BY <1>1 DEF Sim, Mid
<1>3. /\ Returned(x).q = x.q /\ Returned(x).out = FlushMarks(x).out
      /\ Returned(b).q = b.q /\ Returned(b).out = FlushMarks(b).out
  BY <1>2, FlushKeeps DEF Returned
<1>4. CASE f = "none"
  <2>1. FlushMarks(x).out = x.out /\ FlushMarks(b).out = b.out
    BY <1>2, <1>4, FlushOne
  <2>2. Merge(<<>>, x.out) = Merge(s, b.out)
    BY <1>2, <1>4 DEF Agree, Own, Carried
  <2> QED BY <1>2, <1>3, <2>1, <2>2
<1>5. CASE f # "none"
  <2>1. f \in DataKinds
    BY <1>2, <1>5 DEF Kinds
  <2>2. /\ Len(c \o d) = Len(c) + Len(d) /\ c \o d \in Seq(STRING)
        /\ Len(c) \in Nat /\ Len(d) \in Nat /\ Len(d) \in 0..Len(d)
        /\ Len(c \o d) \in 0..Len(c \o d)
    BY ConcatProperties
  <2>3. m \in Nat \ {0} /\ n \in Nat \ {0}
    BY <1>2, <1>5, <2>2 DEF Agree, Own, Carried
  <2> DEFINE e == <<f, SubSeq(c \o d, m, Len(c) + Len(d))>>
             g == <<f, SubSeq(d, n, Len(d))>>
  <2>4. SubSeq(c \o d, m, Len(c) + Len(d)) \in Seq(STRING)
    <3>1. <<>> \in Seq(STRING)
      OBVIOUS
    <3> QED BY <2>2, <2>3, <3>1, Beginning
  <2>5. SubSeq(d, n, Len(d)) \in Seq(STRING)
    <3>1. <<>> \in Seq(STRING)
      OBVIOUS
    <3> QED BY <2>2, <2>3, <3>1, Beginning
  <2>6. /\ e \in Events /\ e[1] = f /\ e[2] = SubSeq(c \o d, m, Len(c) + Len(d))
        /\ g \in Events /\ g[1] = f /\ g[2] = SubSeq(d, n, Len(d))
    BY <2>1, <2>4, <2>5, EventParts DEF Callbacks, DataKinds
  <2>7. FlushMarks(x).out = Append(x.out, e) /\ FlushMarks(b).out = Append(b.out, g)
    BY <1>2, <2>1, <2>2, <2>3, FlushOne, ZenonT(60)
  <2> HIDE DEF e, g
  <2>8. Agree(c, s, Append(x.out, e), Append(b.out, g), "none", 0, 0)
    BY <1>2, <2>1, <2>2, <2>6, AgreeEnd
  <2>9. Merge(<<>>, Append(x.out, e)) = Merge(s, Append(b.out, g))
    BY <2>8 DEF Agree, Own, Carried
  <2> QED BY <1>2, <1>3, <2>7, <2>9
<1> QED BY <1>4, <1>5

(* The callbacks of a call that ended in an error, and what the call      *)
(* before it has reported of the piece of data the error was in           *)
Partly(c, xo, t) ==
    \/ t = Merge(<<>>, xo)
    \/ \E f \in DataKinds : \E m \in 1..Len(c) :
          t = Merge(Merge(<<>>, xo), <<<<f, SubSeq(c, m, Len(c))>>>>)

LEMMA Stopped ==
    ASSUME NEW c \in Seq(STRING), NEW s \in Seq(Events), NEW x, NEW b, Stop(c, s, x, b)
    PROVE  /\ Returned(x).q = x.q /\ Returned(b).q = x.q
           /\ x.q.http_errno = "HPE_OK" =>
                 Merge(<<>>, Returned(x).out) = Merge(s, Returned(b).out)
           /\ Partly(c, Returned(x).out, Merge(s, Returned(b).out))
<1>1. /\ x.run = FALSE /\ b.run = FALSE /\ b.q = x.q
  BY DEF Stop
<1>2. /\ Returned(x).q = x.q /\ Returned(x).out = x.out
      /\ Returned(b).q = x.q /\ Returned(b).out = b.out
  BY <1>1 DEF Returned
<1>3. PICK f \in Kinds : \E m, n :
          /\ Agree(c, s, x.out, b.out, f, m, n)
          /\ x.q.http_errno = "HPE_OK" => f = "none"
  BY DEF Stop
<1>4. PICK m, n :
          /\ Agree(c, s, x.out, b.out, f, m, n)
          /\ x.q.http_errno = "HPE_OK" => f = "none"
  BY <1>3
<1>5. CASE Own(c, s, x.out, b.out, f, m, n)
  BY <1>2, <1>5 DEF Own, Partly
<1>6. CASE Carried(c, s, x.out, b.out, f, m, n)
  <2>1. /\ f # "none" /\ b.out = <<>> /\ m \in 1..Len(c)
        /\ s = Adjoin(Merge(<<>>, x.out), <<f, SubSeq(c, m, Len(c))>>)
    BY <1>6 DEF Carried
  <2>2. f \in DataKinds
    BY <1>3, <2>1 DEF Kinds
  <2>3. SubSeq(c, m, Len(c)) \in Seq(STRING)
    <3>1. m \in Nat \ {0} /\ Len(c) \in 0..Len(c) /\ <<>> \in Seq(STRING)
      BY <2>1
    <3> QED BY <3>1, Beginning
  <2> DEFINE e == <<f, SubSeq(c, m, Len(c))>>
  <2>4. e \in Events
    BY <2>2, <2>3, EventParts DEF Callbacks, DataKinds
  <2>5. Merge(s, b.out) = s
    BY <2>1, MergeNone
  <2>6. s = Adjoin(Merge(<<>>, x.out), e)
    BY <2>1
  <2> HIDE DEF e
  <2>7. Merge(s, b.out) = Merge(Merge(<<>>, x.out), <<e>>)
    BY <2>4, <2>5, <2>6, MergeOne
  <2>8. Partly(c, x.out, Merge(s, b.out))
    BY <2>1, <2>2, <2>7 DEF Partly, e
  <2> QED BY <1>2, <1>4, <2>1, <2>8
<1> QED BY <1>2, <1>4, <1>5, <1>6 DEF Agree

LEMMA CallReturns ==
    ASSUME NEW q, NEW data, q.http_errno = "HPE_OK", data # <<>>
    PROVE  http_parser_execute(q, data) = Returned(Loop(Call(q, data)))
BY DEF http_parser_execute, Call

(* One call with c and d against a call with c and another with d          *)
Composed(q, c, d) ==
    LET X == http_parser_execute(q, c \o d)
        A == http_parser_execute(q, c)
        B == http_parser_execute(A.q, d)
        s == Merge(<<>>, A.out)
    IN  /\ A.q.http_errno # "HPE_OK" => X.q = A.q /\ X.out = A.out
        /\ A.q.http_errno = "HPE_OK" /\ ~A.q.upgrade =>
              /\ X.q = B.q
              /\ B.q.http_errno = "HPE_OK" => Merge(<<>>, X.out) = Merge(s, B.out)
              /\ Partly(c, X.out, Merge(s, B.out))

LEMMA Compose ==
    ASSUME NEW c \in Seq(STRING), c # <<>>, NEW d \in Seq(STRING), d # <<>>,
           NEW q, Sound(q), q.http_errno = "HPE_OK", q.upgrade = FALSE,
           Kind(q.state) = "none"
    PROVE  Composed(q, c, d)
<1> DEFINE x0 == Call(q, c \o d)
           a0 == Call(q, c)
           X == http_parser_execute(q, c \o d)
           A == http_parser_execute(q, c)
           B == http_parser_execute(A.q, d)
           s == Merge(<<>>, A.out)
<1>1. /\ c \o d \in Seq(STRING) /\ c \o d # <<>> /\ Len(c) \in Nat \ {0} /\ Len(d) \in Nat \ {0}
      /\ Len(c \o d) = Len(c) + Len(d)
  <2>1. Len(c \o d) = Len(c) + Len(d) /\ c \o d \in Seq(STRING)
    BY ConcatProperties
  <2>2. Len(c) \in Nat \ {0} /\ Len(d) \in Nat \ {0}
    OBVIOUS
  <2>3. Len(c \o d) # 0
    BY <2>1, <2>2
  <2> QED BY <2>1, <2>2, <2>3
<1>2. /\ Mid(x0) /\ x0.q = q /\ x0.data = c \o d /\ x0.i = 1 /\ x0.out = <<>>
      /\ Only(x0, "none", 1)
  <2>1. Opened(q, x0, c \o d)
    BY <1>1, CallMid
  <2> QED BY <2>1 DEF Opened
<1>3. /\ Mid(a0) /\ a0.q = q /\ a0.data = c /\ a0.i = 1 /\ a0.out = <<>>
      /\ Only(a0, "none", 1)
  <2>1. Opened(q, a0, c)
    BY CallMid
  <2> QED BY <2>1 DEF Opened
<1>4. X = Returned(Loop(x0)) /\ A = Returned(Loop(a0))
  BY <1>1, CallReturns
<1> HIDE DEF x0, a0, X
<1>5. Same(c, d, x0, a0, 1)
  BY <1>2, <1>3 DEF Same
<1>6. PICK k \in 0..Len(c) : Ends(c, d, Turns(x0)[k], Turns(a0)[k])
  BY <1>5, FirstRead
<1> DEFINE x == Turns(x0)[k]
           a == Turns(a0)[k]
<1>7. k \in Nat /\ Len(c) - k \in Nat /\ k + (Len(c) - k) = Len(c)
  BY <1>1
<1>8. Loop(a0) = a
  <2>1. Finished(a)
    BY <1>6, EndsFinished
  <2>2. Turns(a0)[k + (Len(c) - k)] = a
    BY <1>7, <2>1, FinishedStays
  <2> QED BY <1>3, <1>7, <2>2 DEF Loop
<1>9. Ends(c, d, x, a)
  BY <1>6
<1>10. ASSUME Finished(x) PROVE Loop(x0) = x
  <2>1. Len(c) + Len(d) - k \in Nat /\ k + (Len(c) + Len(d) - k) = Len(c) + Len(d)
    BY <1>1
  <2>2. Turns(x0)[k + (Len(c) + Len(d) - k)] = x
    BY <1>7, <1>10, <2>1, FinishedStays
  <2> QED BY <1>1, <1>2, <2>1, <2>2 DEF Loop
<1>11. Turns(x0)[k + 1] = Step(x)
  BY <1>7, TurnsDef
<1> HIDE DEF x, a, A
<1>12. CASE Halted(x, a)
  <2>1. /\ x.run = FALSE /\ a.run = FALSE /\ a.q = x.q /\ x.out = a.out
        /\ x.q.http_errno # "HPE_OK" \/ x.q.upgrade
    BY <1>12 DEF Halted
  <2>2. Loop(x0) = x
    BY <1>10, <2>1 DEF Finished
  <2>3. X.q = x.q /\ X.out = x.out /\ A.q = a.q /\ A.out = a.out
    BY <1>4, <1>8, <2>1, <2>2 DEF Returned
  <2> QED BY <2>1, <2>3 DEF Composed, X, A
<1>13. CASE \/ a.i = Len(c) + 1 /\ \E m : Same(c, d, x, a, m)
            \/ \E m : Ahead(c, d, x, a, m)
  <2>1. Mid(a)
    BY <1>13 DEF Same, Ahead
  <2>2. A = Returned(a) /\ a.run = TRUE /\ Places(a) /\ a.q.http_errno = "HPE_OK"
        /\ Sound(a.q) /\ a.q.upgrade = FALSE
    BY <1>4, <1>8, <2>1 DEF Mid
  <2>3. A.q = a.q /\ A.out = FlushMarks(a).out
    BY <2>2, FlushKeeps DEF Returned
  <2> DEFINE b == Call(a.q, d)
  <2>4. B = Returned(Loop(b)) /\ b.data = d
    <3>1. B = http_parser_execute(a.q, d)
      BY <2>3
    <3> HIDE DEF B
    <3> QED BY <2>2, <3>1, CallReturns DEF Call
  <2>5. s = Merge(<<>>, FlushMarks(a).out)
    BY <2>3
  <2>6. /\ FlushMarks(a).out \in Seq(Events)
        /\ \/ Together(c, d, s, x, b, 0)
           \/ Together(c, d, s, x, Step(b), 1)
           \/ Together(c, d, s, Step(x), Step(b), 1)
    BY <1>13, <2>5, SecondRead
  <2>7. s \in Seq(Events)
    <3>1. <<>> \in Seq(Events)
      OBVIOUS
    <3> QED BY <2>5, <2>6, <3>1, MergeType
  <2>8. Turns(b)[0] = b /\ Turns(b)[1] = Step(b)
    <3>1. 0 \in Nat /\ 0 + 1 = 1
      OBVIOUS
    <3> HIDE DEF b
    <3>2. Turns(b)[0] = b /\ Turns(b)[0 + 1] = Step(Turns(b)[0])
      BY <3>1, TurnsDef
    <3> QED BY <3>1, <3>2
  <2> HIDE DEF b, B, s
  <2>9. \/ Stop(c, s, Loop(x0), Loop(b))
        \/ Running(c, d, s, Loop(x0), Loop(b)) /\ Loop(b).i > Len(d)
    <3>1. CASE Together(c, d, s, x, b, 0)
      <4>1. Together(c, d, s, Turns(x0)[k], Turns(b)[0], 0)
        BY <2>8, <3>1 DEF x
      <4>2. 0 \in Nat /\ 0 <= Len(d) /\ k <= Len(c) + 0
        BY <1>1
      <4> QED BY <1>2, <1>7, <2>4, <2>7, <4>1, <4>2, LoopsEnd
    <3>2. CASE Together(c, d, s, x, Step(b), 1)
      <4>1. Together(c, d, s, Turns(x0)[k], Turns(b)[1], 1)
        BY <2>8, <3>2 DEF x
      <4>2. 1 \in Nat /\ 1 <= Len(d) /\ k <= Len(c) + 1
        BY <1>1
      <4> QED BY <1>2, <1>7, <2>4, <2>7, <4>1, <4>2, LoopsEnd
    <3>3. CASE Together(c, d, s, Step(x), Step(b), 1)
      <4>1. Together(c, d, s, Turns(x0)[k + 1], Turns(b)[1], 1)
        BY <1>11, <2>8, <3>3
      <4>2. 1 \in Nat /\ 1 <= Len(d) /\ k + 1 <= Len(c) + 1 /\ k + 1 \in Nat
        BY <1>1
      <4> QED BY <1>2, <1>7, <2>4, <2>7, <4>1, <4>2, LoopsEnd
    <3> QED BY <2>6, <3>1, <3>2, <3>3
  <2>10. /\ X.q = B.q
         /\ B.q.http_errno = "HPE_OK" => Merge(<<>>, X.out) = Merge(s, B.out)
         /\ Partly(c, X.out, Merge(s, B.out))
    <3>1. CASE Stop(c, s, Loop(x0), Loop(b))
      BY <1>4, <2>4, <2>7, <3>1, Stopped
    <3>2. CASE Running(c, d, s, Loop(x0), Loop(b))
      <4>1. /\ X.q = B.q /\ Merge(<<>>, X.out) = Merge(s, B.out)
        <5> DEFINE y == Loop(x0)
                   z == Loop(b)
        <5>1. Running(c, d, s, y, z)
          BY <3>2
        <5> HIDE DEF y, z
        <5>2. /\ Returned(y).q = y.q /\ Returned(z).q = y.q
              /\ Merge(<<>>, Returned(y).out) = Merge(s, Returned(z).out)
          BY <2>7, <5>1, Flushed
        <5> QED BY <1>4, <2>4, <5>2 DEF y, z
      <4> QED BY <4>1 DEF Partly
    <3> QED BY <2>9, <3>1, <3>2
  <2> QED BY <2>2, <2>3, <2>10 DEF Composed, X, A, B, s
<1> QED BY <1>9, <1>12, <1>13 DEF Ends

LEMMA InitWhole ==
    ASSUME NEW type
    PROVE  LET q == http_parser_init(type)
           IN  /\ Sound(q) /\ q.http_errno = "HPE_OK" /\ q.upgrade = FALSE
               /\ Kind(q.state) = "none"
<1> DEFINE q == http_parser_init(type)
<1>1. q.state \in {"s_start_req", "s_start_res", "s_start_req_or_res"}
  BY DEF http_parser_init
<1>2. q.http_errno = "HPE_OK" /\ q.upgrade = FALSE
  BY DEF http_parser_init
<1>3. Sound(q)
  BY InitSound
<1> HIDE DEF q
<1>4. Kind(q.state) = "none"
  BY <1>1 DEF Kind, UrlStart, UrlInside
<1> QED BY <1>2, <1>3, <1>4 DEF q

(* What has been received, and the next read *)
LEMMA Received ==
    ASSUME NEW S \in Seq(STRING), NEW p \in Nat \ {0}, NEW n \in Nat \ {0}, p + n <= Len(S)
    PROVE  /\ SubSeq(S, 1, p) \in Seq(STRING) /\ SubSeq(S, 1, p) # <<>>
           /\ Len(SubSeq(S, 1, p)) = p
           /\ SubSeq(S, p + 1, p + n) \in Seq(STRING) /\ SubSeq(S, p + 1, p + n) # <<>>
           /\ SubSeq(S, 1, p) \o SubSeq(S, p + 1, p + n) = SubSeq(S, 1, p + n)
           /\ \A m \in 1..p : SubSeq(SubSeq(S, 1, p), m, p) = SubSeq(S, m, p)
<1> DEFINE c == SubSeq(S, 1, p)
           d == SubSeq(S, p + 1, p + n)
           e == SubSeq(S, 1, p + n)
           w(m) == SubSeq(S, m, p)
<1>1. /\ c \in Seq(STRING) /\ Len(c) = p /\ \A i \in 1..p : c[i] = S[i]
  <2>1. \A i \in 1..p : S[i] \in STRING
    OBVIOUS
  <2>2. c \in Seq(STRING) /\ Len(c) = p - 1 + 1 /\ \A i \in 1..(p - 1 + 1) : c[i] = S[1 + i - 1]
    BY <2>1, SubSeqProperties
  <2> HIDE DEF c
  <2> QED BY <2>2
<1>2. /\ d \in Seq(STRING) /\ Len(d) = n /\ \A i \in 1..n : d[i] = S[p + i]
  <2>1. \A i \in (p + 1)..(p + n) : S[i] \in STRING
    OBVIOUS
  <2>2. /\ d \in Seq(STRING) /\ Len(d) = (p + n) - (p + 1) + 1
        /\ \A i \in 1..((p + n) - (p + 1) + 1) : d[i] = S[(p + 1) + i - 1]
    BY <2>1, SubSeqProperties
  <2> HIDE DEF d
  <2>3. Len(d) = n /\ \A i \in 1..n : (p + 1) + i - 1 = p + i /\ i \in 1..((p + n) - (p + 1) + 1)
    BY <2>2
  <2> QED BY <2>2, <2>3
<1>3. /\ e \in Seq(STRING) /\ Len(e) = p + n /\ \A i \in 1..(p + n) : e[i] = S[i]
  <2>1. \A i \in 1..(p + n) : S[i] \in STRING
    OBVIOUS
  <2>2. /\ e \in Seq(STRING) /\ Len(e) = p + n - 1 + 1
        /\ \A i \in 1..(p + n - 1 + 1) : e[i] = S[1 + i - 1]
    BY <2>1, SubSeqProperties
  <2> HIDE DEF e
  <2> QED BY <2>2
<1> HIDE DEF c, d, e
<1>4. c \o d = e
  <2>1. /\ c \o d \in Seq(STRING) /\ Len(c \o d) = p + n
        /\ \A i \in 1..p : (c \o d)[i] = c[i]
        /\ \A i \in 1..n : (c \o d)[p + i] = d[i]
    <3>1. /\ c \o d \in Seq(STRING) /\ Len(c \o d) = Len(c) + Len(d)
          /\ \A i \in 1..Len(c) : (c \o d)[i] = c[i]
          /\ \A i \in 1..Len(d) : (c \o d)[Len(c) + i] = d[i]
      <4>1. c \in Seq(STRING)
        BY <1>1
      <4>2. d \in Seq(STRING)
        BY <1>2
      <4> QED BY <4>1, <4>2, ConcatProperties
    <3> DEFINE u == c \o d
    <3> HIDE DEF u
    <3>2. /\ u \in Seq(STRING) /\ Len(u) = p + n
          /\ \A i \in 1..p : u[i] = c[i] /\ \A j \in 1..n : u[p + j] = d[j]
      <4>1. Len(c) = p /\ Len(d) = n
        BY <1>1, <1>2
      <4> QED BY <3>1, <4>1 DEF u
    <3> QED BY <3>2 DEF u
  <2>2. ASSUME NEW i \in 1..(p + n) PROVE (c \o d)[i] = e[i]
    <3>1. CASE i \in 1..p
      BY <1>1, <1>3, <2>1, <3>1
    <3>2. CASE i \notin 1..p
      <4>1. i - p \in 1..n /\ p + (i - p) = i
        BY <3>2
      <4> DEFINE k == i - p
      <4>2. k \in 1..n /\ p + k = i
        BY <4>1
      <4> HIDE DEF k
      <4>3. (c \o d)[p + k] = d[k]
        BY <2>1, <4>2
      <4>4. d[k] = S[p + k]
        BY <1>2, <4>2
      <4>5. e[i] = S[i]
        BY <1>3
      <4> QED BY <4>2, <4>3, <4>4, <4>5
    <3> QED BY <3>1, <3>2
  <2> DEFINE u == c \o d
  <2>3. u \in Seq(STRING) /\ Len(u) = Len(e) /\ \A i \in 1..Len(u) : u[i] = e[i]
    BY <1>3, <2>1, <2>2
  <2> HIDE DEF u
  <2>4. u = e
    BY <1>3, <2>3, SeqEqual
  <2> QED BY <2>4 DEF u
<1>5. ASSUME NEW m \in 1..p PROVE SubSeq(c, m, p) = w(m)
  <2> DEFINE T == SubSeq(S, p + 1, Len(S))
             v == SubSeq(c, m, p)
             y == w(m)
  <2>1. /\ v \in Seq(STRING) /\ Len(v) = p - m + 1
        /\ \A i \in 1..(p - m + 1) : v[i] = c[m + i - 1]
    <3>1. \A i \in m..p : c[i] \in STRING
      BY <1>1
    <3> QED BY <1>1, <3>1, SubSeqProperties
  <2>2. /\ y \in Seq(STRING) /\ Len(y) = p - m + 1
        /\ \A i \in 1..(p - m + 1) : y[i] = S[m + i - 1]
    <3>1. \A i \in m..p : S[i] \in STRING
      OBVIOUS
    <3> QED BY <3>1, SubSeqProperties
  <2> HIDE DEF v, y, w
  <2>3. ASSUME NEW i \in 1..(p - m + 1) PROVE v[i] = y[i]
    <3>1. m + i - 1 \in 1..p
      OBVIOUS
    <3> QED BY <1>1, <2>1, <2>2, <3>1
  <2>4. v = y
    BY <2>1, <2>2, <2>3, SeqEqual
  <2> QED BY <2>4 DEF v, y
<1>6. c # <<>> /\ d # <<>>
  BY <1>1, <1>2
<1> QED BY <1>1, <1>2, <1>4, <1>5, <1>6 DEF c, d, e, w

-------------------------------------------------------------------------------
(* The inductive invariant *)
CutInv == StreamInv /\ pos <= Len(stream[2]) /\ SplitInvariant

LEMMA FirstFeed ==
    ASSUME CutInv, NEW n \in Nat \ {0}, Feed(n), pos = 0
    PROVE  SplitInvariant'
<1> DEFINE q == http_parser_init(stream[1])
           X == http_parser_execute(q, SubSeq(stream[2], 1, n))
<1>1. /\ ~ended /\ pos' = n /\ stream' = stream /\ n # 0 /\ 0 + n = n /\ 0 + 1 = 1
      /\ parser' = http_parser_execute(parser, SubSeq(stream[2], 1, n)).q
      /\ seen' = Merge(seen, http_parser_execute(parser, SubSeq(stream[2], 1, n)).out)
  BY DEF Feed, Execute
<1>2. q.http_errno = "HPE_OK"
  BY InitWhole
<1>3. AtOnce = [q |-> q, out |-> <<>>]
  BY DEF AtOnce
<1>4. parser = q /\ seen = <<>>
  <2> HIDE DEF q
  <2> QED BY <1>1, <1>2, <1>3 DEF CutInv, SplitInvariant
<1>5. AtOnce' = [q |-> X.q, out |-> Merge(<<>>, X.out)]
  BY <1>1 DEF AtOnce, Merged
<1>6. parser' = X.q /\ seen' = Merge(<<>>, X.out)
  BY <1>1, <1>4
<1>7. <<>> \in Beginnings'
  BY DEF Beginnings
<1> HIDE DEF X, q
<1>8. seen' = AtOnce'.out /\ parser' = AtOnce'.q /\ Merge(AtOnce'.out, <<>>) = seen'
  BY <1>5, <1>6, MergeNone
<1> QED BY <1>7, <1>8 DEF SplitInvariant

LEMMA LaterFeed ==
    ASSUME CutInv, NEW n \in Nat \ {0}, Feed(n), pos # 0
    PROVE  SplitInvariant'
<1> DEFINE S == stream[2]
           q == http_parser_init(stream[1])
           c == SubSeq(S, 1, pos)
           d == SubSeq(S, pos + 1, pos + n)
           X == http_parser_execute(q, SubSeq(S, 1, pos + n))
           A == http_parser_execute(q, c)
           B == http_parser_execute(A.q, d)
           t == Merge(<<>>, A.out)
<1>1. /\ ~ended /\ ~parser.upgrade /\ pos' = pos + n /\ stream' = stream
      /\ pos \in Nat \ {0} /\ pos + n <= Len(S) /\ S \in Seq(STRING)
      /\ parser' = http_parser_execute(parser, d).q
      /\ seen' = Merge(seen, http_parser_execute(parser, d).out)
  BY StreamsAssumption DEF Feed, Execute, CutInv, StreamInv
<1>2. /\ Sound(q) /\ q.http_errno = "HPE_OK" /\ q.upgrade = FALSE /\ Kind(q.state) = "none"
  BY InitWhole
<1>3. /\ c \in Seq(STRING) /\ c # <<>> /\ Len(c) = pos /\ d \in Seq(STRING) /\ d # <<>>
      /\ c \o d = SubSeq(S, 1, pos + n)
      /\ \A m \in 1..pos : SubSeq(c, m, pos) = SubSeq(S, m, pos)
  <2> HIDE DEF S
  <2> QED BY <1>1, Received
<1>4. AtOnce = [q |-> A.q, out |-> t]
  BY <1>1 DEF AtOnce, Merged
<1>5. AtOnce' = [q |-> X.q, out |-> Merge(<<>>, X.out)]
  <2>1. pos' # 0
    BY <1>1
  <2> QED BY <1>1, <2>1 DEF AtOnce, Merged
<1>6. X = http_parser_execute(q, c \o d)
  BY <1>3
<1>13. /\ A.q.http_errno # "HPE_OK" => X.q = A.q /\ X.out = A.out
       /\ A.q.http_errno = "HPE_OK" /\ ~A.q.upgrade =>
             /\ X.q = B.q
             /\ B.q.http_errno = "HPE_OK" => Merge(<<>>, X.out) = Merge(t, B.out)
             /\ Partly(c, X.out, Merge(t, B.out))
  <2>1. Composed(q, c, d)
    <3> HIDE DEF q, c, d
    <3> QED BY <1>2, <1>3, Compose
  <2> QED BY <1>6, <2>1 DEF Composed
<1>7. /\ parser = A.q
      /\ A.q.http_errno = "HPE_OK" => seen = t
      /\ A.q.http_errno # "HPE_OK" => \E b \in Beginnings : seen = Merge(t, b)
  <2> HIDE DEF A, t
  <2> QED BY <1>1, <1>4 DEF CutInv, SplitInvariant
<1>8. ASSUME NEW b \in Beginnings PROVE b \in Beginnings'
  <2>1. \A i \in 1..pos : i \in 1..pos'
    BY <1>1
  <2>2. CASE b = <<>>
    BY <2>2 DEF Beginnings
  <2>3. CASE b # <<>>
    <3>1. PICK k \in DataKinds, i \in 1..pos, j \in 1..pos :
             b = <<<<k, SubSeq(stream[2], i, j)>>>>
      BY <2>3 DEF Beginnings
    <3>2. i \in 1..pos' /\ j \in 1..pos' /\ stream'[2] = stream[2]
      BY <1>1, <2>1
    <3> QED BY <3>1, <3>2 DEF Beginnings
  <2> QED BY <2>2, <2>3
<1>9. ASSUME NEW f \in DataKinds, NEW m \in 1..Len(c)
      PROVE  <<<<f, SubSeq(c, m, Len(c))>>>> \in Beginnings'
  <2>1. m \in 1..pos' /\ pos \in 1..pos' /\ SubSeq(c, m, Len(c)) = SubSeq(stream'[2], m, pos)
    BY <1>1, <1>3
  <2> HIDE DEF c
  <2> QED BY <2>1 DEF Beginnings
<1>10. <<>> \in Beginnings'
  BY DEF Beginnings
<1> HIDE DEF S, q, c, d, X, A, B
<1>11. CASE A.q.http_errno # "HPE_OK"
  <2>1. X.q = A.q /\ X.out = A.out
    BY <1>11, <1>13
  <2>2. http_parser_execute(parser, d) = [q |-> parser, out |-> <<>>, parsed |-> 0]
    BY <1>7, <1>11 DEF http_parser_execute
  <2>3. parser' = parser /\ seen' = seen
    BY <1>1, <2>2, MergeNone
  <2>4. AtOnce'.q = A.q /\ AtOnce'.out = t
    BY <1>5, <2>1
  <2>5. PICK b \in Beginnings : seen = Merge(t, b)
    BY <1>7, <1>11
  <2> HIDE DEF t
  <2>6. b \in Beginnings' /\ seen' = Merge(AtOnce'.out, b) /\ parser' = AtOnce'.q
        /\ parser'.http_errno # "HPE_OK"
    BY <1>7, <1>8, <1>11, <2>3, <2>4, <2>5
  <2> QED BY <2>6 DEF SplitInvariant
<1>12. CASE A.q.http_errno = "HPE_OK"
  <2>1. parser = A.q /\ seen = t /\ ~A.q.upgrade
    BY <1>1, <1>7, <1>12
  <2>2. parser' = B.q /\ seen' = Merge(t, B.out)
    BY <1>1, <2>1 DEF B
  <2>3. /\ X.q = B.q
        /\ B.q.http_errno = "HPE_OK" => Merge(<<>>, X.out) = Merge(t, B.out)
        /\ Partly(c, X.out, Merge(t, B.out))
    BY <1>12, <1>13, <2>1
  <2> HIDE DEF t
  <2> DEFINE o == Merge(<<>>, X.out)
  <2>4. AtOnce'.q = X.q /\ AtOnce'.out = o
    BY <1>5
  <2>5. \E b \in Beginnings' : seen' = Merge(o, b)
    <3>1. CASE seen' = o
      <4>1. Merge(o, <<>>) = o
        BY MergeNone
      <4> HIDE DEF o
      <4> QED BY <1>10, <3>1, <4>1
    <3>2. CASE \E f \in DataKinds : \E m \in 1..Len(c) :
                  seen' = Merge(o, <<<<f, SubSeq(c, m, Len(c))>>>>)
      <4> HIDE DEF o
      <4>1. PICK f \in DataKinds, m \in 1..Len(c) :
                  seen' = Merge(o, <<<<f, SubSeq(c, m, Len(c))>>>>)
        BY <3>2
      <4> QED BY <1>9, <4>1
    <3> QED BY <2>2, <2>3, <3>1, <3>2 DEF Partly
  <2>6. /\ parser' = AtOnce'.q
        /\ parser'.http_errno = "HPE_OK" => seen' = AtOnce'.out
    BY <2>2, <2>3, <2>4
  <2> HIDE DEF o
  <2> QED BY <2>4, <2>5, <2>6 DEF SplitInvariant
<1> QED BY <1>11, <1>12

(* However the stream is cut into reads, the parser ends in the state of a *)
(* single call and has reported the same data: for all streams, of any     *)
(* length, and every cut, also inside a word, a number, a chunk size or    *)
(* the line end that ends a chunk.                                         *)
THEOREM CutsDoNotMatter == StreamSpec => []SplitInvariant
<1>1. StreamInit => CutInv
  <2> SUFFICES ASSUME StreamInit PROVE CutInv
    OBVIOUS
  <2>1. StreamInv
    BY InitSound DEF StreamInit, StreamInv
  <2>2. pos = 0 /\ parser = http_parser_init(stream[1]) /\ seen = <<>>
        /\ stream[2] \in Seq(STRING)
    BY StreamsAssumption DEF StreamInit
  <2>3. AtOnce = [q |-> parser, out |-> <<>>]
    BY <2>2 DEF AtOnce
  <2>4. parser.http_errno = "HPE_OK"
    BY <2>2, InitWhole
  <2> QED BY <2>1, <2>2, <2>3, <2>4 DEF CutInv, SplitInvariant
<1>2. CutInv /\ [StreamNext]_streamVars => CutInv'
  <2> SUFFICES ASSUME CutInv, [StreamNext]_streamVars PROVE CutInv'
    OBVIOUS
  <2>1. StreamInv'
    BY StreamStep DEF CutInv
  <2>2. stream[2] \in Seq(STRING) /\ pos \in Nat /\ pos <= Len(stream[2])
    BY StreamsAssumption DEF CutInv, StreamInv
  <2>3. ASSUME NEW n \in 1..MaxPiece \cup {Len(stream[2]) - pos}, n > 0, Feed(n) PROVE CutInv'
    <3>1. n \in Nat \ {0}
      BY <2>2, <2>3, StreamsAssumption
    <3>2. SplitInvariant'
      BY <2>3, <3>1, FirstFeed, LaterFeed
    <3>3. pos' <= Len(stream'[2])
      BY <2>3 DEF Feed
    <3> QED BY <2>1, <3>2, <3>3 DEF CutInv
  <2>4. CASE Close
    <3>1. ended' = TRUE /\ pos' = pos /\ stream' = stream
      BY <2>4 DEF Close
    <3> QED BY <2>1, <2>2, <3>1 DEF CutInv, SplitInvariant
  <2>5. CASE UNCHANGED streamVars
    <3>1. AtOnce' = AtOnce /\ Beginnings' = Beginnings
      BY <2>5 DEF streamVars, AtOnce, Beginnings
    <3> QED BY <2>1, <2>5, <3>1 DEF streamVars, CutInv, SplitInvariant
  <2> QED BY <2>3, <2>4, <2>5 DEF StreamNext
<1>3. CutInv => SplitInvariant
  BY DEF CutInv
<1> QED BY <1>1, <1>2, <1>3, PTL DEF StreamSpec

-------------------------------------------------------------------------------
(* The front of the server *)
PartTasks == {Task(c, Part(r, p)) : c \in Conns, r \in Requests, p \in Nat \X Nat}

FrontTypes ==
    /\ request \in [Conns -> Requests]
    /\ sent \in [Conns -> Nat]
    /\ conn \in [Conns -> {"open", "writing", "closed", "gone"}]
    /\ queue \in Seq(PartTasks)
    /\ running \in [Workers -> PartTasks \cup {NoTask}]
    /\ answers \in [Conns -> Seq(Nat \X Nat)]

Working(w) == running[w] # NoTask

(* A connection that has a task or an answer has been read to its end. *)
ReadFirst ==
    /\ \A t \in Tasks : sent[t.c] = Len(request[t.c].wire) /\ answers[t.c] = <<>>
    /\ \A c \in Conns :
          /\ answers[c] # <<>> => sent[c] = Len(request[c].wire) /\ Len(answers[c]) = 1
          /\ conn[c] \in {"open", "gone"} => answers[c] = <<>>

(* It has one task at most, in the queue or with a worker. *)
OneTask ==
    /\ \A i, j \in 1..Len(queue) : queue[i].c = queue[j].c => i = j
    /\ \A i \in 1..Len(queue), w \in Workers : Working(w) => running[w].c # queue[i].c
    /\ \A v, w \in Workers : Working(v) /\ Working(w) /\ running[v].c = running[w].c => v = w

OneInv == FrontTypes /\ ReadFirst /\ OneTask

-------------------------------------------------------------------------------
LEMMA TaskConn ==
    \A t \in PartTasks : t.c \in Conns /\ t # NoTask
<1> SUFFICES ASSUME NEW c \in Conns, NEW r \in Requests, NEW p \in Nat \X Nat
             PROVE  Task(c, Part(r, p)).c = c /\ Task(c, Part(r, p)) # NoTask
  BY DEF PartTasks
<1> DEFINE w == Part(r, p)
<1> HIDE DEF w
<1>1. Task(c, w).c = c
  BY DEF Task
<1>2. "handler" \in DOMAIN Task(c, w) /\ "handler" \notin DOMAIN NoTask
  BY DEF Task, NoTask
<1> QED BY <1>1, <1>2 DEF w

LEMMA TaskPlaces ==
    ASSUME FrontTypes
    PROVE  Tasks = {queue[i] : i \in 1..Len(queue)}
                   \cup {running[w] : w \in {v \in Workers : Working(v)}}
BY DEF FrontTypes, Tasks, ToSet, Working

(* The ways through OnRead: nothing is dispatched, or a task is. *)
Arrives(c, n) ==
    /\ conn[c] \in {"open", "writing"}
    /\ n > 0 /\ sent[c] + n <= Len(request[c].wire)
    /\ sent' = [sent EXCEPT ![c] = @ + n]
    /\ UNCHANGED <<request, running, answers>>

LEMMA ReadWays ==
    ASSUME FrontTypes, \A r \in Requests : OneMessage(r),
           NEW c \in Conns, NEW n \in 1..Len(request[c].wire), OnRead(c, n)
    PROVE  /\ Arrives(c, n)
           /\ \/ queue' = queue /\ (conn' = conn \/ conn' = [conn EXCEPT ![c] = "closed"])
              \/ LET w == Part(request[c], <<sent[c], n>>)
                 IN  /\ queue' = Append(queue, Task(c, w)) /\ conn' = conn
                     /\ w.read_all /\ Route(CString(w.url)) # {}
<1>1. n \in Nat /\ n > 0 /\ sent[c] \in Nat
  BY DEF FrontTypes, OneMessage
<1>2. Part(request[c], <<sent[c], n>>)
      = ParseHttpContent(SubSeq(request[c].wire, sent[c] + 1, sent[c] + n))
  BY DEF Part
<1>3. Arrives(c, n)
  BY <1>1 DEF OnRead, Arrives
<1> QED BY <1>2, <1>3 DEF OnRead, Run, ForceClose

(* The sets of tasks before and after. *)
LEMMA ReadOne ==
    ASSUME OneInv, \A r \in Requests : OneMessage(r),
           NEW c \in Conns, NEW n \in 1..Len(request[c].wire), OnRead(c, n)
    PROVE  OneInv'
<1> DEFINE w == Part(request[c], <<sent[c], n>>)
           t == Task(c, w)
<1> HIDE DEF w, t
<1>1. /\ Arrives(c, n)
      /\ \/ queue' = queue /\ (conn' = conn \/ conn' = [conn EXCEPT ![c] = "closed"])
         \/ /\ queue' = Append(queue, t) /\ conn' = conn
            /\ w.read_all
  BY ReadWays DEF OneInv, w, t
<1>2. FrontTypes /\ ReadFirst /\ OneTask
  BY DEF OneInv
<1>3. request[c] \in Requests /\ n \in Nat /\ Len(request[c].wire) \in Nat
  BY <1>1, <1>2 DEF FrontTypes, OneMessage
<1>4. /\ sent[c] \in Nat /\ sent[c] < Len(request[c].wire)
      /\ sent'[c] = sent[c] + n
      /\ \A d \in Conns \ {c} : sent'[d] = sent[d]
      /\ UNCHANGED <<request, running, answers>>
  BY <1>1, <1>2, <1>3 DEF FrontTypes, Arrives
<1>5. /\ answers[c] = <<>>
      /\ \A i \in 1..Len(queue) : queue[i].c # c
      /\ \A v \in Workers : Working(v) => running[v].c # c
  <2>1. \A s \in Tasks : s.c # c
    BY <1>2, <1>3, <1>4 DEF ReadFirst
  <2>2. answers[c] = <<>>
    BY <1>2, <1>3, <1>4 DEF ReadFirst
  <2> QED BY <1>2, <2>1, <2>2, TaskPlaces
<1>6. CASE queue' = queue /\ (conn' = conn \/ conn' = [conn EXCEPT ![c] = "closed"])
  <2>1. FrontTypes'
    <3>1. conn' \in [Conns -> {"open", "writing", "closed", "gone"}]
      BY <1>2, <1>6 DEF FrontTypes
    <3>2. sent' \in [Conns -> Nat]
      BY <1>1, <1>2, <1>3 DEF FrontTypes, Arrives
    <3> QED BY <1>2, <1>4, <1>6, <3>1, <3>2 DEF FrontTypes
  <2>2. Tasks' = Tasks
    BY <1>4, <1>6 DEF Tasks
  <2>3. \A s \in Tasks : s.c \in Conns /\ s.c # c
    BY <1>2, <1>5, TaskPlaces, TaskConn DEF FrontTypes, Working
  <2>4. ReadFirst'
    <3>1. \A s \in Tasks : sent'[s.c] = sent[s.c]
      BY <1>4, <2>3
    <3>2. \A d \in Conns : conn'[d] \in {"open", "gone"} => conn[d] \in {"open", "gone"}
      BY <1>2, <1>6 DEF FrontTypes
    <3>3. \A d \in Conns : answers[d] # <<>> => sent'[d] = sent[d]
      BY <1>4, <1>5
    <3> QED BY <1>2, <1>4, <2>2, <3>1, <3>2, <3>3 DEF ReadFirst
  <2>5. OneTask'
    BY <1>2, <1>4, <1>6 DEF OneTask, Working
  <2> QED BY <2>1, <2>4, <2>5 DEF OneInv
<1>7. CASE queue' = Append(queue, t) /\ conn' = conn /\ w.read_all
  <2>1. sent[c] + n = Len(request[c].wire)
    <3>1. <<sent[c], n>> \in Parts(request[c])
      BY <1>1, <1>3, <1>4 DEF Parts, Arrives
    <3> QED BY <1>3, <1>7, <3>1 DEF OneMessage, w
  <2>2. t \in PartTasks /\ t.c = c
    <3>1. t \in PartTasks
      BY <1>3, <1>4 DEF PartTasks, t, w
    <3> QED BY <3>1 DEF t, Task
  <2>3. FrontTypes'
    BY <1>1, <1>2, <1>3, <1>4, <1>7, <2>2 DEF FrontTypes, Arrives
  <2>4. /\ Len(queue') = Len(queue) + 1 /\ Len(queue) \in Nat
        /\ queue'[Len(queue) + 1] = t
        /\ \A i \in 1..Len(queue) : queue'[i] = queue[i]
    BY <1>2, <1>7, <2>2 DEF FrontTypes
  <2>5. Tasks' = Tasks \cup {t}
    <3>1. Tasks' = {queue'[i] : i \in 1..Len(queue')}
                   \cup {running'[v] : v \in {u \in Workers : Working(u)'}}
      BY <2>3, TaskPlaces DEF FrontTypes, Tasks, ToSet, Working
    <3>2. 1..Len(queue') = 1..Len(queue) \cup {Len(queue) + 1}
      BY <2>4
    <3>3. {running'[v] : v \in {u \in Workers : Working(u)'}}
          = {running[v] : v \in {u \in Workers : Working(u)}}
      BY <1>4 DEF Working
    <3>4. {queue'[i] : i \in 1..Len(queue')} = {queue[i] : i \in 1..Len(queue)} \cup {t}
      BY <2>4, <3>2
    <3> QED BY <1>2, <3>1, <3>3, <3>4, TaskPlaces
  <2>6. \A s \in Tasks : s.c \in Conns /\ s.c # c
    BY <1>2, <1>5, TaskPlaces, TaskConn DEF FrontTypes, Working
  <2>7. ReadFirst'
    <3>1. \A s \in Tasks : sent'[s.c] = sent[s.c]
      BY <1>4, <2>6
    <3>2. \A d \in Conns : answers[d] # <<>> => sent'[d] = sent[d]
      BY <1>4, <1>5
    <3>3. sent'[t.c] = Len(request'[t.c].wire) /\ answers'[t.c] = <<>>
      BY <1>4, <1>5, <2>1, <2>2
    <3> QED BY <1>2, <1>4, <1>7, <2>5, <3>1, <3>2, <3>3 DEF ReadFirst
  <2>8. OneTask'
    <3>1. \A i, j \in 1..Len(queue') : queue'[i].c = queue'[j].c => i = j
      BY <1>2, <1>5, <2>2, <2>4 DEF OneTask
    <3>2. \A i \in 1..Len(queue'), v \in Workers : Working(v) => running[v].c # queue'[i].c
      BY <1>2, <1>5, <2>2, <2>4 DEF OneTask
    <3> QED BY <1>2, <1>4, <3>1, <3>2 DEF OneTask, Working
  <2> QED BY <2>3, <2>7, <2>8 DEF OneInv
<1> QED BY <1>1, <1>6, <1>7

LEMMA TakeOne ==
    ASSUME OneInv, NEW w \in Workers, Take(w)
    PROVE  OneInv' /\ Tasks' = Tasks
<1> DEFINE t == Head(queue)
<1>1. FrontTypes /\ ReadFirst /\ OneTask
  BY DEF OneInv
<1>2. /\ ~Working(w) /\ queue # <<>>
      /\ running' = [running EXCEPT ![w] = t] /\ queue' = Tail(queue)
      /\ UNCHANGED <<request, sent, conn, wrapper, answers>>
  BY DEF Take, Working
<1>3. /\ t = queue[1] /\ Len(queue) \in Nat /\ Len(queue) > 0 /\ Len(queue') = Len(queue) - 1
      /\ \A i \in 1..Len(queue') : i + 1 \in 1..Len(queue) /\ queue'[i] = queue[i + 1]
      /\ t \in PartTasks
  BY <1>1, <1>2 DEF FrontTypes
<1>4. FrontTypes'
  BY <1>1, <1>2, <1>3 DEF FrontTypes
<1>5. /\ running'[w] = t /\ Working(w)'
      /\ \A v \in Workers \ {w} : running'[v] = running[v]
  BY <1>1, <1>2, <1>3, TaskConn DEF FrontTypes, Working
<1> HIDE DEF t
<1>6. Tasks' = Tasks
  <2>1. Tasks' = {queue'[i] : i \in 1..Len(queue')}
                 \cup {running'[v] : v \in {u \in Workers : Working(u)'}}
    BY <1>4, TaskPlaces DEF FrontTypes, Tasks, ToSet, Working
  <2>2. {queue[i] : i \in 1..Len(queue)} = {queue'[i] : i \in 1..Len(queue')} \cup {t}
    <3>1. \A i \in 1..Len(queue) :
             queue[i] = t \/ \E j \in 1..Len(queue') : queue[i] = queue'[j]
      <4> SUFFICES ASSUME NEW i \in 1..Len(queue), i # 1
                   PROVE  \E j \in 1..Len(queue') : queue[i] = queue'[j]
        BY <1>3
      <4>1. i - 1 \in 1..Len(queue') /\ (i - 1) + 1 = i
        BY <1>3
      <4> QED BY <1>3, <4>1
    <3>2. \E i \in 1..Len(queue) : queue[i] = t
      <4>1. 1 \in 1..Len(queue)
        BY <1>3
      <4> QED BY <1>3, <4>1
    <3>3. \A j \in 1..Len(queue') : \E i \in 1..Len(queue) : queue[i] = queue'[j]
      BY <1>3
    <3> DEFINE X == {queue[i] : i \in 1..Len(queue)}
               Y == {queue'[i] : i \in 1..Len(queue')}
    <3>4. \A z \in X : z \in Y \cup {t}
      BY <3>1
    <3>5. \A z \in Y : z \in X
      BY <3>3
    <3>6. t \in X
      BY <3>2
    <3> HIDE DEF X, Y
    <3>7. X = Y \cup {t}
      BY <3>4, <3>5, <3>6
    <3> QED BY <3>7 DEF X, Y
  <2>3. {running'[v] : v \in {u \in Workers : Working(u)'}}
        = {running[v] : v \in {u \in Workers : Working(u)}} \cup {t}
    BY <1>2, <1>5 DEF Working
  <2> QED BY <1>1, <2>1, <2>2, <2>3, TaskPlaces
<1>7. ReadFirst'
  BY <1>1, <1>2, <1>6 DEF ReadFirst
<1>8. OneTask'
  <2>1. \A i, j \in 1..Len(queue') : queue'[i].c = queue'[j].c => i = j
    <3> SUFFICES ASSUME NEW i \in 1..Len(queue'), NEW j \in 1..Len(queue'),
                        queue'[i].c = queue'[j].c
                 PROVE  i = j
      OBVIOUS
    <3>1. i + 1 = j + 1
      BY <1>1, <1>3, ZenonT(60) DEF OneTask
    <3> QED BY <1>3, <3>1
  <2>2. \A i \in 1..Len(queue') : queue'[i].c # t.c
    <3> SUFFICES ASSUME NEW i \in 1..Len(queue') PROVE queue'[i].c # t.c
      OBVIOUS
    <3>1. 1 \in 1..Len(queue) /\ i + 1 # 1
      BY <1>3
    <3> QED BY <1>1, <1>3, <3>1 DEF OneTask
  <2>3. \A v \in Workers : Working(v) => running[v].c # t.c
    <3>1. 1 \in 1..Len(queue)
      BY <1>3
    <3> QED BY <1>1, <1>3, <3>1 DEF OneTask
  <2>4. \A i \in 1..Len(queue'), v \in Workers : Working(v) => running[v].c # queue'[i].c
    BY <1>1, <1>3 DEF OneTask
  <2>5. \A i \in 1..Len(queue'), v \in Workers : Working(v)' => running'[v].c # queue'[i].c
    BY <1>5, <2>2, <2>4 DEF Working
  <2>6. \A v, u \in Workers :
           Working(v)' /\ Working(u)' /\ running'[v].c = running'[u].c => v = u
    BY <1>1, <1>5, <2>3 DEF OneTask, Working
  <2> QED BY <2>1, <2>5, <2>6 DEF OneTask
<1> QED BY <1>4, <1>6, <1>7, <1>8 DEF OneInv

LEMMA AnswerOne ==
    ASSUME OneInv, NEW w \in Workers, NEW ulen \in ResponseSizes, HandleRequest(w, ulen)
    PROVE  OneInv' /\ Tasks' \subseteq Tasks
<1> DEFINE c == running[w].c
           written == IF ulen >= HTTP_RESPONSE_HTML_MAX
                      THEN HTTP_RESPONSE_HTML_MAX - 1 ELSE ulen
<1>1. FrontTypes /\ ReadFirst /\ OneTask
  BY DEF OneInv
<1>2. /\ Working(w) /\ running' = [running EXCEPT ![w] = NoTask]
      /\ UNCHANGED <<request, sent, wrapper, queue>>
      /\ \/ /\ conn[c] \in {"open", "writing"}
            /\ answers' = [answers EXCEPT ![c] = Append(@, <<ulen, written>>)]
            /\ conn' = [conn EXCEPT ![c] = "writing"]
         \/ UNCHANGED <<answers, conn>>
  BY DEF HandleRequest, Working
<1>3. /\ c \in Conns /\ running[w] \in Tasks /\ ~Working(w)'
      /\ \A v \in Workers \ {w} : running'[v] = running[v]
  BY <1>1, <1>2, TaskPlaces, TaskConn DEF FrontTypes, Working
<1>4. <<ulen, written>> \in Nat \X Nat
  BY ResponseAssumption
<1> HIDE DEF c, written
<1>5. FrontTypes'
  <2>1. running' \in [Workers -> PartTasks \cup {NoTask}]
    BY <1>1, <1>2 DEF FrontTypes
  <2>2. answers' \in [Conns -> Seq(Nat \X Nat)]
    <3>1. answers[c] \in Seq(Nat \X Nat)
      BY <1>1, <1>3 DEF FrontTypes
    <3>2. Append(answers[c], <<ulen, written>>) \in Seq(Nat \X Nat)
      BY <1>4, <3>1
    <3> QED BY <1>1, <1>2, <3>2 DEF FrontTypes
  <2>3. conn' \in [Conns -> {"open", "writing", "closed", "gone"}]
    BY <1>1, <1>2 DEF FrontTypes
  <2> QED BY <1>1, <1>2, <2>1, <2>2, <2>3 DEF FrontTypes
<1>6. Tasks' = {queue[i] : i \in 1..Len(queue)}
               \cup {running[v] : v \in {u \in Workers : Working(u) /\ u # w}}
  <2>1. Tasks' = {queue'[i] : i \in 1..Len(queue')}
                 \cup {running'[v] : v \in {u \in Workers : Working(u)'}}
    BY <1>5, TaskPlaces DEF FrontTypes, Tasks, ToSet, Working
  <2>2. {running'[v] : v \in {u \in Workers : Working(u)'}}
        = {running[v] : v \in {u \in Workers : Working(u) /\ u # w}}
    BY <1>3 DEF Working
  <2> QED BY <1>2, <2>1, <2>2
<1>7. Tasks' \subseteq Tasks
  BY <1>1, <1>6, TaskPlaces
<1>8. \A t \in Tasks' : t.c # c
  <2>1. \A i \in 1..Len(queue) : queue[i].c # c
    BY <1>1, <1>2 DEF OneTask, c
  <2>2. \A v \in Workers : Working(v) /\ v # w => running[v].c # c
    BY <1>1, <1>2 DEF OneTask, c
  <2> QED BY <1>6, <2>1, <2>2
<1>9. ReadFirst'
  <2>1. answers[c] = <<>> /\ sent[c] = Len(request[c].wire)
    BY <1>1, <1>3 DEF ReadFirst, c
  <2>2. \A d \in Conns \ {c} : answers'[d] = answers[d] /\ conn'[d] = conn[d]
    BY <1>1, <1>2, <1>3 DEF FrontTypes
  <2>3. \/ answers'[c] = <<>> /\ conn'[c] = conn[c]
        \/ Len(answers'[c]) = 1 /\ conn'[c] = "writing"
    <3>1. CASE UNCHANGED <<answers, conn>>
      BY <2>1, <3>1
    <3>2. CASE /\ answers' = [answers EXCEPT ![c] = Append(@, <<ulen, written>>)]
               /\ conn' = [conn EXCEPT ![c] = "writing"]
      <4>1. answers'[c] = Append(<<>>, <<ulen, written>>)
        BY <1>1, <1>3, <2>1, <3>2 DEF FrontTypes
      <4>2. Len(answers'[c]) = 1
        BY <1>4, <4>1
      <4> QED BY <1>1, <1>3, <3>2, <4>2 DEF FrontTypes
    <3> QED BY <1>2, <3>1, <3>2
  <2>4. \A t \in Tasks' : sent'[t.c] = Len(request'[t.c].wire) /\ answers'[t.c] = <<>>
    <3> SUFFICES ASSUME NEW t \in Tasks'
                 PROVE  sent'[t.c] = Len(request'[t.c].wire) /\ answers'[t.c] = <<>>
      OBVIOUS
    <3>1. t \in Tasks /\ t.c # c
      BY <1>7, <1>8
    <3>2. t.c \in Conns
      BY <1>1, <3>1, TaskPlaces, TaskConn DEF FrontTypes, Working
    <3> QED BY <1>1, <1>2, <2>2, <3>1, <3>2 DEF ReadFirst
  <2>5. \A d \in Conns :
          /\ answers'[d] # <<>> => sent'[d] = Len(request'[d].wire) /\ Len(answers'[d]) = 1
          /\ conn'[d] \in {"open", "gone"} => answers'[d] = <<>>
    <3> SUFFICES ASSUME NEW d \in Conns
                 PROVE  /\ answers'[d] # <<>> => sent'[d] = Len(request'[d].wire)
                                                 /\ Len(answers'[d]) = 1
                        /\ conn'[d] \in {"open", "gone"} => answers'[d] = <<>>
      OBVIOUS
    <3>1. CASE d = c
      BY <1>2, <2>1, <2>3, <3>1
    <3>2. CASE d # c
      BY <1>1, <1>2, <2>2, <3>2 DEF ReadFirst
    <3> QED BY <3>1, <3>2
  <2> QED BY <2>4, <2>5 DEF ReadFirst
<1>10. OneTask'
  BY <1>1, <1>2, <1>3 DEF OneTask, Working
<1> QED BY <1>5, <1>7, <1>9, <1>10 DEF OneInv

LEMMA CloseOne ==
    ASSUME OneInv, NEW c \in Conns, OnWriteComlete(c) \/ ClientCloses(c)
    PROVE  OneInv' /\ Tasks' = Tasks
<1>1. /\ UNCHANGED <<request, sent, queue, running, answers>>
      /\ \/ conn[c] = "open" /\ conn' = [conn EXCEPT ![c] = "gone"]
         \/ conn' = [conn EXCEPT ![c] = "closed"]
  BY DEF OnWriteComlete, ClientCloses, ForceClose
<1>2. FrontTypes'
  BY <1>1 DEF OneInv, FrontTypes
<1>3. Tasks' = Tasks
  BY <1>1 DEF Tasks
<1>4. \A d \in Conns : conn'[d] \in {"open", "gone"} => conn[d] \in {"open", "gone"}
  BY <1>1 DEF OneInv, FrontTypes
<1>5. ReadFirst'
  BY <1>1, <1>3, <1>4 DEF OneInv, ReadFirst
<1>6. OneTask'
  BY <1>1 DEF OneInv, OneTask, Working
<1> QED BY <1>2, <1>3, <1>5, <1>6 DEF OneInv

LEMMA InitOne ==
    ASSUME Init
    PROVE  OneInv /\ Tasks = {}
<1>1. FrontTypes
  BY DEF Init, FrontTypes
<1>2. Len(queue) = 0 /\ \A w \in Workers : ~Working(w)
  BY DEF Init, Working
<1>3. Tasks = {}
  BY <1>1, <1>2, TaskPlaces
<1>4. ReadFirst
  BY <1>3 DEF Init, ReadFirst
<1>5. OneTask
  BY <1>2 DEF OneTask
<1> QED BY <1>1, <1>3, <1>4, <1>5 DEF OneInv

LEMMA NextOne ==
    ASSUME OneInv, [Next]_vars, \A r \in Requests : OneMessage(r)
    PROVE  OneInv'
<1>1. CASE \E c \in Conns : \E n \in 1..Len(request[c].wire) : OnRead(c, n)
  BY <1>1, ReadOne
<1>2. CASE \E w \in Workers : Take(w)
  BY <1>2, TakeOne
<1>3. CASE \E w \in Workers, ulen \in ResponseSizes : HandleRequest(w, ulen)
  BY <1>3, AnswerOne
<1>4. CASE \E c \in Conns : OnWriteComlete(c) \/ ClientCloses(c)
  BY <1>4, CloseOne
<1>5. CASE UNCHANGED vars
  BY <1>5 DEF vars, OneInv, FrontTypes, ReadFirst, OneTask, Tasks, Working
<1> QED BY <1>1, <1>2, <1>3, <1>4, <1>5 DEF Next

(* A connection gets one answer at most, and none that its client is not   *)
(* there to read, wherever the network cuts the requests and whatever the  *)
(* workers are doing, if a client sends one request on a connection: a     *)
(* dispatched connection has been read to the end, so OnRead cannot        *)
(* dispatch it again before OnWriteComlete closes it.                      *)
THEOREM AnsweredOnce ==
    ASSUME \A r \in Requests : OneMessage(r)
    PROVE  Spec => []OneAnswer
<1>1. OneInv => OneAnswer
  <2> SUFFICES ASSUME OneInv, NEW c \in Conns
               PROVE  /\ Len(answers[c]) + Cardinality({t \in Tasks : t.c = c}) <= 1
                      /\ conn[c] = "gone" => answers[c] = <<>>
    BY DEF OneAnswer
  <2>1. FrontTypes /\ ReadFirst /\ OneTask
    BY DEF OneInv
  <2> DEFINE S == {t \in Tasks : t.c = c}
  <2>2. \A t, u \in S : t = u
    BY <2>1, TaskPlaces DEF OneTask, Working
  <2>3. Cardinality(S) \in {0, 1}
    <3>1. CASE S = {}
      BY <3>1, FS_EmptySet
    <3>2. CASE S # {}
      <4>1. PICK t \in S : TRUE
        BY <3>2
      <4>2. S = {t}
        BY <2>2, <4>1
      <4> QED BY <4>2, FS_Singleton
    <3> QED BY <3>1, <3>2
  <2>4. answers[c] # <<>> => S = {}
    BY <2>1 DEF ReadFirst
  <2>5. answers[c] = <<>> => Len(answers[c]) = 0
    OBVIOUS
  <2>6. answers[c] # <<>> => Len(answers[c]) = 1 /\ Cardinality(S) = 0
    BY <2>1, <2>4, FS_EmptySet DEF ReadFirst
  <2>7. Len(answers[c]) + Cardinality(S) <= 1
    <3> DEFINE n == Len(answers[c])
               k == Cardinality(S)
    <3>1. (n = 0 /\ k \in {0, 1}) \/ (n = 1 /\ k = 0)
      BY <2>3, <2>5, <2>6
    <3> HIDE DEF n, k
    <3>2. n + k <= 1
      BY <3>1
    <3> QED BY <3>2 DEF n, k
  <2>8. conn[c] = "gone" => answers[c] = <<>>
    BY <2>1 DEF ReadFirst
  <2> QED BY <2>7, <2>8
<1>2. OneInv /\ [Next]_vars => OneInv'
  BY NextOne
<1> QED BY <1>1, <1>2, InitOne, PTL DEF Spec

LEMMA AppendedOrOld ==
    ASSUME NEW S, NEW q \in Seq(S), NEW e
    PROVE  \A i \in 1..Len(Append(q, e)) :
               Append(q, e)[i] = e \/ \E j \in 1..Len(q) : Append(q, e)[i] = q[j]
<1>1. /\ Len(q) \in Nat /\ Len(Append(q, e)) = Len(q) + 1
      /\ Append(q, e)[Len(q) + 1] = e
      /\ \A i \in 1..Len(q) : Append(q, e)[i] = q[i]
  OBVIOUS
<1>2. \A i \in 1..Len(Append(q, e)) : i = Len(q) + 1 \/ i \in 1..Len(q)
  BY <1>1
<1> QED BY <1>1, <1>2

(* What a task says was sent by its client, wherever the network cuts the  *)
(* requests and whichever connections and workers are at it, if the parser *)
(* understands each request by itself: no task has a part of a request, or *)
(* another connection's.                                                   *)
THEOREM TasksAreSent ==
    ASSUME \A r \in Requests : OneMessage(r) /\ Understood(r)
    PROVE  Spec => []DispatchedIsSent
<1>1. OneInv /\ DispatchedIsSent /\ [Next]_vars => DispatchedIsSent'
  <2> SUFFICES ASSUME OneInv, DispatchedIsSent, [Next]_vars
               PROVE  DispatchedIsSent'
    OBVIOUS
  <2>1. ASSUME NEW c \in Conns, NEW n \in 1..Len(request[c].wire), OnRead(c, n)
        PROVE  DispatchedIsSent'
    <3> DEFINE w == Part(request[c], <<sent[c], n>>)
    <3>1. /\ Arrives(c, n)
          /\ \/ queue' = queue
             \/ /\ queue' = Append(queue, Task(c, w))
                /\ w.read_all /\ Route(CString(w.url)) # {}
      BY <2>1, ReadWays DEF OneInv
    <3>2. OneInv'
      BY <2>1, ReadOne
    <3>3. request[c] \in Requests /\ <<sent[c], n>> \in Parts(request[c])
      BY <3>1 DEF OneInv, FrontTypes, OneMessage, Arrives, Parts
    <3>4. CASE queue' = queue
      BY <3>1, <3>4 DEF Arrives, DispatchedIsSent, Tasks
    <3>5. CASE /\ queue' = Append(queue, Task(c, w))
               /\ w.read_all /\ Route(CString(w.url)) # {}
      <4>1. IsSent(Task(c, w), request[c]) /\ Task(c, w).c = c
        BY <3>3, <3>5 DEF Understood, Task
      <4> HIDE DEF w
      <4>2. \A i \in 1..Len(queue') : queue'[i] = Task(c, w)
                                      \/ \E j \in 1..Len(queue) : queue'[i] = queue[j]
        <5>1. queue \in Seq(PartTasks)
          BY DEF OneInv, FrontTypes
        <5>2. queue' = Append(queue, Task(c, w))
          BY <3>5
        <5> QED BY <5>1, <5>2, AppendedOrOld
      <4>3. Tasks' \subseteq Tasks \cup {Task(c, w)}
        <5>1. ToSet(queue') = {queue'[i] : i \in 1..Len(queue')}
          <6>1. FrontTypes'
            BY <3>2 DEF OneInv
          <6>2. queue' \in Seq(PartTasks)
            BY <6>1 DEF FrontTypes
          <6> QED BY <6>2 DEF ToSet
        <5>2. ToSet(queue) = {queue[i] : i \in 1..Len(queue)}
          <6>1. queue \in Seq(PartTasks)
            BY DEF OneInv, FrontTypes
          <6> QED BY <6>1 DEF ToSet
        <5>3. running' = running
          BY <3>1 DEF Arrives
        <5> QED BY <4>2, <5>1, <5>2, <5>3 DEF Tasks
      <4> QED BY <3>1, <4>1, <4>3 DEF Arrives, DispatchedIsSent
    <3> QED BY <3>1, <3>4, <3>5
  <2>2. ASSUME NEW w \in Workers, Take(w) PROVE DispatchedIsSent'
    BY <2>2, TakeOne DEF Take, DispatchedIsSent
  <2>3. ASSUME NEW w \in Workers, NEW ulen \in ResponseSizes, HandleRequest(w, ulen)
        PROVE  DispatchedIsSent'
    BY <2>3, AnswerOne DEF HandleRequest, DispatchedIsSent
  <2>4. ASSUME NEW c \in Conns, OnWriteComlete(c) \/ ClientCloses(c)
        PROVE  DispatchedIsSent'
    BY <2>4, CloseOne DEF OnWriteComlete, ClientCloses, DispatchedIsSent
  <2>5. CASE UNCHANGED vars
    BY <2>5 DEF vars, DispatchedIsSent, Tasks
  <2> QED BY <2>1, <2>2, <2>3, <2>4, <2>5 DEF Next
<1>2. Init => DispatchedIsSent
  BY InitOne DEF DispatchedIsSent
<1>3. OneInv /\ [Next]_vars => OneInv'
  BY NextOne
<1> QED BY <1>1, <1>2, <1>3, InitOne, PTL DEF Spec
=================================================================================
