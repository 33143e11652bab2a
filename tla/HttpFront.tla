------------------------------- MODULE HttpFront -------------------------------
(***************************************************************************)
(* The server's front (tc_server.cc): what a connection receives is parsed *)
(* by its CHttpParserWrapper, from the beginning at every read; a complete *)
(* request becomes a task of the thread pool; the task sends one response, *)
(* and the connection is closed when it is written.                        *)
(*                                                                         *)
(* The network cuts a request into reads anywhere.  The muzi library (the  *)
(* event loop, the pool, TcpConnection) is not part of the repository and  *)
(* is modelled from the way tc_server.cc uses it.                          *)
(***************************************************************************)
EXTENDS HttpParser, SequencesExt, FiniteSets

CONSTANTS
    Conns,
    Workers,
    Requests,     \* what clients send: [word, query, type, body, wire]
    Cuts,         \* bound: where the network may cut them, besides the end
    Routes,       \* the urls OnRead knows, by their path
    MaxBuffer,    \* more than this in one read is refused (4096 in the code)
    HTTP_RESPONSE_HTML_MAX,
    ResponseSizes \* lengths of a handler's answer

ASSUME ResponseAssumption ==
    HTTP_RESPONSE_HTML_MAX \in Nat \ {0} /\ ResponseSizes \subseteq Nat

VARIABLES
    request,   \* conn -> the request its client sends
    sent,      \* conn -> units of it that arrived
    conn,      \* conn -> "open", "writing", "closed" (by the server), "gone"
    wrapper,   \* conn -> its CHttpParserWrapper
    queue,     \* tasks of the thread pool
    running,   \* worker -> its task, or NoTask
    answers    \* conn -> the responses sent on it: <<announced, written>>

vars == <<request, sent, conn, wrapper, queue, running, answers>>

NoTask == [c |-> "none"]

-----------------------------------------------------------------------------
(* CHttpParserWrapper *)
HeaderNames == {<<"con", "tent-type">>, <<"con", "tent-length">>, <<"host">>}

NewWrapper == [read_all |-> FALSE, url |-> <<>>, body |-> <<>>, want |-> {},
               value |-> [h \in HeaderNames |-> <<>>], total_length |-> 0]

OnUrl(w, at)  == [w EXCEPT !.url = @ \o at]
OnBody(w, at) == [w EXCEPT !.body = @ \o at]

(* The name is compared as far as it goes; a header that has a value is    *)
(* not looked for again.                                                   *)
OnHeaderField(w, at) ==
    [w EXCEPT !.want = @ \cup {h \in HeaderNames : IsPrefix(h, at) /\ w.value[h] = <<>>}]

OnHeaderValue(w, at) ==
    [w EXCEPT !.value = [h \in HeaderNames |-> IF h \in w.want THEN @[h] \o at ELSE @[h]],
              !.want = {}]

OnMessageComplete(w) == [w EXCEPT !.read_all = TRUE]

Callback(w, e) ==
    CASE e[1] = "url"              -> OnUrl(w, e[2])
      [] e[1] = "header_field"     -> OnHeaderField(w, e[2])
      [] e[1] = "header_value"     -> OnHeaderValue(w, e[2])
      [] e[1] = "body"             -> OnBody(w, e[2])
      [] e[1] = "message_complete" -> OnMessageComplete(w)
      [] OTHER                     -> w

(* The parser and all that the wrapper has from former reads are reset     *)
(* first.                                                                  *)
ParseHttpContent(buf) ==
    FoldLeft(Callback, NewWrapper,
             http_parser_execute(http_parser_init("HTTP_REQUEST"), buf).out)

-----------------------------------------------------------------------------
(* TCServer *)
Init ==
    /\ request \in [Conns -> Requests]
    /\ sent = [c \in Conns |-> 0]
    /\ conn = [c \in Conns |-> "open"]
    /\ wrapper = [c \in Conns |-> NewWrapper]
    /\ queue = <<>>
    /\ running = [w \in Workers |-> NoTask]
    /\ answers = [c \in Conns |-> <<>>]

ForceClose(c) == conn' = [conn EXCEPT ![c] = "closed"]

(* url and body become C strings: they end at the first NUL. *)
CString(s) ==
    LET nuls == {i \in 1..Len(s) : s[i] = NUL}
    IN  IF nuls = {} THEN s
        ELSE SubSeq(s, 1, (CHOOSE i \in nuls : \A j \in nuls : i <= j) - 1)

(* The handler is found by comparing the beginning of the url. *)
Route(url) == {r \in Routes : IsPrefix(<<"/", r>>, url)}

(* What follows "boundary=" in the Content-Type, with a '-' before it. *)
Boundary(w) ==
    LET ct == w.value[<<"con", "tent-type">>]
        at == {i \in 1..Len(ct) : ct[i] = "boundary="}
    IN  IF at = {} THEN <<"-">>
        ELSE <<"-">> \o SubSeq(ct, (CHOOSE i \in at : TRUE) + 1, Len(ct))

Task(c, w) ==
    LET r == CHOOSE r \in Route(CString(w.url)) : TRUE
    IN  [c |-> c, handler |-> r, url |-> IF r = "api/upload" THEN <<>> ELSE CString(w.url),
         body |-> CString(w.body),
         boundary |-> IF r = "api/upload" THEN Boundary(w) ELSE <<>>]

(* Mutant: the task is run twice, in the pool and at once. *)
Run_Twice(t) == queue' = queue \o <<t, t>>

(* Mutant: url and body are bound by reference. *)
Run_Shared(t) ==
    queue' = Append([i \in 1..Len(queue) |-> [t EXCEPT !.c = queue[i].c]], t)

(* thread_pool_.Run *)
Run(t) == queue' = Append(queue, t)

(* A read of n units, and the callback. *)
OnRead(c, n) ==
    LET buf == SubSeq(request[c].wire, sent[c] + 1, sent[c] + n)
        w   == ParseHttpContent(buf)
    IN  /\ conn[c] \in {"open", "writing"}
        /\ sent[c] + n \in Cuts \cup {Len(request[c].wire)}
        /\ sent[c] + n <= Len(request[c].wire)
        /\ sent' = [sent EXCEPT ![c] = @ + n]
        /\ \/ n > MaxBuffer /\ ForceClose(c) /\ UNCHANGED <<wrapper, queue>>
           \/ /\ n <= MaxBuffer
              /\ wrapper' = [wrapper EXCEPT ![c] = w]
              /\ \/ ~w.read_all /\ UNCHANGED <<conn, queue>>
                 \/ /\ w.read_all /\ Route(CString(w.url)) = {}
                    /\ ForceClose(c) /\ UNCHANGED queue
                 \/ /\ w.read_all /\ Route(CString(w.url)) # {}
                    /\ Run(Task(c, w)) /\ UNCHANGED conn
        /\ UNCHANGED <<request, running, answers>>

(* A worker of the pool takes the first task. *)
Take(w) ==
    /\ running[w] = NoTask /\ queue # <<>>
    /\ running' = [running EXCEPT ![w] = Head(queue)]
    /\ queue' = Tail(queue)
    /\ UNCHANGED <<request, sent, conn, wrapper, answers>>

(* Mutant: a response that does not fit is not sent. *)
HandleRequest_Dropped(w, ulen) ==
    LET c == running[w].c
    IN  /\ running[w] # NoTask
        /\ running' = [running EXCEPT ![w] = NoTask]
        /\ IF conn[c] \in {"open", "writing"} /\ ulen < HTTP_RESPONSE_HTML_MAX
           THEN /\ answers' = [answers EXCEPT ![c] = Append(@, <<ulen, ulen>>)]
                /\ conn' = [conn EXCEPT ![c] = "writing"]
           ELSE UNCHANGED <<answers, conn>>
        /\ UNCHANGED <<request, sent, wrapper, queue>>

(* The handler has its answer and sends it; snprintf writes no more than   *)
(* fits, but the header announces the whole length.  Nothing is sent on a  *)
(* connection that is closed.                                              *)
HandleRequest(w, ulen) ==
    LET c == running[w].c
        written == IF ulen >= HTTP_RESPONSE_HTML_MAX
                   THEN HTTP_RESPONSE_HTML_MAX - 1 ELSE ulen
    IN  /\ running[w] # NoTask
        /\ running' = [running EXCEPT ![w] = NoTask]
        /\ IF conn[c] \in {"open", "writing"}
           THEN /\ answers' = [answers EXCEPT ![c] = Append(@, <<ulen, written>>)]
                /\ conn' = [conn EXCEPT ![c] = "writing"]
           ELSE UNCHANGED <<answers, conn>>
        /\ UNCHANGED <<request, sent, wrapper, queue>>

OnWriteComlete(c) ==
    /\ conn[c] = "writing"
    /\ ForceClose(c)
    /\ UNCHANGED <<request, sent, wrapper, queue, running, answers>>

(* The client gives up. *)
ClientCloses(c) ==
    /\ conn[c] = "open"
    /\ conn' = [conn EXCEPT ![c] = "gone"]
    /\ UNCHANGED <<request, sent, wrapper, queue, running, answers>>

Next ==
    \/ \E c \in Conns : \E n \in 1..Len(request[c].wire) : OnRead(c, n)
    \/ \E w \in Workers : Take(w)
    \/ \E w \in Workers, ulen \in ResponseSizes : HandleRequest(w, ulen)
    \/ \E c \in Conns : OnWriteComlete(c) \/ ClientCloses(c)

(* The threads of the pool run and what is sent gets written; nothing is   *)
(* assumed of the clients and of the network.                              *)
Fairness ==
    /\ \A w \in Workers :
          /\ WF_vars(Take(w))
          /\ WF_vars(\E ulen \in ResponseSizes : HandleRequest(w, ulen))
    /\ \A c \in Conns : WF_vars(OnWriteComlete(c))

Spec == Init /\ [][Next]_vars /\ Fairness

-----------------------------------------------------------------------------
Tasks == ToSet(queue) \cup ({running[w] : w \in Workers} \ {NoTask})

IsSent(t, r) ==
    /\ t.handler = r.word
    /\ t.handler # "api/upload" => t.url = <<"/", r.word>> \o r.query
    /\ t.handler = "api/upload" => t.boundary = <<"-", "mark">>
    /\ t.body = CString(r.body)

(* What the parser makes of the p[2] units of a request after its first    *)
(* p[1], wherever the network cuts.                                        *)
Parts(r) == {p \in (0..Len(r.wire)) \X (1..Len(r.wire)) : p[1] + p[2] <= Len(r.wire)}
Part(r, p) == ParseHttpContent(SubSeq(r.wire, p[1] + 1, p[1] + p[2]))

(* A client sends one request: no part of it that ends before its end is a *)
(* request by itself.                                                      *)
OneMessage(r) ==
    /\ Len(r.wire) \in Nat
    /\ \A p \in Parts(r) : Part(r, p).read_all => p[1] + p[2] = Len(r.wire)

(* What the parser makes of it, if it is complete, is what it says. *)
Understood(r) ==
    \A p \in Parts(r), c \in Conns :
        Part(r, p).read_all /\ Route(CString(Part(r, p).url)) # {}
        => IsSent(Task(c, Part(r, p)), r)

(* A task is what a client sent: however the network cut the requests, no  *)
(* handler is called with a part of a url or a body, with parts of two     *)
(* reads, or with another connection's data.                               *)
DispatchedIsSent == \A t \in Tasks : IsSent(t, request[t.c])

(* A connection gets one answer at most, and none that its client is not   *)
(* there to read: OnRead, the task and OnWriteComlete do not race to a     *)
(* second response.                                                        *)
OneAnswer ==
    \A c \in Conns : /\ Len(answers[c]) + Cardinality({t \in Tasks : t.c = c}) <= 1
                     /\ conn[c] = "gone" => answers[c] = <<>>

(* A request that came in one read is answered and its connection closed,  *)
(* unless the client goes away first.                                      *)
Whole(c) == wrapper[c].read_all /\ conn[c] = "open"
WholeIsAnswered ==
    \A c \in Conns : Whole(c) ~> conn[c] = "gone" \/ (conn[c] = "closed" /\ answers[c] # <<>>)
=================================================================================
