------------------------------ MODULE MCHttpFront ------------------------------
(* Small instances of HttpFront for TLC. *)
EXTENDS HttpFront

(* A POST as clients send it: with its Content-Length, or chunked. *)
Head1(word, query) == <<"P", "OST", SP, "/", word>> \o query
                      \o <<SP, "H", "TTP/", "1", ".", "1", CR, LF>>
Typed(type)   == <<"con", "tent-type", ":", SP>> \o type \o <<CR, LF>>
Sized(body)   == <<"con", "tent-length", ":", Numerals[Len(body) + 1], CR, LF, CR, LF>> \o body
Chunked(body) == <<"transfer-", "encoding", ":", "chun", "ked", CR, LF, CR, LF,
                   Numerals[Len(body) + 1], CR, LF>> \o body
                 \o <<CR, LF, "0", CR, LF, CR, LF>>

Request(word, query, type, body, framed(_)) ==
    [word |-> word, query |-> query, type |-> type, body |-> body,
     wire |-> Head1(word, query) \o Typed(type) \o framed(body)]

SmallRequests ==
    {Request("api/login", <<>>, <<"json">>, <<"{", "u", "}">>, Sized),
     Request("api/myfiles", <<"?", "cmd">>, <<"json">>, <<"{", "}">>, Chunked),
     Request("api/upload", <<>>, <<"multipart", "boundary=", "mark">>,
             <<"-", NUL, "-">>, Sized),
     Request("api/other", <<>>, <<"json">>, <<"{", "}">>, Sized),
     Request("api/md5", <<>>, <<"json">>, <<"{", "u", "u", "u", "u", "u", "}">>, Chunked)}

SmallRoutes == {"api/login", "api/myfiles", "api/upload", "api/md5"}

(* What the theorems of HttpProofs suppose of clients. *)
ASSUME ClientsAreUsual == \A r \in Requests : OneMessage(r) /\ Understood(r)
================================================================================
