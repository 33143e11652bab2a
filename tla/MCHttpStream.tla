------------------------------ MODULE MCHttpStream ------------------------------
(***************************************************************************)
(* Instance of HttpStream: requests and responses with every kind of body, *)
(* good and bad, and what may follow them on the connection.               *)
(***************************************************************************)
EXTENDS HttpStream

(* What the HTTP parser receives; its units are characters, or words and   *)
(* parts of words the parser matches letter by letter.                     *)
Crlf == <<CR, LF>>
Post == <<"P", "OST", SP, "/", "a", SP, "H", "TTP/", "1", ".", "1">> \o Crlf
RequestLines ==
    {<<"P", "OST", SP, "/", "a", SP, "H", "TTP/", "1", ".", "1">> \o Crlf,
     <<"C", "O", "NNECT", SP, "a", ":", "1", SP, "H", "TTP/", "1", ".", "1">> \o Crlf,
     <<"G", "ET", SP, SP, "/", "a", "?", "b", "#", "a", CR, LF>>,
     <<"G", "ET", SP, "a", ":", "/", "/", "b", "@", "a", "/", SP,
       "H", "TTP/", "1", ".", "0", LF>>,
     <<"G", "ET", SP, "/", "a", "a", TAB>>}
StatusLines ==
    {<<"H", "TTP/", "1", ".", "1", SP, "2", "0", "0", SP, "a">> \o Crlf,
     Crlf \o <<"H", "TTP/", "1", ".", "1", SP, "2", "0", "4", LF>>,
     <<"H", "TTP/", "1", ".", "0", SP, "2", "0", "0">> \o Crlf}
Header(field, value) == field \o <<":", SP>> \o value \o Crlf
LengthTwo == Header(CONTENT_LENGTH, <<"2">>)
IsChunked == Header(TRANSFER_ENCODING, CHUNKED)
Headers ==
    {LengthTwo, IsChunked, Header(CONTENT_LENGTH, <<"1", "2">>),
     Header(CONNECTION, KEEP_ALIVE), Header(CONNECTION, CLOSE),
     Header(UPGRADE, <<"a">>),
     Header(<<"con", "tent-type">>, <<"a", CR, LF, TAB, "b">>),
     <<"a", ":", LF>>, <<"a", CR, LF>>, <<"b", LF>>, <<"a", ":", "b", LF>>,
     <<"a", "b", "@">>, Header(CONTENT_LENGTH, <<"1", SP, "b">>)}
Bodies ==
    {<<>>, <<"b", "b">>,
     <<"2">> \o Crlf \o <<"b", "b">> \o Crlf \o <<"0">> \o Crlf \o Crlf,
     <<"1", ";", "a">> \o Crlf \o <<"b">> \o Crlf \o <<"0", "0">> \o Crlf
        \o <<"a", ":", "b">> \o Crlf \o Crlf,
     <<"2">> \o Crlf \o <<"b", "b", "b">>}
Followers == {<<>>, <<"G", "ET", SP, "/", SP, "H", "TTP/", "1", ".", "1">> \o Crlf \o Crlf}
SomeStreams ==
    {<<"HTTP_REQUEST", Post \o h \o Crlf \o b \o f>> :
        h \in {<<>>} \cup Headers \cup {h \o LengthTwo : h \in Headers},
        b \in Bodies, f \in Followers}
    \cup {<<"HTTP_REQUEST", l \o Crlf>> : l \in RequestLines}
    \cup {<<t, l \o h \o Crlf \o b>> :
        t \in {"HTTP_RESPONSE", "HTTP_BOTH"}, l \in StatusLines,
        h \in {<<>>, LengthTwo, IsChunked}, b \in Bodies}
================================================================================
