------------------------------- MODULE HttpStream -------------------------------
(***************************************************************************)
(* The parser of base/http_parser.cc fed with one stream, cut into reads   *)
(* anywhere, as the users of the library feed it: without a reset between  *)
(* the reads (TCServer resets, see HttpFront).                             *)
(***************************************************************************)
EXTENDS HttpParser

CONSTANTS
    Streams,    \* <<type, units>>: what may be received
    MaxPiece    \* bound: a read brings at most this, or all the rest

ASSUME StreamsAssumption ==
    /\ \A s \in Streams : s[2] \in Seq(STRING)
    /\ MaxPiece \in Nat

VARIABLES
    stream,   \* the stream of this behaviour
    pos,      \* units received
    parser,   \* the parser record
    seen,     \* the callbacks so far, Merge'd
    ended     \* the peer has closed

streamVars == <<stream, pos, parser, seen, ended>>

(* Callbacks after those so far; two data callbacks of one kind in a row   *)
(* are one piece of data.                                                  *)
DataKinds == {"url", "header_field", "header_value", "body"}

Adjoin(acc, e) ==
    IF acc # <<>> /\ acc[Len(acc)][1] = e[1] /\ e[1] \in DataKinds
    THEN [acc EXCEPT ![Len(acc)] = <<e[1], @[2] \o e[2]>>]
    ELSE Append(acc, e)

Adjoined(acc, events) ==
    LET upTo[n \in Nat] == IF n = 0 THEN acc ELSE Adjoin(upTo[n - 1], events[n])
    IN  upTo
Merge(acc, events) == Adjoined(acc, events)[Len(events)]

StreamInit ==
    /\ stream \in Streams
    /\ pos = 0
    /\ parser = http_parser_init(stream[1])
    /\ seen = <<>>
    /\ ended = FALSE

Execute(data) ==
    LET r == http_parser_execute(parser, data)
    IN  parser' = r.q /\ seen' = Merge(seen, r.out)

(* A caller looks at upgrade after every call: from there on the bytes      *)
(* belong to another protocol.                                             *)
Feed(n) ==
    /\ ~ended /\ ~parser.upgrade
    /\ pos + n <= Len(stream[2])
    /\ Execute(SubSeq(stream[2], pos + 1, pos + n))
    /\ pos' = pos + n
    /\ UNCHANGED <<stream, ended>>

Close ==
    /\ ~ended
    /\ ended' = TRUE
    /\ Execute(<<>>)
    /\ UNCHANGED <<stream, pos>>

StreamNext ==
    \/ \E n \in 1..MaxPiece \cup {Len(stream[2]) - pos} : n > 0 /\ Feed(n)
    \/ Close

StreamSpec == StreamInit /\ [][StreamNext]_streamVars

-----------------------------------------------------------------------------
Merged(r) == [q |-> r.q, out |-> Merge(<<>>, r.out)]

(* What one call makes of everything that was received. *)
AtOnce ==
    IF pos = 0 THEN [q |-> http_parser_init(stream[1]), out |-> <<>>]
    ELSE Merged(http_parser_execute(http_parser_init(stream[1]), SubSeq(stream[2], 1, pos)))

(* What may be left of a piece of data that an error cut short: the reads   *)
(* before the error have reported its beginning, a single call reports     *)
(* nothing of it.                                                          *)
Beginnings ==
    {<<>>} \cup {<<<<k, SubSeq(stream[2], i, j)>>>> :
        k \in DataKinds, i \in 1..pos, j \in 1..pos}

(* However the stream was cut into reads, the parser is in the state and   *)
(* has reported the data it would have had from a single call: marks,      *)
(* half-matched words and counters survive the end of a read at any unit.  *)
(* Only the piece of data an error was found in may be reported in part.   *)
SplitInvariant ==
    LET once == AtOnce
    IN  ~ended =>
            /\ parser = once.q
            /\ IF parser.http_errno = "HPE_OK" THEN seen = once.out
               ELSE \E b \in Beginnings : seen = Merge(once.out, b)

InChunks == {"s_chunk_size_start", "s_chunk_size", "s_chunk_parameters",
             "s_chunk_size_almost_done", "s_chunk_data", "s_chunk_data_almost_done",
             "s_chunk_data_done"}

(* No assert of the parser about bodies and chunks fails, whatever is      *)
(* received and wherever it is cut: a chunk size begins with nread reset,  *)
(* a body that is read has a length that is known (ASSERT is where these   *)
(* are tested), and in every chunk state the message has its flag.  The    *)
(* asserts on header_state, on the marks at the end of a call and on the   *)
(* error number at a callback are not among them.                          *)
AssertsHold ==
    /\ parser.http_errno # "ASSERT"
    /\ parser.http_errno = "HPE_OK" /\ parser.state \in InChunks
          => "F_CHUNKED" \in parser.flags

=================================================================================
