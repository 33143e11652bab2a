---------------------------- MODULE RedisConnProofs ----------------------------
(***************************************************************************)
(* Proofs about RedisConn, for every set of commands, with and without a   *)
(* password, and for any number of failures.                               *)
(*                                                                         *)
(* What has to be known of a connection is where the one message under way *)
(* is: in the output buffer, at the server, or in the answer (Exchange).   *)
(* A context with an error may hold any leftovers, since nothing is        *)
(* written to it or read from it any more.                                 *)
(***************************************************************************)
EXTENDS RedisConn, TLAPS

Ids   == 0..3
Ctx   == [fd : {"null", "zero", "closed", "open"}, err : BOOLEAN, obuf : Seq(Ids)]
Answer == [id : Ids, type : Types]
Socket == [inbox : Seq(Ids), outbox : Seq(Answer), alive : BOOLEAN, authed : BOOLEAN]
Outcome == [reply : Ids, result : {"none", "ok", "empty", "fail"}, checked : BOOLEAN]

TypeOK ==
    /\ pc \in {"idle", "resolve", "try", "write", "read", "dead"}
    /\ step \in {"auth", "select", "command"}
    /\ cmd \in AllCommands
    /\ n \in 1..3
    /\ ctx \in Ctx
    /\ fds \in Int
    /\ socket \in Socket
    /\ done \in Nat
    /\ last \in Outcome

(* What is on its way: the command, or an AUTH or SELECT before it. *)
Sending == IF step = "command" THEN n ELSE 0

Silent == socket.inbox = <<>> /\ socket.outbox = <<>>

(* Which contexts there are at which point. *)
Contexts ==
    /\ ctx.fd = "null" => ctx = NULL
    /\ ctx.fd # "open" => Silent
    /\ pc = "resolve" => ctx = NULL
    /\ pc = "try" => ctx.fd \in {"zero", "closed"} /\ ~ctx.err /\ ctx.obuf = <<>>
    /\ pc \in {"write", "read"} => ctx.fd = "open"
    /\ pc \in {"idle", "dead"} => ctx.fd \in {"null", "open"}

(* The answer has come: the server has done the command, or refused it.    *)
Answered ==
    \E type \in Types :
        /\ socket.inbox = <<>>
        /\ socket.outbox = <<[id |-> Sending, type |-> type]>>
        /\ done = IF step = "command" /\ type # "error" THEN 1 ELSE 0

Exchange ==
    /\ pc = "idle" /\ ctx.fd = "open" /\ ~ctx.err => Silent /\ ctx.obuf = <<>>
    /\ pc \in {"resolve", "try"} => done = 0
    /\ pc = "write" /\ ~ctx.err => Silent /\ ctx.obuf = <<Sending>> /\ done = 0
    /\ pc = "read" =>
          /\ ~ctx.err /\ ctx.obuf = <<>>
          /\ \/ Silent /\ ~socket.alive
             \/ socket.inbox = <<Sending>> /\ socket.outbox = <<>> /\ done = 0
             \/ Answered

(* The server has at most one execution of the current command to do. *)
AtMostOnce == done + Len(socket.inbox) <= 1

(* The result of the last command, until the next one begins. *)
LastResult ==
    /\ pc # "idle" => last = Nothing
    /\ last.reply \in {0, n}
    /\ last.checked /\ last.result = "ok" => done = 1 /\ socket.inbox = <<>>

IInv == TypeOK /\ OneDescriptor /\ Contexts /\ Exchange /\ AtMostOnce /\ LastResult

-------------------------------------------------------------------------------
LEMMA OneItem ==
    ASSUME NEW x
    PROVE  /\ Append(<<>>, x) = <<x>>
           /\ <<>> \o <<x>> = <<x>>
           /\ Head(<<x>>) = x
           /\ Tail(<<x>>) = <<>>
           /\ Len(<<x>>) = 1
           /\ <<x>> # <<>>
OBVIOUS

(* A command that looks at the type of its reply takes no error for a      *)
(* success.                                                                *)
LEMMA CheckedCommands ==
    ASSUME NEW c \in AllCommands, NEW type \in Types
    PROVE  /\ Result(c, type) \in {"ok", "empty", "fail"}
           /\ c.else # "ok" /\ Result(c, type) = "ok" => type # "error"
           /\ "error" \notin c.gives
           /\ c.gives \subseteq Types
BY DEF AllCommands, Result, Types, Command, Get, Set, SetEx, MGet, IsExists, Del,
   Hdel, Hget, HgetChar, HgetAll, Hset, HincrBy, IncrBy, Hmset, Hmget, Incr, Decr,
   Lpush, Rpush, Llen, Lrange, ZsetExist, ZsetAdd, ZsetZrem, ZsetIncr, ZsetZcard,
   ZsetZrevrange, ZsetGetScore, FlushDb

(* obuf grows by one message, or is full; an empty one takes the message. *)
LEMMA AppendObuf ==
    ASSUME NEW c \in Ctx, NEW id \in Ids
    PROVE  /\ Append2Obuf(c, id) \in Ctx
           /\ Append2Obuf(c, id).fd = c.fd
           /\ Append2Obuf(c, id).err = c.err
           /\ c.obuf = <<>> => Append2Obuf(c, id).obuf = <<id>>
<1> DEFINE o == IF Len(c.obuf) < MaxObuf THEN Append(c.obuf, id) ELSE c.obuf
<1>1. o \in Seq(Ids)
  BY DEF Ctx
<1>2. c.obuf = <<>> => o = <<id>>
  BY DEF MaxObuf
<1>3. Append2Obuf(c, id) = [c EXCEPT !.obuf = o]
  BY DEF Append2Obuf
<1> QED BY <1>1, <1>2, <1>3 DEF Ctx

LEMMA Nulls ==
    /\ NULL \in Ctx /\ NULL.fd = "null" /\ ~NULL.err /\ NULL.obuf = <<>>
    /\ NoSocket \in Socket /\ NoSocket.inbox = <<>> /\ NoSocket.outbox = <<>>
    /\ Nothing \in Outcome /\ Nothing.reply = 0 /\ ~Nothing.checked
    /\ Nothing.result = "none"
BY DEF NULL, Ctx, Ids, NoSocket, Socket, Answer, Nothing, Outcome

LEMMA InitInv == Init => IInv
<1> SUFFICES ASSUME Init PROVE IInv
  OBVIOUS
<1>1. Get \in AllCommands
  BY DEF AllCommands
<1>2. TypeOK
  BY <1>1, Nulls DEF Init, TypeOK
<1>3. /\ socket.inbox = <<>> /\ socket.outbox = <<>> /\ ctx = NULL /\ ctx.fd = "null"
      /\ last.reply = 0 /\ ~last.checked /\ Len(socket.inbox) = 0
  BY Nulls DEF Init
<1> QED BY <1>2, <1>3 DEF Init, IInv, OneDescriptor, Contexts, Exchange, Silent,
           AtMostOnce, LastResult

(* The handler calls a command. *)
LEMMA CallInv ==
    ASSUME IInv, NEW c \in Used, Call(c)
    PROVE  IInv'
<1>0. /\ pc = "idle" /\ cmd' = c /\ n' = (n % 3) + 1 /\ done' = 0
      /\ UNCHANGED <<fds, socket, up, faults>>
  BY DEF Call
<1>1. c \in AllCommands /\ n' \in 1..3 /\ n' \in Ids
  BY <1>0, CommandsAssumption DEF IInv, TypeOK, Ids
<1>2. Len(socket.inbox) \in Nat /\ Len(socket.inbox) <= 1
  BY DEF IInv, TypeOK, Socket, AtMostOnce
<1>3. CASE /\ ctx # NULL
           /\ ctx' = Append2Obuf(ctx, n') /\ step' = "command" /\ pc' = "write"
           /\ last' = Nothing
  <2>1. ctx.fd = "open" /\ (~ctx.err => Silent /\ ctx.obuf = <<>>)
    BY <1>0, <1>3 DEF IInv, TypeOK, Ctx, Contexts, Exchange
  <2>2. /\ ctx' \in Ctx /\ ctx'.fd = "open" /\ ctx'.err = ctx.err
        /\ ctx.obuf = <<>> => ctx'.obuf = <<n'>>
    BY <1>1, <1>3, <2>1, AppendObuf DEF IInv, TypeOK
  <2>3. TypeOK'
    BY <1>0, <1>1, <1>3, <2>2, Nulls DEF IInv, TypeOK
  <2>4. OneDescriptor' /\ Contexts'
    BY <1>0, <1>3, <2>1, <2>2 DEF IInv, OneDescriptor, Contexts
  <2>5. Exchange'
    BY <1>0, <1>3, <2>1, <2>2 DEF Exchange, Silent, Sending
  <2>6. AtMostOnce' /\ LastResult'
    BY <1>0, <1>2, <1>3, Nulls DEF AtMostOnce, LastResult
  <2> QED BY <2>3, <2>4, <2>5, <2>6 DEF IInv
<1>4. CASE /\ ctx = NULL
           /\ last' = [Nothing EXCEPT !.result = "fail"]
           /\ UNCHANGED <<pc, ctx, step>>
  <2>1. last' \in Outcome /\ last'.reply = 0 /\ ~last'.checked
    <3>1. last' = [reply |-> 0, result |-> "fail", checked |-> FALSE]
      BY <1>4 DEF Nothing
    <3> QED BY <3>1 DEF Outcome, Ids
  <2>2. TypeOK'
    BY <1>0, <1>1, <1>4, <2>1 DEF IInv, TypeOK
  <2>3. OneDescriptor' /\ Contexts' /\ Exchange'
    BY <1>0, <1>4, Nulls DEF IInv, OneDescriptor, Contexts, Exchange, Silent
  <2>4. AtMostOnce' /\ LastResult'
    BY <1>0, <1>2, <1>4, <2>1 DEF AtMostOnce, LastResult
  <2> QED BY <2>2, <2>3, <2>4 DEF IInv
<1>5. CASE /\ ctx = NULL /\ pc' = "resolve" /\ last' = Nothing
           /\ UNCHANGED <<ctx, step>>
  <2>1. TypeOK'
    BY <1>0, <1>1, <1>5, Nulls DEF IInv, TypeOK
  <2>2. OneDescriptor' /\ Contexts' /\ Exchange'
    BY <1>0, <1>5, Nulls DEF IInv, OneDescriptor, Contexts, Exchange, Silent
  <2>3. AtMostOnce' /\ LastResult'
    BY <1>0, <1>2, <1>5, Nulls DEF AtMostOnce, LastResult
  <2> QED BY <2>1, <2>2, <2>3 DEF IInv
<1> QED BY <1>3, <1>4, <1>5 DEF Call

-------------------------------------------------------------------------------
(* Connecting *)

LEMMA Returned ==
    ASSUME NEW reply \in Ids, NEW result \in {"ok", "empty", "fail"},
           Return(reply, result)
    PROVE  /\ last' \in Outcome /\ last'.reply = reply /\ last'.result = result
           /\ last'.checked = (cmd.else # "ok")
           /\ pc' = "idle"
<1> DEFINE checked == cmd.else # "ok"
<1>1. last' = [reply |-> reply, result |-> result, checked |-> checked] /\ pc' = "idle"
  BY DEF Return
<1>2. checked \in BOOLEAN
  OBVIOUS
<1> HIDE DEF checked
<1>3. /\ last' \in Outcome /\ last'.reply = reply /\ last'.result = result
      /\ last'.checked = checked
  BY <1>1, <1>2 DEF Outcome
<1> QED BY <1>1, <1>3 DEF checked

(* The connect fails: no context, no descriptor, as before. *)
LEMMA ConnectFailedInv ==
    ASSUME IInv, ConnectFailed, pc \in {"resolve", "try"},
           UNCHANGED <<cmd, n, done>>
    PROVE  IInv'
<1>1. /\ ctx' = NULL /\ UNCHANGED <<fds, step, socket>>
      /\ Return(0, "fail")
  BY DEF ConnectFailed
<1>2. /\ last' \in Outcome /\ last'.reply = 0 /\ last'.result = "fail"
      /\ pc' = "idle"
  BY <1>1, Returned DEF Ids
<1>3. ctx.fd # "open" /\ Silent
  BY Nulls DEF IInv, Contexts
<1>4. TypeOK'
  BY <1>1, <1>2, Nulls DEF IInv, TypeOK
<1>5. OneDescriptor' /\ Contexts' /\ Exchange'
  BY <1>1, <1>2, <1>3, Nulls DEF IInv, OneDescriptor, Contexts, Exchange, Silent
<1>6. AtMostOnce' /\ LastResult'
  BY <1>1, <1>2 DEF IInv, AtMostOnce, LastResult
<1> QED BY <1>4, <1>5, <1>6 DEF IInv

LEMMA ResolveInv ==
    ASSUME IInv, Resolve
    PROVE  IInv'
<1>0. pc = "resolve" /\ UNCHANGED <<cmd, n, tried, up, waited, done, faults>>
  BY DEF Resolve
<1>1. CASE ConnectFailed
  BY <1>0, <1>1, ConnectFailedInv
<1>2. CASE /\ ctx' = redisContextInit /\ pc' = "try"
           /\ UNCHANGED <<fds, last, step, socket>>
  <2>1. /\ ctx' \in Ctx /\ ctx'.fd = "zero" /\ ~ctx'.err /\ ctx'.obuf = <<>>
    BY <1>2, Nulls DEF redisContextInit, Ctx
  <2>2. ctx.fd # "open" /\ Silent
    BY <1>0, Nulls DEF IInv, Contexts
  <2>3. TypeOK'
    BY <1>0, <1>2, <2>1 DEF IInv, TypeOK
  <2>4. OneDescriptor' /\ Contexts' /\ Exchange'
    BY <1>0, <1>2, <2>1, <2>2 DEF IInv, OneDescriptor, Contexts, Exchange, Silent
  <2>5. AtMostOnce' /\ LastResult'
    BY <1>0, <1>2 DEF IInv, AtMostOnce, LastResult
  <2> QED BY <2>3, <2>4, <2>5 DEF IInv
<1> QED BY <1>1, <1>2 DEF Resolve

(* One address: a new descriptor, the next address, or a failure. *)
LEMMA TryAddressInv ==
    ASSUME IInv, TryAddress
    PROVE  IInv'
<1>0. pc = "try" /\ UNCHANGED <<cmd, n, up, waited, done, faults>>
  BY DEF TryAddress
<1>1. /\ ctx.fd \in {"zero", "closed"} /\ ~ctx.err /\ ctx.obuf = <<>> /\ ctx \in Ctx
      /\ done = 0 /\ last = Nothing /\ fds = 0 /\ Silent
  BY <1>0 DEF IInv, TypeOK, OneDescriptor, Contexts, Exchange, LastResult
<1>2. CASE ConnectFailed
  BY <1>0, <1>2, ConnectFailedInv
<1>3. CASE /\ fds' = fds + 1
           /\ ctx' = Append2Obuf([ctx EXCEPT !.fd = "open"], 0)
           /\ socket' = [NoSocket EXCEPT !.alive = TRUE, !.authed = ~Password]
           /\ pc' = "write" /\ step' = IF Password THEN "auth" ELSE "select"
           /\ last' = last
  <2> DEFINE c == [ctx EXCEPT !.fd = "open"]
  <2>1. c \in Ctx /\ c.fd = "open" /\ c.err = ctx.err /\ c.obuf = <<>>
    BY <1>1 DEF Ctx
  <2>2. ctx' = Append2Obuf(c, 0)
    BY <1>3
  <2> HIDE DEF c
  <2>3. ctx' \in Ctx /\ ctx'.fd = "open" /\ ~ctx'.err /\ ctx'.obuf = <<0>>
    BY <1>1, <2>1, <2>2, AppendObuf DEF Ids
  <2>4. step' \in {"auth", "select"} /\ Sending' = 0
    BY <1>3 DEF Sending
  <2>5. socket' \in Socket /\ socket'.inbox = <<>> /\ socket'.outbox = <<>>
    <3>1. socket' = [inbox |-> <<>>, outbox |-> <<>>, alive |-> TRUE,
                     authed |-> ~Password]
      BY <1>3 DEF NoSocket
    <3> QED BY <3>1 DEF Socket
  <2>6. TypeOK'
    BY <1>0, <1>1, <1>3, <2>3, <2>4, <2>5 DEF IInv, TypeOK
  <2>7. OneDescriptor' /\ Contexts'
    BY <1>1, <1>3, <2>3 DEF OneDescriptor, Contexts
  <2>8. Exchange'
    BY <1>0, <1>1, <1>3, <2>3, <2>4, <2>5 DEF Exchange, Silent
  <2>9. AtMostOnce' /\ LastResult'
    BY <1>0, <1>1, <1>3, <2>5, Nulls DEF AtMostOnce, LastResult
  <2> QED BY <2>6, <2>7, <2>8, <2>9 DEF IInv
<1>4. CASE /\ ctx' = [ctx EXCEPT !.fd = "closed"]
           /\ UNCHANGED <<fds, socket, pc, step, last>>
  <2>1. ctx' \in Ctx /\ ctx'.fd = "closed" /\ ~ctx'.err /\ ctx'.obuf = <<>>
    BY <1>1, <1>4 DEF Ctx
  <2>2. TypeOK'
    BY <1>0, <1>4, <2>1 DEF IInv, TypeOK
  <2>3. OneDescriptor' /\ Contexts' /\ Exchange'
    BY <1>0, <1>1, <1>4, <2>1 DEF OneDescriptor, Contexts, Exchange, Silent
  <2>4. AtMostOnce' /\ LastResult'
    BY <1>0, <1>4 DEF IInv, AtMostOnce, LastResult
  <2> QED BY <2>2, <2>3, <2>4 DEF IInv
<1> QED BY <1>2, <1>3, <1>4 DEF TryAddress

-------------------------------------------------------------------------------
(* redisCommand *)

(* No reply: the context has an error, or is gone with its descriptor. *)
LEMMA NoReplyInv ==
    ASSUME IInv, pc \in {"write", "read"}, NEW c \in Ctx, c.fd = "open", c.err,
           NoReply(c), UNCHANGED <<step, cmd, n, done>>
    PROVE  IInv'
<1>0. /\ ctx.fd = "open" /\ fds = 1 /\ last = Nothing
      /\ Len(socket.inbox) \in Nat /\ done \in Nat /\ done <= 1
  BY DEF IInv, TypeOK, OneDescriptor, Contexts, LastResult, AtMostOnce, Socket
<1>1. \/ Return(0, "fail")
      \/ pc' = "dead" /\ last' = last
  BY DEF NoReply
<1>2. /\ pc' \in {"idle", "dead"} /\ last' \in Outcome
      /\ last'.reply = 0 /\ last'.result # "ok"
      /\ pc' # "idle" => last' = Nothing
  <2>1. CASE Return(0, "fail")
    BY <2>1, Returned DEF Ids
  <2>2. CASE pc' = "dead" /\ last' = last
    BY <1>0, <2>2, Nulls
  <2> QED BY <1>1, <2>1, <2>2
<1>3. CASE ctx' = c /\ UNCHANGED <<fds, socket>>
  <2>1. TypeOK'
    BY <1>2, <1>3 DEF IInv, TypeOK
  <2>2. OneDescriptor' /\ Contexts' /\ Exchange'
    BY <1>0, <1>2, <1>3 DEF OneDescriptor, Contexts, Exchange, Silent
  <2>3. AtMostOnce' /\ LastResult'
    BY <1>2, <1>3 DEF IInv, AtMostOnce, LastResult
  <2> QED BY <2>1, <2>2, <2>3 DEF IInv
<1>4. CASE redisFree
  <2>1. ctx' = NULL /\ fds' = 0 /\ socket' = NoSocket
    BY <1>0, <1>4 DEF redisFree
  <2>2. TypeOK'
    BY <1>2, <2>1, Nulls DEF IInv, TypeOK
  <2>3. OneDescriptor' /\ Contexts' /\ Exchange'
    BY <1>2, <2>1, Nulls DEF OneDescriptor, Contexts, Exchange, Silent
  <2>4. AtMostOnce' /\ LastResult'
    BY <1>0, <1>2, <2>1, Nulls DEF AtMostOnce, LastResult
  <2> QED BY <2>2, <2>3, <2>4 DEF IInv
<1> QED BY <1>3, <1>4 DEF NoReply

LEMMA BrokenContext ==
    ASSUME NEW c \in Ctx
    PROVE  /\ [c EXCEPT !.err = TRUE] \in Ctx
           /\ [c EXCEPT !.err = TRUE].fd = c.fd
           /\ [c EXCEPT !.err = TRUE].err
BY DEF Ctx

(* A part of a context or a socket is replaced. *)
LEMMA WithObuf ==
    ASSUME NEW c \in Ctx, NEW q \in Seq(Ids), NEW d, d = [c EXCEPT !.obuf = q]
    PROVE  d \in Ctx /\ d.fd = c.fd /\ d.err = c.err /\ d.obuf = q
BY DEF Ctx

LEMMA WithInbox ==
    ASSUME NEW k \in Socket, NEW q \in Seq(Ids), NEW m, m = [k EXCEPT !.inbox = q]
    PROVE  m \in Socket /\ m.inbox = q /\ m.outbox = k.outbox
BY DEF Socket

LEMMA WriteInv ==
    ASSUME IInv, redisBufferWrite
    PROVE  IInv'
<1>0. pc = "write" /\ ctx \in Ctx /\ ctx.fd = "open"
      /\ UNCHANGED <<step, cmd, n, tried, up, waited, done>>
  BY DEF redisBufferWrite, IInv, TypeOK, Contexts
<1>1. CASE ctx.err /\ NoReply(ctx)
  BY <1>0, <1>1, NoReplyInv
<1>2. CASE NoReply([ctx EXCEPT !.err = TRUE])
  BY <1>0, <1>2, NoReplyInv, BrokenContext
<1>3. CASE /\ ~ctx.err /\ socket.alive
           /\ socket' = [socket EXCEPT !.inbox = @ \o ctx.obuf]
           /\ ctx' = [ctx EXCEPT !.obuf = <<>>]
           /\ pc' = "read"
           /\ UNCHANGED <<fds, last>>
  <2>1. Silent /\ ctx.obuf = <<Sending>> /\ done = 0
    BY <1>0, <1>3 DEF IInv, Exchange
  <2>2. Sending \in Ids /\ Sending' = Sending
    BY <1>0 DEF IInv, TypeOK, Sending, Ids
  <2>3. socket \in Socket /\ <<>> \o <<Sending>> = <<Sending>> /\ Len(<<Sending>>) = 1
    BY OneItem DEF IInv, TypeOK
  <2>4. socket' = [socket EXCEPT !.inbox = <<Sending>>]
    BY <1>3, <2>1, <2>3 DEF Silent
  <2>5. /\ socket' \in Socket /\ socket'.inbox = <<Sending>>
        /\ socket'.outbox = <<>>
    <3> DEFINE q == <<Sending>>
    <3>1. q \in Seq(Ids) /\ socket' = [socket EXCEPT !.inbox = q]
      BY <2>2, <2>4
    <3> HIDE DEF q
    <3>2. socket' \in Socket /\ socket'.inbox = q /\ socket'.outbox = socket.outbox
      BY <2>3, <3>1, WithInbox
    <3> QED BY <2>1, <3>2 DEF Silent, q
  <2>6. ctx' \in Ctx /\ ctx'.fd = "open" /\ ~ctx'.err /\ ctx'.obuf = <<>>
    <3> DEFINE q == <<>>
    <3>1. q \in Seq(Ids) /\ ctx' = [ctx EXCEPT !.obuf = q]
      BY <1>3
    <3> HIDE DEF q
    <3>2. ctx' \in Ctx /\ ctx'.fd = ctx.fd /\ ctx'.err = ctx.err /\ ctx'.obuf = q
      BY <1>0, <3>1, WithObuf
    <3> QED BY <1>0, <1>3, <3>2 DEF q
  <2>7. TypeOK'
    BY <1>0, <1>3, <2>5, <2>6 DEF IInv, TypeOK
  <2>8. OneDescriptor' /\ Contexts'
    BY <1>0, <1>3, <2>6 DEF IInv, OneDescriptor, Contexts
  <2>9. Exchange'
    BY <1>0, <1>3, <2>1, <2>2, <2>5, <2>6 DEF Exchange
  <2>10. AtMostOnce' /\ LastResult'
    BY <1>0, <1>3, <2>1, <2>3, <2>5, Nulls DEF IInv, AtMostOnce, LastResult
  <2> QED BY <2>7, <2>8, <2>9, <2>10 DEF IInv
<1> QED BY <1>1, <1>2, <1>3 DEF redisBufferWrite

(* The reply that comes is the answer to what was sent. *)
LEMMA ReadInv ==
    ASSUME IInv, redisBufferRead
    PROVE  IInv'
<1>0. pc = "read" /\ ctx \in Ctx /\ ctx.fd = "open" /\ ~ctx.err /\ ctx.obuf = <<>>
      /\ UNCHANGED <<cmd, n, tried, up, waited, done>>
  BY DEF redisBufferRead, IInv, TypeOK, Contexts, Exchange
<1>1. CASE NoReply([ctx EXCEPT !.err = TRUE]) /\ UNCHANGED step
  BY <1>0, <1>1, NoReplyInv, BrokenContext
<1>2. CASE /\ socket.outbox # <<>>
           /\ Reply(Head(socket.outbox))
           /\ socket' = [socket EXCEPT !.outbox = Tail(@)]
           /\ fds' = fds
  <2>1. Answered
    BY <1>0, <1>2 DEF IInv, Exchange, Silent
  <2>2. PICK type \in Types :
           /\ socket.inbox = <<>>
           /\ socket.outbox = <<[id |-> Sending, type |-> type]>>
           /\ done = IF step = "command" /\ type # "error" THEN 1 ELSE 0
    BY <2>1 DEF Answered
  <2> DEFINE r == Head(socket.outbox)
  <2>3. r.id = Sending /\ r.type = type /\ Tail(socket.outbox) = <<>>
    BY <2>2, OneItem
  <2>4. socket' \in Socket /\ socket'.inbox = <<>> /\ socket'.outbox = <<>>
    BY <1>2, <2>2, <2>3 DEF IInv, TypeOK, Socket
  <2>5. /\ n \in 1..3 /\ n \in Ids /\ 0 \in Ids /\ Len(<<>>) = 0
        /\ done \in Nat /\ done <= 1 /\ cmd \in AllCommands
    BY <2>2 DEF IInv, TypeOK, Ids
  <2>6. Reply(r) /\ fds' = fds
    BY <1>2
  <2> HIDE DEF r
  <2>7. ASSUME UNCHANGED <<ctx, step>>, pc' = "idle",
               last' \in Outcome, last'.reply \in {0, n},
               last'.checked /\ last'.result = "ok" => done = 1
        PROVE  IInv'
    <3>1. TypeOK'
      BY <1>0, <2>4, <2>6, <2>7 DEF IInv, TypeOK
    <3>2. OneDescriptor' /\ Contexts' /\ Exchange'
      BY <1>0, <2>4, <2>6, <2>7 DEF IInv, OneDescriptor, Contexts, Exchange, Silent
    <3>3. AtMostOnce' /\ LastResult'
      BY <1>0, <2>4, <2>5, <2>7 DEF AtMostOnce, LastResult
    <3> QED BY <3>1, <3>2, <3>3 DEF IInv
  <2>8. CASE /\ step = "command" /\ Return(r.id, Result(cmd, r.type))
             /\ UNCHANGED <<ctx, step>>
    <3>1. /\ Result(cmd, type) \in {"ok", "empty", "fail"}
          /\ cmd.else # "ok" /\ Result(cmd, type) = "ok" => type # "error"
      BY <2>5, CheckedCommands
    <3>2. r.id = n /\ r.type = type
      BY <2>3, <2>8 DEF Sending
    <3>3. /\ last' \in Outcome /\ last'.reply = n /\ pc' = "idle"
          /\ last'.result = Result(cmd, type) /\ last'.checked = (cmd.else # "ok")
      BY <2>5, <2>8, <3>1, <3>2, Returned
    <3>4. last'.checked /\ last'.result = "ok" => done = 1
      BY <2>2, <2>8, <3>1, <3>3
    <3> QED BY <2>7, <2>8, <3>3, <3>4
  <2>9. CASE Return(0, "fail") /\ UNCHANGED <<ctx, step>>
    BY <2>5, <2>7, <2>9, Returned
  <2>10. ASSUME NEW s \in {"select", "command"}, step # "command",
                step' = s, pc' = "write", last' = last,
                ctx' = Append2Obuf(ctx, IF s = "command" THEN n ELSE 0)
         PROVE  IInv'
    <3> DEFINE id == IF s = "command" THEN n ELSE 0
    <3>1. id \in Ids /\ Sending' = id
      BY <1>0, <2>5, <2>10 DEF Sending
    <3>2. ctx' = Append2Obuf(ctx, id) /\ done = 0
      BY <2>2, <2>10
    <3> HIDE DEF id
    <3>3. ctx' \in Ctx /\ ctx'.fd = "open" /\ ~ctx'.err /\ ctx'.obuf = <<id>>
      BY <1>0, <3>1, <3>2, AppendObuf
    <3>4. TypeOK'
      BY <1>0, <2>4, <2>6, <2>10, <3>3 DEF IInv, TypeOK
    <3>5. OneDescriptor' /\ Contexts'
      BY <1>0, <2>6, <2>10, <3>3 DEF IInv, OneDescriptor, Contexts
    <3>6. Exchange'
      BY <1>0, <2>4, <2>10, <3>1, <3>2, <3>3 DEF Exchange, Silent
    <3>7. last = Nothing
      BY <1>0 DEF IInv, LastResult
    <3>8. AtMostOnce' /\ LastResult'
      BY <1>0, <2>4, <2>5, <2>10, <3>2, <3>7, Nulls DEF AtMostOnce, LastResult
    <3> QED BY <3>4, <3>5, <3>6, <3>8 DEF IInv
  <2> QED BY <2>6, <2>8, <2>9, <2>10 DEF Reply
<1> QED BY <1>1, <1>2 DEF redisBufferRead

-------------------------------------------------------------------------------
(* The server, and time *)

LEMMA HeadTail ==
    ASSUME NEW S, NEW s \in Seq(S), s # <<>>
    PROVE  /\ Head(s) \in S /\ Tail(s) \in Seq(S)
           /\ Len(s) \in Nat /\ Len(s) # 0 /\ Len(Tail(s)) = Len(s) - 1
OBVIOUS

(* The server executes what it has received. *)
LEMMA ServedSocket ==
    ASSUME NEW k \in Socket, NEW a \in Answer, k.inbox # <<>>, NEW m,
           m = [k EXCEPT !.inbox = Tail(@), !.authed = TRUE, !.outbox = Append(@, a)]
    PROVE  /\ m \in Socket /\ m.inbox = Tail(k.inbox)
           /\ m.outbox = Append(k.outbox, a)
<1> DEFINE i == Tail(k.inbox)
           o == Append(k.outbox, a)
<1>1. i \in Seq(Ids)
  BY HeadTail DEF Socket
<1>2. o \in Seq(Answer)
  BY DEF Socket
<1>3. m = [k EXCEPT !.inbox = i, !.authed = TRUE, !.outbox = o]
  OBVIOUS
<1> HIDE DEF i, o
<1>4. m \in Socket /\ m.inbox = i /\ m.outbox = o
  BY <1>1, <1>2, <1>3 DEF Socket
<1> QED BY <1>4 DEF i, o

LEMMA ExecuteInv ==
    ASSUME IInv, Execute
    PROVE  IInv'
<1> DEFINE id == Head(socket.inbox)
<1>0. /\ socket.inbox # <<>>
      /\ UNCHANGED <<pc, step, cmd, n, ctx, fds, tried, up, waited, last>>
  BY DEF Execute
<1>1. PICK type \in (IF id = 0 THEN {"status"} ELSE cmd.gives) \cup {"error"} :
         /\ done' = IF id = n /\ type # "error" THEN done + 1 ELSE done
         /\ socket' = [socket EXCEPT !.inbox = Tail(@), !.authed = TRUE,
                           !.outbox = Append(@, [id |-> id, type |-> type])]
  BY DEF Execute
<1> DEFINE a == [id |-> id, type |-> type]
<1>2. socket \in Socket /\ cmd \in AllCommands /\ n \in 1..3 /\ done \in Nat
  BY DEF IInv, TypeOK
<1>3. /\ id \in Ids /\ Tail(socket.inbox) \in Seq(Ids)
      /\ Len(socket.inbox) \in Nat /\ Len(socket.inbox) # 0
      /\ Len(Tail(socket.inbox)) = Len(socket.inbox) - 1
  <2> DEFINE q == socket.inbox
  <2>1. q \in Seq(Ids) /\ q # <<>>
    BY <1>0, <1>2 DEF Socket
  <2> HIDE DEF q
  <2>2. /\ Head(q) \in Ids /\ Tail(q) \in Seq(Ids)
        /\ Len(q) \in Nat /\ Len(q) # 0 /\ Len(Tail(q)) = Len(q) - 1
    BY <2>1, HeadTail
  <2> QED BY <2>2 DEF q
<1>4. type \in Types
  <2>1. "status" \in Types /\ "error" \in Types
    BY DEF Types
  <2>2. cmd.gives \subseteq Types
    BY <1>2, <2>1, CheckedCommands
  <2> QED BY <2>1, <2>2
<1>5. a \in Answer
  BY <1>3, <1>4 DEF Answer
<1> HIDE DEF id
<1>6. /\ socket' \in Socket /\ socket'.inbox = Tail(socket.inbox)
      /\ socket'.outbox = Append(socket.outbox, a)
  BY <1>0, <1>1, <1>2, <1>5, ServedSocket
<1>7. done = 0 /\ Len(socket.inbox) = 1 /\ Len(Tail(socket.inbox)) = 0
  <2> DEFINE k == Len(socket.inbox)
             m == Len(Tail(socket.inbox))
  <2>1. k \in Nat /\ k # 0 /\ m = k - 1 /\ done + k <= 1
    BY <1>3 DEF IInv, AtMostOnce
  <2> HIDE DEF k, m
  <2>2. done = 0 /\ k = 1 /\ m = 0
    BY <1>2, <2>1
  <2> QED BY <2>2 DEF k, m
<1>8. done' = (IF id = n /\ type # "error" THEN 1 ELSE 0) /\ done' \in 0..1
  BY <1>1, <1>7
<1>9. ctx.fd = "open" /\ pc \notin {"resolve", "try"}
      /\ (pc \in {"idle", "write"} => ctx.err)
  <2>1. ~Silent
    BY <1>0 DEF Silent
  <2>2. ctx.fd = "open" /\ pc \notin {"resolve", "try"}
    BY <2>1, Nulls DEF IInv, Contexts
  <2>3. pc \in {"idle", "write", "dead", "read"}
    BY <2>2 DEF IInv, TypeOK
  <2> QED BY <2>1, <2>2, <2>3 DEF IInv, Exchange
<1>10. TypeOK'
  BY <1>0, <1>2, <1>6, <1>8 DEF IInv, TypeOK
<1>11. OneDescriptor' /\ Contexts'
  BY <1>0, <1>9 DEF IInv, OneDescriptor, Contexts
<1>12. Exchange'
  <2>1. CASE pc # "read"
    BY <1>0, <1>9, <2>1 DEF Exchange
  <2>2. CASE pc = "read"
    <3>1. ~ctx.err /\ ctx.obuf = <<>> /\ socket.inbox = <<Sending>> /\ socket.outbox = <<>>
      BY <1>0, <2>2 DEF IInv, Exchange, Silent, Answered
    <3>2. id = Sending /\ Tail(socket.inbox) = <<>> /\ Append(socket.outbox, a) = <<a>>
      BY <3>1, OneItem DEF id
    <3>3. Sending' = Sending /\ step' = step /\ (Sending = n <=> step = "command")
      BY <1>0, <1>2 DEF Sending
    <3>4. /\ socket'.inbox = <<>>
          /\ socket'.outbox = <<[id |-> Sending', type |-> type]>>
          /\ done' = IF step' = "command" /\ type # "error" THEN 1 ELSE 0
      BY <1>6, <1>8, <3>2, <3>3
    <3>5. Answered'
      BY <1>4, <3>4 DEF Answered
    <3> QED BY <1>0, <2>2, <3>1, <3>5 DEF Exchange
  <2> QED BY <2>1, <2>2
<1>13. AtMostOnce' /\ LastResult'
  <2>1. socket'.inbox = Tail(socket.inbox) /\ Len(socket'.inbox) = 0
    BY <1>6, <1>7
  <2>2. AtMostOnce'
    <3>1. ASSUME NEW d \in 0..1, NEW k, k = 0 PROVE d + k <= 1
      BY <3>1
    <3>2. done' + Len(socket'.inbox) <= 1
      BY <1>8, <2>1, <3>1
    <3> QED BY <3>2 DEF AtMostOnce
  <2>3. last.reply \in {0, n} /\ ~(last.checked /\ last.result = "ok")
        /\ (pc # "idle" => last = Nothing)
    BY <1>0 DEF IInv, LastResult
  <2>4. LastResult'
    BY <1>0, <2>3 DEF LastResult
  <2> QED BY <2>2, <2>4
<1> QED BY <1>10, <1>11, <1>12, <1>13 DEF IInv

(* The server goes away, with what it has not executed yet. *)
LEMMA GoesDownInv ==
    ASSUME IInv, GoesDown
    PROVE  IInv'
<1>0. UNCHANGED <<pc, step, cmd, n, ctx, fds, tried, waited, done, last>>
  BY DEF GoesDown
<1>1. PICK lost \in BOOLEAN :
         socket' = [socket EXCEPT !.inbox = <<>>, !.alive = FALSE,
                                  !.outbox = IF lost THEN <<>> ELSE @]
  BY DEF GoesDown
<1> DEFINE i == <<>>
           o == IF lost THEN <<>> ELSE socket.outbox
<1>2. socket \in Socket /\ i \in Seq(Ids) /\ o \in Seq(Answer) /\ Len(i) = 0
  BY DEF IInv, TypeOK, Socket
<1>3. socket' = [socket EXCEPT !.inbox = i, !.alive = FALSE, !.outbox = o]
  BY <1>1
<1>4. o = <<>> \/ o = socket.outbox
  OBVIOUS
<1> HIDE DEF i, o
<1>5. socket' \in Socket /\ socket'.inbox = i /\ ~socket'.alive /\ socket'.outbox = o
  BY <1>2, <1>3 DEF Socket
<1>6. i = <<>>
  BY DEF i
<1>7. Silent => Silent'
  BY <1>4, <1>5, <1>6 DEF Silent
<1>8. TypeOK'
  BY <1>0, <1>5 DEF IInv, TypeOK
<1>9. OneDescriptor' /\ Contexts'
  BY <1>0, <1>7 DEF IInv, OneDescriptor, Contexts
<1>10. Exchange'
  <2>1. /\ pc = "idle" /\ ctx.fd = "open" /\ ~ctx.err => Silent' /\ ctx.obuf = <<>>
        /\ pc \in {"resolve", "try"} => done = 0
        /\ pc = "write" /\ ~ctx.err => Silent' /\ ctx.obuf = <<Sending>> /\ done = 0
    BY <1>7 DEF IInv, Exchange
  <2>2. pc = "read" =>
          /\ ~ctx.err /\ ctx.obuf = <<>>
          /\ (Silent' /\ ~socket'.alive) \/ Answered'
    <3> HAVE pc = "read"
    <3>1. ~ctx.err /\ ctx.obuf = <<>>
      BY DEF IInv, Exchange
    <3>2. CASE socket.outbox = <<>>
      BY <1>4, <1>5, <1>6, <3>1, <3>2 DEF Silent
    <3>3. CASE socket.outbox # <<>> /\ o = <<>>
      BY <1>5, <1>6, <3>1, <3>3 DEF Silent
    <3>4. CASE socket.outbox # <<>> /\ o = socket.outbox
      <4>1. Answered
        BY <3>4 DEF IInv, Exchange, Silent
      <4>2. Answered'
        BY <1>0, <1>5, <1>6, <3>4, <4>1 DEF Answered, Sending
      <4> QED BY <3>1, <4>2
    <3> QED BY <1>4, <3>2, <3>3, <3>4
  <2>3. Sending' = Sending
    BY <1>0 DEF Sending
  <2> QED BY <1>0, <2>1, <2>2, <2>3 DEF Exchange
<1>11. AtMostOnce' /\ LastResult'
  BY <1>0, <1>2, <1>5, <1>6 DEF IInv, TypeOK, AtMostOnce, LastResult, Socket
<1> QED BY <1>8, <1>9, <1>10, <1>11 DEF IInv

(* What the invariant speaks of does not change. *)
LEMMA SameInv ==
    ASSUME IInv, UNCHANGED <<pc, step, cmd, n, ctx, fds, socket, done, last>>
    PROVE  IInv'
<1>1. TypeOK' /\ OneDescriptor' /\ Contexts'
  BY DEF IInv, TypeOK, OneDescriptor, Contexts, Silent
<1>2. Exchange' /\ AtMostOnce' /\ LastResult'
  BY DEF IInv, Exchange, Silent, Answered, Sending, AtMostOnce, LastResult
<1> QED BY <1>1, <1>2 DEF IInv

LEMMA NextInv == IInv /\ [Next]_vars => IInv'
<1> SUFFICES ASSUME IInv, [Next]_vars PROVE IInv'
  OBVIOUS
<1>1. CASE \E c \in Used : Call(c)
  BY <1>1, CallInv
<1>2. CASE Resolve
  BY <1>2, ResolveInv
<1>3. CASE TryAddress
  BY <1>3, TryAddressInv
<1>4. CASE redisBufferWrite
  BY <1>4, WriteInv
<1>5. CASE redisBufferRead
  BY <1>5, ReadInv
<1>6. CASE Execute
  BY <1>6, ExecuteInv
<1>7. CASE GoesDown
  BY <1>7, GoesDownInv
<1>8. CASE ComesUp \/ Tick
  BY <1>8, SameInv DEF ComesUp, Tick
<1>9. CASE UNCHANGED vars
  BY <1>9, SameInv DEF vars
<1> QED BY <1>1, <1>2, <1>3, <1>4, <1>5, <1>6, <1>7, <1>8, <1>9 DEF Next

THEOREM Invariance == Spec => []IInv
<1>1. IInv /\ [Next]_vars => IInv'
  BY NextInv
<1> QED BY InitInv, <1>1, PTL DEF Spec

(* A command is never given the reply of another one, or of an AUTH or a   *)
(* SELECT before it: whichever of them fail, time out or find the          *)
(* connection broken, with every set of commands and any number of faults. *)
THEOREM OwnReply == Spec => []ReplyIsOwn
<1>1. IInv => ReplyIsOwn
  BY DEF IInv, LastResult, ReplyIsOwn
<1> QED BY Invariance, <1>1, PTL

(* A success that a command reports after looking at the type of its reply *)
(* means that the server has executed it, once; and none is executed twice.*)
THEOREM CheckedSuccess == Spec => []CheckedMeansDone
<1>1. IInv => CheckedMeansDone
  BY DEF IInv, TypeOK, Socket, AtMostOnce, LastResult, CheckedMeansDone
<1> QED BY Invariance, <1>1, PTL

(* The pool's connection has one descriptor open while it has a context    *)
(* that is connected, and none otherwise.                                  *)
THEOREM DescriptorKept == Spec => []OneDescriptor
<1>1. IInv => OneDescriptor
  BY DEF IInv
<1> QED BY Invariance, <1>1, PTL
================================================================================
