------------------------------- MODULE RedisConn -------------------------------
(***************************************************************************)
(* One connection of the Redis pool: CacheConn (redis/cache_pool.cc), the  *)
(* blocking context of hiredis under it (redis/hiredis.c, redis/net.c) and *)
(* a server that may go away, come back, and answer with an error.         *)
(*                                                                         *)
(* CacheConn connects when it is used, once a second at most.  What a      *)
(* command does without a reply, and with one of a type it does not        *)
(* expect, differs from command to command: that is its record below.      *)
(***************************************************************************)
EXTENDS Integers, Sequences

CONSTANTS
    Used,          \* commands of this instance
    Password,      \* an AUTH is sent after connecting
    Faults,        \* "down", "io", "error": what may go wrong
    MaxFaults      \* bound: failures in a behaviour

(* null: without a reply the context is freed, kept, or its reply is used  *)
(* all the same and the process dies.  gives: the types of the server's    *)
(* replies; wants: those it takes for success; else: what it returns for   *)
(* any other type.                                                         *)
Command(null, gives, wants, else) ==
    [null |-> null, gives |-> gives, wants |-> wants, else |-> else]

Types == {"string", "nil", "integer", "status", "array", "error"}

Get       == Command("free", {"string", "nil"}, {"string"}, "empty")
Set       == Command("free", {"status"}, Types, "ok")
SetEx     == Command("free", {"status"}, Types, "ok")
MGet      == Command("free", {"array"}, {"array"}, "ok")
IsExists  == Command("free", {"integer"}, Types, "ok")
Del       == Command("free", {"integer"}, Types, "ok")
Hdel      == Command("free", {"integer"}, Types, "ok")
Hget      == Command("free", {"string", "nil"}, {"string"}, "empty")
HgetChar  == Command("keep", {"string", "nil"}, {"string"}, "fail")
HgetAll   == Command("free", {"array"}, {"array"}, "ok")
Hset      == Command("free", {"integer"}, Types, "ok")
HincrBy   == Command("free", {"integer"}, Types, "ok")
IncrBy    == Command("free", {"integer"}, Types, "ok")
Hmset     == Command("free", {"status"}, Types, "ok")
Hmget     == Command("free", {"array"}, {"array"}, "ok")
Incr      == Command("free", {"integer"}, Types, "ok")
Decr      == Command("free", {"integer"}, Types, "ok")
Lpush     == Command("free", {"integer"}, Types, "ok")
Rpush     == Command("free", {"integer"}, Types, "ok")
Llen      == Command("free", {"integer"}, Types, "ok")
Lrange    == Command("free", {"array"}, {"array"}, "ok")
ZsetExist == Command("dies", {"string", "nil"}, {"string", "nil"}, "fail")
ZsetAdd   == Command("dies", {"integer"}, {"integer"}, "fail")
ZsetZrem  == Command("dies", {"integer"}, {"integer"}, "fail")
ZsetIncr  == Command("dies", {"string"}, {"string"}, "fail")
ZsetZcard == Command("dies", {"integer"}, {"integer"}, "fail")
ZsetZrevrange == Command("dies", {"array"}, {"array"}, "fail")
ZsetGetScore  == Command("dies", {"string", "nil"}, {"string"}, "fail")
FlushDb   == Command("free", {"status"}, {"string"}, "fail")

AllCommands ==
    {Get, Set, SetEx, MGet, IsExists, Del, Hdel, Hget, HgetChar, HgetAll, Hset,
     HincrBy, IncrBy, Hmset, Hmget, Incr, Decr, Lpush, Rpush, Llen, Lrange,
     ZsetExist, ZsetAdd, ZsetZrem, ZsetIncr, ZsetZcard, ZsetZrevrange,
     ZsetGetScore, FlushDb}

(* The instance calls no other commands. *)
ASSUME CommandsAssumption == Used \subseteq AllCommands

(* Mutant: the type of the reply is not looked at. *)
Result_Unchecked(c, type) == "ok"

(* What a command returns for a reply of a type. *)
Result(c, type) == IF type \in c.wants THEN "ok" ELSE c.else

VARIABLES
    pc,        \* "idle", "resolve", "try" (in Init), "write", "read" (in
               \* redisCommand), "dead"
    step,      \* what is sent: "auth", "select" or the "command" itself
    cmd,       \* the command called
    n,         \* its number, 1, 2, 3 in turn; AUTH and SELECT have number 0
    ctx,       \* context_: NULL or [fd, err, obuf]
    fds,       \* open descriptors
    tried,     \* addresses tried by this connect
    socket,    \* the server's end: [inbox, outbox, alive, authed]
    up,        \* the server runs
    waited,    \* a second has passed since last_connect_time_
    done,      \* times the server has executed the command
    last,      \* what the last command returned, and the reply it had
    faults

vars == <<pc, step, cmd, n, ctx, fds, tried, socket, up, waited, done, last, faults>>

NULL     == [fd |-> "null", err |-> FALSE, obuf |-> <<>>]
NoSocket == [inbox |-> <<>>, outbox |-> <<>>, alive |-> FALSE, authed |-> FALSE]
Nothing  == [reply |-> 0, result |-> "none", checked |-> FALSE]
MaxAddresses == 2   \* what getaddrinfo returns

Init ==
    /\ pc = "idle" /\ step = "command" /\ cmd = Get /\ n = 1
    /\ ctx = NULL /\ fds = 0 /\ tried = 0
    /\ socket = NoSocket /\ up \in BOOLEAN
    /\ waited = TRUE /\ done = 0 /\ last = Nothing
    /\ faults = 0

Fault(kind) == kind \in Faults /\ faults < MaxFaults /\ faults' = faults + 1

-----------------------------------------------------------------------------
(* CacheConn: a command starts with Init() *)

(* The command ends with this result; the reply it had, 0 for none. *)
Return(reply, result) ==
    /\ last' = [reply |-> reply, result |-> result, checked |-> cmd.else # "ok"]
    /\ pc' = "idle"

(* __redisAppendCommand, also on a context with an error, whose obuf grows  *)
(* with every command (MaxObuf: bound).                                    *)
MaxObuf == 2
Append2Obuf(c, id) == [c EXCEPT !.obuf = IF Len(@) < MaxObuf THEN Append(@, id) ELSE @]

(* A context, whatever its state, is taken for a connection.  Without one  *)
(* a second must have passed since the last attempt.                       *)
Call(c) ==
    /\ pc = "idle"
    /\ cmd' = c /\ n' = (n % 3) + 1 /\ done' = 0
    /\ \/ /\ ctx # NULL
          /\ ctx' = Append2Obuf(ctx, n') /\ step' = "command" /\ pc' = "write"
          /\ last' = Nothing
          /\ UNCHANGED <<waited, tried>>
       \/ /\ ctx = NULL /\ ~waited
          /\ last' = [Nothing EXCEPT !.result = "fail"]
          /\ UNCHANGED <<pc, ctx, step, waited, tried>>
       \/ /\ ctx = NULL /\ waited
          /\ waited' = FALSE
          /\ pc' = "resolve" /\ tried' = 0 /\ last' = Nothing
          /\ UNCHANGED <<ctx, step>>
    /\ UNCHANGED <<fds, socket, up, faults>>

(* redisConnectWithTimeout: redisContextInit, then _redisContextConnectTcp. *)
redisContextInit == [NULL EXCEPT !.fd = "zero"]

(* The connect failed with err set: Init frees the context, which closes   *)
(* the descriptor of this attempt, and the command fails.                  *)
ConnectFailed ==
    /\ ctx' = NULL
    /\ Return(0, "fail")
    /\ UNCHANGED <<fds, step, socket>>

Resolve ==
    /\ pc = "resolve"
    /\ \/ ~up /\ ConnectFailed
       \/ /\ ctx' = redisContextInit /\ pc' = "try"
          /\ UNCHANGED <<fds, last, step, socket>>
    /\ UNCHANGED <<cmd, n, tried, up, waited, done, faults>>

(* One address: socket, connect and its wait.  A host that is unreachable  *)
(* closes the socket and the next address is tried; any other failure      *)
(* ends the connect.                                                       *)
TryAddress ==
    /\ pc = "try"
    /\ tried' = tried + 1
    /\ \/ /\ tried < MaxAddresses /\ up
          /\ fds' = fds + 1
          /\ ctx' = Append2Obuf([ctx EXCEPT !.fd = "open"], 0)
          /\ socket' = [NoSocket EXCEPT !.alive = TRUE, !.authed = ~Password]
          /\ pc' = "write" /\ step' = IF Password THEN "auth" ELSE "select"
          /\ UNCHANGED last
       \/ /\ tried < MaxAddresses /\ ~up     \* EHOSTUNREACH
          /\ ctx' = [ctx EXCEPT !.fd = "closed"]
          /\ UNCHANGED <<fds, socket, pc, step, last>>
       \/ /\ ~up \/ tried = MaxAddresses     \* refused, timed out, no address left
          /\ ConnectFailed
    /\ UNCHANGED <<cmd, n, up, waited, done, faults>>

-----------------------------------------------------------------------------
(* redisCommand on a blocking context: redisGetReply *)

(* Mutant: the descriptor is not closed. *)
redisFree_Leak == ctx' = NULL /\ socket' = NoSocket /\ UNCHANGED fds

redisFree == ctx' = NULL /\ fds' = fds - 1 /\ socket' = NoSocket

(* Mutant: no command frees the context. *)
NoReply_Keep(c) ==
    /\ ctx' = c /\ UNCHANGED <<fds, socket>>
    /\ \/ cmd.null # "dies" /\ Return(0, "fail")
       \/ cmd.null = "dies" /\ pc' = "dead" /\ UNCHANGED last

(* redisCommand returned NULL *)
NoReply(c) ==
    \/ step \in {"auth", "select"} /\ Return(0, "fail") /\ ctx' = c
       /\ UNCHANGED <<fds, socket>>
    \/ step = "command" /\ cmd.null = "free" /\ redisFree /\ Return(0, "fail")
    \/ step = "command" /\ cmd.null = "keep" /\ Return(0, "fail") /\ ctx' = c
       /\ UNCHANGED <<fds, socket>>
    \/ step = "command" /\ cmd.null = "dies" /\ pc' = "dead" /\ ctx' = c
       /\ UNCHANGED <<fds, socket, last>>

(* Mutant: the error of an earlier call is not looked at. *)
redisBufferWrite_Again ==
    /\ pc = "write"
    /\ \/ Fault("io") /\ NoReply([ctx EXCEPT !.err = TRUE])
       \/ ~socket.alive /\ NoReply([ctx EXCEPT !.err = TRUE]) /\ UNCHANGED faults
       \/ /\ socket.alive
          /\ socket' = [socket EXCEPT !.inbox = @ \o ctx.obuf]
          /\ ctx' = [ctx EXCEPT !.obuf = <<>>]
          /\ pc' = "read"
          /\ UNCHANGED <<fds, last, faults>>
    /\ UNCHANGED <<step, cmd, n, tried, up, waited, done>>

(* redisBufferWrite: nothing more on a context with an error; what obuf    *)
(* holds goes to the socket.                                               *)
redisBufferWrite ==
    /\ pc = "write"
    /\ \/ ctx.err /\ NoReply(ctx) /\ UNCHANGED faults
       \/ ~ctx.err /\ Fault("io") /\ NoReply([ctx EXCEPT !.err = TRUE])
       \/ ~ctx.err /\ ~socket.alive /\ NoReply([ctx EXCEPT !.err = TRUE])
          /\ UNCHANGED faults
       \/ /\ ~ctx.err /\ socket.alive
          /\ socket' = [socket EXCEPT !.inbox = @ \o ctx.obuf]
          /\ ctx' = [ctx EXCEPT !.obuf = <<>>]
          /\ pc' = "read"
          /\ UNCHANGED <<fds, last, faults>>
    /\ UNCHANGED <<step, cmd, n, tried, up, waited, done>>

(* A reply has come: what AUTH, SELECT and the command make of it.  A      *)
(* connection whose AUTH or SELECT was refused is kept.                    *)
Reply(r) ==
    LET next(s) == /\ step' = s /\ pc' = "write"
                   /\ ctx' = Append2Obuf(ctx, IF s = "command" THEN n ELSE 0)
                   /\ UNCHANGED last
    IN  \/ step = "command" /\ Return(r.id, Result(cmd, r.type)) /\ UNCHANGED <<ctx, step>>
        \/ step # "command" /\ r.type = "error" /\ Return(0, "fail") /\ UNCHANGED <<ctx, step>>
        \/ step = "auth" /\ r.type # "error" /\ next("select")
        \/ step = "select" /\ r.type # "error" /\ next("command")

(* redisBufferRead: end of file, an error, or the next reply. *)
redisBufferRead ==
    /\ pc = "read"
    /\ \/ Fault("io") /\ NoReply([ctx EXCEPT !.err = TRUE]) /\ UNCHANGED step
       \/ /\ socket.outbox = <<>> /\ ~socket.alive
          /\ NoReply([ctx EXCEPT !.err = TRUE]) /\ UNCHANGED <<faults, step>>
       \/ /\ socket.outbox # <<>>
          /\ Reply(Head(socket.outbox))
          /\ socket' = [socket EXCEPT !.outbox = Tail(@)]
          /\ UNCHANGED <<fds, faults>>
    /\ UNCHANGED <<cmd, n, tried, up, waited, done>>

-----------------------------------------------------------------------------
(* The server, and time *)

(* The server executes what it received; it may refuse SELECT and the      *)
(* commands, and refuses every command before AUTH.                        *)
Execute ==
    LET id == Head(socket.inbox)
    IN  /\ socket.alive /\ socket.inbox # <<>>
        /\ \E type \in (IF id = 0 THEN {"status"} ELSE cmd.gives) \cup {"error"} :
              /\ \/ type # "error" /\ (id # 0 => socket.authed) /\ UNCHANGED faults
                 \/ type = "error" /\ socket.authed /\ Fault("error")
                 \/ type = "error" /\ id # 0 /\ ~socket.authed /\ UNCHANGED faults
              /\ done' = IF id = n /\ type # "error" THEN done + 1 ELSE done
              /\ socket' = [socket EXCEPT !.inbox = Tail(@), !.authed = TRUE,
                                !.outbox = Append(@, [id |-> id, type |-> type])]
        /\ UNCHANGED <<pc, step, cmd, n, ctx, fds, tried, up, waited, last>>

(* The server goes away; what it has answered may still arrive. *)
GoesDown ==
    /\ up /\ Fault("down")
    /\ up' = FALSE
    /\ \E lost \in BOOLEAN :
          socket' = [socket EXCEPT !.inbox = <<>>, !.alive = FALSE,
                                   !.outbox = IF lost THEN <<>> ELSE @]
    /\ UNCHANGED <<pc, step, cmd, n, ctx, fds, tried, waited, done, last>>

ComesUp ==
    /\ ~up /\ up' = TRUE
    /\ UNCHANGED <<pc, step, cmd, n, ctx, fds, tried, socket, waited, done, last, faults>>

Tick ==
    /\ ~waited /\ waited' = TRUE
    /\ UNCHANGED <<pc, step, cmd, n, ctx, fds, tried, socket, up, done, last, faults>>

Next ==
    \/ \E c \in Used : Call(c)
    \/ Resolve \/ TryAddress \/ redisBufferWrite \/ redisBufferRead
    \/ Execute \/ GoesDown \/ ComesUp \/ Tick

(* Time passes, the server and the client go on, a server that went away   *)
(* comes back, and commands that free a broken context are called again    *)
(* and again.                                                              *)
Fairness ==
    /\ WF_vars(Resolve) /\ WF_vars(TryAddress) /\ WF_vars(redisBufferWrite)
    /\ WF_vars(redisBufferRead) /\ WF_vars(Execute)
    /\ WF_vars(ComesUp) /\ WF_vars(Tick)
    /\ SF_vars(\E c \in Used : c.null = "free" /\ Call(c))

Spec == Init /\ [][Next]_vars /\ Fairness

-----------------------------------------------------------------------------
(* A command gets its own reply or none: whatever failed before, on this   *)
(* context or an older one, no command is given the answer of another.     *)
ReplyIsOwn == last.reply \in {0, n}

(* A command that looks at the type of its reply and reports success was   *)
(* executed exactly once; and no command is executed twice, though the     *)
(* connection may be lost at any point and made again.                     *)
CheckedMeansDone ==
    /\ done <= 1
    /\ last.checked /\ last.result = "ok" => done = 1

(* A context has one descriptor and it is closed with it: failed connects, *)
(* lost connections and reconnects leak none and close none twice.         *)
OneDescriptor == fds = IF ctx.fd = "open" THEN 1 ELSE 0

(* After the failures end, commands are answered again: a context with an  *)
(* error is replaced, a second or more later, unless the process died.     *)
Recovers == []<>(last.reply # 0 \/ pc = "dead")
=================================================================================
