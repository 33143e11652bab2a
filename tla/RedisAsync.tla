------------------------------- MODULE RedisAsync -------------------------------
(***************************************************************************)
(* The asynchronous context of redis/async.c, on one thread with an event  *)
(* loop: commands with callbacks, subscriptions, monitoring, a clean       *)
(* disconnect and an immediate free, asked for outside or inside a         *)
(* callback.  ac is the context; the two dictionaries of subscriptions are *)
(* one function here, since a name is a channel's or a pattern's (the      *)
(* dictionary itself is RedisDict).  A callback is its command's number, 0 *)
(* is a callback without a function.                                       *)
(*                                                                         *)
(* The application keeps three rules, without which the context goes wrong *)
(* (see the README): it sends no ordinary command while an unsubscription  *)
(* is under way, it unsubscribes what it has subscribed, and it repeats a  *)
(* subscription that is under way only alone.  A monitoring client sends   *)
(* nothing else.                                                           *)
(***************************************************************************)
EXTENDS Integers, Sequences, SequencesExt, FiniteSets

CONSTANTS
    Names,          \* channels and patterns
    MaxCommands,    \* bound: commands the context accepts
    MaxMessages     \* bound: messages published on a subscribed name

ASSUME AsyncAssumption ==
    /\ IsFiniteSet(Names) /\ "" \notin Names
    /\ MaxCommands \in Nat /\ MaxMessages \in Nat

VARIABLES
    ac,        \* the redisAsyncContext
    net,       \* both directions of the connection and the server
    pc         \* "loop": the event loop; "process": in redisProcessCallbacks

asyncVars == <<ac, net, pc>>

Ids == 1..MaxCommands
NULLfn == 0

redisAsyncInitialize ==
    [flags |-> {}, err |-> FALSE, live |-> TRUE,
     replies |-> <<>>, invalid |-> <<>>, subs |-> <<>>,
     obuf |-> <<>>, inbuf |-> <<>>, cb |-> NULLfn,
     cmds |-> <<>>, got |-> [id \in Ids |-> <<>>]]

AsyncInit ==
    /\ ac = redisAsyncInitialize
    /\ net = [toServer |-> <<>>, toClient |-> <<>>, names |-> {}, closed |-> FALSE,
              messages |-> 0, part |-> FALSE]
    /\ pc = "loop"

-----------------------------------------------------------------------------
(* Callback lists *)

(* Mutant: a subscription that replaces one keeps no count of the answers  *)
(* that are still to come.                                                 *)
Subscribe_NoPending(a, id, names) ==
    [a EXCEPT !.flags = @ \cup {"SUBSCRIBED"},
              !.subs = [n \in DOMAIN @ \cup ToSet(names) |->
                           IF n \in ToSet(names) THEN [cb |-> id, pending |-> 1] ELSE @[n]]]

(* One callback for every name, in their order; the count of the answers a *)
(* name waits for is kept in a variable that the loop does not reset.      *)
SubscribeOne(id, x, n) ==
    LET pending == IF n \in DOMAIN x.subs THEN x.subs[n].pending + 1 ELSE x.pending
    IN  [pending |-> pending,
         subs |-> [m \in DOMAIN x.subs \cup {n} |->
                      IF m = n THEN [cb |-> id, pending |-> pending] ELSE x.subs[m]]]
Subscribe(a, id, names) ==
    LET after[k \in 0..Len(names)] ==
            IF k = 0 THEN [pending |-> 1, subs |-> a.subs]
            ELSE SubscribeOne(id, after[k - 1], names[k])
    IN  [a EXCEPT !.flags = @ \cup {"SUBSCRIBED"}, !.subs = after[Len(names)].subs]

Accepts(a, c) ==
    /\ a.flags \cap {"DISCONNECTING", "FREEING"} = {}
    /\ c.kind = "unsubscribe" => "SUBSCRIBED" \in a.flags
    /\ Len(a.cmds) < MaxCommands

__redisAsyncCommand(a, c) ==
    LET id   == Len(a.cmds) + 1
        sent == [a EXCEPT !.obuf = Append(@, [c EXCEPT !.id = id]),
                          !.cmds = Append(@, c.kind)]
    IN  IF ~Accepts(a, c) THEN a
        ELSE CASE c.kind = "subscribe" -> Subscribe(sent, id, c.names)
               [] c.kind = "unsubscribe" -> sent
               [] c.kind = "monitor" ->
                    [sent EXCEPT !.flags = @ \cup {"MONITORING"}, !.replies = Append(@, id)]
               [] OTHER -> IF "SUBSCRIBED" \in a.flags
                           THEN [sent EXCEPT !.invalid = Append(@, id)]
                           ELSE [sent EXCEPT !.replies = Append(@, id)]

Cmd(kind, names) == [id |-> 0, kind |-> kind, names |-> names]
Get == Cmd("get", <<>>)

(* What an application does in a callback.  Disconnecting and freeing only *)
(* set a flag there (REDIS_IN_CALLBACK).                                   *)
CallbackDoes == {"nothing", "get", "disconnect", "free"}

__redisRunCallback(a, cb, what, does) ==
    LET told == IF cb # NULLfn /\ a.cmds[cb] = "get"
                THEN [a EXCEPT !.got[cb] = Append(@, what)] ELSE a
    IN  IF cb = NULLfn THEN a
        ELSE CASE does = "nothing" -> told
               [] does = "get" -> __redisAsyncCommand(told, Get)
               [] does = "disconnect" -> [told EXCEPT !.flags = @ \cup {"DISCONNECTING"}]
               [] does = "free" -> [told EXCEPT !.flags = @ \cup {"FREEING"}]

(* The callbacks are run with a NULL reply, one after the other, and any   *)
(* of them may try to send a command.                                      *)
RunAll(a, waiting) ==
    LET told[k \in 0..Len(waiting)] ==
            IF k = 0 THEN a ELSE __redisRunCallback(told[k - 1], waiting[k], "null", "get")
    IN  told[Len(waiting)]

Freed(a) == [a EXCEPT !.live = FALSE, !.replies = <<>>, !.invalid = <<>>]

(* Mutant: only the replies' callbacks are run. *)
__redisAsyncFree_Replies(a) == Freed(RunAll(a, a.replies))

(* Every callback that is still waiting is run. *)
__redisAsyncFree(a) ==
    Freed(RunAll(a, a.replies \o a.invalid \o SetToSeq({a.subs[n].cb : n \in DOMAIN a.subs})))

redisAsyncFree(a) == __redisAsyncFree([a EXCEPT !.flags = @ \cup {"FREEING"}])

__redisAsyncDisconnect(a) ==
    __redisAsyncFree(IF a.err THEN [a EXCEPT !.flags = @ \cup {"DISCONNECTING"}] ELSE a)

redisAsyncDisconnect(a) ==
    LET b == [a EXCEPT !.flags = @ \cup {"DISCONNECTING"}]
    IN  IF b.replies = <<>> THEN __redisAsyncDisconnect(b) ELSE b

-----------------------------------------------------------------------------
(* Replies *)

Leaving(n) ==
    \E i \in 1..Len(ac.obuf \o net.toServer) :
        LET c == (ac.obuf \o net.toServer)[i]
        IN  c.kind = "unsubscribe" /\ n \in ToSet(c.names)
LeavingReply(n) ==
    \E i \in 1..Len(ac.inbuf \o net.toClient) :
        LET r == (ac.inbuf \o net.toClient)[i] IN r.kind = "unsubscribe" /\ r.name = n
Left(n) == ~Leaving(n) /\ ~LeavingReply(n)

(* The callback of a pub/sub reply, put into a.cb (left alone when the     *)
(* name is unknown), with what the reply does to the subscriptions.        *)
__redisGetSubscribeCallback(a, reply) ==
    LET name  == reply.name
        known == [a EXCEPT !.cb = a.subs[name].cb,
                           !.subs[name].pending =
                               IF reply.kind = "subscribe" THEN @ - 1 ELSE @]
        kept  == IF a.subs[name].pending # 0 THEN a.subs
                 ELSE [n \in DOMAIN a.subs \ {name} |-> a.subs[n]]
    IN  IF ~reply.array
        THEN IF a.invalid = <<>> THEN a
             ELSE [a EXCEPT !.cb = Head(a.invalid), !.invalid = Tail(@)]
        ELSE IF name \notin DOMAIN a.subs THEN a
        ELSE IF reply.kind # "unsubscribe" THEN known
        ELSE [known EXCEPT !.subs = kept,
                  !.flags = IF reply.count = 0 /\ kept = <<>> THEN @ \ {"SUBSCRIBED"} ELSE @]

(* What the callback cb makes of a reply. *)
What(cb, reply) == IF reply.id \in {0, cb} THEN reply.kind ELSE "other"

Process(a) == IF a.live THEN pc' = "process" ELSE pc' = "loop"

(* redisGetReply has no reply: the cue to really disconnect, or the next   *)
(* tick of the loop.  A monitoring client's callback is pushed again.      *)
NoMoreReplies ==
    /\ pc = "process" /\ ac.inbuf = <<>>
    /\ IF "DISCONNECTING" \in ac.flags /\ ac.obuf = <<>> /\ ac.replies = <<>>
       THEN ac' = __redisAsyncDisconnect(ac)
       ELSE ac' = [ac EXCEPT !.replies = IF "MONITORING" \in ac.flags THEN Append(@, ac.cb) ELSE @]
    /\ pc' = "loop"
    /\ UNCHANGED net

(* The application's rule about ordinary commands. *)
MayGet == \A n \in Names : Left(n)

(* One turn of the loop of redisProcessCallbacks.  An error that no command *)
(* in replies waits for is taken for the server's refusal and ends the     *)
(* context, the error sent to an ordinary command of a subscribed client   *)
(* (which waits in invalid) like any other.                                *)
ProcessReply(does) ==
    LET reply == Head(ac.inbuf)
        taken == [ac EXCEPT !.inbuf = Tail(@)]
        found == IF ac.replies # <<>>
                 THEN [taken EXCEPT !.cb = Head(ac.replies), !.replies = Tail(@)]
                 ELSE IF "SUBSCRIBED" \in ac.flags THEN __redisGetSubscribeCallback(taken, reply)
                 ELSE taken
        run == __redisRunCallback(found, found.cb, What(found.cb, reply), does)
    IN  /\ pc = "process" /\ ac.inbuf # <<>>
        /\ does = "get" => MayGet /\ "MONITORING" \notin ac.flags
        /\ IF ac.replies = <<>> /\ reply.kind = "error"
           THEN ac' = __redisAsyncDisconnect([taken EXCEPT !.err = TRUE])
           ELSE IF found.cb # NULLfn /\ "FREEING" \in run.flags THEN ac' = __redisAsyncFree(run)
           ELSE ac' = run
        /\ Process(ac')
        /\ UNCHANGED net

-----------------------------------------------------------------------------
(* Events *)

EventLoop == pc = "loop" /\ ac.live

(* __redisAsyncHandleConnect at the first event: refused, still in         *)
(* progress (nothing changes) or connected.                                *)
ConnectFails ==
    /\ EventLoop /\ "CONNECTED" \notin ac.flags
    /\ ac' = __redisAsyncDisconnect([ac EXCEPT !.err = TRUE])
    /\ UNCHANGED <<net, pc>>

Connected(a) == [a EXCEPT !.flags = @ \cup {"CONNECTED"}]

redisAsyncHandleWrite(n) ==
    /\ EventLoop /\ n <= Len(ac.obuf)
    /\ "CONNECTED" \in ac.flags => n > 0
    /\ ac' = [Connected(ac) EXCEPT !.obuf = SubSeq(@, n + 1, Len(@))]
    /\ net' = [net EXCEPT !.toServer = IF net.closed THEN @ ELSE @ \o SubSeq(ac.obuf, 1, n)]
    /\ UNCHANGED pc

(* n whole replies have come; 0: only a part of one (bound: once for each  *)
(* reply).                                                                 *)
redisAsyncHandleRead(n) ==
    /\ EventLoop /\ net.toClient # <<>> /\ n <= Len(net.toClient)
    /\ n = 0 => ~net.part
    /\ ac' = [Connected(ac) EXCEPT !.inbuf = SubSeq(net.toClient, 1, n), !.cb = NULLfn]
    /\ net' = [net EXCEPT !.toClient = SubSeq(@, n + 1, Len(@)), !.part = (n = 0)]
    /\ pc' = "process"

(* A read or a write fails: the connection was closed. *)
ConnectionLost ==
    /\ EventLoop /\ net.closed
    /\ ac' = __redisAsyncDisconnect([Connected(ac) EXCEPT !.err = TRUE])
    /\ UNCHANGED <<net, pc>>

(* The application, from the event loop. *)
MaySubscribe(names) ==
    Len(names) > 1 => \A n \in ToSet(names) \cap DOMAIN ac.subs : ac.subs[n].pending = 0
MayUnsubscribe(n) == n \in DOMAIN ac.subs /\ Left(n)

Issue(c) ==
    /\ EventLoop /\ Accepts(ac, c)
    /\ "MONITORING" \notin ac.flags
    /\ ac' = __redisAsyncCommand(ac, c)
    /\ UNCHANGED <<net, pc>>

IssueGet == MayGet /\ Issue(Get)
IssueSubscribe(names) == MaySubscribe(names) /\ Issue(Cmd("subscribe", names))
IssueUnsubscribe(n) == MayUnsubscribe(n) /\ Issue(Cmd("unsubscribe", <<n>>))
IssueMonitor == ac.cmds = <<>> /\ Issue(Cmd("monitor", <<>>))

Disconnect == EventLoop /\ ac' = redisAsyncDisconnect(ac) /\ UNCHANGED <<net, pc>>
Free       == EventLoop /\ ac' = redisAsyncFree(ac) /\ UNCHANGED <<net, pc>>

-----------------------------------------------------------------------------
(* The server: commands in order, one answer for each name; an ordinary    *)
(* command of a subscribed client is answered with an error.               *)
Reply(kind, id, name, count) ==
    [kind |-> kind, id |-> id, name |-> name, count |-> count, array |-> name # ""]

Answer(c) ==
    LET set(k) == IF c.kind = "subscribe" THEN net.names \cup ToSet(SubSeq(c.names, 1, k))
                                          ELSE net.names \ ToSet(SubSeq(c.names, 1, k))
    IN  IF c.kind \in {"subscribe", "unsubscribe"}
        THEN [k \in 1..Len(c.names) |-> Reply(c.kind, 0, c.names[k], Cardinality(set(k)))]
        ELSE <<Reply(IF net.names = {} THEN "own" ELSE "error", c.id, "", 0)>>

ServerAnswers ==
    /\ ~net.closed /\ net.toServer # <<>>
    /\ LET c == Head(net.toServer)
       IN  net' = [net EXCEPT
                     !.toServer = Tail(@), !.toClient = @ \o Answer(c),
                     !.names = CASE c.kind = "subscribe" -> @ \cup ToSet(c.names)
                                 [] c.kind = "unsubscribe" -> @ \ ToSet(c.names)
                                 [] OTHER -> @]
    /\ UNCHANGED <<ac, pc>>

ServerPublishes(n) ==
    /\ ~net.closed /\ n \in net.names /\ net.messages < MaxMessages
    /\ net' = [net EXCEPT !.toClient = Append(@, Reply("message", 0, n, 0)),
                          !.messages = @ + 1]
    /\ UNCHANGED <<ac, pc>>

(* The server has too many clients, or just goes away. *)
ServerCloses(says) ==
    /\ ~net.closed
    /\ says # <<>> => net.toServer = <<>> /\ net.toClient = <<>> /\ ac.cmds = <<>>
    /\ net' = [net EXCEPT !.closed = TRUE, !.toServer = <<>>, !.toClient = @ \o says]
    /\ UNCHANGED <<ac, pc>>

-----------------------------------------------------------------------------
NameLists == {<<n>> : n \in Names} \cup {s \in Names \X Names : s[1] # s[2]}

AsyncNext ==
    \/ NoMoreReplies
    \/ \E does \in CallbackDoes : ProcessReply(does)
    \/ ConnectFails
    \/ \E n \in 0..MaxCommands : redisAsyncHandleWrite(n)
    \/ \E n \in 0..Len(net.toClient) : redisAsyncHandleRead(n)
    \/ ConnectionLost
    \/ IssueGet
    \/ \E names \in NameLists : IssueSubscribe(names)
    \/ \E n \in Names : IssueUnsubscribe(n)
    \/ IssueMonitor
    \/ Disconnect
    \/ Free
    \/ ServerAnswers
    \/ \E n \in Names : ServerPublishes(n)
    \/ \E says \in {<<>>, <<Reply("error", 0, "", 0)>>} : ServerCloses(says)

AsyncSpec == AsyncInit /\ [][AsyncNext]_asyncVars

-----------------------------------------------------------------------------
(* No callback of an ordinary command is left out when the context is      *)
(* gone, whoever freed it and whether in a callback or not.                *)
NoneLeftOut ==
    ~ac.live => \A id \in 1..Len(ac.cmds) : ac.cmds[id] = "get" => ac.got[id] # <<>>

(* It runs once: with the answer to that command and no other, with the    *)
(* server's refusal of the connection, or with NULL when the context goes  *)
(* before it (as it does at an error sent in subscribed mode); and none is *)
(* left out.                                                               *)
CallbackOnce ==
    /\ \A id \in 1..Len(ac.cmds) : ac.cmds[id] = "get" =>
           ac.got[id] \in {<<>>, <<"own">>, <<"error">>, <<"null">>}
    /\ NoneLeftOut

(* The assertion of redisProcessCallbacks: a reply nobody waits for comes  *)
(* only in subscribed or monitoring mode, or is the server's refusal.      *)
ReplyIsExpected ==
    pc = "process" /\ ac.inbuf # <<>> /\ ac.replies = <<>> =>
        \/ ac.flags \cap {"SUBSCRIBED", "MONITORING"} # {}
        \/ Head(ac.inbuf).kind = "error"

(* When nothing is on its way, the context and the server agree: on what   *)
(* is subscribed, on whether the connection is in subscribed mode (which   *)
(* decides to which list the next command goes), and that nothing is       *)
(* waited for.  And on the way, a reply that comes was asked for.          *)
QuietAgrees ==
    /\ EventLoop /\ ~net.closed /\ ac.obuf \o net.toServer \o net.toClient = <<>> =>
           /\ DOMAIN ac.subs = net.names
           /\ \A n \in net.names : ac.subs[n].pending = 0
           /\ "SUBSCRIBED" \in ac.flags <=> net.names # {}
           /\ ac.invalid = <<>>
           /\ "MONITORING" \notin ac.flags => ac.replies = <<>>
    /\ ReplyIsExpected
=================================================================================
