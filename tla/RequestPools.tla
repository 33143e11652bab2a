----------------------------- MODULE RequestPools -----------------------------
(***************************************************************************)
(* How the request handlers share the connection pools.  A thread that     *)
(* runs a task calls one Api function; each function it calls that uses    *)
(* MySQL or Redis takes its connections on entry (GetDBConn, GetCacheConn, *)
(* both wait without a timeout) and gives them back on every way out, the  *)
(* last one first (AutoRelDBCon, AutoRelCacheCon).                         *)
(*                                                                         *)
(* A pool is what ConnPool implements: at most Limit connections, each     *)
(* with one thread at a time, and a thread waits while all are taken.      *)
(***************************************************************************)
EXTENDS Naturals, Sequences, FiniteSets

CONSTANTS
    Workers,      \* threads that run tasks
    Limit,        \* pool -> maxconncnt
    Apis,         \* the Api functions of this instance
    MaxTasks      \* bound: tasks in a behaviour

Pools == {"master", "slave", "token"}

ApiNames == {"login", "reg", "md5", "upload", "dealfile", "dealsharefile",
             "myfiles", "sharefiles", "sharepic"}

ASSUME PoolsAssumption ==
    /\ IsFiniteSet(Workers)
    /\ Limit \in [Pools -> Nat \ {0}]
    /\ Apis \subseteq ApiNames
    /\ MaxTasks \in Nat

-----------------------------------------------------------------------------
(* The connections each function takes, in the order it takes them. *)

(* Mutant: the Redis connection first. *)
TokenFirst                 == <<"token", "slave">>

VerifyToken                == <<"token">>
setToken                   == <<"token">>
verifyUserPassword         == <<"slave">>
registerUser               == <<"master">>
handleDealMd5              == <<"master">>
UploadScope                == <<"master">>           \* ApiUpload itself
handleShareFile            == <<"slave", "token">>
handleDeleteFile           == <<"slave", "token">>
DealfilePv                 == <<"slave">>            \* handlePvFile, api_dealfile.cc
handlePvFile               == <<"slave", "token">>   \* api_deal_sharefile.cc
handleCancelShareFile      == <<"slave", "token">>
handleSaveFile             == <<"slave", "token">>
handleUserFilesCount       == <<"slave", "token">>
getUserFileList            == <<"slave", "token">>
handleGetSharefilesCount   == <<"slave", "token">>
handleGetRankingFilelist   == <<"token">>
handleGetShareFilelist     == <<"slave", "token">>
handleSharePicture         == <<"master">>
handleBrowsePicture        == <<"slave">>
handleGetSharePicturesList == <<"slave">>
handleCancelSharePicture   == <<"master">>

(* The functions an Api function may call, one after the other: <<>> when  *)
(* the body does not parse or the command is unknown, shorter ones when a  *)
(* check fails.                                                            *)
ApiUserLogin == {<<>>, <<verifyUserPassword>>, <<verifyUserPassword, setToken>>}

ApiRegisterUser == {<<>>, <<registerUser>>}

ApiMd5 == {<<>>, <<VerifyToken>>, <<VerifyToken, handleDealMd5>>}

ApiUpload == {<<UploadScope>>}

ApiDealfile == {<<>>, <<VerifyToken>>, <<VerifyToken, handleDeleteFile>>,
                <<DealfilePv>>, <<handleShareFile>>}

ApiDealsharefile == {<<>>, <<handleCancelShareFile>>, <<handleSaveFile>>,
                     <<handlePvFile>>}

ApiMyfiles == {<<>>, <<VerifyToken>>, <<VerifyToken, handleUserFilesCount>>,
               <<VerifyToken, getUserFileList>>}

ApiSharefile == {<<>>, <<handleGetSharefilesCount>>, <<handleGetShareFilelist>>,
                 <<handleGetRankingFilelist>>}

ApiSharePicture == {<<>>, <<VerifyToken>>, <<VerifyToken, handleSharePicture>>,
                    <<handleBrowsePicture>>, <<VerifyToken, handleGetSharePicturesList>>,
                    <<handleCancelSharePicture>>}

Calls(api) ==
    CASE api = "login"         -> ApiUserLogin
      [] api = "reg"           -> ApiRegisterUser
      [] api = "md5"           -> ApiMd5
      [] api = "upload"        -> ApiUpload
      [] api = "dealfile"      -> ApiDealfile
      [] api = "dealsharefile" -> ApiDealsharefile
      [] api = "myfiles"       -> ApiMyfiles
      [] api = "sharefiles"    -> ApiSharefile
      [] api = "sharepic"      -> ApiSharePicture

-----------------------------------------------------------------------------
VARIABLES
    calls,     \* thread -> functions its task has still to run, the first is
               \*           the one it is in
    taken,     \* thread -> connections it has, in the order it took them
    leaving,   \* thread -> it is on its way out of the function
    started    \* tasks so far

handlerVars == <<calls, taken, leaving, started>>

Idle(t)     == calls[t] = <<>>
Function(t) == Head(calls[t])
Has(t, p)   == \E i \in 1..Len(taken[t]) : taken[t][i] = p
Users(p)    == {t \in Workers : Has(t, p)}

(* The thread is about to take, or waits for, a connection of pool p. *)
Wants(t, p) ==
    /\ ~Idle(t) /\ ~leaving[t]
    /\ Len(taken[t]) < Len(Function(t))
    /\ Function(t)[Len(taken[t]) + 1] = p

HandlersInit ==
    /\ calls = [t \in Workers |-> <<>>]
    /\ taken = [t \in Workers |-> <<>>]
    /\ leaving = [t \in Workers |-> FALSE]
    /\ started = 0

(* A thread of the pool takes a task that OnRead queued. *)
Dispatch(t) ==
    /\ Idle(t)
    /\ started < MaxTasks
    /\ started' = started + 1
    /\ \E api \in Apis : \E c \in Calls(api) : calls' = [calls EXCEPT ![t] = c]
    /\ UNCHANGED <<taken, leaving>>

(* Mutant: one user too many. *)
Get_Over(t, p) ==
    /\ Wants(t, p)
    /\ Cardinality(Users(p)) <= Limit[p]
    /\ taken' = [taken EXCEPT ![t] = Append(@, p)]
    /\ UNCHANGED <<calls, leaving, started>>

(* GetDBConn or GetCacheConn returns a connection. *)
Get(t, p) ==
    /\ Wants(t, p)
    /\ Cardinality(Users(p)) < Limit[p]
    /\ taken' = [taken EXCEPT ![t] = Append(@, p)]
    /\ UNCHANGED <<calls, leaving, started>>

(* The function has run its statements, to the end or to an early return. *)
Body(t) ==
    /\ ~Idle(t) /\ ~leaving[t]
    /\ Len(taken[t]) = Len(Function(t))
    /\ leaving' = [leaving EXCEPT ![t] = TRUE]
    /\ UNCHANGED <<calls, taken, started>>

(* The destructor of an AutoRel object returns the last connection taken. *)
Release(t) ==
    /\ leaving[t] /\ taken[t] # <<>>
    /\ taken' = [taken EXCEPT ![t] = SubSeq(@, 1, Len(@) - 1)]
    /\ UNCHANGED <<calls, leaving, started>>

(* The function returns; the Api function calls the next one or answers. *)
Return(t) ==
    /\ leaving[t] /\ taken[t] = <<>>
    /\ leaving' = [leaving EXCEPT ![t] = FALSE]
    /\ calls' = [calls EXCEPT ![t] = Tail(@)]
    /\ UNCHANGED <<taken, started>>

Run(t) == (\E p \in Pools : Get(t, p)) \/ Body(t) \/ Release(t) \/ Return(t)

HandlersNext == \E t \in Workers : Dispatch(t) \/ Run(t)

HandlersSpec == HandlersInit /\ [][HandlersNext]_handlerVars

(* A thread goes on with its task when it has what it waits for. *)
HandlersFairSpec == HandlersSpec /\ \A t \in Workers : WF_handlerVars(Run(t))

-----------------------------------------------------------------------------
(* A pool never has more users than connections. *)
HandlersTyped ==
    /\ calls \in [Workers -> Seq(Seq(Pools))]
    /\ taken \in [Workers -> Seq(Pools)]
    /\ leaving \in [Workers -> BOOLEAN]
    /\ started \in Nat
    /\ \A p \in Pools : Cardinality(Users(p)) \in 0..Limit[p]

(* A thread that can take a step by itself: it does not wait for a         *)
(* connection that other threads have.                                     *)
CanRun(t) ==
    /\ ~Idle(t)
    /\ \A p \in Pools : Wants(t, p) => Cardinality(Users(p)) < Limit[p]

(* The handlers never wait for each other in a circle, however small the   *)
(* pools are: while a request is being handled, some thread can go on.     *)
NeverStuck == (\E t \in Workers : ~Idle(t)) => \E t \in Workers : CanRun(t)

(* Every request is answered, whatever others run beside it. *)
RequestsEnd == \A t \in Workers : ~Idle(t) ~> Idle(t)
===============================================================================
