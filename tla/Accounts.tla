------------------------------- MODULE Accounts -------------------------------
(***************************************************************************)
(* Accounts, tokens and view counts: registerUser (api_register.cc),       *)
(* ApiUserLogin with verifyUserPassword and setToken (api_login.cc),       *)
(* VerifyToken (tc_common.cc), ApiSharePicture (api_sharepicture.cc) and   *)
(* handlePvFile (api_dealfile.cc), run by the threads of the pool.  One    *)
(* action is one SQL statement or one Redis command.                       *)
(*                                                                         *)
(* An item is a shared picture or a file of a list: what has a count pv.   *)
(* share_picture_list has the column share_id the code names; the second   *)
(* CREATE TABLE in db.sql:41 calls it urlmd5.  A request carries a token   *)
(* some login was given, never an empty one.                               *)
(***************************************************************************)
EXTENDS Integers, FiniteSets

CONSTANTS
    Workers,      \* threads of the pool
    Names,        \* user names
    Nicks,        \* nick names
    Passwords,
    Pictures,     \* share ids, each the uuid of one share
    Files,        \* rows of user_file_list
    FaultKinds,   \* calls that may fail: query, prepare, update, redis, pool, crash
    MaxFaults,    \* bound: failures in a behaviour
    MaxRequests   \* bound: requests in a behaviour

(* The mark of a picture nobody shares is no user; a share id, a uuid, is  *)
(* not the id of a row of user_file_list.                                  *)
ASSUME AccountsAssumption ==
    /\ "nobody" \notin Names
    /\ Pictures \cap Files = {}

VARIABLES
    user_info,    \* rows [user_name, nick_name, password]
    tokens,       \* Redis: user name -> the token in force, or NoToken
    last_token,   \* tokens RandomString has made since the process started
    owner,        \* picture -> who shares it, or NoOne
    pv,           \* item -> its count, or Gone
    url,          \* the content's file_info row is there
    job,          \* worker -> the request it runs
    welcomed,     \* history: <<request, name, nick, password>> registered
    given,        \* history: <<name, password, token>> of the logins answered 0
    views,        \* history: item -> views answered HTTP_RESP_OK
    faults, requests

tables  == <<user_info, tokens, last_token, owner, pv, url>>
history == <<welcomed, given, views>>
counts  == <<faults, requests>>
vars    == <<tables, job, history, counts>>

Items   == Pictures \cup Files
NoToken == 0
NoOne   == "nobody"
Gone    == -1
Idle    == [pc |-> "idle"]

Init ==
    /\ user_info = {} /\ tokens = [u \in Names |-> NoToken] /\ last_token = 0
    /\ owner = [i \in Pictures |-> NoOne]
    /\ pv = [i \in Items |-> IF i \in Files THEN 0 ELSE Gone]
    /\ url = TRUE
    /\ job = [w \in Workers |-> Idle]
    /\ welcomed = {} /\ given = {} /\ views = [i \in Items |-> 0]
    /\ faults = 0 /\ requests = 0

-----------------------------------------------------------------------------
At(w, p)   == job[w].pc = p
Move(w, j) == job' = [job EXCEPT ![w] = j]
Goto(w, p) == Move(w, [job[w] EXCEPT !.pc = p])
Finish(w)  == Move(w, Idle)

Fault(kind) ==
    /\ kind \in FaultKinds
    /\ faults < MaxFaults
    /\ faults' = faults + 1
Works == UNCHANGED faults

(* The environment: a token's 24 hours are over; the content is deleted; a *)
(* file leaves its user's list; the process is restarted, and RandomString *)
(* begins with the same token again (rand() is never seeded).              *)
TokenExpires ==
    /\ \E u \in Names : tokens[u] # NoToken /\ tokens' = [tokens EXCEPT ![u] = NoToken]
    /\ UNCHANGED <<user_info, last_token, owner, pv, url, job, history, counts>>

ContentDeleted ==
    /\ url /\ url' = FALSE
    /\ pv' = [i \in Items |-> IF i \in Files THEN Gone ELSE pv[i]]
    /\ UNCHANGED <<user_info, tokens, last_token, owner, job, history, counts>>

Restart ==
    /\ Fault("crash")
    /\ job' = [w \in Workers |-> Idle]
    /\ last_token' = 0
    /\ UNCHANGED <<user_info, tokens, owner, pv, url, history, requests>>

-----------------------------------------------------------------------------
(* registerUser *)

Known(w) == \E r \in user_info : r.user_name = job[w].u

(* select ... where user_name: a failed query is taken for a "no". *)
RegisterLook(w) ==
    /\ At(w, "reg_look")
    /\ \/ Works /\ Known(w) /\ Finish(w)                   \* answers 2
       \/ Works /\ ~Known(w) /\ Goto(w, "reg_insert")
       \/ Fault("query") /\ Goto(w, "reg_insert")
    /\ UNCHANGED <<tables, history, requests>>

Account(w) == [user_name |-> job[w].u, nick_name |-> job[w].nick, password |-> job[w].pwd]

(* uq_user_name and uq_nick_name *)
Duplicate(a) ==
    \E r \in user_info : r.user_name = a.user_name \/ r.nick_name = a.nick_name

Welcome(w) == welcomed' = welcomed \cup {<<job[w].no, Account(w)>>}

(* Mutant: "replace into" instead of "insert into". *)
RegisterInsert_Replace(w) ==
    /\ At(w, "reg_insert")
    /\ Works
    /\ user_info' = {r \in user_info : r.user_name # job[w].u} \cup {Account(w)}
    /\ Welcome(w)
    /\ Finish(w)
    /\ UNCHANGED <<tokens, last_token, owner, pv, url, given, views, requests>>
(* The prepared insert.  A statement that cannot be prepared leaves ret at *)
(* 0, and the answer says the account was made.                            *)
RegisterInsert(w) ==
    /\ At(w, "reg_insert")
    /\ \/ /\ Works
          /\ ~Duplicate(Account(w))
          /\ user_info' = user_info \cup {Account(w)}
          /\ Welcome(w)
       \/ /\ \/ Works /\ Duplicate(Account(w))           \* answers 1
             \/ Fault("update")                          \* answers 1
             \/ Fault("prepare")                         \* answers 0
          /\ UNCHANGED <<user_info, welcomed>>
    /\ Finish(w)
    /\ UNCHANGED <<tokens, last_token, owner, pv, url, given, views, requests>>

-----------------------------------------------------------------------------
(* ApiUserLogin *)

verifyUserPassword(w) ==
    /\ At(w, "verify")
    /\ \/ /\ Works
          /\ IF \E r \in user_info : r.user_name = job[w].u /\ r.password = job[w].pwd
             THEN Goto(w, "set_token") ELSE Finish(w)    \* answers 1
       \/ Fault("query") /\ Finish(w)
    /\ UNCHANGED <<tables, history, requests>>

(* SetEx's result is not looked at: the login is answered 0 in any case,   *)
(* unless the pool has no connection to give.                              *)
setToken(w) ==
    /\ At(w, "set_token")
    /\ \/ /\ Fault("pool")
          /\ UNCHANGED <<tokens, last_token, given>>
       \/ /\ last_token' = last_token + 1
          /\ given' = given \cup {<<job[w].u, job[w].pwd, last_token'>>}
          /\ \/ Works /\ tokens' = [tokens EXCEPT ![job[w].u] = last_token']
             \/ Fault("redis") /\ UNCHANGED tokens
    /\ Finish(w)
    /\ UNCHANGED <<user_info, owner, pv, url, welcomed, views, requests>>

(* A command that fails gives the empty string, which is no token. *)
VerifyToken(w) ==
    /\ At(w, "token")
    /\ \/ Works /\ tokens[job[w].u] = job[w].t /\ Goto(w, "share")
       \/ (Works /\ tokens[job[w].u] # job[w].t) /\ Finish(w)
       \/ (Fault("redis") \/ Fault("pool")) /\ Finish(w)
    /\ UNCHANGED <<tables, history, requests>>

-----------------------------------------------------------------------------
(* ApiSharePicture *)

(* A picture's id is a new uuid. *)
handleSharePicture(w) ==
    /\ At(w, "share")
    /\ \/ Works /\ \E i \in Pictures :
             /\ owner[i] = NoOne
             /\ owner' = [owner EXCEPT ![i] = job[w].u]
             /\ pv' = [pv EXCEPT ![i] = 0]
       \/ Fault("update") /\ UNCHANGED <<owner, pv>>
    /\ Finish(w)
    /\ UNCHANGED <<user_info, tokens, last_token, url, history, requests>>

(* Deletes the row of this user and id, if there is one: the answer is     *)
(* HTTP_RESP_OK either way.  The token is not looked at.                   *)
handleCancelSharePicture(w) ==
    /\ At(w, "cancel")
    /\ LET i == job[w].i
       IN  \/ Works /\ pv' = [pv EXCEPT ![i] = IF owner[i] = job[w].u THEN Gone ELSE @]
           \/ Fault("update") /\ UNCHANGED pv
    /\ Finish(w)
    /\ UNCHANGED <<user_info, tokens, last_token, owner, url, history, requests>>

(* handleBrowsePicture and handlePvFile: read pv, (look up the url,)       *)
(* write pv + 1.                                                           *)
PvLook(w) ==
    /\ At(w, "pv_look")
    /\ LET i == job[w].i
       IN  \/ /\ Works /\ pv[i] # Gone
              /\ Move(w, [job[w] EXCEPT !.pv = pv[i],
                             !.pc = IF i \in Pictures THEN "pv_url" ELSE "pv_write"])
           \/ ((Works /\ pv[i] = Gone) \/ Fault("query")) /\ Finish(w)
    /\ UNCHANGED <<tables, history, requests>>

PvUrl(w) ==
    /\ At(w, "pv_url")
    /\ \/ Works /\ url /\ Goto(w, "pv_write")
       \/ ((Works /\ ~url) \/ Fault("query")) /\ Finish(w)
    /\ UNCHANGED <<tables, history, requests>>

(* Mutant: the count is read again, and added to, when it is written late. *)
PvWrite_Retry(w) ==
    /\ At(w, "pv_write")
    /\ Works
    /\ LET i == job[w].i
       IN  IF pv[i] = Gone THEN UNCHANGED <<pv, views>>
           ELSE /\ pv' = [pv EXCEPT ![i] = IF @ = job[w].pv THEN @ + 1 ELSE @ + 2]
                /\ views' = [views EXCEPT ![i] = @ + 1]
    /\ Finish(w)
    /\ UNCHANGED <<user_info, tokens, last_token, owner, url, welcomed, given, requests>>
(* ExecuteUpdate fails when no row changed: the row is gone, or another    *)
(* view that had read the same count wrote first.                          *)
PvWrite(w) ==
    /\ At(w, "pv_write")
    /\ LET i == job[w].i  new == job[w].pv + 1
       IN  \/ /\ Works /\ pv[i] \notin {Gone, new}
              /\ pv' = [pv EXCEPT ![i] = new]
              /\ views' = [views EXCEPT ![i] = @ + 1]
           \/ /\ (Works /\ pv[i] \in {Gone, new}) \/ Fault("update")
              /\ UNCHANGED <<pv, views>>
    /\ Finish(w)
    /\ UNCHANGED <<user_info, tokens, last_token, owner, url, welcomed, given, requests>>

-----------------------------------------------------------------------------
Request(w, j) ==
    /\ At(w, "idle")
    /\ requests < MaxRequests
    /\ requests' = requests + 1
    /\ Move(w, j)
    /\ UNCHANGED <<tables, history, faults>>

Register(w) ==
    \E u \in Names, n \in Nicks, p \in Passwords :
        Request(w, [pc |-> "reg_look", u |-> u, nick |-> n, pwd |-> p, no |-> requests])
Login(w) ==
    \E u \in Names, p \in Passwords : Request(w, [pc |-> "verify", u |-> u, pwd |-> p])
Share(w) ==
    \E g \in given : Request(w, [pc |-> "token", u |-> g[1], t |-> g[3]])
Cancel(w) ==
    \E u \in Names, i \in Pictures : Request(w, [pc |-> "cancel", u |-> u, i |-> i])
View(w) ==
    \E i \in Items : Request(w, [pc |-> "pv_look", i |-> i, pv |-> 0])

Next ==
    \/ TokenExpires \/ ContentDeleted \/ Restart
    \/ \E w \in Workers :
          \/ Register(w) \/ Login(w) \/ Share(w) \/ Cancel(w) \/ View(w)
          \/ RegisterLook(w) \/ RegisterInsert(w)
          \/ verifyUserPassword(w) \/ setToken(w) \/ VerifyToken(w)
          \/ handleSharePicture(w) \/ handleCancelSharePicture(w)
          \/ PvLook(w) \/ PvUrl(w) \/ PvWrite(w)

Spec == Init /\ [][Next]_vars

-----------------------------------------------------------------------------
(* Two registrations of one name that overlap both find it free: the       *)
(* account is the first one's and stays as it was registered, every other  *)
(* one is refused; and a token in force was given to a login with that     *)
(* account's password, across expiry, failures and a restart.              *)
AccountsHold ==
    /\ \A a, b \in welcomed :
          a # b => a[2].user_name # b[2].user_name /\ a[2].nick_name # b[2].nick_name
    /\ {a[2] : a \in welcomed} = user_info
    /\ \A u \in Names : tokens[u] # NoToken =>
          \E g \in given, r \in user_info :
              /\ g[1] = u /\ g[3] = tokens[u]
              /\ r.user_name = u /\ r.password = g[2]

(* Views of one item at the same time may lose counts, never add any, and  *)
(* what was seen once is never shown as unseen.                            *)
ViewsCounted ==
    \A i \in Items : pv[i] # Gone =>
        /\ pv[i] <= views[i]
        /\ views[i] > 0 => pv[i] > 0
================================================================================
