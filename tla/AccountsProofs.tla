---------------------------- MODULE AccountsProofs ----------------------------
(***************************************************************************)
(* Proofs about Accounts, for every number of threads, users, pictures,    *)
(* files, requests and failures.                                           *)
(*                                                                         *)
(* AccountsHold lacks one thing to be inductive: between the check of the  *)
(* password and setToken, the account that was found is still there        *)
(* (TokenIsDue).  ViewsCounted lacks what a view carries from its look-up  *)
(* to its update (ReadCounts), and that a share id which nobody has used   *)
(* has not been viewed (FreshPictures).                                    *)
(***************************************************************************)
EXTENDS Accounts, TLAPS

Accts == [user_name : Names, nick_name : Nicks, password : Passwords]

RegisterJob == [pc : {"reg_look", "reg_insert"}, u : Names, nick : Nicks,
                pwd : Passwords, no : Nat]
LoginJob    == [pc : {"verify", "set_token"}, u : Names, pwd : Passwords]
ShareJob    == [pc : {"token", "share"}, u : Names, t : Nat]
CancelJob   == [pc : {"cancel"}, u : Names, i : Pictures]
ViewJob     == [pc : {"pv_look", "pv_url", "pv_write"}, i : Items, pv : Int]
Jobs        == {Idle} \cup RegisterJob \cup LoginJob \cup ShareJob
                   \cup CancelJob \cup ViewJob

Given == Names \X Passwords \X Nat

AccountTypes == /\ user_info \subseteq Accts
                /\ welcomed \subseteq Nat \X Accts
                /\ given \subseteq Given
                /\ tokens \in [Names -> Nat]
                /\ last_token \in Nat
                /\ requests \in Nat
ViewTypes    == /\ owner \in [Pictures -> Names \cup {NoOne}]
                /\ pv \in [Items -> Int]
                /\ views \in [Items -> Nat]
JobTypes     == job \in [Workers -> Jobs]

Types == AccountTypes /\ ViewTypes /\ JobTypes

(* A login whose password was right: its account is there. *)
HasAccount(u, p) == \E r \in user_info : r.user_name = u /\ r.password = p
TokenIsDue ==
    \A w \in Workers : At(w, "set_token") => HasAccount(job[w].u, job[w].pwd)

(* What a view has read is a count that was shown, not above the views.    *)
ReadCounts ==
    \A w \in Workers : At(w, "pv_url") \/ At(w, "pv_write") =>
        0 <= job[w].pv /\ job[w].pv <= views[job[w].i]

FreshPictures ==
    \A i \in Pictures : owner[i] = NoOne => pv[i] = Gone /\ views[i] = 0

CountsKnown == \A i \in Items : pv[i] = Gone \/ pv[i] >= 0

AccountInv == AccountsHold /\ TokenIsDue
ViewInv    == ViewsCounted /\ ReadCounts /\ FreshPictures /\ CountsKnown

IInv == Types /\ AccountInv /\ ViewInv

-------------------------------------------------------------------------------
(* Jobs *)

(* Which record a job is follows from where it stands. *)
LEMMA Shape ==
    ASSUME JobTypes, NEW w \in Workers
    PROVE  /\ job[w].pc \in {"reg_look", "reg_insert"} => job[w] \in RegisterJob
           /\ job[w].pc \in {"verify", "set_token"} => job[w] \in LoginJob
           /\ job[w].pc \in {"token", "share"} => job[w] \in ShareJob
           /\ job[w].pc = "cancel" => job[w] \in CancelJob
           /\ job[w].pc \in {"pv_look", "pv_url", "pv_write"} => job[w] \in ViewJob
BY DEF JobTypes, Jobs, Idle, RegisterJob, LoginJob, ShareJob, CancelJob, ViewJob

LEMMA MoveJob ==
    ASSUME JobTypes, NEW w \in Workers, NEW j \in Jobs, Move(w, j)
    PROVE  /\ JobTypes'
           /\ job'[w] = j
           /\ \A v \in Workers \ {w} : job'[v] = job[v]
BY DEF JobTypes, Move

LEMMA FinishJob ==
    ASSUME JobTypes, NEW w \in Workers, Finish(w)
    PROVE  /\ JobTypes'
           /\ job'[w].pc = "idle"
           /\ \A v \in Workers \ {w} : job'[v] = job[v]
<1>1. Idle \in Jobs /\ Idle.pc = "idle"
  BY DEF Jobs, Idle
<1> QED BY <1>1, MoveJob DEF Finish

(* The next statement of the same request. *)
LEMMA GotoJob ==
    ASSUME JobTypes, NEW w \in Workers, NEW p, Goto(w, p),
           \/ At(w, "reg_look") /\ p = "reg_insert"
           \/ At(w, "verify") /\ p = "set_token"
           \/ At(w, "token") /\ p = "share"
           \/ At(w, "pv_url") /\ p = "pv_write"
    PROVE  /\ JobTypes'
           /\ job'[w] = [job[w] EXCEPT !.pc = p]
           /\ job'[w].pc = p
           /\ \A v \in Workers \ {w} : job'[v] = job[v]
<1> DEFINE j == [job[w] EXCEPT !.pc = p]
<1>1. j \in Jobs /\ j.pc = p
  <2>1. CASE At(w, "reg_look") /\ p = "reg_insert"
    <3>1. job[w] \in RegisterJob
      BY <2>1, Shape DEF At
    <3>2. j \in RegisterJob /\ j.pc = p
      BY <2>1, <3>1 DEF RegisterJob
    <3> QED BY <3>2 DEF Jobs
  <2>2. CASE At(w, "verify") /\ p = "set_token"
    <3>1. job[w] \in LoginJob
      BY <2>2, Shape DEF At
    <3>2. j \in LoginJob /\ j.pc = p
      BY <2>2, <3>1 DEF LoginJob
    <3> QED BY <3>2 DEF Jobs
  <2>3. CASE At(w, "token") /\ p = "share"
    <3>1. job[w] \in ShareJob
      BY <2>3, Shape DEF At
    <3>2. j \in ShareJob /\ j.pc = p
      BY <2>3, <3>1 DEF ShareJob
    <3> QED BY <3>2 DEF Jobs
  <2>4. CASE At(w, "pv_url") /\ p = "pv_write"
    <3>1. job[w] \in ViewJob
      BY <2>4, Shape DEF At
    <3>2. j \in ViewJob /\ j.pc = p
      BY <2>4, <3>1 DEF ViewJob
    <3> QED BY <3>2 DEF Jobs
  <2> QED BY <2>1, <2>2, <2>3, <2>4
<1>2. Move(w, j)
  BY DEF Goto
<1> QED BY <1>1, <1>2, MoveJob

-------------------------------------------------------------------------------
(* Accounts and tokens *)

LEMMA InitInv == Init => IInv
<1> SUFFICES ASSUME Init PROVE IInv
  OBVIOUS
<1>1. AccountTypes /\ ViewTypes
  BY DEF Init, AccountTypes, ViewTypes, NoToken, Gone, Given
<1>2. JobTypes /\ \A w \in Workers : job[w].pc = "idle"
  BY DEF Init, JobTypes, Jobs, Idle
<1>3. AccountInv
  BY <1>2 DEF Init, AccountInv, AccountsHold, TokenIsDue, At, NoToken
<1>4. ViewInv
  BY <1>2, AccountsAssumption DEF Init, ViewInv, ViewsCounted, ReadCounts,
     FreshPictures, CountsKnown, At, Gone, Items
<1> QED BY <1>1, <1>2, <1>3, <1>4 DEF IInv, Types

(* A step that makes no account and gives no token, and does not begin to. *)
LEMMA SameAccounts ==
    ASSUME AccountTypes, AccountInv,
           UNCHANGED <<user_info, welcomed, given>>,
           tokens' \in [Names -> Nat], last_token' \in Nat, requests' \in Nat,
           \A u \in Names : tokens'[u] \in {tokens[u], NoToken},
           \A w \in Workers : job'[w].pc = "set_token" => job'[w] = job[w]
    PROVE  AccountTypes' /\ AccountInv'
<1>1. AccountTypes'
  BY DEF AccountTypes
<1>2. AccountsHold'
  <2>1. ASSUME NEW u \in Names, tokens'[u] # NoToken
        PROVE  \E g \in given, r \in user_info :
                  /\ g[1] = u /\ g[3] = tokens'[u]
                  /\ r.user_name = u /\ r.password = g[2]
    BY <2>1 DEF AccountInv, AccountsHold
  <2> QED BY <2>1 DEF AccountInv, AccountsHold
<1>3. TokenIsDue'
  BY DEF AccountInv, TokenIsDue, At, HasAccount
<1> QED BY <1>1, <1>2, <1>3 DEF AccountInv

(* The insert: the unique keys keep names and nicks apart. *)
LEMMA RegisterAccounts ==
    ASSUME AccountTypes, JobTypes, AccountInv, NEW w \in Workers, RegisterInsert(w)
    PROVE  AccountTypes' /\ AccountInv'
<1> DEFINE a == Account(w)
<1>1. job[w] \in RegisterJob
  BY Shape DEF RegisterInsert, At
<1>2. a \in Accts /\ job[w].no \in Nat
  BY <1>1 DEF Account, Accts, RegisterJob
<1>3. \A v \in Workers : job'[v].pc = "set_token" => job'[v] = job[v]
  BY FinishJob DEF RegisterInsert
<1>4. CASE /\ ~Duplicate(a)
           /\ user_info' = user_info \cup {a}
           /\ welcomed' = welcomed \cup {<<job[w].no, a>>}
  <2>0. UNCHANGED <<tokens, last_token, given, requests>>
    BY DEF RegisterInsert
  <2> HIDE DEF a
  <2>1. AccountTypes'
    BY <1>2, <1>4, <2>0 DEF AccountTypes
  <2>2. AccountsHold'
    <3>1. \A b \in welcomed : b[2] \in user_info
      BY DEF AccountInv, AccountsHold
    <3>2. \A b \in welcomed :
              b[2].user_name # a.user_name /\ b[2].nick_name # a.nick_name
      BY <1>4, <3>1 DEF Duplicate
    <3>3. <<job[w].no, a>>[2] = a
      OBVIOUS
    <3>4. ASSUME NEW b \in welcomed', NEW c \in welcomed', b # c
          PROVE  b[2].user_name # c[2].user_name /\ b[2].nick_name # c[2].nick_name
      <4>1. CASE b \in welcomed /\ c \in welcomed
        BY <3>4, <4>1 DEF AccountInv, AccountsHold
      <4>2. CASE b \in welcomed /\ c = <<job[w].no, a>>
        BY <3>2, <3>3, <4>2
      <4>3. CASE c \in welcomed /\ b = <<job[w].no, a>>
        BY <3>2, <3>3, <4>3
      <4> QED BY <1>4, <3>4, <4>1, <4>2, <4>3
    <3>5. {b[2] : b \in welcomed'} = user_info'
      <4>1. {b[2] : b \in welcomed} = user_info
        BY DEF AccountInv, AccountsHold
      <4> QED BY <1>4, <3>3, <4>1
    <3>6. ASSUME NEW u \in Names, tokens'[u] # NoToken
          PROVE  \E g \in given', r \in user_info' :
                    /\ g[1] = u /\ g[3] = tokens'[u]
                    /\ r.user_name = u /\ r.password = g[2]
      BY <1>4, <2>0, <3>6 DEF AccountInv, AccountsHold
    <3> QED BY <3>4, <3>5, <3>6 DEF AccountsHold
  <2>3. TokenIsDue'
    BY <1>3, <1>4 DEF AccountInv, TokenIsDue, HasAccount, At
  <2> QED BY <2>1, <2>2, <2>3 DEF AccountInv
<1>5. CASE UNCHANGED <<user_info, welcomed>>
  <2>1. UNCHANGED <<tokens, last_token, given, requests>>
    BY DEF RegisterInsert
  <2> QED BY <1>3, <1>5, <2>1, SameAccounts DEF AccountTypes
<1> QED BY <1>4, <1>5 DEF RegisterInsert, Welcome

(* The token that is stored goes with the login that checked the password. *)
LEMMA TokenAccounts ==
    ASSUME AccountTypes, JobTypes, AccountInv, NEW w \in Workers, setToken(w)
    PROVE  AccountTypes' /\ AccountInv'
<1> DEFINE u == job[w].u
<1> DEFINE p == job[w].pwd
<1>1. u \in Names /\ p \in Passwords
  <2>1. job[w] \in LoginJob
    BY Shape DEF setToken, At
  <2> QED BY <2>1 DEF LoginJob
<1>2. HasAccount(u, p)
  BY DEF setToken, AccountInv, TokenIsDue
<1>3. /\ \A v \in Workers : job'[v].pc = "set_token" => job'[v] = job[v]
      /\ UNCHANGED <<user_info, welcomed, requests>>
  BY FinishJob DEF setToken
<1>4. CASE UNCHANGED <<tokens, last_token, given>>
  BY <1>3, <1>4, SameAccounts DEF AccountTypes
<1>5. CASE /\ last_token' = last_token + 1
           /\ given' = given \cup {<<u, p, last_token'>>}
           /\ tokens' = [tokens EXCEPT ![u] = last_token'] \/ UNCHANGED tokens
  <2> HIDE DEF u, p
  <2>1. last_token' \in Nat /\ <<u, p, last_token'>> \in Given
    BY <1>1, <1>5 DEF AccountTypes, Given
  <2>2. AccountTypes'
    BY <1>1, <1>3, <1>5, <2>1 DEF AccountTypes
  <2>3. ASSUME NEW v \in Names, tokens'[v] # NoToken
        PROVE  \E g \in given', r \in user_info' :
                  /\ g[1] = v /\ g[3] = tokens'[v]
                  /\ r.user_name = v /\ r.password = g[2]
    <3>1. CASE tokens'[v] = tokens[v]
      <4>1. PICK g \in given, r \in user_info :
                  /\ g[1] = v /\ g[3] = tokens[v]
                  /\ r.user_name = v /\ r.password = g[2]
        BY <2>3, <3>1 DEF AccountInv, AccountsHold
      <4> QED BY <1>3, <1>5, <3>1, <4>1
    <3>2. CASE tokens'[v] # tokens[v]
      <4>1. v = u /\ tokens'[v] = last_token'
        BY <1>1, <1>5, <2>3, <3>2 DEF AccountTypes
      <4>2. PICK r \in user_info : r.user_name = u /\ r.password = p
        BY <1>2 DEF HasAccount
      <4>3. <<u, p, last_token'>> \in given' /\ r \in user_info'
        BY <1>3, <1>5
      <4> QED BY <4>1, <4>2, <4>3
    <3> QED BY <3>1, <3>2
  <2>4. AccountsHold'
    BY <1>3, <2>3 DEF AccountInv, AccountsHold
  <2>5. TokenIsDue'
    BY <1>3 DEF AccountInv, TokenIsDue, HasAccount, At
  <2> QED BY <2>2, <2>4, <2>5 DEF AccountInv
<1> QED BY <1>4, <1>5 DEF setToken

LEMMA VerifyAccounts ==
    ASSUME AccountTypes, JobTypes, AccountInv, NEW w \in Workers, verifyUserPassword(w)
    PROVE  AccountTypes' /\ AccountInv'
<1>1. UNCHANGED <<user_info, welcomed, given, tokens, last_token, requests>>
  BY DEF verifyUserPassword, tables, history
<1>2. CASE Finish(w)
  BY <1>1, <1>2, FinishJob, SameAccounts DEF AccountTypes
<1>3. CASE Goto(w, "set_token") /\ HasAccount(job[w].u, job[w].pwd)
  <2>1. /\ job'[w] = [job[w] EXCEPT !.pc = "set_token"]
        /\ \A v \in Workers \ {w} : job'[v] = job[v]
    BY <1>3, GotoJob DEF verifyUserPassword
  <2>2. job[w] \in LoginJob
    BY Shape DEF verifyUserPassword, At
  <2>3. job'[w].u = job[w].u /\ job'[w].pwd = job[w].pwd
    BY <2>1, <2>2 DEF LoginJob
  <2>4. TokenIsDue'
    <3>1. HasAccount(job[w].u, job[w].pwd)'
      BY <1>1, <1>3, <2>3 DEF HasAccount
    <3>2. \A v \in Workers \ {w} :
             At(v, "set_token")' => HasAccount(job[v].u, job[v].pwd)'
      BY <1>1, <2>1 DEF AccountInv, TokenIsDue, HasAccount, At
    <3> QED BY <3>1, <3>2 DEF TokenIsDue
  <2> QED BY <1>1, <2>4 DEF AccountInv, AccountsHold, AccountTypes
<1> QED BY <1>2, <1>3 DEF verifyUserPassword, HasAccount

(* Every step of a request moves its own job only, to a job of its shape. *)
LEMMA NextJobs ==
    ASSUME JobTypes, AccountTypes, ViewTypes, NEW w \in Workers,
           \/ Register(w) \/ Login(w) \/ Share(w) \/ Cancel(w) \/ View(w)
           \/ RegisterLook(w) \/ RegisterInsert(w)
           \/ verifyUserPassword(w) \/ setToken(w) \/ VerifyToken(w)
           \/ handleSharePicture(w) \/ handleCancelSharePicture(w)
           \/ PvLook(w) \/ PvUrl(w) \/ PvWrite(w)
    PROVE  JobTypes' /\ \A v \in Workers \ {w} : job'[v] = job[v]
<1>1. CASE Finish(w)
  BY <1>1, FinishJob
<1>2. CASE Register(w)
  <2>1. PICK u \in Names, n \in Nicks, p \in Passwords :
           Move(w, [pc |-> "reg_look", u |-> u, nick |-> n, pwd |-> p, no |-> requests])
    BY <1>2 DEF Register, Request
  <2>2. [pc |-> "reg_look", u |-> u, nick |-> n, pwd |-> p, no |-> requests] \in Jobs
    BY DEF Jobs, RegisterJob, AccountTypes
  <2> QED BY <2>1, <2>2, MoveJob
<1>3. CASE Login(w)
  <2>1. PICK u \in Names, p \in Passwords :
           Move(w, [pc |-> "verify", u |-> u, pwd |-> p])
    BY <1>3 DEF Login, Request
  <2>2. [pc |-> "verify", u |-> u, pwd |-> p] \in Jobs
    BY DEF Jobs, LoginJob
  <2> QED BY <2>1, <2>2, MoveJob
<1>4. CASE Share(w)
  <2>1. PICK g \in given : Move(w, [pc |-> "token", u |-> g[1], t |-> g[3]])
    BY <1>4 DEF Share, Request
  <2>2. g[1] \in Names /\ g[3] \in Nat
    BY DEF AccountTypes, Given
  <2>3. [pc |-> "token", u |-> g[1], t |-> g[3]] \in Jobs
    BY <2>2 DEF Jobs, ShareJob
  <2> QED BY <2>1, <2>3, MoveJob
<1>5. CASE Cancel(w)
  <2>1. PICK u \in Names, i \in Pictures :
           Move(w, [pc |-> "cancel", u |-> u, i |-> i])
    BY <1>5 DEF Cancel, Request
  <2>2. [pc |-> "cancel", u |-> u, i |-> i] \in Jobs
    BY DEF Jobs, CancelJob
  <2> QED BY <2>1, <2>2, MoveJob
<1>6. CASE View(w)
  <2>1. PICK i \in Items : Move(w, [pc |-> "pv_look", i |-> i, pv |-> 0])
    BY <1>6 DEF View, Request
  <2>2. [pc |-> "pv_look", i |-> i, pv |-> 0] \in Jobs
    BY DEF Jobs, ViewJob
  <2> QED BY <2>1, <2>2, MoveJob
<1>7. CASE PvLook(w)
  <2> DEFINE i == job[w].i
  <2> DEFINE p == IF i \in Pictures THEN "pv_url" ELSE "pv_write"
  <2> DEFINE j == [job[w] EXCEPT !.pv = pv[i], !.pc = p]
  <2>1. SUFFICES ASSUME Move(w, j) PROVE j \in Jobs
    BY <1>1, <1>7, MoveJob DEF PvLook
  <2>2. job[w] \in ViewJob
    BY <1>7, Shape DEF PvLook, At
  <2>3. i \in Items /\ pv[i] \in Int /\ p \in {"pv_url", "pv_write"}
    BY <2>2 DEF ViewJob, ViewTypes
  <2> HIDE DEF i, p
  <2>4. j \in ViewJob
    BY <2>2, <2>3 DEF ViewJob
  <2> QED BY <2>4 DEF Jobs
<1>8. CASE \/ RegisterLook(w) \/ verifyUserPassword(w)
           \/ VerifyToken(w) \/ PvUrl(w)
  BY <1>1, <1>8, GotoJob DEF RegisterLook, verifyUserPassword, VerifyToken, PvUrl
<1> QED BY <1>1, <1>2, <1>3, <1>4, <1>5, <1>6, <1>7, <1>8
        DEF RegisterInsert, setToken, handleSharePicture, handleCancelSharePicture, PvWrite

(* The pc a job moves to, for the steps that neither make an account nor   *)
(* check a password.                                                       *)
OtherStep(w) ==
    \/ Register(w) \/ Login(w) \/ Share(w) \/ Cancel(w) \/ View(w)
    \/ RegisterLook(w) \/ VerifyToken(w)
    \/ handleSharePicture(w) \/ handleCancelSharePicture(w)
    \/ PvLook(w) \/ PvUrl(w) \/ PvWrite(w)

LEMMA OtherAccounts ==
    ASSUME AccountTypes, ViewTypes, JobTypes, AccountInv, NEW w \in Workers, OtherStep(w)
    PROVE  AccountTypes' /\ AccountInv'
<1>1. job'[w].pc # "set_token"
  <2>1. CASE Finish(w)
    BY <2>1, FinishJob
  <2>2. ASSUME NEW p, Goto(w, p), p # "set_token", JobTypes,
               job[w] \in RegisterJob \cup ShareJob \cup ViewJob
        PROVE  job'[w].pc # "set_token"
    <3>1. [job[w] EXCEPT !.pc = p].pc = p
      BY <2>2 DEF RegisterJob, ShareJob, ViewJob
    <3> QED BY <2>2, <3>1 DEF Goto, Move, JobTypes
  <2>3. CASE RegisterLook(w) \/ VerifyToken(w) \/ PvUrl(w)
    BY <2>1, <2>2, <2>3, Shape DEF RegisterLook, VerifyToken, PvUrl, At
  <2>4. ASSUME NEW j \in Jobs, j.pc # "set_token", Move(w, j)
        PROVE  job'[w].pc # "set_token"
    BY <2>4, MoveJob
  <2>5. CASE PvLook(w)
    <3> DEFINE p == IF job[w].i \in Pictures THEN "pv_url" ELSE "pv_write"
    <3> DEFINE j == [job[w] EXCEPT !.pv = pv[job[w].i], !.pc = p]
    <3>1. SUFFICES ASSUME Move(w, j) PROVE job'[w].pc # "set_token"
      BY <2>1, <2>5 DEF PvLook
    <3>2. job[w] \in ViewJob
      BY <2>5, Shape DEF PvLook, At
    <3>3. j.pc = p /\ p # "set_token"
      BY <3>2 DEF ViewJob
    <3> QED BY <3>1, <3>3 DEF Move, JobTypes
  <2>6. CASE Register(w) \/ Login(w) \/ Share(w) \/ Cancel(w) \/ View(w)
    BY <2>6 DEF Register, Login, Share, Cancel, View, Request, Move, JobTypes
  <2> QED BY <2>1, <2>3, <2>5, <2>6
          DEF OtherStep, handleSharePicture, handleCancelSharePicture, PvWrite
<1>2. \A v \in Workers \ {w} : job'[v] = job[v]
  BY NextJobs DEF OtherStep
<1>3. /\ UNCHANGED <<user_info, welcomed, given, tokens, last_token>>
      /\ requests' \in Nat
  <2>1. CASE Register(w) \/ Login(w) \/ Share(w) \/ Cancel(w) \/ View(w)
    <3>1. PICK j : Request(w, j)
      BY <2>1, Zenon DEF Register, Login, Share, Cancel, View
    <3> QED BY <3>1 DEF Request, tables, history, AccountTypes
  <2>2. CASE RegisterLook(w) \/ VerifyToken(w) \/ PvLook(w) \/ PvUrl(w)
    BY <2>2 DEF RegisterLook, VerifyToken, PvLook, PvUrl, tables, history, AccountTypes
  <2>3. CASE handleSharePicture(w) \/ handleCancelSharePicture(w) \/ PvWrite(w)
    BY <2>3 DEF handleSharePicture, handleCancelSharePicture, PvWrite, history, AccountTypes
  <2> QED BY <2>1, <2>2, <2>3 DEF OtherStep
<1> QED BY <1>1, <1>2, <1>3, SameAccounts DEF AccountTypes

-------------------------------------------------------------------------------
(* View counts *)

(* A step that touches no count and takes no view further. *)
LEMMA SameViews ==
    ASSUME ViewTypes, ViewInv, UNCHANGED <<owner, pv, views>>,
           \A v \in Workers : job'[v].pc \in {"pv_url", "pv_write"} => job'[v] = job[v]
    PROVE  ViewTypes' /\ ViewInv'
BY DEF ViewTypes, ViewInv, ViewsCounted, ReadCounts, FreshPictures, CountsKnown, At

(* A picture gets its row: nobody has seen it. *)
LEMMA SharePictureViews ==
    ASSUME ViewTypes, JobTypes, ViewInv, NEW w \in Workers, handleSharePicture(w)
    PROVE  ViewTypes' /\ ViewInv'
<1>1. /\ views' = views
      /\ \A v \in Workers : job'[v].pc \in {"pv_url", "pv_write"} => job'[v] = job[v]
  BY FinishJob DEF handleSharePicture, history
<1>2. CASE UNCHANGED <<owner, pv>>
  BY <1>1, <1>2, SameViews
<1>3. ASSUME NEW i \in Pictures, owner[i] = NoOne,
             owner' = [owner EXCEPT ![i] = job[w].u],
             pv' = [pv EXCEPT ![i] = 0]
      PROVE  ViewTypes' /\ ViewInv'
  <2>1. job[w].u \in Names
    <3>1. job[w] \in ShareJob
      BY Shape DEF handleSharePicture, At
    <3> QED BY <3>1 DEF ShareJob
  <2>2. job[w].u # NoOne /\ i \in Items
    BY <2>1, AccountsAssumption DEF NoOne, Items
  <2>3. ViewTypes'
    BY <1>1, <1>3, <2>1, <2>2 DEF ViewTypes
  <2>4. ViewsCounted' /\ CountsKnown'
    BY <1>1, <1>3, <2>2 DEF ViewTypes, ViewInv, ViewsCounted, CountsKnown, FreshPictures, Gone
  <2>5. FreshPictures'
    BY <1>1, <1>3, <2>2 DEF ViewTypes, ViewInv, FreshPictures, Items
  <2>6. ReadCounts'
    BY <1>1 DEF ViewInv, ReadCounts, At
  <2> QED BY <2>3, <2>4, <2>5, <2>6 DEF ViewInv
<1> QED BY <1>2, <1>3 DEF handleSharePicture

LEMMA CancelPictureViews ==
    ASSUME ViewTypes, JobTypes, ViewInv, NEW w \in Workers, handleCancelSharePicture(w)
    PROVE  ViewTypes' /\ ViewInv'
<1> DEFINE i == job[w].i
<1>1. /\ UNCHANGED <<views, owner>>
      /\ \A v \in Workers : job'[v].pc \in {"pv_url", "pv_write"} => job'[v] = job[v]
  BY FinishJob DEF handleCancelSharePicture, history
<1>2. i \in Pictures /\ i \in Items
  <2>1. job[w] \in CancelJob
    BY Shape DEF handleCancelSharePicture, At
  <2> QED BY <2>1 DEF CancelJob, Items
<1>3. pv' = [pv EXCEPT ![i] = IF owner[i] = job[w].u THEN Gone ELSE @] \/ pv' = pv
  BY DEF handleCancelSharePicture
<1> HIDE DEF i
<1>4. \A k \in Items : pv'[k] = pv[k] \/ pv'[k] = Gone
  BY <1>2, <1>3 DEF ViewTypes
<1>5. ViewTypes'
  BY <1>1, <1>2, <1>3 DEF ViewTypes, Gone
<1>6. ViewsCounted' /\ CountsKnown' /\ FreshPictures'
  BY <1>1, <1>4 DEF ViewInv, ViewsCounted, CountsKnown, FreshPictures, Items
<1>7. ReadCounts'
  BY <1>1 DEF ViewInv, ReadCounts, At
<1> QED BY <1>5, <1>6, <1>7 DEF ViewInv

(* The look-up: what was read was shown, and is not above the views. *)
LEMMA LookViews ==
    ASSUME ViewTypes, JobTypes, ViewInv, NEW w \in Workers, PvLook(w) \/ PvUrl(w)
    PROVE  ViewTypes' /\ ViewInv'
<1>1. UNCHANGED <<owner, pv, views>>
  BY DEF PvLook, PvUrl, tables, history
<1>2. CASE Finish(w)
  BY <1>1, <1>2, FinishJob, SameViews
<1>3. job[w] \in ViewJob
  BY Shape DEF PvLook, PvUrl, At
<1>4. ASSUME /\ job'[w].i = job[w].i
             /\ 0 <= job'[w].pv /\ job'[w].pv <= views[job[w].i]
             /\ \A v \in Workers \ {w} : job'[v] = job[v]
      PROVE  ViewTypes' /\ ViewInv'
  <2>1. ReadCounts'
    BY <1>1, <1>4 DEF ViewInv, ReadCounts, At
  <2> QED BY <1>1, <2>1 DEF ViewTypes, ViewInv, ViewsCounted, FreshPictures, CountsKnown
<1>5. CASE PvLook(w) /\ ~Finish(w)
  <2> DEFINE p == IF job[w].i \in Pictures THEN "pv_url" ELSE "pv_write"
  <2> DEFINE j == [job[w] EXCEPT !.pv = pv[job[w].i], !.pc = p]
  <2>1. Move(w, j) /\ pv[job[w].i] # Gone
    BY <1>5 DEF PvLook
  <2>2. job[w].i \in Items /\ j.i = job[w].i /\ j.pv = pv[job[w].i]
    BY <1>3 DEF ViewJob
  <2>3. 0 <= j.pv /\ j.pv <= views[job[w].i]
    BY <2>1, <2>2 DEF ViewInv, ViewsCounted, CountsKnown
  <2>4. job'[w] = j /\ \A v \in Workers \ {w} : job'[v] = job[v]
    BY <2>1 DEF Move, JobTypes
  <2> QED BY <1>4, <2>2, <2>3, <2>4
<1>6. CASE PvUrl(w) /\ ~Finish(w)
  <2>1. /\ job'[w] = [job[w] EXCEPT !.pc = "pv_write"]
        /\ \A v \in Workers \ {w} : job'[v] = job[v]
    BY <1>6, GotoJob DEF PvUrl
  <2>2. job'[w].i = job[w].i /\ job'[w].pv = job[w].pv
    BY <1>3, <2>1 DEF ViewJob
  <2>3. 0 <= job[w].pv /\ job[w].pv <= views[job[w].i]
    BY <1>6 DEF PvUrl, ViewInv, ReadCounts
  <2> QED BY <1>4, <2>1, <2>2, <2>3
<1> QED BY <1>2, <1>5, <1>6

(* The update: one more than what was read, with one more view counted.    *)
LEMMA WriteViews ==
    ASSUME ViewTypes, JobTypes, ViewInv, NEW w \in Workers, PvWrite(w)
    PROVE  ViewTypes' /\ ViewInv'
<1> DEFINE i == job[w].i
<1> DEFINE new == job[w].pv + 1
<1>1. /\ owner' = owner
      /\ \A v \in Workers : job'[v].pc \in {"pv_url", "pv_write"} => job'[v] = job[v]
  BY FinishJob DEF PvWrite
<1>2. CASE UNCHANGED <<pv, views>>
  BY <1>1, <1>2, SameViews
<1>3. i \in Items /\ new \in Int /\ 1 <= new /\ new <= views[i] + 1
  <2>1. job[w] \in ViewJob
    BY Shape DEF PvWrite, At
  <2>2. i \in Items /\ job[w].pv \in Int /\ views[i] \in Nat
    BY <2>1 DEF ViewJob, ViewTypes
  <2>3. 0 <= job[w].pv /\ job[w].pv <= views[i]
    BY DEF PvWrite, ViewInv, ReadCounts
  <2> QED BY <2>2, <2>3
<1>4. CASE /\ pv[i] # Gone
           /\ pv' = [pv EXCEPT ![i] = new]
           /\ views' = [views EXCEPT ![i] = @ + 1]
  <2> HIDE DEF i, new
  <2>1. ViewTypes'
    BY <1>1, <1>3, <1>4 DEF ViewTypes
  <2>2. ViewsCounted' /\ CountsKnown'
    BY <1>3, <1>4 DEF ViewTypes, ViewInv, ViewsCounted, CountsKnown, Gone
  <2>3. FreshPictures'
    BY <1>1, <1>3, <1>4 DEF ViewTypes, ViewInv, FreshPictures, Items
  <2>4. ReadCounts'
    <3>1. \A k \in Items : views[k] \in Nat /\ views'[k] \in Nat /\ views[k] <= views'[k]
      BY <1>3, <1>4 DEF ViewTypes
    <3>2. \A v \in Workers : job[v].pc \in {"pv_url", "pv_write"} =>
             job[v].i \in Items /\ job[v].pv \in Int
      BY Shape DEF ViewJob
    <3> QED BY <1>1, <3>1, <3>2 DEF ViewInv, ReadCounts, At
  <2> QED BY <2>1, <2>2, <2>3, <2>4 DEF ViewInv
<1> QED BY <1>2, <1>4 DEF PvWrite

(* Every other step of a request. *)
LEMMA OtherViews ==
    ASSUME ViewTypes, AccountTypes, JobTypes, ViewInv, NEW w \in Workers,
           \/ Register(w) \/ Login(w) \/ Share(w) \/ Cancel(w) \/ View(w)
           \/ RegisterLook(w) \/ RegisterInsert(w)
           \/ verifyUserPassword(w) \/ setToken(w) \/ VerifyToken(w)
    PROVE  ViewTypes' /\ ViewInv'
<1>1. \A v \in Workers \ {w} : job'[v] = job[v]
  BY NextJobs
<1>2. UNCHANGED <<owner, pv, views>> /\ job'[w].pc \notin {"pv_url", "pv_write"}
  <2>1. CASE Register(w) \/ Login(w) \/ Share(w) \/ Cancel(w) \/ View(w)
    <3>1. ASSUME NEW j, Request(w, j), j.pc \notin {"pv_url", "pv_write"}
          PROVE  UNCHANGED <<owner, pv, views>> /\ job'[w].pc \notin {"pv_url", "pv_write"}
      BY <3>1 DEF Request, tables, history, Move, JobTypes
    <3>2. CASE Register(w)
      BY <3>1, <3>2 DEF Register
    <3>3. CASE Login(w)
      BY <3>1, <3>3 DEF Login
    <3>4. CASE Share(w)
      BY <3>1, <3>4 DEF Share
    <3>5. CASE Cancel(w)
      BY <3>1, <3>5 DEF Cancel
    <3>6. CASE View(w)
      BY <3>1, <3>6 DEF View
    <3> QED BY <2>1, <3>2, <3>3, <3>4, <3>5, <3>6
  <2>2. CASE RegisterLook(w) \/ verifyUserPassword(w) \/ VerifyToken(w)
    <3>1. UNCHANGED <<owner, pv, views>>
      BY <2>2 DEF RegisterLook, verifyUserPassword, VerifyToken, tables, history
    <3>2. \/ Finish(w)
          \/ At(w, "reg_look") /\ Goto(w, "reg_insert")
          \/ At(w, "verify") /\ Goto(w, "set_token")
          \/ At(w, "token") /\ Goto(w, "share")
      BY <2>2 DEF RegisterLook, verifyUserPassword, VerifyToken
    <3>3. \/ job'[w].pc = "idle" \/ job'[w].pc = "reg_insert"
          \/ job'[w].pc = "set_token" \/ job'[w].pc = "share"
      <4>1. Finish(w) => job'[w].pc = "idle"
        BY FinishJob
      <4>2. At(w, "reg_look") /\ Goto(w, "reg_insert") => job'[w].pc = "reg_insert"
        BY GotoJob
      <4>3. At(w, "verify") /\ Goto(w, "set_token") => job'[w].pc = "set_token"
        BY GotoJob
      <4>4. At(w, "token") /\ Goto(w, "share") => job'[w].pc = "share"
        BY GotoJob
      <4> QED BY <3>2, <4>1, <4>2, <4>3, <4>4
    <3> QED BY <3>1, <3>3
  <2>3. CASE RegisterInsert(w) \/ setToken(w)
    <3>1. UNCHANGED <<owner, pv, views>> /\ Finish(w)
      BY <2>3 DEF RegisterInsert, setToken
    <3> QED BY <3>1, FinishJob
  <2> QED BY <2>1, <2>2, <2>3
<1> QED BY <1>1, <1>2, SameViews

-------------------------------------------------------------------------------
(* Time, deletions elsewhere, and the end of the process *)

LEMMA EnvironmentInv ==
    ASSUME IInv, TokenExpires \/ ContentDeleted \/ Restart
    PROVE  IInv'
<1>0. Types /\ AccountTypes /\ ViewTypes /\ JobTypes /\ AccountInv /\ ViewInv
  BY DEF IInv, Types
<1>1. CASE TokenExpires
  <2>1. /\ UNCHANGED <<user_info, welcomed, given, last_token, requests>>
        /\ UNCHANGED <<owner, pv, views, job>>
    BY <1>1 DEF TokenExpires, history, counts
  <2>2. /\ tokens' \in [Names -> Nat]
        /\ \A u \in Names : tokens'[u] \in {tokens[u], NoToken}
    BY <1>0, <1>1 DEF TokenExpires, AccountTypes, NoToken
  <2>3. AccountTypes' /\ AccountInv'
    BY <1>0, <2>1, <2>2, SameAccounts DEF AccountTypes
  <2>4. ViewTypes' /\ ViewInv'
    BY <1>0, <2>1, SameViews
  <2> QED BY <1>0, <2>1, <2>3, <2>4 DEF IInv, Types, JobTypes
<1>2. CASE ContentDeleted
  <2>1. /\ UNCHANGED <<user_info, welcomed, given, last_token, requests, tokens>>
        /\ UNCHANGED <<owner, views, job>>
    BY <1>2 DEF ContentDeleted, history, counts
  <2>2. AccountTypes' /\ AccountInv'
    BY <1>0, <2>1, SameAccounts DEF AccountTypes
  <2>3. pv' = [i \in Items |-> IF i \in Files THEN Gone ELSE pv[i]]
    BY <1>2 DEF ContentDeleted
  <2>4. ViewTypes' /\ \A i \in Items : pv'[i] \in {pv[i], Gone}
    BY <1>0, <2>1, <2>3 DEF ViewTypes, Gone
  <2>5. ViewInv'
    BY <1>0, <2>1, <2>4 DEF ViewInv, ViewsCounted, ReadCounts, FreshPictures,
       CountsKnown, At, Items
  <2> QED BY <1>0, <2>1, <2>2, <2>4, <2>5 DEF IInv, Types, JobTypes
<1>3. CASE Restart
  <2>1. /\ UNCHANGED <<user_info, welcomed, given, tokens, requests>>
        /\ UNCHANGED <<owner, pv, views>>
        /\ last_token' = 0
        /\ job' = [w \in Workers |-> Idle]
    BY <1>3 DEF Restart, history
  <2>2. JobTypes' /\ \A w \in Workers : job'[w].pc = "idle"
    BY <2>1 DEF JobTypes, Jobs, Idle
  <2>3. AccountTypes' /\ AccountInv'
    BY <1>0, <2>1, <2>2, SameAccounts DEF AccountTypes
  <2>4. ViewTypes' /\ ViewInv'
    BY <1>0, <2>1, <2>2, SameViews
  <2> QED BY <2>2, <2>3, <2>4 DEF IInv, Types
<1> QED BY <1>1, <1>2, <1>3

LEMMA NextInv ==
    ASSUME IInv, [Next]_vars
    PROVE  IInv'
<1>0. AccountTypes /\ ViewTypes /\ JobTypes /\ AccountInv /\ ViewInv
  BY DEF IInv, Types
<1>1. CASE UNCHANGED vars
  <2>1. /\ UNCHANGED <<user_info, welcomed, given, tokens, last_token, requests>>
        /\ UNCHANGED <<owner, pv, views, job>>
    BY <1>1 DEF vars, tables, history, counts
  <2>2. AccountTypes' /\ AccountInv' /\ ViewTypes' /\ ViewInv'
    BY <1>0, <2>1, SameAccounts, SameViews DEF AccountTypes
  <2> QED BY <1>0, <2>1, <2>2 DEF IInv, Types, JobTypes
<1>2. CASE TokenExpires \/ ContentDeleted \/ Restart
  BY <1>2, EnvironmentInv
<1>3. ASSUME NEW w \in Workers,
             \/ OtherStep(w)
             \/ RegisterInsert(w) \/ verifyUserPassword(w) \/ setToken(w)
      PROVE  IInv'
  <2>1. JobTypes'
    BY <1>0, <1>3, NextJobs DEF OtherStep
  <2>2. AccountTypes' /\ AccountInv'
    BY <1>0, <1>3, OtherAccounts, RegisterAccounts, VerifyAccounts, TokenAccounts
  <2>3. ViewTypes' /\ ViewInv'
    BY <1>0, <1>3, OtherViews, SharePictureViews, CancelPictureViews,
       LookViews, WriteViews DEF OtherStep
  <2> QED BY <2>1, <2>2, <2>3 DEF IInv, Types
<1> QED BY <1>1, <1>2, <1>3 DEF Next, OtherStep

(* For any number of threads, users and requests, with tokens that expire, *)
(* calls that fail and restarts that give the same tokens again: two       *)
(* registrations of one name or nick are never both welcomed, the account  *)
(* stays what it was registered as, and a token in force was given to a    *)
(* login with the password of that account.                                *)
THEOREM AccountsHoldAlways == Spec => []AccountsHold
<1>1. IInv => AccountsHold
  BY DEF IInv, AccountInv
<1> QED BY <1>1, InitInv, NextInv, PTL DEF Spec

(* However many views of an item overlap with each other, with the share   *)
(* being taken back and with the content being deleted: its count is never *)
(* above the views that were answered, and never goes back to 0.           *)
THEOREM ViewsCountedAlways == Spec => []ViewsCounted
<1>1. IInv => ViewsCounted
  BY DEF IInv, ViewInv
<1> QED BY <1>1, InitInv, NextInv, PTL DEF Spec
================================================================================
