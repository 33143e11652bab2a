------------------------------- MODULE ShareBoard -------------------------------
(***************************************************************************)
(* Shared files.  That a file is shared is kept in five places: the table  *)
(* share_file_list, the column shared_status of user_file_list, and in     *)
(* Redis the sorted set FILE_PUBLIC_ZSET (the ranking), the hash           *)
(* FILE_NAME_HASH and the counter FILE_PUBLIC_COUNT.  handleShareFile and  *)
(* handleDeleteFile (api_dealfile.cc), handleCancelShareFile and           *)
(* handlePvFile (api_deal_sharefile.cc) change them one after the other;   *)
(* api_sharefiles.cc reads them, and rebuilds the ranking at startup.      *)
(*                                                                         *)
(* One action is one SQL statement or one Redis command.  A file is its    *)
(* md5 and name, which the handlers always use together.                   *)
(***************************************************************************)
EXTENDS Integers, FiniteSets

CONSTANTS
    Workers,      \* threads of the pool
    Users,
    Files,
    Ops,          \* the requests of this instance
    FaultKinds,   \* "call": a statement or command fails; "crash"
    MaxFaults,    \* bound: failures in a behaviour
    MaxRequests   \* bound: requests in a behaviour

AllOps == {"share", "cancel", "pv", "del", "count", "list", "rank"}

ASSUME BoardAssumption ==
    /\ IsFiniteSet(Workers) /\ IsFiniteSet(Users) /\ IsFiniteSet(Files)
    /\ MaxFaults \in Nat /\ MaxRequests \in Nat
    /\ Ops \subseteq AllOps

VARIABLES
    share_file_list,  \* rows [id, u, f, pv]
    shared_status,    \* <<u, f>> -> 0, 1, or NoRow: not in user_file_list
    zset,             \* FILE_PUBLIC_ZSET: file -> score or NoScore
    hash,             \* FILE_NAME_HASH: files with a name
    count,            \* FILE_PUBLIC_COUNT; a missing key reads as 0
    pvLock,           \* file -> worker whose transaction has locked its rows
    job,              \* worker -> the request it runs
    answer,           \* worker -> its last response
    up,               \* the server takes requests
    failed,           \* kinds of failure so far, and the requests they hit
    faults,
    requests

board == <<share_file_list, shared_status, zset, hash, count>>
tally == <<failed, faults, requests>>
vars  == <<board, pvLock, job, answer, up, tally>>

NoRow    == -1
NoScore  == -1
NoWorker == "none"   \* no thread: see WorkersAssumption
Idle     == [pc |-> "idle", op |-> "none", u |-> "none", f |-> "none",
             n |-> 0, todo |-> {}]
FirstPc  == [share |-> "share_exist", cancel |-> "cancel_status", pv |-> "pv_read",
             del |-> "del_exist", count |-> "count_get", list |-> "count_get",
             rank |-> "rank_range"]

ASSUME WorkersAssumption == NoWorker \notin Workers

SharesOf(f)   == {r \in share_file_list : r.f = f}
OwnShare(u, f) == {r \in SharesOf(f) : r.u = u}
SharedFiles   == {r.f : r \in share_file_list}

(* Every user has every file; nothing is shared yet. *)
Init ==
    /\ share_file_list = {}
    /\ shared_status = [k \in Users \X Files |-> 0]
    /\ zset = [f \in Files |-> NoScore]
    /\ hash = {}
    /\ count = 0
    /\ pvLock = [f \in Files |-> NoWorker]
    /\ job = [w \in Workers |-> Idle]
    /\ answer = [w \in Workers |-> "none"]
    /\ up = TRUE
    /\ failed = {} /\ faults = 0 /\ requests = 0

-----------------------------------------------------------------------------
At(w, p)   == job[w].pc = p
Move(w, j) == job' = [job EXCEPT ![w] = j]
Goto(w, p) == Move(w, [job[w] EXCEPT !.pc = p]) /\ UNCHANGED answer
Key(w)     == <<job[w].u, job[w].f>>

(* The handler returns and the response is built. *)
Finish(w, code) ==
    /\ Move(w, Idle)
    /\ answer' = [answer EXCEPT ![w] = code]

(* A failure that these workers notice or die of. *)
Fault(kind, ws) ==
    /\ kind \in FaultKinds
    /\ faults < MaxFaults
    /\ faults' = faults + 1
    /\ failed' = failed \cup {kind} \cup {job[w].op : w \in ws}
    /\ UNCHANGED requests

(* A statement or a command fails, or it works. *)
Fails(w) == Fault("call", {w})
Works    == UNCHANGED tally

(* InnoDB: no transaction of another worker has locked the file's rows. *)
Unlocked(w) == pvLock[job[w].f] \in {w, NoWorker}

(* Redis commands and what the handlers make of them *)
ZsetAdd(f, score) == zset' = [zset EXCEPT ![f] = score]
ZsetIncr(f)       == zset' = [zset EXCEPT ![f] = IF @ = NoScore THEN 1 ELSE @ + 1]
ZsetZrem(f)       == zset' = [zset EXCEPT ![f] = NoScore]
Hset(f)           == hash' = hash \cup {f}
Hdel(f)           == hash' = hash \ {f}

(* CacheIncrCount *)
CacheIncrCount(w, p, after) ==
    /\ At(w, p)
    /\ \/ Fails(w) /\ Finish(w, "fail") /\ UNCHANGED count
       \/ Works /\ count' = count + 1 /\ Goto(w, after)
    /\ UNCHANGED <<share_file_list, shared_status, zset, hash, pvLock, up>>

(* CacheDecrCount: DECR, and a negative result is followed by a second     *)
(* command, SET 0 (at the program point floor).                            *)
CacheDecrCount(w, p, floor, after) ==
    \/ /\ At(w, p)
       /\ \/ Fails(w) /\ Finish(w, "fail") /\ UNCHANGED count
          \/ /\ Works
             /\ count' = count - 1
             /\ Goto(w, IF count' < 0 THEN floor ELSE after)
       /\ UNCHANGED <<share_file_list, shared_status, zset, hash, pvLock, up>>
    \/ /\ At(w, floor)
       /\ \/ Fails(w) /\ Finish(w, "fail") /\ UNCHANGED count
          \/ Works /\ count' = 0 /\ Goto(w, after)
       /\ UNCHANGED <<share_file_list, shared_status, zset, hash, pvLock, up>>

-----------------------------------------------------------------------------
(* handleShareFile *)

(* Is the file in the ranking?  Then somebody has shared it: ShareHad. *)
ShareExist(w) ==
    /\ At(w, "share_exist")
    /\ \/ Fails(w) /\ Finish(w, "fail")
       \/ Works /\ zset[job[w].f] # NoScore /\ Finish(w, "had")
       \/ Works /\ zset[job[w].f] = NoScore /\ Goto(w, "share_record")
    /\ UNCHANGED <<board, pvLock, up>>

(* Is it in the table?  Then Redis has lost it and gets it again.  A       *)
(* failed query is taken for a "no".                                       *)
ShareRecord(w) ==
    /\ At(w, "share_record")
    /\ \/ Fails(w) /\ Goto(w, "share_status")
       \/ /\ Works
          /\ Goto(w, IF SharesOf(job[w].f) # {} THEN "had_zset" ELSE "share_status")
    /\ UNCHANGED <<board, pvLock, up>>

(* Both results are ignored. *)
HadZset(w) ==
    /\ At(w, "had_zset")
    /\ \/ Fails(w) /\ UNCHANGED zset
       \/ Works /\ ZsetAdd(job[w].f, 0)
    /\ Goto(w, "had_hash")
    /\ UNCHANGED <<share_file_list, shared_status, hash, count, pvLock, up>>

HadHash(w) ==
    /\ At(w, "had_hash")
    /\ \/ Fails(w) /\ UNCHANGED hash
       \/ Works /\ Hset(job[w].f)
    /\ Finish(w, "had")
    /\ UNCHANGED <<share_file_list, shared_status, zset, count, pvLock, up>>

(* update user_file_list; no matter whether there is a row. *)
SetStatus(w, p, value, after) ==
    /\ At(w, p)
    /\ \/ Fails(w) /\ Finish(w, "fail") /\ UNCHANGED shared_status
       \/ /\ Works
          /\ shared_status' = [shared_status EXCEPT ![Key(w)] =
                                  IF @ = NoRow THEN NoRow ELSE value]
          /\ Goto(w, after)
    /\ UNCHANGED <<share_file_list, zset, hash, count, pvLock, up>>

(* Mutant: the result of the insert is not looked at. *)
ShareInsert_Unchecked(w, after) ==
    /\ At(w, "share_insert")
    /\ Fails(w)
    /\ Goto(w, after)
    /\ UNCHANGED <<board, pvLock, up>>

(* insert into share_file_list, pv 0 *)
ShareInsert(w, after) ==
    /\ At(w, "share_insert")
    /\ \/ Fails(w) /\ Finish(w, "fail") /\ UNCHANGED share_file_list
       \/ /\ Works
          /\ Unlocked(w)
          /\ share_file_list' = share_file_list \cup
                {[id |-> Cardinality(OwnShare(job[w].u, job[w].f)),
                  u |-> job[w].u, f |-> job[w].f, pv |-> 0]}
          /\ Goto(w, after)
    /\ UNCHANGED <<shared_status, zset, hash, count, pvLock, up>>

(* The sorted set's result is ignored, the hash's is logged. *)
ShareZset(w) ==
    /\ At(w, "share_zset")
    /\ \/ Fails(w) /\ UNCHANGED zset
       \/ Works /\ ZsetAdd(job[w].f, 0)
    /\ Goto(w, "share_hash")
    /\ UNCHANGED <<share_file_list, shared_status, hash, count, pvLock, up>>

ShareHash(w) ==
    /\ At(w, "share_hash")
    /\ \/ Fails(w) /\ UNCHANGED hash
       \/ Works /\ Hset(job[w].f)
    /\ Finish(w, "ok")
    /\ UNCHANGED <<share_file_list, shared_status, zset, count, pvLock, up>>

(* Mutant: the counter is raised before the insert. *)
handleShareFile_CountFirst(w) ==
    \/ ShareExist(w) \/ ShareRecord(w) \/ HadZset(w) \/ HadHash(w)
    \/ SetStatus(w, "share_status", 1, "share_count")
    \/ CacheIncrCount(w, "share_count", "share_insert")
    \/ ShareInsert(w, "share_zset")
    \/ ShareZset(w) \/ ShareHash(w)

handleShareFile(w) ==
    \/ ShareExist(w) \/ ShareRecord(w) \/ HadZset(w) \/ HadHash(w)
    \/ SetStatus(w, "share_status", 1, "share_insert")
    \/ ShareInsert(w, "share_count")
    \/ CacheIncrCount(w, "share_count", "share_zset")
    \/ ShareZset(w) \/ ShareHash(w)

-----------------------------------------------------------------------------
(* handleCancelShareFile.  The counter goes down and the row is deleted    *)
(* whether or not the user has shared the file.                            *)

(* ApiDealsharefile answers HTTP_RESP_OK to whatever a handler returns: no *)
(* code is negative.                                                       *)
Reply(w) == Finish(w, "ok")

(* Mutant: the row stays. *)
CancelRows_Skipped(w) ==
    /\ At(w, "cancel_rows")
    /\ Works
    /\ Goto(w, "cancel_zset")
    /\ UNCHANGED <<board, pvLock, up>>

CancelRows(w) ==
    /\ At(w, "cancel_rows")
    /\ \/ Fails(w) /\ Reply(w) /\ UNCHANGED share_file_list
       \/ /\ Works
          /\ Unlocked(w)
          /\ share_file_list' = share_file_list \ OwnShare(job[w].u, job[w].f)
          /\ Goto(w, "cancel_zset")
    /\ UNCHANGED <<shared_status, zset, hash, count, pvLock, up>>

CancelZset(w) ==
    /\ At(w, "cancel_zset")
    /\ \/ Fails(w) /\ Reply(w) /\ UNCHANGED zset
       \/ Works /\ ZsetZrem(job[w].f) /\ Goto(w, "cancel_hash")
    /\ UNCHANGED <<share_file_list, shared_status, hash, count, pvLock, up>>

CancelHash(w) ==
    /\ At(w, "cancel_hash")
    /\ \/ Fails(w) /\ Reply(w) /\ UNCHANGED hash
       \/ /\ Works
          /\ Hdel(job[w].f)
          /\ Reply(w)
    /\ UNCHANGED <<share_file_list, shared_status, zset, count, pvLock, up>>

handleCancelShareFile(w) ==
    \/ SetStatus(w, "cancel_status", 0, "cancel_count")
    \/ CacheDecrCount(w, "cancel_count", "cancel_floor", "cancel_rows")
    \/ CancelRows(w) \/ CancelZset(w) \/ CancelHash(w)

-----------------------------------------------------------------------------
(* handlePvFile of api_deal_sharefile.cc: a download *)

(* Mutant: the query without "for update". *)
PvRead_NoLock(w) ==
    /\ At(w, "pv_read")
    /\ Works
    /\ IF SharesOf(job[w].f) = {}
       THEN Reply(w)
       ELSE \E r \in SharesOf(job[w].f) :
               /\ Move(w, [job[w] EXCEPT !.n = r.pv, !.pc = "pv_update"])
               /\ UNCHANGED answer
    /\ UNCHANGED <<board, pvLock, up>>

(* StartTransaction; select pv ... for update.  No row or no result:       *)
(* Rollback.                                                               *)
PvRead(w) ==
    /\ At(w, "pv_read")
    /\ \/ Fails(w) /\ Reply(w) /\ UNCHANGED pvLock
       \/ Works /\ SharesOf(job[w].f) = {} /\ Reply(w) /\ UNCHANGED pvLock
       \/ /\ Works
          /\ Unlocked(w)
          /\ \E r \in SharesOf(job[w].f) :
                Move(w, [job[w] EXCEPT !.n = r.pv, !.pc = "pv_update"])
          /\ pvLock' = [pvLock EXCEPT ![job[w].f] = w]
          /\ UNCHANGED answer
    /\ UNCHANGED <<board, up>>

Release(w) == pvLock' = [pvLock EXCEPT ![job[w].f] = IF @ = w THEN NoWorker ELSE @]

(* update ... set pv = pv read + 1, for all rows of the file; Rollback if  *)
(* it fails.  It becomes visible with the commit.                          *)
PvUpdate(w) ==
    /\ At(w, "pv_update")
    /\ \/ Fails(w) /\ Reply(w) /\ Release(w)
       \/ Works /\ Goto(w, "pv_commit") /\ UNCHANGED pvLock
    /\ UNCHANGED <<board, up>>

(* Commit, whose result is not looked at. *)
PvCommit(w) ==
    /\ At(w, "pv_commit")
    /\ \/ Fails(w) /\ UNCHANGED share_file_list
       \/ /\ Works
          /\ share_file_list' =
                {IF r.f = job[w].f THEN [r EXCEPT !.pv = job[w].n + 1] ELSE r :
                    r \in share_file_list}
    /\ Release(w)
    /\ Goto(w, "pv_exist")
    /\ UNCHANGED <<shared_status, zset, hash, count, up>>

PvExist(w) ==
    /\ At(w, "pv_exist")
    /\ \/ Fails(w) /\ Reply(w)
       \/ Works /\ Goto(w, IF zset[job[w].f] # NoScore THEN "pv_incr" ELSE "pv_add")
    /\ UNCHANGED <<board, pvLock, up>>

PvIncr(w) ==
    /\ At(w, "pv_incr")
    /\ \/ Fails(w) /\ Reply(w) /\ UNCHANGED zset
       \/ Works /\ ZsetIncr(job[w].f) /\ Reply(w)
    /\ UNCHANGED <<share_file_list, shared_status, hash, count, pvLock, up>>

(* Redis has lost the file: it gets the count just written.  Neither       *)
(* result is looked at.                                                    *)
PvAdd(w) ==
    /\ At(w, "pv_add")
    /\ \/ Fails(w) /\ UNCHANGED zset
       \/ Works /\ ZsetAdd(job[w].f, job[w].n + 1)
    /\ Goto(w, "pv_hash")
    /\ UNCHANGED <<share_file_list, shared_status, hash, count, pvLock, up>>

PvHash(w) ==
    /\ At(w, "pv_hash")
    /\ \/ Fails(w) /\ UNCHANGED hash
       \/ Works /\ Hset(job[w].f)
    /\ Reply(w)
    /\ UNCHANGED <<share_file_list, shared_status, zset, count, pvLock, up>>

handlePvFile(w) ==
    \/ PvRead(w) \/ PvUpdate(w) \/ PvCommit(w)
    \/ PvExist(w) \/ PvIncr(w) \/ PvAdd(w) \/ PvHash(w)

-----------------------------------------------------------------------------
(* handleDeleteFile, its sharing part.  (FileStore has the rest: the rows  *)
(* of the user, the count and the stored file.)  ApiDealfile answers       *)
(* ShareFail to every deletion.                                            *)

(* The file is in the ranking, or else the user's row says it is shared. A *)
(* failed query of shared_status is dereferenced: the process dies, see    *)
(* Crash.                                                                  *)
DelExist(w) ==
    /\ At(w, "del_exist")
    /\ \/ Fails(w) /\ Finish(w, "fail")
       \/ /\ Works
          /\ \/ /\ zset[job[w].f] # NoScore
                /\ Move(w, [job[w] EXCEPT !.n = 1, !.pc = "del_rows"])
                /\ UNCHANGED answer
             \/ zset[job[w].f] = NoScore /\ Goto(w, "del_status")
    /\ UNCHANGED <<board, pvLock, up>>

DelStatus(w) ==
    /\ At(w, "del_status")
    /\ Works
    /\ Goto(w, IF shared_status[Key(w)] = 1 THEN "del_rows" ELSE "del_own")
    /\ UNCHANGED <<board, pvLock, up>>

DelRows(w) ==
    /\ At(w, "del_rows")
    /\ \/ Fails(w) /\ Finish(w, "fail") /\ UNCHANGED share_file_list
       \/ /\ Works
          /\ Unlocked(w)
          /\ share_file_list' = share_file_list \ OwnShare(job[w].u, job[w].f)
          /\ Goto(w, "del_count")
    /\ UNCHANGED <<shared_status, zset, hash, count, pvLock, up>>

(* Only when ZsetExist found it (n = 1); the results are ignored. *)
DelZset(w) ==
    /\ At(w, "del_zset")
    /\ \/ job[w].n = 0 /\ Works /\ Goto(w, "del_own") /\ UNCHANGED zset
       \/ /\ job[w].n = 1
          /\ \/ Fails(w) /\ UNCHANGED zset
             \/ Works /\ ZsetZrem(job[w].f)
          /\ Goto(w, "del_hash")
    /\ UNCHANGED <<share_file_list, shared_status, hash, count, pvLock, up>>

DelHash(w) ==
    /\ At(w, "del_hash")
    /\ \/ Fails(w) /\ UNCHANGED hash
       \/ Works /\ Hdel(job[w].f)
    /\ Goto(w, "del_own")
    /\ UNCHANGED <<share_file_list, shared_status, zset, count, pvLock, up>>

(* The counter of the user's files (nothing here reads it) and the delete  *)
(* from user_file_list; either may fail and end the handler.               *)
DelOwn(w) ==
    /\ At(w, "del_own")
    /\ \/ Fails(w) /\ UNCHANGED shared_status
       \/ Works /\ shared_status' = [shared_status EXCEPT ![Key(w)] = NoRow]
    /\ Finish(w, "fail")
    /\ UNCHANGED <<share_file_list, zset, hash, count, pvLock, up>>

handleDeleteFile(w) ==
    \/ DelExist(w) \/ DelStatus(w) \/ DelRows(w)
    \/ CacheDecrCount(w, "del_count", "del_floor", "del_zset")
    \/ DelZset(w) \/ DelHash(w) \/ DelOwn(w)

-----------------------------------------------------------------------------
(* api_sharefiles.cc: the readers *)

(* The total of a list; a list of 0 files needs no query. *)
CountKnown(w, total) ==
    IF job[w].op = "list" /\ total # 0 THEN Goto(w, "list_select")
    ELSE Finish(w, "ok")

(* getShareFilesCount: a count of 0, or a failed GET, is looked up in the  *)
(* table ...                                                               *)
CountGet(w) ==
    /\ At(w, "count_get")
    /\ \/ Fails(w) /\ Goto(w, "count_db")
       \/ /\ Works
          /\ IF count = 0 THEN Goto(w, "count_db") ELSE CountKnown(w, count)
    /\ UNCHANGED <<board, pvLock, up>>

CountDb(w) ==
    /\ At(w, "count_db")
    /\ \/ Fails(w) /\ Finish(w, "fail")
       \/ /\ Works
          /\ Move(w, [job[w] EXCEPT !.n = Cardinality(share_file_list), !.pc = "count_set"])
          /\ UNCHANGED answer
    /\ UNCHANGED <<board, pvLock, up>>

(* ... and written back. *)
CountSet(w) ==
    /\ At(w, "count_set")
    /\ \/ Fails(w) /\ Finish(w, "fail") /\ UNCHANGED count
       \/ /\ Works
          /\ count' = job[w].n
          /\ CountKnown(w, job[w].n)
    /\ UNCHANGED <<share_file_list, shared_status, zset, hash, pvLock, up>>

(* handleGetShareFilelist: the page of the table *)
ListSelect(w) ==
    /\ At(w, "list_select")
    /\ \/ Fails(w) /\ Finish(w, "fail")
       \/ Works /\ Finish(w, "ok")
    /\ UNCHANGED <<board, pvLock, up>>

(* handleGetRankingFilelist: the members of the page, then the name and    *)
(* the score of each; one that is missing fails the whole request.         *)
RankRange(w) ==
    /\ At(w, "rank_range")
    /\ \/ Fails(w) /\ Finish(w, "fail")
       \/ /\ Works
          /\ Move(w, [job[w] EXCEPT !.pc = "rank_name",
                        !.todo = {f \in Files : zset[f] # NoScore}])
          /\ UNCHANGED answer
    /\ UNCHANGED <<board, pvLock, up>>

RankName(w) ==
    /\ At(w, "rank_name")
    /\ \/ Fails(w) /\ Finish(w, "fail")
       \/ /\ Works
          /\ \/ job[w].todo = {} /\ Finish(w, "ok")
             \/ \E f \in job[w].todo :
                   IF f \in hash
                   THEN /\ Move(w, [job[w] EXCEPT !.pc = "rank_score", !.f = f])
                        /\ UNCHANGED answer
                   ELSE Finish(w, "fail")
    /\ UNCHANGED <<board, pvLock, up>>

RankScore(w) ==
    /\ At(w, "rank_score")
    /\ \/ Fails(w) /\ Finish(w, "fail")
       \/ /\ Works
          /\ IF zset[job[w].f] = NoScore
             THEN Finish(w, "fail")
             ELSE /\ Move(w, [job[w] EXCEPT !.pc = "rank_name",
                                !.todo = @ \ {job[w].f}])
                  /\ UNCHANGED answer
    /\ UNCHANGED <<board, pvLock, up>>

ApiSharefile(w) ==
    \/ CountGet(w) \/ CountDb(w) \/ CountSet(w) \/ ListSelect(w)
    \/ RankRange(w) \/ RankName(w) \/ RankScore(w)

-----------------------------------------------------------------------------
(* main.cc and the process *)

(* The process dies.  MySQL rolls its transactions back; Redis keeps what  *)
(* it has.  A Zset command whose connection is lost does this too: it      *)
(* looks into a NULL reply.                                                *)
Crash ==
    /\ up
    /\ Fault("crash", Workers)
    /\ up' = FALSE
    /\ job' = [w \in Workers |-> Idle]
    /\ pvLock' = [f \in Files |-> NoWorker]
    /\ UNCHANGED <<board, answer>>

(* The scores InitializePvCache writes: rows come in descending order of   *)
(* pv, so of several rows of a file the last has the smallest.             *)
LoadedScore(f) ==
    CHOOSE n \in {r.pv : r \in SharesOf(f)} : \A r \in SharesOf(f) : n <= r.pv

(* Before the server listens: both keys are deleted and filled from the    *)
(* table.  Without a result set main returns; the results of the Redis     *)
(* commands are ignored, so one of them may be lost.  FILE_PUBLIC_COUNT    *)
(* is left as it is (ApiInit, which would set it, is not called).          *)
InitializePvCache ==
    /\ ~up
    /\ LET emptied == [f \in Files |-> NoScore]
           loaded  == [f \in Files |-> IF f \in SharedFiles THEN LoadedScore(f)
                                                           ELSE NoScore]
       IN  \/ Works /\ zset' = loaded /\ hash' = SharedFiles /\ up' = TRUE
           \/ Fault("call", {}) /\ zset' = emptied /\ hash' = {} /\ up' = FALSE
           \/ /\ Fault("call", {})
              /\ \E f \in SharedFiles :
                    \/ zset' = [loaded EXCEPT ![f] = NoScore] /\ hash' = SharedFiles
                    \/ zset' = loaded /\ hash' = SharedFiles \ {f}
              /\ up' = TRUE
    /\ UNCHANGED <<share_file_list, shared_status, count, pvLock, job, answer>>

(* Any request is handed to an idle thread. *)
Start(w) ==
    /\ up
    /\ At(w, "idle")
    /\ requests < MaxRequests
    /\ requests' = requests + 1
    /\ \E op \in Ops, u \in Users, f \in Files :
          Move(w, [Idle EXCEPT !.pc = FirstPc[op], !.op = op, !.u = u, !.f = f])
    /\ UNCHANGED <<board, pvLock, answer, up, failed, faults>>

Work(w) == \/ handleShareFile(w) \/ handleCancelShareFile(w) \/ handlePvFile(w)
           \/ handleDeleteFile(w) \/ ApiSharefile(w)

Next == \/ Crash \/ InitializePvCache
        \/ \E w \in Workers : Start(w) \/ Work(w)

-----------------------------------------------------------------------------
(* What has happened, for the properties.  No action looks at it.          *)
VARIABLES
    astray,   \* a request has not come in good order
    beside,   \* worker that reloads the counter -> the changes beside its
              \*   reload so far, which the number it will write may miss
    off       \* the same of the reload that wrote the counter last

notes == <<astray, beside, off>>

(* A request that comes in good order: a user shares, or deletes, a file   *)
(* he has, cancels his own share, and deletes no file that somebody else   *)
(* has shared; and no two requests are at one file of which one changes    *)
(* its shares and the other changes them or is a download.  What readers   *)
(* run beside is left open, and so are changes of different files.         *)
InGoodOrder(op, u, f) ==
    LET on == {job[w].op : w \in {v \in Workers : ~At(v, "idle") /\ job[v].f = f}}
    IN  /\ op \in {"share", "del"} => shared_status[<<u, f>>] # NoRow
        /\ op = "cancel" => OwnShare(u, f) # {}
        /\ op = "del" => SharesOf(f) = OwnShare(u, f)
        /\ op = "pv" => on \cap {"share", "cancel", "del"} = {}
        /\ op \in {"share", "cancel", "del"} => on \cap {"share", "cancel", "del", "pv"} = {}

Changing == {"share", "cancel", "del"}
Changers == {w \in Workers : job[w].op \in Changing}

Begun(w)   == At(w, "idle") /\ job'[w].op # "none"
Reloads(w) == At(w, "count_set") /\ job'[w].pc # "count_set" /\ faults' = faults

NotedInit == Init /\ astray = FALSE /\ beside = [w \in Workers |-> 0] /\ off = 0

Note ==
    /\ astray' = (astray \/ \E w \in Workers :
                     Begun(w) /\ ~InGoodOrder(job'[w].op, job'[w].u, job'[w].f))
    /\ beside' = [w \in Workers |->
                     IF job'[w].pc # "count_set" THEN 0
                     ELSE IF At(w, "count_set") THEN beside[w] + Cardinality(Changers' \ Changers)
                     ELSE Cardinality(Changers)]
    /\ \/ \E w \in Workers : Reloads(w) /\ off' = beside[w]
       \/ (\A w \in Workers : ~Reloads(w)) /\ UNCHANGED off

Spec == NotedInit /\ [][Next /\ Note]_<<vars, notes>>

-----------------------------------------------------------------------------
Row == [id : Nat, u : Users, f : Files, pv : Nat]

TypeOK ==
    /\ share_file_list \subseteq Row
    /\ shared_status \in [Users \X Files -> {NoRow, 0, 1}]
    /\ zset \in [Files -> Nat \cup {NoScore}]
    /\ hash \subseteq Files
    /\ count \in Int
    /\ pvLock \in [Files -> Workers \cup {NoWorker}]
    /\ \A f \in Files : pvLock[f] # NoWorker =>
          job[pvLock[f]].pc \in {"pv_update", "pv_commit"} /\ job[pvLock[f]].f = f
    /\ up \in BOOLEAN

Settled == up /\ \A w \in Workers : At(w, "idle")

(* Between requests the ranking in Redis is the table: its members are the *)
(* shared files, each with its name, and a score is the number of          *)
(* downloads in the table.  A crash in the middle of any handler does not  *)
(* change that, because InitializePvCache runs before the server listens;  *)
(* overlapping downloads neither, because handlePvFile locks the row.  It  *)
(* holds until a request comes out of order: a cancellation beside a       *)
(* download of the file, say, whose ZINCRBY then puts back what ZREM took. *)
SettledRanking ==
    Settled /\ ~astray /\ "call" \notin failed =>
        /\ \A f \in Files : zset[f] =
              IF f \in SharedFiles THEN LoadedScore(f) ELSE NoScore
        /\ hash = SharedFiles

(* As long as nothing has failed, the other two places agree as well:      *)
(* shared_status marks the owner of the share, and FILE_PUBLIC_COUNT, the  *)
(* total of the lists, counts the rows, unless changes of the shares ran   *)
(* beside the reload that wrote it last.                                   *)
SettledBoard ==
    Settled /\ ~astray /\ failed = {} =>
        /\ off = 0 => count = Cardinality(share_file_list)
        /\ \A u \in Users, f \in Files :
              shared_status[<<u, f>>] = 1 <=> OwnShare(u, f) # {}

(* How far FILE_PUBLIC_COUNT can be above the shares, where nothing sets   *)
(* it right (at 0 it is reloaded).  One failed call or one crash does not  *)
(* put it there: handleShareFile inserts before it counts, and             *)
(* handleCancelShareFile counts before it deletes.  handleDeleteFile does  *)
(* it the other way round, so a failed deletion is left out.  A reload     *)
(* does, though nothing fails: handleShareFile inserts its row; a list     *)
(* finds the counter at 0, selects 1 and sets 1; handleShareFile counts up *)
(* to 2.  But by no more than the changes that ran beside that reload.     *)
CountNeverOver ==
    Settled /\ ~astray /\ faults <= 1 /\ "del" \notin failed =>
        count <= Cardinality(share_file_list) + off

(* ShareOk is sent only when the user's share is in the table, whatever    *)
(* failed before; ShareHad ("somebody has shared this file") only when     *)
(* somebody has, as long as no call failed.  Requests in good order again: *)
(* a cancellation beside the share may delete the row before the answer.   *)
ShareAnswers ==
    [][\A w \in Workers :
          job[w].op = "share" /\ job'[w].op = "none" /\ up' /\ ~astray =>
             /\ answer'[w] = "ok" => OwnShare(job[w].u, job[w].f) # {}
             /\ answer'[w] = "had" /\ "call" \notin failed => SharesOf(job[w].f) # {}]_<<vars, notes>>
===============================================================================
