------------------------------- MODULE FileStore -------------------------------
(***************************************************************************)
(* The life of a stored file: handleDealMd5 (instant upload, api_md5.cc),  *)
(* ApiUpload and storeFileinfo (api_upload.cc), handleSaveFile             *)
(* (api_deal_sharefile.cc) and handleDeleteFile (api_dealfile.cc), run by  *)
(* the threads of the pool over the MySQL tables file_info and             *)
(* user_file_list and over the FastDFS storage.                            *)
(*                                                                         *)
(* One action is one SQL statement or one call of the FastDFS client: this *)
(* is the grain at which handlers interleave.  Only handleDealMd5 runs in  *)
(* a transaction; every other statement commits by itself.                 *)
(*                                                                         *)
(* What the handlers do to the sharing tables and to the Redis keys is not *)
(* read by any statement modelled here; the module keeps whether that part *)
(* of a handler lets it go on (FILE_USER_COUNT is written, never read).    *)
(***************************************************************************)
EXTENDS Integers, FiniteSets

CONSTANTS
    Workers,      \* threads of the pool
    Owners,       \* a user name and a file name: always used together
    Md5s,         \* contents, told apart by their md5
    Ops,          \* the requests of this instance
    Seeded,       \* content that may be stored before the instance starts
    FaultKinds,   \* which calls may fail, see Fault
    MaxFaults,    \* bound: failures in a behaviour
    MaxRequests,  \* bound: requests in a behaviour
    Orderly       \* requests that come in good order: an upload only of content
                  \* unknown to the server, one at a time; a deletion only of
                  \* a file that is in the user's list, once

ASSUME StoreAssumption ==
    /\ IsFiniteSet(Owners)
    /\ Seeded \subseteq Md5s
    /\ MaxFaults \in Nat
    /\ MaxRequests \in Nat
    /\ Ops \subseteq {"md5", "upload", "save", "del"}
    /\ Orderly \subseteq {"upload", "del"}

VARIABLES
    file_info,       \* rows [md5, fid, count]
    user_file_list,  \* rows [id, o, md5]
    fdfs,            \* ids of the files in the storage
    last_id,         \* the last id FastDFS or AUTO_INCREMENT gave out
    job,             \* worker -> the request it runs
    infoLock,        \* md5 -> transactions with a lock on its file_info rows,
                     \*        or on the gap where they would be
    rowLock,         \* <<o, md5>> -> the same for user_file_list
    answer,          \* worker -> code of its last response
    crashes,         \* how often the process died
    faults,          \* failures so far
    requests         \* requests so far

tables == <<file_info, user_file_list, fdfs, last_id>>
locks  == <<infoLock, rowLock>>
counts == <<crashes, faults, requests>>
vars   == <<tables, job, locks, answer, counts>>

Key(w)     == <<job[w].o, job[w].m>>
Info(m)    == {r \in file_info : r.md5 = m}
Rows(k)    == {r \in user_file_list : <<r.o, r.md5>> = k}
RowsOf(m)  == {r \in user_file_list : r.md5 = m}
NoFid      == 0         \* the empty string where a file id is expected
Idle       == [pc |-> "idle", op |-> "none", o |-> "none", m |-> "none",
               cnt |-> 0, fid |-> NoFid, txn |-> FALSE, pend |-> {}]

FirstPc    == [md5 |-> "md5_own", upload |-> "up_store",
               save |-> "save_own", del |-> "del_share"]

(* Nothing stored, or one file that one user has uploaded. *)
Init ==
    /\ \/ /\ Seeded = {}
          /\ file_info = {} /\ user_file_list = {} /\ fdfs = {} /\ last_id = 0
       \/ \E m \in Seeded, o \in Owners :
             /\ file_info = {[md5 |-> m, fid |-> 1, count |-> 1]}
             /\ user_file_list = {[id |-> 2, o |-> o, md5 |-> m]}
             /\ fdfs = {1} /\ last_id = 2
    /\ job = [w \in Workers |-> Idle]
    /\ infoLock = [m \in Md5s |-> {}]
    /\ rowLock = [k \in Owners \X Md5s |-> {}]
    /\ answer = [w \in Workers |-> "none"]
    /\ crashes = 0 /\ faults = 0 /\ requests = 0

-----------------------------------------------------------------------------
(* The worker's side *)

At(w, p)   == job[w].pc = p
Move(w, j) == job' = [job EXCEPT ![w] = j]
Goto(w, p) == Move(w, [job[w] EXCEPT !.pc = p])

(* The handler returns and the response is built. *)
Finish(w, code) ==
    /\ Move(w, Idle)
    /\ answer' = [answer EXCEPT ![w] = code]

(* A call of this kind fails. *)
Fault(kind) ==
    /\ kind \in FaultKinds
    /\ faults < MaxFaults
    /\ faults' = faults + 1

(* The process dies and is restarted: every request in progress is gone,   *)
(* MySQL rolls its transactions back, what was committed or stored stays.  *)
Die ==
    /\ job' = [w \in Workers |-> Idle]
    /\ infoLock' = [m \in Md5s |-> {}]
    /\ rowLock' = [k \in Owners \X Md5s |-> {}]
    /\ crashes' = crashes + 1
    /\ UNCHANGED <<tables, answer, requests>>

(* GetResultOneCount and GetResultOneStatus: when ExecuteQuery returns     *)
(* NULL they set ret = -1 and then call Next() on the NULL.                *)
NullResult == Die

(* CDBConn::ExecuteQuery fails in one of these two functions. *)
QueryFails == Fault("query") /\ NullResult

-----------------------------------------------------------------------------
(* InnoDB's side (external) *)

(* An exclusive record lock, and an insert, wait for every other lock on   *)
(* the key; locks on the gap of an absent key are compatible.              *)
OnlyInfo(w)  == infoLock[job[w].m] \subseteq {w}
OnlyRow(w)   == rowLock[Key(w)] \subseteq {w}

LockInfo(w) == infoLock' = IF job[w].txn
                           THEN [infoLock EXCEPT ![job[w].m] = @ \cup {w}]
                           ELSE infoLock
LockRow(w)  == rowLock' = [rowLock EXCEPT ![Key(w)] = @ \cup {w}]

Unlock(w) ==
    /\ infoLock' = [m \in Md5s |-> infoLock[m] \ {w}]
    /\ rowLock' = [k \in Owners \X Md5s |-> rowLock[k] \ {w}]

(* A row with the worker's key is there, committed or not. *)
RowThere(w) ==
    \/ Rows(Key(w)) # {}
    \/ \E v \in Workers : Key(v) = Key(w) /\ "row" \in job[v].pend

SetCount(m, c) ==
    file_info' = {IF r.md5 = m THEN [r EXCEPT !.count = c] ELSE r : r \in file_info}

InsertRow(w) ==
    /\ user_file_list' = user_file_list \cup
          {[id |-> last_id + 1, o |-> job[w].o, md5 |-> job[w].m]}
    /\ last_id' = last_id + 1

(* mysql_affected_rows counts the rows whose value changed. *)
Affected(m, c) == {r \in Info(m) : r.count # c}

WaitsFor(w, v) ==
    /\ v # w
    /\ \/ At(w, "md5_count") /\ Info(job[w].m) # {} /\ v \in infoLock[job[w].m]
       \/ At(w, "md5_insert") /\ v \in rowLock[Key(w)]

(* InnoDB ends a deadlock by rolling one of the transactions back; its     *)
(* statement returns an error to the handler.                              *)
DeadlockVictim(w) ==
    /\ job[w].txn
    /\ \E v \in Workers : WaitsFor(w, v) /\ WaitsFor(v, w)
    /\ \/ /\ At(w, "md5_count")
          /\ NullResult
          /\ UNCHANGED faults
       \/ /\ At(w, "md5_insert")
          /\ Move(w, [job[w] EXCEPT !.txn = FALSE, !.pend = {},
                                    !.pc = "md5_rollback"])
          /\ Unlock(w)
          /\ UNCHANGED <<tables, answer, counts>>

(* The connection of a transaction breaks between two statements: MySQL    *)
(* rolls back, and mysql_ping, which every Execute function calls first,   *)
(* reconnects (MYSQL_OPT_RECONNECT).  The handler is not told.             *)
Reconnect(w) ==
    /\ Fault("drop")
    /\ job[w].txn
    /\ Move(w, [job[w] EXCEPT !.txn = FALSE, !.pend = {}])
    /\ Unlock(w)
    /\ UNCHANGED <<tables, answer, crashes, requests>>

ProcessCrash == Fault("crash") /\ Die

-----------------------------------------------------------------------------
(* handleDealMd5: instant upload *)

(* Mutant: the query without "for update". *)
Md5Own_NoLock(w) ==
    /\ At(w, "md5_own")
    /\ \/ Rows(Key(w)) # {} /\ Finish(w, "exist")
       \/ /\ Rows(Key(w)) = {}
          /\ Move(w, [job[w] EXCEPT !.txn = TRUE, !.pc = "md5_count"])
          /\ UNCHANGED answer
    /\ UNCHANGED <<tables, locks, counts>>

(* StartTransaction; does the user have the file already (for update)?     *)
(* Yes: Commit, Md5FileExit.  A failed query is taken for a "no".          *)
Md5Own(w) ==
    /\ At(w, "md5_own")
    /\ \/ /\ RowThere(w) => OnlyRow(w)
          /\ Rows(Key(w)) # {}
          /\ Finish(w, "exist")
          /\ UNCHANGED <<rowLock, faults>>
       \/ /\ RowThere(w) => OnlyRow(w)
          /\ Rows(Key(w)) = {}
          /\ LockRow(w)
          /\ Move(w, [job[w] EXCEPT !.txn = TRUE, !.pc = "md5_count"])
          /\ UNCHANGED <<answer, faults>>
       \/ /\ Fault("own")
          /\ Move(w, [job[w] EXCEPT !.txn = TRUE, !.pc = "md5_count"])
          /\ UNCHANGED <<rowLock, answer>>
    /\ UNCHANGED <<tables, infoLock, crashes, requests>>

(* Mutant: the query without "for update". *)
Md5Count_NoLock(w) ==
    /\ At(w, "md5_count")
    /\ \E r \in Info(job[w].m) :
          Move(w, [job[w] EXCEPT !.cnt = r.count, !.pc = "md5_update"])
    /\ UNCHANGED <<tables, locks, answer, counts>>

(* select count ... for update, through GetResultOneCount. *)
Md5Count(w) ==
    /\ At(w, "md5_count")
    /\ \/ QueryFails
       \/ /\ Info(job[w].m) # {} => OnlyInfo(w)
          /\ LockInfo(w)
          /\ \/ \E r \in Info(job[w].m) :
                   Move(w, [job[w] EXCEPT !.cnt = r.count, !.pc = "md5_update"])
             \/ Info(job[w].m) = {} /\ Goto(w, "md5_rollback")
          /\ UNCHANGED <<tables, rowLock, answer, counts>>

(* update file_info set count = count read + 1 (0 affected rows are fine). *)
Md5Update(w) ==
    /\ At(w, "md5_update")
    /\ \/ /\ Fault("update")
          /\ Goto(w, "md5_rollback")
          /\ UNCHANGED file_info
       \/ /\ Info(job[w].m) # {} => OnlyInfo(w)
          /\ IF job[w].txn
             THEN /\ Move(w, [job[w] EXCEPT !.pend = @ \cup {"count"}, !.pc = "md5_insert"])
                  /\ UNCHANGED file_info
             ELSE /\ SetCount(job[w].m, job[w].cnt + 1)
                  /\ Goto(w, "md5_insert")
          /\ UNCHANGED faults
    /\ UNCHANGED <<user_file_list, fdfs, last_id, locks, answer, crashes, requests>>

(* Mutant: a failed insert is passed over. *)
Md5Insert_Unchecked(w) ==
    /\ At(w, "md5_insert")
    /\ \/ Fault("insert") /\ Goto(w, "md5_commit")
       \/ /\ OnlyRow(w)
          /\ Move(w, [job[w] EXCEPT !.pend = @ \cup {"row"}, !.pc = "md5_commit"])
          /\ UNCHANGED faults
    /\ UNCHANGED <<tables, locks, answer, crashes, requests>>

(* insert into user_file_list *)
Md5Insert(w) ==
    /\ At(w, "md5_insert")
    /\ \/ /\ Fault("insert")
          /\ Goto(w, "md5_rollback")
          /\ UNCHANGED <<user_file_list, last_id>>
       \/ /\ OnlyRow(w)
          /\ IF job[w].txn
             THEN /\ Move(w, [job[w] EXCEPT !.pend = @ \cup {"row"}, !.pc = "md5_commit"])
                  /\ UNCHANGED <<user_file_list, last_id>>
             ELSE /\ InsertRow(w)
                  /\ Goto(w, "md5_commit")
          /\ UNCHANGED faults
    /\ UNCHANGED <<file_info, fdfs, locks, answer, crashes, requests>>

(* Commit, whose result is not looked at; Md5Ok *)
Md5Commit(w) ==
    /\ At(w, "md5_commit")
    /\ IF "count" \in job[w].pend
       THEN SetCount(job[w].m, job[w].cnt + 1)
       ELSE UNCHANGED file_info
    /\ IF "row" \in job[w].pend
       THEN InsertRow(w)
       ELSE UNCHANGED <<user_file_list, last_id>>
    /\ Unlock(w)
    /\ Finish(w, "ok")
    /\ UNCHANGED <<fdfs, counts>>

(* Mutant: the handler returns without a rollback. *)
Md5Rollback_None(w) ==
    /\ At(w, "md5_rollback")
    /\ Finish(w, "fail")
    /\ UNCHANGED <<tables, locks, counts>>

(* Rollback; Md5Failed *)
Md5Rollback(w) ==
    /\ At(w, "md5_rollback")
    /\ Unlock(w)
    /\ Finish(w, "fail")
    /\ UNCHANGED <<tables, counts>>

-----------------------------------------------------------------------------
(* ApiUpload *)

(* The temporary file is renamed, stored by fdfs_upload_file, and removed. *)
UpStore(w) ==
    /\ At(w, "up_store")
    /\ \/ /\ Fault("fdfs")
          /\ Finish(w, "fail")
          /\ UNCHANGED <<fdfs, last_id>>
       \/ /\ last_id' = last_id + 1
          /\ fdfs' = fdfs \cup {last_id + 1}
          /\ Move(w, [job[w] EXCEPT !.fid = last_id + 1, !.pc = "up_url"])
          /\ UNCHANGED <<answer, faults>>
    /\ UNCHANGED <<file_info, user_file_list, locks, crashes, requests>>

(* getFullurlByFileid; a failure leaves the stored file behind. *)
UpUrl(w) ==
    /\ At(w, "up_url")
    /\ \/ Fault("fdfs") /\ Finish(w, "fail")
       \/ Goto(w, "up_info") /\ UNCHANGED <<answer, faults>>
    /\ UNCHANGED <<tables, locks, crashes, requests>>

(* Mutant: the uploader is not counted. *)
UpInfo_Zero(w) ==
    /\ At(w, "up_info")
    /\ OnlyInfo(w)
    /\ file_info' = file_info \cup
          {[md5 |-> job[w].m, fid |-> job[w].fid, count |-> 0]}
    /\ Goto(w, "up_row")
    /\ UNCHANGED <<user_file_list, fdfs, last_id, locks, answer, counts>>

(* storeFileinfo, first statement: a new row, whether or not the md5 has   *)
(* one already.                                                            *)
UpInfo(w) ==
    /\ At(w, "up_info")
    /\ \/ /\ Fault("insert")
          /\ Finish(w, "fail")
          /\ UNCHANGED file_info
       \/ /\ OnlyInfo(w)
          /\ file_info' = file_info \cup
                {[md5 |-> job[w].m, fid |-> job[w].fid, count |-> 1]}
          /\ Goto(w, "up_row")
          /\ UNCHANGED <<answer, faults>>
    /\ UNCHANGED <<user_file_list, fdfs, last_id, locks, crashes, requests>>

(* storeFileinfo, second statement. *)
UpRow(w) ==
    /\ At(w, "up_row")
    /\ \/ /\ Fault("insert")
          /\ Finish(w, "fail")
          /\ UNCHANGED <<user_file_list, last_id>>
       \/ /\ OnlyRow(w)
          /\ InsertRow(w)
          /\ Finish(w, "ok")
          /\ UNCHANGED faults
    /\ UNCHANGED <<file_info, fdfs, locks, crashes, requests>>

-----------------------------------------------------------------------------
(* handleSaveFile.  ApiDealsharefile answers HTTP_RESP_OK whatever it      *)
(* returns: no code it returns is negative.                                *)

SaveReply(w) == Finish(w, "ok")

(* Does the user have the file already?  Stop if so, or if the query fails.*)
SaveOwn(w) ==
    /\ At(w, "save_own")
    /\ \/ Fault("query") /\ SaveReply(w)
       \/ Rows(Key(w)) # {} /\ SaveReply(w) /\ UNCHANGED faults
       \/ Rows(Key(w)) = {} /\ Goto(w, "save_count") /\ UNCHANGED <<answer, faults>>
    /\ UNCHANGED <<tables, locks, crashes, requests>>

(* select count, no lock *)
SaveCount(w) ==
    /\ At(w, "save_count")
    /\ \/ QueryFails
       \/ /\ \/ \E r \in Info(job[w].m) :
                   /\ Move(w, [job[w] EXCEPT !.cnt = r.count, !.pc = "save_update"])
                   /\ UNCHANGED answer
             \/ Info(job[w].m) = {} /\ SaveReply(w)
          /\ UNCHANGED <<tables, locks, counts>>

(* update file_info set count = count read + 1; 0 affected rows: stop *)
SaveUpdate(w) ==
    /\ At(w, "save_update")
    /\ \/ /\ Fault("update")
          /\ SaveReply(w)
          /\ UNCHANGED file_info
       \/ /\ Info(job[w].m) # {} => OnlyInfo(w)
          /\ SetCount(job[w].m, job[w].cnt + 1)
          /\ IF Affected(job[w].m, job[w].cnt + 1) = {}
             THEN SaveReply(w)
             ELSE Goto(w, "save_insert") /\ UNCHANGED answer
          /\ UNCHANGED faults
    /\ UNCHANGED <<user_file_list, fdfs, last_id, locks, crashes, requests>>

(* insert into user_file_list, then the counter in Redis, and return *)
SaveInsert(w) ==
    /\ At(w, "save_insert")
    /\ \/ Fault("insert") /\ UNCHANGED <<user_file_list, last_id>>
       \/ OnlyRow(w) /\ InsertRow(w) /\ UNCHANGED faults
    /\ SaveReply(w)
    /\ UNCHANGED <<file_info, fdfs, locks, crashes, requests>>

-----------------------------------------------------------------------------
(* handleDeleteFile.  ApiDealfile goes on to its "unknow cmd" branch after *)
(* a deletion, so the answer is ShareFail in every case.                   *)

DelReply(w) == Finish(w, "fail")

(* The sharing part: Redis or the delete from share_file_list may fail,    *)
(* and the shared_status query may return NULL.                            *)
DelShare(w) ==
    /\ At(w, "del_share")
    /\ \/ QueryFails
       \/ /\ \/ Fault("redis") /\ DelReply(w)
             \/ Goto(w, "del_rows") /\ UNCHANGED <<answer, faults>>
          /\ UNCHANGED <<tables, locks, crashes, requests>>

(* Mutant: "where md5 = ..." without the user and the file name. *)
DelRows_AnyUser(w) ==
    /\ At(w, "del_rows")
    /\ user_file_list' = user_file_list \ RowsOf(job[w].m)
    /\ Goto(w, "del_count")
    /\ UNCHANGED <<file_info, fdfs, last_id, locks, answer, counts>>

(* delete from user_file_list; succeeds when there is nothing to delete *)
DelRows(w) ==
    /\ At(w, "del_rows")
    /\ \/ /\ Fault("delete")
          /\ DelReply(w)
          /\ UNCHANGED user_file_list
       \/ /\ RowThere(w) => OnlyRow(w)
          /\ user_file_list' = user_file_list \ Rows(Key(w))
          /\ Goto(w, "del_count")
          /\ UNCHANGED <<answer, faults>>
    /\ UNCHANGED <<file_info, fdfs, last_id, locks, crashes, requests>>

(* select count, no lock.  A count of 0 goes to the removal without an     *)
(* update; no statement of the program writes a negative one.              *)
DelCount(w) ==
    /\ At(w, "del_count")
    /\ \/ QueryFails
       \/ /\ \/ \E r \in Info(job[w].m) :
                   /\ Move(w, [job[w] EXCEPT !.cnt = r.count,
                         !.pc = IF r.count > 0 THEN "del_update" ELSE "del_fid"])
                   /\ UNCHANGED answer
             \/ Info(job[w].m) = {} /\ DelReply(w)
          /\ UNCHANGED <<tables, locks, counts>>

(* Mutant: the file is removed with its last but one user. *)
DelUpdate_Early(w) ==
    /\ At(w, "del_update")
    /\ SetCount(job[w].m, job[w].cnt - 1)
    /\ IF job[w].cnt - 1 <= 1
       THEN Goto(w, "del_fid") /\ UNCHANGED answer
       ELSE DelReply(w)
    /\ UNCHANGED <<user_file_list, fdfs, last_id, locks, counts>>

(* Mutant: the file is never removed. *)
DelUpdate_Never(w) ==
    /\ At(w, "del_update")
    /\ SetCount(job[w].m, job[w].cnt - 1)
    /\ DelReply(w)
    /\ UNCHANGED <<user_file_list, fdfs, last_id, locks, counts>>

(* update file_info set count = count read - 1; 0 affected rows: stop.  At *)
(* 0 the file is to be removed.                                            *)
DelUpdate(w) ==
    /\ At(w, "del_update")
    /\ \/ /\ Fault("update")
          /\ DelReply(w)
          /\ UNCHANGED file_info
       \/ /\ Info(job[w].m) # {} => OnlyInfo(w)
          /\ SetCount(job[w].m, job[w].cnt - 1)
          /\ IF job[w].cnt - 1 = 0 /\ Affected(job[w].m, 0) # {}
             THEN Goto(w, "del_fid") /\ UNCHANGED answer
             ELSE DelReply(w)
          /\ UNCHANGED faults
    /\ UNCHANGED <<user_file_list, fdfs, last_id, locks, crashes, requests>>

(* select file_id: of one of the rows, or the empty string.  A NULL result *)
(* is dereferenced here too.                                               *)
DelFid(w) ==
    /\ At(w, "del_fid")
    /\ \/ QueryFails
       \/ /\ \/ \E r \in Info(job[w].m) :
                   Move(w, [job[w] EXCEPT !.fid = r.fid, !.pc = "del_info"])
             \/ /\ Info(job[w].m) = {}
                /\ Move(w, [job[w] EXCEPT !.fid = NoFid, !.pc = "del_info"])
          /\ UNCHANGED <<tables, locks, answer, counts>>

(* Mutant: "where md5 = ... and count = 0". *)
DelInfo_IfZero(w) ==
    /\ At(w, "del_info")
    /\ Info(job[w].m) # {} => OnlyInfo(w)
    /\ file_info' = {r \in file_info : r.md5 = job[w].m => r.count # 0}
    /\ Goto(w, "del_file")
    /\ UNCHANGED <<user_file_list, fdfs, last_id, locks, answer, counts>>

(* delete from file_info where md5; a failure is logged and passed over *)
DelInfo(w) ==
    /\ At(w, "del_info")
    /\ \/ Fault("delete_info") /\ UNCHANGED file_info
       \/ /\ Info(job[w].m) # {} => OnlyInfo(w)
          /\ file_info' = file_info \ Info(job[w].m)
          /\ UNCHANGED faults
    /\ Goto(w, "del_file")
    /\ UNCHANGED <<user_file_list, fdfs, last_id, locks, answer, crashes, requests>>

(* RemoveFileFromFastDfs *)
DelFile(w) ==
    /\ At(w, "del_file")
    /\ \/ fdfs' = fdfs \ {job[w].fid} /\ UNCHANGED faults
       \/ Fault("fdfs") /\ UNCHANGED fdfs
    /\ DelReply(w)
    /\ UNCHANGED <<file_info, user_file_list, last_id, locks, crashes, requests>>

-----------------------------------------------------------------------------
(* A request that comes in good order. *)
Expected(op, o, m) ==
    LET running == {w \in Workers : job[w].op = op /\ job[w].m = m}
    IN  /\ op = "upload" => Info(m) = {} /\ running = {}
        /\ op = "del" => /\ Rows(<<o, m>>) # {}
                         /\ \A w \in running : job[w].o # o

(* Mutant: the md5 of the request is not passed on. *)
Start_NoMd5(w) ==
    /\ At(w, "idle")
    /\ requests < MaxRequests
    /\ requests' = requests + 1
    /\ \E op \in Ops, o \in Owners :
          Move(w, [Idle EXCEPT !.pc = FirstPc[op], !.op = op, !.o = o])
    /\ UNCHANGED <<tables, locks, answer, crashes, faults>>

(* A request is handed to an idle thread. *)
Start(w) ==
    /\ At(w, "idle")
    /\ requests < MaxRequests
    /\ requests' = requests + 1
    /\ \E op \in Ops, o \in Owners, m \in Md5s :
          /\ op \in Orderly => Expected(op, o, m)
          /\ Move(w, [Idle EXCEPT !.pc = FirstPc[op], !.op = op, !.o = o, !.m = m])
    /\ UNCHANGED <<tables, locks, answer, crashes, faults>>

Md5Step(w)    == \/ Md5Own(w) \/ Md5Count(w) \/ Md5Update(w) \/ Md5Insert(w)
                 \/ Md5Commit(w) \/ Md5Rollback(w) \/ DeadlockVictim(w)
UploadStep(w) == UpStore(w) \/ UpUrl(w) \/ UpInfo(w) \/ UpRow(w)
SaveStep(w)   == SaveOwn(w) \/ SaveCount(w) \/ SaveUpdate(w) \/ SaveInsert(w)
DeleteStep(w) == \/ DelShare(w) \/ DelRows(w) \/ DelCount(w) \/ DelUpdate(w)
                 \/ DelFid(w) \/ DelInfo(w) \/ DelFile(w)

Work(w) == Md5Step(w) \/ UploadStep(w) \/ SaveStep(w) \/ DeleteStep(w)

Next ==
    \/ ProcessCrash
    \/ \E w \in Workers : Start(w) \/ Work(w) \/ Reconnect(w)

Spec == Init /\ [][Next]_vars

(* A thread that runs a handler goes on with it when its statement is not  *)
(* blocked by a lock.                                                      *)
FairSpec == Spec /\ \A w \in Workers : WF_vars(Work(w))

-----------------------------------------------------------------------------
Pcs == {"idle", "md5_own", "md5_count", "md5_update", "md5_insert",
        "md5_commit", "md5_rollback", "up_store", "up_url", "up_info", "up_row",
        "save_own", "save_count", "save_update", "save_insert", "del_share",
        "del_rows", "del_count", "del_update", "del_fid", "del_info", "del_file"}

InfoRow  == [md5 : Md5s, fid : Nat, count : Int]
OwnerRow == [id : Nat, o : Owners, md5 : Md5s]
Job      == [pc : Pcs, op : DOMAIN FirstPc \cup {"none"},
             o : Owners \cup {"none"}, m : Md5s \cup {"none"},
             cnt : Int, fid : Nat, txn : BOOLEAN, pend : SUBSET {"count", "row"}]

TypeOK ==
    /\ file_info \subseteq InfoRow
    /\ user_file_list \subseteq OwnerRow
    /\ fdfs \subseteq Nat
    /\ last_id \in Nat
    /\ job \in [Workers -> Job]
    /\ \A w \in Workers : ~At(w, "idle") => job[w].o \in Owners /\ job[w].m \in Md5s
    /\ infoLock \in [Md5s -> SUBSET Workers]
    /\ rowLock \in [Owners \X Md5s -> SUBSET Workers]
    /\ answer \in [Workers -> {"none", "ok", "fail", "exist"}]
    /\ crashes \in Nat /\ faults \in Nat /\ requests \in Nat

(* Every file_info row points to a file that is in the storage: ApiUpload  *)
(* stores the file before it inserts the row, and handleDeleteFile deletes *)
(* the rows before it removes the file, for any interleaving of handlers,  *)
(* crash, lost connection or failed call except a failed delete from       *)
(* file_info, which handleDeleteFile passes over.                          *)
NoDangling == \A r \in file_info : r.fid \in fdfs

(* A content is never counted below the number of users that have it, so   *)
(* handleDeleteFile cannot remove it under one of them: instant uploads    *)
(* (handleDealMd5's locks) running with one upload of the content.         *)
NeverUndercounted ==
    \A r \in file_info : Cardinality(RowsOf(r.md5)) <= r.count

(* The "for update" queries of handleDealMd5 keep count equal to the       *)
(* number of users that have the file, in every committed state.           *)
RefCountExact ==
    \A r \in file_info : Cardinality(RowsOf(r.md5)) = r.count

(* Two instant uploads of one user, sent twice or in parallel, do not list *)
(* the file twice (the comment at api_md5.cc:75, phantom reads).           *)
NoDuplicateOwner == \A k \in Owners \X Md5s : Cardinality(Rows(k)) <= 1

(* When handleDealMd5 answers Md5Ok the user does have the file. *)
AckedIsStored ==
    [][\A w \in Workers :
          /\ job[w].op = "md5" /\ job'[w].op = "none"
          /\ answer' # answer /\ answer'[w] = "ok"
          => \E r \in user_file_list' : <<r.o, r.md5>> = Key(w)]_vars

Settled == \A w \in Workers : At(w, "idle")

(* Between requests, count is the number of users that have the file       *)
(* (the comment on file_info.count in db.sql).                             *)
SettledExact == Settled => RefCountExact

(* Between requests, the storage holds exactly the files of file_info, and *)
(* a content has a file_info row exactly when some user has it.            *)
SettledStore ==
    Settled => /\ fdfs = {r.fid : r \in file_info}
               /\ {r.md5 : r \in file_info} = {r.md5 : r \in user_file_list}

(* When handleDeleteFile has counted down to 0, "no user refers to this    *)
(* file" (the comment at api_dealfile.cc:297).                             *)
ZeroMeansUnreferenced ==
    \A w \in Workers : At(w, "del_fid") => RowsOf(job[w].m) = {}

(* A failed query gives -1 and an error response (the comment at           *)
(* tc_common.cc:203); it does not take the process down.                   *)
NeverCrashes == crashes = 0

(* No handler waits for ever: for a lock, InnoDB's deadlock detection or   *)
(* the end of the transaction that holds it lets it go on.                 *)
RequestsAnswered == \A w \in Workers : ~At(w, "idle") ~> At(w, "idle")
=============================================================================
