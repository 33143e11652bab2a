---------------------------- MODULE FileStoreProofs ----------------------------
(***************************************************************************)
(* Proofs about FileStore, for every number of workers, users, contents,   *)
(* requests and failures:                                                  *)
(*   - type correctness, and that a row of file_info has its file;         *)
(*   - that an instant upload that was acknowledged is stored;             *)
(*   - that the count of a content is never below the number of its users, *)
(*     exact where only instant uploads run, and that these list no file   *)
(*     twice;                                                              *)
(*   - that with all four handlers count, lists and storage agree whenever *)
(*     no request about a content is under way, where requests about one   *)
(*     content do not overlap.                                             *)
(***************************************************************************)
EXTENDS FileStore, FiniteSetTheorems, TLAPS

-------------------------------------------------------------------------------
(* Type correctness *)

LEMMA InitType == Init => TypeOK
<1> SUFFICES ASSUME Init PROVE TypeOK
  OBVIOUS
<1>1. /\ file_info \subseteq InfoRow
      /\ user_file_list \subseteq OwnerRow
      /\ fdfs \subseteq Nat
      /\ last_id \in Nat
  BY StoreAssumption DEF Init, InfoRow, OwnerRow
<1>2. job \in [Workers -> Job] /\ \A w \in Workers : At(w, "idle")
  BY DEF Init, Idle, Job, Pcs, NoFid, FirstPc, At
<1>3. /\ infoLock \in [Md5s -> SUBSET Workers]
      /\ rowLock \in [Owners \X Md5s -> SUBSET Workers]
      /\ answer \in [Workers -> {"none", "ok", "fail", "exist"}]
      /\ crashes \in Nat /\ faults \in Nat /\ requests \in Nat
  BY DEF Init
<1> QED BY <1>1, <1>2, <1>3 DEF TypeOK

(* The parts of TypeOK, so that a step has to mention only what it changes. *)
JobOK    == /\ job \in [Workers -> Job]
            /\ \A w \in Workers : ~At(w, "idle") => job[w].o \in Owners /\ job[w].m \in Md5s
TablesOK == /\ file_info \subseteq InfoRow
            /\ user_file_list \subseteq OwnerRow
            /\ fdfs \subseteq Nat
            /\ last_id \in Nat
LocksOK  == /\ infoLock \in [Md5s -> SUBSET Workers]
            /\ rowLock \in [Owners \X Md5s -> SUBSET Workers]
RestOK   == /\ answer \in [Workers -> {"none", "ok", "fail", "exist"}]
            /\ crashes \in Nat /\ faults \in Nat /\ requests \in Nat

LEMMA TypeParts == TypeOK <=> JobOK /\ TablesOK /\ LocksOK /\ RestOK
BY DEF TypeOK, JobOK, TablesOK, LocksOK, RestOK

LEMMA TypePartsNext == TypeOK' <=> JobOK' /\ TablesOK' /\ LocksOK' /\ RestOK'
BY DEF TypeOK, JobOK, TablesOK, LocksOK, RestOK

(* A worker moves on to another statement of the same request. *)
LEMMA MoveType ==
    ASSUME JobOK, NEW w \in Workers, ~At(w, "idle"), NEW j, Move(w, j),
           j \in Job, j.o = job[w].o, j.m = job[w].m
    PROVE  JobOK'
BY DEF JobOK, At, Move

LEMMA GotoType ==
    ASSUME JobOK, NEW w \in Workers, ~At(w, "idle"), NEW p \in Pcs, Goto(w, p)
    PROVE  JobOK'
<1> DEFINE j == [job[w] EXCEPT !.pc = p]
<1>1. j \in Job /\ j.o = job[w].o /\ j.m = job[w].m
  BY DEF JobOK, Job
<1> QED BY <1>1, MoveType DEF Goto

LEMMA FinishType ==
    ASSUME JobOK, RestOK, NEW w \in Workers,
           NEW code \in {"ok", "fail", "exist"}, Finish(w, code)
    PROVE  JobOK' /\ answer' \in [Workers -> {"none", "ok", "fail", "exist"}]
<1>1. Idle \in Job /\ Idle.pc = "idle"
  BY DEF Job, Idle, Pcs, NoFid, FirstPc
<1> QED BY <1>1 DEF JobOK, RestOK, Finish, Move, At

LEMMA DieType ==
    ASSUME TypeOK, Die, faults' \in Nat
    PROVE  TypeOK'
<1>1. JobOK'
  BY DEF Die, JobOK, Job, Idle, Pcs, NoFid, At, FirstPc
<1>2. TablesOK' /\ LocksOK' /\ RestOK'
  BY DEF Die, TypeOK, TablesOK, LocksOK, RestOK, tables
<1> QED BY <1>1, <1>2, TypePartsNext

LEMMA SetCountType ==
    ASSUME TablesOK, NEW m, NEW c \in Int, SetCount(m, c)
    PROVE  file_info' \subseteq InfoRow
BY DEF TablesOK, SetCount, InfoRow

LEMMA InsertRowType ==
    ASSUME TablesOK, JobOK, NEW w \in Workers, ~At(w, "idle"), InsertRow(w)
    PROVE  user_file_list' \subseteq OwnerRow /\ last_id' \in Nat
BY DEF TablesOK, JobOK, InsertRow, OwnerRow

LEMMA LockType ==
    ASSUME TypeOK, NEW w \in Workers, ~At(w, "idle")
    PROVE  /\ Unlock(w) => LocksOK'
           /\ LockInfo(w) => infoLock' \in [Md5s -> SUBSET Workers]
           /\ LockRow(w) => rowLock' \in [Owners \X Md5s -> SUBSET Workers]
<1>1. Unlock(w) => LocksOK'
  BY DEF TypeOK, Unlock, LocksOK
<1>2. LockInfo(w) => infoLock' \in [Md5s -> SUBSET Workers]
  BY DEF TypeOK, LockInfo
<1>3. LockRow(w) => rowLock' \in [Owners \X Md5s -> SUBSET Workers]
  BY DEF TypeOK, LockRow, Key
<1> QED BY <1>1, <1>2, <1>3

LEMMA QueryFailsType ==
    ASSUME TypeOK, QueryFails
    PROVE  TypeOK'
<1>1. faults' \in Nat
  BY DEF QueryFails, Fault, TypeOK
<1> QED BY <1>1, DieType DEF QueryFails, NullResult

LEMMA Md5Type ==
    ASSUME TypeOK, NEW w \in Workers, Md5Step(w)
    PROVE  TypeOK'
<1>0. JobOK /\ TablesOK /\ LocksOK /\ RestOK
  BY TypeParts
<1>1. CASE Md5Own(w)
  <2>0. ~At(w, "idle")
    BY <1>1 DEF Md5Own, At
  <2>1. JobOK' /\ answer' \in [Workers -> {"none", "ok", "fail", "exist"}]
    <3>1. CASE Finish(w, "exist")
      BY <1>0, <3>1, FinishType
    <3>2. CASE Move(w, [job[w] EXCEPT !.txn = TRUE, !.pc = "md5_count"]) /\ UNCHANGED answer
      <4> DEFINE j == [job[w] EXCEPT !.txn = TRUE, !.pc = "md5_count"]
      <4>1. j \in Job /\ j.o = job[w].o /\ j.m = job[w].m
        BY <1>0, ZenonT(60) DEF JobOK, Job, Pcs
      <4> QED BY <1>0, <2>0, <3>2, <4>1, MoveType DEF RestOK
    <3> QED BY <1>1, <3>1, <3>2 DEF Md5Own
  <2>2. TablesOK' /\ RestOK'
    BY <1>0, <1>1, <2>1 DEF Md5Own, TablesOK, RestOK, tables, Fault
  <2>3. LocksOK'
    BY <1>0, <1>1, <2>0, LockType DEF Md5Own, LocksOK
  <2> QED BY <2>1, <2>2, <2>3, TypePartsNext
<1>2. CASE Md5Count(w)
  <2>0. ~At(w, "idle")
    BY <1>2 DEF Md5Count, At
  <2>1. CASE QueryFails
    BY <2>1, QueryFailsType
  <2>2. CASE ~QueryFails
    <3>1. JobOK'
      <4>1. CASE Goto(w, "md5_rollback")
        BY <1>0, <2>0, <4>1, GotoType DEF Pcs
      <4>2. ASSUME NEW r \in Info(job[w].m),
                   Move(w, [job[w] EXCEPT !.cnt = r.count, !.pc = "md5_update"])
            PROVE  JobOK'
        <5> DEFINE j == [job[w] EXCEPT !.cnt = r.count, !.pc = "md5_update"]
        <5>1. j \in Job /\ j.o = job[w].o /\ j.m = job[w].m
          BY <1>0, ZenonT(60) DEF JobOK, Job, Pcs, Info, TablesOK, InfoRow
        <5> QED BY <1>0, <2>0, <4>2, <5>1, MoveType
      <4> QED BY <1>2, <2>2, <4>1, <4>2 DEF Md5Count
    <3>2. TablesOK' /\ RestOK'
      BY <1>0, <1>2, <2>2 DEF Md5Count, TablesOK, RestOK, tables, counts
    <3>3. LocksOK'
      BY <1>0, <1>2, <2>0, <2>2, LockType DEF Md5Count, LocksOK
    <3> QED BY <3>1, <3>2, <3>3, TypePartsNext
  <2> QED BY <2>1, <2>2
<1>3. CASE Md5Update(w)
  <2>0. ~At(w, "idle")
    BY <1>3 DEF Md5Update, At
  <2>1. JobOK'
    <3>1. CASE \E p \in {"md5_rollback", "md5_insert"} : Goto(w, p)
      BY <1>0, <2>0, <3>1, GotoType DEF Pcs
    <3>2. CASE Move(w, [job[w] EXCEPT !.pend = @ \cup {"count"}, !.pc = "md5_insert"])
      <4> DEFINE j == [job[w] EXCEPT !.pend = @ \cup {"count"}, !.pc = "md5_insert"]
      <4>1. j \in Job /\ j.o = job[w].o /\ j.m = job[w].m
        BY <1>0, ZenonT(60) DEF JobOK, Job, Pcs
      <4> QED BY <1>0, <2>0, <3>2, <4>1, MoveType
    <3> QED BY <1>3, <3>1, <3>2 DEF Md5Update
  <2>2. file_info' \subseteq InfoRow
    <3>1. job[w].cnt + 1 \in Int
      BY <1>0 DEF JobOK, Job
    <3> QED BY <1>0, <1>3, <3>1, SetCountType DEF Md5Update, TablesOK
  <2>3. TablesOK' /\ LocksOK' /\ RestOK'
    BY <1>0, <1>3, <2>2 DEF Md5Update, TablesOK, LocksOK, RestOK, locks, Fault
  <2> QED BY <2>1, <2>3, TypePartsNext
<1>4. CASE Md5Insert(w)
  <2>0. ~At(w, "idle")
    BY <1>4 DEF Md5Insert, At
  <2>1. JobOK'
    <3>1. CASE \E p \in {"md5_rollback", "md5_commit"} : Goto(w, p)
      BY <1>0, <2>0, <3>1, GotoType DEF Pcs
    <3>2. CASE Move(w, [job[w] EXCEPT !.pend = @ \cup {"row"}, !.pc = "md5_commit"])
      <4> DEFINE j == [job[w] EXCEPT !.pend = @ \cup {"row"}, !.pc = "md5_commit"]
      <4>1. j \in Job /\ j.o = job[w].o /\ j.m = job[w].m
        BY <1>0, ZenonT(60) DEF JobOK, Job, Pcs
      <4> QED BY <1>0, <2>0, <3>2, <4>1, MoveType
    <3> QED BY <1>4, <3>1, <3>2 DEF Md5Insert
  <2>2. user_file_list' \subseteq OwnerRow /\ last_id' \in Nat
    BY <1>0, <1>4, <2>0, InsertRowType DEF Md5Insert, TablesOK
  <2>3. TablesOK' /\ LocksOK' /\ RestOK'
    BY <1>0, <1>4, <2>2 DEF Md5Insert, TablesOK, LocksOK, RestOK, locks, Fault
  <2> QED BY <2>1, <2>3, TypePartsNext
<1>5. CASE Md5Commit(w)
  <2>0. ~At(w, "idle")
    BY <1>5 DEF Md5Commit, At
  <2>1. JobOK' /\ answer' \in [Workers -> {"none", "ok", "fail", "exist"}]
    BY <1>0, <1>5, FinishType DEF Md5Commit
  <2>2. file_info' \subseteq InfoRow
    <3>1. job[w].cnt + 1 \in Int
      BY <1>0 DEF JobOK, Job
    <3> QED BY <1>0, <1>5, <3>1, SetCountType DEF Md5Commit, TablesOK
  <2>3. user_file_list' \subseteq OwnerRow /\ last_id' \in Nat
    BY <1>0, <1>5, <2>0, InsertRowType DEF Md5Commit, TablesOK
  <2>4. LocksOK'
    BY <1>5, <2>0, LockType DEF Md5Commit
  <2>5. TablesOK' /\ RestOK'
    BY <1>0, <1>5, <2>1, <2>2, <2>3 DEF Md5Commit, TablesOK, RestOK, counts
  <2> QED BY <2>1, <2>4, <2>5, TypePartsNext
<1>6. CASE Md5Rollback(w)
  <2>0. ~At(w, "idle")
    BY <1>6 DEF Md5Rollback, At
  <2>1. JobOK' /\ answer' \in [Workers -> {"none", "ok", "fail", "exist"}]
    BY <1>0, <1>6, FinishType DEF Md5Rollback
  <2>2. LocksOK'
    BY <1>6, <2>0, LockType DEF Md5Rollback
  <2>3. TablesOK' /\ RestOK'
    BY <1>0, <1>6, <2>1 DEF Md5Rollback, TablesOK, RestOK, counts, tables
  <2> QED BY <2>1, <2>2, <2>3, TypePartsNext
<1>7. CASE DeadlockVictim(w)
  <2>1. CASE NullResult /\ UNCHANGED faults
    BY <1>0, <2>1, DieType DEF NullResult, RestOK
  <2>2. CASE /\ At(w, "md5_insert")
             /\ Move(w, [job[w] EXCEPT !.txn = FALSE, !.pend = {},
                                       !.pc = "md5_rollback"])
             /\ Unlock(w)
             /\ UNCHANGED <<tables, answer, counts>>
    <3>1. ~At(w, "idle")
      BY <2>2 DEF At
    <3>2. JobOK'
      <4> DEFINE j == [job[w] EXCEPT !.txn = FALSE, !.pend = {}, !.pc = "md5_rollback"]
      <4>1. j \in Job /\ j.o = job[w].o /\ j.m = job[w].m
        BY <1>0, ZenonT(60) DEF JobOK, Job, Pcs
      <4> QED BY <1>0, <2>2, <3>1, <4>1, MoveType
    <3>3. LocksOK'
      BY <2>2, <3>1, LockType
    <3>4. TablesOK' /\ RestOK'
      BY <1>0, <2>2 DEF TablesOK, RestOK, tables, counts
    <3> QED BY <3>2, <3>3, <3>4, TypePartsNext
  <2> QED BY <1>7, <2>1, <2>2 DEF DeadlockVictim
<1> QED BY <1>1, <1>2, <1>3, <1>4, <1>5, <1>6, <1>7 DEF Md5Step

LEMMA UploadType ==
    ASSUME TypeOK, NEW w \in Workers, UploadStep(w)
    PROVE  TypeOK'
<1>0. JobOK /\ TablesOK /\ LocksOK /\ RestOK
  BY TypeParts
<1> DEFINE Replied == JobOK' /\ answer' \in [Workers -> {"none", "ok", "fail", "exist"}]
<1>1. ~At(w, "idle")
  BY DEF UploadStep, UpStore, UpUrl, UpInfo, UpRow, At
<1>2. ASSUME NEW code \in {"ok", "fail"}, Finish(w, code) PROVE Replied
  BY <1>0, <1>2, FinishType
<1>3. ASSUME NEW p \in Pcs, Goto(w, p), UNCHANGED answer PROVE Replied
  BY <1>0, <1>1, <1>3, GotoType DEF RestOK
<1>4. CASE UpStore(w)
  <2>1. Replied
    <3> DEFINE j == [job[w] EXCEPT !.fid = last_id + 1, !.pc = "up_url"]
    <3>1. j \in Job /\ j.o = job[w].o /\ j.m = job[w].m
      <4> DEFINE n == last_id + 1
      <4>1. n \in Nat
        BY <1>0 DEF TablesOK
      <4>2. j = [job[w] EXCEPT !.fid = n, !.pc = "up_url"]
        OBVIOUS
      <4> HIDE DEF n, j
      <4>3. job[w] \in Job
        BY <1>0 DEF JobOK
      <4> QED BY <4>1, <4>2, <4>3 DEF Job, Pcs
    <3>2. CASE Finish(w, "fail")
      BY <1>2, <3>2
    <3>3. CASE Move(w, j) /\ UNCHANGED answer
      <4>1. answer' \in [Workers -> {"none", "ok", "fail", "exist"}]
        BY <1>0, <3>3 DEF RestOK
      <4> HIDE DEF j
      <4>2. JobOK'
        BY <1>0, <1>1, <3>1, <3>3, MoveType
      <4> QED BY <4>1, <4>2
    <3>4. Finish(w, "fail") \/ (Move(w, j) /\ UNCHANGED answer)
      BY <1>4, Zenon DEF UpStore
    <3> QED BY <3>2, <3>3, <3>4
  <2>2. TablesOK' /\ LocksOK' /\ RestOK'
    BY <1>0, <1>4, <2>1 DEF UpStore, TablesOK, LocksOK, RestOK, locks, Fault
  <2> QED BY <2>1, <2>2, TypePartsNext
<1>5. CASE UpUrl(w)
  <2>1. Replied
    BY <1>2, <1>3, <1>5 DEF UpUrl, Pcs
  <2>2. TablesOK' /\ LocksOK' /\ RestOK'
    BY <1>0, <1>5, <2>1 DEF UpUrl, TablesOK, LocksOK, RestOK, locks, tables, Fault
  <2> QED BY <2>1, <2>2, TypePartsNext
<1>6. CASE UpInfo(w)
  <2>1. Replied
    BY <1>2, <1>3, <1>6 DEF UpInfo, Pcs
  <2>2. [md5 |-> job[w].m, fid |-> job[w].fid, count |-> 1] \in InfoRow
    BY <1>0, <1>1 DEF JobOK, Job, InfoRow
  <2>3. TablesOK' /\ LocksOK' /\ RestOK'
    BY <1>0, <1>6, <2>1, <2>2 DEF UpInfo, TablesOK, LocksOK, RestOK, locks, Fault
  <2> QED BY <2>1, <2>3, TypePartsNext
<1>7. CASE UpRow(w)
  <2>1. Replied
    BY <1>2, <1>7 DEF UpRow
  <2>2. user_file_list' \subseteq OwnerRow /\ last_id' \in Nat
    BY <1>0, <1>1, <1>7, InsertRowType DEF UpRow, TablesOK
  <2>3. TablesOK' /\ LocksOK' /\ RestOK'
    BY <1>0, <1>7, <2>1, <2>2 DEF UpRow, TablesOK, LocksOK, RestOK, locks, Fault
  <2> QED BY <2>1, <2>3, TypePartsNext
<1> QED BY <1>4, <1>5, <1>6, <1>7 DEF UploadStep

LEMMA SaveType ==
    ASSUME TypeOK, NEW w \in Workers, SaveStep(w)
    PROVE  TypeOK'
<1>0. JobOK /\ TablesOK /\ LocksOK /\ RestOK
  BY TypeParts
<1> DEFINE Replied == JobOK' /\ answer' \in [Workers -> {"none", "ok", "fail", "exist"}]
<1>1. ~At(w, "idle")
  BY DEF SaveStep, SaveOwn, SaveCount, SaveUpdate, SaveInsert, At
<1>2. SaveReply(w) => Replied
  BY <1>0, FinishType DEF SaveReply
<1>3. ASSUME NEW p \in Pcs, Goto(w, p), UNCHANGED answer PROVE Replied
  BY <1>0, <1>1, <1>3, GotoType DEF RestOK
<1>4. CASE SaveOwn(w)
  <2>1. Replied
    BY <1>2, <1>3, <1>4 DEF SaveOwn, Pcs
  <2>2. TablesOK' /\ LocksOK' /\ RestOK'
    BY <1>0, <1>4, <2>1 DEF SaveOwn, TablesOK, LocksOK, RestOK, locks, tables, Fault
  <2> QED BY <2>1, <2>2, TypePartsNext
<1>5. CASE SaveCount(w) /\ ~QueryFails
  <2>1. Replied
    <3>1. ASSUME NEW r \in Info(job[w].m), UNCHANGED answer,
                 Move(w, [job[w] EXCEPT !.cnt = r.count, !.pc = "save_update"])
          PROVE  Replied
      <4> DEFINE j == [job[w] EXCEPT !.cnt = r.count, !.pc = "save_update"]
      <4>1. j \in Job /\ j.o = job[w].o /\ j.m = job[w].m
        BY <1>0, ZenonT(60) DEF JobOK, Job, Pcs, Info, TablesOK, InfoRow
      <4> QED BY <1>0, <1>1, <3>1, <4>1, MoveType DEF RestOK
    <3> QED BY <1>2, <1>5, <3>1 DEF SaveCount
  <2>2. TablesOK' /\ LocksOK' /\ RestOK'
    BY <1>0, <1>5, <2>1 DEF SaveCount, TablesOK, LocksOK, RestOK, locks, tables, counts
  <2> QED BY <2>1, <2>2, TypePartsNext
<1>6. CASE SaveUpdate(w)
  <2>1. Replied
    BY <1>2, <1>3, <1>6 DEF SaveUpdate, Pcs
  <2>2. file_info' \subseteq InfoRow
    <3>1. job[w].cnt + 1 \in Int
      BY <1>0 DEF JobOK, Job
    <3> QED BY <1>0, <1>6, <3>1, SetCountType DEF SaveUpdate, TablesOK
  <2>3. TablesOK' /\ LocksOK' /\ RestOK'
    BY <1>0, <1>6, <2>1, <2>2 DEF SaveUpdate, TablesOK, LocksOK, RestOK, locks, Fault
  <2> QED BY <2>1, <2>3, TypePartsNext
<1>7. CASE SaveInsert(w)
  <2>1. Replied
    BY <1>2, <1>7 DEF SaveInsert
  <2>2. user_file_list' \subseteq OwnerRow /\ last_id' \in Nat
    BY <1>0, <1>1, <1>7, InsertRowType DEF SaveInsert, TablesOK
  <2>3. TablesOK' /\ LocksOK' /\ RestOK'
    BY <1>0, <1>7, <2>1, <2>2 DEF SaveInsert, TablesOK, LocksOK, RestOK, locks, Fault
  <2> QED BY <2>1, <2>3, TypePartsNext
<1>8. CASE SaveCount(w) /\ QueryFails
  BY <1>8, QueryFailsType
<1> QED BY <1>4, <1>5, <1>6, <1>7, <1>8 DEF SaveStep

LEMMA DeleteType ==
    ASSUME TypeOK, NEW w \in Workers, DeleteStep(w)
    PROVE  TypeOK'
<1>0. JobOK /\ TablesOK /\ LocksOK /\ RestOK
  BY TypeParts
<1> DEFINE Replied == JobOK' /\ answer' \in [Workers -> {"none", "ok", "fail", "exist"}]
<1>1. ~At(w, "idle")
  BY DEF DeleteStep, DelShare, DelRows, DelCount, DelUpdate, DelFid, DelInfo, DelFile, At
<1>2. DelReply(w) => Replied
  BY <1>0, FinishType DEF DelReply
<1>3. ASSUME NEW p \in Pcs, Goto(w, p), UNCHANGED answer PROVE Replied
  BY <1>0, <1>1, <1>3, GotoType DEF RestOK
<1>4. CASE DelShare(w) /\ ~QueryFails
  <2>1. Replied
    BY <1>2, <1>3, <1>4 DEF DelShare, Pcs
  <2>2. UNCHANGED <<tables, locks, crashes, requests>> /\ (Fault("redis") \/ UNCHANGED faults)
    BY <1>4 DEF DelShare
  <2>3. TablesOK' /\ LocksOK'
    BY <1>0, <2>2 DEF TablesOK, LocksOK, locks, tables
  <2>4. RestOK'
    BY <1>0, <2>1, <2>2 DEF RestOK, Fault
  <2> QED BY <2>1, <2>3, <2>4, TypePartsNext
<1>5. CASE DelRows(w)
  <2>1. Replied
    BY <1>2, <1>3, <1>5 DEF DelRows, Pcs
  <2>2. TablesOK' /\ LocksOK' /\ RestOK'
    BY <1>0, <1>5, <2>1 DEF DelRows, TablesOK, LocksOK, RestOK, locks, Fault
  <2> QED BY <2>1, <2>2, TypePartsNext
<1>6. CASE DelCount(w) /\ ~QueryFails
  <2>1. Replied
    <3>1. ASSUME NEW r \in Info(job[w].m), UNCHANGED answer,
                 Move(w, [job[w] EXCEPT !.cnt = r.count,
                         !.pc = IF r.count > 0 THEN "del_update" ELSE "del_fid"])
          PROVE  Replied
      <4> DEFINE p == IF r.count > 0 THEN "del_update" ELSE "del_fid"
      <4> DEFINE j == [job[w] EXCEPT !.cnt = r.count, !.pc = p]
      <4>1. p \in Pcs
        BY DEF Pcs
      <4>2. Move(w, j)
        BY <3>1
      <4> HIDE DEF p
      <4>3. j \in Job /\ j.o = job[w].o /\ j.m = job[w].m
        BY <1>0, <4>1 DEF JobOK, Job, Info, TablesOK, InfoRow
      <4> QED BY <1>0, <1>1, <3>1, <4>2, <4>3, MoveType DEF RestOK
    <3> QED BY <1>2, <1>6, <3>1 DEF DelCount
  <2>2. TablesOK' /\ LocksOK' /\ RestOK'
    BY <1>0, <1>6, <2>1 DEF DelCount, TablesOK, LocksOK, RestOK, locks, tables, counts
  <2> QED BY <2>1, <2>2, TypePartsNext
<1>7. CASE DelUpdate(w)
  <2>1. Replied
    BY <1>2, <1>3, <1>7 DEF DelUpdate, Pcs
  <2>2. file_info' \subseteq InfoRow
    <3>1. job[w].cnt - 1 \in Int
      BY <1>0 DEF JobOK, Job
    <3> QED BY <1>0, <1>7, <3>1, SetCountType DEF DelUpdate, TablesOK
  <2>3. TablesOK' /\ LocksOK' /\ RestOK'
    BY <1>0, <1>7, <2>1, <2>2 DEF DelUpdate, TablesOK, LocksOK, RestOK, locks, Fault
  <2> QED BY <2>1, <2>3, TypePartsNext
<1>8. CASE DelFid(w) /\ ~QueryFails
  <2>1. Replied
    <3>1. ASSUME NEW f \in Nat, UNCHANGED answer,
                 Move(w, [job[w] EXCEPT !.fid = f, !.pc = "del_info"])
          PROVE  Replied
      <4> DEFINE j == [job[w] EXCEPT !.fid = f, !.pc = "del_info"]
      <4>1. j \in Job /\ j.o = job[w].o /\ j.m = job[w].m
        BY <1>0, ZenonT(60) DEF JobOK, Job, Pcs
      <4> QED BY <1>0, <1>1, <3>1, <4>1, MoveType DEF RestOK
    <3>2. NoFid \in Nat /\ \A r \in Info(job[w].m) : r.fid \in Nat
      BY <1>0 DEF NoFid, Info, TablesOK, InfoRow
    <3> QED BY <1>8, <3>1, <3>2 DEF DelFid
  <2>2. TablesOK' /\ LocksOK' /\ RestOK'
    BY <1>0, <1>8, <2>1 DEF DelFid, TablesOK, LocksOK, RestOK, locks, tables, counts
  <2> QED BY <2>1, <2>2, TypePartsNext
<1>9. CASE DelInfo(w)
  <2>1. Replied
    BY <1>3, <1>9 DEF DelInfo, Pcs
  <2>2. TablesOK' /\ LocksOK' /\ RestOK'
    BY <1>0, <1>9, <2>1 DEF DelInfo, TablesOK, LocksOK, RestOK, locks, Fault
  <2> QED BY <2>1, <2>2, TypePartsNext
<1>10. CASE DelFile(w)
  <2>1. Replied
    BY <1>2, <1>10 DEF DelFile
  <2>2. fdfs' \subseteq Nat
    BY <1>0, <1>10 DEF DelFile, TablesOK
  <2>3. /\ UNCHANGED <<file_info, user_file_list, last_id, locks, crashes, requests>>
        /\ Fault("fdfs") \/ UNCHANGED faults
    BY <1>10 DEF DelFile
  <2>4. TablesOK' /\ LocksOK'
    BY <1>0, <2>2, <2>3 DEF TablesOK, LocksOK, locks
  <2>5. RestOK'
    BY <1>0, <2>1, <2>3 DEF RestOK, Fault
  <2> QED BY <2>1, <2>4, <2>5, TypePartsNext
<1>11. CASE QueryFails
  BY <1>11, QueryFailsType
<1> QED BY <1>4, <1>5, <1>6, <1>7, <1>8, <1>9, <1>10, <1>11 DEF DeleteStep

LEMMA OtherType ==
    ASSUME TypeOK, NEW w \in Workers, Start(w) \/ Reconnect(w)
    PROVE  TypeOK'
<1>0. JobOK /\ TablesOK /\ LocksOK /\ RestOK
  BY TypeParts
<1>1. CASE Start(w)
  <2>1. PICK op \in Ops, o \in Owners, m \in Md5s :
           Move(w, [Idle EXCEPT !.pc = FirstPc[op], !.op = op, !.o = o, !.m = m])
    BY <1>1 DEF Start
  <2> DEFINE j == [Idle EXCEPT !.pc = FirstPc[op], !.op = op, !.o = o, !.m = m]
  <2>2. FirstPc[op] \in Pcs /\ op \in DOMAIN FirstPc
    BY StoreAssumption DEF FirstPc, Pcs
  <2>3. Idle \in Job
    BY DEF Idle, NoFid, Job, Pcs, FirstPc
  <2>4. Move(w, j)
    BY <2>1
  <2>5. j \in Job /\ j.o \in Owners /\ j.m \in Md5s
    BY <2>2, <2>3 DEF Job
  <2> HIDE DEF j
  <2>6. JobOK'
    BY <1>0, <2>4, <2>5 DEF JobOK, At, Move
  <2>7. requests' = requests + 1 /\ UNCHANGED <<tables, locks, answer, crashes, faults>>
    BY <1>1 DEF Start
  <2>8. TablesOK' /\ LocksOK' /\ RestOK'
    BY <1>0, <2>7 DEF TablesOK, LocksOK, RestOK, locks, tables
  <2> QED BY <2>6, <2>8, TypePartsNext
<1>2. CASE Reconnect(w)
  <2> DEFINE j == [job[w] EXCEPT !.txn = FALSE, !.pend = {}]
  <2>1. j \in Job /\ j.o = job[w].o /\ j.m = job[w].m /\ j.pc = job[w].pc
    BY <1>0 DEF JobOK, Job
  <2>2. Move(w, j)
    BY <1>2 DEF Reconnect
  <2> HIDE DEF j
  <2>3. JobOK'
    BY <1>0, <2>1, <2>2 DEF JobOK, At, Move
  <2>4. LocksOK'
    BY <1>0, <1>2 DEF Reconnect, LocksOK, Unlock
  <2>5. TablesOK' /\ RestOK'
    BY <1>0, <1>2 DEF Reconnect, TablesOK, RestOK, tables, Fault
  <2> QED BY <2>3, <2>4, <2>5, TypePartsNext
<1> QED BY <1>1, <1>2

LEMMA CrashType == ASSUME TypeOK, ProcessCrash PROVE TypeOK'
<1>1. faults' \in Nat
  BY DEF ProcessCrash, Fault, TypeOK
<1> QED BY <1>1, DieType DEF ProcessCrash

LEMMA NextType == TypeOK /\ [Next]_vars => TypeOK'
<1> SUFFICES ASSUME TypeOK, [Next]_vars PROVE TypeOK'
  OBVIOUS
<1>1. CASE UNCHANGED vars
  BY <1>1 DEF TypeOK, vars, tables, locks, counts, At
<1>2. CASE ProcessCrash
  BY <1>2, CrashType
<1>3. ASSUME NEW w \in Workers, Start(w) \/ Work(w) \/ Reconnect(w)
      PROVE  TypeOK'
  BY <1>3, OtherType, Md5Type, UploadType, SaveType, DeleteType DEF Work
<1> QED BY <1>1, <1>2, <1>3 DEF Next

(* Every reachable state has its declared types: a worker that runs a      *)
(* request knows the user and the content it is about, and every row of    *)
(* the tables names a content the requests can name.                       *)
THEOREM TypeCorrect == Spec => []TypeOK
BY InitType, NextType, PTL DEF Spec

-------------------------------------------------------------------------------
(* No dangling row.  NoDangling is not inductive: what keeps it is where   *)
(* the file ids are that a handler has read or been given.                 *)

Uploading(w) == job[w].pc \in {"up_url", "up_info"}     \* stored, no row yet
Removing(w)  == job[w].pc \in {"del_info", "del_file"}  \* file_id was read

LinksOK ==
    /\ \A r \in file_info : r.fid \in fdfs /\ r.fid # NoFid /\ r.fid <= last_id
    /\ \A r, q \in file_info : r.fid = q.fid => r.md5 = q.md5

FidsGiven == \A w \in Workers : job[w].fid <= last_id

(* The id of a file that is being uploaded is known to nobody else. *)
FreshUploads ==
    \A w \in Workers : Uploading(w) =>
        /\ job[w].fid \in fdfs /\ job[w].fid # NoFid
        /\ \A r \in file_info : r.fid # job[w].fid
        /\ \A v \in Workers \ {w} :
              Uploading(v) \/ Removing(v) => job[v].fid # job[w].fid

(* The rows that a deletion is going to orphan are the ones it deletes. *)
SafeRemovals ==
    \A w \in Workers : Removing(w) =>
        \A r \in file_info : r.fid = job[w].fid =>
            At(w, "del_info") /\ r.md5 = job[w].m

FidInv == LinksOK /\ FidsGiven /\ FreshUploads /\ SafeRemovals

(* A step that links no file to a content, removes no file and lets no     *)
(* worker come by a file id.                                               *)
NoNewLinks == \A r \in file_info' : \E q \in file_info : q.md5 = r.md5 /\ q.fid = r.fid
KeepsFid(w) ==
    /\ job'[w].fid <= last_id'
    /\ Uploading(w)' => Uploading(w) /\ job'[w].fid = job[w].fid
    /\ Removing(w)' => /\ job'[w].pc = job[w].pc
                       /\ job'[w].fid = job[w].fid /\ job'[w].m = job[w].m
PlainStep ==
    /\ NoNewLinks
    /\ fdfs' = fdfs
    /\ last_id' \in Nat /\ last_id <= last_id'
    /\ \A w \in Workers : KeepsFid(w)

LEMMA InitFid == Init => FidInv
<1> SUFFICES ASSUME Init PROVE FidInv
  OBVIOUS
<1>1. \A w \in Workers : job[w].pc = "idle" /\ job[w].fid = 0
  BY DEF Init, Idle, NoFid
<1>2. last_id \in Nat
  BY DEF Init
<1>3. LinksOK
  BY DEF Init, LinksOK, NoFid
<1>4. FidsGiven /\ FreshUploads /\ SafeRemovals
  BY <1>1, <1>2 DEF FidsGiven, FreshUploads, SafeRemovals, Uploading, Removing
<1> QED BY <1>3, <1>4 DEF FidInv

LEMMA PlainFid ==
    ASSUME TypeOK, FidInv, PlainStep
    PROVE  FidInv'
<1>1. last_id \in Nat /\ last_id' \in Nat /\ last_id <= last_id' /\ fdfs' = fdfs
  BY DEF TypeOK, PlainStep
<1>2. \A r \in file_info : r.fid \in Nat
  BY DEF TypeOK, InfoRow
<1>3. LinksOK'
  <2>1. ASSUME NEW r \in file_info'
        PROVE  r.fid \in fdfs' /\ r.fid # NoFid /\ r.fid <= last_id'
    BY <1>1, <1>2 DEF FidInv, LinksOK, PlainStep, NoNewLinks
  <2>2. ASSUME NEW r \in file_info', NEW q \in file_info', r.fid = q.fid
        PROVE  r.md5 = q.md5
    BY <2>2 DEF FidInv, LinksOK, PlainStep, NoNewLinks
  <2> QED BY <2>1, <2>2 DEF LinksOK, NoFid
<1>4. FidsGiven'
  BY DEF PlainStep, KeepsFid, FidsGiven
<1>5. FreshUploads'
  <2> SUFFICES ASSUME NEW w \in Workers, Uploading(w)'
               PROVE  /\ job'[w].fid \in fdfs' /\ job'[w].fid # 0
                      /\ \A r \in file_info' : r.fid # job'[w].fid
                      /\ \A v \in Workers \ {w} :
                            Uploading(v)' \/ Removing(v)' => job'[v].fid # job'[w].fid
    BY DEF FreshUploads, NoFid
  <2>1. Uploading(w) /\ job'[w].fid = job[w].fid
    BY DEF PlainStep, KeepsFid
  <2>2. /\ job[w].fid \in fdfs /\ job[w].fid # 0
        /\ \A r \in file_info : r.fid # job[w].fid
        /\ \A v \in Workers \ {w} :
              Uploading(v) \/ Removing(v) => job[v].fid # job[w].fid
    BY <2>1 DEF FidInv, FreshUploads, NoFid
  <2>3. \A v \in Workers : Uploading(v)' \/ Removing(v)' =>
            (Uploading(v) \/ Removing(v)) /\ job'[v].fid = job[v].fid
    BY DEF PlainStep, KeepsFid, Removing
  <2>4. \A r \in file_info' : r.fid # job'[w].fid
    BY <2>1, <2>2 DEF PlainStep, NoNewLinks
  <2> QED BY <1>1, <2>1, <2>2, <2>3, <2>4
<1>6. SafeRemovals'
  <2> SUFFICES ASSUME NEW w \in Workers, Removing(w)',
                      NEW r \in file_info', r.fid = job'[w].fid
               PROVE  At(w, "del_info")' /\ r.md5 = job'[w].m
    BY DEF SafeRemovals
  <2>1. /\ job'[w].pc = job[w].pc
        /\ job'[w].fid = job[w].fid /\ job'[w].m = job[w].m
        /\ Removing(w)
    BY DEF PlainStep, KeepsFid, Removing
  <2>2. PICK q \in file_info : q.md5 = r.md5 /\ q.fid = r.fid
    BY DEF PlainStep, NoNewLinks
  <2> QED BY <2>1, <2>2 DEF FidInv, SafeRemovals, At
<1> QED BY <1>3, <1>4, <1>5, <1>6 DEF FidInv

(* One worker goes to a statement that has nothing to do with file ids. *)
Quiet(w) ==
    /\ job'[w].fid \in {job[w].fid, NoFid}
    /\ job'[w].pc \notin {"up_url", "up_info", "del_info", "del_file"}
    /\ \A v \in Workers \ {w} : job'[v] = job[v]

LEMMA FinishQuiet ==
    ASSUME TypeOK, NEW w \in Workers, NEW code, Finish(w, code)
    PROVE  Quiet(w)
<1>1. Idle.fid = NoFid /\ Idle.pc = "idle"
  BY DEF Idle
<1> QED BY <1>1 DEF TypeOK, Finish, Move, Quiet

LEMMA MoveQuiet ==
    ASSUME TypeOK, NEW w \in Workers, NEW j, Move(w, j), j.fid = job[w].fid,
           j.pc \notin {"up_url", "up_info", "del_info", "del_file"}
    PROVE  Quiet(w)
BY DEF TypeOK, Move, Quiet

LEMMA GotoQuiet ==
    ASSUME TypeOK, NEW w \in Workers, NEW p, Goto(w, p),
           p \notin {"up_url", "up_info", "del_info", "del_file"}
    PROVE  Quiet(w)
<1> DEFINE j == [job[w] EXCEPT !.pc = p]
<1>1. j.fid = job[w].fid /\ j.pc = p
  BY DEF TypeOK, Job
<1> QED BY <1>1, MoveQuiet DEF Goto

LEMMA QuietKeeps ==
    ASSUME TypeOK, FidInv, NEW w \in Workers, Quiet(w),
           last_id' \in Nat, last_id <= last_id'
    PROVE  \A v \in Workers : KeepsFid(v)
<1>1. last_id \in Nat /\ \A v \in Workers : job[v].fid \in Nat /\ job[v].fid <= last_id
  BY DEF TypeOK, Job, FidInv, FidsGiven
<1>2. job'[w].fid <= last_id'
  BY <1>1 DEF Quiet, NoFid
<1>3. KeepsFid(w)
  BY <1>2 DEF Quiet, KeepsFid, Uploading, Removing
<1>4. ASSUME NEW v \in Workers \ {w} PROVE KeepsFid(v)
  BY <1>1 DEF Quiet, KeepsFid, Uploading, Removing
<1> QED BY <1>3, <1>4

LEMMA SetCountLinks ==
    ASSUME NEW m, NEW c, TypeOK, SetCount(m, c) \/ UNCHANGED file_info
    PROVE  NoNewLinks
<1>1. CASE SetCount(m, c)
  <2> SUFFICES ASSUME NEW r \in file_info'
               PROVE  \E q \in file_info : q.md5 = r.md5 /\ q.fid = r.fid
    BY DEF NoNewLinks
  <2>1. PICK q \in file_info : r = IF q.md5 = m THEN [q EXCEPT !.count = c] ELSE q
    BY <1>1 DEF SetCount
  <2>2. q \in InfoRow
    BY DEF TypeOK
  <2> QED BY <2>1, <2>2 DEF InfoRow
<1>2. CASE UNCHANGED file_info
  BY <1>2 DEF NoNewLinks
<1> QED BY <1>1, <1>2

LEMMA QuietFid ==
    ASSUME TypeOK, FidInv, NEW w \in Workers, Quiet(w), NoNewLinks,
           fdfs' = fdfs, last_id' \in {last_id, last_id + 1}
    PROVE  FidInv'
<1>1. last_id' \in Nat /\ last_id <= last_id'
  BY DEF TypeOK
<1> QED BY <1>1, QuietKeeps, PlainFid DEF PlainStep

LEMMA DieFid ==
    ASSUME TypeOK, FidInv, Die
    PROVE  FidInv'
<1>1. file_info' = file_info /\ fdfs' = fdfs /\ last_id' = last_id
  BY DEF Die, tables
<1>2. \A w \in Workers : job'[w].pc = "idle" /\ job'[w].fid = 0
  BY DEF Die, Idle, NoFid
<1>3. last_id \in Nat
  BY DEF TypeOK
<1>4. \A w \in Workers : KeepsFid(w)
  BY <1>1, <1>2, <1>3 DEF KeepsFid, Uploading, Removing
<1> QED BY <1>1, <1>3, <1>4, PlainFid DEF PlainStep, NoNewLinks
LEMMA Md5Fid ==
    ASSUME TypeOK, FidInv, NEW w \in Workers, Md5Step(w)
    PROVE  FidInv'
<1>0. job[w] \in Job
  BY DEF TypeOK
<1>1. CASE Md5Own(w)
  <2>1. Quiet(w)
    <3> DEFINE j == [job[w] EXCEPT !.txn = TRUE, !.pc = "md5_count"]
    <3>1. j.fid = job[w].fid /\ j.pc = "md5_count"
      BY <1>0 DEF Job
    <3>2. Finish(w, "exist") \/ Move(w, j)
      BY <1>1 DEF Md5Own
    <3> HIDE DEF j
    <3> QED BY <3>1, <3>2, FinishQuiet, MoveQuiet
  <2> QED BY <1>1, <2>1, QuietFid DEF Md5Own, tables, NoNewLinks
<1>2. CASE Md5Count(w)
  <2>1. CASE QueryFails
    BY <2>1, DieFid DEF QueryFails, NullResult
  <2>2. CASE ~QueryFails
    <3>1. ASSUME NEW r \in Info(job[w].m),
                 Move(w, [job[w] EXCEPT !.cnt = r.count, !.pc = "md5_update"])
          PROVE  Quiet(w)
      <4> DEFINE j == [job[w] EXCEPT !.cnt = r.count, !.pc = "md5_update"]
      <4>1. j.fid = job[w].fid /\ j.pc = "md5_update"
        BY <1>0 DEF Job
      <4> QED BY <3>1, <4>1, MoveQuiet
    <3>2. Quiet(w)
      BY <1>2, <2>2, <3>1, GotoQuiet DEF Md5Count
    <3> QED BY <1>2, <2>2, <3>2, QuietFid DEF Md5Count, tables, NoNewLinks
  <2> QED BY <2>1, <2>2
<1>3. CASE Md5Update(w)
  <2> DEFINE j == [job[w] EXCEPT !.pend = @ \cup {"count"}, !.pc = "md5_insert"]
  <2>1. j.fid = job[w].fid /\ j.pc = "md5_insert"
    BY <1>0 DEF Job
  <2>2. Goto(w, "md5_rollback") \/ Goto(w, "md5_insert") \/ Move(w, j)
    BY <1>3 DEF Md5Update
  <2> HIDE DEF j
  <2>3. Quiet(w)
    BY <2>1, <2>2, GotoQuiet, MoveQuiet
  <2>4. NoNewLinks
    BY <1>3, SetCountLinks DEF Md5Update
  <2> QED BY <1>3, <2>3, <2>4, QuietFid DEF Md5Update
<1>4. CASE Md5Insert(w)
  <2> DEFINE j == [job[w] EXCEPT !.pend = @ \cup {"row"}, !.pc = "md5_commit"]
  <2>1. j.fid = job[w].fid /\ j.pc = "md5_commit"
    BY <1>0 DEF Job
  <2>2. Goto(w, "md5_rollback") \/ Goto(w, "md5_commit") \/ Move(w, j)
    BY <1>4 DEF Md5Insert
  <2> HIDE DEF j
  <2>3. Quiet(w)
    BY <2>1, <2>2, GotoQuiet, MoveQuiet
  <2> QED BY <1>4, <2>3, QuietFid DEF Md5Insert, NoNewLinks, InsertRow
<1>5. CASE Md5Commit(w)
  <2>1. Quiet(w)
    BY <1>5, FinishQuiet DEF Md5Commit
  <2>2. NoNewLinks
    BY <1>5, SetCountLinks DEF Md5Commit
  <2> QED BY <1>5, <2>1, <2>2, QuietFid DEF Md5Commit, InsertRow
<1>6. CASE Md5Rollback(w)
  <2>1. Quiet(w)
    BY <1>6, FinishQuiet DEF Md5Rollback
  <2> QED BY <1>6, <2>1, QuietFid DEF Md5Rollback, tables, NoNewLinks
<1>7. CASE DeadlockVictim(w)
  <2> DEFINE j == [job[w] EXCEPT !.txn = FALSE, !.pend = {}, !.pc = "md5_rollback"]
  <2>1. j.fid = job[w].fid /\ j.pc = "md5_rollback"
    BY <1>0 DEF Job
  <2>2. CASE NullResult
    BY <2>2, DieFid DEF NullResult
  <2>3. CASE Move(w, j) /\ UNCHANGED tables
    <3> HIDE DEF j
    <3>1. Quiet(w)
      BY <2>1, <2>3, MoveQuiet
    <3> QED BY <2>3, <3>1, QuietFid DEF tables, NoNewLinks
  <2> QED BY <1>7, <2>2, <2>3 DEF DeadlockVictim
<1> QED BY <1>1, <1>2, <1>3, <1>4, <1>5, <1>6, <1>7 DEF Md5Step

LEMMA SaveFid ==
    ASSUME TypeOK, FidInv, NEW w \in Workers, SaveStep(w)
    PROVE  FidInv'
<1>0. job[w] \in Job
  BY DEF TypeOK
<1>1. SaveReply(w) => Quiet(w)
  BY FinishQuiet DEF SaveReply
<1>2. CASE SaveOwn(w)
  <2>1. Quiet(w)
    BY <1>1, <1>2, GotoQuiet DEF SaveOwn
  <2> QED BY <1>2, <2>1, QuietFid DEF SaveOwn, tables, NoNewLinks
<1>3. CASE SaveCount(w) /\ ~QueryFails
  <2>1. ASSUME NEW r \in Info(job[w].m),
               Move(w, [job[w] EXCEPT !.cnt = r.count, !.pc = "save_update"])
        PROVE  Quiet(w)
    <3> DEFINE j == [job[w] EXCEPT !.cnt = r.count, !.pc = "save_update"]
    <3>1. j.fid = job[w].fid /\ j.pc = "save_update"
      BY <1>0 DEF Job
    <3> QED BY <2>1, <3>1, MoveQuiet
  <2>2. Quiet(w)
    BY <1>1, <1>3, <2>1 DEF SaveCount
  <2> QED BY <1>3, <2>2, QuietFid DEF SaveCount, tables, NoNewLinks
<1>4. CASE QueryFails
  BY <1>4, DieFid DEF QueryFails, NullResult
<1>5. CASE SaveUpdate(w)
  <2>1. Quiet(w)
    BY <1>1, <1>5, GotoQuiet DEF SaveUpdate
  <2>2. NoNewLinks
    BY <1>5, SetCountLinks DEF SaveUpdate
  <2> QED BY <1>5, <2>1, <2>2, QuietFid DEF SaveUpdate
<1>6. CASE SaveInsert(w)
  <2>1. Quiet(w)
    BY <1>1, <1>6 DEF SaveInsert
  <2> QED BY <1>6, <2>1, QuietFid DEF SaveInsert, InsertRow, NoNewLinks
<1> QED BY <1>2, <1>3, <1>4, <1>5, <1>6 DEF SaveStep

(* The upload: the new file's id is above every id in use. *)
LEMMA UploadFid ==
    ASSUME TypeOK, FidInv, NEW w \in Workers, UploadStep(w)
    PROVE  FidInv'
<1>0. job[w] \in Job /\ last_id \in Nat
  BY DEF TypeOK
<1>1. ASSUME NEW code, Finish(w, code), NoNewLinks, fdfs' = fdfs,
             last_id' \in {last_id, last_id + 1}
      PROVE  FidInv'
  BY <1>1, FinishQuiet, QuietFid
<1>2. CASE UpStore(w)
  <2> DEFINE n == last_id + 1
  <2> DEFINE j == [job[w] EXCEPT !.fid = last_id + 1, !.pc = "up_url"]
  <2>1. CASE Finish(w, "fail") /\ UNCHANGED <<file_info, fdfs, last_id>>
    BY <1>1, <2>1 DEF NoNewLinks
  <2>2. CASE /\ Move(w, j) /\ last_id' = n /\ fdfs' = fdfs \cup {n}
             /\ UNCHANGED file_info
    <3>1. job'[w].fid = n /\ job'[w].pc = "up_url" /\ j.m = job[w].m
      BY <1>0, <2>2 DEF Move, Job, TypeOK
    <3>2. \A v \in Workers \ {w} : job'[v] = job[v]
      BY <2>2 DEF Move, TypeOK
    <3>3. n \in Nat /\ n > last_id /\ last_id' = n /\ n # 0
      BY <1>0, <2>2
    <3>4. \A v \in Workers : job[v].fid \in Nat /\ job[v].fid <= last_id
      BY DEF TypeOK, Job, FidInv, FidsGiven
    <3>5. \A r \in file_info : r.fid \in Nat /\ r.fid <= last_id
      BY DEF TypeOK, InfoRow, FidInv, LinksOK
    <3>6. file_info' = file_info /\ fdfs' = fdfs \cup {n}
      BY <2>2
    <3> HIDE DEF n, j
    <3>7. LinksOK'
      BY <1>0, <3>3, <3>5, <3>6 DEF FidInv, LinksOK, NoFid
    <3>8. FidsGiven'
      BY <1>0, <3>1, <3>2, <3>3, <3>4 DEF FidsGiven
    <3>9. FreshUploads'
      <4> SUFFICES ASSUME NEW u \in Workers, Uploading(u)'
                   PROVE  /\ job'[u].fid \in fdfs' /\ job'[u].fid # 0
                          /\ \A r \in file_info' : r.fid # job'[u].fid
                          /\ \A v \in Workers \ {u} :
                                Uploading(v)' \/ Removing(v)' => job'[v].fid # job'[u].fid
        BY DEF FreshUploads, NoFid
      <4>1. CASE u = w
        BY <1>0, <3>1, <3>2, <3>3, <3>4, <3>5, <3>6, <4>1
      <4>2. CASE u # w
        <5>1. Uploading(u) /\ job'[u] = job[u]
          BY <3>2, <4>2 DEF Uploading
        <5>2. /\ job[u].fid \in fdfs /\ job[u].fid # 0
              /\ \A r \in file_info : r.fid # job[u].fid
              /\ \A v \in Workers \ {u} :
                    Uploading(v) \/ Removing(v) => job[v].fid # job[u].fid
          BY <5>1 DEF FidInv, FreshUploads, NoFid
        <5>3. \A v \in Workers \ {u} :
                  Uploading(v)' \/ Removing(v)' => job'[v].fid # job'[u].fid
          BY <1>0, <3>1, <3>2, <3>3, <3>4, <5>1, <5>2 DEF Uploading, Removing
        <5> QED BY <3>6, <5>1, <5>2, <5>3
      <4> QED BY <4>1, <4>2
    <3>10. SafeRemovals'
      BY <3>1, <3>2, <3>6 DEF FidInv, SafeRemovals, Removing, At
    <3> QED BY <3>7, <3>8, <3>9, <3>10 DEF FidInv
  <2> QED BY <1>2, <2>1, <2>2 DEF UpStore
<1>3. CASE UpUrl(w)
  <2>1. CASE Finish(w, "fail")
    BY <1>1, <1>3, <2>1 DEF UpUrl, tables, NoNewLinks
  <2>2. CASE Goto(w, "up_info")
    <3>1. /\ job'[w].fid = job[w].fid /\ job'[w].pc = "up_info"
          /\ \A v \in Workers \ {w} : job'[v] = job[v]
      BY <1>0, <2>2 DEF Goto, Move, Job, TypeOK
    <3>2. UNCHANGED tables /\ Uploading(w)
      BY <1>3 DEF UpUrl, Uploading, At
    <3>3. \A v \in Workers : KeepsFid(v)
      BY <3>1, <3>2 DEF KeepsFid, Uploading, Removing, tables, FidInv, FidsGiven
    <3> QED BY <1>0, <3>2, <3>3, PlainFid DEF PlainStep, NoNewLinks, tables
  <2> QED BY <1>3, <2>1, <2>2 DEF UpUrl
<1>4. CASE UpInfo(w)
  <2> DEFINE new == [md5 |-> job[w].m, fid |-> job[w].fid, count |-> 1]
  <2>1. CASE Finish(w, "fail") /\ UNCHANGED <<file_info, fdfs, last_id>>
    BY <1>1, <2>1 DEF NoNewLinks
  <2>2. CASE /\ Goto(w, "up_row") /\ file_info' = file_info \cup {new}
             /\ UNCHANGED <<fdfs, last_id>>
    <3>1. /\ job'[w].fid = job[w].fid /\ job'[w].pc = "up_row"
          /\ \A v \in Workers \ {w} : job'[v] = job[v]
      BY <1>0, <2>2 DEF Goto, Move, Job, TypeOK
    <3>2. /\ job[w].fid \in fdfs /\ job[w].fid # 0
          /\ \A r \in file_info : r.fid # job[w].fid
          /\ \A v \in Workers \ {w} :
                Uploading(v) \/ Removing(v) => job[v].fid # job[w].fid
      BY <1>4 DEF UpInfo, At, Uploading, FidInv, FreshUploads, NoFid
    <3>3. new.fid = job[w].fid /\ new.md5 = job[w].m
      OBVIOUS
    <3>4. file_info' = file_info \cup {new} /\ fdfs' = fdfs /\ last_id' = last_id
      BY <2>2
    <3> HIDE DEF new
    <3>5. FidsGiven'
      BY <3>1, <3>4 DEF FidInv, FidsGiven
    <3>6. LinksOK'
      BY <3>2, <3>3, <3>4 DEF FidInv, FidsGiven, LinksOK, NoFid
    <3>7. FreshUploads'
      <4> SUFFICES ASSUME NEW u \in Workers, Uploading(u)'
                   PROVE  /\ job'[u].fid \in fdfs' /\ job'[u].fid # 0
                          /\ \A r \in file_info' : r.fid # job'[u].fid
                          /\ \A v \in Workers \ {u} :
                                Uploading(v)' \/ Removing(v)' => job'[v].fid # job'[u].fid
        BY DEF FreshUploads, NoFid
      <4>1. u # w /\ Uploading(u) /\ job'[u] = job[u]
        BY <3>1 DEF Uploading
      <4>2. /\ job[u].fid \in fdfs /\ job[u].fid # 0
            /\ \A r \in file_info : r.fid # job[u].fid
            /\ \A v \in Workers \ {u} :
                  Uploading(v) \/ Removing(v) => job[v].fid # job[u].fid
        BY <4>1 DEF FidInv, FreshUploads, NoFid
      <4>3. \A v \in Workers \ {u} :
                Uploading(v)' \/ Removing(v)' => job'[v].fid # job'[u].fid
        BY <3>1, <4>1, <4>2 DEF Uploading, Removing
      <4> QED BY <3>2, <3>3, <3>4, <4>1, <4>2, <4>3
    <3>8. SafeRemovals'
      <4> SUFFICES ASSUME NEW u \in Workers, Removing(u)',
                          NEW r \in file_info', r.fid = job'[u].fid
                   PROVE  At(u, "del_info")' /\ r.md5 = job'[u].m
        BY DEF SafeRemovals
      <4>1. u # w /\ Removing(u) /\ job'[u] = job[u]
        BY <3>1 DEF Removing
      <4>2. r \in file_info
        BY <3>2, <3>3, <3>4, <4>1
      <4> QED BY <4>1, <4>2 DEF FidInv, SafeRemovals, At
    <3> QED BY <3>5, <3>6, <3>7, <3>8 DEF FidInv
  <2> QED BY <1>4, <2>1, <2>2 DEF UpInfo
<1>5. CASE UpRow(w)
  <2>1. \E code : Finish(w, code)
    BY <1>5 DEF UpRow
  <2> QED BY <1>1, <1>5, <2>1 DEF UpRow, InsertRow, NoNewLinks
<1> QED BY <1>2, <1>3, <1>4, <1>5 DEF UploadStep

(* The deletion: the rows that point to the file go first. *)
LEMMA DeleteFid ==
    ASSUME TypeOK, FidInv, "delete_info" \notin FaultKinds,
           NEW w \in Workers, DeleteStep(w)
    PROVE  FidInv'
<1>0. job[w] \in Job /\ last_id \in Nat
  BY DEF TypeOK
<1>1. DelReply(w) => Quiet(w)
  BY FinishQuiet DEF DelReply
<1>2. CASE QueryFails
  BY <1>2, DieFid DEF QueryFails, NullResult
<1>3. CASE DelShare(w) /\ ~QueryFails
  <2>1. Quiet(w)
    BY <1>1, <1>3, GotoQuiet DEF DelShare
  <2>2. UNCHANGED tables
    BY <1>3 DEF DelShare
  <2> QED BY <2>1, <2>2, QuietFid DEF tables, NoNewLinks
<1>4. CASE DelRows(w)
  <2>1. Quiet(w)
    BY <1>1, <1>4, GotoQuiet DEF DelRows
  <2> QED BY <1>4, <2>1, QuietFid DEF DelRows, NoNewLinks
<1>5. CASE DelCount(w) /\ ~QueryFails
  <2>1. ASSUME NEW r \in Info(job[w].m),
               Move(w, [job[w] EXCEPT !.cnt = r.count,
                       !.pc = IF r.count > 0 THEN "del_update" ELSE "del_fid"])
        PROVE  Quiet(w)
    <3> DEFINE p == IF r.count > 0 THEN "del_update" ELSE "del_fid"
    <3> DEFINE j == [job[w] EXCEPT !.cnt = r.count, !.pc = p]
    <3>1. p \in {"del_update", "del_fid"}
      OBVIOUS
    <3>2. Move(w, j)
      BY <2>1
    <3> HIDE DEF p
    <3>3. j.fid = job[w].fid /\ j.pc = p
      BY <1>0 DEF Job
    <3> HIDE DEF j
    <3> QED BY <3>1, <3>2, <3>3, MoveQuiet
  <2>2. Quiet(w)
    BY <1>1, <1>5, <2>1 DEF DelCount
  <2> QED BY <1>5, <2>2, QuietFid DEF DelCount, tables, NoNewLinks
<1>6. CASE DelUpdate(w)
  <2>1. Quiet(w)
    BY <1>1, <1>6, GotoQuiet DEF DelUpdate
  <2>2. NoNewLinks
    BY <1>6, SetCountLinks DEF DelUpdate
  <2> QED BY <1>6, <2>1, <2>2, QuietFid DEF DelUpdate
<1>7. CASE DelFid(w) /\ ~QueryFails
  <2>0. UNCHANGED tables /\ At(w, "del_fid")
    BY <1>7 DEF DelFid
  <2>1. PICK f \in Nat :
           /\ Move(w, [job[w] EXCEPT !.fid = f, !.pc = "del_info"])
           /\ f = NoFid \/ \E r \in Info(job[w].m) : f = r.fid
    <3>1. NoFid \in Nat /\ \A r \in Info(job[w].m) : r.fid \in Nat
      BY DEF NoFid, Info, TypeOK, InfoRow
    <3> QED BY <1>7, <3>1 DEF DelFid
  <2>2. /\ job'[w].pc = "del_info" /\ job'[w].m = job[w].m /\ job'[w].fid = f
        /\ \A v \in Workers \ {w} : job'[v] = job[v]
    BY <1>0, <2>1 DEF Move, Job, TypeOK
  <2>3. f <= last_id
    BY <1>0, <2>1 DEF NoFid, Info, FidInv, LinksOK
  <2>4. \A r \in file_info : r.fid = f => r.md5 = job[w].m
    BY <2>1 DEF Info, FidInv, LinksOK
  <2>5. \A u \in Workers : Uploading(u) => job[u].fid # f
    BY <2>1 DEF Info, FidInv, FreshUploads
  <2>6. file_info' = file_info /\ fdfs' = fdfs /\ last_id' = last_id
    BY <2>0 DEF tables
  <2>7. LinksOK' /\ FidsGiven'
    BY <2>2, <2>3, <2>6 DEF FidInv, LinksOK, FidsGiven
  <2>8. FreshUploads'
    <3> SUFFICES ASSUME NEW u \in Workers, Uploading(u)'
                 PROVE  /\ job'[u].fid \in fdfs' /\ job'[u].fid # 0
                        /\ \A r \in file_info' : r.fid # job'[u].fid
                        /\ \A v \in Workers \ {u} :
                              Uploading(v)' \/ Removing(v)' => job'[v].fid # job'[u].fid
      BY DEF FreshUploads, NoFid
    <3>1. u # w /\ Uploading(u) /\ job'[u] = job[u]
      BY <2>2 DEF Uploading
    <3>2. /\ job[u].fid \in fdfs /\ job[u].fid # 0
          /\ \A r \in file_info : r.fid # job[u].fid
          /\ \A v \in Workers \ {u} :
                Uploading(v) \/ Removing(v) => job[v].fid # job[u].fid
      BY <3>1 DEF FidInv, FreshUploads, NoFid
    <3>3. \A v \in Workers \ {u} :
              Uploading(v)' \/ Removing(v)' => job'[v].fid # job'[u].fid
      BY <2>2, <2>5, <3>1, <3>2 DEF Uploading, Removing
    <3> QED BY <2>6, <3>1, <3>2, <3>3
  <2>9. SafeRemovals'
    BY <2>2, <2>4, <2>6 DEF FidInv, SafeRemovals, Removing, At
  <2> QED BY <2>7, <2>8, <2>9 DEF FidInv
<1>8. CASE DelInfo(w)
  <2>1. /\ At(w, "del_info") /\ Goto(w, "del_file")
        /\ file_info' = file_info \ Info(job[w].m)
        /\ fdfs' = fdfs /\ last_id' = last_id
    BY <1>8 DEF DelInfo, Fault
  <2>2. /\ job'[w].pc = "del_file" /\ job'[w].fid = job[w].fid
        /\ \A v \in Workers \ {w} : job'[v] = job[v]
    BY <1>0, <2>1 DEF Goto, Move, Job, TypeOK
  <2>3. file_info' \subseteq file_info /\ \A r \in file_info' : r.md5 # job[w].m
    BY <2>1 DEF Info
  <2>4. LinksOK' /\ FidsGiven'
    BY <2>1, <2>2, <2>3 DEF FidInv, LinksOK, FidsGiven
  <2>5. FreshUploads'
    <3>1. \A v \in Workers : /\ job'[v].fid = job[v].fid
                             /\ Uploading(v)' => Uploading(v)
                             /\ Removing(v)' => Removing(v)
      BY <2>1, <2>2 DEF Uploading, Removing, At
    <3> QED BY <2>1, <2>3, <3>1 DEF FidInv, FreshUploads
  <2>6. SafeRemovals'
    <3> SUFFICES ASSUME NEW u \in Workers, Removing(u)',
                        NEW r \in file_info', r.fid = job'[u].fid
                 PROVE  At(u, "del_info")' /\ r.md5 = job'[u].m
      BY DEF SafeRemovals
    <3>1. CASE u = w
      <4>1. Removing(w) /\ r \in file_info /\ r.fid = job[w].fid
        BY <2>1, <2>2, <2>3, <3>1 DEF Removing, At
      <4> QED BY <2>3, <4>1 DEF FidInv, SafeRemovals
    <3>2. CASE u # w
      BY <2>2, <2>3, <3>2 DEF FidInv, SafeRemovals, Removing, At
    <3> QED BY <3>1, <3>2
  <2> QED BY <2>4, <2>5, <2>6 DEF FidInv
<1>9. CASE DelFile(w)
  <2>1. /\ At(w, "del_file") /\ DelReply(w)
        /\ fdfs' = fdfs \ {job[w].fid} \/ fdfs' = fdfs
        /\ file_info' = file_info /\ last_id' = last_id
    BY <1>9 DEF DelFile
  <2>2. /\ job'[w].pc = "idle" /\ job'[w].fid = 0
        /\ \A v \in Workers \ {w} : job'[v] = job[v]
    BY <2>1 DEF DelReply, Finish, Move, Idle, NoFid, TypeOK
  <2>3. \A r \in file_info : r.fid # job[w].fid
    BY <2>1 DEF FidInv, SafeRemovals, Removing, At
  <2>4. \A u \in Workers \ {w} : Uploading(u) => job[u].fid # job[w].fid
    BY <2>1 DEF FidInv, FreshUploads, Removing, At
  <2>5. LinksOK'
    BY <2>1, <2>3 DEF FidInv, LinksOK
  <2>6. FidsGiven'
    BY <1>0, <2>1, <2>2 DEF FidInv, FidsGiven
  <2>7. FreshUploads'
    <3>1. \A v \in Workers : Uploading(v)' \/ Removing(v)' =>
              v # w /\ job'[v] = job[v]
      BY <2>2 DEF Uploading, Removing
    <3>2. \A v \in Workers : Uploading(v)' =>
              Uploading(v) /\ job[v].fid \in fdfs'
      BY <2>1, <2>4, <3>1 DEF FidInv, FreshUploads, Uploading
    <3>3. \A v \in Workers : Removing(v)' => Removing(v)
      BY <3>1 DEF Removing
    <3> QED BY <2>1, <3>1, <3>2, <3>3 DEF FidInv, FreshUploads
  <2>8. SafeRemovals'
    BY <2>1, <2>2 DEF FidInv, SafeRemovals, Removing, At
  <2> QED BY <2>5, <2>6, <2>7, <2>8 DEF FidInv
<1> QED BY <1>2, <1>3, <1>4, <1>5, <1>6, <1>7, <1>8, <1>9 DEF DeleteStep

LEMMA OtherFid ==
    ASSUME TypeOK, FidInv, NEW w \in Workers, Start(w) \/ Reconnect(w)
    PROVE  FidInv'
<1>0. job[w] \in Job /\ last_id \in Nat
  BY DEF TypeOK
<1>1. CASE Start(w)
  <2>1. PICK op \in Ops, o \in Owners, m \in Md5s :
           Move(w, [Idle EXCEPT !.pc = FirstPc[op], !.op = op, !.o = o, !.m = m])
    BY <1>1 DEF Start
  <2>2. FirstPc[op] \notin {"up_url", "up_info", "del_info", "del_file"}
    BY StoreAssumption DEF FirstPc
  <2>3. Quiet(w)
    BY <2>1, <2>2 DEF Quiet, Move, Idle, TypeOK
  <2> QED BY <1>1, <2>3, QuietFid DEF Start, tables, NoNewLinks
<1>2. CASE Reconnect(w)
  <2>1. /\ Move(w, [job[w] EXCEPT !.txn = FALSE, !.pend = {}])
        /\ UNCHANGED tables
    BY <1>2 DEF Reconnect
  <2>2. \A v \in Workers : /\ job'[v].pc = job[v].pc
                           /\ job'[v].fid = job[v].fid
                           /\ job'[v].m = job[v].m
    BY <1>0, <2>1 DEF Move, Job, TypeOK
  <2>3. \A v \in Workers : KeepsFid(v)
    BY <2>1, <2>2 DEF KeepsFid, Uploading, Removing, tables, FidInv, FidsGiven
  <2> QED BY <1>0, <2>1, <2>3, PlainFid DEF PlainStep, NoNewLinks, tables
<1> QED BY <1>1, <1>2

LEMMA NextFid ==
    ASSUME TypeOK, FidInv, "delete_info" \notin FaultKinds, [Next]_vars
    PROVE  FidInv'
<1>1. CASE UNCHANGED vars
  BY <1>1 DEF FidInv, LinksOK, FidsGiven, FreshUploads, SafeRemovals,
              Uploading, Removing, At, vars, tables
<1>2. CASE ProcessCrash
  BY <1>2, DieFid DEF ProcessCrash
<1>3. ASSUME NEW w \in Workers, Start(w) \/ Work(w) \/ Reconnect(w)
      PROVE  FidInv'
  BY <1>3, OtherFid, Md5Fid, UploadFid, SaveFid, DeleteFid DEF Work
<1> QED BY <1>1, <1>2, <1>3 DEF Next

(* No row of file_info ever points to a file that is not in the storage,   *)
(* for any number of threads and requests, with crashes, lost connections  *)
(* and failed calls: all the storage and the tables need is that a delete  *)
(* from file_info does not fail, because handleDeleteFile goes on to       *)
(* remove the file after such a failure.                                   *)
THEOREM RowsHaveFiles ==
    ASSUME "delete_info" \notin FaultKinds
    PROVE  Spec => []NoDangling
<1>1. Init => TypeOK /\ FidInv
  BY InitType, InitFid
<1>2. (TypeOK /\ FidInv) /\ [Next]_vars => (TypeOK /\ FidInv)'
  BY NextType, NextFid
<1>3. FidInv => NoDangling
  BY DEF FidInv, LinksOK, NoDangling
<1> QED BY <1>1, <1>2, <1>3, PTL DEF Spec

-------------------------------------------------------------------------------
(* Counts *)

(* The connection of a transaction does not break in between: Reconnect    *)
(* takes its locks and its writes away and the handler goes on.            *)
NoDrop == "drop" \notin FaultKinds

StepsOf == [md5    |-> {"md5_own", "md5_count", "md5_update", "md5_insert",
                        "md5_commit", "md5_rollback"},
            upload |-> {"up_store", "up_url", "up_info", "up_row"},
            save   |-> {"save_own", "save_count", "save_update", "save_insert"},
            del    |-> {"del_share", "del_rows", "del_count", "del_update",
                        "del_fid", "del_info", "del_file"}]

(* A worker is at a statement of the request it runs. *)
OpInv == \A w \in Workers :
    ~At(w, "idle") => job[w].op \in Ops /\ job[w].pc \in StepsOf[job[w].op]

(* What the transaction of handleDealMd5 has written so far. *)
TxnInv == \A w \in Workers :
    /\ At(w, "md5_own") => job[w].pend = {}
    /\ At(w, "md5_count") => job[w].txn /\ job[w].pend = {}
    /\ At(w, "md5_update") => job[w].txn /\ job[w].pend = {}
    /\ At(w, "md5_insert") => job[w].txn /\ job[w].pend = {"count"}
    /\ At(w, "md5_commit") => job[w].txn /\ job[w].pend = {"count", "row"}

-------------------------------------------------------------------------------
(* The worker w alone goes on: to another statement, or to its end. *)
Others(w)   == \A v \in Workers \ {w} : job'[v] = job[v]
Goes(w, ps) == /\ job'[w].pc \in ps
               /\ job'[w].op = job[w].op
               /\ job'[w].o = job[w].o
               /\ job'[w].m = job[w].m
               /\ Others(w)
Keeps(w, p) == /\ Goes(w, {p})
               /\ job'[w].cnt = job[w].cnt
               /\ job'[w].txn = job[w].txn
               /\ job'[w].pend = job[w].pend
Ends(w)     == job'[w] = Idle /\ Others(w)

LEMMA Moved ==
    ASSUME TypeOK, NEW w \in Workers, NEW j, Move(w, j)
    PROVE  job'[w] = j /\ Others(w)
BY DEF TypeOK, Move, Others

LEMMA Gone ==
    ASSUME TypeOK, NEW w \in Workers, NEW p, Goto(w, p)
    PROVE  Keeps(w, p)
<1> DEFINE j == [job[w] EXCEPT !.pc = p]
<1>1. job'[w] = j /\ Others(w)
  BY Moved DEF Goto
<1>2. job[w] \in Job
  BY DEF TypeOK
<1> QED BY <1>1, <1>2 DEF Keeps, Goes, Job

LEMMA Ended ==
    ASSUME TypeOK, NEW w \in Workers, NEW code, Finish(w, code)
    PROVE  /\ Ends(w) /\ answer'[w] = code
           /\ \A v \in Workers \ {w} : answer'[v] = answer[v]
BY Moved DEF TypeOK, Finish, Ends

LEMMA MovedCount ==
    ASSUME TypeOK, NEW w \in Workers, NEW c, NEW p,
           Move(w, [job[w] EXCEPT !.cnt = c, !.pc = p])
    PROVE  /\ Goes(w, {p}) /\ job'[w].cnt = c
           /\ job'[w].txn = job[w].txn /\ job'[w].pend = job[w].pend
<1> DEFINE j == [job[w] EXCEPT !.cnt = c, !.pc = p]
<1>1. job'[w] = j /\ Others(w)
  BY Moved
<1>2. job[w] \in Job
  BY DEF TypeOK
<1> QED BY <1>1, <1>2 DEF Goes, Job

LEMMA MovedFid ==
    ASSUME TypeOK, NEW w \in Workers, NEW f, NEW p,
           Move(w, [job[w] EXCEPT !.fid = f, !.pc = p])
    PROVE  Keeps(w, p)
<1> DEFINE j == [job[w] EXCEPT !.fid = f, !.pc = p]
<1>1. job'[w] = j /\ Others(w)
  BY Moved
<1>2. job[w] \in Job
  BY DEF TypeOK
<1> QED BY <1>1, <1>2 DEF Keeps, Goes, Job

LEMMA MovedPend ==
    ASSUME TypeOK, NEW w \in Workers, NEW x, NEW p,
           Move(w, [job[w] EXCEPT !.pend = @ \cup {x}, !.pc = p])
    PROVE  /\ Goes(w, {p}) /\ job'[w].cnt = job[w].cnt
           /\ job'[w].txn = job[w].txn /\ job'[w].pend = job[w].pend \cup {x}
<1> DEFINE q == job[w].pend \cup {x}
           j == [job[w] EXCEPT !.pend = q, !.pc = p]
<1>1. job'[w] = j /\ Others(w)
  BY Moved
<1>2. job[w] \in Job
  BY DEF TypeOK
<1> HIDE DEF q
<1>3. j.pc = p /\ j.op = job[w].op /\ j.o = job[w].o /\ j.m = job[w].m
      /\ j.cnt = job[w].cnt /\ j.txn = job[w].txn /\ j.pend = q
  BY <1>2 DEF Job
<1> QED BY <1>1, <1>3 DEF Goes, q

LEMMA DeadEnd ==
    ASSUME Die
    PROVE  /\ \A w \in Workers : job'[w] = Idle
           /\ UNCHANGED <<file_info, user_file_list, fdfs, last_id, answer>>
           /\ infoLock' = [m \in Md5s |-> {}]
           /\ rowLock' = [k \in Owners \X Md5s |-> {}]
BY DEF Die, tables

LEMMA IdleFields ==
    /\ Idle.pc = "idle" /\ Idle.op = "none" /\ Idle.m = "none" /\ Idle.o = "none"
    /\ ~Idle.txn /\ Idle.pend = {}
BY DEF Idle

-------------------------------------------------------------------------------
(* What a transaction has written, and that "ok" means it is committed *)

WellPlaced(j) == j.pc # "idle" => j.op \in Ops /\ j.pc \in StepsOf[j.op]
WellWritten(j) ==
    /\ j.pc = "md5_own" => j.pend = {}
    /\ j.pc = "md5_count" => j.txn /\ j.pend = {}
    /\ j.pc = "md5_update" => j.txn /\ j.pend = {}
    /\ j.pc = "md5_insert" => j.txn /\ j.pend = {"count"}
    /\ j.pc = "md5_commit" => j.txn /\ j.pend = {"count", "row"}

LEMMA OneMoves ==
    ASSUME OpInv, TxnInv, NEW w \in Workers, Others(w),
           WellPlaced(job'[w]), WellWritten(job'[w])
    PROVE  OpInv' /\ TxnInv'
<1>1. ASSUME NEW v \in Workers
      PROVE  WellPlaced(job'[v]) /\ WellWritten(job'[v])
  <2>1. CASE v = w
    BY <2>1
  <2>2. CASE v # w
    BY <2>2 DEF Others, OpInv, TxnInv, WellPlaced, WellWritten, At
  <2> QED BY <2>1, <2>2
<1> QED BY <1>1 DEF OpInv, TxnInv, WellPlaced, WellWritten, At

LEMMA OneEnds ==
    ASSUME OpInv, TxnInv, NEW w \in Workers, Ends(w)
    PROVE  OpInv' /\ TxnInv'
BY OneMoves, IdleFields DEF Ends, WellPlaced, WellWritten

LEMMA AllIdle ==
    ASSUME Die
    PROVE  OpInv' /\ TxnInv'
BY DeadEnd, IdleFields DEF OpInv, TxnInv, At

(* The other operations write no transaction. *)
Elsewhere(w) ==
    \E op \in {"upload", "save", "del"} :
        /\ job[w].pc \in StepsOf[op]
        /\ Die \/ Ends(w) \/ Goes(w, StepsOf[op])

LEMMA UploadSteps ==
    ASSUME TypeOK, NEW w \in Workers, UploadStep(w)
    PROVE  Elsewhere(w)
<1>1. job[w].pc \in StepsOf["upload"]
  BY DEF UploadStep, UpStore, UpUrl, UpInfo, UpRow, At, StepsOf
<1>2. \A code : Finish(w, code) => Ends(w)
  BY Ended
<1>3. \A p : Goto(w, p) => Goes(w, {p})
  BY Gone DEF Keeps
<1>4. \A f, p : Move(w, [job[w] EXCEPT !.fid = f, !.pc = p]) => Goes(w, {p})
  BY MovedFid DEF Keeps
<1>5. \A p \in StepsOf["upload"] : Goes(w, {p}) => Goes(w, StepsOf["upload"])
  BY DEF Goes
<1>6. Ends(w) \/ Goes(w, StepsOf["upload"])
  <2>1. "up_url" \in StepsOf["upload"] /\ "up_info" \in StepsOf["upload"]
        /\ "up_row" \in StepsOf["upload"]
    BY DEF StepsOf
  <2> QED BY <1>2, <1>3, <1>4, <1>5, <2>1 DEF UploadStep, UpStore, UpUrl, UpInfo, UpRow
<1> QED BY <1>1, <1>6 DEF Elsewhere

LEMMA SaveSteps ==
    ASSUME TypeOK, NEW w \in Workers, SaveStep(w)
    PROVE  Elsewhere(w)
<1>1. job[w].pc \in StepsOf["save"]
  BY DEF SaveStep, SaveOwn, SaveCount, SaveUpdate, SaveInsert, At, StepsOf
<1>2. SaveReply(w) => Ends(w)
  BY Ended DEF SaveReply
<1>3. \A p : Goto(w, p) => Goes(w, {p})
  BY Gone DEF Keeps
<1>4. \A c, p : Move(w, [job[w] EXCEPT !.cnt = c, !.pc = p]) => Goes(w, {p})
  BY MovedCount
<1>5. \A p \in StepsOf["save"] : Goes(w, {p}) => Goes(w, StepsOf["save"])
  BY DEF Goes
<1>6. Die \/ Ends(w) \/ Goes(w, StepsOf["save"])
  <2>1. "save_count" \in StepsOf["save"] /\ "save_update" \in StepsOf["save"]
        /\ "save_insert" \in StepsOf["save"]
    BY DEF StepsOf
  <2>2. CASE SaveOwn(w)
    BY <1>2, <1>3, <1>5, <2>1, <2>2 DEF SaveOwn
  <2>3. CASE SaveCount(w)
    BY <1>2, <1>4, <1>5, <2>1, <2>3 DEF SaveCount, QueryFails, NullResult
  <2>4. CASE SaveUpdate(w) \/ SaveInsert(w)
    BY <1>2, <1>3, <1>5, <2>1, <2>4 DEF SaveUpdate, SaveInsert
  <2> QED BY <2>2, <2>3, <2>4 DEF SaveStep
<1> QED BY <1>1, <1>6 DEF Elsewhere

LEMMA DeleteSteps ==
    ASSUME TypeOK, NEW w \in Workers, DeleteStep(w)
    PROVE  Elsewhere(w)
<1>1. job[w].pc \in StepsOf["del"]
  BY DEF DeleteStep, DelShare, DelRows, DelCount, DelUpdate, DelFid, DelInfo,
         DelFile, At, StepsOf
<1>2. DelReply(w) => Ends(w)
  BY Ended DEF DelReply
<1>3. \A p : Goto(w, p) => Goes(w, {p})
  BY Gone DEF Keeps
<1>4. \A c, p : Move(w, [job[w] EXCEPT !.cnt = c, !.pc = p]) => Goes(w, {p})
  BY MovedCount
<1>5. \A f, p : Move(w, [job[w] EXCEPT !.fid = f, !.pc = p]) => Goes(w, {p})
  BY MovedFid DEF Keeps
<1>6. \A p \in StepsOf["del"] : Goes(w, {p}) => Goes(w, StepsOf["del"])
  BY DEF Goes
<1>7. Die \/ Ends(w) \/ Goes(w, StepsOf["del"])
  <2>1. {"del_rows", "del_count", "del_update", "del_fid", "del_info", "del_file"}
           \subseteq StepsOf["del"]
    BY DEF StepsOf
  <2>2. CASE DelShare(w) \/ DelFid(w)
    BY <1>2, <1>3, <1>5, <1>6, <2>1, <2>2 DEF DelShare, DelFid, QueryFails, NullResult
  <2>3. CASE DelCount(w)
    BY <1>2, <1>4, <1>6, <2>1, <2>3 DEF DelCount, QueryFails, NullResult
  <2>4. CASE DelRows(w) \/ DelUpdate(w)
    BY <1>2, <1>3, <1>6, <2>1, <2>4 DEF DelRows, DelUpdate
  <2>5. CASE DelInfo(w) \/ DelFile(w)
    BY <1>2, <1>3, <1>6, <2>1, <2>5 DEF DelInfo, DelFile
  <2> QED BY <2>2, <2>3, <2>4, <2>5 DEF DeleteStep
<1> QED BY <1>1, <1>7 DEF Elsewhere

LEMMA ElsewhereKeeps ==
    ASSUME OpInv, TxnInv, NEW w \in Workers, Elsewhere(w)
    PROVE  OpInv' /\ TxnInv' /\ job[w].op # "md5" /\ (Die \/ Others(w))
<1>1. PICK op \in {"upload", "save", "del"} :
        /\ job[w].pc \in StepsOf[op]
        /\ Die \/ Ends(w) \/ Goes(w, StepsOf[op])
  BY DEF Elsewhere
<1>2. job[w].op = op /\ op \in Ops
  <2>1. job[w].pc # "idle" /\ \A o2 \in Ops : job[w].pc \in StepsOf[o2] => o2 = op
    BY <1>1, StoreAssumption DEF StepsOf
  <2> QED BY <2>1 DEF OpInv, At
<1>3. CASE Goes(w, StepsOf[op])
  <2>1. job'[w].op = op /\ job'[w].pc \in StepsOf[op] /\ Others(w)
    BY <1>2, <1>3 DEF Goes
  <2>2. WellPlaced(job'[w])
    BY <1>2, <2>1 DEF WellPlaced
  <2>3. WellWritten(job'[w])
    BY <1>1, <2>1 DEF WellWritten, StepsOf
  <2> QED BY <1>2, <2>1, <2>2, <2>3, OneMoves
<1>4. CASE Die \/ Ends(w)
  BY <1>2, <1>4, AllIdle, OneEnds DEF Ends
<1> QED BY <1>1, <1>3, <1>4

(* The statements of handleDealMd5, one by one. *)
Acked(w) ==
    /\ job[w].op = "md5" /\ job'[w].op = "none"
    /\ answer' # answer /\ answer'[w] = "ok"
    => \E r \in user_file_list' : <<r.o, r.md5>> = Key(w)

LEMMA Md5Keeps ==
    ASSUME TypeOK, OpInv, TxnInv, NEW w \in Workers, Md5Step(w)
    PROVE  OpInv' /\ TxnInv' /\ Acked(w) /\ (Die \/ Others(w))
<1> DEFINE Kept == OpInv' /\ TxnInv' /\ Acked(w) /\ (Die \/ Others(w))
           S == {"md5_own", "md5_count", "md5_update", "md5_insert",
                "md5_commit", "md5_rollback"}
<1>1. job[w] \in Job /\ job[w].pc \in S
  <2>1. job[w] \in Job
    BY DEF TypeOK
  <2>2. job[w].pc \in S
    BY DEF Md5Step, Md5Own, Md5Count, Md5Update, Md5Insert, Md5Commit,
           Md5Rollback, DeadlockVictim, At
  <2> QED BY <2>1, <2>2
<1>2. job[w].op = "md5" /\ "md5" \in Ops
  <2>1. job[w].pc # "idle" /\ \A op \in Ops : job[w].pc \in StepsOf[op] => op = "md5"
    BY <1>1, StoreAssumption DEF StepsOf
  <2> QED BY <2>1 DEF OpInv, At
<1>3. S = StepsOf["md5"]
  BY DEF StepsOf
<1>4. ASSUME NEW p \in S, Goes(w, {p}), WellWritten(job'[w])
      PROVE  Kept
  <2>1. job'[w].pc = p /\ job'[w].op = "md5" /\ Others(w)
    BY <1>2, <1>4 DEF Goes
  <2>2. WellPlaced(job'[w])
    BY <1>2, <1>3, <2>1 DEF WellPlaced
  <2> QED BY <1>4, <2>1, <2>2, OneMoves DEF Acked
<1>5. ASSUME Goes(w, {"md5_rollback"})
      PROVE  Kept
  <2>1. WellWritten(job'[w]) /\ "md5_rollback" \in S
    BY <1>5 DEF Goes, WellWritten
  <2> QED BY <1>4, <1>5, <2>1
<1>6. ASSUME NEW code \in {"fail", "exist"}, Finish(w, code)
      PROVE  Kept
  BY <1>6, Ended, OneEnds DEF Acked, Ends
<1>7. ASSUME Die PROVE Kept
  BY <1>7, AllIdle, DeadEnd DEF Acked
<1>8. CASE Md5Own(w)
  <2>1. CASE Finish(w, "exist")
    BY <1>6, <2>1
  <2>2. CASE Move(w, [job[w] EXCEPT !.txn = TRUE, !.pc = "md5_count"])
    <3> DEFINE j == [job[w] EXCEPT !.txn = TRUE, !.pc = "md5_count"]
    <3>1. job'[w] = j /\ Others(w)
      BY <2>2, Moved
    <3>2. Goes(w, {"md5_count"}) /\ job'[w].txn /\ job'[w].pend = job[w].pend
      BY <1>1, <3>1 DEF Goes, Job
    <3>3. job[w].pend = {}
      BY <1>8 DEF Md5Own, TxnInv
    <3>4. WellWritten(job'[w])
      BY <3>2, <3>3 DEF WellWritten, Goes
    <3> QED BY <1>4, <3>2, <3>4
  <2> QED BY <1>8, <2>1, <2>2 DEF Md5Own
<1>9. CASE Md5Count(w)
  <2>1. CASE QueryFails
    BY <1>7, <2>1 DEF QueryFails, NullResult
  <2>2. ASSUME NEW r \in Info(job[w].m),
               Move(w, [job[w] EXCEPT !.cnt = r.count, !.pc = "md5_update"])
        PROVE  Kept
    <3>1. Goes(w, {"md5_update"})
          /\ job'[w].txn = job[w].txn /\ job'[w].pend = job[w].pend
      BY <2>2, MovedCount
    <3>2. job[w].txn /\ job[w].pend = {}
      BY <1>9 DEF Md5Count, TxnInv
    <3>3. WellWritten(job'[w])
      BY <3>1, <3>2 DEF WellWritten, Goes
    <3> QED BY <1>4, <3>1, <3>3
  <2>3. CASE Goto(w, "md5_rollback")
    BY <1>5, <2>3, Gone DEF Keeps
  <2> QED BY <1>9, <2>1, <2>2, <2>3 DEF Md5Count
<1>10. CASE Md5Update(w)
  <2>0. job[w].txn /\ job[w].pend = {}
    BY <1>10 DEF Md5Update, TxnInv
  <2>1. CASE Goto(w, "md5_rollback")
    BY <1>5, <2>1, Gone DEF Keeps
  <2>2. CASE Move(w, [job[w] EXCEPT !.pend = @ \cup {"count"}, !.pc = "md5_insert"])
    <3>1. Goes(w, {"md5_insert"}) /\ job'[w].txn = job[w].txn
          /\ job'[w].pend = job[w].pend \cup {"count"}
      BY <2>2, MovedPend
    <3>2. WellWritten(job'[w])
      BY <2>0, <3>1 DEF WellWritten, Goes
    <3> QED BY <1>4, <3>1, <3>2
  <2> QED BY <1>10, <2>0, <2>1, <2>2 DEF Md5Update
<1>11. CASE Md5Insert(w)
  <2>0. job[w].txn /\ job[w].pend = {"count"}
    BY <1>11 DEF Md5Insert, TxnInv
  <2>1. CASE Goto(w, "md5_rollback")
    BY <1>5, <2>1, Gone DEF Keeps
  <2>2. CASE Move(w, [job[w] EXCEPT !.pend = @ \cup {"row"}, !.pc = "md5_commit"])
    <3>1. Goes(w, {"md5_commit"}) /\ job'[w].txn = job[w].txn
          /\ job'[w].pend = job[w].pend \cup {"row"}
      BY <2>2, MovedPend
    <3>2. WellWritten(job'[w])
      BY <2>0, <3>1 DEF WellWritten, Goes
    <3> QED BY <1>4, <3>1, <3>2
  <2> QED BY <1>11, <2>0, <2>1, <2>2 DEF Md5Insert
<1>12. CASE Md5Commit(w)
  <2>1. "row" \in job[w].pend
    BY <1>12 DEF Md5Commit, TxnInv
  <2>2. [id |-> last_id + 1, o |-> job[w].o, md5 |-> job[w].m] \in user_file_list'
    BY <1>12, <2>1 DEF Md5Commit, InsertRow
  <2>3. Acked(w)
    BY <2>2 DEF Acked, Key
  <2>4. Ends(w)
    BY <1>12, Ended DEF Md5Commit
  <2> QED BY <2>3, <2>4, OneEnds DEF Ends
<1>13. CASE Md5Rollback(w)
  BY <1>6, <1>13 DEF Md5Rollback
<1>14. CASE DeadlockVictim(w)
  <2>1. CASE NullResult
    BY <1>7, <2>1 DEF NullResult
  <2>2. CASE Move(w, [job[w] EXCEPT !.txn = FALSE, !.pend = {}, !.pc = "md5_rollback"])
    <3> DEFINE j == [job[w] EXCEPT !.txn = FALSE, !.pend = {}, !.pc = "md5_rollback"]
    <3>1. job'[w] = j /\ Others(w)
      BY <2>2, Moved
    <3>2. Goes(w, {"md5_rollback"})
      BY <1>1, <3>1 DEF Goes, Job
    <3> QED BY <1>5, <3>2
  <2> QED BY <1>14, <2>1, <2>2 DEF DeadlockVictim
<1> QED BY <1>8, <1>9, <1>10, <1>11, <1>12, <1>13, <1>14 DEF Md5Step

LEMMA WorkKeeps ==
    ASSUME TypeOK, OpInv, TxnInv, NEW w \in Workers, Work(w)
    PROVE  OpInv' /\ TxnInv' /\ Acked(w) /\ (Die \/ Others(w))
<1>1. CASE Md5Step(w)
  BY <1>1, Md5Keeps
<1>2. CASE Elsewhere(w)
  BY <1>2, ElsewhereKeeps DEF Acked
<1> QED BY <1>1, <1>2, UploadSteps, SaveSteps, DeleteSteps DEF Work

LEMMA NextTxn ==
    ASSUME TypeOK, OpInv, TxnInv, NoDrop, [Next]_vars
    PROVE  OpInv' /\ TxnInv'
<1>1. CASE UNCHANGED vars
  BY <1>1 DEF OpInv, TxnInv, At, vars
<1>2. CASE ProcessCrash
  BY <1>2, AllIdle DEF ProcessCrash
<1>3. ASSUME NEW w \in Workers, Start(w)
      PROVE  OpInv' /\ TxnInv'
  <2>1. PICK op \in Ops, o \in Owners, m \in Md5s :
           Move(w, [Idle EXCEPT !.pc = FirstPc[op], !.op = op, !.o = o, !.m = m])
    BY <1>3 DEF Start
  <2> DEFINE j == [Idle EXCEPT !.pc = FirstPc[op], !.op = op, !.o = o, !.m = m]
  <2>2. job'[w] = j /\ Others(w)
    BY <2>1, Moved
  <2>3. j.pc = FirstPc[op] /\ j.op = op /\ j.pend = {}
    BY DEF Idle
  <2> HIDE DEF j
  <2>4. FirstPc[op] \in StepsOf[op]
        /\ FirstPc[op] \notin {"md5_count", "md5_update", "md5_insert", "md5_commit"}
    BY StoreAssumption DEF FirstPc, StepsOf
  <2> QED BY <2>2, <2>3, <2>4, OneMoves DEF WellPlaced, WellWritten
<1>4. ASSUME NEW w \in Workers, Work(w)
      PROVE  OpInv' /\ TxnInv'
  BY <1>4, WorkKeeps
<1>5. ~ \E w \in Workers : Reconnect(w)
  BY DEF NoDrop, Reconnect, Fault
<1> QED BY <1>1, <1>2, <1>3, <1>4, <1>5 DEF Next

LEMMA InitTxn == Init => OpInv /\ TxnInv
BY IdleFields DEF Init, OpInv, TxnInv, At

(* Md5Ok is sent only for a file that the user has: whatever else runs,    *)
(* and whichever statement fails, as long as no connection is lost and     *)
(* made again inside the transaction.                                      *)
THEOREM AcknowledgedUploads ==
    ASSUME NoDrop
    PROVE  Spec => AckedIsStored
<1>1. TypeOK /\ OpInv /\ TxnInv /\ [Next]_vars => (TypeOK /\ OpInv /\ TxnInv)'
  BY NextType, NextTxn
<1>2. ASSUME TypeOK, OpInv, TxnInv, [Next]_vars, NEW w \in Workers
      PROVE  Acked(w)
  <2>1. CASE UNCHANGED vars \/ ProcessCrash
    BY <2>1, DeadEnd DEF Acked, vars, ProcessCrash
  <2>2. ASSUME NEW v \in Workers, Work(v)
        PROVE  Acked(w)
    <3>1. Acked(v) /\ (Die \/ Others(v))
      BY <1>2, <2>2, WorkKeeps
    <3>2. CASE Die
      BY <3>2, DeadEnd DEF Acked
    <3>3. CASE v # w /\ Others(v)
      BY <3>3 DEF Acked, Others
    <3> QED BY <3>1, <3>2, <3>3
  <2>3. ASSUME NEW v \in Workers, Start(v)
        PROVE  Acked(w)
    BY <2>3 DEF Start, Acked
  <2>4. ~ \E v \in Workers : Reconnect(v)
    BY DEF NoDrop, Reconnect, Fault
  <2>5. \/ UNCHANGED vars \/ ProcessCrash
        \/ \E v \in Workers : Start(v) \/ Work(v) \/ Reconnect(v)
    BY <1>2 DEF Next
  <2> QED BY <2>1, <2>2, <2>3, <2>4, <2>5
<1>3. TypeOK /\ OpInv /\ TxnInv /\ [Next]_vars =>
        [\A w \in Workers :
          /\ job[w].op = "md5" /\ job'[w].op = "none"
          /\ answer' # answer /\ answer'[w] = "ok"
          => \E r \in user_file_list' : <<r.o, r.md5>> = Key(w)]_vars
  BY <1>2 DEF Acked
<1>4. Init => TypeOK /\ OpInv /\ TxnInv
  BY InitType, InitTxn
<1> QED BY <1>1, <1>3, <1>4, PTL DEF Spec, AckedIsStored

-------------------------------------------------------------------------------
(* Counting.  Beside instant uploads there may be uploads of new contents, *)
(* in good order; the content's users are the rows of user_file_list.      *)

Counted ==
    /\ NoDrop
    /\ Ops \subseteq {"md5", "upload"}
    /\ "upload" \in Ops => "upload" \in Orderly

(* The rows are finitely many, and a new one has a new id. *)
ListInv ==
    /\ IsFiniteSet(user_file_list)
    /\ \A r \in user_file_list : r.id <= last_id

(* Whoever has read a count for an update still finds it in the table, and *)
(* nobody else has a lock there.                                           *)
HasCount(w) == job[w].pc \in {"md5_update", "md5_insert", "md5_commit"}
LockInv == \A w \in Workers : HasCount(w) =>
    /\ infoLock[job[w].m] = {w}
    /\ Info(job[w].m) # {}
    /\ \A r \in Info(job[w].m) : r.count = job[w].cnt

(* One upload of a content at a time, whose first row is its own. *)
Unstored(w) == job[w].pc \in {"up_store", "up_url", "up_info"}
UploadInv ==
    /\ \A w \in Workers : /\ Unstored(w) => Info(job[w].m) = {}
                          /\ At(w, "up_row") => Info(job[w].m) # {}
    /\ \A v, w \in Workers :
          job[v].op = "upload" /\ job[w].op = "upload" /\ job[v].m = job[w].m => v = w

(* What a user has is known, and has one count. *)
KnownInv ==
    /\ \A r \in user_file_list : Info(r.md5) # {}
    /\ \A r, q \in file_info : r.md5 = q.md5 => r.count = q.count

(* A count is ahead of the users only by an upload that has not listed its *)
(* row yet, or did not come to do so.                                      *)
Users(m)    == Cardinality(RowsOf(m))
Unlisted(m) == IF \E w \in Workers : At(w, "up_row") /\ job[w].m = m THEN 1 ELSE 0
CountInv ==
    \A r \in file_info :
        /\ Users(r.md5) + Unlisted(r.md5) <= r.count
        /\ "upload" \notin Ops => Users(r.md5) = r.count

Inst == ListInv /\ LockInv /\ UploadInv /\ KnownInv /\ CountInv

LEMMA UsersType ==
    ASSUME ListInv, NEW m
    PROVE  Users(m) \in Nat /\ IsFiniteSet(RowsOf(m)) /\ Unlisted(m) \in 0..1
<1>1. RowsOf(m) \in SUBSET user_file_list
  BY DEF RowsOf
<1>2. IsFiniteSet(RowsOf(m))
  BY <1>1, FS_Subset DEF ListInv
<1> QED BY <1>2, FS_CardinalityType DEF Users, Unlisted

(* insert into user_file_list: one more user of the content *)
LEMMA InsertUsers ==
    ASSUME TypeOK, ListInv, NEW w \in Workers, ~At(w, "idle"), InsertRow(w),
           NEW m, m = job[w].m
    PROVE  /\ ListInv'
           /\ Users(m)' = Users(m) + 1
           /\ \A x : x # m => Users(x)' = Users(x)
           /\ \A r \in user_file_list' : r \in user_file_list \/ r.md5 = m
<1> DEFINE n == [id |-> last_id + 1, o |-> job[w].o, md5 |-> m]
<1>1. user_file_list' = user_file_list \cup {n} /\ last_id' = last_id + 1
  BY DEF InsertRow
<1>2. last_id \in Nat /\ \A r \in user_file_list : r.id \in Nat /\ r.id <= last_id
  BY DEF TypeOK, OwnerRow, ListInv
<1>3. n.id = last_id + 1 /\ n.md5 = m /\ n \notin user_file_list
  BY <1>2
<1> HIDE DEF n
<1>4. ListInv'
  <2>1. IsFiniteSet(user_file_list \cup {n})
    BY FS_AddElement DEF ListInv
  <2>2. ASSUME NEW r \in user_file_list' PROVE r.id <= last_id'
    BY <1>1, <1>2, <1>3
  <2> QED BY <1>1, <2>1, <2>2 DEF ListInv
<1>5. Users(m)' = Users(m) + 1
  <2> DEFINE S == RowsOf(m)
  <2>1. RowsOf(m)' = S \cup {n} /\ n \notin S
    BY <1>1, <1>3 DEF RowsOf
  <2>2. IsFiniteSet(S)
    BY UsersType
  <2> HIDE DEF S
  <2>3. Cardinality(S \cup {n}) = Cardinality(S) + 1
    BY <2>1, <2>2, FS_AddElement
  <2> QED BY <2>1, <2>3 DEF Users, S
<1>6. ASSUME NEW x, x # m PROVE Users(x)' = Users(x)
  <2>1. RowsOf(x)' = RowsOf(x)
    BY <1>1, <1>3, <1>6 DEF RowsOf
  <2> QED BY <2>1 DEF Users
<1>7. \A r \in user_file_list' : r \in user_file_list \/ r.md5 = m
  BY <1>1, <1>3
<1> QED BY <1>4, <1>5, <1>6, <1>7

(* update file_info: the rows of the content, and no others *)
LEMMA SetCountRows ==
    ASSUME TypeOK, NEW m, NEW c, SetCount(m, c)
    PROVE  /\ \A r \in file_info' : \E q \in file_info :
                 /\ q.md5 = r.md5
                 /\ r = q \/ (q.md5 = m /\ r.count = c)
                 /\ r.md5 = m => r.count = c
           /\ \A x : Info(x) # {} => Info(x)' # {}
           /\ \A x : x # m => Info(x)' = Info(x)
<1> DEFINE f(r) == IF r.md5 = m THEN [r EXCEPT !.count = c] ELSE r
<1>1. file_info' = {f(r) : r \in file_info}
  BY DEF SetCount
<1>2. \A r \in file_info : /\ f(r).md5 = r.md5
                           /\ r.md5 = m => f(r).count = c
                           /\ r.md5 # m => f(r) = r
  BY DEF TypeOK, InfoRow
<1> HIDE DEF f
<1>3. \A r \in file_info' : \E q \in file_info :
                 /\ q.md5 = r.md5
                 /\ r = q \/ (q.md5 = m /\ r.count = c)
                 /\ r.md5 = m => r.count = c
  BY <1>1, <1>2
<1>4. \A x : Info(x) # {} => Info(x)' # {}
  BY <1>1, <1>2 DEF Info
<1>5. ASSUME NEW x, x # m PROVE Info(x)' = Info(x)
  <2>1. \A r \in Info(x) : r \in Info(x)'
    BY <1>1, <1>2, <1>5 DEF Info
  <2>2. \A r \in Info(x)' : r \in Info(x)
    BY <1>1, <1>2, <1>5 DEF Info
  <2> QED BY <2>1, <2>2
<1> QED BY <1>3, <1>4, <1>5

LEMMA UploadOp ==
    ASSUME OpInv, NEW w \in Workers, Unstored(w) \/ At(w, "up_row")
    PROVE  job[w].op = "upload" /\ "upload" \in Ops
<1>1. job[w].pc \in {"up_store", "up_url", "up_info", "up_row"}
  BY DEF Unstored, At
<1>2. \A op \in Ops : job[w].pc \in StepsOf[op] => op = "upload"
  BY <1>1, StoreAssumption DEF StepsOf
<1> QED BY <1>1, <1>2 DEF OpInv, At

(* A step of w that leaves the tables alone and starts no upload. *)
LEMMA QuietCounts ==
    ASSUME TypeOK, OpInv', Inst, NEW w \in Workers, Others(w),
           UNCHANGED <<file_info, user_file_list>>,
           last_id' \in Nat, last_id <= last_id',
           job'[w].op # "upload",
           HasCount(w)' => /\ infoLock'[job'[w].m] = {w}
                           /\ Info(job'[w].m) # {}
                           /\ \A r \in Info(job'[w].m) : r.count = job'[w].cnt,
           \A v \in Workers \ {w} :
              HasCount(v) => infoLock'[job[v].m] = infoLock[job[v].m]
    PROVE  Inst'
<1>1. /\ \A m : Info(m)' = Info(m) /\ Users(m)' = Users(m)
      /\ \A v \in Workers \ {w} : job'[v] = job[v]
  BY DEF Info, Users, RowsOf, Others
<1>2. ~Unstored(w)' /\ ~At(w, "up_row")'
  <2>1. job'[w].pc # "idle" => job'[w].op \in Ops /\ job'[w].pc \in StepsOf[job'[w].op]
    BY DEF OpInv, At
  <2>2. job'[w].op \in Ops => job'[w].op \in {"md5", "save", "del"}
    BY StoreAssumption
  <2> QED BY <2>1, <2>2 DEF Unstored, At, StepsOf
<1>3. ListInv'
  <2>1. \A r \in user_file_list : r.id \in Nat /\ last_id \in Nat
    BY DEF TypeOK, OwnerRow
  <2> QED BY <2>1 DEF Inst, ListInv
<1>4. LockInv'
  <2> SUFFICES ASSUME NEW v \in Workers, HasCount(v)'
               PROVE  /\ infoLock'[job'[v].m] = {v}
                      /\ Info(job[v].m)' # {}
                      /\ \A r \in Info(job[v].m)' : r.count = job'[v].cnt
    BY DEF LockInv
  <2>1. Info(job[v].m)' = Info(job'[v].m)
    BY DEF Info
  <2>2. CASE v = w
    BY <2>1, <2>2
  <2>3. CASE v # w
    <3>1. job'[v] = job[v] /\ HasCount(v)
      BY <1>1, <2>3 DEF HasCount
    <3> QED BY <2>1, <2>3, <3>1 DEF Inst, LockInv
  <2> QED BY <2>2, <2>3
<1>5. UploadInv'
  BY <1>1, <1>2 DEF Inst, UploadInv, Unstored, At
<1>6. KnownInv'
  BY <1>1 DEF Inst, KnownInv
<1>7. CountInv'
  <2>1. \A m : Unlisted(m)' = Unlisted(m) \/ (Unlisted(m)' = 0 /\ Unlisted(m) = 1)
    BY <1>1, <1>2 DEF Unlisted, At
  <2> SUFFICES ASSUME NEW r \in file_info
               PROVE  /\ Users(r.md5)' + Unlisted(r.md5)' <= r.count
                      /\ "upload" \notin Ops => Users(r.md5)' = r.count
    BY DEF CountInv
  <2>2. Users(r.md5) \in Nat /\ Unlisted(r.md5) \in 0..1 /\ r.count \in Int
    BY UsersType DEF Inst, TypeOK, InfoRow
  <2>3. /\ Users(r.md5) + Unlisted(r.md5) <= r.count
        /\ "upload" \notin Ops => Users(r.md5) = r.count
    BY DEF Inst, CountInv
  <2> QED BY <1>1, <2>1, <2>2, <2>3
<1> QED BY <1>3, <1>4, <1>5, <1>6, <1>7 DEF Inst

(* A request of the content that is being uploaded goes on. *)
LEMMA UploadGoesOn ==
    ASSUME TypeOK, Inst, NEW w \in Workers, Others(w), Unstored(w)',
           UNCHANGED <<file_info, user_file_list, infoLock>>,
           last_id' \in Nat, last_id <= last_id', job'[w].op = "upload",
           Info(job'[w].m) = {},
           \A v \in Workers \ {w} : job[v].op = "upload" => job[v].m # job'[w].m
    PROVE  Inst'
<1>1. /\ \A m : Info(m)' = Info(m) /\ Users(m)' = Users(m)
      /\ \A v \in Workers \ {w} : job'[v] = job[v]
  BY DEF Info, Users, RowsOf, Others
<1>2. ~HasCount(w)' /\ ~At(w, "up_row")'
  BY DEF Unstored, HasCount, At
<1>3. ListInv'
  <2>1. \A r \in user_file_list : r.id \in Nat /\ last_id \in Nat
    BY DEF TypeOK, OwnerRow
  <2> QED BY <2>1 DEF Inst, ListInv
<1>4. LockInv'
  BY <1>1, <1>2 DEF Inst, LockInv, HasCount
<1>5. UploadInv'
  <2>1. Info(job[w].m)' = {}
    BY DEF Info
  <2>2. ASSUME NEW v \in Workers
        PROVE  /\ Unstored(v)' => Info(job[v].m)' = {}
               /\ At(v, "up_row")' => Info(job[v].m)' # {}
    <3>1. CASE v = w
      BY <1>2, <2>1, <3>1
    <3>2. CASE v # w
      BY <1>1, <3>2 DEF Inst, UploadInv, Unstored, At
    <3> QED BY <3>1, <3>2
  <2>3. ASSUME NEW v \in Workers, NEW u \in Workers, job'[v].op = "upload",
               job'[u].op = "upload", job'[v].m = job'[u].m
        PROVE  v = u
    BY <1>1, <2>3 DEF Inst, UploadInv
  <2> QED BY <2>2, <2>3 DEF UploadInv
<1>6. KnownInv'
  BY <1>1 DEF Inst, KnownInv
<1>7. CountInv'
  <2>1. \A m : Unlisted(m)' = Unlisted(m) \/ (Unlisted(m)' = 0 /\ Unlisted(m) = 1)
    BY <1>1, <1>2 DEF Unlisted, At
  <2> SUFFICES ASSUME NEW r \in file_info
               PROVE  /\ Users(r.md5)' + Unlisted(r.md5)' <= r.count
                      /\ "upload" \notin Ops => Users(r.md5)' = r.count
    BY DEF CountInv
  <2>2. Users(r.md5) \in Nat /\ Unlisted(r.md5) \in 0..1 /\ r.count \in Int
    BY UsersType DEF Inst, TypeOK, InfoRow
  <2>3. /\ Users(r.md5) + Unlisted(r.md5) <= r.count
        /\ "upload" \notin Ops => Users(r.md5) = r.count
    BY DEF Inst, CountInv
  <2> QED BY <1>1, <2>1, <2>2, <2>3
<1> QED BY <1>3, <1>4, <1>5, <1>6, <1>7 DEF Inst

(* Every request is gone. *)
LEMMA DieCounts ==
    ASSUME TypeOK, Inst, Die
    PROVE  Inst'
<1>1. /\ \A m : Info(m)' = Info(m) /\ Users(m)' = Users(m)
      /\ UNCHANGED <<file_info, user_file_list, last_id>>
  BY DeadEnd DEF Info, Users, RowsOf
<1>2. \A w \in Workers : /\ ~HasCount(w)' /\ ~Unstored(w)' /\ ~At(w, "up_row")'
                         /\ job'[w].op # "upload"
  BY DeadEnd, IdleFields DEF HasCount, Unstored, At
<1>3. ListInv' /\ LockInv' /\ UploadInv' /\ KnownInv'
  BY <1>1, <1>2 DEF Inst, ListInv, LockInv, UploadInv, KnownInv
<1>4. CountInv'
  <2>1. \A m : Unlisted(m)' = 0
    BY <1>2 DEF Unlisted
  <2> SUFFICES ASSUME NEW r \in file_info
               PROVE  /\ Users(r.md5)' + Unlisted(r.md5)' <= r.count
                      /\ "upload" \notin Ops => Users(r.md5)' = r.count
    BY <1>1 DEF CountInv
  <2>2. Users(r.md5) \in Nat /\ Unlisted(r.md5) \in 0..1 /\ r.count \in Int
    BY UsersType DEF Inst, TypeOK, InfoRow
  <2>3. /\ Users(r.md5) + Unlisted(r.md5) <= r.count
        /\ "upload" \notin Ops => Users(r.md5) = r.count
    BY DEF Inst, CountInv
  <2> QED BY <1>1, <2>1, <2>2, <2>3
<1> QED BY <1>3, <1>4 DEF Inst

(* Commit: the count and the row, together. *)
LEMMA CommitCounts ==
    ASSUME TypeOK, OpInv, TxnInv, Inst, NEW w \in Workers, Md5Commit(w)
    PROVE  Inst'
<1> DEFINE m == job[w].m
           c == job[w].cnt + 1
<1>1. /\ SetCount(m, c) /\ InsertRow(w) /\ Unlock(w) /\ Finish(w, "ok")
      /\ At(w, "md5_commit")
  BY DEF Md5Commit, TxnInv
<1>2. Ends(w) /\ job[w] \in Job /\ ~At(w, "idle") /\ c \in Int
  BY <1>1, Ended DEF TypeOK, Job, At
<1>3. /\ infoLock[m] = {w} /\ Info(m) # {}
      /\ \A r \in Info(m) : r.count = job[w].cnt
  BY <1>1 DEF Inst, LockInv, HasCount, At
<1>4. PICK y : y = m
  OBVIOUS
<1> HIDE DEF m
<1>5. /\ ListInv' /\ Users(y)' = Users(y) + 1
      /\ \A x : x # y => Users(x)' = Users(x)
      /\ \A r \in user_file_list' : r \in user_file_list \/ r.md5 = y
  BY <1>1, <1>2, <1>4, InsertUsers DEF Inst, m
<1>6. /\ \A r \in file_info' : \E q \in file_info :
               /\ q.md5 = r.md5
               /\ r = q \/ (q.md5 = y /\ r.count = c)
               /\ r.md5 = y => r.count = c
      /\ \A x : Info(x) # {} => Info(x)' # {}
      /\ \A x : x # y => Info(x)' = Info(x)
  BY <1>1, <1>4, SetCountRows
<1>7. /\ \A v \in Workers \ {w} : job'[v] = job[v]
      /\ ~HasCount(w)' /\ ~Unstored(w)' /\ ~At(w, "up_row")'
      /\ job'[w].op # "upload"
  BY <1>2, IdleFields DEF Ends, Others, HasCount, Unstored, At
<1>8. LockInv'
  <2> SUFFICES ASSUME NEW v \in Workers, HasCount(v)'
               PROVE  /\ infoLock'[job'[v].m] = {v}
                      /\ Info(job[v].m)' # {}
                      /\ \A r \in Info(job[v].m)' : r.count = job'[v].cnt
    BY DEF LockInv
  <2>1. v # w /\ job'[v] = job[v] /\ HasCount(v)
    BY <1>7 DEF HasCount
  <2>2. /\ infoLock[job[v].m] = {v} /\ Info(job[v].m) # {}
        /\ \A r \in Info(job[v].m) : r.count = job[v].cnt
    BY <2>1 DEF Inst, LockInv
  <2>3. job[v].m # y
    BY <1>3, <1>4, <2>1, <2>2
  <2>4. job[v].m \in Md5s
    BY <2>1 DEF TypeOK, At, HasCount
  <2>5. infoLock'[job[v].m] = {v} \ {w}
    BY <1>1, <2>2, <2>4 DEF Unlock
  <2>6. ASSUME NEW x, x = job[v].m PROVE Info(x)' = Info(x)
    BY <1>6, <2>3, <2>6
  <2> QED BY <2>1, <2>2, <2>5, <2>6 DEF Info
<1>9. UploadInv'
  <2>1. ASSUME NEW v \in Workers
        PROVE  /\ Unstored(v)' => Info(job[v].m)' = {}
               /\ At(v, "up_row")' => Info(job[v].m)' # {}
    <3>1. CASE v = w
      BY <1>7, <3>1
    <3>2. CASE v # w
      <4>1. PICK x : x = job[v].m
        OBVIOUS
      <4>2. /\ job'[v] = job[v]
            /\ Unstored(v) => Info(x) = {}
            /\ At(v, "up_row") => Info(x) # {}
        BY <1>7, <3>2, <4>1 DEF Inst, UploadInv
      <4>3. Info(x) = {} => Info(x)' = {}
        BY <1>3, <1>4, <1>6
      <4>4. /\ Unstored(v)' => Info(x)' = {}
            /\ At(v, "up_row")' => Info(x)' # {}
        BY <1>6, <4>2, <4>3 DEF Unstored, At
      <4> QED BY <4>1, <4>2, <4>4 DEF Info
    <3> QED BY <3>1, <3>2
  <2>2. ASSUME NEW v \in Workers, NEW u \in Workers, job'[v].op = "upload",
               job'[u].op = "upload", job'[v].m = job'[u].m
        PROVE  v = u
    BY <1>7, <2>2 DEF Inst, UploadInv
  <2> QED BY <2>1, <2>2 DEF UploadInv
<1>10. KnownInv'
  <2>1. ASSUME NEW r \in user_file_list' PROVE Info(r.md5)' # {}
    BY <1>3, <1>4, <1>5, <1>6, <2>1 DEF Inst, KnownInv
  <2>2. ASSUME NEW r \in file_info', NEW q \in file_info', r.md5 = q.md5
        PROVE  r.count = q.count
    <3>1. CASE r.md5 = y
      BY <1>6, <2>2, <3>1
    <3>2. CASE r.md5 # y
      <4>1. r \in file_info /\ q \in file_info
        BY <1>6, <2>2, <3>2
      <4> QED BY <2>2, <4>1 DEF Inst, KnownInv
    <3> QED BY <3>1, <3>2
  <2> QED BY <2>1, <2>2 DEF KnownInv
<1>11. CountInv'
  <2>1. \A x : Unlisted(x)' = Unlisted(x) \/ (Unlisted(x)' = 0 /\ Unlisted(x) = 1)
    BY <1>7 DEF Unlisted, At
  <2> SUFFICES ASSUME NEW r \in file_info'
               PROVE  /\ Users(r.md5)' + Unlisted(r.md5)' <= r.count
                      /\ "upload" \notin Ops => Users(r.md5)' = r.count
    BY DEF CountInv
  <2>2. PICK q \in file_info :
               /\ q.md5 = r.md5
               /\ r = q \/ (q.md5 = y /\ r.count = c)
               /\ r.md5 = y => r.count = c
    BY <1>6
  <2>3. /\ Users(r.md5) \in Nat /\ Unlisted(r.md5) \in 0..1 /\ q.count \in Int
        /\ Users(r.md5) + Unlisted(r.md5) <= q.count
        /\ "upload" \notin Ops => Users(r.md5) = q.count
    BY <2>2, UsersType DEF Inst, CountInv, TypeOK, InfoRow
  <2>4. CASE r.md5 = y
    <3>1. q.count = job[w].cnt
      BY <1>3, <1>4, <2>2, <2>4 DEF Info
    <3>2. r.count = q.count + 1 /\ Users(r.md5)' = Users(r.md5) + 1
      BY <1>5, <2>2, <2>4, <3>1
    <3> QED BY <2>1, <2>3, <3>2
  <2>5. CASE r.md5 # y
    <3>1. r = q /\ Users(r.md5)' = Users(r.md5)
      BY <1>5, <2>2, <2>5
    <3> QED BY <2>1, <2>3, <3>1
  <2> QED BY <2>4, <2>5
<1> QED BY <1>5, <1>8, <1>9, <1>10, <1>11 DEF Inst

(* storeFileinfo, first statement: a content with one user to come. *)
LEMMA FirstRowCounts ==
    ASSUME TypeOK, OpInv, Inst, NEW w \in Workers, UpInfo(w), Goto(w, "up_row")
    PROVE  Inst'
<1> DEFINE n == [md5 |-> job[w].m, fid |-> job[w].fid, count |-> 1]
<1>1. /\ At(w, "up_info") /\ file_info' = file_info \cup {n}
      /\ UNCHANGED <<user_file_list, last_id, infoLock>>
  <2>1. ~Finish(w, "fail")
    <3>1. Finish(w, "fail") => job'[w].pc = "idle"
      BY Ended, IdleFields DEF Ends
    <3>2. job'[w].pc = "up_row"
      BY Gone DEF Keeps, Goes
    <3> QED BY <3>1, <3>2
  <2> QED BY <2>1 DEF UpInfo, locks
<1>2. PICK m : m = job[w].m
  OBVIOUS
<1>3. n.md5 = m /\ n.count = 1
  BY <1>2
<1> HIDE DEF n
<1>4. /\ Keeps(w, "up_row") /\ \A v \in Workers \ {w} : job'[v] = job[v]
      /\ job'[w].pc = "up_row" /\ job'[w].m = m /\ job'[w].op = job[w].op
  BY <1>2, Gone DEF Keeps, Goes, Others
<1>5. job[w].op = "upload" /\ "upload" \in Ops
  BY <1>1, UploadOp DEF Unstored, At
<1>6. Info(m) = {}
  BY <1>1, <1>2 DEF Inst, UploadInv, Unstored, At
<1>7. /\ \A x : x # m => Info(x)' = Info(x)
      /\ Info(m)' = {n}
      /\ \A x : Users(x)' = Users(x)
  BY <1>1, <1>3, <1>6 DEF Info, Users, RowsOf
<1>8. ListInv'
  BY <1>1 DEF Inst, ListInv
<1>9. LockInv'
  <2> SUFFICES ASSUME NEW v \in Workers, HasCount(v)'
               PROVE  /\ infoLock'[job'[v].m] = {v}
                      /\ Info(job[v].m)' # {}
                      /\ \A r \in Info(job[v].m)' : r.count = job'[v].cnt
    BY DEF LockInv
  <2>1. v # w /\ job'[v] = job[v] /\ HasCount(v)
    BY <1>4 DEF HasCount
  <2>2. PICK x : x = job[v].m
    OBVIOUS
  <2>3. /\ infoLock[x] = {v} /\ Info(x) # {}
        /\ \A r \in Info(x) : r.count = job[v].cnt
    BY <2>1, <2>2 DEF Inst, LockInv
  <2>4. Info(x)' = Info(x)
    BY <1>6, <1>7, <2>3
  <2> QED BY <1>1, <2>1, <2>2, <2>3, <2>4 DEF Info
<1>10. UploadInv'
  <2>1. ASSUME NEW v \in Workers
        PROVE  /\ Unstored(v)' => Info(job[v].m)' = {}
               /\ At(v, "up_row")' => Info(job[v].m)' # {}
    <3>1. CASE v = w
      BY <1>1, <1>3, <1>4, <3>1 DEF Unstored, At, Info
    <3>2. CASE v # w
      <4>1. PICK x : x = job[v].m
        OBVIOUS
      <4>2. /\ job'[v] = job[v]
            /\ Unstored(v) => Info(x) = {} /\ job[v].op = "upload"
            /\ At(v, "up_row") => Info(x) # {} /\ job[v].op = "upload"
        BY <1>4, <3>2, <4>1, UploadOp DEF Inst, UploadInv
      <4>3. job[v].op = "upload" => x # m
        BY <1>2, <1>5, <3>2, <4>1 DEF Inst, UploadInv
      <4>4. /\ Unstored(v)' => Info(x)' = {}
            /\ At(v, "up_row")' => Info(x)' # {}
        BY <1>7, <4>2, <4>3 DEF Unstored, At
      <4> QED BY <4>1, <4>2, <4>4 DEF Info
    <3> QED BY <3>1, <3>2
  <2>2. ASSUME NEW v \in Workers, NEW u \in Workers, job'[v].op = "upload",
               job'[u].op = "upload", job'[v].m = job'[u].m
        PROVE  v = u
    BY <1>2, <1>4, <2>2 DEF Inst, UploadInv
  <2> QED BY <2>1, <2>2 DEF UploadInv
<1>11. KnownInv'
  <2>1. ASSUME NEW r \in user_file_list' PROVE Info(r.md5)' # {}
    BY <1>1, <1>7, <2>1 DEF Inst, KnownInv
  <2>2. ASSUME NEW r \in file_info', NEW q \in file_info', r.md5 = q.md5
        PROVE  r.count = q.count
    <3>1. CASE r \in file_info /\ q \in file_info
      BY <2>2, <3>1 DEF Inst, KnownInv
    <3>2. CASE r = n \/ q = n
      <4>1. r = n /\ q = n
        BY <1>1, <1>3, <1>6, <2>2, <3>2 DEF Info
      <4> QED BY <4>1
    <3> QED BY <1>1, <2>2, <3>1, <3>2
  <2> QED BY <2>1, <2>2 DEF KnownInv
<1>12. CountInv'
  <2> SUFFICES ASSUME NEW r \in file_info'
               PROVE  Users(r.md5)' + Unlisted(r.md5)' <= r.count
    BY <1>5 DEF CountInv
  <2>1. CASE r = n
    <3>1. RowsOf(m) = {}
      BY <1>6 DEF Inst, KnownInv, RowsOf
    <3>2. Users(m)' = 0
      BY <1>7, <3>1, FS_EmptySet DEF Users
    <3>3. Unlisted(m)' \in 0..1
      BY DEF Unlisted
    <3> QED BY <1>3, <2>1, <3>2, <3>3
  <2>2. CASE r \in file_info
    <3>1. r.md5 # m
      BY <1>6, <2>2 DEF Info
    <3>2. Unlisted(r.md5)' = 1 => Unlisted(r.md5) = 1
      BY <1>4, <3>1 DEF Unlisted, At
    <3>3. /\ Users(r.md5) \in Nat /\ Unlisted(r.md5) \in 0..1 /\ r.count \in Int
          /\ Users(r.md5) + Unlisted(r.md5) <= r.count
      BY <2>2, UsersType DEF Inst, CountInv, TypeOK, InfoRow
    <3>4. Unlisted(r.md5)' \in 0..1 /\ Users(r.md5)' = Users(r.md5)
      BY <1>7 DEF Unlisted
    <3> QED BY <3>2, <3>3, <3>4
  <2> QED BY <1>1, <2>1, <2>2
<1> QED BY <1>8, <1>9, <1>10, <1>11, <1>12 DEF Inst

(* storeFileinfo, second statement: the user that was counted is listed. *)
LEMMA UserRowCounts ==
    ASSUME TypeOK, OpInv, Inst, NEW w \in Workers, At(w, "up_row"),
           InsertRow(w), Ends(w), UNCHANGED <<file_info, infoLock>>
    PROVE  Inst'
<1>1. PICK m : m = job[w].m
  OBVIOUS
<1>2. /\ ListInv' /\ Users(m)' = Users(m) + 1
      /\ \A x : x # m => Users(x)' = Users(x)
      /\ \A r \in user_file_list' : r \in user_file_list \/ r.md5 = m
  BY <1>1, InsertUsers DEF Inst, At
<1>3. /\ \A v \in Workers \ {w} : job'[v] = job[v]
      /\ ~HasCount(w)' /\ ~Unstored(w)' /\ ~At(w, "up_row")'
      /\ job'[w].op # "upload"
  BY IdleFields DEF Ends, Others, HasCount, Unstored, At
<1>4. job[w].op = "upload" /\ "upload" \in Ops /\ Info(m) # {}
  BY <1>1, UploadOp DEF Inst, UploadInv
<1>5. \A x : Info(x)' = Info(x)
  BY DEF Info
<1>6. LockInv'
  BY <1>3, <1>5 DEF Inst, LockInv, HasCount
<1>7. UploadInv'
  BY <1>3, <1>5 DEF Inst, UploadInv, Unstored, At
<1>8. KnownInv'
  BY <1>2, <1>4, <1>5 DEF Inst, KnownInv
<1>9. CountInv'
  <2> SUFFICES ASSUME NEW r \in file_info
               PROVE  Users(r.md5)' + Unlisted(r.md5)' <= r.count
    BY <1>4 DEF CountInv
  <2>1. /\ Users(r.md5) \in Nat /\ Unlisted(r.md5) \in 0..1 /\ r.count \in Int
        /\ Users(r.md5) + Unlisted(r.md5) <= r.count
    BY UsersType DEF Inst, CountInv, TypeOK, InfoRow
  <2>2. CASE r.md5 = m
    <3>1. Unlisted(m) = 1
      BY <1>1 DEF Unlisted
    <3>2. Unlisted(m)' = 0
      <4>1. ASSUME NEW v \in Workers, v # w, At(v, "up_row"), job[v].m = m
            PROVE  FALSE
        BY <1>1, <1>4, <4>1, UploadOp DEF Inst, UploadInv
      <4> QED BY <1>3, <4>1 DEF Unlisted, At
    <3> QED BY <1>2, <2>1, <2>2, <3>1, <3>2
  <2>3. CASE r.md5 # m
    <3>1. Unlisted(r.md5)' = Unlisted(r.md5) \/ (Unlisted(r.md5)' = 0 /\ Unlisted(r.md5) = 1)
      BY <1>3 DEF Unlisted, At
    <3> QED BY <1>2, <2>1, <2>3, <3>1
  <2> QED BY <2>2, <2>3
<1> QED BY <1>2, <1>6, <1>7, <1>8, <1>9 DEF Inst

(* A statement of handleDealMd5 that ends without a count in hand. *)
LEMMA Md5Quiet ==
    ASSUME TypeOK, OpInv', Inst, NEW w \in Workers, job[w].op = "md5",
           UNCHANGED <<file_info, user_file_list, last_id>>,
           Ends(w) \/ Goes(w, {"md5_count"}) \/ Goes(w, {"md5_rollback"}),
           UNCHANGED infoLock \/ Unlock(w)
    PROVE  Inst'
<1>1. Others(w) /\ ~HasCount(w)' /\ job'[w].op # "upload"
  BY IdleFields DEF Ends, Goes, HasCount
<1>2. last_id' \in Nat /\ last_id <= last_id'
  BY DEF TypeOK
<1>3. ASSUME NEW v \in Workers \ {w}, HasCount(v)
      PROVE  infoLock'[job[v].m] = infoLock[job[v].m]
  <2>1. infoLock[job[v].m] = {v} /\ job[v].m \in Md5s
    BY <1>3 DEF Inst, LockInv, HasCount, TypeOK, At
  <2> QED BY <2>1 DEF Unlock
<1> QED BY <1>1, <1>2, <1>3, QuietCounts

LEMMA Md5Counts ==
    ASSUME TypeOK, OpInv, TxnInv, Inst, OpInv', NEW w \in Workers, Md5Step(w)
    PROVE  Inst'
<1>1. job[w] \in Job /\ job[w].op = "md5" /\ ~At(w, "idle")
  <2>1. job[w] \in Job
    BY DEF TypeOK
  <2>2. job[w].pc \in {"md5_own", "md5_count", "md5_update", "md5_insert",
                       "md5_commit", "md5_rollback"}
    BY DEF Md5Step, Md5Own, Md5Count, Md5Update, Md5Insert, Md5Commit,
           Md5Rollback, DeadlockVictim, At
  <2>3. job[w].pc # "idle" /\ \A op \in Ops : job[w].pc \in StepsOf[op] => op = "md5"
    BY <2>2, StoreAssumption DEF StepsOf
  <2> QED BY <2>1, <2>3 DEF OpInv, At
<1>2. last_id \in Nat /\ last_id <= last_id
  BY DEF TypeOK
<1>3. \A p : Goto(w, p) => Goes(w, {p})
  BY Gone DEF Keeps
<1>4. CASE Md5Own(w)
  <2>1. UNCHANGED <<file_info, user_file_list, last_id, infoLock>>
    BY <1>4 DEF Md5Own, tables
  <2>2. CASE Finish(w, "exist")
    BY <1>1, <2>1, <2>2, Ended, Md5Quiet
  <2>3. CASE Move(w, [job[w] EXCEPT !.txn = TRUE, !.pc = "md5_count"])
    <3> DEFINE j == [job[w] EXCEPT !.txn = TRUE, !.pc = "md5_count"]
    <3>1. job'[w] = j /\ Others(w)
      BY <2>3, Moved
    <3>2. Goes(w, {"md5_count"})
      BY <1>1, <3>1 DEF Goes, Job
    <3> QED BY <1>1, <2>1, <3>2, Md5Quiet
  <2> QED BY <1>4, <2>2, <2>3 DEF Md5Own
<1>5. CASE Md5Count(w)
  <2>1. CASE QueryFails
    BY <2>1, DieCounts DEF QueryFails, NullResult
  <2>2. CASE ~QueryFails
    <3>1. /\ Info(job[w].m) # {} => OnlyInfo(w)
          /\ LockInfo(w) /\ job[w].txn
          /\ UNCHANGED <<file_info, user_file_list, last_id>>
      BY <1>5, <2>2 DEF Md5Count, TxnInv, tables
    <3>2. /\ job[w].m \in Md5s
          /\ infoLock' = [infoLock EXCEPT ![job[w].m] = @ \cup {w}]
          /\ infoLock \in [Md5s -> SUBSET Workers]
      BY <1>1, <3>1 DEF LockInfo, TypeOK
    <3>3. ASSUME NEW v \in Workers \ {w}, HasCount(v)
          PROVE  infoLock'[job[v].m] = infoLock[job[v].m]
      <4>1. infoLock[job[v].m] = {v} /\ job[v].m \in Md5s /\ Info(job[v].m) # {}
        BY <3>3 DEF Inst, LockInv, HasCount, TypeOK, At
      <4>2. job[v].m # job[w].m
        BY <3>1, <3>3, <4>1 DEF OnlyInfo
      <4> QED BY <3>2, <4>1, <4>2
    <3>4. ASSUME NEW r \in Info(job[w].m),
                 Move(w, [job[w] EXCEPT !.cnt = r.count, !.pc = "md5_update"])
          PROVE  Inst'
      <4>1. Goes(w, {"md5_update"}) /\ job'[w].cnt = r.count
        BY <3>4, MovedCount
      <4>2. job'[w].m = job[w].m /\ job'[w].op = "md5" /\ Others(w)
        BY <1>1, <4>1 DEF Goes
      <4>3. infoLock'[job[w].m] = {w}
        BY <3>1, <3>2 DEF OnlyInfo
      <4>4. /\ Info(job[w].m) # {}
            /\ \A q \in Info(job[w].m) : q.count = r.count
        BY DEF Info, Inst, KnownInv
      <4> QED BY <1>2, <3>1, <3>3, <4>1, <4>2, <4>3, <4>4, QuietCounts
    <3>5. CASE Goto(w, "md5_rollback")
      <4>1. Others(w) /\ ~HasCount(w)' /\ job'[w].op # "upload"
        BY <1>1, <1>3, <3>5 DEF Goes, HasCount
      <4> QED BY <1>2, <3>1, <3>3, <4>1, QuietCounts
    <3> QED BY <1>5, <2>2, <3>4, <3>5 DEF Md5Count
  <2> QED BY <2>1, <2>2
<1>6. ASSUME Goes(w, {"md5_insert"}) \/ Goes(w, {"md5_commit"}), HasCount(w),
             job'[w].cnt = job[w].cnt,
             UNCHANGED <<file_info, user_file_list, last_id, infoLock>>
      PROVE  Inst'
  <2>1. /\ job'[w].m = job[w].m /\ job'[w].op = "md5" /\ Others(w)
    BY <1>1, <1>6 DEF Goes
  <2>2. /\ infoLock[job[w].m] = {w} /\ Info(job[w].m) # {}
        /\ \A r \in Info(job[w].m) : r.count = job[w].cnt
    BY <1>6 DEF Inst, LockInv
  <2> QED BY <1>2, <1>6, <2>1, <2>2, QuietCounts
<1>7. CASE Md5Update(w)
  <2>1. /\ job[w].txn /\ HasCount(w)
        /\ UNCHANGED <<user_file_list, last_id, infoLock>>
    BY <1>7 DEF Md5Update, TxnInv, HasCount, At, locks
  <2>2. CASE Goto(w, "md5_rollback") /\ UNCHANGED file_info
    BY <1>1, <1>3, <2>1, <2>2, Md5Quiet
  <2>3. CASE /\ Move(w, [job[w] EXCEPT !.pend = @ \cup {"count"}, !.pc = "md5_insert"])
             /\ UNCHANGED file_info
    BY <1>6, <2>1, <2>3, MovedPend
  <2> QED BY <1>7, <2>1, <2>2, <2>3 DEF Md5Update
<1>8. CASE Md5Insert(w)
  <2>1. /\ job[w].txn /\ HasCount(w)
        /\ UNCHANGED <<file_info, infoLock>>
    BY <1>8 DEF Md5Insert, TxnInv, HasCount, At, locks
  <2>2. CASE Goto(w, "md5_rollback") /\ UNCHANGED <<user_file_list, last_id>>
    BY <1>1, <1>3, <2>1, <2>2, Md5Quiet
  <2>3. CASE /\ Move(w, [job[w] EXCEPT !.pend = @ \cup {"row"}, !.pc = "md5_commit"])
             /\ UNCHANGED <<user_file_list, last_id>>
    BY <1>6, <2>1, <2>3, MovedPend
  <2> QED BY <1>8, <2>1, <2>2, <2>3 DEF Md5Insert
<1>9. CASE Md5Commit(w)
  BY <1>9, CommitCounts
<1>10. CASE Md5Rollback(w)
  BY <1>1, <1>10, Ended, Md5Quiet DEF Md5Rollback, tables
<1>11. CASE DeadlockVictim(w)
  <2>1. CASE NullResult
    BY <2>1, DieCounts DEF NullResult
  <2>2. CASE /\ Move(w, [job[w] EXCEPT !.txn = FALSE, !.pend = {}, !.pc = "md5_rollback"])
             /\ Unlock(w) /\ UNCHANGED tables
    <3> DEFINE j == [job[w] EXCEPT !.txn = FALSE, !.pend = {}, !.pc = "md5_rollback"]
    <3>1. job'[w] = j /\ Others(w)
      BY <2>2, Moved
    <3>2. Goes(w, {"md5_rollback"})
      BY <1>1, <3>1 DEF Goes, Job
    <3> QED BY <1>1, <2>2, <3>2, Md5Quiet DEF tables
  <2> QED BY <1>11, <2>1, <2>2 DEF DeadlockVictim
<1> QED BY <1>4, <1>5, <1>7, <1>8, <1>9, <1>10, <1>11 DEF Md5Step

LEMMA UploadCounts ==
    ASSUME TypeOK, OpInv, Inst, OpInv', NEW w \in Workers, UploadStep(w)
    PROVE  Inst'
<1>1. last_id \in Nat /\ job[w] \in Job
  BY DEF TypeOK
<1>2. /\ Unstored(w) \/ At(w, "up_row")
      /\ job[w].op = "upload" /\ ~At(w, "idle")
  <2>1. Unstored(w) \/ At(w, "up_row")
    BY DEF UploadStep, UpStore, UpUrl, UpInfo, UpRow, Unstored, At
  <2> QED BY <2>1, UploadOp DEF Unstored, At
<1>3. UNCHANGED infoLock
  BY DEF UploadStep, UpStore, UpUrl, UpInfo, UpRow, locks
<1>4. ASSUME Ends(w), UNCHANGED <<file_info, user_file_list, last_id>>
      PROVE  Inst'
  <2>1. Others(w) /\ ~HasCount(w)' /\ job'[w].op # "upload"
    BY <1>4, IdleFields DEF Ends, HasCount
  <2> QED BY <1>1, <1>3, <1>4, <2>1, QuietCounts
<1>5. ASSUME Unstored(w), Goes(w, {"up_url"}) \/ Goes(w, {"up_info"}),
             UNCHANGED <<file_info, user_file_list>>, last_id' \in {last_id, last_id + 1}
      PROVE  Inst'
  <2>1. Others(w) /\ Unstored(w)' /\ job'[w].op = "upload" /\ job'[w].m = job[w].m
    BY <1>2, <1>5 DEF Goes, Unstored
  <2>2. Info(job'[w].m) = {}
    BY <1>5, <2>1 DEF Inst, UploadInv
  <2>3. \A v \in Workers \ {w} : job[v].op = "upload" => job[v].m # job'[w].m
    BY <1>2, <2>1 DEF Inst, UploadInv
  <2>4. last_id' \in Nat /\ last_id <= last_id'
    BY <1>1, <1>5
  <2> QED BY <1>3, <1>5, <2>1, <2>2, <2>3, <2>4, UploadGoesOn
<1>6. CASE UpStore(w)
  <2>1. Unstored(w) /\ UNCHANGED <<file_info, user_file_list>>
    BY <1>6 DEF UpStore, Unstored, At
  <2>2. CASE Finish(w, "fail") /\ UNCHANGED last_id
    BY <1>4, <2>1, <2>2, Ended
  <2>3. CASE /\ Move(w, [job[w] EXCEPT !.fid = last_id + 1, !.pc = "up_url"])
             /\ last_id' = last_id + 1
    BY <1>5, <2>1, <2>3, MovedFid DEF Keeps
  <2> QED BY <1>6, <2>2, <2>3 DEF UpStore
<1>7. CASE UpUrl(w)
  <2>1. Unstored(w) /\ UNCHANGED <<file_info, user_file_list, last_id>>
    BY <1>7 DEF UpUrl, Unstored, At, tables
  <2>2. CASE Finish(w, "fail")
    BY <1>4, <2>1, <2>2, Ended
  <2>3. CASE Goto(w, "up_info")
    BY <1>5, <2>1, <2>3, Gone DEF Keeps
  <2> QED BY <1>7, <2>2, <2>3 DEF UpUrl
<1>8. CASE UpInfo(w)
  <2>1. CASE Finish(w, "fail") /\ UNCHANGED file_info
    BY <1>4, <1>8, <2>1, Ended DEF UpInfo
  <2>2. CASE Goto(w, "up_row")
    BY <1>8, <2>2, FirstRowCounts
  <2> QED BY <1>8, <2>1, <2>2 DEF UpInfo
<1>9. CASE UpRow(w)
  <2>1. At(w, "up_row") /\ Ends(w) /\ UNCHANGED file_info
    BY <1>9, Ended DEF UpRow
  <2>2. CASE UNCHANGED <<user_file_list, last_id>>
    BY <1>4, <2>1, <2>2
  <2>3. CASE InsertRow(w)
    BY <1>3, <2>1, <2>3, UserRowCounts
  <2> QED BY <1>9, <2>2, <2>3 DEF UpRow
<1> QED BY <1>6, <1>7, <1>8, <1>9 DEF UploadStep

LEMMA StartCounts ==
    ASSUME TypeOK, Counted, OpInv', Inst, NEW w \in Workers, Start(w)
    PROVE  Inst'
<1>1. PICK op \in Ops, o \in Owners, m \in Md5s :
         /\ op \in Orderly => Expected(op, o, m)
         /\ Move(w, [Idle EXCEPT !.pc = FirstPc[op], !.op = op, !.o = o, !.m = m])
  BY DEF Start
<1> DEFINE j == [Idle EXCEPT !.pc = FirstPc[op], !.op = op, !.o = o, !.m = m]
<1>2. job'[w] = j /\ Others(w)
  BY <1>1, Moved
<1>3. j.pc = FirstPc[op] /\ j.op = op /\ j.m = m
  BY DEF Idle
<1> HIDE DEF j
<1>4. /\ UNCHANGED <<file_info, user_file_list, infoLock, last_id>>
      /\ last_id \in Nat /\ last_id <= last_id
  BY DEF Start, tables, locks, TypeOK
<1>5. \/ op = "md5"
      \/ op = "upload" /\ op \in Orderly
  BY DEF Counted
<1>6. CASE op = "md5"
  <2>1. ~HasCount(w)' /\ job'[w].op # "upload"
    BY <1>2, <1>3, <1>6 DEF HasCount, FirstPc
  <2> QED BY <1>2, <1>4, <2>1, QuietCounts
<1>7. CASE op = "upload" /\ op \in Orderly
  <2>1. Unstored(w)' /\ job'[w].op = "upload" /\ job'[w].m = m
    BY <1>2, <1>3, <1>7 DEF Unstored, FirstPc
  <2>2. Info(m) = {} /\ \A v \in Workers : job[v].op = "upload" => job[v].m # m
    BY <1>1, <1>7 DEF Expected
  <2> QED BY <1>2, <1>4, <2>1, <2>2, UploadGoesOn
<1> QED BY <1>5, <1>6, <1>7

LEMMA NextCounts ==
    ASSUME TypeOK, OpInv, TxnInv, Inst, Counted, [Next]_vars
    PROVE  Inst'
<1>1. CASE UNCHANGED vars
  <2>1. UNCHANGED <<file_info, user_file_list, last_id, job, infoLock>>
    BY <1>1 DEF vars, tables, locks
  <2>2. ListInv' /\ LockInv' /\ UploadInv' /\ KnownInv'
    BY <2>1 DEF Inst, ListInv, LockInv, UploadInv, KnownInv, HasCount, Info,
                Unstored, At
  <2>3. CountInv'
    BY <2>1 DEF Inst, CountInv, Users, RowsOf, Unlisted, At
  <2> QED BY <2>2, <2>3 DEF Inst
<1>2. CASE ProcessCrash
  BY <1>2, DieCounts DEF ProcessCrash
<1>3. OpInv'
  BY NextTxn DEF Counted
<1>4. ASSUME NEW w \in Workers, Start(w)
      PROVE  Inst'
  BY <1>3, <1>4, StartCounts
<1>5. ASSUME NEW w \in Workers, Work(w)
      PROVE  Inst'
  <2>1. \A op \in {"save", "del"} : job[w].pc \notin StepsOf[op]
    <3>1. \A p \in Ops, op \in {"save", "del"} : StepsOf[p] \cap StepsOf[op] = {}
      BY DEF Counted, StepsOf
    <3>2. "idle" \notin StepsOf["save"] /\ "idle" \notin StepsOf["del"]
      BY DEF StepsOf
    <3> QED BY <3>1, <3>2 DEF OpInv, At
  <2>2. ~SaveStep(w)
    BY <2>1 DEF SaveStep, SaveOwn, SaveCount, SaveUpdate, SaveInsert, At, StepsOf
  <2>3. ~DeleteStep(w)
    BY <2>1 DEF DeleteStep, DelShare, DelRows, DelCount, DelUpdate, DelFid,
                DelInfo, DelFile, At, StepsOf
  <2> QED BY <1>3, <1>5, <2>2, <2>3, Md5Counts, UploadCounts DEF Work
<1>6. ~ \E w \in Workers : Reconnect(w)
  BY DEF Counted, NoDrop, Reconnect, Fault
<1> QED BY <1>1, <1>2, <1>4, <1>5, <1>6 DEF Next

LEMMA InitCounts == Init => Inst
<1> SUFFICES ASSUME Init PROVE Inst
  OBVIOUS
<1>1. \A w \in Workers : /\ ~HasCount(w) /\ ~Unstored(w) /\ ~At(w, "up_row")
                         /\ job[w].op # "upload"
  BY IdleFields DEF Init, HasCount, Unstored, At
<1>2. LockInv /\ UploadInv /\ \A m : Unlisted(m) = 0
  BY <1>1 DEF LockInv, UploadInv, Unlisted
<1>3. CASE file_info = {} /\ user_file_list = {}
  BY <1>2, <1>3, FS_EmptySet DEF Inst, ListInv, KnownInv, CountInv
<1>4. ASSUME NEW m \in Seeded, NEW o \in Owners,
             file_info = {[md5 |-> m, fid |-> 1, count |-> 1]},
             user_file_list = {[id |-> 2, o |-> o, md5 |-> m]}, last_id = 2
      PROVE  Inst
  <2>1. RowsOf(m) = user_file_list
    BY <1>4 DEF RowsOf
  <2>2. IsFiniteSet(user_file_list) /\ Users(m) = 1
    BY <1>4, <2>1, FS_Singleton DEF Users
  <2>3. ListInv
    <3>1. \A r \in user_file_list : r.id = 2
      BY <1>4
    <3> QED BY <1>4, <2>2, <3>1 DEF ListInv
  <2>4. KnownInv
    <3>1. \A r \in user_file_list : r.md5 = m
      BY <1>4
    <3>2. \E r \in file_info : r.md5 = m
      BY <1>4
    <3>3. \A r, q \in file_info : r.count = q.count
      BY <1>4
    <3> QED BY <3>1, <3>2, <3>3 DEF KnownInv, Info
  <2>5. CountInv
    <3>1. \A r \in file_info : r.md5 = m /\ r.count = 1
      BY <1>4
    <3> QED BY <1>2, <2>2, <3>1 DEF CountInv
  <2> QED BY <1>2, <2>3, <2>4, <2>5 DEF Inst
<1> QED BY <1>3, <1>4 DEF Init

LEMMA CountsHold == Counted /\ Spec => [](TypeOK /\ OpInv /\ TxnInv /\ Inst)
<1> SUFFICES ASSUME Counted PROVE Spec => [](TypeOK /\ OpInv /\ TxnInv /\ Inst)
  OBVIOUS
<1>1. Init => TypeOK /\ OpInv /\ TxnInv /\ Inst
  BY InitType, InitTxn, InitCounts
<1>2. TypeOK /\ OpInv /\ TxnInv /\ Inst /\ [Next]_vars
         => (TypeOK /\ OpInv /\ TxnInv /\ Inst)'
  BY NextType, NextTxn, NextCounts DEF Counted
<1> QED BY <1>1, <1>2, PTL DEF Spec

(* While instant uploads of a content run beside the upload that brings it *)
(* in, with statements that fail and crashes at any point, its count is    *)
(* never below the number of users that have it: for any number of         *)
(* contents, users, threads, requests and failures.                        *)
THEOREM CountCovers ==
    ASSUME Counted
    PROVE  Spec => []NeverUndercounted
<1>1. TypeOK /\ Inst => NeverUndercounted
  <2> SUFFICES ASSUME TypeOK, Inst, NEW r \in file_info
               PROVE  Users(r.md5) <= r.count
    BY DEF NeverUndercounted, Users
  <2>1. /\ Users(r.md5) \in Nat /\ Unlisted(r.md5) \in 0..1 /\ r.count \in Int
        /\ Users(r.md5) + Unlisted(r.md5) <= r.count
    BY UsersType DEF Inst, CountInv, TypeOK, InfoRow
  <2> QED BY <2>1
<1> QED BY <1>1, CountsHold, PTL

(* Where instant uploads run alone, the count is the number of users at    *)
(* every moment: the "for update" of the count and the transaction around  *)
(* the two writes suffice, whatever fails but the transaction's connection.*)
THEOREM CountIsExact ==
    ASSUME NoDrop, Ops = {"md5"}
    PROVE  Spec => []RefCountExact
<1>1. Counted /\ "upload" \notin Ops
  BY DEF Counted
<1>2. Inst => RefCountExact
  BY <1>1 DEF Inst, CountInv, Users, RefCountExact
<1> QED BY <1>1, <1>2, CountsHold, PTL

-------------------------------------------------------------------------------
(* The phantom read.  Whoever has found that the user does not have the    *)
(* file holds a lock on the row, or on the gap where it would be, and it   *)
(* is the only one when the row is inserted.                               *)

Looked(w) == job[w].pc \in {"md5_count", "md5_update", "md5_insert", "md5_commit"}
OwnerInv ==
    /\ \A w \in Workers : Looked(w) => w \in rowLock[Key(w)] /\ Rows(Key(w)) = {}
    /\ \A w \in Workers : At(w, "md5_commit") => rowLock[Key(w)] = {w}
    /\ NoDuplicateOwner

LEMMA KeyType ==
    ASSUME TypeOK, NEW w \in Workers, ~At(w, "idle")
    PROVE  Key(w) \in Owners \X Md5s
BY DEF TypeOK, Key

(* A step of w that inserts no row and disturbs no other worker's locks. *)
LEMMA OwnerQuiet ==
    ASSUME TypeOK, OwnerInv, NEW w \in Workers, Others(w), UNCHANGED user_file_list,
           Looked(w)' => w \in rowLock'[Key(w)'] /\ Rows(Key(w)') = {},
           At(w, "md5_commit")' => rowLock'[Key(w)'] = {w},
           \A v \in Workers \ {w} : Looked(v) =>
              /\ v \in rowLock'[Key(v)]
              /\ At(v, "md5_commit") => rowLock'[Key(v)] = {v}
    PROVE  OwnerInv'
<1>1. \A k : Rows(k)' = Rows(k)
  BY DEF Rows
<1>2. ASSUME NEW v \in Workers
      PROVE  /\ Looked(v)' => v \in rowLock'[Key(v)'] /\ Rows(Key(v)') = {}
             /\ At(v, "md5_commit")' => rowLock'[Key(v)'] = {v}
  <2>1. CASE v = w
    BY <2>1
  <2>2. CASE v # w
    <3>1. job'[v] = job[v] /\ Key(v)' = Key(v)
      BY <2>2 DEF Others, Key
    <3>2. Looked(v)' = Looked(v) /\ At(v, "md5_commit")' = At(v, "md5_commit")
      BY <3>1 DEF Looked, At
    <3>3. At(v, "md5_commit") => Looked(v)
      BY DEF At, Looked
    <3> QED BY <2>2, <3>1, <3>2, <3>3 DEF OwnerInv
  <2> QED BY <2>1, <2>2
<1>3. \A v \in Workers : Looked(v)' => v \in rowLock'[Key(v)'] /\ Rows(Key(v))' = {}
  BY <1>2 DEF Rows, Key
<1> QED BY <1>1, <1>2, <1>3 DEF OwnerInv, NoDuplicateOwner

LEMMA OwnerLeaves ==
    ASSUME TypeOK, OwnerInv, NEW w \in Workers, Others(w), UNCHANGED user_file_list,
           ~Looked(w)', UNCHANGED rowLock \/ Unlock(w)
    PROVE  OwnerInv'
<1>1. ASSUME NEW v \in Workers \ {w}, Looked(v)
      PROVE  /\ v \in rowLock'[Key(v)]
             /\ At(v, "md5_commit") => rowLock'[Key(v)] = {v}
  <2>1. Key(v) \in Owners \X Md5s
    BY <1>1, KeyType DEF Looked, At
  <2>2. /\ v \in rowLock[Key(v)]
        /\ At(v, "md5_commit") => rowLock[Key(v)] = {v}
    BY <1>1 DEF OwnerInv
  <2> QED BY <2>1, <2>2 DEF Unlock
<1>2. ~At(w, "md5_commit")'
  BY DEF Looked, At
<1> QED BY <1>1, <1>2, OwnerQuiet

(* handleDealMd5 goes on with the locks it has. *)
LEMMA OwnerGoesOn ==
    ASSUME TypeOK, OwnerInv, NEW w \in Workers, Looked(w), UNCHANGED <<user_file_list, rowLock>>,
           NEW p, Goes(w, {p}), p = "md5_commit" => rowLock[Key(w)] = {w}
    PROVE  OwnerInv'
<1>1. /\ Others(w) /\ Key(w)' = Key(w) /\ At(w, "md5_commit")' = (p = "md5_commit")
  BY DEF Goes, Key, At
<1>2. w \in rowLock[Key(w)] /\ Rows(Key(w)) = {}
  BY DEF OwnerInv
<1>3. \A v \in Workers : Looked(v) => /\ v \in rowLock[Key(v)]
                                      /\ At(v, "md5_commit") => rowLock[Key(v)] = {v}
  BY DEF OwnerInv
<1> QED BY <1>1, <1>2, <1>3, OwnerQuiet

LEMMA OwnerDie ==
    ASSUME TypeOK, OwnerInv, Die
    PROVE  OwnerInv'
<1>1. \A w \in Workers : ~Looked(w)' /\ ~At(w, "md5_commit")'
  BY DeadEnd, IdleFields DEF Looked, At
<1>2. \A k : Rows(k)' = Rows(k)
  BY DeadEnd DEF Rows
<1> QED BY <1>1, <1>2 DEF OwnerInv, NoDuplicateOwner

(* select ... for update: of the row, or of the gap. *)
LEMMA OwnerLooks ==
    ASSUME TypeOK, TxnInv, OwnerInv, NEW w \in Workers, At(w, "md5_own"),
           RowThere(w) => OnlyRow(w), Rows(Key(w)) = {}, LockRow(w),
           Goes(w, {"md5_count"}), UNCHANGED user_file_list
    PROVE  OwnerInv'
<1>1. Key(w)' = Key(w) /\ Others(w) /\ ~At(w, "md5_commit")'
  BY DEF Goes, Key, At
<1>2. Key(w) \in Owners \X Md5s
  BY KeyType DEF At
<1>3. w \in rowLock'[Key(w)]
  BY <1>2 DEF LockRow, TypeOK
<1>4. ASSUME NEW v \in Workers \ {w}, Looked(v)
      PROVE  /\ v \in rowLock'[Key(v)]
             /\ At(v, "md5_commit") => rowLock'[Key(v)] = {v}
  <2>1. Key(v) \in Owners \X Md5s
    BY <1>4, KeyType DEF Looked, At
  <2>2. /\ v \in rowLock[Key(v)]
        /\ At(v, "md5_commit") => rowLock[Key(v)] = {v}
    BY <1>4 DEF OwnerInv
  <2>3. v \in rowLock'[Key(v)]
    BY <2>1, <2>2 DEF LockRow, TypeOK
  <2>4. At(v, "md5_commit") => Key(v) # Key(w)
    <3> SUFFICES ASSUME At(v, "md5_commit"), Key(v) = Key(w) PROVE FALSE
      OBVIOUS
    <3>1. "row" \in job[v].pend
      BY DEF TxnInv
    <3>2. OnlyRow(w)
      BY <3>1 DEF RowThere
    <3> QED BY <2>2, <3>2 DEF OnlyRow
  <2> QED BY <2>1, <2>2, <2>3, <2>4 DEF LockRow, TypeOK
<1> QED BY <1>1, <1>3, <1>4, OwnerQuiet

(* Commit: the user's first row of the file. *)
LEMMA OwnerCommits ==
    ASSUME TypeOK, ListInv, OwnerInv, NEW w \in Workers, At(w, "md5_commit"),
           InsertRow(w), Unlock(w), Ends(w)
    PROVE  OwnerInv'
<1>1. PICK k \in Owners \X Md5s : k = Key(w)
  BY KeyType DEF At
<1>2. rowLock[k] = {w} /\ Rows(k) = {}
  BY <1>1 DEF OwnerInv, Looked, At
<1> DEFINE n == [id |-> last_id + 1, o |-> job[w].o, md5 |-> job[w].m]
<1>3. user_file_list' = user_file_list \cup {n} /\ <<n.o, n.md5>> = k
  BY <1>1 DEF InsertRow, Key
<1> HIDE DEF n
<1>4. Rows(k)' = {n} /\ \A x : x # k => Rows(x)' = Rows(x)
  BY <1>2, <1>3 DEF Rows
<1>5. NoDuplicateOwner'
  <2> SUFFICES ASSUME NEW x \in Owners \X Md5s PROVE Cardinality(Rows(x)') <= 1
    BY DEF NoDuplicateOwner
  <2>1. CASE x = k
    <3>1. Cardinality({n}) = 1
      BY FS_Singleton
    <3> QED BY <1>4, <2>1, <3>1
  <2>2. CASE x # k
    BY <1>4, <2>2 DEF OwnerInv, NoDuplicateOwner
  <2> QED BY <2>1, <2>2
<1>6. ASSUME NEW v \in Workers
      PROVE  /\ Looked(v)' => v \in rowLock'[Key(v)'] /\ Rows(Key(v))' = {}
             /\ At(v, "md5_commit")' => rowLock'[Key(v)'] = {v}
  <2>1. CASE v = w
    <3>1. ~Looked(v)' /\ ~At(v, "md5_commit")'
      BY <2>1, IdleFields DEF Ends, Looked, At
    <3> QED BY <3>1
  <2>2. CASE v # w
    <3>1. job'[v] = job[v]
      BY <2>2 DEF Ends, Others
    <3>2. CASE Looked(v)
      <4>1. PICK x \in Owners \X Md5s : x = Key(v)
        BY <3>2, KeyType DEF Looked, At
      <4>2. /\ v \in rowLock[x] /\ Rows(x) = {}
            /\ At(v, "md5_commit") => rowLock[x] = {v}
        BY <3>2, <4>1 DEF OwnerInv
      <4>3. x # k
        BY <1>2, <2>2, <4>2
      <4>4. Rows(x)' = {} /\ rowLock'[x] = rowLock[x] \ {w}
        BY <1>4, <4>2, <4>3 DEF Unlock
      <4>5. Key(v)' = x
        BY <3>1, <4>1 DEF Key
      <4>6. At(v, "md5_commit")' = At(v, "md5_commit")
        BY <3>1 DEF At
      <4>7. Rows(Key(v))' = Rows(x)'
        BY <4>5 DEF Rows, Key
      <4> QED BY <2>2, <4>2, <4>4, <4>5, <4>6, <4>7
    <3>3. CASE ~Looked(v)
      BY <3>1, <3>3 DEF Looked, At
    <3> QED BY <3>2, <3>3
  <2> QED BY <2>1, <2>2
<1> QED BY <1>5, <1>6 DEF OwnerInv

LEMMA OwnerMd5 ==
    ASSUME TypeOK, TxnInv, ListInv, OwnerInv, "own" \notin FaultKinds,
           NEW w \in Workers, Md5Step(w)
    PROVE  OwnerInv'
<1>1. job[w] \in Job
  BY DEF TypeOK
<1>2. \A p : Goto(w, p) => Goes(w, {p})
  BY Gone DEF Keeps
<1>3. ASSUME Ends(w) \/ Goes(w, {"md5_rollback"}), UNCHANGED user_file_list,
             UNCHANGED rowLock \/ Unlock(w)
      PROVE  OwnerInv'
  <2>1. Others(w) /\ ~Looked(w)'
    BY <1>3, IdleFields DEF Ends, Goes, Looked
  <2> QED BY <1>3, <2>1, OwnerLeaves
<1>4. CASE Md5Own(w)
  <2>0. UNCHANGED user_file_list /\ At(w, "md5_own")
    BY <1>4 DEF Md5Own, tables
  <2>1. CASE Finish(w, "exist") /\ UNCHANGED rowLock
    BY <1>3, <2>0, <2>1, Ended
  <2>2. CASE /\ RowThere(w) => OnlyRow(w)
             /\ Rows(Key(w)) = {} /\ LockRow(w)
             /\ Move(w, [job[w] EXCEPT !.txn = TRUE, !.pc = "md5_count"])
    <3> DEFINE j == [job[w] EXCEPT !.txn = TRUE, !.pc = "md5_count"]
    <3>1. job'[w] = j /\ Others(w)
      BY <2>2, Moved
    <3>2. Goes(w, {"md5_count"})
      BY <1>1, <3>1 DEF Goes, Job
    <3> QED BY <2>0, <2>2, <3>2, OwnerLooks
  <2>3. ~Fault("own")
    BY DEF Fault
  <2> QED BY <1>4, <2>1, <2>2, <2>3 DEF Md5Own
<1>5. CASE Md5Count(w)
  <2>1. CASE QueryFails
    BY <2>1, OwnerDie DEF QueryFails, NullResult
  <2>2. CASE ~QueryFails
    <3>1. UNCHANGED <<user_file_list, rowLock>> /\ Looked(w)
      BY <1>5, <2>2 DEF Md5Count, tables, Looked, At
    <3>2. CASE Goto(w, "md5_rollback")
      BY <1>2, <1>3, <3>1, <3>2
    <3>3. ASSUME NEW r \in Info(job[w].m),
                 Move(w, [job[w] EXCEPT !.cnt = r.count, !.pc = "md5_update"])
          PROVE  OwnerInv'
      <4>1. Goes(w, {"md5_update"})
        BY <3>3, MovedCount
      <4> QED BY <3>1, <4>1, OwnerGoesOn
    <3> QED BY <1>5, <2>2, <3>2, <3>3 DEF Md5Count
  <2> QED BY <2>1, <2>2
<1>6. CASE Md5Update(w)
  <2>1. UNCHANGED <<user_file_list, rowLock>> /\ Looked(w) /\ job[w].txn
    BY <1>6 DEF Md5Update, TxnInv, locks, Looked, At
  <2>2. CASE Goto(w, "md5_rollback")
    BY <1>2, <1>3, <2>1, <2>2
  <2>3. CASE Move(w, [job[w] EXCEPT !.pend = @ \cup {"count"}, !.pc = "md5_insert"])
    <3>1. Goes(w, {"md5_insert"})
      BY <2>3, MovedPend
    <3> QED BY <2>1, <3>1, OwnerGoesOn
  <2> QED BY <1>6, <2>1, <2>2, <2>3 DEF Md5Update
<1>7. CASE Md5Insert(w)
  <2>1. UNCHANGED rowLock /\ Looked(w) /\ job[w].txn
    BY <1>7 DEF Md5Insert, TxnInv, locks, Looked, At
  <2>2. CASE Goto(w, "md5_rollback") /\ UNCHANGED user_file_list
    BY <1>2, <1>3, <2>1, <2>2
  <2>3. CASE /\ OnlyRow(w) /\ UNCHANGED user_file_list
             /\ Move(w, [job[w] EXCEPT !.pend = @ \cup {"row"}, !.pc = "md5_commit"])
    <3>1. Goes(w, {"md5_commit"})
      BY <2>3, MovedPend
    <3>2. rowLock[Key(w)] = {w}
      BY <2>1, <2>3 DEF OwnerInv, OnlyRow
    <3> QED BY <2>1, <2>3, <3>1, <3>2, OwnerGoesOn
  <2> QED BY <1>7, <2>1, <2>2, <2>3 DEF Md5Insert
<1>8. CASE Md5Commit(w)
  BY <1>8, Ended, OwnerCommits DEF Md5Commit, TxnInv
<1>9. CASE Md5Rollback(w)
  BY <1>3, <1>9, Ended DEF Md5Rollback, tables
<1>10. CASE DeadlockVictim(w)
  <2>1. CASE NullResult
    BY <2>1, OwnerDie DEF NullResult
  <2>2. CASE /\ Move(w, [job[w] EXCEPT !.txn = FALSE, !.pend = {}, !.pc = "md5_rollback"])
             /\ Unlock(w) /\ UNCHANGED tables
    <3> DEFINE j == [job[w] EXCEPT !.txn = FALSE, !.pend = {}, !.pc = "md5_rollback"]
    <3>1. job'[w] = j /\ Others(w)
      BY <2>2, Moved
    <3>2. Goes(w, {"md5_rollback"})
      BY <1>1, <3>1 DEF Goes, Job
    <3> QED BY <1>3, <2>2, <3>2 DEF tables
  <2> QED BY <1>10, <2>1, <2>2 DEF DeadlockVictim
<1> QED BY <1>4, <1>5, <1>6, <1>7, <1>8, <1>9, <1>10 DEF Md5Step

LEMMA NextOwner ==
    ASSUME TypeOK, OpInv, TxnInv, ListInv, OwnerInv, NoDrop,
           "own" \notin FaultKinds, Ops = {"md5"}, [Next]_vars
    PROVE  OwnerInv'
<1>1. CASE UNCHANGED vars
  BY <1>1 DEF OwnerInv, NoDuplicateOwner, Looked, Rows, Key, At, vars, tables, locks
<1>2. CASE ProcessCrash
  BY <1>2, OwnerDie DEF ProcessCrash
<1>3. ASSUME NEW w \in Workers, Start(w)
      PROVE  OwnerInv'
  <2>1. PICK o \in Owners, m \in Md5s :
           Move(w, [Idle EXCEPT !.pc = FirstPc["md5"], !.op = "md5", !.o = o, !.m = m])
    BY <1>3 DEF Start
  <2> DEFINE j == [Idle EXCEPT !.pc = FirstPc["md5"], !.op = "md5", !.o = o, !.m = m]
  <2>2. job'[w] = j /\ Others(w)
    BY <2>1, Moved
  <2>3. ~Looked(w)'
    BY <2>2 DEF Idle, FirstPc, Looked
  <2> QED BY <1>3, <2>2, <2>3, OwnerLeaves DEF Start, tables, locks
<1>4. ASSUME NEW w \in Workers, Work(w)
      PROVE  OwnerInv'
  <2>1. ~Elsewhere(w)
    <3>1. Elsewhere(w) => job[w].op # "md5" /\ job[w].pc # "idle"
      BY ElsewhereKeeps, SMTT(30) DEF Elsewhere, StepsOf
    <3> QED BY <3>1 DEF OpInv, At
  <2> QED BY <1>4, <2>1, UploadSteps, SaveSteps, DeleteSteps, OwnerMd5 DEF Work
<1>5. ~ \E w \in Workers : Reconnect(w)
  BY DEF NoDrop, Reconnect, Fault
<1> QED BY <1>1, <1>2, <1>3, <1>4, <1>5 DEF Next

LEMMA InitOwner == Init => OwnerInv
<1> SUFFICES ASSUME Init PROVE OwnerInv
  OBVIOUS
<1>1. \A w \in Workers : ~Looked(w) /\ ~At(w, "md5_commit")
  BY IdleFields DEF Init, Looked, At
<1>2. ASSUME NEW k PROVE Cardinality(Rows(k)) <= 1
  <2>1. CASE user_file_list = {}
    BY <2>1, FS_EmptySet DEF Rows
  <2>2. ASSUME NEW x, user_file_list = {x}
        PROVE  Cardinality(Rows(k)) <= 1
    <3>1. Rows(k) = {} \/ Rows(k) = {x}
      BY <2>2 DEF Rows
    <3>2. Cardinality({}) = 0 /\ Cardinality({x}) = 1
      BY FS_EmptySet, FS_Singleton
    <3> QED BY <3>1, <3>2
  <2> QED BY <2>1, <2>2 DEF Init
<1> QED BY <1>1, <1>2 DEF OwnerInv, NoDuplicateOwner

(* Instant uploads that one user sends twice, one after the other or at    *)
(* once, list the file once: for any number of threads and requests,       *)
(* unless the first query fails, which the handler takes for a "no".       *)
THEOREM ListedOnce ==
    ASSUME NoDrop, "own" \notin FaultKinds, Ops = {"md5"}
    PROVE  Spec => []NoDuplicateOwner
<1>1. Counted
  BY DEF Counted
<1>2. TypeOK /\ OpInv /\ TxnInv /\ Inst /\ OwnerInv /\ [Next]_vars => OwnerInv'
  BY NextOwner DEF Inst
<1>3. OwnerInv => NoDuplicateOwner
  BY DEF OwnerInv
<1> QED BY <1>1, <1>2, <1>3, InitOwner, CountsHold, PTL DEF Spec

-------------------------------------------------------------------------------
(* All four handlers, where no two requests about one content overlap: the *)
(* counts, the lists and the storage agree.  Requests about different      *)
(* contents overlap as they like; a failure in the sharing part stops a    *)
(* deletion before it has changed anything.                                *)

Apart == \A v, w \in Workers :
    ~At(v, "idle") /\ ~At(w, "idle") /\ job[v].m = job[w].m => v = w

InGoodOrder == /\ Ops \cap {"upload", "del"} \subseteq Orderly
               /\ FaultKinds \subseteq {"redis"}

(* A content and a user have one row each. *)
OneInfo  == \A r, q \in file_info : r.md5 = q.md5 => r = q
OneOwner == \A r, q \in user_file_list : r.o = q.o /\ r.md5 = q.md5 => r = q

(* Only the transactions about a content have locks there. *)
LockedSteps == {"md5_count", "md5_update", "md5_insert", "md5_commit", "md5_rollback"}
OwnLocks ==
    /\ \A m \in Md5s : \A w \in infoLock[m] :
          job[w].pc \in LockedSteps /\ job[w].m = m
    /\ \A o \in Owners, m \in Md5s : \A w \in rowLock[<<o, m>>] :
          job[w].pc \in LockedSteps /\ job[w].m = m

(* A stored file has its row, or a request that brings it in or removes it.*)
CarrySteps == {"up_url", "up_info", "del_file"}
NoOrphans == \A i \in fdfs :
    \/ \E r \in file_info : r.fid = i
    \/ \E w \in Workers : job[w].pc \in CarrySteps /\ job[w].fid = i

(* The count of m is d above the number of its users; m is known exactly   *)
(* if it has users.                                                        *)
Balanced(m, d) == \A r \in Info(m) : r.count = Users(m) + d
Known(m)       == Info(m) = {} <=> RowsOf(m) = {}
Clean(m)       == Balanced(m, 0) /\ Known(m)

(* What the job j can rely on about its content, at each of its steps.     *)
AheadSteps  == {"up_row", "save_insert", "del_count", "del_update"}
LastSteps   == {"del_fid", "del_info"}
FirstSteps  == {"up_store", "up_url", "up_info", "up_row"}
AbsentSteps == {"md5_count", "md5_update", "md5_insert", "md5_commit",
                "save_count", "save_update", "save_insert"}
ReadSteps   == {"md5_update", "md5_insert", "md5_commit", "save_update", "del_update"}
Ahead(j)    == IF j.pc \in AheadSteps THEN 1 ELSE 0
StageOf(j) ==
    /\ Balanced(j.m, Ahead(j))
    /\ j.pc \notin AheadSteps \cup LastSteps => Known(j.m)
    /\ j.pc \in AheadSteps \cup LastSteps \cup ReadSteps => Info(j.m) # {}
    /\ j.pc \in FirstSteps \cup LastSteps => RowsOf(j.m) = {}
    /\ j.pc \in AbsentSteps => Rows(<<j.o, j.m>>) = {}
    /\ j.pc \in {"del_share", "del_rows"} => Rows(<<j.o, j.m>>) # {}
    /\ j.pc \in ReadSteps => \A r \in Info(j.m) : r.count = j.cnt
    /\ j.pc = "del_info" => \A r \in Info(j.m) : r.fid = j.fid

ContentInv ==
    /\ \A w \in Workers : ~At(w, "idle") => StageOf(job[w])
    /\ \A m \in Md5s :
          (\A w \in Workers : ~At(w, "idle") => job[w].m # m) => Clean(m)

RowInv == ListInv /\ OneInfo /\ OneOwner
Serial == RowInv /\ ContentInv /\ OwnLocks /\ NoOrphans

LEMMA NoFault ==
    ASSUME InGoodOrder, NEW kind, kind # "redis"
    PROVE  ~Fault(kind)
BY DEF InGoodOrder, Fault

LEMMA NoQueryFails ==
    ASSUME InGoodOrder
    PROVE  ~QueryFails
BY NoFault DEF QueryFails

(* What is said of a content that a step leaves alone stays true. *)
LEMMA SameContent ==
    ASSUME NEW x, Info(x)' = Info(x), RowsOf(x)' = RowsOf(x)
    PROVE  /\ Users(x)' = Users(x) /\ Clean(x)' = Clean(x)
           /\ \A o : Rows(<<o, x>>)' = Rows(<<o, x>>)
           /\ \A j : j.m = x => (StageOf(j)' <=> StageOf(j))
<1>1. Users(x)' = Users(x)
  BY DEF Users
<1>2. ASSUME NEW o PROVE Rows(<<o, x>>)' = Rows(<<o, x>>)
  <2>1. Rows(<<o, x>>) = {r \in RowsOf(x) : r.o = o}
    BY DEF Rows, RowsOf
  <2>2. Rows(<<o, x>>)' = {r \in RowsOf(x)' : r.o = o}
    BY DEF Rows, RowsOf
  <2> QED BY <2>1, <2>2
<1>3. \A d : Balanced(x, d)' <=> Balanced(x, d)
  BY <1>1 DEF Balanced
<1>4. Known(x)' <=> Known(x)
  BY DEF Known
<1>5. ASSUME NEW j, j.m = x
      PROVE  StageOf(j)' <=> StageOf(j)
  <2>1. Rows(<<j.o, x>>)' = Rows(<<j.o, x>>)
    BY <1>2
  <2>2. Balanced(x, Ahead(j))' <=> Balanced(x, Ahead(j))
    BY <1>3 DEF Ahead
  <2> QED BY <1>4, <1>5, <2>1, <2>2 DEF StageOf
<1>6. Clean(x)' = Clean(x)
  BY <1>3, <1>4 DEF Clean
<1> QED BY <1>1, <1>2, <1>5, <1>6

(* A step of w that leaves the other contents alone. *)
LEMMA ContentStep ==
    ASSUME Apart, ContentInv, NEW w \in Workers, ~At(w, "idle"), Others(w),
           NEW m, m = job[w].m, NEW j, j = job'[w],
           \A x : x # m => Info(x)' = Info(x) /\ RowsOf(x)' = RowsOf(x),
           \/ j.pc = "idle" /\ Clean(m)'
           \/ j.pc # "idle" /\ j.m = m /\ StageOf(j)'
    PROVE  ContentInv'
<1>1. ASSUME NEW v \in Workers, job'[v].pc # "idle"
      PROVE  StageOf(job[v])'
  <2>1. CASE v = w
    BY <1>1, <2>1 DEF StageOf, Ahead
  <2>2. CASE v # w
    <3>1. PICK i : i = job[v]
      OBVIOUS
    <3>2. job'[v] = i /\ i.pc # "idle"
      BY <1>1, <2>2, <3>1 DEF Others
    <3>3. i.m # m /\ StageOf(i)
      BY <2>2, <3>1, <3>2 DEF Apart, ContentInv, At
    <3>4. PICK x : x = i.m
      OBVIOUS
    <3>5. StageOf(i)'
      BY <3>3, <3>4, SameContent
    <3> QED BY <3>2, <3>5 DEF StageOf, Ahead
  <2> QED BY <2>1, <2>2
<1>2. ASSUME NEW x \in Md5s, \A v \in Workers : job'[v].pc # "idle" => job'[v].m # x
      PROVE  Clean(x)'
  <2>1. CASE x = m
    BY <1>2, <2>1
  <2>2. CASE x # m
    <3>1. \A v \in Workers : ~At(v, "idle") => job[v].m # x
      BY <1>2, <2>2 DEF Others, At
    <3>2. Clean(x)
      BY <3>1 DEF ContentInv
    <3> QED BY <2>2, <3>2, SameContent
  <2> QED BY <2>1, <2>2
<1> QED BY <1>1, <1>2 DEF ContentInv, At

(* ... and its own content, too. *)
LEMMA QuietContent ==
    ASSUME Apart, ContentInv, NEW w \in Workers, ~At(w, "idle"), Others(w),
           UNCHANGED <<file_info, user_file_list>>,
           NEW m, m = job[w].m, NEW j, j = job'[w],
           \/ j.pc = "idle" /\ Clean(m)
           \/ j.pc # "idle" /\ j.m = m /\ StageOf(j)
    PROVE  ContentInv'
<1>1. \A x : Info(x)' = Info(x) /\ RowsOf(x)' = RowsOf(x)
  BY DEF Info, RowsOf
<1>2. Info(m)' = Info(m) /\ RowsOf(m)' = RowsOf(m)
  BY <1>1
<1>3. Clean(m)' = Clean(m) /\ (j.m = m => (StageOf(j)' <=> StageOf(j)))
  BY <1>2, SameContent
<1> QED BY <1>1, <1>3, ContentStep

(* update file_info set count, where the content has its one row *)
LEMMA SetCountOne ==
    ASSUME TypeOK, OneInfo, NEW m, NEW c, SetCount(m, c)
    PROVE  /\ OneInfo'
           /\ Info(m)' = {} <=> Info(m) = {}
           /\ \A r \in Info(m)' : r.count = c
           /\ \A x : x # m => Info(x)' = Info(x)
           /\ \A q \in file_info : \E r \in file_info' : r.fid = q.fid
<1> DEFINE g(r) == IF r.md5 = m THEN [r EXCEPT !.count = c] ELSE r
<1>1. file_info' = {g(r) : r \in file_info}
  BY DEF SetCount
<1>2. \A r \in file_info : /\ g(r).md5 = r.md5 /\ g(r).fid = r.fid
                           /\ r.md5 = m => g(r).count = c
  BY DEF TypeOK, InfoRow
<1> HIDE DEF g
<1>3. OneInfo'
  BY <1>1, <1>2 DEF OneInfo
<1>4. Info(m)' = {} <=> Info(m) = {}
  BY <1>1, <1>2 DEF Info
<1>5. \A r \in Info(m)' : r.count = c
  BY <1>1, <1>2 DEF Info
<1>6. \A x : x # m => Info(x)' = Info(x)
  BY SetCountRows
<1>7. \A q \in file_info : \E r \in file_info' : r.fid = q.fid
  BY <1>1, <1>2
<1> QED BY <1>3, <1>4, <1>5, <1>6, <1>7

(* Nothing is stored or removed, no row goes, and what the step carries it *)
(* has carried before, or the other way round.                             *)
LEMMA OrphansKept ==
    ASSUME NoOrphans, NEW w \in Workers, Others(w), fdfs' \subseteq fdfs,
           \A q \in file_info : \E r \in file_info' : r.fid = q.fid,
           \/ job[w].pc \notin CarrySteps
           \/ job'[w].pc \in CarrySteps /\ job'[w].fid = job[w].fid
    PROVE  NoOrphans'
<1> SUFFICES ASSUME NEW i \in fdfs
             PROVE  \/ \E r \in file_info' : r.fid = i
                    \/ \E v \in Workers : job'[v].pc \in CarrySteps /\ job'[v].fid = i
  BY DEF NoOrphans
<1>1. CASE \E r \in file_info : r.fid = i
  BY <1>1
<1>2. ASSUME NEW v \in Workers, job[v].pc \in CarrySteps, job[v].fid = i
      PROVE  \E u \in Workers : job'[u].pc \in CarrySteps /\ job'[u].fid = i
  BY <1>2 DEF Others
<1> QED BY <1>1, <1>2 DEF NoOrphans

(* The locks, when w begins, has, or ends its transaction. *)
LEMMA LocksKept ==
    ASSUME TypeOK, OwnLocks, NEW w \in Workers, Others(w), ~At(w, "idle"),
           \/ job[w].pc \notin LockedSteps /\ UNCHANGED locks
           \/ Unlock(w)
           \/ /\ job'[w].pc \in LockedSteps /\ job'[w].m = job[w].m
              /\ LockInfo(w) \/ infoLock' = infoLock
              /\ LockRow(w) \/ rowLock' = rowLock
    PROVE  OwnLocks'
<1>1. PICK x \in Md5s, o \in Owners : x = job[w].m /\ o = job[w].o
  BY DEF TypeOK
<1>2. infoLock \in [Md5s -> SUBSET Workers] /\ rowLock \in [Owners \X Md5s -> SUBSET Workers]
  BY DEF TypeOK
<1>3. /\ \A m \in Md5s : \A v \in infoLock'[m] :
            \/ v \in infoLock[m] /\ (v = w => ~Unlock(w))
            \/ v = w /\ m = x /\ job'[w].pc \in LockedSteps /\ job'[w].m = job[w].m
      /\ \A q \in Owners, m \in Md5s : \A v \in rowLock'[<<q, m>>] :
            \/ v \in rowLock[<<q, m>>] /\ (v = w => ~Unlock(w))
            \/ v = w /\ m = x /\ job'[w].pc \in LockedSteps /\ job'[w].m = job[w].m
  <2>1. CASE Unlock(w)
    BY <1>2, <2>1 DEF Unlock
  <2>2. CASE ~Unlock(w) /\ job[w].pc \notin LockedSteps /\ UNCHANGED locks
    BY <2>2 DEF locks
  <2>3. CASE /\ ~Unlock(w)
             /\ job'[w].pc \in LockedSteps /\ job'[w].m = job[w].m
             /\ LockInfo(w) \/ infoLock' = infoLock
             /\ LockRow(w) \/ rowLock' = rowLock
    <3>1. ASSUME NEW m \in Md5s, NEW v \in infoLock'[m]
          PROVE  v \in infoLock[m] \/ (v = w /\ m = x)
      BY <1>1, <1>2, <2>3, <3>1 DEF LockInfo
    <3>2. ASSUME NEW q \in Owners, NEW m \in Md5s, NEW v \in rowLock'[<<q, m>>]
          PROVE  v \in rowLock[<<q, m>>] \/ (v = w /\ m = x)
      BY <1>1, <1>2, <2>3, <3>2 DEF LockRow, Key
    <3> QED BY <2>3, <3>1, <3>2
  <2> QED BY <2>1, <2>2, <2>3
<1>4. /\ \A m \in Md5s : \A v \in infoLock[m] : v \in Workers
      /\ \A q \in Owners, m \in Md5s : \A v \in rowLock[<<q, m>>] : v \in Workers
  BY <1>2
<1>5. job[w].pc \in LockedSteps \/ Unlock(w) \/ \A m \in Md5s : w \notin infoLock[m]
  BY DEF OwnLocks
<1>6. ASSUME NEW m \in Md5s, NEW v \in infoLock'[m]
      PROVE  job'[v].pc \in LockedSteps /\ job'[v].m = m
  BY <1>1, <1>3, <1>4, <1>6 DEF OwnLocks, Others
<1>7. ASSUME NEW q \in Owners, NEW m \in Md5s, NEW v \in rowLock'[<<q, m>>]
      PROVE  job'[v].pc \in LockedSteps /\ job'[v].m = m
  BY <1>1, <1>3, <1>4, <1>7 DEF OwnLocks, Others
<1> QED BY <1>6, <1>7 DEF OwnLocks

(* Two transactions that wait for each other are about one content. *)
LEMMA NoVictim ==
    ASSUME TypeOK, Apart, OwnLocks, NEW w \in Workers
    PROVE  ~DeadlockVictim(w)
<1> SUFFICES ASSUME NEW v \in Workers, WaitsFor(w, v)
             PROVE  FALSE
  BY DEF DeadlockVictim
<1>1. v # w /\ ~At(w, "idle")
  BY DEF WaitsFor, At
<1>2. PICK m \in Md5s, o \in Owners : m = job[w].m /\ o = job[w].o
  BY <1>1 DEF TypeOK
<1>3. v \in infoLock[m] \/ v \in rowLock[<<o, m>>]
  BY <1>2 DEF WaitsFor, Key
<1>4. job[v].pc \in LockedSteps /\ job[v].m = m
  BY <1>3 DEF OwnLocks
<1>5. ~At(v, "idle")
  BY <1>4 DEF LockedSteps, At
<1> QED BY <1>1, <1>2, <1>4, <1>5 DEF Apart

(* A step that only looks. *)
LEMMA QuietSerial ==
    ASSUME TypeOK, Apart, Serial, NEW w \in Workers, ~At(w, "idle"), Others(w),
           UNCHANGED tables, OwnLocks',
           NEW m, m = job[w].m, NEW j, j = job'[w],
           \/ j.pc = "idle" /\ Clean(m)
           \/ j.pc # "idle" /\ j.m = m /\ StageOf(j),
           \/ job[w].pc \notin CarrySteps
           \/ j.pc \in CarrySteps /\ j.fid = job[w].fid
    PROVE  Serial'
<1>1. UNCHANGED <<file_info, user_file_list>> /\ fdfs' = fdfs /\ last_id' = last_id
  BY DEF tables
<1>2. ContentInv'
  BY <1>1, QuietContent DEF Serial
<1>3. NoOrphans'
  BY <1>1, OrphansKept DEF Serial
<1>4. RowInv'
  BY <1>1 DEF Serial, RowInv, ListInv, OneInfo, OneOwner
<1> QED BY <1>2, <1>3, <1>4 DEF Serial

(* A step that is not part of a transaction. *)
LEMMA PlainSerial ==
    ASSUME TypeOK, Apart, Serial, NEW w \in Workers, ~At(w, "idle"), Others(w),
           UNCHANGED tables, UNCHANGED locks, job[w].pc \notin LockedSteps,
           NEW m, m = job[w].m, NEW j, j = job'[w],
           \/ j.pc = "idle" /\ Clean(m)
           \/ j.pc # "idle" /\ j.m = m /\ StageOf(j),
           \/ job[w].pc \notin CarrySteps
           \/ j.pc \in CarrySteps /\ j.fid = job[w].fid
    PROVE  Serial'
<1>1. OwnLocks'
  BY LocksKept DEF Serial
<1> QED BY <1>1, QuietSerial

LEMMA StageNow ==
    ASSUME Serial, NEW w \in Workers, ~At(w, "idle"), NEW i, i = job[w]
    PROVE  StageOf(i)
BY DEF Serial, ContentInv

LEMMA CleanStage ==
    ASSUME NEW j, StageOf(j), j.pc \notin AheadSteps \cup LastSteps
    PROVE  Clean(j.m)
BY DEF StageOf, Clean, Ahead

LEMMA GoneFid ==
    ASSUME TypeOK, NEW w \in Workers, NEW p, Goto(w, p)
    PROVE  job'[w].fid = job[w].fid
<1> DEFINE j == [job[w] EXCEPT !.pc = p]
<1>1. job'[w] = j
  BY Moved DEF Goto
<1>2. job[w] \in Job
  BY DEF TypeOK
<1> QED BY <1>1, <1>2 DEF Job

LEMMA MovedFidTo ==
    ASSUME TypeOK, NEW w \in Workers, NEW f, NEW p,
           Move(w, [job[w] EXCEPT !.fid = f, !.pc = p])
    PROVE  job'[w].fid = f
<1> DEFINE j == [job[w] EXCEPT !.fid = f, !.pc = p]
<1>1. job'[w] = j
  BY Moved
<1>2. job[w] \in Job
  BY DEF TypeOK
<1> QED BY <1>1, <1>2 DEF Job

(* handleDealMd5 *)
LEMMA Md5OwnSerial ==
    ASSUME TypeOK, InGoodOrder, Apart, Serial, NEW w \in Workers, Md5Own(w)
    PROVE  Serial'
<1>1. PICK i : i = job[w]
  OBVIOUS
<1>2. PICK j : j = job'[w]
  OBVIOUS
<1>3. i.pc = "md5_own" /\ ~At(w, "idle") /\ i \in Job
  BY <1>1 DEF Md5Own, At, TypeOK
<1>4. StageOf(i) /\ Clean(i.m)
  BY <1>1, <1>3, StageNow, CleanStage DEF AheadSteps, LastSteps
<1>5. UNCHANGED tables /\ infoLock' = infoLock
  BY DEF Md5Own
<1>6. CASE Finish(w, "exist") /\ rowLock' = rowLock
  <2>1. j.pc = "idle" /\ Others(w)
    BY <1>2, <1>6, Ended, IdleFields DEF Ends
  <2>2. UNCHANGED locks
    BY <1>5, <1>6 DEF locks
  <2> QED BY <1>1, <1>2, <1>3, <1>4, <1>5, <2>1, <2>2, PlainSerial
            DEF LockedSteps, CarrySteps
<1>7. CASE /\ Rows(Key(w)) = {} /\ LockRow(w)
           /\ Move(w, [job[w] EXCEPT !.txn = TRUE, !.pc = "md5_count"])
  <2> DEFINE n == [i EXCEPT !.txn = TRUE, !.pc = "md5_count"]
  <2>1. j = n /\ Others(w)
    BY <1>1, <1>2, <1>7, Moved
  <2>2. j.pc = "md5_count" /\ j.m = i.m /\ j.o = i.o /\ j.cnt = i.cnt
    BY <1>3, <2>1 DEF Job
  <2>3. Rows(<<j.o, j.m>>) = {}
    BY <1>1, <1>7, <2>2 DEF Key
  <2>4. StageOf(j)
    BY <1>3, <1>4, <2>2, <2>3 DEF StageOf, Ahead, AheadSteps, LastSteps, ReadSteps, FirstSteps
  <2>5. OwnLocks'
    BY <1>1, <1>2, <1>3, <1>5, <1>7, <2>1, <2>2, LocksKept DEF LockedSteps, Serial
  <2> HIDE DEF n
  <2> QED BY <1>1, <1>2, <1>3, <1>5, <2>1, <2>2, <2>4, <2>5, QuietSerial DEF CarrySteps
<1>8. ~Fault("own")
  BY NoFault
<1> QED BY <1>6, <1>7, <1>8 DEF Md5Own

LEMMA Md5CountSerial ==
    ASSUME TypeOK, InGoodOrder, Apart, Serial, NEW w \in Workers, Md5Count(w)
    PROVE  Serial'
<1>1. PICK i : i = job[w]
  OBVIOUS
<1>2. PICK j : j = job'[w]
  OBVIOUS
<1>3. i.pc = "md5_count" /\ ~At(w, "idle")
  BY <1>1 DEF Md5Count, At
<1>4. StageOf(i)
  BY <1>1, <1>3, StageNow
<1>5. UNCHANGED tables /\ rowLock' = rowLock /\ LockInfo(w)
  BY NoQueryFails DEF Md5Count
<1>6. CASE Goto(w, "md5_rollback")
  <2>1. j.pc = "md5_rollback" /\ j.m = i.m /\ j.o = i.o /\ Others(w)
    BY <1>1, <1>2, <1>6, Gone DEF Keeps, Goes
  <2>2. StageOf(j)
    BY <1>3, <1>4, <2>1 DEF StageOf, Ahead, AheadSteps, LastSteps, ReadSteps, FirstSteps, AbsentSteps
  <2>3. OwnLocks'
    BY <1>1, <1>2, <1>3, <1>5, <2>1, LocksKept DEF LockedSteps, Serial
  <2> QED BY <1>1, <1>2, <1>3, <1>5, <2>1, <2>2, <2>3, QuietSerial DEF CarrySteps
<1>7. ASSUME NEW r \in Info(job[w].m),
             Move(w, [job[w] EXCEPT !.cnt = r.count, !.pc = "md5_update"])
      PROVE  Serial'
  <2>0. Goes(w, {"md5_update"}) /\ job'[w].cnt = r.count
    BY <1>7, MovedCount
  <2>1. /\ j.pc = "md5_update" /\ j.m = i.m /\ j.o = i.o /\ Others(w)
        /\ j.cnt = r.count
    BY <1>1, <1>2, <2>0 DEF Goes
  <2>2. r \in Info(i.m) /\ \A q \in Info(i.m) : q.count = r.count
    BY <1>1, <1>7 DEF Serial, RowInv, OneInfo, Info
  <2>3. StageOf(j)
    BY <1>3, <1>4, <2>1, <2>2 DEF StageOf, Ahead, AheadSteps, LastSteps, ReadSteps, FirstSteps, AbsentSteps
  <2>4. OwnLocks'
    BY <1>1, <1>2, <1>3, <1>5, <2>1, LocksKept DEF LockedSteps, Serial
  <2> QED BY <1>1, <1>2, <1>3, <1>5, <2>1, <2>3, <2>4, QuietSerial DEF CarrySteps
<1> QED BY <1>6, <1>7, NoQueryFails DEF Md5Count

(* The two writes of the transaction, pending until its commit. *)
LEMMA Md5WriteSerial ==
    ASSUME TypeOK, TxnInv, InGoodOrder, Apart, Serial, NEW w \in Workers,
           Md5Update(w) \/ Md5Insert(w)
    PROVE  Serial'
<1>1. PICK i : i = job[w]
  OBVIOUS
<1>2. PICK j : j = job'[w]
  OBVIOUS
<1>3. i.pc \in {"md5_update", "md5_insert"} /\ ~At(w, "idle") /\ i.txn
  BY <1>1 DEF Md5Update, Md5Insert, At, TxnInv
<1>4. StageOf(i)
  BY <1>1, <1>3, StageNow
<1>5. UNCHANGED tables /\ UNCHANGED locks
  BY <1>1, <1>3, NoFault DEF Md5Update, Md5Insert, tables
<1>6. PICK x, p : /\ Move(w, [job[w] EXCEPT !.pend = @ \cup {x}, !.pc = p])
                  /\ p = IF i.pc = "md5_update" THEN "md5_insert" ELSE "md5_commit"
  BY <1>1, <1>3, NoFault DEF Md5Update, Md5Insert, At
<1>61. Goes(w, {p}) /\ job'[w].cnt = job[w].cnt
  BY <1>6, MovedPend
<1>7. /\ j.pc = (IF i.pc = "md5_update" THEN "md5_insert" ELSE "md5_commit")
      /\ j.m = i.m /\ j.o = i.o /\ Others(w) /\ j.cnt = i.cnt
  BY <1>1, <1>2, <1>6, <1>61 DEF Goes
<1>8. j.pc \in {"md5_insert", "md5_commit"}
  BY <1>7
<1>9. StageOf(j)
  BY <1>3, <1>4, <1>7, <1>8 DEF StageOf, Ahead, AheadSteps, LastSteps, ReadSteps, FirstSteps, AbsentSteps
<1>10. OwnLocks'
  BY <1>1, <1>2, <1>3, <1>5, <1>7, <1>8, LocksKept DEF LockedSteps, Serial, locks
<1> QED BY <1>1, <1>2, <1>3, <1>5, <1>7, <1>8, <1>9, <1>10, QuietSerial DEF CarrySteps

(* The row is inserted for which the count is set, or set already, and the *)
(* request ends: Commit, and the last statement of an upload or a save.    *)
LEMMA ListedSerial ==
    ASSUME TypeOK, Apart, Serial, NEW w \in Workers, ~At(w, "idle"), Ends(w),
           InsertRow(w), Rows(Key(w)) = {}, fdfs' = fdfs, OwnLocks',
           job[w].pc \notin CarrySteps,
           NEW m, m = job[w].m, NEW c \in Int, Info(m) # {},
           \/ UNCHANGED file_info /\ \A r \in Info(m) : r.count = c
           \/ SetCount(m, c),
           c = Users(m) + 1
    PROVE  Serial'
<1>1. PICK o : o = job[w].o
  OBVIOUS
<1>2. PICK n : n = [id |-> last_id + 1, o |-> o, md5 |-> m]
  OBVIOUS
<1>3. /\ user_file_list' = user_file_list \cup {n}
      /\ n.o = o /\ n.md5 = m
  BY <1>1, <1>2 DEF InsertRow
<1>4. /\ ListInv' /\ Users(m)' = c
      /\ \A x : x # m => Users(x)' = Users(x)
  BY InsertUsers DEF Serial, RowInv
<1>5. /\ RowsOf(m)' # {}
      /\ \A x : x # m => RowsOf(x)' = RowsOf(x)
  BY <1>3 DEF RowsOf
<1>6. OneOwner'
  <2>1. \A r \in user_file_list : ~(r.o = o /\ r.md5 = m)
    BY <1>1 DEF Rows, Key
  <2> QED BY <1>3, <2>1 DEF Serial, RowInv, OneOwner
<1>7. /\ OneInfo' /\ Info(m)' # {}
      /\ \A r \in Info(m)' : r.count = c
      /\ \A x : x # m => Info(x)' = Info(x)
      /\ \A q \in file_info : \E r \in file_info' : r.fid = q.fid
  <2>1. CASE SetCount(m, c)
    BY <2>1, SetCountOne DEF Serial, RowInv
  <2>2. CASE UNCHANGED file_info /\ \A r \in Info(m) : r.count = c
    BY <2>2 DEF Serial, RowInv, OneInfo, Info
  <2> QED BY <2>1, <2>2
<1>8. Clean(m)'
  BY <1>4, <1>5, <1>7 DEF Clean, Balanced, Known
<1>9. PICK j : j = job'[w]
  OBVIOUS
<1>10. Others(w) /\ j.pc = "idle"
  BY <1>9, IdleFields DEF Ends
<1>11. ContentInv'
  BY <1>5, <1>7, <1>8, <1>9, <1>10, ContentStep DEF Serial
<1>12. NoOrphans'
  BY <1>7, <1>10, OrphansKept DEF Serial
<1> QED BY <1>4, <1>6, <1>7, <1>11, <1>12 DEF Serial, RowInv

LEMMA Md5EndSerial ==
    ASSUME TypeOK, TxnInv, Apart, Serial, NEW w \in Workers,
           Md5Commit(w) \/ Md5Rollback(w)
    PROVE  Serial'
<1>1. PICK i : i = job[w]
  OBVIOUS
<1>2. PICK m : m = i.m
  OBVIOUS
<1>3. i.pc \in {"md5_commit", "md5_rollback"} /\ ~At(w, "idle") /\ i.cnt \in Int
  BY <1>1 DEF Md5Commit, Md5Rollback, At, TypeOK, Job
<1>4. StageOf(i)
  BY <1>1, <1>3, StageNow
<1>5. Unlock(w) /\ Ends(w)
  BY Ended DEF Md5Commit, Md5Rollback
<1>6. OwnLocks'
  BY <1>3, <1>5, LocksKept DEF Ends, Serial
<1>7. i.pc \notin CarrySteps
  BY <1>3 DEF CarrySteps
<1>8. CASE Md5Commit(w)
  <2>1. PICK c \in Int : c = i.cnt + 1
    BY <1>3
  <2>2. /\ SetCount(m, c) /\ InsertRow(w) /\ fdfs' = fdfs /\ i.pc = "md5_commit"
    BY <1>1, <1>2, <1>8, <2>1 DEF Md5Commit, TxnInv, At
  <2>3. Rows(Key(w)) = {} /\ Info(m) # {}
    BY <1>1, <1>2, <1>4, <2>2 DEF StageOf, AbsentSteps, ReadSteps, Key
  <2>4. c = Users(m) + 1
    <3>1. PICK r \in Info(m) : TRUE
      BY <2>3
    <3>2. r.count = i.cnt /\ r.count = Users(m) + 0
      BY <1>2, <1>4, <2>2, <3>1 DEF StageOf, Balanced, ReadSteps, Ahead, AheadSteps
    <3>3. Users(m) \in Nat
      BY UsersType DEF Serial, RowInv
    <3> QED BY <2>1, <3>2, <3>3
  <2> QED BY <1>1, <1>2, <1>3, <1>5, <1>6, <1>7, <2>2, <2>3, <2>4, ListedSerial
<1>9. CASE Md5Rollback(w)
  <2>1. UNCHANGED tables /\ i.pc = "md5_rollback"
    BY <1>1, <1>9 DEF Md5Rollback, At
  <2>2. Clean(m)
    BY <1>2, <1>4, <2>1, CleanStage DEF AheadSteps, LastSteps
  <2>3. PICK j : j = job'[w]
    OBVIOUS
  <2>4. Others(w) /\ j.pc = "idle"
    BY <1>5, <2>3, IdleFields DEF Ends
  <2> QED BY <1>1, <1>2, <1>3, <1>6, <1>7, <2>1, <2>2, <2>3, <2>4, QuietSerial
<1> QED BY <1>8, <1>9

LEMMA Md5Serial ==
    ASSUME TypeOK, TxnInv, InGoodOrder, Apart, Serial, NEW w \in Workers, Md5Step(w)
    PROVE  Serial'
<1>1. ~DeadlockVictim(w)
  BY NoVictim DEF Serial
<1> QED BY <1>1, Md5OwnSerial, Md5CountSerial, Md5WriteSerial, Md5EndSerial DEF Md5Step

-------------------------------------------------------------------------------
(* ApiUpload *)

LEMMA UpStoreSerial ==
    ASSUME TypeOK, InGoodOrder, Apart, Serial, NEW w \in Workers, UpStore(w)
    PROVE  Serial'
<1>1. PICK i : i = job[w]
  OBVIOUS
<1>2. PICK j : j = job'[w]
  OBVIOUS
<1>3. PICK f : f = last_id + 1
  OBVIOUS
<1>4. i.pc = "up_store" /\ ~At(w, "idle")
  BY <1>1 DEF UpStore, At
<1>5. StageOf(i)
  BY <1>1, <1>4, StageNow
<1>6. /\ fdfs' = fdfs \cup {f} /\ last_id' = f
      /\ UNCHANGED <<file_info, user_file_list>> /\ UNCHANGED locks
      /\ Move(w, [job[w] EXCEPT !.fid = f, !.pc = "up_url"])
  BY <1>3, NoFault DEF UpStore
<1>7. Keeps(w, "up_url") /\ job'[w].fid = f
  BY <1>6, MovedFid, MovedFidTo
<1>8. j.pc = "up_url" /\ j.m = i.m /\ j.o = i.o /\ j.fid = f /\ Others(w)
  BY <1>1, <1>2, <1>7 DEF Keeps, Goes
<1>9. StageOf(j)
  BY <1>4, <1>5, <1>8 DEF StageOf, Ahead, AheadSteps, LastSteps, ReadSteps, FirstSteps, AbsentSteps
<1>10. ContentInv'
  BY <1>1, <1>2, <1>4, <1>6, <1>8, <1>9, QuietContent DEF Serial
<1>11. OwnLocks'
  BY <1>1, <1>4, <1>6, <1>8, LocksKept DEF Serial, LockedSteps
<1>12. RowInv'
  <2>1. last_id \in Nat /\ \A r \in user_file_list : r.id \in Nat
    BY DEF TypeOK, OwnerRow
  <2> QED BY <1>3, <1>6, <2>1 DEF Serial, RowInv, ListInv, OneInfo, OneOwner
<1>13. NoOrphans'
  <2> SUFFICES ASSUME NEW k \in fdfs'
               PROVE  \/ \E r \in file_info' : r.fid = k
                      \/ \E v \in Workers : job'[v].pc \in CarrySteps /\ job'[v].fid = k
    BY DEF NoOrphans
  <2>1. CASE k = f
    BY <1>2, <1>8, <2>1 DEF CarrySteps
  <2>2. CASE k \in fdfs
    <3>1. CASE \E r \in file_info : r.fid = k
      BY <1>6, <3>1
    <3>2. ASSUME NEW v \in Workers, job[v].pc \in CarrySteps, job[v].fid = k
          PROVE  job'[v] = job[v]
      BY <1>1, <1>4, <1>8, <3>2 DEF Others, CarrySteps
    <3> QED BY <2>2, <3>1, <3>2 DEF Serial, NoOrphans
  <2> QED BY <1>6, <2>1, <2>2
<1> QED BY <1>10, <1>11, <1>12, <1>13 DEF Serial

LEMMA UpInfoSerial ==
    ASSUME TypeOK, InGoodOrder, Apart, Serial, NEW w \in Workers, UpInfo(w)
    PROVE  Serial'
<1>1. PICK i : i = job[w]
  OBVIOUS
<1>2. PICK j : j = job'[w]
  OBVIOUS
<1>3. PICK m : m = i.m
  OBVIOUS
<1>4. PICK n : n = [md5 |-> m, fid |-> i.fid, count |-> 1]
  OBVIOUS
<1>5. i.pc = "up_info" /\ ~At(w, "idle")
  BY <1>1 DEF UpInfo, At
<1>6. StageOf(i)
  BY <1>1, <1>5, StageNow
<1>7. /\ file_info' = file_info \cup {n} /\ Goto(w, "up_row")
      /\ UNCHANGED <<user_file_list, fdfs, last_id>> /\ UNCHANGED locks
  BY <1>1, <1>3, <1>4, NoFault DEF UpInfo
<1>8. j.pc = "up_row" /\ j.m = m /\ j.o = i.o /\ Others(w)
  BY <1>1, <1>2, <1>3, <1>7, Gone DEF Keeps, Goes
<1>9. RowsOf(m) = {} /\ Info(m) = {}
  BY <1>3, <1>5, <1>6 DEF StageOf, FirstSteps, Known, AheadSteps, LastSteps
<1>10. n.md5 = m /\ n.fid = i.fid /\ n.count = 1
  BY <1>4
<1>11. /\ Info(m)' = {n} /\ \A x : RowsOf(x)' = RowsOf(x)
       /\ \A x : x # m => Info(x)' = Info(x)
  BY <1>7, <1>9, <1>10 DEF Info, RowsOf
<1>12. Users(m)' = 0
  BY <1>9, <1>11, FS_EmptySet DEF Users
<1>13. StageOf(j)'
  <2>1. Balanced(m, 1)'
    BY <1>10, <1>11, <1>12 DEF Balanced
  <2>2. Info(m)' # {} /\ RowsOf(m)' = {}
    BY <1>9, <1>11
  <2> QED BY <1>8, <2>1, <2>2 DEF StageOf, Ahead, AheadSteps, LastSteps, ReadSteps, FirstSteps, AbsentSteps
<1>14. ContentInv'
  BY <1>1, <1>2, <1>3, <1>5, <1>8, <1>11, <1>13, ContentStep DEF Serial
<1>15. OwnLocks'
  BY <1>1, <1>5, <1>7, <1>8, LocksKept DEF Serial, LockedSteps
<1>16. RowInv'
  <2>1. OneInfo'
    BY <1>7, <1>9, <1>10 DEF Serial, RowInv, OneInfo, Info
  <2> QED BY <1>7, <2>1 DEF Serial, RowInv, ListInv, OneOwner
<1>17. NoOrphans'
  <2> SUFFICES ASSUME NEW k \in fdfs
               PROVE  \/ \E r \in file_info' : r.fid = k
                      \/ \E v \in Workers : job'[v].pc \in CarrySteps /\ job'[v].fid = k
    BY <1>7 DEF NoOrphans
  <2>1. CASE \E r \in file_info : r.fid = k
    BY <1>7, <2>1
  <2>2. ASSUME NEW v \in Workers, job[v].pc \in CarrySteps, job[v].fid = k
        PROVE  \/ \E r \in file_info' : r.fid = k
               \/ job'[v].pc \in CarrySteps /\ job'[v].fid = k
    <3>1. CASE v = w
      BY <1>1, <1>7, <1>10, <2>2, <3>1
    <3>2. CASE v # w
      BY <1>8, <2>2, <3>2 DEF Others
    <3> QED BY <3>1, <3>2
  <2> QED BY <2>1, <2>2 DEF Serial, NoOrphans
<1> QED BY <1>14, <1>15, <1>16, <1>17 DEF Serial

LEMMA UploadSerial ==
    ASSUME TypeOK, InGoodOrder, Apart, Serial, NEW w \in Workers, UploadStep(w)
    PROVE  Serial'
<1>1. PICK i : i = job[w]
  OBVIOUS
<1>2. PICK j : j = job'[w]
  OBVIOUS
<1>3. CASE UpUrl(w)
  <2>1. i.pc = "up_url" /\ ~At(w, "idle")
    BY <1>1, <1>3 DEF UpUrl, At
  <2>2. StageOf(i)
    BY <1>1, <2>1, StageNow
  <2>3. Goto(w, "up_info") /\ UNCHANGED tables /\ UNCHANGED locks
    BY <1>3, NoFault DEF UpUrl
  <2>4. j.pc = "up_info" /\ j.m = i.m /\ j.o = i.o /\ Others(w) /\ j.fid = i.fid
    BY <1>1, <1>2, <2>3, Gone, GoneFid DEF Keeps, Goes
  <2>5. StageOf(j)
    BY <2>1, <2>2, <2>4 DEF StageOf, Ahead, AheadSteps, LastSteps, ReadSteps, FirstSteps, AbsentSteps
  <2> QED BY <1>1, <1>2, <2>1, <2>3, <2>4, <2>5, PlainSerial DEF LockedSteps, CarrySteps
<1>4. CASE UpRow(w)
  <2>1. i.pc = "up_row" /\ ~At(w, "idle")
    BY <1>1, <1>4 DEF UpRow, At
  <2>2. StageOf(i)
    BY <1>1, <2>1, StageNow
  <2>3. PICK m : m = i.m
    OBVIOUS
  <2>4. /\ InsertRow(w) /\ Ends(w) /\ fdfs' = fdfs /\ UNCHANGED file_info
        /\ UNCHANGED locks
    BY <1>4, NoFault, Ended DEF UpRow
  <2>5. RowsOf(m) = {} /\ Info(m) # {}
    BY <2>1, <2>2, <2>3 DEF StageOf, FirstSteps, AheadSteps
  <2>6. Rows(Key(w)) = {}
    BY <1>1, <2>3, <2>5 DEF Rows, RowsOf, Key
  <2>7. PICK c \in Int : c = Users(m) + 1
    BY UsersType DEF Serial, RowInv
  <2>8. \A r \in Info(m) : r.count = c
    BY <2>1, <2>2, <2>3, <2>7 DEF StageOf, Balanced, Ahead, AheadSteps
  <2>9. OwnLocks'
    BY <1>1, <2>1, <2>4, LocksKept DEF Serial, LockedSteps, Ends
  <2> QED BY <1>1, <2>1, <2>3, <2>4, <2>5, <2>6, <2>7, <2>8, <2>9, ListedSerial DEF CarrySteps
<1> QED BY <1>3, <1>4, UpStoreSerial, UpInfoSerial DEF UploadStep

-------------------------------------------------------------------------------
(* handleSaveFile *)

(* update file_info outside of a transaction *)
LEMMA UpdateSerial ==
    ASSUME TypeOK, Apart, Serial, NEW w \in Workers, ~At(w, "idle"), Others(w),
           NEW m, m = job[w].m, NEW j, j = job'[w], NEW c, SetCount(m, c),
           UNCHANGED <<user_file_list, fdfs, last_id>>, UNCHANGED locks,
           job[w].pc \notin LockedSteps, job[w].pc \notin CarrySteps,
           \/ j.pc = "idle" /\ Clean(m)'
           \/ j.pc # "idle" /\ j.m = m /\ StageOf(j)'
    PROVE  Serial'
<1>1. /\ OneInfo' /\ \A x : x # m => Info(x)' = Info(x)
      /\ \A q \in file_info : \E r \in file_info' : r.fid = q.fid
  BY SetCountOne DEF Serial, RowInv
<1>2. \A x : RowsOf(x)' = RowsOf(x)
  BY DEF RowsOf
<1>3. ContentInv'
  BY <1>1, <1>2, ContentStep DEF Serial
<1>4. OwnLocks'
  BY LocksKept DEF Serial
<1>5. NoOrphans'
  BY <1>1, OrphansKept DEF Serial
<1>6. RowInv'
  BY <1>1 DEF Serial, RowInv, ListInv, OneOwner
<1> QED BY <1>3, <1>4, <1>5, <1>6 DEF Serial

LEMMA SaveUpdateSerial ==
    ASSUME TypeOK, InGoodOrder, Apart, Serial, NEW w \in Workers, SaveUpdate(w)
    PROVE  Serial'
<1>1. PICK i : i = job[w]
  OBVIOUS
<1>2. PICK j : j = job'[w]
  OBVIOUS
<1>3. PICK m : m = i.m
  OBVIOUS
<1>4. i.pc = "save_update" /\ ~At(w, "idle") /\ i.cnt \in Int
  BY <1>1 DEF SaveUpdate, At, TypeOK, Job
<1>5. StageOf(i)
  BY <1>1, <1>4, StageNow
<1>6. PICK c \in Int : c = i.cnt + 1
  BY <1>4
<1>7. /\ SetCount(m, c) /\ UNCHANGED <<user_file_list, fdfs, last_id>>
      /\ UNCHANGED locks
      /\ IF Affected(m, c) = {} THEN SaveReply(w) ELSE Goto(w, "save_insert")
  BY <1>1, <1>3, <1>6, NoFault DEF SaveUpdate
<1>8. PICK q \in Info(m) : q.count = i.cnt /\ q.count = Users(m) + 0
  BY <1>3, <1>4, <1>5 DEF StageOf, ReadSteps, Balanced, Ahead, AheadSteps
<1>9. Users(m) \in Nat /\ c = Users(m) + 1
  BY <1>6, <1>8, UsersType DEF Serial, RowInv
<1>10. Affected(m, c) # {}
  BY <1>6, <1>8, <1>9 DEF Affected
<1>11. j.pc = "save_insert" /\ j.m = m /\ j.o = i.o /\ Others(w)
  BY <1>1, <1>2, <1>3, <1>7, <1>10, Gone DEF Keeps, Goes
<1>12. /\ Info(m)' # {} /\ \A r \in Info(m)' : r.count = c
  BY <1>7, <1>8, SetCountOne DEF Serial, RowInv
<1>13. /\ Users(m)' = Users(m) /\ RowsOf(m)' = RowsOf(m)
       /\ Rows(<<i.o, m>>)' = Rows(<<i.o, m>>)
  BY <1>7 DEF Users, RowsOf, Rows
<1>14. StageOf(j)'
  <2>1. Balanced(m, 1)'
    BY <1>9, <1>12, <1>13 DEF Balanced
  <2>2. Rows(<<j.o, m>>)' = {}
    BY <1>3, <1>4, <1>5, <1>11, <1>13 DEF StageOf, AbsentSteps
  <2> QED BY <1>11, <1>12, <2>1, <2>2
          DEF StageOf, Ahead, AheadSteps, LastSteps, ReadSteps, FirstSteps, AbsentSteps
<1> QED BY <1>1, <1>2, <1>3, <1>4, <1>7, <1>11, <1>14, UpdateSerial DEF LockedSteps, CarrySteps

LEMMA SaveSerial ==
    ASSUME TypeOK, InGoodOrder, Apart, Serial, NEW w \in Workers, SaveStep(w)
    PROVE  Serial'
<1>1. PICK i : i = job[w]
  OBVIOUS
<1>2. PICK j : j = job'[w]
  OBVIOUS
<1>3. PICK m : m = i.m
  OBVIOUS
<1>4. i.pc \in {"save_own", "save_count", "save_update", "save_insert"} /\ ~At(w, "idle")
  BY <1>1 DEF SaveStep, SaveOwn, SaveCount, SaveUpdate, SaveInsert, At
<1>5. StageOf(i)
  BY <1>1, <1>4, StageNow
<1>6. SaveReply(w) => Others(w) /\ Ends(w) /\ j.pc = "idle"
  BY <1>2, Ended, IdleFields DEF SaveReply, Ends
<1>7. i.pc \notin LockedSteps /\ i.pc \notin CarrySteps
  BY <1>4 DEF LockedSteps, CarrySteps
<1>8. i.pc # "save_insert" => Clean(m)
  BY <1>3, <1>4, <1>5, CleanStage DEF AheadSteps, LastSteps
<1>9. CASE SaveOwn(w)
  <2>1. i.pc = "save_own" /\ UNCHANGED tables /\ UNCHANGED locks
    BY <1>1, <1>9 DEF SaveOwn, At
  <2>2. CASE SaveReply(w)
    BY <1>1, <1>2, <1>3, <1>4, <1>6, <1>7, <1>8, <2>1, <2>2, PlainSerial
  <2>3. CASE Rows(Key(w)) = {} /\ Goto(w, "save_count")
    <3>1. j.pc = "save_count" /\ j.m = i.m /\ j.o = i.o /\ Others(w)
      BY <1>1, <1>2, <2>3, Gone DEF Keeps, Goes
    <3>2. Rows(<<j.o, j.m>>) = {}
      BY <1>1, <2>3, <3>1 DEF Key
    <3>3. StageOf(j)
      BY <1>5, <2>1, <3>1, <3>2
      DEF StageOf, Ahead, AheadSteps, LastSteps, ReadSteps, FirstSteps, AbsentSteps
    <3> QED BY <1>1, <1>2, <1>4, <1>7, <2>1, <3>1, <3>3, PlainSerial
  <2> QED BY <1>9, <2>2, <2>3, NoFault DEF SaveOwn
<1>10. CASE SaveCount(w)
  <2>1. i.pc = "save_count" /\ UNCHANGED tables /\ UNCHANGED locks
    BY <1>1, <1>10, NoQueryFails DEF SaveCount, At
  <2>2. CASE SaveReply(w)
    BY <1>1, <1>2, <1>3, <1>4, <1>6, <1>7, <1>8, <2>1, <2>2, PlainSerial
  <2>3. ASSUME NEW r \in Info(job[w].m),
               Move(w, [job[w] EXCEPT !.cnt = r.count, !.pc = "save_update"])
        PROVE  Serial'
    <3>1. Goes(w, {"save_update"}) /\ job'[w].cnt = r.count
      BY <2>3, MovedCount
    <3>2. /\ j.pc = "save_update" /\ j.m = i.m /\ j.o = i.o /\ Others(w)
          /\ j.cnt = r.count
      BY <1>1, <1>2, <3>1 DEF Goes
    <3>3. r \in Info(i.m) /\ \A q \in Info(i.m) : q.count = r.count
      BY <1>1, <2>3 DEF Serial, RowInv, OneInfo, Info
    <3>4. StageOf(j)
      BY <1>5, <2>1, <3>2, <3>3
      DEF StageOf, Ahead, AheadSteps, LastSteps, ReadSteps, FirstSteps, AbsentSteps
    <3> QED BY <1>1, <1>2, <1>4, <1>7, <2>1, <3>2, <3>4, PlainSerial
  <2> QED BY <1>10, <2>2, <2>3, NoQueryFails DEF SaveCount
<1>11. CASE SaveInsert(w)
  <2>1. /\ i.pc = "save_insert" /\ InsertRow(w) /\ Ends(w) /\ fdfs' = fdfs
        /\ UNCHANGED file_info /\ UNCHANGED locks
    BY <1>1, <1>6, <1>11, NoFault DEF SaveInsert, At
  <2>2. Rows(Key(w)) = {} /\ Info(m) # {}
    BY <1>1, <1>3, <1>5, <2>1 DEF StageOf, AbsentSteps, AheadSteps, Key
  <2>3. PICK c \in Int : c = Users(m) + 1
    BY UsersType DEF Serial, RowInv
  <2>4. \A r \in Info(m) : r.count = c
    BY <1>3, <1>5, <2>1, <2>3 DEF StageOf, Balanced, Ahead, AheadSteps
  <2>5. OwnLocks'
    BY <1>1, <1>4, <1>7, <2>1, LocksKept DEF Serial, Ends
  <2> QED BY <1>1, <1>3, <1>4, <1>7, <2>1, <2>2, <2>3, <2>4, <2>5, ListedSerial
<1> QED BY <1>9, <1>10, <1>11, SaveUpdateSerial DEF SaveStep

-------------------------------------------------------------------------------
(* handleDeleteFile *)

LEMMA DelRowsSerial ==
    ASSUME TypeOK, InGoodOrder, Apart, Serial, NEW w \in Workers, DelRows(w)
    PROVE  Serial'
<1>1. PICK i : i = job[w]
  OBVIOUS
<1>2. PICK j : j = job'[w]
  OBVIOUS
<1>3. PICK m : m = i.m
  OBVIOUS
<1>4. i.pc = "del_rows" /\ ~At(w, "idle")
  BY <1>1 DEF DelRows, At
<1>5. StageOf(i)
  BY <1>1, <1>4, StageNow
<1>6. PICK r \in Rows(<<i.o, m>>) : TRUE
  BY <1>3, <1>4, <1>5 DEF StageOf
<1>7. r \in user_file_list /\ r.o = i.o /\ r.md5 = m
  BY <1>6 DEF Rows
<1>8. Rows(<<i.o, m>>) = {r}
  BY <1>6 DEF Serial, RowInv, OneOwner, Rows
<1>9. /\ user_file_list' = user_file_list \ {r} /\ Goto(w, "del_count")
      /\ UNCHANGED <<file_info, fdfs, last_id>> /\ UNCHANGED locks
  BY <1>1, <1>3, <1>8, NoFault DEF DelRows, Key
<1>10. j.pc = "del_count" /\ j.m = m /\ j.o = i.o /\ Others(w)
  BY <1>1, <1>2, <1>3, <1>9, Gone DEF Keeps, Goes
<1>11. /\ \A x : Info(x)' = Info(x)
       /\ \A x : x # m => RowsOf(x)' = RowsOf(x)
       /\ RowsOf(m)' = RowsOf(m) \ {r} /\ r \in RowsOf(m)
  BY <1>7, <1>9 DEF Info, RowsOf
<1>12. Users(m) = Users(m)' + 1 /\ Users(m)' \in Nat
  <2>1. IsFiniteSet(RowsOf(m)) /\ Users(m) \in Nat
    BY UsersType DEF Serial, RowInv
  <2>2. PICK S : S = RowsOf(m)
    OBVIOUS
  <2>3. Cardinality(S \ {r}) = Cardinality(S) - 1 /\ Cardinality(S \ {r}) \in Nat
    BY <1>11, <2>1, <2>2, FS_RemoveElement, FS_CardinalityType
  <2> QED BY <1>11, <2>1, <2>2, <2>3 DEF Users
<1>13. StageOf(j)'
  <2>1. Info(m) # {} /\ Balanced(m, 0)
    BY <1>3, <1>4, <1>5, <1>11 DEF StageOf, Known, Ahead, AheadSteps, LastSteps
  <2>2. \A q \in Info(m)' : q.count = Users(m)' + 1
    BY <1>11, <1>12, <2>1 DEF Balanced
  <2>3. Balanced(m, 1)' /\ Info(m)' # {}
    BY <1>11, <2>1, <2>2 DEF Balanced
  <2> QED BY <1>10, <2>3
          DEF StageOf, Ahead, AheadSteps, LastSteps, ReadSteps, FirstSteps, AbsentSteps
<1>14. ContentInv'
  BY <1>1, <1>2, <1>3, <1>4, <1>10, <1>11, <1>13, ContentStep DEF Serial
<1>15. OwnLocks'
  BY <1>1, <1>4, <1>9, <1>10, LocksKept DEF Serial, LockedSteps
<1>16. NoOrphans'
  BY <1>1, <1>4, <1>9, <1>10, OrphansKept DEF Serial, CarrySteps
<1>17. RowInv'
  <2>1. IsFiniteSet(user_file_list \ {r})
    BY FS_Subset DEF Serial, RowInv, ListInv
  <2> QED BY <1>9, <2>1 DEF Serial, RowInv, ListInv, OneInfo, OneOwner
<1> QED BY <1>14, <1>15, <1>16, <1>17 DEF Serial

LEMMA DelUpdateSerial ==
    ASSUME TypeOK, InGoodOrder, Apart, Serial, NEW w \in Workers, DelUpdate(w)
    PROVE  Serial'
<1>1. PICK i : i = job[w]
  OBVIOUS
<1>2. PICK j : j = job'[w]
  OBVIOUS
<1>3. PICK m : m = i.m
  OBVIOUS
<1>4. i.pc = "del_update" /\ ~At(w, "idle") /\ i.cnt \in Int
  BY <1>1 DEF DelUpdate, At, TypeOK, Job
<1>5. StageOf(i)
  BY <1>1, <1>4, StageNow
<1>6. PICK c \in Int : c = i.cnt - 1
  BY <1>4
<1>7. /\ SetCount(m, c) /\ UNCHANGED <<user_file_list, fdfs, last_id>>
      /\ UNCHANGED locks
      /\ IF c = 0 /\ Affected(m, 0) # {} THEN Goto(w, "del_fid") ELSE DelReply(w)
  BY <1>1, <1>3, <1>6, NoFault DEF DelUpdate
<1>8. PICK q \in Info(m) : q.count = i.cnt /\ q.count = Users(m) + 1
  BY <1>3, <1>4, <1>5 DEF StageOf, ReadSteps, Balanced, Ahead, AheadSteps
<1>9. Users(m) \in Nat /\ c = Users(m) /\ IsFiniteSet(RowsOf(m))
  BY <1>6, <1>8, UsersType DEF Serial, RowInv
<1>10. Affected(m, 0) # {}
  BY <1>8, <1>9 DEF Affected
<1>11. /\ Info(m)' # {} /\ \A r \in Info(m)' : r.count = c
  BY <1>7, <1>8, SetCountOne DEF Serial, RowInv
<1>12. Users(m)' = Users(m) /\ RowsOf(m)' = RowsOf(m)
  BY <1>7 DEF Users, RowsOf
<1>13. Balanced(m, 0)'
  BY <1>9, <1>11, <1>12 DEF Balanced
<1>14. CASE c = 0
  <2>1. j.pc = "del_fid" /\ j.m = m /\ Others(w)
    BY <1>1, <1>2, <1>3, <1>7, <1>10, <1>14, Gone DEF Keeps, Goes
  <2>2. RowsOf(m)' = {}
    BY <1>9, <1>12, <1>14, FS_EmptySet DEF Users
  <2>3. StageOf(j)'
    BY <1>11, <1>13, <2>1, <2>2
    DEF StageOf, Ahead, AheadSteps, LastSteps, ReadSteps, FirstSteps, AbsentSteps
  <2> QED BY <1>1, <1>2, <1>3, <1>4, <1>7, <2>1, <2>3, UpdateSerial DEF LockedSteps, CarrySteps
<1>15. CASE c # 0
  <2>1. j.pc = "idle" /\ Others(w)
    BY <1>2, <1>7, <1>15, Ended, IdleFields DEF DelReply, Ends
  <2>2. RowsOf(m)' # {}
    BY <1>9, <1>12, <1>15, FS_EmptySet DEF Users
  <2>3. Clean(m)'
    BY <1>11, <1>13, <2>2 DEF Clean, Known
  <2> QED BY <1>1, <1>2, <1>3, <1>4, <1>7, <2>1, <2>3, UpdateSerial DEF LockedSteps, CarrySteps
<1> QED BY <1>14, <1>15

LEMMA DelInfoSerial ==
    ASSUME TypeOK, InGoodOrder, Apart, Serial, NEW w \in Workers, DelInfo(w)
    PROVE  Serial'
<1>1. PICK i : i = job[w]
  OBVIOUS
<1>2. PICK j : j = job'[w]
  OBVIOUS
<1>3. PICK m : m = i.m
  OBVIOUS
<1>4. i.pc = "del_info" /\ ~At(w, "idle")
  BY <1>1 DEF DelInfo, At
<1>5. StageOf(i)
  BY <1>1, <1>4, StageNow
<1>6. /\ file_info' = file_info \ Info(m) /\ Goto(w, "del_file")
      /\ UNCHANGED <<user_file_list, fdfs, last_id>> /\ UNCHANGED locks
  BY <1>1, <1>3, NoFault DEF DelInfo
<1>7. j.pc = "del_file" /\ j.m = m /\ j.fid = i.fid /\ Others(w)
  BY <1>1, <1>2, <1>3, <1>6, Gone, GoneFid DEF Keeps, Goes
<1>8. RowsOf(m) = {} /\ \A r \in Info(m) : r.fid = i.fid
  BY <1>3, <1>4, <1>5 DEF StageOf, LastSteps
<1>9. /\ Info(m)' = {} /\ \A x : x # m => Info(x)' = Info(x)
      /\ \A x : RowsOf(x)' = RowsOf(x)
  BY <1>6 DEF Info, RowsOf
<1>10. RowsOf(m)' = {}
  BY <1>8, <1>9
<1>11. StageOf(j)'
  BY <1>7, <1>9, <1>10
  DEF StageOf, Balanced, Known, Ahead, AheadSteps, LastSteps, ReadSteps, FirstSteps, AbsentSteps
<1>12. ContentInv'
  BY <1>1, <1>2, <1>3, <1>4, <1>7, <1>9, <1>11, ContentStep DEF Serial
<1>13. OwnLocks'
  BY <1>1, <1>4, <1>6, <1>7, LocksKept DEF Serial, LockedSteps
<1>14. NoOrphans'
  <2> SUFFICES ASSUME NEW k \in fdfs
               PROVE  \/ \E r \in file_info' : r.fid = k
                      \/ \E v \in Workers : job'[v].pc \in CarrySteps /\ job'[v].fid = k
    BY <1>6 DEF NoOrphans
  <2>1. ASSUME NEW r \in file_info, r.fid = k
        PROVE  r \in file_info' \/ (job'[w].pc \in CarrySteps /\ job'[w].fid = k)
    BY <1>2, <1>6, <1>7, <1>8, <2>1 DEF CarrySteps
  <2>2. ASSUME NEW v \in Workers, job[v].pc \in CarrySteps, job[v].fid = k
        PROVE  job'[v] = job[v]
    BY <1>1, <1>4, <1>7, <2>2 DEF Others, CarrySteps
  <2> QED BY <2>1, <2>2 DEF Serial, NoOrphans
<1>15. RowInv'
  BY <1>6 DEF Serial, RowInv, ListInv, OneInfo, OneOwner
<1> QED BY <1>12, <1>13, <1>14, <1>15 DEF Serial

LEMMA DelFileSerial ==
    ASSUME TypeOK, InGoodOrder, Apart, Serial, NEW w \in Workers, DelFile(w)
    PROVE  Serial'
<1>1. PICK i : i = job[w]
  OBVIOUS
<1>2. PICK j : j = job'[w]
  OBVIOUS
<1>3. PICK m : m = i.m
  OBVIOUS
<1>4. i.pc = "del_file" /\ ~At(w, "idle")
  BY <1>1 DEF DelFile, At
<1>5. Clean(m)
  BY <1>1, <1>3, <1>4, StageNow, CleanStage DEF AheadSteps, LastSteps
<1>6. /\ fdfs' = fdfs \ {i.fid}
      /\ UNCHANGED <<file_info, user_file_list, last_id>> /\ UNCHANGED locks
  BY <1>1, NoFault DEF DelFile
<1>7. j.pc = "idle" /\ Others(w)
  BY <1>2, Ended, IdleFields DEF DelFile, DelReply, Ends
<1>8. ContentInv'
  BY <1>1, <1>2, <1>3, <1>4, <1>5, <1>6, <1>7, QuietContent DEF Serial
<1>9. OwnLocks'
  BY <1>1, <1>4, <1>6, <1>7, LocksKept DEF Serial, LockedSteps
<1>10. NoOrphans'
  <2> SUFFICES ASSUME NEW k \in fdfs, k # i.fid
               PROVE  \/ \E r \in file_info' : r.fid = k
                      \/ \E v \in Workers : job'[v].pc \in CarrySteps /\ job'[v].fid = k
    BY <1>6 DEF NoOrphans
  <2>1. ASSUME NEW v \in Workers, job[v].pc \in CarrySteps, job[v].fid = k
        PROVE  job'[v] = job[v]
    BY <1>1, <1>7, <2>1 DEF Others
  <2> QED BY <1>6, <2>1 DEF Serial, NoOrphans
<1>11. RowInv'
  BY <1>6 DEF Serial, RowInv, ListInv, OneInfo, OneOwner
<1> QED BY <1>8, <1>9, <1>10, <1>11 DEF Serial

LEMMA DeleteSerial ==
    ASSUME TypeOK, InGoodOrder, Apart, Serial, NEW w \in Workers, DeleteStep(w)
    PROVE  Serial'
<1>1. PICK i : i = job[w]
  OBVIOUS
<1>2. PICK j : j = job'[w]
  OBVIOUS
<1>3. PICK m : m = i.m
  OBVIOUS
<1>4. CASE DelShare(w)
  <2>1. i.pc = "del_share" /\ ~At(w, "idle") /\ UNCHANGED tables /\ UNCHANGED locks
    BY <1>1, <1>4, NoQueryFails DEF DelShare, At
  <2>2. StageOf(i) /\ Clean(m)
    BY <1>1, <1>3, <2>1, StageNow, CleanStage DEF AheadSteps, LastSteps
  <2>3. CASE DelReply(w)
    <3>1. j.pc = "idle" /\ Others(w)
      BY <1>2, <2>3, Ended, IdleFields DEF DelReply, Ends
    <3> QED BY <1>1, <1>2, <1>3, <2>1, <2>2, <3>1, PlainSerial DEF LockedSteps, CarrySteps
  <2>4. CASE Goto(w, "del_rows")
    <3>1. j.pc = "del_rows" /\ j.m = i.m /\ j.o = i.o /\ Others(w)
      BY <1>1, <1>2, <2>4, Gone DEF Keeps, Goes
    <3>2. StageOf(j)
      BY <2>1, <2>2, <3>1
      DEF StageOf, Ahead, AheadSteps, LastSteps, ReadSteps, FirstSteps, AbsentSteps
    <3> QED BY <1>1, <1>2, <2>1, <3>1, <3>2, PlainSerial DEF LockedSteps, CarrySteps
  <2> QED BY <1>4, <2>3, <2>4, NoQueryFails DEF DelShare
<1>5. CASE DelCount(w)
  <2>1. i.pc = "del_count" /\ ~At(w, "idle") /\ UNCHANGED tables /\ UNCHANGED locks
    BY <1>1, <1>5, NoQueryFails DEF DelCount, At
  <2>2. StageOf(i)
    BY <1>1, <2>1, StageNow
  <2>3. Info(m) # {}
    BY <1>3, <2>1, <2>2 DEF StageOf, AheadSteps
  <2> DEFINE p(r) == IF r.count > 0 THEN "del_update" ELSE "del_fid"
  <2>4. PICK r \in Info(m) : Move(w, [job[w] EXCEPT !.cnt = r.count, !.pc = p(r)])
    BY <1>1, <1>3, <1>5, <2>3, NoQueryFails DEF DelCount
  <2>5. r.count = Users(m) + 1 /\ Users(m) \in Nat
    BY <1>3, <2>1, <2>2, UsersType DEF StageOf, Balanced, Ahead, AheadSteps, Serial, RowInv
  <2>6. p(r) = "del_update"
    BY <2>4, <2>5
  <2> HIDE DEF p
  <2>7. Goes(w, {p(r)}) /\ job'[w].cnt = r.count
    BY <2>4, MovedCount
  <2>8. /\ j.pc = "del_update" /\ j.m = i.m /\ j.o = i.o /\ Others(w)
        /\ j.cnt = r.count
    BY <1>1, <1>2, <2>6, <2>7 DEF Goes
  <2>9. \A q \in Info(i.m) : q.count = r.count
    BY <1>3 DEF Serial, RowInv, OneInfo, Info
  <2>10. StageOf(j)
    BY <2>1, <2>2, <2>8, <2>9
    DEF StageOf, Ahead, AheadSteps, LastSteps, ReadSteps, FirstSteps, AbsentSteps
  <2> QED BY <1>1, <1>2, <2>1, <2>8, <2>10, PlainSerial DEF LockedSteps, CarrySteps
<1>6. CASE DelFid(w)
  <2>1. i.pc = "del_fid" /\ ~At(w, "idle") /\ UNCHANGED tables /\ UNCHANGED locks
    BY <1>1, <1>6, NoQueryFails DEF DelFid, At
  <2>2. StageOf(i)
    BY <1>1, <2>1, StageNow
  <2>3. Info(m) # {}
    BY <1>3, <2>1, <2>2 DEF StageOf, LastSteps
  <2>4. PICK r \in Info(m) : Move(w, [job[w] EXCEPT !.fid = r.fid, !.pc = "del_info"])
    BY <1>1, <1>3, <1>6, <2>3, NoQueryFails DEF DelFid
  <2>5. Keeps(w, "del_info") /\ job'[w].fid = r.fid
    BY <2>4, MovedFid, MovedFidTo
  <2>6. /\ j.pc = "del_info" /\ j.m = i.m /\ j.o = i.o /\ Others(w)
        /\ j.fid = r.fid
    BY <1>1, <1>2, <2>5 DEF Keeps, Goes
  <2>7. \A q \in Info(i.m) : q.fid = r.fid
    BY <1>3 DEF Serial, RowInv, OneInfo, Info
  <2>8. StageOf(j)
    BY <2>1, <2>2, <2>6, <2>7
    DEF StageOf, Ahead, AheadSteps, LastSteps, ReadSteps, FirstSteps, AbsentSteps
  <2> QED BY <1>1, <1>2, <2>1, <2>6, <2>8, PlainSerial DEF LockedSteps, CarrySteps
<1> QED BY <1>4, <1>5, <1>6, DelRowsSerial, DelUpdateSerial, DelInfoSerial, DelFileSerial
        DEF DeleteStep

-------------------------------------------------------------------------------
(* A request that begins finds its content settled: nobody is at it.       *)
LEMMA StartSerial ==
    ASSUME TypeOK, InGoodOrder, Apart', Serial, NEW w \in Workers, Start(w)
    PROVE  Serial'
<1>1. PICK op \in Ops, o \in Owners, m \in Md5s :
         /\ op \in Orderly => Expected(op, o, m)
         /\ Move(w, [Idle EXCEPT !.pc = FirstPc[op], !.op = op, !.o = o, !.m = m])
  BY DEF Start
<1>2. PICK j : j = job'[w]
  OBVIOUS
<1>3. j = [Idle EXCEPT !.pc = FirstPc[op], !.op = op, !.o = o, !.m = m] /\ Others(w)
  BY <1>1, <1>2, Moved
<1>4. j.pc = FirstPc[op] /\ j.o = o /\ j.m = m
  BY <1>3 DEF Idle
<1>5. job[w].pc = "idle" /\ UNCHANGED tables /\ UNCHANGED locks
  BY DEF Start, At
<1>6. op \in {"md5", "upload", "save", "del"} /\ (op \in {"upload", "del"} => op \in Orderly)
  BY StoreAssumption DEF InGoodOrder
<1>7. j.pc # "idle" /\ (op = "md5" => j.pc = "md5_own") /\ (op = "upload" => j.pc = "up_store")
      /\ (op = "save" => j.pc = "save_own") /\ (op = "del" => j.pc = "del_share")
  BY <1>4, <1>6 DEF FirstPc
<1>8. \A v \in Workers : ~At(v, "idle") => v # w /\ job'[v] = job[v] /\ job[v].m # m
  <2> SUFFICES ASSUME NEW v \in Workers, job[v].pc # "idle"
               PROVE  v # w /\ job'[v] = job[v] /\ job[v].m # m
    BY DEF At
  <2>1. v # w /\ job'[v] = job[v]
    BY <1>3, <1>5 DEF Others
  <2>2. job'[v].pc # "idle" /\ job'[w].pc # "idle"
    BY <1>2, <1>7, <2>1
  <2>3. job'[v].m # job'[w].m
    BY <2>1, <2>2 DEF Apart, At
  <2> QED BY <1>2, <1>4, <2>1, <2>3
<1>9. Clean(m)
  BY <1>8 DEF Serial, ContentInv
<1>10. StageOf(j)
  <2>1. op = "upload" => RowsOf(m) = {}
    BY <1>1, <1>6, <1>9 DEF Expected, Clean, Known
  <2>2. op = "del" => Rows(<<o, m>>) # {}
    BY <1>1, <1>6 DEF Expected
  <2> QED BY <1>4, <1>6, <1>7, <1>9, <2>1, <2>2
          DEF StageOf, Clean, Ahead, AheadSteps, LastSteps, ReadSteps, FirstSteps, AbsentSteps
<1>11. UNCHANGED <<file_info, user_file_list, fdfs, last_id>>
  BY <1>5 DEF tables
<1>12. \A x : Info(x)' = Info(x) /\ RowsOf(x)' = RowsOf(x)
  BY <1>11 DEF Info, RowsOf
<1>13. ContentInv'
  <2>1. ASSUME NEW v \in Workers, job'[v].pc # "idle"
        PROVE  StageOf(job[v])'
    <3>1. PICK i : i = job'[v]
      OBVIOUS
    <3>2. StageOf(i)
      BY <1>2, <1>3, <1>10, <2>1, <3>1 DEF Others, Serial, ContentInv, At
    <3>3. StageOf(i)'
      BY <1>12, <3>2, SameContent
    <3> QED BY <3>1, <3>3 DEF StageOf, Ahead
  <2>2. ASSUME NEW x \in Md5s, \A v \in Workers : job'[v].pc # "idle" => job'[v].m # x
        PROVE  Clean(x)'
    <3>1. \A v \in Workers : ~At(v, "idle") => job[v].m # x
      BY <1>8, <2>2 DEF At
    <3>2. Clean(x)
      BY <3>1 DEF Serial, ContentInv
    <3> QED BY <1>12, <3>2, SameContent
  <2> QED BY <2>1, <2>2 DEF ContentInv, At
<1>14. OwnLocks'
  <2>1. infoLock' = infoLock /\ rowLock' = rowLock
    BY <1>5 DEF locks
  <2>2. \A v : job[v].pc \in LockedSteps => job'[v] = job[v] \/ v \notin Workers
    BY <1>3, <1>5 DEF Others, LockedSteps
  <2>3. /\ \A x \in Md5s : infoLock[x] \subseteq Workers
        /\ \A q \in Owners, x \in Md5s : rowLock[<<q, x>>] \subseteq Workers
    BY DEF TypeOK
  <2> QED BY <2>1, <2>2, <2>3 DEF Serial, OwnLocks
<1>15. NoOrphans'
  <2>1. \A v \in Workers : job[v].pc \in CarrySteps => job'[v] = job[v]
    BY <1>3, <1>5 DEF Others, CarrySteps
  <2> QED BY <1>11, <2>1 DEF Serial, NoOrphans
<1>16. RowInv'
  BY <1>11 DEF Serial, RowInv, ListInv, OneInfo, OneOwner
<1> QED BY <1>13, <1>14, <1>15, <1>16 DEF Serial

LEMMA NextSerial ==
    ASSUME TypeOK, TxnInv, InGoodOrder, Apart, Apart', Serial, [Next]_vars
    PROVE  Serial'
<1>1. CASE UNCHANGED vars
  <2>1. UNCHANGED <<file_info, user_file_list, fdfs, last_id, job, infoLock, rowLock>>
    BY <1>1 DEF vars, tables, locks
  <2>2. RowInv' /\ OwnLocks' /\ NoOrphans'
    BY <2>1 DEF Serial, RowInv, ListInv, OneInfo, OneOwner, OwnLocks, NoOrphans
  <2>3. \A x : Info(x)' = Info(x) /\ RowsOf(x)' = RowsOf(x)
    BY <2>1 DEF Info, RowsOf
  <2>4. ContentInv'
    <3>1. \A x : Clean(x)' = Clean(x)
      BY <2>3, SameContent
    <3>2. ASSUME NEW v \in Workers, ~At(v, "idle")
          PROVE  StageOf(job[v])'
      <4>1. PICK i : i = job[v]
        OBVIOUS
      <4>2. StageOf(i)'
        BY <2>3, <3>2, <4>1, SameContent DEF Serial, ContentInv
      <4> QED BY <2>1, <4>1, <4>2 DEF StageOf, Ahead
    <3> QED BY <2>1, <3>1, <3>2 DEF Serial, ContentInv, At
  <2> QED BY <2>2, <2>4 DEF Serial
<1>2. ASSUME NEW w \in Workers, Start(w) \/ Work(w)
      PROVE  Serial'
  BY <1>2, StartSerial, Md5Serial, UploadSerial, SaveSerial, DeleteSerial DEF Work
<1>3. ~ProcessCrash /\ ~ \E w \in Workers : Reconnect(w)
  BY NoFault DEF ProcessCrash, Reconnect
<1> QED BY <1>1, <1>2, <1>3 DEF Next

LEMMA InitSerial == Init => Serial
<1> SUFFICES ASSUME Init PROVE Serial
  OBVIOUS
<1>1. \A w \in Workers : At(w, "idle")
  BY IdleFields DEF Init, At
<1>2. OwnLocks
  BY DEF Init, OwnLocks
<1>3. CASE file_info = {} /\ user_file_list = {} /\ fdfs = {} /\ last_id = 0
  <2>1. RowInv /\ NoOrphans
    BY <1>3, FS_EmptySet DEF RowInv, ListInv, OneInfo, OneOwner, NoOrphans
  <2>2. \A x : Clean(x)
    BY <1>3 DEF Clean, Balanced, Known, Info, RowsOf
  <2> QED BY <1>1, <1>2, <2>1, <2>2 DEF Serial, ContentInv
<1>4. ASSUME NEW m, NEW o, NEW r, r = [md5 |-> m, fid |-> 1, count |-> 1],
             NEW q, q = [id |-> 2, o |-> o, md5 |-> m],
             file_info = {r}, user_file_list = {q}, fdfs = {1}, last_id = 2
      PROVE  Serial
  <2>1. r.md5 = m /\ r.fid = 1 /\ r.count = 1 /\ q.id = 2 /\ q.md5 = m
    BY <1>4
  <2>2. RowInv /\ NoOrphans
    <3>1. IsFiniteSet(user_file_list) /\ \A y \in user_file_list : y.id <= last_id
      <4>1. IsFiniteSet({q})
        BY FS_Singleton
      <4>2. \A y \in {q} : y.id = 2
        BY <2>1
      <4> QED BY <1>4, <4>1, <4>2
    <3>2. OneInfo /\ OneOwner
      BY <1>4 DEF OneInfo, OneOwner
    <3>3. NoOrphans
      BY <1>4, <2>1 DEF NoOrphans
    <3> QED BY <3>1, <3>2, <3>3 DEF RowInv, ListInv
  <2>3. Cardinality({q}) = 1
    BY FS_Singleton
  <2>4. ASSUME NEW x PROVE Clean(x)
    <3>1. CASE x = m
      <4>1. RowsOf(x) = {q} /\ Info(x) = {r}
        BY <1>4, <2>1, <3>1 DEF RowsOf, Info
      <4> QED BY <2>1, <2>3, <4>1 DEF Clean, Balanced, Known, Users
    <3>2. CASE x # m
      <4>1. RowsOf(x) = {} /\ Info(x) = {}
        BY <1>4, <2>1, <3>2 DEF RowsOf, Info
      <4> QED BY <4>1 DEF Clean, Balanced, Known
    <3> QED BY <3>1, <3>2
  <2> QED BY <1>1, <1>2, <2>2, <2>4 DEF Serial, ContentInv
<1> QED BY <1>3, <1>4 DEF Init

(* With FidInv from RowsHaveFiles: the rows have their files.              *)
LEMMA SerialAlways ==
    ASSUME InGoodOrder
    PROVE  Spec /\ []Apart => [](TypeOK /\ FidInv /\ Serial)
<1>1. NoDrop /\ "delete_info" \notin FaultKinds
  BY DEF InGoodOrder, NoDrop
<1>2. Init => TypeOK /\ OpInv /\ TxnInv /\ FidInv /\ Serial
  BY InitType, InitTxn, InitFid, InitSerial
<1>3. /\ TypeOK /\ OpInv /\ TxnInv /\ FidInv /\ Serial
      /\ Apart /\ Apart' /\ [Next]_vars
      => (TypeOK /\ OpInv /\ TxnInv /\ FidInv /\ Serial)'
  BY <1>1, NextType, NextTxn, NextFid, NextSerial
<1> QED BY <1>2, <1>3, PTL DEF Spec

(* Between requests the count of a content is the number of its users,     *)
(* as the comment on file_info.count says: with every kind of request on   *)
(* any number of threads, if no two of them are about one content.         *)
THEOREM CountSettles ==
    ASSUME InGoodOrder
    PROVE  Spec /\ []Apart => []SettledExact
<1>1. TypeOK /\ Serial => SettledExact
  <2> SUFFICES ASSUME TypeOK, Serial, Settled, NEW r \in file_info
               PROVE  Cardinality(RowsOf(r.md5)) = r.count
    BY DEF SettledExact, RefCountExact
  <2>1. r.md5 \in Md5s /\ r.count \in Int /\ r \in Info(r.md5)
    BY DEF TypeOK, InfoRow, Info
  <2>2. Clean(r.md5)
    BY <2>1 DEF Serial, ContentInv, Settled
  <2>3. Users(r.md5) \in Nat
    BY UsersType DEF Serial, RowInv
  <2>4. r.count = Users(r.md5) + 0
    BY <2>1, <2>2 DEF Clean, Balanced
  <2> QED BY <2>3, <2>4 DEF Users
<1> QED BY <1>1, SerialAlways, PTL

(* Between requests the storage has exactly the files of file_info, and    *)
(* file_info exactly the contents that somebody has: nothing is left       *)
(* behind by the last user, and nothing goes before him.                   *)
THEOREM StorageSettles ==
    ASSUME InGoodOrder
    PROVE  Spec /\ []Apart => []SettledStore
<1>1. TypeOK /\ FidInv /\ Serial => SettledStore
  <2> SUFFICES ASSUME TypeOK, FidInv, Serial, Settled
               PROVE  /\ fdfs = {r.fid : r \in file_info}
                      /\ {r.md5 : r \in file_info} = {r.md5 : r \in user_file_list}
    BY DEF SettledStore
  <2>1. \A r \in file_info : r.fid \in fdfs
    BY DEF FidInv, LinksOK
  <2>2. \A i \in fdfs : \E r \in file_info : r.fid = i
    BY DEF Serial, NoOrphans, Settled, At, CarrySteps
  <2>3. ASSUME NEW x \in Md5s
        PROVE  (\E r \in file_info : r.md5 = x) <=> (\E r \in user_file_list : r.md5 = x)
    <3>1. Known(x)
      BY DEF Serial, ContentInv, Settled, Clean
    <3> QED BY <3>1 DEF Known, Info, RowsOf
  <2>4. /\ \A r \in file_info : r.md5 \in Md5s
        /\ \A r \in user_file_list : r.md5 \in Md5s
    BY DEF TypeOK, InfoRow, OwnerRow
  <2> QED BY <2>1, <2>2, <2>3, <2>4
<1> QED BY <1>1, SerialAlways, PTL

(* When handleDeleteFile has counted a content down to 0, nobody has it    *)
(* any more (api_dealfile.cc:297).                                         *)
THEOREM ZeroIsUnused ==
    ASSUME InGoodOrder
    PROVE  Spec /\ []Apart => []ZeroMeansUnreferenced
<1>1. Serial => ZeroMeansUnreferenced
  BY DEF Serial, ContentInv, StageOf, LastSteps, ZeroMeansUnreferenced, At
<1> QED BY <1>1, SerialAlways, PTL
================================================================================
