--------------------------- MODULE ShareBoardProofs ----------------------------
(***************************************************************************)
(* Proofs about ShareBoard, for any number of threads, users, files,       *)
(* requests and failures, as long as the requests come in good order:      *)
(* between requests the ranking in Redis is the table share_file_list, the *)
(* counter is above it by no more than the changes that ran beside its     *)
(* last reload, shared_status marks the owner, and the answers of          *)
(* handleShareFile are true.                                               *)
(***************************************************************************)
EXTENDS ShareBoard, FiniteSetTheorems, TLAPS

(* The statements and commands of each request. *)
ShareSteps  == {"share_exist", "share_record", "had_zset", "had_hash",
                "share_status", "share_insert", "share_count", "share_zset",
                "share_hash"}
CancelSteps == {"cancel_status", "cancel_count", "cancel_floor", "cancel_rows",
                "cancel_zset", "cancel_hash"}
PvSteps     == {"pv_read", "pv_update", "pv_commit", "pv_exist", "pv_incr",
                "pv_add", "pv_hash"}
DelSteps    == {"del_exist", "del_status", "del_rows", "del_count", "del_floor",
                "del_zset", "del_hash", "del_own"}
CountSteps  == {"count_get", "count_db", "count_set"}
ListSteps   == {"count_get", "count_db", "count_set", "list_select"}
RankSteps   == {"rank_range", "rank_name", "rank_score"}

StepsOf == [share |-> ShareSteps, cancel |-> CancelSteps, pv |-> PvSteps,
            del |-> DelSteps, count |-> CountSteps, list |-> ListSteps,
            rank |-> RankSteps]

Pcs == {"idle"} \cup ShareSteps \cup CancelSteps \cup PvSteps \cup DelSteps
          \cup ListSteps \cup RankSteps

Job == [pc : Pcs, op : AllOps \cup {"none"}, u : Users \cup {"none"},
        f : Files \cup {"none"}, n : Nat, todo : SUBSET Files]

(* A worker is idle, or at a step of the request it runs. *)
InOrder(w) ==
    \/ job[w] = Idle
    \/ /\ job[w].op \in Ops /\ job[w].pc \in StepsOf[job[w].op]
       /\ job[w].u \in Users /\ job[w].f \in Files /\ up

Typed ==
    /\ TypeOK
    /\ IsFiniteSet(share_file_list)
    /\ job \in [Workers -> Job]
    /\ answer = [w \in Workers |-> answer[w]]
    /\ faults \in Nat
    /\ faults = 0 => failed = {}
    /\ failed = {} => up
    /\ \A w \in Workers : InOrder(w)

-------------------------------------------------------------------------------
(* How the job of the worker w goes on, the others' staying as they are. *)
Others(w)   == \A v \in Workers \ {w} : job'[v] = job[v]
Goes(w, ps) == /\ job'[w] \in [pc : ps, op : {job[w].op}, u : {job[w].u},
                               f : {job[w].f}, n : Nat, todo : SUBSET Files]
               /\ job' = [job EXCEPT ![w] = job'[w]]
Keeps(w, p) == Goes(w, {p}) /\ job'[w].n = job[w].n
Ends(w)     == /\ job' = [job EXCEPT ![w] = Idle]
               /\ answer' = [v \in Workers |-> answer'[v]]
Says(w, c)  == answer' = [answer EXCEPT ![w] = c]

LEMMA IdleJob == Idle \in Job /\ Idle.pc = "idle" /\ Idle.op = "none"
<1>1. "none" \in Users \cup {"none"} /\ "none" \in Files \cup {"none"}
  OBVIOUS
<1>2. {} \in SUBSET Files
  OBVIOUS
<1>3. Idle.pc \in Pcs /\ Idle.op \in AllOps \cup {"none"}
  BY DEF Idle, Pcs
<1> QED BY <1>1, <1>2, <1>3 DEF Idle, Job

LEMMA GoesFacts ==
    ASSUME Typed, NEW w \in Workers, NEW ps, Goes(w, ps)
    PROVE  /\ job'[w].pc \in ps /\ job'[w].op = job[w].op /\ job'[w].u = job[w].u
           /\ job'[w].f = job[w].f /\ job'[w].n \in Nat
           /\ Others(w)
           /\ ps \subseteq Pcs => job' \in [Workers -> Job]
<1> DEFINE R == [pc : ps, op : {job[w].op}, u : {job[w].u}, f : {job[w].f},
                 n : Nat, todo : SUBSET Files]
<1>1. PICK j : j = job'[w] /\ j \in R
  BY DEF Goes
<1>2. job' = [job EXCEPT ![w] = j]
  BY <1>1 DEF Goes
<1>3. Others(w)
  BY <1>2 DEF Typed, Others
<1>4. j.pc \in ps /\ j.op = job[w].op /\ j.u = job[w].u /\ j.f = job[w].f /\ j.n \in Nat
  BY <1>1
<1>5. ASSUME ps \subseteq Pcs PROVE j \in Job
  <2>1. job[w] \in Job
    BY DEF Typed
  <2>2. job[w].op \in AllOps \cup {"none"} /\ job[w].u \in Users \cup {"none"}
        /\ job[w].f \in Files \cup {"none"}
    BY <2>1 DEF Job
  <2> QED BY <1>1, <1>5, <2>2 DEF Job
<1> QED BY <1>1, <1>2, <1>3, <1>4, <1>5 DEF Typed

LEMMA Gone ==
    ASSUME Typed, NEW w \in Workers, NEW p, Goto(w, p)
    PROVE  Keeps(w, p) /\ answer' = answer
<1> DEFINE j == [job[w] EXCEPT !.pc = p]
           R == [pc : {p}, op : {job[w].op}, u : {job[w].u}, f : {job[w].f},
                 n : Nat, todo : SUBSET Files]
<1>1. job[w] \in Job
  BY DEF Typed
<1>2. j.n = job[w].n /\ j \in R
  BY <1>1 DEF Job
<1>3. job' = [job EXCEPT ![w] = j] /\ answer' = answer
  BY DEF Goto, Move
<1> HIDE DEF j
<1>4. job'[w] = j
  BY <1>3 DEF Typed
<1> QED BY <1>2, <1>3, <1>4 DEF Keeps, Goes

LEMMA Ended ==
    ASSUME Typed, NEW w \in Workers, NEW c, Finish(w, c)
    PROVE  Ends(w) /\ Says(w, c)
<1>1. job' = [job EXCEPT ![w] = Idle] /\ answer' = [answer EXCEPT ![w] = c]
  BY DEF Finish, Move
<1>2. answer' = [v \in Workers |-> answer'[v]]
  BY <1>1 DEF Typed
<1> QED BY <1>1, <1>2 DEF Ends, Says

LEMMA Replied ==
    ASSUME Typed, NEW w \in Workers, Reply(w)
    PROVE  Ends(w) /\ Says(w, "ok")
BY Ended DEF Reply

(* The moves that remember a number as well. *)
LEMMA Noted ==
    ASSUME Typed, NEW w \in Workers, NEW k \in Nat, NEW p,
           Move(w, [job[w] EXCEPT !.n = k, !.pc = p])
    PROVE  Goes(w, {p}) /\ job'[w].n = k
<1> DEFINE j == [job[w] EXCEPT !.n = k, !.pc = p]
           R == [pc : {p}, op : {job[w].op}, u : {job[w].u}, f : {job[w].f},
                 n : Nat, todo : SUBSET Files]
<1>1. job[w] \in Job
  BY DEF Typed
<1>2. j.n = k /\ j \in R
  BY <1>1 DEF Job
<1>3. job' = [job EXCEPT ![w] = j]
  BY DEF Move
<1> HIDE DEF j
<1>4. job'[w] = j
  BY <1>3 DEF Typed
<1> QED BY <1>2, <1>3, <1>4 DEF Goes

LEMMA GoneFacts ==
    ASSUME Typed, NEW w \in Workers
    PROVE  \A p : Goto(w, p) =>
              /\ job'[w].pc = p /\ job'[w].op = job[w].op /\ job'[w].u = job[w].u
              /\ job'[w].f = job[w].f /\ job'[w].n = job[w].n
              /\ Others(w) /\ answer' = answer
<1>1. SUFFICES ASSUME NEW p, Goto(w, p)
               PROVE  /\ job'[w].pc = p /\ job'[w].op = job[w].op /\ job'[w].u = job[w].u
                      /\ job'[w].f = job[w].f /\ job'[w].n = job[w].n
                      /\ Others(w) /\ answer' = answer
  OBVIOUS
<1>2. Goes(w, {p}) /\ job'[w].n = job[w].n /\ answer' = answer
  BY <1>1, Gone DEF Keeps
<1>3. job'[w].pc \in {p}
  BY <1>2, GoesFacts
<1> QED BY <1>2, <1>3, GoesFacts

LEMMA NotedFacts ==
    ASSUME Typed, NEW w \in Workers, NEW k \in Nat, NEW p,
           Move(w, [job[w] EXCEPT !.n = k, !.pc = p])
    PROVE  /\ job'[w].pc = p /\ job'[w].op = job[w].op /\ job'[w].u = job[w].u
           /\ job'[w].f = job[w].f /\ job'[w].n = k /\ Others(w)
<1>1. Goes(w, {p}) /\ job'[w].n = k
  BY Noted
<1>2. job'[w].pc \in {p}
  BY <1>1, GoesFacts
<1> QED BY <1>1, <1>2, GoesFacts

LEMMA EndsFacts ==
    ASSUME Typed, NEW w \in Workers, Ends(w)
    PROVE  job'[w] = Idle /\ Others(w) /\ job' \in [Workers -> Job]
BY IdleJob DEF Typed, Ends, Others

(* What a worker at a step is working on. *)
LEMMA Busy ==
    ASSUME Typed, NEW w \in Workers, job[w].pc # "idle"
    PROVE  /\ job[w].u \in Users /\ job[w].f \in Files /\ up
           /\ job[w].op \in Ops /\ job[w].op \in AllOps
           /\ job[w].pc \in StepsOf[job[w].op]
BY BoardAssumption DEF Typed, InOrder, Idle

LEMMA OpOf ==
    ASSUME Typed, NEW w \in Workers
    PROVE  /\ job[w].pc \in ShareSteps => job[w].op = "share"
           /\ job[w].pc \in CancelSteps => job[w].op = "cancel"
           /\ job[w].pc \in PvSteps => job[w].op = "pv"
           /\ job[w].pc \in DelSteps => job[w].op = "del"
           /\ job[w].pc \in CountSteps => job[w].op \in {"count", "list"}
           /\ job[w].pc = "list_select" => job[w].op = "list"
           /\ job[w].pc \in RankSteps => job[w].op = "rank"
<1>1. CASE job[w].pc = "idle"
  BY <1>1 DEF ShareSteps, CancelSteps, PvSteps, DelSteps, CountSteps, RankSteps
<1>2. CASE job[w].pc # "idle"
  BY <1>2, Busy DEF AllOps, StepsOf, ShareSteps, CancelSteps, PvSteps, DelSteps,
     CountSteps, ListSteps, RankSteps
<1> QED BY <1>1, <1>2

LEMMA StepOf ==
    ASSUME Typed, NEW w \in Workers
    PROVE  /\ job[w].op = "pv" => job[w].pc \in PvSteps
           /\ job[w].op = "rank" => job[w].pc \in RankSteps
           /\ job[w].op \in {"count", "list"} => job[w].pc \in ListSteps
<1>1. job[w] = Idle \/ job[w].pc \in StepsOf[job[w].op]
  BY DEF Typed, InOrder
<1>2. Idle.op = "none"
  BY DEF Idle
<1> QED BY <1>1, <1>2 DEF StepsOf, CountSteps, ListSteps

(* Every step of a request ends it, or leads to another step of it. *)
LEMMA GoesMore ==
    ASSUME NEW w, NEW p, NEW ps, Goes(w, {p}), p \in ps
    PROVE  Goes(w, ps)
<1>1. PICK j : j = job'[w] /\ job' = [job EXCEPT ![w] = j]
               /\ j \in [pc : {p}, op : {job[w].op}, u : {job[w].u},
                         f : {job[w].f}, n : Nat, todo : SUBSET Files]
  BY DEF Goes
<1>2. j \in [pc : ps, op : {job[w].op}, u : {job[w].u},
             f : {job[w].f}, n : Nat, todo : SUBSET Files]
  BY <1>1
<1> QED BY <1>1, <1>2 DEF Goes

LEMMA Onward ==
    ASSUME Typed, NEW w \in Workers, NEW ps
    PROVE  \A p : Goto(w, p) /\ p \in ps => Goes(w, ps) /\ answer' = answer
BY Gone, GoesMore DEF Keeps

LEMMA ShareMoves ==
    ASSUME Typed, NEW w \in Workers, handleShareFile(w)
    PROVE  /\ job[w].op = "share" /\ job[w].pc \in ShareSteps
           /\ Ends(w) \/ (Goes(w, ShareSteps) /\ answer' = answer)
<1>1. job[w].pc \in ShareSteps
  BY DEF handleShareFile, ShareExist, ShareRecord, HadZset, HadHash, SetStatus,
         ShareInsert, CacheIncrCount, ShareZset, ShareHash, At, ShareSteps
<1>2. \A p : Goto(w, p) /\ p \in ShareSteps => Goes(w, ShareSteps) /\ answer' = answer
  BY Onward
<1>3. \A c : Finish(w, c) => Ends(w)
  BY Ended
<1>4. Ends(w) \/ (Goes(w, ShareSteps) /\ answer' = answer)
  BY <1>2, <1>3 DEF handleShareFile, ShareExist, ShareRecord, HadZset, HadHash, SetStatus,
         ShareInsert, CacheIncrCount, ShareZset, ShareHash, ShareSteps
<1> QED BY <1>1, <1>4, OpOf

LEMMA CancelMoves ==
    ASSUME Typed, NEW w \in Workers, handleCancelShareFile(w)
    PROVE  /\ job[w].op = "cancel" /\ job[w].pc \in CancelSteps
           /\ Ends(w) \/ (Goes(w, CancelSteps) /\ answer' = answer)
<1>1. job[w].pc \in CancelSteps
  BY DEF handleCancelShareFile, SetStatus, CacheDecrCount, CancelRows, CancelZset,
         CancelHash, At, CancelSteps
<1>2. \A p : Goto(w, p) /\ p \in CancelSteps => Goes(w, CancelSteps) /\ answer' = answer
  BY Onward
<1>3. \A c : Finish(w, c) => Ends(w)
  BY Ended
<1>4. Ends(w) \/ (Goes(w, CancelSteps) /\ answer' = answer)
  BY <1>2, <1>3 DEF handleCancelShareFile, SetStatus, CacheDecrCount, CancelRows,
         CancelZset, CancelHash, CancelSteps, Reply
<1> QED BY <1>1, <1>4, OpOf

LEMMA PvMoves ==
    ASSUME Typed, NEW w \in Workers, handlePvFile(w)
    PROVE  /\ job[w].op = "pv" /\ job[w].pc \in PvSteps
           /\ Ends(w) \/ (Goes(w, PvSteps) /\ answer' = answer)
<1>1. job[w].pc \in PvSteps
  BY DEF handlePvFile, PvRead, PvUpdate, PvCommit, PvExist, PvIncr, PvAdd, PvHash,
         At, PvSteps
<1>2. \A p : Goto(w, p) /\ p \in PvSteps => Goes(w, PvSteps) /\ answer' = answer
  BY Onward
<1>3. \A c : Finish(w, c) => Ends(w)
  BY Ended
<1>4. CASE PvRead(w)
  <2>1. CASE Reply(w)
    BY <1>1, <1>3, <2>1, OpOf DEF Reply
  <2>2. CASE ~Reply(w)
    <3>1. PICK r \in SharesOf(job[w].f) : Move(w, [job[w] EXCEPT !.n = r.pv, !.pc = "pv_update"])
      BY <1>4, <2>2 DEF PvRead
    <3>2. r.pv \in Nat
      BY DEF Typed, TypeOK, Row, SharesOf
    <3>3. Goes(w, {"pv_update"}) /\ answer' = answer
      BY <1>4, <2>2, <3>1, <3>2, Noted DEF PvRead
    <3>4. Goes(w, PvSteps)
      BY <3>3, GoesMore DEF PvSteps
    <3> QED BY <1>1, <3>3, <3>4, OpOf
  <2> QED BY <2>1, <2>2
<1>5. CASE ~PvRead(w)
  <2>1. Ends(w) \/ (Goes(w, PvSteps) /\ answer' = answer)
    BY <1>2, <1>3, <1>5 DEF handlePvFile, PvUpdate, PvCommit, PvExist, PvIncr, PvAdd,
           PvHash, PvSteps, Reply
  <2> QED BY <1>1, <2>1, OpOf
<1> QED BY <1>4, <1>5

LEMMA DelMoves ==
    ASSUME Typed, NEW w \in Workers, handleDeleteFile(w)
    PROVE  /\ job[w].op = "del" /\ job[w].pc \in DelSteps
           /\ Ends(w) \/ (Goes(w, DelSteps) /\ answer' = answer)
<1>1. job[w].pc \in DelSteps
  BY DEF handleDeleteFile, DelExist, DelStatus, DelRows, CacheDecrCount, DelZset,
         DelHash, DelOwn, At, DelSteps
<1>2. \A p : Goto(w, p) /\ p \in DelSteps => Goes(w, DelSteps) /\ answer' = answer
  BY Onward
<1>3. \A c : Finish(w, c) => Ends(w)
  BY Ended
<1>4. Move(w, [job[w] EXCEPT !.n = 1, !.pc = "del_rows"]) => Goes(w, DelSteps)
  <2>1. SUFFICES ASSUME Move(w, [job[w] EXCEPT !.n = 1, !.pc = "del_rows"])
                 PROVE  Goes(w, DelSteps)
    OBVIOUS
  <2>2. Goes(w, {"del_rows"})
    BY <2>1, Noted
  <2> QED BY <2>2, GoesMore DEF DelSteps
<1>5. Ends(w) \/ (Goes(w, DelSteps) /\ answer' = answer)
  BY <1>2, <1>3, <1>4 DEF handleDeleteFile, DelExist, DelStatus, DelRows,
         CacheDecrCount, DelZset, DelHash, DelOwn, DelSteps
<1> QED BY <1>1, <1>5, OpOf

(* The readers; a ranking goes from file to file. *)
RanksOn(w) ==
    /\ \E f \in Files :
          job'[w] \in [pc : RankSteps, op : {job[w].op}, u : {job[w].u}, f : {f},
                      n : Nat, todo : SUBSET Files]
    /\ job' = [job EXCEPT ![w] = job'[w]]
CountsOn(w) == Goes(w, StepsOf[job[w].op])
Reads(w) == \/ Ends(w)
            \/ job[w].op \in {"count", "list"} /\ CountsOn(w) /\ answer' = answer
            \/ job[w].op = "rank" /\ RanksOn(w) /\ answer' = answer

LEMMA RankMoved ==
    ASSUME Typed, NEW w \in Workers, NEW f \in Files, NEW p \in RankSteps,
           NEW t \in SUBSET Files, Move(w, [job[w] EXCEPT !.pc = p, !.f = f, !.todo = t])
    PROVE  RanksOn(w)
<1> DEFINE j == [job[w] EXCEPT !.pc = p, !.f = f, !.todo = t]
<1>1. job[w] \in Job
  BY DEF Typed
<1>2. j \in [pc : RankSteps, op : {job[w].op}, u : {job[w].u}, f : {f},
             n : Nat, todo : SUBSET Files]
  BY <1>1 DEF Job
<1>3. job' = [job EXCEPT ![w] = j]
  BY DEF Move
<1> HIDE DEF j
<1>4. job'[w] = j
  BY <1>3 DEF Typed
<1> QED BY <1>2, <1>3, <1>4 DEF RanksOn

LEMMA ReaderMoves ==
    ASSUME Typed, NEW w \in Workers, ApiSharefile(w)
    PROVE  /\ \/ job[w].op \in {"count", "list"} /\ job[w].pc \in ListSteps
              \/ job[w].op = "rank" /\ job[w].pc \in RankSteps
           /\ job[w].op = "count" => job[w].pc \in CountSteps
           /\ Reads(w)
<1>1. /\ \/ job[w].op \in {"count", "list"} /\ job[w].pc \in ListSteps
         \/ job[w].op = "rank" /\ job[w].pc \in RankSteps
      /\ job[w].op = "count" => job[w].pc \in CountSteps
  BY OpOf DEF ApiSharefile, CountGet, CountDb, CountSet, ListSelect, RankRange,
       RankName, RankScore, At, CountSteps, ListSteps, RankSteps
<1> SUFFICES Reads(w)
  BY <1>1
<1>2. \A c : Finish(w, c) => Ends(w)
  BY Ended
<1>3. CASE CountGet(w) \/ CountDb(w) \/ CountSet(w) \/ ListSelect(w)
  <2>1. job[w].op \in {"count", "list"}
    BY <1>1, <1>3 DEF CountGet, CountDb, CountSet, ListSelect, At, RankSteps
  <2>2. DEFINE ps == StepsOf[job[w].op]
  <2>3. /\ "count_db" \in ps /\ "count_set" \in ps
        /\ job[w].op = "list" => "list_select" \in ps
    BY <2>1 DEF StepsOf, CountSteps, ListSteps
  <2>4. \A p : Goto(w, p) /\ p \in ps => Goes(w, ps) /\ answer' = answer
    BY Onward
  <2>5. CASE CountDb(w)
    <3>1. CASE Fails(w) /\ Finish(w, "fail")
      BY <1>2, <3>1 DEF Reads
    <3>2. CASE /\ Move(w, [job[w] EXCEPT !.n = Cardinality(share_file_list), !.pc = "count_set"])
               /\ answer' = answer
      <4>1. Cardinality(share_file_list) \in Nat
        BY FS_CardinalityType DEF Typed
      <4>2. Goes(w, {"count_set"})
        BY <3>2, <4>1, Noted
      <4>3. Goes(w, ps)
        BY <4>2, <2>3, GoesMore
      <4> QED BY <2>1, <3>2, <4>3 DEF Reads, CountsOn
    <3> QED BY <2>5, <3>1, <3>2 DEF CountDb
  <2> HIDE DEF ps
  <2>6. CASE ~CountDb(w)
    <3>1. Ends(w) \/ (Goes(w, ps) /\ answer' = answer)
      BY <1>2, <1>3, <2>3, <2>4, <2>6 DEF CountGet, CountSet, ListSelect, CountKnown
    <3> QED BY <2>1, <3>1 DEF Reads, CountsOn, ps
  <2> QED BY <2>5, <2>6
<1>4. CASE RankRange(w) \/ RankName(w) \/ RankScore(w)
  <2>1. job[w].op = "rank" /\ job[w].f \in Files /\ job[w] \in Job
    BY <1>1, <1>4, Busy DEF RankRange, RankName, RankScore, At, ListSteps, Typed
  <2>2. job[w].todo \in SUBSET Files /\ "rank_name" \in RankSteps /\ "rank_score" \in RankSteps
    BY <2>1 DEF Job, RankSteps
  <2>3. CASE RankRange(w)
    <3> DEFINE t == {f \in Files : zset[f] # NoScore}
    <3>1. [job[w] EXCEPT !.pc = "rank_name", !.todo = t]
             = [job[w] EXCEPT !.pc = "rank_name", !.f = job[w].f, !.todo = t]
      BY <2>1 DEF Job
    <3>2. \/ Finish(w, "fail")
          \/ Move(w, [job[w] EXCEPT !.pc = "rank_name", !.todo = t]) /\ answer' = answer
      BY <2>3 DEF RankRange
    <3>3. t \in SUBSET Files
      OBVIOUS
    <3> HIDE DEF t
    <3>4. Finish(w, "fail") \/ (RanksOn(w) /\ answer' = answer)
      BY <2>1, <2>2, <3>1, <3>2, <3>3, RankMoved
    <3> QED BY <1>2, <2>1, <3>4 DEF Reads
  <2>4. CASE RankName(w)
    <3>1. CASE \E c : Finish(w, c)
      BY <1>2, <3>1 DEF Reads
    <3>2. CASE ~ \E c : Finish(w, c)
      <4>1. PICK f \in job[w].todo :
               Move(w, [job[w] EXCEPT !.pc = "rank_score", !.f = f]) /\ answer' = answer
        BY <2>4, <3>2 DEF RankName
      <4>2. [job[w] EXCEPT !.pc = "rank_score", !.f = f]
               = [job[w] EXCEPT !.pc = "rank_score", !.f = f, !.todo = job[w].todo]
        BY <2>1 DEF Job
      <4>3. RanksOn(w)
        BY <2>2, <4>1, <4>2, RankMoved
      <4> QED BY <2>1, <4>1, <4>3 DEF Reads
    <3> QED BY <3>1, <3>2
  <2>5. CASE RankScore(w)
    <3> DEFINE t == job[w].todo \ {job[w].f}
    <3>1. [job[w] EXCEPT !.pc = "rank_name", !.todo = @ \ {job[w].f}]
             = [job[w] EXCEPT !.pc = "rank_name", !.f = job[w].f, !.todo = t]
      BY <2>1 DEF Job
    <3>2. \/ Finish(w, "fail")
          \/ /\ Move(w, [job[w] EXCEPT !.pc = "rank_name", !.todo = @ \ {job[w].f}])
             /\ answer' = answer
      BY <2>5 DEF RankScore
    <3>3. t \in SUBSET Files
      BY <2>2
    <3> HIDE DEF t
    <3>4. Finish(w, "fail") \/ (RanksOn(w) /\ answer' = answer)
      BY <2>1, <2>2, <3>1, <3>2, <3>3, RankMoved
    <3> QED BY <1>2, <2>1, <3>4 DEF Reads
  <2> QED BY <1>4, <2>3, <2>4, <2>5
<1> QED BY <1>1, <1>3, <1>4 DEF ApiSharefile

-------------------------------------------------------------------------------
(* Failures only add up. *)
LEMMA Tallies ==
    ASSUME Typed, NEW w \in Workers, Work(w)
    PROVE  (Works \/ Fails(w)) /\ up' = up
<1>1. CASE handleShareFile(w)
  BY <1>1 DEF handleShareFile, ShareExist, ShareRecord, HadZset, HadHash, SetStatus,
         ShareInsert, CacheIncrCount, ShareZset, ShareHash
<1>2. CASE handleCancelShareFile(w)
  BY <1>2 DEF handleCancelShareFile, SetStatus, CacheDecrCount, CancelRows, CancelZset,
         CancelHash
<1>3. CASE handlePvFile(w)
  BY <1>3 DEF handlePvFile, PvRead, PvUpdate, PvCommit, PvExist, PvIncr, PvAdd, PvHash
<1>4. CASE handleDeleteFile(w)
  BY <1>4 DEF handleDeleteFile, DelExist, DelStatus, DelRows, CacheDecrCount, DelZset,
         DelHash, DelOwn
<1>5. CASE ApiSharefile(w)
  BY <1>5 DEF ApiSharefile, CountGet, CountDb, CountSet, ListSelect, RankRange,
       RankName, RankScore
<1> QED BY <1>1, <1>2, <1>3, <1>4, <1>5 DEF Work

LEMMA FaultFacts ==
    ASSUME Typed, NEW kind, NEW ws, Fault(kind, ws)
    PROVE  /\ faults' = faults + 1 /\ faults' \in Nat /\ faults' # 0
           /\ kind \in failed' /\ failed \subseteq failed' /\ failed' # {}
           /\ \A w \in ws : job[w].op \in failed'
BY DEF Fault, Typed

LEMMA WorksFacts ==
    ASSUME Works
    PROVE  faults' = faults /\ failed' = failed /\ requests' = requests
BY DEF Works, tally

LEMMA NotBoth ==
    ASSUME Typed, NEW w
    PROVE  ~(Works /\ Fails(w))
BY WorksFacts, FaultFacts DEF Fails, Typed

(* What a step changes belongs to the file of its request; the readers     *)
(* change nothing but the counter.                                         *)
Same(f) == /\ SharesOf(f)' = SharesOf(f)
           /\ zset'[f] = zset[f]
           /\ f \in hash' <=> f \in hash
           /\ \A u \in Users : shared_status'[<<u, f>>] = shared_status[<<u, f>>]

BoardTyped ==
    /\ share_file_list \subseteq Row /\ IsFiniteSet(share_file_list)
    /\ shared_status \in [Users \X Files -> {NoRow, 0, 1}]
    /\ zset \in [Files -> Nat \cup {NoScore}]
    /\ hash \subseteq Files
    /\ count \in Int

LEMMA OwnRows ==
    ASSUME Typed, NEW u, NEW f
    PROVE  /\ IsFiniteSet(SharesOf(f)) /\ SharesOf(f) \subseteq share_file_list
           /\ IsFiniteSet(OwnShare(u, f)) /\ OwnShare(u, f) \subseteq SharesOf(f)
           /\ Cardinality(OwnShare(u, f)) \in Nat
<1>1. SharesOf(f) \subseteq share_file_list /\ OwnShare(u, f) \subseteq SharesOf(f)
  BY DEF SharesOf, OwnShare
<1>2. IsFiniteSet(SharesOf(f)) /\ IsFiniteSet(OwnShare(u, f))
  BY <1>1, FS_Subset DEF Typed
<1> QED BY <1>1, <1>2, FS_CardinalityType

(* The row handleShareFile inserts. *)
NewRow(w) == [id |-> Cardinality(OwnShare(job[w].u, job[w].f)),
              u |-> job[w].u, f |-> job[w].f, pv |-> 0]

LEMMA NewRowType ==
    ASSUME Typed, NEW w \in Workers, job[w].pc # "idle"
    PROVE  /\ NewRow(w) \in Row /\ NewRow(w).u = job[w].u /\ NewRow(w).f = job[w].f
           /\ NewRow(w).pv = 0
<1>1. Cardinality(OwnShare(job[w].u, job[w].f)) \in Nat
  BY OwnRows
<1> QED BY <1>1, Busy DEF NewRow, Row

LEMMA ShareFrame ==
    ASSUME Typed, NEW w \in Workers, handleShareFile(w)
    PROVE  /\ BoardTyped' /\ pvLock' = pvLock
           /\ \A f \in Files : f # job[w].f => Same(f)
<1>1. BoardTyped /\ job[w].u \in Users /\ job[w].f \in Files
  BY Busy, ShareMoves DEF Typed, TypeOK, BoardTyped, ShareSteps
<1>2. CASE ShareInsert(w, "share_count")
  <2>1. /\ share_file_list' = share_file_list \/ share_file_list' = share_file_list \cup {NewRow(w)}
        /\ UNCHANGED <<shared_status, zset, hash, count, pvLock>>
    BY <1>2 DEF ShareInsert, NewRow
  <2>2. NewRow(w) \in Row /\ NewRow(w).f = job[w].f
    BY <1>2, NewRowType DEF ShareInsert, At
  <2>3. share_file_list' \subseteq Row /\ IsFiniteSet(share_file_list')
    BY <1>1, <2>1, <2>2, FS_AddElement DEF BoardTyped
  <2> QED BY <1>1, <2>1, <2>2, <2>3 DEF BoardTyped, Same, SharesOf
<1>3. CASE ~ShareInsert(w, "share_count")
  <2>1. /\ share_file_list' = share_file_list /\ pvLock' = pvLock
        /\ shared_status' \in {shared_status, [shared_status EXCEPT ![Key(w)] =
                                  IF @ = NoRow THEN NoRow ELSE 1]}
        /\ zset' \in {zset, [zset EXCEPT ![job[w].f] = 0]}
        /\ hash' \in {hash, hash \cup {job[w].f}}
        /\ count' \in {count, count + 1}
    BY <1>3 DEF handleShareFile, ShareExist, ShareRecord, HadZset, HadHash, SetStatus,
         ShareInsert, CacheIncrCount, ShareZset, ShareHash, board, ZsetAdd, Hset
  <2>2. BoardTyped'
    BY <1>1, <2>1 DEF BoardTyped, Key
  <2> QED BY <1>1, <2>1, <2>2 DEF BoardTyped, Same, SharesOf, Key
<1> QED BY <1>2, <1>3

LEMMA CancelFrame ==
    ASSUME Typed, NEW w \in Workers, handleCancelShareFile(w)
    PROVE  /\ BoardTyped' /\ pvLock' = pvLock
           /\ \A f \in Files : f # job[w].f => Same(f)
<1>1. BoardTyped /\ job[w].u \in Users /\ job[w].f \in Files
  BY Busy, CancelMoves DEF Typed, TypeOK, BoardTyped, CancelSteps
<1>2. /\ share_file_list' \in {share_file_list,
            share_file_list \ OwnShare(job[w].u, job[w].f)}
      /\ pvLock' = pvLock
      /\ shared_status' \in {shared_status, [shared_status EXCEPT ![Key(w)] =
                                IF @ = NoRow THEN NoRow ELSE 0]}
      /\ zset' \in {zset, [zset EXCEPT ![job[w].f] = NoScore]}
      /\ hash' \in {hash, hash \ {job[w].f}}
      /\ count' \in {count, count - 1, 0}
  BY DEF handleCancelShareFile, SetStatus, CacheDecrCount, CancelRows, CancelZset,
         CancelHash, ZsetZrem, Hdel
<1>3. IsFiniteSet(share_file_list')
  BY <1>1, <1>2, FS_Subset DEF BoardTyped
<1>4. BoardTyped'
  BY <1>1, <1>2, <1>3 DEF BoardTyped, Key
<1> QED BY <1>1, <1>2, <1>4 DEF BoardTyped, Same, SharesOf, OwnShare, Key

LEMMA DelFrame ==
    ASSUME Typed, NEW w \in Workers, handleDeleteFile(w)
    PROVE  /\ BoardTyped' /\ pvLock' = pvLock
           /\ \A f \in Files : f # job[w].f => Same(f)
<1>1. BoardTyped /\ job[w].u \in Users /\ job[w].f \in Files
  BY Busy, DelMoves DEF Typed, TypeOK, BoardTyped, DelSteps
<1>2. /\ share_file_list' \in {share_file_list,
            share_file_list \ OwnShare(job[w].u, job[w].f)}
      /\ pvLock' = pvLock
      /\ shared_status' \in {shared_status, [shared_status EXCEPT ![Key(w)] = NoRow]}
      /\ zset' \in {zset, [zset EXCEPT ![job[w].f] = NoScore]}
      /\ hash' \in {hash, hash \ {job[w].f}}
      /\ count' \in {count, count - 1, 0}
  BY DEF handleDeleteFile, DelExist, DelStatus, DelRows, CacheDecrCount, DelZset,
         DelHash, DelOwn, board, ZsetZrem, Hdel
<1>3. IsFiniteSet(share_file_list')
  BY <1>1, <1>2, FS_Subset DEF BoardTyped
<1>4. BoardTyped'
  BY <1>1, <1>2, <1>3 DEF BoardTyped, Key
<1> QED BY <1>1, <1>2, <1>4 DEF BoardTyped, Same, SharesOf, OwnShare, Key

LEMMA ReaderFrame ==
    ASSUME Typed, NEW w \in Workers, ApiSharefile(w)
    PROVE  /\ BoardTyped' /\ pvLock' = pvLock
           /\ \A f \in Files : Same(f)
           /\ UNCHANGED <<share_file_list, shared_status, zset, hash>>
           /\ count' = count \/ (At(w, "count_set") /\ count' = job[w].n /\ Works)
<1>1. BoardTyped
  BY DEF Typed, TypeOK, BoardTyped
<1>2. /\ UNCHANGED <<share_file_list, shared_status, zset, hash, pvLock>>
      /\ count' = count \/ (At(w, "count_set") /\ count' = job[w].n /\ Works)
  BY DEF ApiSharefile, CountGet, CountDb, CountSet, ListSelect, RankRange,
         RankName, RankScore, board
<1>3. job[w].n \in Nat
  BY DEF Typed, Job
<1>4. BoardTyped'
  BY <1>1, <1>2, <1>3 DEF BoardTyped
<1> QED BY <1>2, <1>4 DEF Same, SharesOf

(* The table after the commit of a download. *)
Bump(w, r) == IF r.f = job[w].f THEN [r EXCEPT !.pv = job[w].n + 1] ELSE r
Bumped(w)  == {Bump(w, r) : r \in share_file_list}

LEMMA BumpRow ==
    ASSUME Typed, NEW w \in Workers, NEW r \in share_file_list
    PROVE  /\ Bump(w, r) \in Row /\ Bump(w, r).u = r.u /\ Bump(w, r).f = r.f
           /\ Bump(w, r).pv = IF r.f = job[w].f THEN job[w].n + 1 ELSE r.pv
           /\ r.f # job[w].f => Bump(w, r) = r
<1>1. r \in Row /\ job[w].n \in Nat
  BY DEF Typed, TypeOK, Job
<1> QED BY <1>1 DEF Bump, Row

LEMMA BumpedTable ==
    ASSUME Typed, NEW w \in Workers
    PROVE  Bumped(w) \subseteq Row /\ IsFiniteSet(Bumped(w))
<1>1. Bumped(w) \subseteq Row
  BY BumpRow DEF Bumped
<1> DEFINE b == [r \in share_file_list |-> Bump(w, r)]
<1>2. b \in Surjection(share_file_list, Bumped(w))
  BY DEF Surjection, Bumped
<1>3. IsFiniteSet(Bumped(w))
  BY <1>2, FS_Surjection DEF Typed
<1> QED BY <1>1, <1>3

LEMMA PvTable ==
    ASSUME NEW w \in Workers, handlePvFile(w)
    PROVE  /\ \/ share_file_list' = share_file_list
              \/ share_file_list' = Bumped(w) /\ At(w, "pv_commit") /\ Works
           /\ UNCHANGED <<shared_status, count>>
BY DEF handlePvFile, PvRead, PvUpdate, PvCommit, PvExist, PvIncr, PvAdd, PvHash,
       board, Bumped, Bump

LEMMA PvFrame ==
    ASSUME Typed, NEW w \in Workers, handlePvFile(w)
    PROVE  /\ BoardTyped'
           /\ \A f \in Files : f # job[w].f => Same(f)
<1>1. BoardTyped /\ job[w].u \in Users /\ job[w].f \in Files /\ job[w].n \in Nat
  BY Busy, PvMoves DEF Typed, TypeOK, BoardTyped, PvSteps, Job
<1>2. /\ zset' \in {zset, [zset EXCEPT ![job[w].f] = IF @ = NoScore THEN 1 ELSE @ + 1],
                    [zset EXCEPT ![job[w].f] = job[w].n + 1]}
      /\ hash' \in {hash, hash \cup {job[w].f}}
  BY DEF handlePvFile, PvRead, PvUpdate, PvCommit, PvExist, PvIncr, PvAdd, PvHash,
         board, ZsetIncr, ZsetAdd, Hset
<1>3. share_file_list' \subseteq Row /\ IsFiniteSet(share_file_list')
  BY <1>1, PvTable, BumpedTable DEF BoardTyped
<1>4. BoardTyped'
  BY <1>1, <1>2, <1>3, PvTable DEF BoardTyped
<1>5. ASSUME NEW f \in Files, f # job[w].f PROVE SharesOf(f)' = SharesOf(f)
  BY <1>5, PvTable, BumpRow DEF SharesOf, Bumped
<1> QED BY <1>1, <1>2, <1>4, <1>5, PvTable DEF BoardTyped, Same

-------------------------------------------------------------------------------
(* A download that is between its select and its commit has locked the     *)
(* rows of its file, and nobody else locks them.                           *)
LockSteps == {"pv_update", "pv_commit"}
Locks ==
    /\ pvLock \in [Files -> Workers \cup {NoWorker}]
    /\ \A f \in Files : pvLock[f] # NoWorker =>
          job[pvLock[f]].pc \in LockSteps /\ job[pvLock[f]].f = f
    /\ \A w \in Workers : job[w].pc \in LockSteps => pvLock[job[w].f] = w

(* What becomes of the job of a worker that takes a step. *)
GoesOn(w) == /\ job'[w].op = job[w].op /\ job'[w].u = job[w].u
             /\ job'[w].pc \in StepsOf[job[w].op] /\ job'[w].f \in Files
             /\ job[w].op # "rank" => job'[w].f = job[w].f
             /\ answer' = answer

LEMMA WorkMoves ==
    ASSUME Typed, NEW w \in Workers, Work(w)
    PROVE  /\ job[w].pc # "idle" /\ Others(w) /\ job' \in [Workers -> Job]
           /\ (Ends(w) /\ job'[w] = Idle) \/ GoesOn(w)
<1>1. StepsOf["share"] = ShareSteps /\ StepsOf["cancel"] = CancelSteps
      /\ StepsOf["pv"] = PvSteps /\ StepsOf["del"] = DelSteps
      /\ StepsOf["count"] = CountSteps /\ StepsOf["list"] = ListSteps
      /\ StepsOf["rank"] = RankSteps
  BY DEF StepsOf
<1>2. ShareSteps \subseteq Pcs /\ CancelSteps \subseteq Pcs /\ PvSteps \subseteq Pcs
      /\ DelSteps \subseteq Pcs /\ ListSteps \subseteq Pcs /\ RankSteps \subseteq Pcs
      /\ CountSteps \subseteq Pcs
  BY DEF Pcs, CountSteps, ListSteps
<1>3. job[w].pc # "idle"
  <2>1. "idle" \notin ShareSteps \cup CancelSteps \cup PvSteps \cup DelSteps
                      \cup ListSteps \cup RankSteps
    BY DEF ShareSteps, CancelSteps, PvSteps, DelSteps, ListSteps, RankSteps
  <2> QED BY <2>1, ShareMoves, CancelMoves, PvMoves, DelMoves, ReaderMoves DEF Work
<1>4. CASE Ends(w)
  BY <1>3, <1>4, EndsFacts
<1>5. ASSUME NEW ps, ps \subseteq Pcs, ps = StepsOf[job[w].op], Goes(w, ps), answer' = answer
      PROVE  Others(w) /\ job' \in [Workers -> Job] /\ GoesOn(w)
  BY <1>3, <1>5, GoesFacts, Busy DEF GoesOn
<1>6. CASE RanksOn(w) /\ job[w].op = "rank" /\ answer' = answer
  <2> DEFINE j == job'[w]
  <2>1. PICK f \in Files : /\ j \in [pc : RankSteps, op : {job[w].op}, u : {job[w].u},
                                     f : {f}, n : Nat, todo : SUBSET Files]
                          /\ job' = [job EXCEPT ![w] = j]
    BY <1>6 DEF RanksOn
  <2> HIDE DEF j
  <2>2. job[w].op \in AllOps \cup {"none"} /\ job[w].u \in Users \cup {"none"}
    BY DEF Typed, Job
  <2>3. j \in Job
    BY <1>2, <2>1, <2>2 DEF Job
  <2>4. j.op = job[w].op /\ j.u = job[w].u /\ j.f \in Files /\ j.pc \in RankSteps
    BY <2>1
  <2>5. Others(w) /\ job' \in [Workers -> Job]
    BY <2>1, <2>3 DEF Typed, Others
  <2>6. job'[w] = j
    BY DEF j
  <2> QED BY <1>1, <1>3, <1>6, <2>1, <2>4, <2>5, <2>6 DEF GoesOn
<1>7. CASE ~Ends(w) /\ ~(RanksOn(w) /\ job[w].op = "rank" /\ answer' = answer)
  <2> SUFFICES Others(w) /\ job' \in [Workers -> Job] /\ GoesOn(w)
    BY <1>3
  <2>1. CASE handleShareFile(w)
    BY <1>1, <1>2, <1>5, <1>7, <2>1, ShareMoves
  <2>2. CASE handleCancelShareFile(w)
    BY <1>1, <1>2, <1>5, <1>7, <2>2, CancelMoves
  <2>3. CASE handlePvFile(w)
    BY <1>1, <1>2, <1>5, <1>7, <2>3, PvMoves
  <2>4. CASE handleDeleteFile(w)
    BY <1>1, <1>2, <1>5, <1>7, <2>4, DelMoves
  <2>5. CASE ApiSharefile(w)
    BY <1>1, <1>2, <1>5, <1>7, <2>5, ReaderMoves DEF Reads, CountsOn
  <2> QED BY <2>1, <2>2, <2>3, <2>4, <2>5 DEF Work
<1> QED BY <1>4, <1>6, <1>7

LEMMA LocksKept ==
    ASSUME Typed, Locks, NEW w \in Workers, Work(w)
    PROVE  Locks'
<1>1. job[w].pc # "idle" /\ Others(w) /\ job[w].f \in Files
  BY WorkMoves, Busy
<1>2. ASSUME pvLock' = pvLock, job[w].pc \notin LockSteps, job'[w].pc \notin LockSteps
      PROVE  Locks'
  BY <1>1, <1>2 DEF Locks, Others
<1>3. LockSteps \cap (ShareSteps \cup CancelSteps \cup DelSteps \cup CountSteps
                       \cup ListSteps \cup RankSteps) = {}
      /\ Idle.pc \notin LockSteps
  BY IdleJob DEF LockSteps, ShareSteps, CancelSteps, DelSteps, CountSteps, ListSteps, RankSteps
<1>4. CASE handleShareFile(w)
  <2>1. pvLock' = pvLock /\ job[w].pc \notin LockSteps /\ job'[w].pc \notin LockSteps
    BY <1>3, <1>4, ShareMoves, ShareFrame, EndsFacts, GoesFacts
  <2> QED BY <1>2, <2>1
<1>5. CASE handleCancelShareFile(w)
  <2>1. pvLock' = pvLock /\ job[w].pc \notin LockSteps /\ job'[w].pc \notin LockSteps
    BY <1>3, <1>5, CancelMoves, CancelFrame, EndsFacts, GoesFacts
  <2> QED BY <1>2, <2>1
<1>6. CASE handleDeleteFile(w)
  <2>1. pvLock' = pvLock /\ job[w].pc \notin LockSteps /\ job'[w].pc \notin LockSteps
    BY <1>3, <1>6, DelMoves, DelFrame, EndsFacts, GoesFacts
  <2> QED BY <1>2, <2>1
<1>7. CASE ApiSharefile(w)
  <2>1. pvLock' = pvLock /\ job[w].pc \notin LockSteps
    BY <1>3, <1>7, ReaderMoves, ReaderFrame
  <2>2. job'[w] = Idle \/ job'[w].pc \in StepsOf[job[w].op]
    BY WorkMoves, <1>7 DEF Work, GoesOn
  <2>3. job'[w].pc \notin LockSteps
    BY <1>3, <1>7, <2>2, ReaderMoves DEF StepsOf
  <2> QED BY <1>2, <2>1, <2>3
<1>8. CASE handlePvFile(w)
  <2>1. \A p : Goto(w, p) => job'[w].pc = p /\ job'[w].f = job[w].f
    BY GoneFacts
  <2>2. Reply(w) => job'[w].pc = "idle"
    BY Replied, EndsFacts, IdleJob
  <2>3. CASE PvRead(w)
    <3>1. CASE Reply(w) /\ pvLock' = pvLock
      BY <1>2, <2>2, <2>3, <3>1 DEF PvRead, At, LockSteps
    <3>2. CASE ~(Reply(w) /\ pvLock' = pvLock)
      <4>1. PICK r \in SharesOf(job[w].f) : Move(w, [job[w] EXCEPT !.n = r.pv, !.pc = "pv_update"])
        BY <2>3, <3>2 DEF PvRead
      <4>2. r.pv \in Nat
        BY DEF Typed, TypeOK, Row, SharesOf
      <4>3. job'[w].pc = "pv_update" /\ job'[w].f = job[w].f
        BY <4>1, <4>2, NotedFacts
      <4>4. /\ pvLock[job[w].f] \in {w, NoWorker} /\ At(w, "pv_read")
            /\ pvLock' = [pvLock EXCEPT ![job[w].f] = w]
        BY <2>3, <3>2 DEF PvRead, Unlocked
      <4> QED BY <1>1, <4>3, <4>4, WorkersAssumption DEF Locks, Others, LockSteps, At
    <3> QED BY <3>1, <3>2
  <2>4. CASE PvUpdate(w)
    <3>1. CASE Goto(w, "pv_commit") /\ pvLock' = pvLock
      BY <1>1, <2>1, <2>4, <3>1 DEF PvUpdate, At, Locks, Others, LockSteps
    <3>2. CASE Reply(w) /\ Release(w)
      BY <1>1, <2>2, <2>4, <3>2 DEF PvUpdate, At, Locks, Others, LockSteps, Release
    <3> QED BY <2>4, <3>1, <3>2 DEF PvUpdate
  <2>5. CASE PvCommit(w)
    BY <1>1, <2>1, <2>5 DEF PvCommit, At, Locks, Others, LockSteps, Release
  <2>6. CASE PvExist(w) \/ PvIncr(w) \/ PvAdd(w) \/ PvHash(w)
    <3>1. pvLock' = pvLock /\ job[w].pc \notin LockSteps /\ job'[w].pc \notin LockSteps
      BY <2>1, <2>2, <2>6 DEF PvExist, PvIncr, PvAdd, PvHash, At, LockSteps
    <3> QED BY <1>2, <3>1
  <2> QED BY <1>8, <2>3, <2>4, <2>5, <2>6 DEF handlePvFile
<1> QED BY <1>4, <1>5, <1>6, <1>7, <1>8 DEF Work

-------------------------------------------------------------------------------
LEMMA WorkFrame ==
    ASSUME Typed, NEW w \in Workers, Work(w)
    PROVE  /\ BoardTyped'
           /\ \A f \in Files : f # job[w].f \/ job[w].op \notin Changing \cup {"pv"} => Same(f)
<1>1. CASE handleShareFile(w)
  BY <1>1, ShareFrame, ShareMoves DEF Changing
<1>2. CASE handleCancelShareFile(w)
  BY <1>2, CancelFrame, CancelMoves DEF Changing
<1>3. CASE handlePvFile(w)
  BY <1>3, PvFrame, PvMoves DEF Changing
<1>4. CASE handleDeleteFile(w)
  BY <1>4, DelFrame, DelMoves DEF Changing
<1>5. CASE ApiSharefile(w)
  BY <1>5, ReaderFrame
<1> QED BY <1>1, <1>2, <1>3, <1>4, <1>5 DEF Work

LEMMA TypedParts ==
    ASSUME Typed
    PROVE  BoardTyped /\ up \in BOOLEAN
BY DEF Typed, TypeOK, BoardTyped

(* Typed is what it says of the table, the locks, the jobs and the tally. *)
LEMMA TypedFrom ==
    ASSUME BoardTyped', Locks', up' \in BOOLEAN,
           job' \in [Workers -> Job], answer' = [w \in Workers |-> answer'[w]],
           faults' \in Nat, faults' = 0 => failed' = {}, failed' = {} => up',
           \A w \in Workers :
              \/ job'[w] = Idle
              \/ /\ job'[w].op \in Ops /\ job'[w].pc \in StepsOf[job'[w].op]
                 /\ job'[w].u \in Users /\ job'[w].f \in Files /\ up'
    PROVE  Typed'
<1>1. \A w \in Workers : InOrder(w)'
  BY DEF InOrder
<1>2. TypeOK'
  BY DEF TypeOK, BoardTyped, Locks, LockSteps
<1> QED BY <1>1, <1>2 DEF Typed, BoardTyped

LEMMA WorkTyped ==
    ASSUME Typed, Locks, NEW w \in Workers, Work(w)
    PROVE  Typed' /\ Locks'
<1>1. Locks' /\ BoardTyped' /\ up' = up /\ up \in BOOLEAN
  BY LocksKept, WorkFrame, Tallies, TypedParts
<1>2. job' \in [Workers -> Job] /\ Others(w) /\ job[w].pc # "idle"
  BY WorkMoves
<1>3. answer' = [v \in Workers |-> answer'[v]]
  BY WorkMoves DEF Ends, GoesOn, Typed
<1>4. faults' \in Nat /\ (faults' = 0 => failed' = {}) /\ (failed' = {} => up')
  <2>1. CASE Works
    BY <1>1, <2>1, WorksFacts DEF Typed
  <2>2. CASE Fails(w)
    BY <1>1, <2>2, FaultFacts DEF Fails
  <2> QED BY <2>1, <2>2, Tallies
<1>5. ASSUME NEW v \in Workers
      PROVE  \/ job'[v] = Idle
             \/ /\ job'[v].op \in Ops /\ job'[v].pc \in StepsOf[job'[v].op]
                /\ job'[v].u \in Users /\ job'[v].f \in Files /\ up'
  <2>1. CASE v = w
    BY <1>1, <1>2, <2>1, WorkMoves, Busy DEF GoesOn
  <2>2. CASE v # w
    BY <1>1, <1>2, <2>2 DEF Others, Typed, InOrder
  <2> QED BY <2>1, <2>2
<1> QED BY <1>1, <1>2, <1>3, <1>4, <1>5, TypedFrom

-------------------------------------------------------------------------------
(* The other steps: a request begins, the process dies, it starts again.   *)
Begins(w, op, u, f) ==
    /\ op \in Ops /\ u \in Users /\ f \in Files
    /\ job[w] = Idle /\ up
    /\ job'[w].pc = FirstPc[op] /\ job'[w].op = op /\ job'[w].u = u
    /\ job'[w].f = f /\ job'[w].n = 0
    /\ Others(w) /\ job' \in [Workers -> Job]
    /\ UNCHANGED <<board, pvLock, answer, up, failed, faults>>

LEMMA StartBegins ==
    ASSUME Typed, NEW w \in Workers, Start(w)
    PROVE  \E op \in Ops, u \in Users, f \in Files : Begins(w, op, u, f)
<1>1. PICK op \in Ops, u \in Users, f \in Files :
         Move(w, [Idle EXCEPT !.pc = FirstPc[op], !.op = op, !.u = u, !.f = f])
  BY DEF Start
<1> DEFINE j == [Idle EXCEPT !.pc = FirstPc[op], !.op = op, !.u = u, !.f = f]
<1>2. op \in AllOps
  BY BoardAssumption
<1>3. FirstPc[op] \in Pcs
  BY <1>2 DEF AllOps, FirstPc, Pcs, ShareSteps, CancelSteps, PvSteps, DelSteps,
     ListSteps, RankSteps
<1>4. j \in Job /\ j.pc = FirstPc[op] /\ j.op = op /\ j.u = u /\ j.f = f /\ j.n = 0
  <2>1. Idle \in Job /\ Idle.n = 0
    BY IdleJob DEF Idle
  <2>2. j.pc = FirstPc[op] /\ j.op = op /\ j.u = u /\ j.f = f /\ j.n = Idle.n
    BY <2>1 DEF Job
  <2>3. j \in Job
    BY <1>2, <1>3, <2>1 DEF Job
  <2> QED BY <2>1, <2>2, <2>3
<1>5. job' = [job EXCEPT ![w] = j]
  BY <1>1 DEF Move
<1> HIDE DEF j
<1>6. job'[w] = j /\ Others(w) /\ job' \in [Workers -> Job]
  BY <1>4, <1>5 DEF Typed, Others
<1>7. job[w] = Idle
  <2>1. job[w].pc = "idle" /\ InOrder(w)
    BY DEF Start, At, Typed
  <2>2. job[w].op \in AllOps => StepsOf[job[w].op] \subseteq Pcs \ {"idle"}
    BY DEF AllOps, StepsOf, Pcs, ShareSteps, CancelSteps, PvSteps, DelSteps,
       CountSteps, ListSteps, RankSteps
  <2> QED BY <2>1, <2>2, BoardAssumption DEF InOrder
<1>8. Begins(w, op, u, f)
  BY <1>1, <1>4, <1>6, <1>7 DEF Begins, Start
<1> QED BY <1>8

LEMMA FirstStep ==
    ASSUME NEW op \in AllOps
    PROVE  FirstPc[op] \in StepsOf[op] /\ FirstPc[op] \notin LockSteps
BY DEF AllOps, FirstPc, StepsOf, LockSteps, ShareSteps, CancelSteps, PvSteps,
   DelSteps, CountSteps, ListSteps, RankSteps

LEMMA BeginsTyped ==
    ASSUME Typed, Locks, NEW w \in Workers, NEW op \in Ops, NEW u \in Users,
           NEW f \in Files, Begins(w, op, u, f)
    PROVE  Typed' /\ Locks'
<1>1. BoardTyped' /\ up' = up /\ up
  BY TypedParts DEF BoardTyped, Begins, board
<1>2. Locks'
  <2>1. job[w].pc \notin LockSteps /\ job'[w].pc \notin LockSteps
    BY IdleJob, FirstStep, BoardAssumption DEF Begins, LockSteps
  <2> QED BY <2>1 DEF Begins, Locks, Others
<1>3. ASSUME NEW v \in Workers
      PROVE  \/ job'[v] = Idle
             \/ /\ job'[v].op \in Ops /\ job'[v].pc \in StepsOf[job'[v].op]
                /\ job'[v].u \in Users /\ job'[v].f \in Files /\ up'
  <2>1. CASE v = w
    BY <1>1, <2>1, FirstStep, BoardAssumption DEF Begins
  <2>2. CASE v # w
    BY <1>1, <2>2 DEF Begins, Others, Typed, InOrder
  <2> QED BY <2>1, <2>2
<1> QED BY <1>1, <1>2, <1>3, TypedFrom DEF Begins, Typed

LEMMA CrashTyped ==
    ASSUME Typed, Locks, Crash
    PROVE  /\ Typed' /\ Locks' /\ ~up' /\ \A w \in Workers : job'[w] = Idle
           /\ UNCHANGED board /\ faults' = faults + 1 /\ failed \subseteq failed'
           /\ failed' # {} /\ \A w \in Workers : job[w].op \in failed'
<1>1. BoardTyped' /\ ~up' /\ \A w \in Workers : job'[w] = Idle
  BY TypedParts DEF BoardTyped, Crash, board
<1>2. /\ faults' = faults + 1 /\ faults' \in Nat /\ faults' # 0 /\ failed' # {}
      /\ failed \subseteq failed' /\ \A w \in Workers : job[w].op \in failed'
  BY FaultFacts DEF Crash
<1>3. Locks'
  BY <1>1, IdleJob DEF Crash, Locks, LockSteps
<1>4. job' \in [Workers -> Job] /\ up' \in BOOLEAN
  BY <1>1, IdleJob DEF Crash
<1> QED BY <1>1, <1>2, <1>3, <1>4, TypedFrom DEF Crash, Typed

(* A set of naturals has a smallest one: the score of a loaded file.       *)
LEMMA Smallest ==
    ASSUME NEW S \in SUBSET Nat, S # {}
    PROVE  \E n \in S : \A m \in S : n <= m
<1> DEFINE R == {ss \in Nat \X Nat : ss[1] < ss[2]}
<1>1. IsWellFoundedOn(R, Nat)
  BY NatLessThanWellFounded DEF OpToRel
<1> HIDE DEF R
<1>2. PICK n \in S : \A m \in S : ~ (<<m, n>> \in R)
  BY <1>1, WFMin
<1>3. ASSUME NEW m \in S PROVE n <= m
  <2>1. m \in Nat /\ n \in Nat /\ ~ (<<m, n>> \in R)
    BY <1>2
  <2>2. ~(m < n)
    BY <2>1 DEF R
  <2> QED BY <2>1, <2>2
<1> QED BY <1>2, <1>3

LEMMA Loaded ==
    ASSUME BoardTyped, NEW f \in SharedFiles
    PROVE  /\ f \in Files /\ LoadedScore(f) \in Nat
           /\ \E r \in SharesOf(f) : r.pv = LoadedScore(f)
           /\ \A r \in SharesOf(f) : LoadedScore(f) <= r.pv
<1> DEFINE S == {r.pv : r \in SharesOf(f)}
<1>1. S \in SUBSET Nat /\ f \in Files
  BY DEF BoardTyped, Row, SharesOf, SharedFiles
<1>2. PICK q \in SharesOf(f) : TRUE
  BY DEF SharedFiles, SharesOf
<1>3. S # {}
  BY <1>2
<1>4. PICK n \in S : \A r \in SharesOf(f) : n <= r.pv
  <2>1. \A r \in SharesOf(f) : r.pv \in S
    OBVIOUS
  <2>2. PICK n \in S : \A m \in S : n <= m
    <3> HIDE DEF S
    <3> QED BY <1>1, <1>3, Smallest
  <2> QED BY <2>1, <2>2
<1>5. LoadedScore(f) \in S /\ \A r \in SharesOf(f) : LoadedScore(f) <= r.pv
  BY <1>4 DEF LoadedScore
<1> QED BY <1>1, <1>5

(* What InitializePvCache has written to Redis. *)
Reloaded ==
    \/ /\ Works /\ up' = TRUE /\ hash' = SharedFiles
       /\ zset' = [f \in Files |-> IF f \in SharedFiles THEN LoadedScore(f) ELSE NoScore]
    \/ "call" \in failed'

LEMMA InitializeTyped ==
    ASSUME Typed, Locks, InitializePvCache
    PROVE  /\ Typed' /\ Locks' /\ \A w \in Workers : job'[w] = Idle
           /\ UNCHANGED <<share_file_list, shared_status, count, job, answer>>
           /\ failed # {} /\ failed \subseteq failed' /\ faults <= faults'
           /\ Reloaded
<1> DEFINE emptied == [f \in Files |-> NoScore]
           loaded  == [f \in Files |-> IF f \in SharedFiles THEN LoadedScore(f) ELSE NoScore]
<1>1. /\ ~up /\ UNCHANGED <<share_file_list, shared_status, count, pvLock, job, answer>>
      /\ \A w \in Workers : job[w] = Idle
      /\ faults \in Nat
  BY DEF InitializePvCache, Typed, InOrder
<1>2. Works \/ Fault("call", {})
  BY DEF InitializePvCache
<1>3. loaded \in [Files -> Nat \cup {NoScore}] /\ emptied \in [Files -> Nat \cup {NoScore}]
  BY Loaded, TypedParts
<1>4. SharedFiles \subseteq Files
  BY Loaded, TypedParts
<1>5. /\ zset' \in {emptied, loaded} \cup {[loaded EXCEPT ![f] = NoScore] : f \in SharedFiles}
      /\ hash' \subseteq SharedFiles /\ up' \in BOOLEAN
      /\ Works => up' = TRUE /\ hash' = SharedFiles /\ zset' = loaded
  <2>1. ~(Works /\ Fault("call", {}))
    BY WorksFacts, FaultFacts DEF Typed
  <2> QED BY <2>1 DEF InitializePvCache
<1>6. zset' \in [Files -> Nat \cup {NoScore}]
  <2> HIDE DEF loaded, emptied
  <2> QED BY <1>3, <1>5
<1>7. BoardTyped'
  BY <1>1, <1>4, <1>5, <1>6, TypedParts DEF BoardTyped
<1>8. /\ faults' \in Nat /\ (faults' = 0 => failed' = {}) /\ failed # {}
      /\ failed \subseteq failed' /\ failed' # {} /\ faults <= faults'
  BY <1>1, <1>2, WorksFacts, FaultFacts DEF Typed
<1>9. Locks'
  BY <1>1 DEF Locks
<1>10. Reloaded
  BY <1>2, <1>5, FaultFacts DEF Reloaded
<1> QED BY <1>1, <1>5, <1>7, <1>8, <1>9, <1>10, TypedFrom DEF Typed

-------------------------------------------------------------------------------
(* Requests that change a file do not overlap with others on it.           *)
Apart == \A v, w \in Workers : v # w =>
    (job[v].op \in Changing /\ job[w].op \in Changing \cup {"pv"} => job[v].f # job[w].f)

LEMMA ApartKept ==
    ASSUME Typed, Apart, NEW w \in Workers, Work(w)
    PROVE  Apart'
<1>1. Others(w) /\ job[w].pc # "idle"
  BY WorkMoves
<1>2. job'[w] = Idle \/ (/\ job'[w].op = job[w].op
                         /\ job'[w].op # "rank" => job'[w].f = job[w].f)
  BY WorkMoves DEF GoesOn
<1>3. SUFFICES ASSUME NEW v \in Workers, NEW x \in Workers, v # x
               PROVE  job'[v].op \in Changing /\ job'[x].op \in Changing \cup {"pv"}
                         => job'[v].f # job'[x].f
  BY DEF Apart
<1>4. Idle.op = "none" /\ Idle.pc = "idle" /\ "none" \notin Changing \cup {"pv"}
      /\ "rank" \notin Changing \cup {"pv"}
  BY IdleJob DEF Changing
<1>5. CASE v = w
  BY <1>1, <1>2, <1>3, <1>4, <1>5 DEF Others, Apart
<1>6. CASE x = w
  BY <1>1, <1>2, <1>3, <1>4, <1>6 DEF Others, Apart
<1>7. CASE v # w /\ x # w
  BY <1>1, <1>3, <1>7 DEF Others, Apart
<1> QED BY <1>5, <1>6, <1>7

(* As long as the notes say so, the request that begins is in good order.  *)
LEMMA BegunInOrder ==
    ASSUME NEW w \in Workers, NEW op \in Ops, NEW u \in Users, NEW f \in Files,
           Begins(w, op, u, f), Note, ~astray'
    PROVE  InGoodOrder(op, u, f)
<1>1. op # "none"
  BY BoardAssumption DEF AllOps
<1>2. job'[w].op = op /\ job'[w].u = u /\ job'[w].f = f /\ job[w].pc = "idle"
  BY IdleJob DEF Begins
<1>3. Begun(w)
  BY <1>1, <1>2 DEF Begun, At
<1>4. InGoodOrder(job'[w].op, job'[w].u, job'[w].f)
  BY <1>3 DEF Note
<1> QED BY <1>2, <1>4

(* A request in good order finds the file to itself. *)
LEMMA StartsApart ==
    ASSUME Typed, Apart, NEW w \in Workers, NEW op \in Ops, NEW u \in Users,
           NEW f \in Files, Begins(w, op, u, f), InGoodOrder(op, u, f)
    PROVE  Apart'
<1>1. Others(w) /\ job'[w].op = op /\ job'[w].f = f /\ job[w] = Idle
  BY DEF Begins
<1>2. ASSUME NEW v \in Workers, v # w, job[v].pc # "idle"
      PROVE  /\ op = "pv" /\ job[v].f = f => job[v].op \notin Changing
             /\ op \in Changing /\ job[v].f = f => job[v].op \notin Changing \cup {"pv"}
  <2> DEFINE on == {job[x].op : x \in {y \in Workers : ~At(y, "idle") /\ job[y].f = f}}
  <2>1. job[v].f = f => job[v].op \in on
    BY <1>2 DEF At
  <2>2. /\ op = "pv" => on \cap {"share", "cancel", "del"} = {}
        /\ op \in {"share", "cancel", "del"} => on \cap {"share", "cancel", "del", "pv"} = {}
    BY DEF InGoodOrder
  <2> HIDE DEF on
  <2> QED BY <2>1, <2>2 DEF Changing
<1>3. Idle.op = "none" /\ Idle.pc = "idle" /\ \A v \in Workers : job[v].pc = "idle" => job[v] = Idle
  <2>1. \A v \in Workers : InOrder(v) /\ job[v].op \in AllOps
                              => StepsOf[job[v].op] \subseteq Pcs \ {"idle"}
    BY DEF AllOps, StepsOf, Pcs, ShareSteps, CancelSteps, PvSteps, DelSteps,
       CountSteps, ListSteps, RankSteps
  <2> QED BY <2>1, IdleJob, BoardAssumption DEF Typed, InOrder
<1>4. SUFFICES ASSUME NEW v \in Workers, NEW x \in Workers, v # x
               PROVE  job'[v].op \in Changing /\ job'[x].op \in Changing \cup {"pv"}
                         => job'[v].f # job'[x].f
  BY DEF Apart
<1>5. CASE v = w
  BY <1>1, <1>2, <1>3, <1>4, <1>5 DEF Others, Changing
<1>6. CASE x = w
  BY <1>1, <1>2, <1>3, <1>4, <1>6 DEF Others, Changing
<1>7. CASE v # w /\ x # w
  BY <1>1, <1>4, <1>7 DEF Others, Apart
<1> QED BY <1>5, <1>6, <1>7

-------------------------------------------------------------------------------
(* What a worker knows of the table about its user and its file: a share   *)
(* that is inserted stays, a cancellation still finds the user's share,    *)
(* and a deletion finds no share of anybody else.                          *)
On(w, u, f) == job[w].u = u /\ job[w].f = f

InsertedSteps == {"share_count", "share_zset", "share_hash"}
CancelingSteps == {"cancel_status", "cancel_count", "cancel_floor", "cancel_rows"}
DeletingSteps == {"del_exist", "del_status", "del_rows"}

OwnInv == \A w \in Workers, u \in Users, f \in Files : On(w, u, f) =>
    /\ job[w].pc \in InsertedSteps \cup CancelingSteps => OwnShare(u, f) # {}
    /\ job[w].pc \in DeletingSteps => SharesOf(f) = OwnShare(u, f)

LEMMA SameOwn ==
    ASSUME NEW f, Same(f) \/ share_file_list' = share_file_list
    PROVE  SharesOf(f)' = SharesOf(f) /\ \A u : OwnShare(u, f)' = OwnShare(u, f)
BY DEF Same, SharesOf, OwnShare

(* A worker that changes a file sees no other worker's step on it. *)
LEMMA Elsewhere ==
    ASSUME Typed, Apart, NEW w \in Workers, Work(w), NEW v \in Workers, v # w,
           NEW f \in Files, job[v].f = f, job[v].op \in Changing
    PROVE  job'[v] = job[v] /\ Same(f)
<1>1. job'[v] = job[v] /\ job[w].pc # "idle"
  BY WorkMoves DEF Others
<1>2. f # job[w].f \/ job[w].op \notin Changing \cup {"pv"}
  BY DEF Apart
<1> QED BY <1>1, <1>2, WorkFrame

LEMMA OwnSteps ==
    ASSUME Typed, NEW w \in Workers,
           job[w].pc \in InsertedSteps \cup CancelingSteps \cup DeletingSteps
    PROVE  job[w].op \in Changing
<1>1. job[w].pc \in ShareSteps \cup CancelSteps \cup DelSteps
  BY DEF InsertedSteps, CancelingSteps, DeletingSteps, ShareSteps, CancelSteps, DelSteps
<1> QED BY <1>1, OpOf DEF Changing

LEMMA OwnByShare ==
    ASSUME Typed, OwnInv, NEW w \in Workers, handleShareFile(w),
           NEW u \in Users, NEW f \in Files, On(w, u, f), job'[w].pc \in InsertedSteps
    PROVE  OwnShare(u, f)' # {}
<1>1. \A p : Goto(w, p) => job'[w].pc = p
  BY GoneFacts
<1>2. \A c : Finish(w, c) => job'[w].pc \notin InsertedSteps
  BY Ended, EndsFacts, IdleJob DEF InsertedSteps
<1>3. CASE ShareInsert(w, "share_count")
  <2>1. share_file_list' = share_file_list \cup {NewRow(w)}
    BY <1>2, <1>3 DEF ShareInsert, NewRow
  <2>2. NewRow(w).u = u /\ NewRow(w).f = f
    BY <1>3, NewRowType DEF ShareInsert, At, On
  <2>3. NewRow(w) \in OwnShare(u, f)'
    BY <2>1, <2>2 DEF OwnShare, SharesOf
  <2> QED BY <2>3
<1>4. CASE CacheIncrCount(w, "share_count", "share_zset") \/ ShareZset(w)
  <2>1. job[w].pc \in InsertedSteps /\ share_file_list' = share_file_list
    BY <1>4 DEF CacheIncrCount, ShareZset, At, InsertedSteps
  <2> QED BY <2>1, SameOwn DEF OwnInv
<1>5. CASE ShareExist(w) \/ ShareRecord(w) \/ HadZset(w) \/ HadHash(w)
           \/ SetStatus(w, "share_status", 1, "share_insert") \/ ShareHash(w)
  BY <1>1, <1>2, <1>5 DEF ShareExist, ShareRecord, HadZset, HadHash, SetStatus,
     ShareHash, InsertedSteps
<1> QED BY <1>3, <1>4, <1>5 DEF handleShareFile

LEMMA OwnByCancel ==
    ASSUME Typed, OwnInv, NEW w \in Workers, handleCancelShareFile(w),
           NEW u \in Users, NEW f \in Files, On(w, u, f), job'[w].pc \in CancelingSteps
    PROVE  OwnShare(u, f)' # {}
<1>1. \A p : Goto(w, p) => job'[w].pc = p
  BY GoneFacts
<1>2. \A c : Finish(w, c) => job'[w].pc \notin CancelingSteps
  BY Ended, EndsFacts, IdleJob DEF CancelingSteps
<1>3. job[w].pc \in CancelingSteps /\ share_file_list' = share_file_list
  BY <1>1, <1>2 DEF handleCancelShareFile, SetStatus, CacheDecrCount, CancelRows,
     CancelZset, CancelHash, CancelingSteps, Reply, At
<1> QED BY <1>3, SameOwn DEF OwnInv

LEMMA OwnByDelete ==
    ASSUME Typed, OwnInv, NEW w \in Workers, handleDeleteFile(w),
           NEW u \in Users, NEW f \in Files, On(w, u, f), job'[w].pc \in DeletingSteps
    PROVE  SharesOf(f)' = OwnShare(u, f)'
<1>1. \A p : Goto(w, p) => job'[w].pc = p
  BY GoneFacts
<1>2. \A c : Finish(w, c) => job'[w].pc \notin DeletingSteps
  BY Ended, EndsFacts, IdleJob DEF DeletingSteps
<1>3. job[w].pc \in DeletingSteps /\ share_file_list' = share_file_list
  BY <1>1, <1>2 DEF handleDeleteFile, DelExist, DelStatus, DelRows, CacheDecrCount,
     DelZset, DelHash, DelOwn, DeletingSteps, board, At
<1> QED BY <1>3, SameOwn DEF OwnInv

LEMMA OwnKept ==
    ASSUME Typed, Apart, OwnInv, NEW w \in Workers, Work(w)
    PROVE  OwnInv'
<1> SUFFICES ASSUME NEW v \in Workers, NEW u \in Users, NEW f \in Files, On(v, u, f)'
             PROVE  /\ job'[v].pc \in InsertedSteps \cup CancelingSteps => OwnShare(u, f)' # {}
                    /\ job'[v].pc \in DeletingSteps => SharesOf(f)' = OwnShare(u, f)'
  BY DEF OwnInv
<1>1. CASE v # w
  <2>1. job'[v] = job[v] /\ On(v, u, f)
    BY <1>1, WorkMoves DEF Others, On
  <2>2. CASE job[v].pc \in InsertedSteps \cup CancelingSteps \cup DeletingSteps
    BY <1>1, <2>1, <2>2, OwnSteps, Elsewhere, SameOwn DEF OwnInv, On
  <2> QED BY <2>1, <2>2
<1>2. CASE v = w
  <2>1. job'[w].pc \notin InsertedSteps \cup CancelingSteps \cup DeletingSteps
        \/ (On(w, u, f) /\ job'[w].pc \in StepsOf[job[w].op] /\ job[w].op \in Changing)
    <3>1. "idle" \notin InsertedSteps \cup CancelingSteps \cup DeletingSteps
      BY DEF InsertedSteps, CancelingSteps, DeletingSteps
    <3>2. CASE GoesOn(w)
      <4>1. \A op \in AllOps \ Changing :
               StepsOf[op] \cap (InsertedSteps \cup CancelingSteps \cup DeletingSteps) = {}
        BY DEF AllOps, Changing, StepsOf, InsertedSteps, CancelingSteps, DeletingSteps,
           PvSteps, CountSteps, ListSteps, RankSteps
      <4>2. job[w].op \in AllOps
        BY WorkMoves, Busy
      <4>3. job[w].op \in Changing => job'[w].f = job[w].f /\ job'[w].u = job[w].u
        BY <3>2 DEF GoesOn, Changing
      <4> QED BY <1>2, <3>2, <4>1, <4>2, <4>3 DEF GoesOn, On
    <3> QED BY <3>1, <3>2, WorkMoves, IdleJob
  <2>2. CASE handleShareFile(w)
    <3>1. ShareSteps \cap (CancelingSteps \cup DeletingSteps) = {}
      BY DEF ShareSteps, CancelingSteps, DeletingSteps
    <3> QED BY <1>2, <2>1, <2>2, <3>1, ShareMoves, OwnByShare DEF StepsOf
  <2>3. CASE handleCancelShareFile(w)
    <3>1. CancelSteps \cap (InsertedSteps \cup DeletingSteps) = {}
      BY DEF CancelSteps, InsertedSteps, DeletingSteps
    <3> QED BY <1>2, <2>1, <2>3, <3>1, CancelMoves, OwnByCancel DEF StepsOf
  <2>4. CASE handleDeleteFile(w)
    <3>1. DelSteps \cap (InsertedSteps \cup CancelingSteps) = {}
      BY DEF DelSteps, InsertedSteps, CancelingSteps
    <3> QED BY <1>2, <2>1, <2>4, <3>1, DelMoves, OwnByDelete DEF StepsOf
  <2>5. CASE handlePvFile(w) \/ ApiSharefile(w)
    BY <1>2, <2>1, <2>5, PvMoves, ReaderMoves DEF Changing
  <2> QED BY <2>2, <2>3, <2>4, <2>5 DEF Work
<1> QED BY <1>1, <1>2

LEMMA OwnAtStart ==
    ASSUME Typed, OwnInv, NEW w \in Workers, NEW op \in Ops, NEW u \in Users,
           NEW f \in Files, Begins(w, op, u, f), InGoodOrder(op, u, f)
    PROVE  OwnInv'
<1>1. Others(w) /\ share_file_list' = share_file_list
      /\ job'[w].u = u /\ job'[w].f = f /\ job'[w].pc = FirstPc[op]
  BY DEF Begins, board
<1>2. /\ op = "cancel" => OwnShare(u, f) # {}
      /\ op = "del" => SharesOf(f) = OwnShare(u, f)
  BY DEF InGoodOrder
<1>3. /\ FirstPc[op] \in InsertedSteps \cup CancelingSteps => op = "cancel"
      /\ FirstPc[op] \in DeletingSteps => op = "del"
  BY BoardAssumption DEF AllOps, FirstPc, InsertedSteps, CancelingSteps, DeletingSteps
<1> SUFFICES ASSUME NEW v \in Workers, NEW x \in Users, NEW g \in Files, On(v, x, g)'
             PROVE  /\ job'[v].pc \in InsertedSteps \cup CancelingSteps => OwnShare(x, g)' # {}
                    /\ job'[v].pc \in DeletingSteps => SharesOf(g)' = OwnShare(x, g)'
  BY DEF OwnInv
<1>4. SharesOf(g)' = SharesOf(g) /\ OwnShare(x, g)' = OwnShare(x, g)
  BY <1>1, SameOwn
<1>5. CASE v = w
  BY <1>1, <1>2, <1>3, <1>4, <1>5 DEF On
<1>6. CASE v # w
  BY <1>1, <1>4, <1>6 DEF On, Others, OwnInv
<1> QED BY <1>5, <1>6

(* Nothing is said of workers that are idle. *)
LEMMA IdleInv ==
    ASSUME \A w \in Workers : job'[w] = Idle
    PROVE  OwnInv' /\ Apart'
<1>1. Idle.pc = "idle" /\ Idle.op = "none"
  BY IdleJob
<1> QED BY <1>1 DEF OwnInv, Apart, Changing, InsertedSteps, CancelingSteps, DeletingSteps

-------------------------------------------------------------------------------
(* A file is shared once.  handleShareFile looks into the ranking and then *)
(* into the table; both must mislead it before a second row is inserted,   *)
(* so it takes two failures, one of them a call.                           *)
Reliable == "call" \notin failed \/ faults <= 1

OneRow == Reliable =>
    /\ \A r, q \in share_file_list : r.f = q.f => r = q
    /\ \A w \in Workers, f \in Files :
          job[w].f = f /\ job[w].pc \in {"share_status", "share_insert"} => SharesOf(f) = {}

(* The downloads that are in the table and not yet in the ranking. *)
PendingSteps == {"pv_exist", "pv_incr"}
Pending(f) == {w \in Workers : job[w].f = f /\ job[w].pc \in PendingSteps}

(* The ranking and the names agree with the table about f. *)
Clean(f) ==
    IF SharesOf(f) = {} THEN zset[f] = NoScore /\ f \notin hash
    ELSE /\ zset[f] \in Nat /\ f \in hash
         /\ \A r \in SharesOf(f) : zset[f] + Cardinality(Pending(f)) = r.pv

(* They may disagree while a handler is at one of these steps. *)
Dirty == {"share_count", "share_zset", "share_hash", "cancel_zset", "cancel_hash",
          "del_count", "del_floor", "del_zset", "del_hash"}
Undisturbed(f) == \A w \in Workers : job[w].f = f => job[w].pc \notin Dirty

(* What a handler may rely on at its step: as long as no call fails, Redis *)
(* has not lost the file.                                                  *)
Stage(w, f) ==
    /\ job[w].pc \notin {"had_zset", "had_hash", "pv_add", "pv_hash"}
    /\ job[w].pc \in {"share_record", "del_status", "cancel_zset", "cancel_hash",
                      "del_count", "del_floor", "del_zset", "del_hash"} => SharesOf(f) = {}
    /\ job[w].pc \in InsertedSteps => \A r \in SharesOf(f) : r.pv = 0
    /\ job[w].pc = "share_hash" => zset[f] = 0
    /\ job[w].pc \in {"cancel_hash", "del_hash"} => zset[f] = NoScore
    /\ job[w].pc = "del_rows" /\ job[w].n = 0 => SharesOf(f) = {}
    /\ job[w].pc \in {"del_count", "del_floor", "del_zset"} /\ job[w].n = 0 =>
          zset[f] = NoScore /\ f \notin hash
    /\ job[w].pc \in LockSteps => \E r \in SharesOf(f) : r.pv = job[w].n
    /\ job[w].pc \in PendingSteps => SharesOf(f) # {}

RankInv ==
    up /\ "call" \notin failed =>
       /\ \A w \in Workers, f \in Files : job[w].f = f => Stage(w, f)
       /\ \A f \in Files : Undisturbed(f) => Clean(f)
       /\ \A f \in Files : IsFiniteSet(Pending(f))

Whole == Typed /\ Locks /\ Apart /\ OwnInv /\ OneRow /\ RankInv

LEMMA ReliableBefore ==
    ASSUME Typed, NEW w \in Workers, Work(w)
    PROVE  /\ Reliable' => Reliable
           /\ up' /\ "call" \notin failed' => up /\ "call" \notin failed /\ Works /\ ~Fails(w)
<1>1. CASE Works
  <2>1. ~Fails(w)
    BY <1>1, WorksFacts, FaultFacts DEF Fails, Typed
  <2> QED BY <1>1, <2>1, WorksFacts, Tallies DEF Reliable
<1>2. CASE Fails(w)
  BY <1>2, FaultFacts DEF Fails, Reliable, Typed
<1> QED BY <1>1, <1>2, Tallies

(* On a file that somebody changes nobody else does anything to it. *)
LEMMA Alone ==
    ASSUME Typed, Apart, NEW w \in Workers, NEW f \in Files, job[w].f = f,
           job[w].op \in Changing
    PROVE  /\ \A v \in Workers \ {w} : job[v].f = f => job[v].op \notin Changing \cup {"pv"}
           /\ Pending(f) = {}
           /\ job[w].pc \notin Dirty => Undisturbed(f)
<1>1. \A v \in Workers \ {w} : job[v].f = f => job[v].op \notin Changing \cup {"pv"}
  BY DEF Apart
<1>2. \A v \in Workers : /\ job[v].pc \in Dirty => job[v].op \in Changing
                         /\ job[v].pc \in PendingSteps => job[v].op = "pv"
  <2>1. Dirty \subseteq ShareSteps \cup CancelSteps \cup DelSteps /\ PendingSteps \subseteq PvSteps
    BY DEF Dirty, ShareSteps, CancelSteps, DelSteps, PendingSteps, PvSteps
  <2> QED BY <2>1, OpOf DEF Changing
<1>3. job[w].op # "pv"
  BY DEF Changing
<1> QED BY <1>1, <1>2, <1>3 DEF Pending, Undisturbed

LEMMA UndisturbedByPv ==
    ASSUME Typed, Apart, NEW w \in Workers, NEW f \in Files, job[w].f = f, job[w].op = "pv"
    PROVE  Undisturbed(f)
<1>1. Dirty \subseteq ShareSteps \cup CancelSteps \cup DelSteps
  BY DEF Dirty, ShareSteps, CancelSteps, DelSteps
<1>2. \A v \in Workers : job[v].pc \in Dirty => job[v].op \in Changing
  BY <1>1, OpOf DEF Changing
<1>3. \A v \in Workers : job[v].op \in Changing => v # w
  BY DEF Changing
<1> QED BY <1>2, <1>3 DEF Undisturbed, Apart, Changing

LEMMA OneRowTable ==
    ASSUME Whole, NEW w \in Workers, Work(w), Reliable'
    PROVE  \A r, q \in share_file_list' : r.f = q.f => r = q
<1>1. \A r, q \in share_file_list : r.f = q.f => r = q
  BY ReliableBefore DEF Whole, OneRow
<1>2. CASE share_file_list' \subseteq share_file_list
  BY <1>1, <1>2
<1>3. CASE handleShareFile(w) /\ ShareInsert(w, "share_count") /\ ~Fails(w)
  <2>1. /\ share_file_list' = share_file_list \cup {NewRow(w)} /\ job[w].f \in Files
        /\ job[w].pc = "share_insert" /\ job[w].pc # "idle"
    BY <1>3, Busy DEF ShareInsert, NewRow, At, Whole
  <2>2. NewRow(w).f = job[w].f
    BY <2>1, NewRowType DEF Whole
  <2>3. SharesOf(job[w].f) = {}
    BY <2>1, ReliableBefore DEF Whole, OneRow
  <2>4. \A r \in share_file_list : r.f # job[w].f
    BY <2>3 DEF SharesOf
  <2> QED BY <1>1, <2>1, <2>2, <2>4
<1>4. CASE share_file_list' = Bumped(w)
  <2>1. SUFFICES ASSUME NEW r \in share_file_list, NEW q \in share_file_list,
                        Bump(w, r).f = Bump(w, q).f
                 PROVE  Bump(w, r) = Bump(w, q)
    BY <1>4 DEF Bumped
  <2>2. r = q
    BY <1>1, <2>1, BumpRow DEF Whole
  <2> QED BY <2>2
<1>5. \/ share_file_list' \subseteq share_file_list
      \/ handleShareFile(w) /\ ShareInsert(w, "share_count") /\ ~Fails(w)
      \/ share_file_list' = Bumped(w)
  <2>1. CASE handleShareFile(w)
    <3>1. CASE ShareInsert(w, "share_count")
      BY <2>1, <3>1, NotBoth DEF ShareInsert, Whole
    <3>2. CASE ~ShareInsert(w, "share_count")
      BY <2>1, <3>2 DEF handleShareFile, ShareExist, ShareRecord, HadZset, HadHash, SetStatus,
         CacheIncrCount, ShareZset, ShareHash, board
    <3> QED BY <3>1, <3>2
  <2>2. CASE handleCancelShareFile(w)
    BY <2>2 DEF handleCancelShareFile, SetStatus, CacheDecrCount, CancelRows, CancelZset,
         CancelHash
  <2>3. CASE handlePvFile(w)
    BY <2>3, PvTable
  <2>4. CASE handleDeleteFile(w)
    BY <2>4 DEF handleDeleteFile, DelExist, DelStatus, DelRows, CacheDecrCount, DelZset,
         DelHash, DelOwn, board
  <2>5. CASE ApiSharefile(w)
    BY <2>5, ReaderFrame DEF Whole
  <2> QED BY <2>1, <2>2, <2>3, <2>4, <2>5 DEF Work
<1> QED BY <1>2, <1>3, <1>4, <1>5

LEMMA OneRowKept ==
    ASSUME Whole, NEW w \in Workers, Work(w)
    PROVE  OneRow'
<1> DEFINE S == {"share_status", "share_insert"}
<1> SUFFICES ASSUME Reliable', NEW v \in Workers, NEW f \in Files,
                    job'[v].f = f, job'[v].pc \in S
             PROVE  SharesOf(f)' = {}
  BY OneRowTable DEF OneRow
<1>1. Reliable /\ \A x \in Workers, g \in Files : job[x].f = g /\ job[x].pc \in S => SharesOf(g) = {}
  BY ReliableBefore DEF Whole, OneRow
<1>2. S \subseteq ShareSteps /\ "idle" \notin S
  BY DEF ShareSteps
<1>3. CASE v # w
  <2>1. job'[v] = job[v]
    BY <1>3, WorkMoves DEF Others, Whole
  <2>2. job[v].op \in Changing
    BY <1>2, <2>1, OpOf DEF Whole, Changing
  <2> QED BY <1>1, <1>3, <2>1, <2>2, Elsewhere DEF Whole, Same
<1>4. CASE v = w
  <2>1. job[w].op = "share" /\ job[w].f = f
    <3>1. GoesOn(w) /\ job[w].op \in AllOps
      BY <1>2, <1>4, WorkMoves, IdleJob, Busy DEF Whole
    <3>2. \A op \in AllOps \ {"share"} : StepsOf[op] \cap S = {}
      BY DEF AllOps, StepsOf, CancelSteps, PvSteps, DelSteps, CountSteps, ListSteps, RankSteps
    <3> QED BY <1>4, <3>1, <3>2 DEF GoesOn
  <2>2. handleShareFile(w)
    BY <2>1, CancelMoves, PvMoves, DelMoves, ReaderMoves DEF Work, Whole
  <2>3. /\ \A p : Goto(w, p) => job'[w].pc = p
        /\ \A c : Finish(w, c) => job'[w].pc \notin S
    BY GoneFacts, Ended, EndsFacts, IdleJob DEF Whole
  <2>4. /\ ShareRecord(w) \/ SetStatus(w, "share_status", 1, "share_insert")
        /\ share_file_list' = share_file_list
    BY <1>4, <2>2, <2>3 DEF handleShareFile, ShareExist, ShareRecord, HadZset, HadHash,
       SetStatus, ShareInsert, CacheIncrCount, ShareZset, ShareHash, board
  <2>5. SharesOf(f)' = SharesOf(f)
    BY <2>4, SameOwn
  <2>6. CASE SetStatus(w, "share_status", 1, "share_insert")
    BY <1>1, <2>1, <2>5, <2>6 DEF SetStatus, At
  <2>7. CASE ShareRecord(w) /\ Fails(w)
    <3>1. "call" \in failed' /\ faults' = faults + 1 /\ faults \in Nat
      BY <2>7, FaultFacts DEF Fails, Whole, Typed
    <3>2. failed = {} /\ up
      BY <3>1 DEF Whole, Typed, Reliable
    <3>3. Stage(w, f)
      BY <2>1, <3>2 DEF Whole, RankInv
    <3> QED BY <2>5, <2>7, <3>3 DEF Stage, ShareRecord, At
  <2>8. CASE ShareRecord(w) /\ ~Fails(w)
    BY <1>4, <2>1, <2>3, <2>5, <2>8 DEF ShareRecord
  <2> QED BY <2>4, <2>6, <2>7, <2>8
<1> QED BY <1>3, <1>4

-------------------------------------------------------------------------------
(* RankInv, one handler after the other. *)
Calm == up /\ "call" \notin failed

(* The steps Stage says something of. *)
Staged == {"had_zset", "had_hash", "pv_add", "pv_hash", "share_record",
           "del_status", "cancel_zset", "cancel_hash", "del_count", "del_floor",
           "del_zset", "del_hash", "del_rows"}
          \cup InsertedSteps \cup LockSteps \cup PendingSteps

LEMMA StageOther ==
    ASSUME NEW w \in Workers, NEW f
    PROVE  /\ job[w].pc \notin Staged => Stage(w, f)
           /\ job'[w].pc \notin Staged => Stage(w, f)'
BY DEF Stage, Staged, InsertedSteps

LEMMA CalmFacts ==
    ASSUME Whole, NEW w \in Workers, Work(w), Calm'
    PROVE  /\ Works /\ ~Fails(w) /\ Calm /\ Reliable
           /\ \A v \in Workers, f \in Files : job[v].f = f => Stage(v, f)
           /\ \A f \in Files : Undisturbed(f) => Clean(f)
           /\ \A f \in Files : IsFiniteSet(Pending(f))
           /\ \A r, q \in share_file_list : r.f = q.f => r = q
BY ReliableBefore DEF Whole, Calm, Reliable, RankInv, OneRow

LEMMA StageSame ==
    ASSUME NEW v \in Workers, NEW f \in Files, job'[v] = job[v], Stage(v, f),
           SharesOf(f)' = SharesOf(f), zset'[f] = zset[f], f \in hash' <=> f \in hash
    PROVE  Stage(v, f)'
BY DEF Stage

LEMMA StageElsewhere ==
    ASSUME Whole, NEW w \in Workers, Work(w), Calm', NEW v \in Workers, v # w,
           NEW f \in Files, job[v].f = f
    PROVE  Stage(v, f)'
<1>1. job'[v] = job[v] /\ Stage(v, f) /\ job[w].pc # "idle"
  BY CalmFacts, WorkMoves DEF Whole, Others
<1>2. CASE f # job[w].f \/ job[w].op \notin Changing \cup {"pv"}
  <2>1. Same(f)
    BY <1>2, WorkFrame DEF Whole
  <2> QED BY <1>1, <2>1, StageSame DEF Same
<1>3. CASE f = job[w].f /\ job[w].op \in Changing \cup {"pv"}
  <2>1. job[v].op \notin Changing
    BY <1>3 DEF Whole, Apart
  <2>2. CASE job[v].op # "pv"
    <3>1. Staged \subseteq ShareSteps \cup CancelSteps \cup DelSteps \cup PvSteps
      BY DEF Staged, InsertedSteps, LockSteps, PendingSteps, ShareSteps, CancelSteps,
         DelSteps, PvSteps
    <3>2. job[v].pc \notin Staged
      BY <2>1, <2>2, <3>1, OpOf DEF Whole, Changing
    <3> QED BY <1>1, <3>2, StageOther
  <2>3. CASE job[v].op = "pv"
    <3>1. job[w].op = "pv" /\ handlePvFile(w)
      <4>1. job[w].op \notin Changing
        BY <1>3, <2>3 DEF Whole, Apart
      <4> QED BY <1>3, <4>1, ShareMoves, CancelMoves, DelMoves, ReaderMoves
              DEF Work, Whole, Changing
    <3>2. CASE share_file_list' = share_file_list
      <4>1. SharesOf(f)' = SharesOf(f)
        BY <3>2, SameOwn
      <4>2. job[v].pc \in PvSteps
        BY <2>3, StepOf DEF Whole
      <4> QED BY <1>1, <4>1, <4>2 DEF Stage, PvSteps, InsertedSteps
    <3>3. CASE share_file_list' = Bumped(w) /\ At(w, "pv_commit")
      <4>1. job[v].pc \notin LockSteps
        BY <1>3, <3>3 DEF Whole, Locks, LockSteps, At
      <4>2. SharesOf(f) # {} => SharesOf(f)' # {}
        BY <3>3, BumpRow DEF SharesOf, Bumped, Whole
      <4>3. job[v].pc \in PvSteps
        BY <2>3, StepOf DEF Whole
      <4> QED BY <1>1, <4>1, <4>2, <4>3 DEF Stage, PvSteps, InsertedSteps
    <3> QED BY <3>1, <3>2, <3>3, PvTable
  <2> QED BY <2>2, <2>3
<1> QED BY <1>2, <1>3

LEMMA PendingSame ==
    ASSUME Whole, NEW w \in Workers, Work(w), NEW f \in Files,
           job[w].f # f \/ job[w].op # "pv"
    PROVE  Pending(f)' = Pending(f)
<1>1. Others(w) /\ (job'[w] = Idle \/ GoesOn(w))
  BY WorkMoves DEF Whole
<1>2. job[w].op # "pv" => job[w].pc \notin PendingSteps /\ job'[w].pc \notin PendingSteps
  <2>1. PendingSteps \subseteq PvSteps /\ Idle.pc \notin PendingSteps
    BY IdleJob DEF PendingSteps, PvSteps
  <2>2. \A op \in AllOps \ {"pv"} : StepsOf[op] \cap PendingSteps = {}
    BY DEF AllOps, StepsOf, PendingSteps, ShareSteps, CancelSteps, DelSteps,
       CountSteps, ListSteps, RankSteps
  <2>3. job[w].op \in AllOps
    BY WorkMoves, Busy DEF Whole
  <2> QED BY <1>1, <2>1, <2>2, <2>3, OpOf DEF Whole, GoesOn
<1>3. job[w].op = "pv" => job'[w].f = job[w].f \/ job'[w].pc \notin PendingSteps
  <2>1. Idle.pc \notin PendingSteps
    BY IdleJob DEF PendingSteps
  <2> QED BY <1>1, <2>1 DEF GoesOn
<1>4. ASSUME NEW v \in Workers
      PROVE  (job'[v].f = f /\ job'[v].pc \in PendingSteps)
                <=> (job[v].f = f /\ job[v].pc \in PendingSteps)
  BY <1>1, <1>2, <1>3 DEF Others
<1> QED BY <1>4 DEF Pending

(* Nothing the ranking is compared with has changed. *)
LEMMA CleanSame ==
    ASSUME NEW f \in Files, Clean(f), Pending(f)' = Pending(f), SharesOf(f)' = SharesOf(f),
           zset'[f] = zset[f], f \in hash' <=> f \in hash
    PROVE  Clean(f)'
BY DEF Clean

(* A worker that changes the file f. *)
LEMMA ChangeFacts ==
    ASSUME Whole, NEW w \in Workers, Work(w), Calm', NEW f \in Files, job[w].f = f,
           job[w].op \in Changing
    PROVE  /\ Pending(f)' = {} /\ Pending(f) = {} /\ Works /\ ~Fails(w)
           /\ Stage(w, f) /\ (job[w].pc \notin Dirty => Clean(f))
           /\ job[w].pc \in {"share_status", "share_insert"} => SharesOf(f) = {}
           /\ \A r, q \in share_file_list : r.f = q.f => r = q
           /\ \A p : Goto(w, p) => job'[w].pc = p /\ job'[w].n = job[w].n
           /\ \A c : Finish(w, c) => job'[w].pc = "idle"
           /\ job[w].u \in Users
<1>1. /\ Works /\ ~Fails(w) /\ Stage(w, f) /\ (Undisturbed(f) => Clean(f)) /\ Reliable
      /\ \A r, q \in share_file_list : r.f = q.f => r = q
  BY CalmFacts
<1>2. Pending(f) = {} /\ (job[w].pc \notin Dirty => Undisturbed(f))
  BY Alone DEF Whole
<1>3. Pending(f)' = Pending(f)
  BY PendingSame DEF Changing
<1>4. /\ \A p : Goto(w, p) => job'[w].pc = p /\ job'[w].n = job[w].n
      /\ \A c : Finish(w, c) => job'[w].pc = "idle"
  BY GoneFacts, Ended, EndsFacts, IdleJob DEF Whole
<1>5. job[w].pc \in {"share_status", "share_insert"} => SharesOf(f) = {}
  BY <1>1 DEF Whole, OneRow
<1>6. job[w].u \in Users
  BY WorkMoves, Busy DEF Whole
<1> QED BY <1>1, <1>2, <1>3, <1>4, <1>5, <1>6

LEMMA RankByShare ==
    ASSUME Whole, NEW w \in Workers, handleShareFile(w), Calm', NEW f \in Files, job[w].f = f
    PROVE  Stage(w, f)' /\ (job'[w].pc \notin Dirty => Clean(f)')
<1>1. Work(w) /\ job[w].op \in Changing
  BY ShareMoves DEF Work, Whole, Changing
<1>2. /\ Pending(f)' = {} /\ Pending(f) = {} /\ Works /\ ~Fails(w)
      /\ Stage(w, f) /\ (job[w].pc \notin Dirty => Clean(f))
      /\ job[w].pc \in {"share_status", "share_insert"} => SharesOf(f) = {}
      /\ \A p : Goto(w, p) => job'[w].pc = p
      /\ \A c : Finish(w, c) => job'[w].pc = "idle"
  BY <1>1, ChangeFacts
<1>3. CASE ShareExist(w)
  <2>1. SharesOf(f)' = SharesOf(f) /\ zset' = zset /\ hash' = hash /\ job[w].pc = "share_exist"
    BY <1>3, SameOwn DEF ShareExist, board, At
  <2>2. Clean(f) /\ Clean(f)'
    BY <1>2, <2>1, CleanSame DEF Dirty
  <2>3. job'[w].pc = "idle" \/ (job'[w].pc = "share_record" /\ zset[f] = NoScore)
    BY <1>2, <1>3 DEF ShareExist
  <2>4. job'[w].pc = "share_record" => SharesOf(f) = {}
    BY <2>2, <2>3 DEF Clean, NoScore
  <2>5. Stage(w, f)'
    BY <2>1, <2>3, <2>4 DEF Stage, InsertedSteps, LockSteps, PendingSteps
  <2> QED BY <2>2, <2>5
<1>4. CASE ShareRecord(w)
  <2>1. SharesOf(f)' = SharesOf(f) /\ zset' = zset /\ hash' = hash /\ job[w].pc = "share_record"
    BY <1>4, SameOwn DEF ShareRecord, board, At
  <2>2. SharesOf(f) = {} /\ job'[w].pc = "share_status"
    BY <1>2, <1>4, <2>1 DEF Stage, ShareRecord
  <2>3. Clean(f)'
    BY <1>2, <2>1, CleanSame DEF Dirty
  <2> QED BY <2>2, <2>3, StageOther DEF Staged, InsertedSteps, LockSteps, PendingSteps
<1>5. CASE SetStatus(w, "share_status", 1, "share_insert")
  <2>1. SharesOf(f)' = SharesOf(f) /\ zset' = zset /\ hash' = hash /\ job[w].pc = "share_status"
    BY <1>5, SameOwn DEF SetStatus, At
  <2>2. job'[w].pc = "share_insert"
    BY <1>2, <1>5 DEF SetStatus
  <2>3. Clean(f)'
    BY <1>2, <2>1, CleanSame DEF Dirty
  <2> QED BY <2>2, <2>3, StageOther DEF Staged, InsertedSteps, LockSteps, PendingSteps
<1>6. CASE ShareInsert(w, "share_count")
  <2>1. /\ job[w].pc = "share_insert" /\ job'[w].pc = "share_count"
        /\ share_file_list' = share_file_list \cup {NewRow(w)}
    BY <1>2, <1>6 DEF ShareInsert, At, NewRow
  <2>2. NewRow(w).pv = 0
    BY <2>1, NewRowType DEF Whole
  <2>3. \A r \in SharesOf(f)' : r.pv = 0
    BY <1>2, <2>1, <2>2 DEF SharesOf
  <2> QED BY <2>1, <2>3 DEF Stage, InsertedSteps, LockSteps, PendingSteps, Dirty
<1>7. CASE CacheIncrCount(w, "share_count", "share_zset")
  <2>1. /\ job[w].pc = "share_count" /\ job'[w].pc = "share_zset"
        /\ SharesOf(f)' = SharesOf(f)
    BY <1>2, <1>7, SameOwn DEF CacheIncrCount, At
  <2> QED BY <1>2, <2>1 DEF Stage, InsertedSteps, LockSteps, PendingSteps, Dirty
<1>8. CASE ShareZset(w)
  <2>1. /\ job[w].pc = "share_zset" /\ job'[w].pc = "share_hash"
        /\ SharesOf(f)' = SharesOf(f) /\ zset'[f] = 0
    BY <1>2, <1>8, SameOwn DEF ShareZset, At, ZsetAdd, Whole, Typed, TypeOK
  <2> QED BY <1>2, <2>1 DEF Stage, InsertedSteps, LockSteps, PendingSteps, Dirty
<1>9. CASE ShareHash(w)
  <2>1. /\ job[w].pc = "share_hash" /\ job'[w].pc = "idle"
        /\ SharesOf(f)' = SharesOf(f) /\ zset' = zset /\ f \in hash'
    BY <1>2, <1>9, SameOwn DEF ShareHash, At, Hset
  <2>2. zset[f] = 0 /\ \A r \in SharesOf(f) : r.pv = 0
    BY <1>2, <2>1 DEF Stage, InsertedSteps
  <2>3. SharesOf(f) # {}
    BY <1>1, <1>2, <2>1, ChangeFacts DEF Whole, OwnInv, On, InsertedSteps, OwnShare
  <2>4. Cardinality(Pending(f)') = 0
    BY <1>2, FS_EmptySet
  <2>5. Clean(f)'
    BY <2>1, <2>2, <2>3, <2>4 DEF Clean
  <2> QED BY <2>1, <2>5, StageOther DEF Staged, InsertedSteps, LockSteps, PendingSteps
<1>10. ~HadZset(w) /\ ~HadHash(w)
  BY <1>2 DEF Stage, HadZset, HadHash, At
<1> QED BY <1>3, <1>4, <1>5, <1>6, <1>7, <1>8, <1>9, <1>10 DEF handleShareFile

LEMMA RankByCancel ==
    ASSUME Whole, NEW w \in Workers, handleCancelShareFile(w), Calm', NEW f \in Files,
           job[w].f = f
    PROVE  Stage(w, f)' /\ (job'[w].pc \notin Dirty => Clean(f)')
<1>1. Work(w) /\ job[w].op \in Changing
  BY CancelMoves DEF Work, Whole, Changing
<1>2. /\ Pending(f)' = {} /\ Pending(f) = {} /\ Works /\ ~Fails(w)
      /\ Stage(w, f) /\ (job[w].pc \notin Dirty => Clean(f))
      /\ \A r, q \in share_file_list : r.f = q.f => r = q
      /\ \A p : Goto(w, p) => job'[w].pc = p
      /\ \A c : Finish(w, c) => job'[w].pc = "idle"
      /\ job[w].u \in Users
  BY <1>1, ChangeFacts
<1>3. CASE SetStatus(w, "cancel_status", 0, "cancel_count")
           \/ CacheDecrCount(w, "cancel_count", "cancel_floor", "cancel_rows")
  <2>1. /\ SharesOf(f)' = SharesOf(f) /\ zset' = zset /\ hash' = hash
        /\ job[w].pc \in {"cancel_status", "cancel_count", "cancel_floor"}
    BY <1>3, SameOwn DEF SetStatus, CacheDecrCount, At
  <2>2. job'[w].pc \in {"cancel_count", "cancel_floor", "cancel_rows"}
    BY <1>2, <1>3 DEF SetStatus, CacheDecrCount
  <2>3. Clean(f)'
    BY <1>2, <2>1, CleanSame DEF Dirty
  <2> QED BY <2>2, <2>3, StageOther DEF Staged, InsertedSteps, LockSteps, PendingSteps
<1>4. CASE CancelRows(w)
  <2>1. /\ job[w].pc = "cancel_rows" /\ job'[w].pc = "cancel_zset"
        /\ share_file_list' = share_file_list \ OwnShare(job[w].u, f)
    BY <1>2, <1>4 DEF CancelRows, At
  <2>2. OwnShare(job[w].u, f) # {}
    BY <1>2, <2>1 DEF Whole, OwnInv, On, CancelingSteps
  <2>3. SharesOf(f) = OwnShare(job[w].u, f)
    BY <1>2, <2>2 DEF SharesOf, OwnShare
  <2>4. SharesOf(f)' = {}
    BY <2>1, <2>3 DEF SharesOf
  <2> QED BY <2>1, <2>4 DEF Stage, InsertedSteps, LockSteps, PendingSteps, Dirty
<1>5. CASE CancelZset(w)
  <2>1. /\ job[w].pc = "cancel_zset" /\ job'[w].pc = "cancel_hash"
        /\ SharesOf(f)' = SharesOf(f) /\ zset'[f] = NoScore
    BY <1>2, <1>5, SameOwn DEF CancelZset, At, ZsetZrem, Whole, Typed, TypeOK
  <2> QED BY <1>2, <2>1 DEF Stage, InsertedSteps, LockSteps, PendingSteps, Dirty
<1>6. CASE CancelHash(w)
  <2>1. /\ job[w].pc = "cancel_hash" /\ job'[w].pc = "idle"
        /\ SharesOf(f)' = SharesOf(f) /\ zset' = zset /\ f \notin hash'
    BY <1>2, <1>6, SameOwn DEF CancelHash, At, Hdel, Reply
  <2>2. Clean(f)'
    BY <1>2, <2>1 DEF Stage, Clean
  <2> QED BY <2>1, <2>2, StageOther DEF Staged, InsertedSteps, LockSteps, PendingSteps
<1> QED BY <1>3, <1>4, <1>5, <1>6 DEF handleCancelShareFile

LEMMA RankByDelete ==
    ASSUME Whole, NEW w \in Workers, handleDeleteFile(w), Calm', NEW f \in Files,
           job[w].f = f
    PROVE  Stage(w, f)' /\ (job'[w].pc \notin Dirty => Clean(f)')
<1>1. Work(w) /\ job[w].op \in Changing
  BY DelMoves DEF Work, Whole, Changing
<1>2. /\ Pending(f)' = {} /\ Pending(f) = {} /\ Works /\ ~Fails(w)
      /\ Stage(w, f) /\ (job[w].pc \notin Dirty => Clean(f))
      /\ \A p : Goto(w, p) => job'[w].pc = p /\ job'[w].n = job[w].n
      /\ \A c : Finish(w, c) => job'[w].pc = "idle"
      /\ job[w].u \in Users
  BY <1>1, ChangeFacts
<1>3. CASE DelExist(w)
  <2>1. /\ SharesOf(f)' = SharesOf(f) /\ zset' = zset /\ hash' = hash
        /\ job[w].pc = "del_exist"
    BY <1>3, SameOwn DEF DelExist, board, At
  <2>2. Clean(f) /\ Clean(f)'
    BY <1>2, <2>1, CleanSame DEF Dirty
  <2>3. CASE zset[f] # NoScore
    <3>1. Move(w, [job[w] EXCEPT !.n = 1, !.pc = "del_rows"])
      BY <1>2, <1>3, <2>3 DEF DelExist
    <3>2. job'[w].pc = "del_rows" /\ job'[w].n = 1
      BY <3>1, NotedFacts DEF Whole
    <3> QED BY <2>2, <3>2 DEF Stage, InsertedSteps, LockSteps, PendingSteps
  <2>4. CASE zset[f] = NoScore
    <3>1. job'[w].pc = "del_status" /\ SharesOf(f)' = {}
      BY <1>2, <1>3, <2>1, <2>2, <2>4 DEF DelExist, Clean, NoScore
    <3> QED BY <2>2, <3>1 DEF Stage, InsertedSteps, LockSteps, PendingSteps
  <2> QED BY <2>3, <2>4
<1>4. CASE DelStatus(w)
  <2>1. /\ SharesOf(f)' = SharesOf(f) /\ zset' = zset /\ hash' = hash
        /\ job[w].pc = "del_status" /\ job'[w].pc \in {"del_rows", "del_own"}
    BY <1>2, <1>4, SameOwn DEF DelStatus, board, At
  <2>2. SharesOf(f) = {}
    BY <1>2, <2>1 DEF Stage
  <2>3. Clean(f)'
    BY <1>2, <2>1, CleanSame DEF Dirty
  <2> QED BY <2>1, <2>2, <2>3 DEF Stage, InsertedSteps, LockSteps, PendingSteps
<1>5. CASE DelRows(w)
  <2>1. /\ job[w].pc = "del_rows" /\ job'[w].pc = "del_count" /\ job'[w].n = job[w].n
        /\ share_file_list' = share_file_list \ OwnShare(job[w].u, f)
        /\ zset' = zset /\ hash' = hash
    BY <1>2, <1>5 DEF DelRows, At
  <2>2. SharesOf(f) = OwnShare(job[w].u, f)
    BY <1>2, <2>1 DEF Whole, OwnInv, On, DeletingSteps
  <2>3. SharesOf(f)' = {}
    BY <2>1, <2>2 DEF SharesOf
  <2>4. job[w].n = 0 => zset[f] = NoScore /\ f \notin hash
    BY <1>2, <2>1 DEF Stage, Clean, Dirty
  <2> QED BY <2>1, <2>3, <2>4 DEF Stage, InsertedSteps, LockSteps, PendingSteps, Dirty
<1>6. CASE CacheDecrCount(w, "del_count", "del_floor", "del_zset")
  <2>1. /\ SharesOf(f)' = SharesOf(f) /\ zset' = zset /\ hash' = hash
        /\ job[w].pc \in {"del_count", "del_floor"} /\ job'[w].n = job[w].n
        /\ job'[w].pc \in {"del_floor", "del_zset"}
    BY <1>2, <1>6, SameOwn DEF CacheDecrCount, At
  <2> QED BY <1>2, <2>1 DEF Stage, InsertedSteps, LockSteps, PendingSteps, Dirty
<1>7. CASE DelZset(w) /\ job[w].n = 0
  <2>1. /\ SharesOf(f)' = SharesOf(f) /\ zset' = zset /\ hash' = hash
        /\ job[w].pc = "del_zset" /\ job'[w].pc = "del_own"
    BY <1>2, <1>7, SameOwn DEF DelZset, At
  <2>2. Clean(f)'
    BY <1>2, <1>7, <2>1 DEF Stage, Clean
  <2> QED BY <2>1, <2>2, StageOther DEF Staged, InsertedSteps, LockSteps, PendingSteps
<1>8. CASE DelZset(w) /\ job[w].n # 0
  <2>1. /\ SharesOf(f)' = SharesOf(f) /\ zset'[f] = NoScore
        /\ job[w].pc = "del_zset" /\ job'[w].pc = "del_hash"
    BY <1>2, <1>8, SameOwn DEF DelZset, At, ZsetZrem, Whole, Typed, TypeOK
  <2> QED BY <1>2, <2>1 DEF Stage, InsertedSteps, LockSteps, PendingSteps, Dirty
<1>9. CASE DelHash(w)
  <2>1. /\ job[w].pc = "del_hash" /\ job'[w].pc = "del_own"
        /\ SharesOf(f)' = SharesOf(f) /\ zset' = zset /\ f \notin hash'
    BY <1>2, <1>9, SameOwn DEF DelHash, At, Hdel
  <2>2. Clean(f)'
    BY <1>2, <2>1 DEF Stage, Clean
  <2> QED BY <2>1, <2>2, StageOther DEF Staged, InsertedSteps, LockSteps, PendingSteps
<1>10. CASE DelOwn(w)
  <2>1. /\ SharesOf(f)' = SharesOf(f) /\ zset' = zset /\ hash' = hash
        /\ job[w].pc = "del_own" /\ job'[w].pc = "idle"
    BY <1>2, <1>10, SameOwn DEF DelOwn, At
  <2>2. Clean(f)'
    BY <1>2, <2>1, CleanSame DEF Dirty
  <2> QED BY <2>1, <2>2, StageOther DEF Staged, InsertedSteps, LockSteps, PendingSteps
<1> QED BY <1>3, <1>4, <1>5, <1>6, <1>7, <1>8, <1>9, <1>10 DEF handleDeleteFile

LEMMA RankByPv ==
    ASSUME Whole, NEW w \in Workers, handlePvFile(w), Calm', NEW f \in Files,
           job[w].f = f
    PROVE  Stage(w, f)' /\ Clean(f)'
<1>1. Work(w) /\ job[w].op = "pv"
  BY PvMoves DEF Work, Whole
<1>2. /\ Works /\ ~Fails(w) /\ Stage(w, f) /\ IsFiniteSet(Pending(f))
      /\ \A r, q \in share_file_list : r.f = q.f => r = q
      /\ \A g \in Files : Undisturbed(g) => Clean(g)
  BY <1>1, CalmFacts
<1>3. Clean(f)
  BY <1>1, <1>2, UndisturbedByPv DEF Whole
<1>4. /\ \A p : Goto(w, p) => job'[w].pc = p /\ job'[w].n = job[w].n /\ job'[w].f = f
      /\ Reply(w) => job'[w].pc = "idle"
      /\ Others(w)
  BY <1>1, GoneFacts, Replied, EndsFacts, IdleJob, WorkMoves DEF Whole
<1>5. ASSUME SharesOf(f)' = SharesOf(f), zset' = zset, hash' = hash,
             job[w].pc \notin PendingSteps, job'[w].pc \notin PendingSteps
      PROVE  Clean(f)'
  <2>1. Pending(f)' = Pending(f)
    BY <1>4, <1>5 DEF Pending, Others
  <2> QED BY <1>3, <1>5, <2>1, CleanSame
<1>6. CASE PvRead(w)
  <2>1. /\ SharesOf(f)' = SharesOf(f) /\ zset' = zset /\ hash' = hash /\ job[w].pc = "pv_read"
    BY <1>6, SameOwn DEF PvRead, board, At
  <2>2. CASE Reply(w)
    BY <1>4, <1>5, <2>1, <2>2, StageOther DEF Staged, InsertedSteps, LockSteps, PendingSteps
  <2>3. CASE ~Reply(w)
    <3>1. PICK r \in SharesOf(f) : Move(w, [job[w] EXCEPT !.n = r.pv, !.pc = "pv_update"])
      BY <1>6, <2>3 DEF PvRead
    <3>2. r.pv \in Nat
      BY DEF Whole, Typed, TypeOK, Row, SharesOf
    <3>3. job'[w].pc = "pv_update" /\ job'[w].n = r.pv
      BY <3>1, <3>2, NotedFacts DEF Whole
    <3> QED BY <1>5, <2>1, <3>1, <3>3 DEF Stage, InsertedSteps, LockSteps, PendingSteps
  <2> QED BY <2>2, <2>3
<1>7. CASE PvUpdate(w)
  <2>1. /\ SharesOf(f)' = SharesOf(f) /\ zset' = zset /\ hash' = hash
        /\ job[w].pc = "pv_update" /\ job'[w].pc = "pv_commit" /\ job'[w].n = job[w].n
    BY <1>2, <1>4, <1>7, SameOwn DEF PvUpdate, board, At
  <2>2. \E r \in SharesOf(f) : r.pv = job[w].n
    BY <1>2, <2>1 DEF Stage, LockSteps
  <2> QED BY <1>5, <2>1, <2>2 DEF Stage, InsertedSteps, LockSteps, PendingSteps
<1>8. CASE PvCommit(w)
  <2>1. /\ share_file_list' = Bumped(w) /\ zset' = zset /\ hash' = hash
        /\ job[w].pc = "pv_commit" /\ job'[w].pc = "pv_exist" /\ job'[w].f = f
    BY <1>2, <1>4, <1>8 DEF PvCommit, At, Bumped, Bump
  <2>2. PICK r \in SharesOf(f) : r.pv = job[w].n
    BY <1>2, <2>1 DEF Stage, LockSteps
  <2>3. r \in share_file_list /\ r.f = f /\ SharesOf(f) = {r} /\ job[w].n \in Nat
    BY <1>2, <2>2 DEF SharesOf, Whole, Typed, Job
  <2>4. Bump(w, r) \in SharesOf(f)' /\ \A q \in SharesOf(f)' : q.pv = job[w].n + 1
    BY <2>1, <2>3, BumpRow DEF SharesOf, Bumped, Whole
  <2>5. Pending(f)' = Pending(f) \cup {w} /\ w \notin Pending(f)
    BY <1>4, <2>1 DEF Pending, PendingSteps, Others
  <2>6. /\ Cardinality(Pending(f)') = Cardinality(Pending(f)) + 1
        /\ Cardinality(Pending(f)) \in Nat
    BY <1>2, <2>5, FS_AddElement, FS_CardinalityType
  <2>7. zset[f] \in Nat /\ f \in hash /\ zset[f] + Cardinality(Pending(f)) = job[w].n
    BY <1>3, <2>2, <2>3 DEF Clean
  <2>8. Clean(f)'
    BY <2>1, <2>4, <2>6, <2>7 DEF Clean
  <2>9. Stage(w, f)'
    BY <2>1, <2>4 DEF Stage, InsertedSteps, LockSteps, PendingSteps
  <2> QED BY <2>8, <2>9
<1>9. CASE PvExist(w)
  <2>1. /\ SharesOf(f)' = SharesOf(f) /\ zset' = zset /\ hash' = hash
        /\ job[w].pc = "pv_exist"
    BY <1>9, SameOwn DEF PvExist, board, At
  <2>2. SharesOf(f) # {} /\ zset[f] # NoScore
    BY <1>2, <1>3, <2>1 DEF Stage, PendingSteps, Clean, NoScore
  <2>3. job'[w].pc = "pv_incr" /\ job'[w].f = f
    BY <1>2, <1>4, <1>9, <2>2 DEF PvExist
  <2>4. Pending(f)' = Pending(f)
    BY <1>4, <2>1, <2>3 DEF Pending, PendingSteps, Others
  <2>5. Clean(f)'
    BY <1>3, <2>1, <2>4, CleanSame
  <2> QED BY <2>1, <2>2, <2>3, <2>5 DEF Stage, InsertedSteps, LockSteps, PendingSteps
<1>10. CASE PvIncr(w)
  <2>1. /\ SharesOf(f)' = SharesOf(f) /\ hash' = hash
        /\ job[w].pc = "pv_incr" /\ job'[w].pc = "idle"
    BY <1>2, <1>4, <1>10, SameOwn DEF PvIncr, At
  <2>2. SharesOf(f) # {} /\ zset[f] \in Nat /\ f \in hash
    BY <1>2, <1>3, <2>1 DEF Stage, PendingSteps, Clean
  <2>3. zset'[f] = zset[f] + 1
    BY <1>2, <1>10, <2>2 DEF PvIncr, ZsetIncr, Whole, Typed, TypeOK, NoScore
  <2>4. Pending(f)' = Pending(f) \ {w} /\ w \in Pending(f)
    BY <1>4, <2>1 DEF Pending, PendingSteps, Others
  <2>5. /\ Cardinality(Pending(f)') = Cardinality(Pending(f)) - 1
        /\ Cardinality(Pending(f)) \in Nat
    BY <1>2, <2>4, FS_RemoveElement, FS_CardinalityType
  <2>6. \A r \in SharesOf(f) : zset[f] + Cardinality(Pending(f)) = r.pv
    BY <1>3, <2>2 DEF Clean
  <2>7. Clean(f)'
    BY <2>1, <2>2, <2>3, <2>5, <2>6 DEF Clean
  <2> QED BY <2>1, <2>7, StageOther DEF Staged, InsertedSteps, LockSteps, PendingSteps
<1>11. ~PvAdd(w) /\ ~PvHash(w)
  BY <1>2 DEF Stage, PvAdd, PvHash, At
<1> QED BY <1>6, <1>7, <1>8, <1>9, <1>10, <1>11 DEF handlePvFile

LEMMA RankKept ==
    ASSUME Whole, NEW w \in Workers, Work(w)
    PROVE  RankInv'
<1> SUFFICES ASSUME Calm'
             PROVE  /\ \A v \in Workers, f \in Files : job'[v].f = f => Stage(v, f)'
                    /\ \A f \in Files : Undisturbed(f)' => Clean(f)'
                    /\ \A f \in Files : IsFiniteSet(Pending(f)')
  BY DEF RankInv, Calm
<1>1. /\ Others(w) /\ (job'[w] = Idle \/ GoesOn(w)) /\ job[w].op \in AllOps
      /\ job[w].f \in Files
  BY WorkMoves, Busy DEF Whole
<1>2. /\ \A f \in Files : Undisturbed(f) => Clean(f)
      /\ \A f \in Files : IsFiniteSet(Pending(f))
  BY CalmFacts
<1>3. ASSUME NEW v \in Workers, NEW f \in Files, job'[v].f = f
      PROVE  Stage(v, f)'
  <2>1. CASE v # w
    <3>1. job[v].f = f
      BY <1>1, <1>3, <2>1 DEF Others
    <3> QED BY <2>1, <3>1, StageElsewhere
  <2>2. CASE v = w /\ job'[w].pc \notin Staged
    BY <2>2, StageOther
  <2>3. CASE v = w /\ job'[w].pc \in Staged
    <3>1. Idle.pc \notin Staged
      BY IdleJob DEF Staged, InsertedSteps, LockSteps, PendingSteps
    <3>2. GoesOn(w)
      BY <1>1, <2>3, <3>1
    <3>3. \A op \in {"count", "list", "rank"} : StepsOf[op] \cap Staged = {}
      BY DEF StepsOf, CountSteps, ListSteps, RankSteps, Staged, InsertedSteps, LockSteps,
         PendingSteps
    <3>4. job[w].op \in {"share", "cancel", "pv", "del"} /\ job[w].f = f
      BY <1>1, <1>3, <2>3, <3>2, <3>3 DEF GoesOn, AllOps
    <3> QED BY <2>3, <3>4, RankByShare, RankByCancel, RankByDelete, RankByPv, ReaderMoves
            DEF Work, Whole
  <2> QED BY <2>1, <2>2, <2>3
<1>4. ASSUME NEW f \in Files, Undisturbed(f)'
      PROVE  Clean(f)'
  <2>1. CASE f # job[w].f \/ job[w].op \notin Changing \cup {"pv"}
    <3>1. Same(f)
      BY <2>1, WorkFrame DEF Whole
    <3>2. Pending(f)' = Pending(f)
      BY <2>1, PendingSame
    <3>3. Undisturbed(f)
      <4>1. Dirty \subseteq ShareSteps \cup CancelSteps \cup DelSteps
        BY DEF Dirty, ShareSteps, CancelSteps, DelSteps
      <4>2. job[w].pc \in Dirty => job[w].op \in Changing
        BY <4>1, OpOf DEF Whole, Changing
      <4> QED BY <1>1, <1>4, <2>1, <4>2 DEF Undisturbed, Others
    <3> QED BY <1>2, <3>1, <3>2, <3>3, CleanSame DEF Same
  <2>2. CASE f = job[w].f /\ job[w].op \in Changing
    <3>1. "idle" \notin Dirty
      BY DEF Dirty
    <3>2. job'[w].pc \notin Dirty
      BY <1>1, <1>4, <2>2, <3>1, IdleJob DEF Undisturbed, GoesOn, Changing
    <3> QED BY <2>2, <3>2, RankByShare, RankByCancel, RankByDelete, PvMoves, ReaderMoves
            DEF Work, Whole, Changing
  <2>3. CASE f = job[w].f /\ job[w].op = "pv"
    BY <2>3, RankByPv, ShareMoves, CancelMoves, DelMoves, ReaderMoves DEF Work, Whole
  <2> QED BY <2>1, <2>2, <2>3
<1>5. ASSUME NEW f \in Files
      PROVE  IsFiniteSet(Pending(f)')
  <2>1. Pending(f)' \subseteq Pending(f) \cup {w}
    BY <1>1 DEF Pending, Others
  <2>2. IsFiniteSet(Pending(f) \cup {w})
    BY <1>2, FS_AddElement
  <2> QED BY <2>1, <2>2, FS_Subset
<1> QED BY <1>3, <1>4, <1>5

LEMMA WholeKept ==
    ASSUME Whole, NEW w \in Workers, Work(w)
    PROVE  Whole'
BY WorkTyped, ApartKept, OwnKept, OneRowKept, RankKept DEF Whole

LEMMA WholeAtStart ==
    ASSUME Whole, NEW w \in Workers, Start(w), Note, ~astray'
    PROVE  Whole'
<1>1. PICK op \in Ops, u \in Users, f \in Files :
         Begins(w, op, u, f) /\ InGoodOrder(op, u, f)
  BY StartBegins, BegunInOrder DEF Whole
<1>2. Typed' /\ Locks' /\ Apart' /\ OwnInv'
  BY <1>1, BeginsTyped, StartsApart, OwnAtStart DEF Whole
<1>3. /\ Others(w) /\ job[w].pc = "idle" /\ job'[w].pc = FirstPc[op]
      /\ UNCHANGED <<share_file_list, zset, hash, up, failed, faults>>
  BY <1>1, IdleJob DEF Begins, board
<1>4. \A g : SharesOf(g)' = SharesOf(g)
  BY <1>3, SameOwn
<1>5. FirstPc[op] \notin Staged \cup Dirty \cup {"share_status", "share_insert", "idle"}
  BY BoardAssumption DEF AllOps, FirstPc, Staged, Dirty, InsertedSteps, LockSteps, PendingSteps
<1>6. OneRow'
  <2>1. Reliable' => Reliable
    BY <1>3 DEF Reliable
  <2> QED BY <1>3, <1>4, <1>5, <2>1 DEF Whole, OneRow, Others
<1>7. RankInv'
  <2>1. \A g \in Files : Pending(g)' = Pending(g)
    BY <1>3, <1>5 DEF Pending, Others, Staged, PendingSteps
  <2>2. \A g \in Files : Undisturbed(g)' => Undisturbed(g)
    <3>1. "idle" \notin Dirty
      BY DEF Dirty
    <3> QED BY <1>3, <3>1 DEF Undisturbed, Others
  <2>3. ASSUME NEW g \in Files, Clean(g)
        PROVE  Clean(g)'
    BY <1>3, <1>4, <2>1, <2>3, CleanSame
  <2>4. ASSUME NEW v \in Workers, NEW g \in Files, job'[v].f = g,
               \A x \in Workers, y \in Files : job[x].f = y => Stage(x, y)
        PROVE  Stage(v, g)'
    <3>1. CASE v = w
      BY <1>3, <1>5, <3>1, StageOther
    <3>2. CASE v # w
      <4>1. job'[v] = job[v] /\ Stage(v, g)
        BY <1>3, <2>4, <3>2 DEF Others
      <4> QED BY <1>3, <1>4, <4>1, StageSame
    <3> QED BY <3>1, <3>2
  <2> QED BY <1>3, <2>1, <2>2, <2>3, <2>4 DEF Whole, RankInv
<1> QED BY <1>2, <1>6, <1>7 DEF Whole

(* The ranking as InitializePvCache leaves it. *)
LEMMA WholeAtInit ==
    ASSUME Whole, InitializePvCache
    PROVE  Whole'
<1>1. /\ Typed' /\ Locks' /\ \A w \in Workers : job'[w] = Idle
      /\ share_file_list' = share_file_list
      /\ failed \subseteq failed' /\ faults <= faults' /\ faults \in Nat /\ faults' \in Nat
      /\ Reloaded
  BY InitializeTyped DEF Whole, Typed
<1>2. Apart' /\ OwnInv'
  BY <1>1, IdleInv
<1>3. OneRow'
  <2>1. Reliable' => Reliable
    BY <1>1 DEF Reliable
  <2>2. Idle.pc = "idle"
    BY IdleJob
  <2> QED BY <1>1, <2>1, <2>2 DEF Whole, OneRow
<1>4. RankInv'
  <2> SUFFICES ASSUME Calm'
               PROVE  /\ \A w \in Workers, f \in Files : job'[w].f = f => Stage(w, f)'
                      /\ \A f \in Files : Undisturbed(f)' => Clean(f)'
                      /\ \A f \in Files : IsFiniteSet(Pending(f)')
    BY DEF RankInv, Calm
  <2>1. ASSUME NEW w \in Workers, NEW f \in Files
        PROVE  Stage(w, f)'
    <3>1. job'[w].pc \notin Staged
      BY <1>1, IdleJob DEF Staged, InsertedSteps, LockSteps, PendingSteps
    <3> QED BY <3>1, StageOther
  <2>2. ASSUME NEW f \in Files
        PROVE  Pending(f)' = {}
    BY <1>1, IdleJob DEF Pending, PendingSteps
  <2>3. ASSUME NEW f \in Files
        PROVE  Clean(f)'
    <3>1. /\ hash' = SharedFiles
          /\ zset' = [g \in Files |-> IF g \in SharedFiles THEN LoadedScore(g) ELSE NoScore]
          /\ Reliable
      BY <1>1, WorksFacts DEF Reloaded, Calm, Reliable
    <3>2. SharesOf(f)' = SharesOf(f)
      BY <1>1, SameOwn
    <3>3. f \in SharedFiles <=> SharesOf(f) # {}
      BY DEF SharedFiles, SharesOf
    <3>4. CASE SharesOf(f) = {}
      BY <3>1, <3>2, <3>3, <3>4 DEF Clean
    <3>5. CASE SharesOf(f) # {}
      <4>1. \A r, q \in SharesOf(f) : r = q
        BY <3>1 DEF Whole, OneRow, SharesOf
      <4>2. /\ LoadedScore(f) \in Nat
            /\ \A r \in SharesOf(f) : r.pv = LoadedScore(f)
        BY <3>3, <3>5, <4>1, Loaded, TypedParts DEF Whole
      <4>3. Cardinality(Pending(f)') = 0
        BY <2>2, FS_EmptySet
      <4> QED BY <3>1, <3>2, <3>3, <3>5, <4>2, <4>3 DEF Clean
    <3> QED BY <3>4, <3>5
  <2>4. \A f \in Files : IsFiniteSet(Pending(f)')
    BY <2>2, FS_EmptySet
  <2> QED BY <2>1, <2>3, <2>4
<1> QED BY <1>1, <1>2, <1>3, <1>4 DEF Whole

LEMMA WholeAtCrash ==
    ASSUME Whole, Crash
    PROVE  Whole'
<1>1. /\ Typed' /\ Locks' /\ ~up' /\ \A w \in Workers : job'[w] = Idle
      /\ share_file_list' = share_file_list
      /\ failed \subseteq failed' /\ faults' = faults + 1 /\ faults \in Nat
  BY CrashTyped DEF Whole, Typed, board
<1>2. Apart' /\ OwnInv' /\ RankInv'
  BY <1>1, IdleInv DEF RankInv
<1>3. OneRow'
  <2>1. Reliable' => Reliable
    BY <1>1 DEF Reliable
  <2>2. Idle.pc = "idle"
    BY IdleJob
  <2> QED BY <1>1, <2>1, <2>2 DEF Whole, OneRow
<1> QED BY <1>1, <1>2, <1>3 DEF Whole

LEMMA WholeStutters ==
    ASSUME Whole, UNCHANGED vars
    PROVE  Whole'
<1>1. UNCHANGED <<share_file_list, shared_status, zset, hash, count, pvLock, job, answer,
                  up, failed, faults, requests>>
  BY DEF vars, board, tally
<1>2. Typed'
  BY <1>1 DEF Whole, Typed, TypeOK, InOrder
<1>3. Locks' /\ Apart' /\ OwnInv'
  BY <1>1, SameOwn DEF Whole, Locks, Apart, OwnInv, On
<1>4. OneRow'
  BY <1>1, SameOwn DEF Whole, OneRow, Reliable
<1>5. RankInv'
  BY <1>1, SameOwn DEF Whole, RankInv, Undisturbed, Clean, Pending, Stage
<1> QED BY <1>2, <1>3, <1>4, <1>5 DEF Whole

LEMMA WholeInit ==
    ASSUME Init
    PROVE  Whole
<1>1. \A f : SharesOf(f) = {}
  BY DEF Init, SharesOf
<1>2. Idle.pc = "idle" /\ Idle.op = "none" /\ Idle \in Job
  BY IdleJob
<1>3. Typed /\ Locks
  BY <1>2, FS_EmptySet DEF Init, Typed, TypeOK, Locks, InOrder, LockSteps
<1>4. Apart /\ OwnInv /\ OneRow
  BY <1>1, <1>2 DEF Init, Apart, OwnInv, OneRow, Changing, InsertedSteps, CancelingSteps,
     DeletingSteps
<1>5. RankInv
  <2>1. ASSUME NEW w \in Workers, NEW f \in Files
        PROVE  Stage(w, f)
    BY <1>2, StageOther DEF Init, Staged, InsertedSteps, LockSteps, PendingSteps
  <2>2. \A f \in Files : Clean(f)
    BY <1>1 DEF Init, Clean
  <2>3. \A f \in Files : Pending(f) = {}
    BY <1>2 DEF Init, Pending, PendingSteps
  <2> QED BY <2>1, <2>2, <2>3, FS_EmptySet DEF RankInv
<1> QED BY <1>3, <1>4, <1>5 DEF Whole

(* Once astray, always astray. *)
LEMMA WholeStep ==
    ASSUME ~astray => Whole, [Next /\ Note]_<<vars, notes>>
    PROVE  ~astray' => Whole'
<1> SUFFICES ASSUME ~astray'
             PROVE  Whole'
  OBVIOUS
<1>1. CASE UNCHANGED <<vars, notes>>
  <2>1. UNCHANGED vars /\ astray' = astray
    BY <1>1 DEF notes
  <2> QED BY <2>1, WholeStutters
<1>2. CASE Next /\ Note
  <2>1. Whole
    BY <1>2 DEF Note
  <2> QED BY <1>2, <2>1, WholeKept, WholeAtStart, WholeAtInit, WholeAtCrash DEF Next
<1> QED BY <1>1, <1>2

LEMMA WholeAlways == Spec => [](~astray => Whole)
<1>1. NotedInit => (~astray => Whole)
  BY WholeInit DEF NotedInit
<1>2. (~astray => Whole) /\ [Next /\ Note]_<<vars, notes>> => (~astray => Whole)'
  BY WholeStep
<1> QED BY <1>1, <1>2, PTL DEF Spec

(* Between requests the ranking is the table: each shared file is in the   *)
(* sorted set with the number of its downloads, and in the hash with its   *)
(* name, and nothing else is.  However many threads and downloads overlap, *)
(* and however often the process dies in the middle of them, as long as    *)
(* the requests have come in good order and no call has failed.            *)
THEOREM RankingIsTable == Spec => []SettledRanking
<1>1. ASSUME ~astray => Whole
      PROVE  SettledRanking
  <2> SUFFICES ASSUME Settled, Whole, "call" \notin failed
               PROVE  /\ \A f \in Files : zset[f] =
                            IF f \in SharedFiles THEN LoadedScore(f) ELSE NoScore
                      /\ hash = SharedFiles
    BY <1>1 DEF SettledRanking
  <2>1. \A w \in Workers : job[w].pc = "idle"
    BY DEF Settled, At
  <2>2. ASSUME NEW f \in Files
        PROVE  Clean(f) /\ Cardinality(Pending(f)) = 0
    <3>1. Undisturbed(f) /\ Pending(f) = {}
      BY <2>1 DEF Undisturbed, Pending, Dirty, PendingSteps
    <3> QED BY <3>1, FS_EmptySet DEF Whole, RankInv, Settled
  <2>3. ASSUME NEW f \in Files
        PROVE  f \in SharedFiles <=> SharesOf(f) # {}
    BY DEF SharedFiles, SharesOf
  <2>4. ASSUME NEW f \in Files
        PROVE  zset[f] = IF f \in SharedFiles THEN LoadedScore(f) ELSE NoScore
    <3>1. CASE f \notin SharedFiles
      BY <2>2, <2>3, <3>1 DEF Clean
    <3>2. CASE f \in SharedFiles
      <4>1. zset[f] \in Nat /\ \A r \in SharesOf(f) : zset[f] + Cardinality(Pending(f)) = r.pv
        BY <2>2, <2>3, <3>2 DEF Clean
      <4>2. \E r \in SharesOf(f) : r.pv = LoadedScore(f)
        BY <3>2, Loaded, TypedParts DEF Whole
      <4> QED BY <2>2, <3>2, <4>1, <4>2
    <3> QED BY <3>1, <3>2
  <2>5. \A f \in Files : f \in hash <=> f \in SharedFiles
    BY <2>2, <2>3 DEF Clean
  <2>6. hash \subseteq Files /\ SharedFiles \subseteq Files
    BY Loaded, TypedParts DEF Whole, BoardTyped
  <2> QED BY <2>4, <2>5, <2>6
<1>2. (~astray => Whole) => SettledRanking
  BY <1>1
<1> QED BY WholeAlways, <1>2, PTL

(* What handleShareFile has answered when it is through. *)
ShareAnswered(w) ==
    job[w].op = "share" /\ job'[w].op = "none" /\ up' =>
       /\ answer'[w] = "ok" => OwnShare(job[w].u, job[w].f) # {}
       /\ answer'[w] = "had" /\ "call" \notin failed => SharesOf(job[w].f) # {}

LEMMA AnsweredByShare ==
    ASSUME Whole, NEW w \in Workers, handleShareFile(w), job'[w].op = "none"
    PROVE  ShareAnswered(w)
<1>1. PICK u \in Users, f \in Files : On(w, u, f)
  BY ShareMoves, Busy, WorkMoves DEF On, Work, Whole
<1>2. /\ \A c : Finish(w, c) => answer'[w] = c
      /\ ~ \E p : Goto(w, p)
  <2>1. \A c : Finish(w, c) => Says(w, c)
    BY Ended DEF Whole
  <2>2. \A c : Says(w, c) => answer'[w] = c
    BY DEF Says, Whole, Typed
  <2>3. job[w].op # "none"
    BY ShareMoves DEF Whole
  <2> QED BY <2>1, <2>2, <2>3, GoneFacts DEF Whole
<1>3. up /\ job[w].op \in Changing
  BY ShareMoves, WorkMoves, Busy DEF Work, Whole, Changing
<1>4. CASE ShareHash(w)
  <2>1. OwnShare(u, f) # {}
    BY <1>1, <1>4 DEF Whole, OwnInv, ShareHash, At, InsertedSteps
  <2>2. answer'[w] = "ok"
    BY <1>2, <1>4 DEF ShareHash
  <2> QED BY <1>1, <2>1, <2>2 DEF ShareAnswered, On
<1>5. CASE HadHash(w)
  <2>1. answer'[w] = "had"
    BY <1>2, <1>5 DEF HadHash
  <2>2. "call" \in failed
    BY <1>1, <1>3, <1>5 DEF Whole, RankInv, Stage, On, HadHash, At
  <2> QED BY <2>1, <2>2 DEF ShareAnswered
<1>6. CASE ShareExist(w)
  <2>1. answer'[w] = "fail" \/ (answer'[w] = "had" /\ zset[job[w].f] # NoScore)
    BY <1>2, <1>6 DEF ShareExist
  <2>2. "call" \notin failed => Clean(f)
    <3>1. Undisturbed(f)
      BY <1>1, <1>3, <1>6, Alone DEF Whole, On, ShareExist, At, Dirty
    <3> QED BY <1>3, <3>1 DEF Whole, RankInv
  <2> QED BY <1>1, <2>1, <2>2 DEF ShareAnswered, On, Clean
<1>7. CASE ShareRecord(w) \/ HadZset(w) \/ SetStatus(w, "share_status", 1, "share_insert")
           \/ ShareInsert(w, "share_count") \/ CacheIncrCount(w, "share_count", "share_zset")
           \/ ShareZset(w)
  <2>1. answer'[w] = "fail"
    BY <1>2, <1>7 DEF ShareRecord, HadZset, SetStatus, ShareInsert, CacheIncrCount, ShareZset
  <2> QED BY <2>1 DEF ShareAnswered
<1> QED BY <1>4, <1>5, <1>6, <1>7 DEF handleShareFile

(* ShareOk means that the user's share is in the table, whatever has       *)
(* failed; ShareHad that somebody's is, as long as no call has failed.     *)
THEOREM AnswersOfShare == Spec => ShareAnswers
<1>1. ASSUME Whole, [Next /\ Note]_<<vars, notes>>, NEW w \in Workers
      PROVE  ShareAnswered(w)
  <2>1. CASE job'[w] = job[w] \/ ~up' \/ job[w] = Idle
    BY <2>1, IdleJob DEF ShareAnswered
  <2>2. CASE ~(job'[w] = job[w] \/ ~up' \/ job[w] = Idle)
    <3>1. ~Crash /\ ~InitializePvCache /\ job' # job
      BY <2>2 DEF Crash, InitializePvCache
    <3>2. PICK v \in Workers : Start(v) \/ Work(v)
      BY <1>1, <3>1 DEF Next, vars, notes
    <3>3. CASE Start(v)
      <4>1. Others(v) /\ job[v] = Idle
        BY <1>1, <3>3, StartBegins DEF Whole, Begins
      <4> QED BY <2>2, <4>1 DEF Others
    <3>4. CASE Work(v)
      <4>1. v = w
        BY <1>1, <2>2, <3>4, WorkMoves DEF Whole, Others
      <4>2. CASE job[w].op = "share" /\ job'[w].op = "none"
        <5>1. handleShareFile(w)
          BY <1>1, <3>4, <4>1, <4>2, CancelMoves, PvMoves, DelMoves, ReaderMoves
             DEF Work, Whole
        <5> QED BY <1>1, <4>2, <5>1, AnsweredByShare
      <4>3. CASE ~(job[w].op = "share" /\ job'[w].op = "none")
        BY <4>3 DEF ShareAnswered
      <4> QED BY <4>2, <4>3
    <3> QED BY <3>2, <3>3, <3>4
  <2> QED BY <2>1, <2>2
<1>2. (~astray => Whole) /\ [Next /\ Note]_<<vars, notes>> =>
        [\A w \in Workers :
          job[w].op = "share" /\ job'[w].op = "none" /\ up' /\ ~astray =>
             /\ answer'[w] = "ok" => OwnShare(job[w].u, job[w].f) # {}
             /\ answer'[w] = "had" /\ "call" \notin failed
                   => SharesOf(job[w].f) # {}]_<<vars, notes>>
  BY <1>1 DEF ShareAnswered
<1> QED BY WholeAlways, <1>2, PTL DEF Spec, ShareAnswers

-------------------------------------------------------------------------------
(* FILE_PUBLIC_COUNT.  A row counts unless its handler is between the      *)
(* table and the counter; a deletion has taken its row and not yet counted *)
(* down.                                                                   *)
UncountedSteps == {"share_count", "cancel_floor", "cancel_rows"}
Uncounted(f)   == \E w \in Workers : job[w].f = f /\ job[w].pc \in UncountedSteps
CountedRows    == {r \in share_file_list : ~Uncounted(r.f)}
Phantoms       == {w \in Workers : job[w].pc = "del_count"}
Total          == Cardinality(CountedRows) + Cardinality(Phantoms)

(* The least that is left of the total when those who are at work, and can *)
(* still lower it, have done so.                                           *)
LoweringSteps == {"cancel_status", "cancel_count", "del_exist", "del_status", "del_rows",
                  "del_count"}
Low(p)        == IF p \in LoweringSteps THEN 1 ELSE 0
Lowerers      == {w \in Workers : job[w].pc \in LoweringSteps}
Least         == Total - Cardinality(Lowerers)

(* At most one failure, and not of a deletion. *)
Mild       == faults <= 1 /\ "del" \notin failed
FloorSteps == {"cancel_floor", "del_floor"}

(* A number that waits to be written is above that least by no more than   *)
(* the changes beside its reload, and, once written, the counter is above  *)
(* the total by no more than that.  A reload with no change beside it      *)
(* makes the counter right.                                                *)
LoadedInv(w) ==
    /\ Cardinality(Changers) <= beside[w]
    /\ Mild => job[w].n <= Least + beside[w]
    /\ failed = {} /\ beside[w] = 0 => job[w].n = Total

CountInv ==
    /\ beside \in [Workers -> Nat] /\ off \in Nat
    /\ Mild => count <= Total + off
    /\ failed = {} /\ off = 0 =>
          count = Total /\ \A w \in Workers : job[w].pc \notin FloorSteps
    /\ \A w \in Workers : job[w].pc = "count_set" => LoadedInv(w)

(* shared_status marks the user's own share, but for the steps of a        *)
(* handler that has changed one of the two; and what the handlers then     *)
(* rely on.                                                                *)
DirtyStatus == {"share_insert", "cancel_count", "cancel_floor", "cancel_rows", "del_count",
                "del_floor", "del_zset", "del_hash", "del_own"}
Unmarked(u, f) == \A w \in Workers : On(w, u, f) => job[w].pc \notin DirtyStatus
Marked(u, f)   == shared_status[<<u, f>>] = 1 <=> OwnShare(u, f) # {}

StatusStage(w, u, f) ==
    /\ job[w].pc \in {"share_exist", "share_record", "share_status"} =>
          shared_status[<<u, f>>] # NoRow
    /\ job[w].pc = "share_insert" => shared_status[<<u, f>>] = 1
    /\ job[w].pc \in {"cancel_count", "cancel_floor", "cancel_rows"} =>
          shared_status[<<u, f>>] # 1
    /\ job[w].pc = "del_own" => SharesOf(f) = {}
    /\ job[w].pc = "del_rows" => SharesOf(f) # {}

StatusInv == failed = {} =>
    /\ \A u \in Users, f \in Files : Unmarked(u, f) => Marked(u, f)
    /\ \A w \in Workers, u \in Users, f \in Files : On(w, u, f) => StatusStage(w, u, f)

Counts == Whole /\ CountInv /\ StatusInv

LEMMA Sizes ==
    /\ IsFiniteSet(Phantoms) /\ IsFiniteSet(Phantoms')
    /\ IsFiniteSet(Lowerers) /\ IsFiniteSet(Lowerers')
    /\ IsFiniteSet(Changers) /\ IsFiniteSet(Changers')
    /\ Cardinality(Lowerers) \in Nat /\ Cardinality(Lowerers') \in Nat
    /\ Cardinality(Changers) \in Nat /\ Cardinality(Changers') \in Nat
<1>1. /\ Phantoms \in SUBSET Workers /\ Phantoms' \in SUBSET Workers
      /\ Lowerers \in SUBSET Workers /\ Lowerers' \in SUBSET Workers
      /\ Changers \in SUBSET Workers /\ Changers' \in SUBSET Workers
  BY DEF Phantoms, Lowerers, Changers
<1>2. \A S \in SUBSET Workers : IsFiniteSet(S) /\ Cardinality(S) \in Nat
  BY BoardAssumption, FS_Subset, FS_CardinalityType
<1> QED BY <1>1, <1>2

(* What the file of a worker adds to the total: p is the worker's step, s  *)
(* the number of the file's rows.                                          *)
Mass(p, s) == (IF p \in UncountedSteps THEN 0 ELSE s) + (IF p = "del_count" THEN 1 ELSE 0)

(* A finite table L, split into the rows S of a file and the rest. *)
LEMMA Split ==
    ASSUME NEW L, IsFiniteSet(L), NEW A \in SUBSET L, NEW S \in SUBSET L, A \cap S = {},
           NEW b \in BOOLEAN
    PROVE  /\ Cardinality(A) \in Nat /\ Cardinality(S) \in Nat
           /\ Cardinality(IF b THEN A ELSE A \cup S)
                 = Cardinality(A) + (IF b THEN 0 ELSE Cardinality(S))
<1>1. IsFiniteSet(A) /\ IsFiniteSet(S)
  BY FS_Subset
<1>2. Cardinality(A) \in Nat /\ Cardinality(S) \in Nat
  BY <1>1, FS_CardinalityType
<1>3. Cardinality(A \cup S) = Cardinality(A) + Cardinality(S) - Cardinality(A \cap S)
  BY <1>1, FS_Union
<1>4. Cardinality(A \cap S) = 0
  BY FS_EmptySet
<1> QED BY <1>2, <1>3, <1>4

LEMMA OneShare ==
    ASSUME Whole, Reliable, NEW f
    PROVE  Cardinality(SharesOf(f)) = IF SharesOf(f) = {} THEN 0 ELSE 1
<1>1. CASE SharesOf(f) = {}
  BY <1>1, FS_EmptySet
<1>2. CASE SharesOf(f) # {}
  <2>1. PICK r \in SharesOf(f) : SharesOf(f) = {r}
    BY <1>2 DEF SharesOf, Whole, OneRow
  <2> QED BY <1>2, <2>1, FS_Singleton
<1> QED BY <1>1, <1>2

(* Which steps the counter waits for, by request. *)
WaitedFor == UncountedSteps \cup LoweringSteps

LEMMA WaitingSteps ==
    ASSUME Typed, NEW w \in Workers
    PROVE  /\ job[w].pc \in WaitedFor => job[w].op \in Changing
           /\ Idle.pc \notin WaitedFor
           /\ \A op \in AllOps \ Changing : StepsOf[op] \cap WaitedFor = {}
<1>1. WaitedFor \subseteq ShareSteps \cup CancelSteps \cup DelSteps
  BY DEF WaitedFor, UncountedSteps, LoweringSteps, ShareSteps, CancelSteps, DelSteps
<1>2. Idle.pc \notin WaitedFor
  BY IdleJob DEF WaitedFor, UncountedSteps, LoweringSteps
<1>3. \A op \in AllOps \ Changing : StepsOf[op] \cap WaitedFor = {}
  BY DEF AllOps, Changing, StepsOf, WaitedFor, UncountedSteps, LoweringSteps, PvSteps,
     CountSteps, ListSteps, RankSteps
<1> QED BY <1>1, <1>2, <1>3, OpOf DEF Changing

(* Whether a row counts changes only with the step of its own handler. *)
LEMMA UncountedElsewhere ==
    ASSUME Whole, NEW w \in Workers, Work(w)
    PROVE  /\ \A f \in Files : f # job[w].f \/ job[w].op \notin Changing =>
                 (Uncounted(f)' <=> Uncounted(f))
           /\ \A f \in Files : f = job[w].f /\ job[w].op \in Changing =>
                 /\ Uncounted(f) <=> job[w].pc \in UncountedSteps
                 /\ Uncounted(f)' <=> job'[w].pc \in UncountedSteps
           /\ job[w].op \notin Changing => Phantoms' = Phantoms /\ Lowerers' = Lowerers
           /\ Changers' \subseteq Changers
           /\ job[w].op \notin Changing => Changers' = Changers
<1>1. Others(w) /\ (job'[w] = Idle \/ GoesOn(w)) /\ job[w].op \in AllOps
  BY WorkMoves, Busy DEF Whole
<1>2. job[w].op \notin Changing => /\ job[w].pc \notin UncountedSteps \cup LoweringSteps
                                   /\ job'[w].pc \notin UncountedSteps \cup LoweringSteps
  BY <1>1, WaitingSteps DEF Whole, GoesOn, WaitedFor
<1>3. job[w].op \in Changing => job'[w].f = job[w].f \/ job'[w].pc \notin UncountedSteps
  BY <1>1, WaitingSteps DEF GoesOn, Changing, Whole, WaitedFor
<1>4. ASSUME NEW f \in Files, f # job[w].f \/ job[w].op \notin Changing, NEW v \in Workers
      PROVE  (job'[v].f = f /\ job'[v].pc \in UncountedSteps)
                <=> (job[v].f = f /\ job[v].pc \in UncountedSteps)
  BY <1>1, <1>2, <1>3, <1>4 DEF Others
<1>5. ASSUME NEW f \in Files, f # job[w].f \/ job[w].op \notin Changing
      PROVE  Uncounted(f)' <=> Uncounted(f)
  BY <1>4, <1>5 DEF Uncounted
<1>6. ASSUME NEW f \in Files, f = job[w].f, job[w].op \in Changing
      PROVE  /\ Uncounted(f) <=> job[w].pc \in UncountedSteps
             /\ Uncounted(f)' <=> job'[w].pc \in UncountedSteps
  <2>1. \A v \in Workers \ {w} : job[v].f = f => job[v].pc \notin UncountedSteps
    BY <1>6, Alone, WaitingSteps DEF Whole, WaitedFor
  <2> QED BY <1>1, <1>3, <1>6, <2>1 DEF Uncounted, Others
<1>7. ASSUME job[w].op \notin Changing
      PROVE  Phantoms' = Phantoms /\ Lowerers' = Lowerers
  <2>1. \A v \in Workers : /\ (job'[v].pc = "del_count" <=> job[v].pc = "del_count")
                            /\ (job'[v].pc \in LoweringSteps <=> job[v].pc \in LoweringSteps)
    BY <1>1, <1>2, <1>7 DEF Others, LoweringSteps
  <2> QED BY <2>1 DEF Phantoms, Lowerers
<1>8. /\ Changers' \subseteq Changers
      /\ job[w].op \notin Changing => Changers' = Changers
  <2>1. "none" \notin Changing /\ Idle.op = "none"
    BY IdleJob DEF Changing
  <2>2. \A v \in Workers : job'[v].op \in Changing => job[v].op \in Changing
    BY <1>1, <2>1 DEF Others, GoesOn
  <2>3. ASSUME job[w].op \notin Changing, NEW v \in Workers
        PROVE  job[v].op \in Changing => job'[v].op \in Changing
    BY <1>1, <2>3 DEF Others
  <2> QED BY <2>2, <2>3 DEF Changers
<1> QED BY <1>5, <1>6, <1>7, <1>8

(* A step of a handler changes the total by what its file adds to it. *)
LEMMA Balance ==
    ASSUME Whole, NEW w \in Workers, Work(w),
           job[w].op \in Changing, NEW f \in Files, f = job[w].f
    PROVE  /\ Cardinality(SharesOf(f)) \in Nat /\ Cardinality(SharesOf(f))' \in Nat
           /\ Total \in Nat /\ Total' \in Nat
           /\ \E k \in Int : /\ Total = k + Mass(job[w].pc, Cardinality(SharesOf(f)))
                             /\ Total' = k + Mass(job'[w].pc, Cardinality(SharesOf(f))')
<1>1. IsFiniteSet(share_file_list) /\ IsFiniteSet(share_file_list')
      /\ share_file_list \subseteq Row /\ share_file_list' \subseteq Row
  BY WorkFrame, TypedParts DEF Whole, BoardTyped
<1>2. Others(w)
  BY WorkMoves DEF Whole
<1>3. /\ Uncounted(f) <=> job[w].pc \in UncountedSteps
      /\ Uncounted(f)' <=> job'[w].pc \in UncountedSteps
      /\ \A g \in Files : g # f => (Uncounted(g)' <=> Uncounted(g))
  BY UncountedElsewhere
<1> DEFINE A  == {r \in share_file_list : r.f # f /\ ~Uncounted(r.f)}
           S  == SharesOf(f)
           Sn == SharesOf(f)'
           b  == job[w].pc \in UncountedSteps
           bn == job'[w].pc \in UncountedSteps
           Q  == {v \in Workers \ {w} : job[v].pc = "del_count"}
           x  == IF job[w].pc = "del_count" THEN 1 ELSE 0
           xn == IF job'[w].pc = "del_count" THEN 1 ELSE 0
<1>4. A = {r \in share_file_list' : r.f # f /\ ~Uncounted(r.f)'}
  <2>1. \A g \in Files : g # f => SharesOf(g)' = SharesOf(g)
    BY WorkFrame DEF Whole, Same
  <2>2. ASSUME NEW r, r.f # f, r \in share_file_list \/ r \in share_file_list'
        PROVE  (r \in share_file_list <=> r \in share_file_list')
               /\ (Uncounted(r.f) <=> Uncounted(r.f)')
    <3>1. r.f \in Files
      BY <1>1, <2>2 DEF Row
    <3> QED BY <1>3, <2>1, <2>2, <3>1 DEF SharesOf
  <2> QED BY <2>2
<1>5. /\ CountedRows = IF b THEN A ELSE A \cup S
      /\ A \in SUBSET share_file_list /\ S \in SUBSET share_file_list /\ A \cap S = {}
  BY <1>3 DEF CountedRows, SharesOf
<1>6. /\ CountedRows' = IF bn THEN A ELSE A \cup Sn
      /\ A \in SUBSET share_file_list' /\ Sn \in SUBSET share_file_list' /\ A \cap Sn = {}
  <2> DEFINE An == {r \in share_file_list' : r.f # f /\ ~Uncounted(r.f)'}
  <2>1. /\ CountedRows' = IF bn THEN An ELSE An \cup Sn
        /\ An \in SUBSET share_file_list' /\ Sn \in SUBSET share_file_list' /\ An \cap Sn = {}
    BY <1>3 DEF CountedRows, SharesOf
  <2> HIDE DEF A
  <2> QED BY <1>4, <2>1
<1>7. /\ Phantoms = (IF x = 1 THEN Q \cup {w} ELSE Q)
      /\ Phantoms' = (IF xn = 1 THEN Q \cup {w} ELSE Q)
      /\ w \notin Q
  BY <1>2 DEF Phantoms, Others
<1> HIDE DEF A, Q, S, Sn
<1>8. IsFiniteSet(Q)
  BY <1>7, Sizes, FS_Subset
<1>9. /\ Cardinality(Q) \in Nat
      /\ Cardinality(Phantoms) = Cardinality(Q) + x
      /\ Cardinality(Phantoms') = Cardinality(Q) + xn
  <2>1. x \in {0, 1} /\ xn \in {0, 1}
    OBVIOUS
  <2>2. Cardinality(Q) \in Nat
    BY <1>8, FS_CardinalityType
  <2>3. IsFiniteSet(Q \cup {w}) /\ Cardinality(Q \cup {w}) = Cardinality(Q) + 1
    BY <1>7, <1>8, FS_AddElement
  <2> HIDE DEF x, xn
  <2> QED BY <1>7, <1>8, <2>1, <2>2, <2>3
<1>10. /\ Cardinality(A) \in Nat /\ Cardinality(S) \in Nat
       /\ Cardinality(CountedRows) = Cardinality(A) + (IF b THEN 0 ELSE Cardinality(S))
  BY <1>1, <1>5, Split, ZenonT(60)
<1>11. /\ Cardinality(Sn) \in Nat
       /\ Cardinality(CountedRows') = Cardinality(A) + (IF bn THEN 0 ELSE Cardinality(Sn))
  BY <1>1, <1>6, Split, ZenonT(60)
<1> DEFINE k == Cardinality(A) + Cardinality(Q)
<1>12. /\ Total = k + Mass(job[w].pc, Cardinality(S))
       /\ Total' = k + Mass(job'[w].pc, Cardinality(Sn))
       /\ k \in Int /\ Total \in Nat /\ Total' \in Nat
  BY <1>9, <1>10, <1>11 DEF Total, Mass
<1> QED BY <1>9, <1>10, <1>11, <1>12 DEF S, Sn

(* The same for those who can still lower the total. *)
LEMMA LowBalance ==
    ASSUME Whole, NEW w \in Workers, Work(w)
    PROVE  \E q \in Int : /\ Cardinality(Lowerers) = q + Low(job[w].pc)
                          /\ Cardinality(Lowerers') = q + Low(job'[w].pc)
<1> DEFINE Q  == {v \in Workers \ {w} : job[v].pc \in LoweringSteps}
           x  == Low(job[w].pc)
           xn == Low(job'[w].pc)
<1>1. Others(w)
  BY WorkMoves DEF Whole
<1>2. x \in {0, 1} /\ xn \in {0, 1}
  BY DEF Low
<1>3. /\ Lowerers = (IF x = 1 THEN Q \cup {w} ELSE Q)
      /\ Lowerers' = (IF xn = 1 THEN Q \cup {w} ELSE Q)
      /\ w \notin Q
  BY <1>1 DEF Lowerers, Others, Low
<1> HIDE DEF Q, x, xn
<1>4. IsFiniteSet(Q)
  BY <1>3, Sizes, FS_Subset
<1>5. Cardinality(Q) \in Nat /\ Cardinality(Q \cup {w}) = Cardinality(Q) + 1
  BY <1>3, <1>4, FS_CardinalityType, FS_AddElement
<1>6. /\ Cardinality(Lowerers) = Cardinality(Q) + x
      /\ Cardinality(Lowerers') = Cardinality(Q) + xn
  BY <1>2, <1>3, <1>5
<1> QED BY <1>5, <1>6 DEF x, xn

(* What the step of a handler may start from: failures only add up. *)
LEMMA Premises ==
    ASSUME Counts, NEW w \in Workers, Work(w)
    PROVE  /\ Works \/ Fails(w)
           /\ ~(Works /\ Fails(w))
           /\ Mild' => Mild /\ Reliable /\ count <= Total + off
           /\ failed' = {} => failed = {} /\ Works /\ Reliable /\ up
           /\ failed' = {} /\ off = 0 => count = Total /\ job[w].pc \notin FloorSteps
           /\ Fails(w) => job[w].op \in failed' /\ failed' # {}
<1>1. Typed /\ (Works \/ Fails(w)) /\ ~(Works /\ Fails(w))
  BY Tallies, NotBoth DEF Counts, Whole
<1>2. CASE Works
  BY <1>1, <1>2, WorksFacts DEF Counts, CountInv, Mild, Reliable, Typed
<1>3. CASE Fails(w)
  BY <1>1, <1>3, FaultFacts DEF Fails, Counts, CountInv, Mild, Reliable, Typed
<1> QED BY <1>1, <1>2, <1>3

(* Only who reloads the counter touches off. *)
LEMMA OffKept ==
    ASSUME Typed, Note, NEW w \in Workers, Work(w), job[w].pc # "count_set"
    PROVE  off' = off
<1>1. \A v \in Workers : ~Reloads(v)
  BY WorkMoves DEF Reloads, At, Others
<1> QED BY <1>1 DEF Note

CountKept == /\ Mild' => count' <= Total' + off' /\ Least <= Least'
             /\ failed' = {} /\ off' = 0 => count' = Total'

(* The counter goes with the total, or is set to 0. *)
LEMMA CountFrom ==
    ASSUME Counts, Note, NEW w \in Workers, Work(w), job[w].op \in Changing,
           NEW f \in Files, f = job[w].f,
           NEW m \in Int, m = Mass(job[w].pc, Cardinality(SharesOf(f))),
           NEW mn \in Int, mn = Mass(job'[w].pc, Cardinality(SharesOf(f))'),
           NEW lo \in Int, lo = Low(job[w].pc), NEW ln \in Int, ln = Low(job'[w].pc),
           Mild' => (count' - count <= mn - m \/ count' = 0) /\ m - lo <= mn - ln,
           failed' = {} /\ off = 0 => count' - count = mn - m
    PROVE  CountKept
<1>1. Whole /\ off \in Nat
  BY DEF Counts, CountInv
<1>2. PICK k \in Int : Total = k + m /\ Total' = k + mn
  BY <1>1, Balance
<1>3. Total \in Nat /\ Total' \in Nat
  BY <1>1, Balance
<1>4. count \in Int /\ count' \in Int
  BY <1>1, WorkFrame, TypedParts DEF Whole, BoardTyped
<1>5. /\ Mild' => count <= Total + off
      /\ failed' = {} /\ off = 0 => count = Total
  BY Premises
<1>6. PICK q \in Int : Cardinality(Lowerers) = q + lo /\ Cardinality(Lowerers') = q + ln
  BY <1>1, LowBalance
<1>7. job[w].pc # "count_set"
  BY <1>1, OpOf DEF Whole, Changing, CountSteps
<1>8. off' = off
  BY <1>1, <1>7, OffKept DEF Whole
<1>9. Least = k + m - (q + lo) /\ Least' = k + mn - (q + ln)
  BY <1>2, <1>6 DEF Least
<1>10. Mild' => Least <= Least'
  BY <1>9
<1> QED BY <1>1, <1>2, <1>3, <1>4, <1>5, <1>8, <1>10 DEF CountKept

(* Most steps leave the table and the counter alone. *)
LEMMA CountSame ==
    ASSUME Counts, Note, NEW w \in Workers, Work(w), job[w].op \in Changing,
           share_file_list' = share_file_list, count' = count,
           job[w].pc \notin UncountedSteps \cup {"del_count"},
           job'[w].pc \notin UncountedSteps \cup {"del_count"},
           job'[w].pc \in LoweringSteps => job[w].pc \in LoweringSteps
    PROVE  CountKept
<1>1. Whole
  BY DEF Counts
<1> PICK f \in Files : f = job[w].f
  BY <1>1, WorkMoves, Busy DEF Whole
<1>2. SharesOf(f)' = SharesOf(f)
  BY SameOwn
<1>3. Cardinality(SharesOf(f)) \in Nat
  BY <1>1, Balance
<1>4. count \in Int
  BY <1>1, TypedParts DEF Whole, BoardTyped
<1> PICK m \in Int : m = Cardinality(SharesOf(f))
  BY <1>3
<1>5. m = Mass(job[w].pc, Cardinality(SharesOf(f)))
      /\ m = Mass(job'[w].pc, Cardinality(SharesOf(f)'))
  BY <1>2, <1>3 DEF Mass
<1> PICK lo \in {0, 1} : lo = Low(job[w].pc)
  BY DEF Low
<1> PICK ln \in {0, 1} : ln = Low(job'[w].pc)
  BY DEF Low
<1>6. m - lo <= m - ln
  BY DEF Low
<1>7. count' - count <= m - m /\ count' - count = m - m /\ lo \in Int /\ ln \in Int
  BY <1>4
<1> QED BY <1>5, <1>6, <1>7, CountFrom

(* What a handler's step needs to know for the counter. *)
LEMMA CountFacts ==
    ASSUME Counts, NEW w \in Workers, Work(w), job[w].op \in Changing,
           NEW u \in Users, NEW f \in Files, On(w, u, f)
    PROVE  /\ Cardinality(SharesOf(f)) \in Nat /\ Cardinality(SharesOf(f))' \in Nat
           /\ count \in Int /\ Total \in Nat
           /\ Mild' \/ failed' = {} =>
                 Cardinality(SharesOf(f)) = IF SharesOf(f) = {} THEN 0 ELSE 1
           /\ job[w].pc \in InsertedSteps \cup CancelingSteps => SharesOf(f) # {}
           /\ job[w].pc \in DeletingSteps => SharesOf(f) = OwnShare(u, f)
           /\ failed' = {} => StatusStage(w, u, f)
           /\ Mild' /\ job[w].pc \in {"share_status", "share_insert"} => SharesOf(f) = {}
           /\ failed' = {} /\ job[w].pc \in {"share_status", "share_insert"} => SharesOf(f) = {}
           /\ \A p : Goto(w, p) => job'[w].pc = p
           /\ \A c : Finish(w, c) => job'[w].pc = "idle"
<1>1. Whole
  BY DEF Counts
<1>2. /\ Cardinality(SharesOf(f)) \in Nat /\ Cardinality(SharesOf(f))' \in Nat
      /\ count \in Int /\ Total \in Nat
  BY <1>1, Balance, TypedParts DEF Whole, BoardTyped, On
<1>3. Mild' \/ failed' = {} => Reliable
  BY Premises
<1>4. Reliable => /\ Cardinality(SharesOf(f)) = IF SharesOf(f) = {} THEN 0 ELSE 1
                  /\ job[w].pc \in {"share_status", "share_insert"} => SharesOf(f) = {}
  BY <1>1, OneShare DEF Whole, OneRow, On
<1>5. /\ job[w].pc \in InsertedSteps \cup CancelingSteps => SharesOf(f) # {}
      /\ job[w].pc \in DeletingSteps => SharesOf(f) = OwnShare(u, f)
  BY <1>1 DEF Whole, OwnInv, OwnShare
<1>6. failed' = {} => StatusStage(w, u, f)
  BY Premises DEF Counts, StatusInv
<1>7. /\ \A p : Goto(w, p) => job'[w].pc = p
      /\ \A c : Finish(w, c) => job'[w].pc = "idle"
  BY <1>1, GoneFacts, Ended, EndsFacts, IdleJob DEF Whole
<1> QED BY <1>2, <1>3, <1>4, <1>5, <1>6, <1>7

(* What a handler's step does to the counter and the total, as numbers: the *)
(* rows of its file, what they add to the total, the counter and what the   *)
(* handler may still take off, each before the step and after it.           *)
Numbers(w, f, s, sn, m, mn, c, cn, lo, ln) ==
    /\ s = Cardinality(SharesOf(f)) /\ sn = Cardinality(SharesOf(f))'
    /\ m = Mass(job[w].pc, s) /\ mn = Mass(job'[w].pc, sn)
    /\ c = count /\ cn = count'
    /\ lo = Low(job[w].pc) /\ ln = Low(job'[w].pc)
    /\ SharesOf(f)' = SharesOf(f) => sn = s
    /\ (/\ Mild' => (cn - c <= mn - m \/ cn = 0) /\ m - lo <= mn - ln
        /\ failed' = {} /\ off = 0 => cn - c = mn - m) => CountKept

LEMMA CountNumbers ==
    ASSUME Counts, Note, NEW w \in Workers, Work(w), job[w].op \in Changing,
           NEW f \in Files, f = job[w].f
    PROVE  \E s \in Nat, sn \in Nat, m \in Int, mn \in Int, c \in Int, cn \in Int,
              lo \in Int, ln \in Int : Numbers(w, f, s, sn, m, mn, c, cn, lo, ln)
<1>1. Whole
  BY DEF Counts
<1>2. PICK s \in Nat, sn \in Nat : s = Cardinality(SharesOf(f)) /\ sn = Cardinality(SharesOf(f))'
  BY <1>1, Balance
<1>3. PICK m \in Int, mn \in Int : m = Mass(job[w].pc, s) /\ mn = Mass(job'[w].pc, sn)
  BY <1>2 DEF Mass
<1>4. PICK c \in Int, cn \in Int : c = count /\ cn = count'
  BY <1>1, TypedParts, WorkFrame DEF Whole, BoardTyped
<1> PICK lo \in Int, ln \in Int : lo = Low(job[w].pc) /\ ln = Low(job'[w].pc)
  BY DEF Low
<1>5. ASSUME Mild' => (cn - c <= mn - m \/ cn = 0) /\ m - lo <= mn - ln,
             failed' = {} /\ off = 0 => cn - c = mn - m
      PROVE  CountKept
  <2>1. /\ m = Mass(job[w].pc, Cardinality(SharesOf(f)))
        /\ mn = Mass(job'[w].pc, Cardinality(SharesOf(f))')
    BY <1>2, <1>3
  <2>2. Mild' => (count' - count <= mn - m \/ count' = 0) /\ m - lo <= mn - ln
    BY <1>4, <1>5
  <2>3. failed' = {} /\ off = 0 => count' - count = mn - m
    BY <1>4, <1>5
  <2> QED BY <2>1, <2>2, <2>3, CountFrom
<1>6. SharesOf(f)' = SharesOf(f) => sn = s
  BY <1>2
<1>7. Numbers(w, f, s, sn, m, mn, c, cn, lo, ln)
  BY <1>2, <1>3, <1>4, <1>5, <1>6 DEF Numbers
<1> QED BY <1>7

LEMMA CountByShare ==
    ASSUME Counts, Note, NEW w \in Workers, handleShareFile(w)
    PROVE  CountKept
<1>1. Work(w) /\ job[w].op \in Changing /\ Whole
  BY ShareMoves DEF Work, Whole, Changing, Counts
<1>2. PICK u \in Users, f \in Files : On(w, u, f)
  BY <1>1, WorkMoves, Busy DEF On, Whole
<1>3. /\ \A p : Goto(w, p) => job'[w].pc = p
      /\ \A c : Finish(w, c) => job'[w].pc = "idle"
      /\ Works \/ Fails(w)
      /\ ~(Works /\ Fails(w))
      /\ Fails(w) => failed' # {}
  BY <1>1, <1>2, CountFacts, Premises
<1>4. PICK s \in Nat, sn \in Nat, m \in Int, mn \in Int, c \in Int, cn \in Int,
           lo \in Int, ln \in Int : Numbers(w, f, s, sn, m, mn, c, cn, lo, ln)
  <2>1. job[w].f = f
    BY <1>2 DEF On
  <2> QED BY <1>1, <2>1, CountNumbers
<1>9. /\ s = Cardinality(SharesOf(f)) /\ sn = Cardinality(SharesOf(f))'
      /\ m = Mass(job[w].pc, s) /\ mn = Mass(job'[w].pc, sn)
      /\ c = count /\ cn = count'
      /\ lo = Low(job[w].pc) /\ ln = Low(job'[w].pc)
      /\ SharesOf(f)' = SharesOf(f) => sn = s
      /\ (/\ Mild' => (cn - c <= mn - m \/ cn = 0) /\ m - lo <= mn - ln
          /\ failed' = {} /\ off = 0 => cn - c = mn - m) => CountKept
  BY <1>4 DEF Numbers
<1>8. /\ job'[w].pc \notin LoweringSteps
      /\ lo = 0 /\ ln = 0
  <2>1. ShareSteps \cap LoweringSteps = {} /\ Idle.pc \notin LoweringSteps
    BY IdleJob DEF ShareSteps, LoweringSteps
  <2>2. job[w].pc \in ShareSteps /\ (job'[w] = Idle \/ job'[w].pc \in ShareSteps)
    BY <1>1, ShareMoves, WorkMoves DEF GoesOn, StepsOf, Whole
  <2> QED BY <1>9, <2>1, <2>2 DEF Low
<1>5. CASE ShareInsert(w, "share_count")
  <2>1. job[w].pc = "share_insert" /\ cn = c
    BY <1>9, <1>5 DEF ShareInsert, At
  <2>2. Mild' \/ failed' = {} => s = 0
    BY <1>1, <1>2, <1>9, <2>1, CountFacts
  <2>3. CASE Fails(w)
    <3>1. job'[w].pc = "idle" /\ share_file_list' = share_file_list /\ count' = count
      BY <1>3, <1>5, <2>3 DEF ShareInsert
    <3> QED BY <1>1, <1>8, <2>1, <3>1, CountSame DEF UncountedSteps
  <2>4. CASE Works
    <3>1. job'[w].pc = "share_count"
      BY <1>3, <1>5, <2>4 DEF ShareInsert
    <3>2. m = s /\ mn = 0
      BY <1>9, <2>1, <3>1 DEF Mass, UncountedSteps
    <3> QED BY <1>9, <1>8, <2>1, <2>2, <3>2
  <2> QED BY <1>3, <2>3, <2>4
<1>6. CASE CacheIncrCount(w, "share_count", "share_zset")
  <2>1. job[w].pc = "share_count" /\ share_file_list' = share_file_list
    BY <1>6 DEF CacheIncrCount, At
  <2>2. Mild' \/ failed' = {} => s = 1
    BY <1>1, <1>2, <1>9, <2>1, CountFacts DEF InsertedSteps
  <2>3. job'[w].pc \in {"idle", "share_zset"}
    BY <1>3, <1>6 DEF CacheIncrCount
  <2>4. m = 0 /\ mn = s
    BY <1>9, <2>1, <2>3, SameOwn DEF Mass, UncountedSteps
  <2>5. (cn = c /\ failed' # {}) \/ cn = c + 1
    BY <1>3, <1>9, <1>6 DEF CacheIncrCount
  <2> QED BY <1>9, <1>8, <2>2, <2>4, <2>5
<1>7. CASE ShareExist(w) \/ ShareRecord(w) \/ HadZset(w) \/ HadHash(w)
           \/ SetStatus(w, "share_status", 1, "share_insert") \/ ShareZset(w) \/ ShareHash(w)
  <2>1. share_file_list' = share_file_list /\ count' = count
    BY <1>7 DEF ShareExist, ShareRecord, HadZset, HadHash, SetStatus, ShareZset, ShareHash, board
  <2>2. job[w].pc \notin UncountedSteps \cup {"del_count"}
        /\ job'[w].pc \notin UncountedSteps \cup {"del_count"}
    BY <1>3, <1>7 DEF ShareExist, ShareRecord, HadZset, HadHash, SetStatus, ShareZset, ShareHash,
       At, UncountedSteps
  <2> QED BY <1>1, <1>8, <2>1, <2>2, CountSame
<1> QED BY <1>5, <1>6, <1>7 DEF handleShareFile

LEMMA CountByCancel ==
    ASSUME Counts, Note, NEW w \in Workers, handleCancelShareFile(w)
    PROVE  CountKept
<1>1. Work(w) /\ job[w].op \in Changing /\ Whole
  BY CancelMoves DEF Work, Whole, Changing, Counts
<1>2. PICK u \in Users, f \in Files : On(w, u, f)
  BY <1>1, WorkMoves, Busy DEF On, Whole
<1>3. /\ \A p : Goto(w, p) => job'[w].pc = p
      /\ \A c : Finish(w, c) => job'[w].pc = "idle"
      /\ Works \/ Fails(w)
      /\ ~(Works /\ Fails(w))
      /\ Fails(w) => failed' # {}
  BY <1>1, <1>2, CountFacts, Premises
<1>4. PICK s \in Nat, sn \in Nat, m \in Int, mn \in Int, c \in Int, cn \in Int,
           lo \in Int, ln \in Int : Numbers(w, f, s, sn, m, mn, c, cn, lo, ln)
  <2>1. job[w].f = f
    BY <1>2 DEF On
  <2> QED BY <1>1, <2>1, CountNumbers
<1>8. /\ s = Cardinality(SharesOf(f)) /\ sn = Cardinality(SharesOf(f))'
      /\ m = Mass(job[w].pc, s) /\ mn = Mass(job'[w].pc, sn)
      /\ c = count /\ cn = count'
      /\ lo = Low(job[w].pc) /\ ln = Low(job'[w].pc)
      /\ SharesOf(f)' = SharesOf(f) => sn = s
      /\ (/\ Mild' => (cn - c <= mn - m \/ cn = 0) /\ m - lo <= mn - ln
          /\ failed' = {} /\ off = 0 => cn - c = mn - m) => CountKept
  BY <1>4 DEF Numbers
<1>5. CASE CacheDecrCount(w, "cancel_count", "cancel_floor", "cancel_rows")
  <2>1. share_file_list' = share_file_list
    BY <1>5 DEF CacheDecrCount
  <2>2. sn = s
    BY <1>8, <2>1, SameOwn
  <2>3. CASE At(w, "cancel_count")
    <3>1. Mild' \/ failed' = {} => s = 1
      BY <1>1, <1>2, <1>8, <2>3, CountFacts DEF CancelingSteps, At
    <3>2. m = s
      BY <1>8, <2>3 DEF At, Mass, UncountedSteps
    <3>3. \/ Fails(w) /\ job'[w].pc = "idle" /\ cn = c
          \/ Works /\ job'[w].pc \in {"cancel_floor", "cancel_rows"} /\ cn = c - 1
      BY <1>3, <1>8, <1>5, <2>3 DEF CacheDecrCount, At
    <3>4. \/ failed' # {} /\ mn = s /\ cn = c
          \/ mn = 0 /\ cn = c - 1
      BY <1>3, <1>8, <2>2, <3>3 DEF Mass, UncountedSteps
    <3>5. lo = 1 /\ ln = 0
      BY <1>8, <2>3, <3>3 DEF Low, LoweringSteps, At
    <3> QED BY <1>8, <3>1, <3>2, <3>4, <3>5
  <2>4. CASE At(w, "cancel_floor")
    <3>1. failed' # {} \/ off # 0
      BY <1>1, <2>4, Premises DEF FloorSteps, At
    <3>2. m = 0
      BY <1>8, <2>4 DEF At, Mass, UncountedSteps
    <3>3. \/ Fails(w) /\ job'[w].pc = "idle" /\ cn = c
          \/ job'[w].pc = "cancel_rows" /\ cn = 0
      BY <1>3, <1>8, <1>5, <2>4 DEF CacheDecrCount, At
    <3>4. (mn = s /\ cn = c) \/ (mn = 0 /\ cn = 0)
      BY <1>8, <2>2, <3>3 DEF Mass, UncountedSteps
    <3>5. lo = 0 /\ ln = 0
      BY <1>8, <2>4, <3>3 DEF Low, LoweringSteps, At
    <3> QED BY <1>8, <3>1, <3>2, <3>4, <3>5
  <2> QED BY <1>5, <2>3, <2>4 DEF CacheDecrCount
<1>6. CASE CancelRows(w)
  <2>1. job[w].pc = "cancel_rows" /\ cn = c
    BY <1>8, <1>6 DEF CancelRows, At
  <2>2. m = 0 /\ lo = 0
    BY <1>8, <2>1 DEF Mass, UncountedSteps, Low, LoweringSteps
  <2>3. CASE Fails(w)
    <3>1. job'[w].pc = "idle"
      BY <1>3, <1>6, <2>3 DEF CancelRows, Reply
    <3>2. mn >= 0 /\ ln = 0
      BY <1>8, <3>1 DEF Mass, UncountedSteps, Low, LoweringSteps
    <3> QED BY <1>3, <1>8, <2>1, <2>2, <2>3, <3>2
  <2>4. CASE Works
    <3>1. /\ job'[w].pc = "cancel_zset"
          /\ share_file_list' = share_file_list \ OwnShare(u, f)
      BY <1>2, <1>3, <1>6, <2>4 DEF CancelRows, On
    <3>2. Mild' \/ failed' = {} => SharesOf(f)' = {}
      <4> SUFFICES ASSUME Mild' \/ failed' = {}
                   PROVE  SharesOf(f)' = {}
        OBVIOUS
      <4>1. Reliable
        BY <1>1, Premises
      <4>2. OwnShare(u, f) # {}
        BY <1>1, <1>2, <2>1 DEF Whole, OwnInv, CancelingSteps
      <4>3. \A r, q \in share_file_list : r.f = q.f => r = q
        BY <1>1, <4>1 DEF Whole, OneRow
      <4>4. SharesOf(f) = OwnShare(u, f)
        BY <4>2, <4>3 DEF SharesOf, OwnShare
      <4> QED BY <3>1, <4>4 DEF SharesOf
    <3>3. SharesOf(f)' = {} => sn = 0
      BY <1>8, FS_EmptySet
    <3>4. mn = sn /\ ln = 0
      BY <1>8, <3>1 DEF Mass, UncountedSteps, Low, LoweringSteps
    <3> QED BY <1>8, <2>1, <2>2, <3>2, <3>3, <3>4
  <2> QED BY <1>3, <2>3, <2>4
<1>7. CASE SetStatus(w, "cancel_status", 0, "cancel_count") \/ CancelZset(w) \/ CancelHash(w)
  <2>1. share_file_list' = share_file_list /\ count' = count
    BY <1>7 DEF SetStatus, CancelZset, CancelHash
  <2>2. job[w].pc \notin UncountedSteps \cup {"del_count"}
        /\ job'[w].pc \notin UncountedSteps \cup {"del_count"}
        /\ (job'[w].pc \in LoweringSteps => job[w].pc \in LoweringSteps)
    BY <1>3, <1>7 DEF SetStatus, CancelZset, CancelHash, At, UncountedSteps, LoweringSteps, Reply
  <2> QED BY <1>1, <2>1, <2>2, CountSame
<1> QED BY <1>5, <1>6, <1>7 DEF handleCancelShareFile

LEMMA CountByDelete ==
    ASSUME Counts, Note, NEW w \in Workers, handleDeleteFile(w)
    PROVE  CountKept
<1>1. Work(w) /\ job[w].op \in Changing /\ Whole
  BY DelMoves DEF Work, Whole, Changing, Counts
<1>2. PICK u \in Users, f \in Files : On(w, u, f)
  BY <1>1, WorkMoves, Busy DEF On, Whole
<1>3. /\ \A p : Goto(w, p) => job'[w].pc = p
      /\ \A c : Finish(w, c) => job'[w].pc = "idle"
      /\ Works \/ Fails(w)
      /\ ~(Works /\ Fails(w))
  BY <1>1, <1>2, CountFacts, Premises
<1>4. PICK s \in Nat, sn \in Nat, m \in Int, mn \in Int, c \in Int, cn \in Int,
           lo \in Int, ln \in Int : Numbers(w, f, s, sn, m, mn, c, cn, lo, ln)
  <2>1. job[w].f = f
    BY <1>2 DEF On
  <2> QED BY <1>1, <2>1, CountNumbers
<1>10. /\ s = Cardinality(SharesOf(f)) /\ sn = Cardinality(SharesOf(f))'
       /\ m = Mass(job[w].pc, s) /\ mn = Mass(job'[w].pc, sn)
       /\ c = count /\ cn = count'
       /\ lo = Low(job[w].pc) /\ ln = Low(job'[w].pc)
       /\ SharesOf(f)' = SharesOf(f) => sn = s
       /\ (/\ Mild' => (cn - c <= mn - m \/ cn = 0) /\ m - lo <= mn - ln
           /\ failed' = {} /\ off = 0 => cn - c = mn - m) => CountKept
  BY <1>4 DEF Numbers
<1>5. Fails(w) => ~Mild' /\ failed' # {}
  BY <1>1, Premises, DelMoves DEF Mild, Whole
<1>6. CASE Fails(w)
  BY <1>10, <1>5, <1>6
<1>7. CASE Works /\ CacheDecrCount(w, "del_count", "del_floor", "del_zset")
  <2>1. share_file_list' = share_file_list /\ ~Fails(w)
    BY <1>3, <1>7 DEF CacheDecrCount
  <2>2. sn = s
    BY <1>10, <2>1, SameOwn
  <2>3. CASE At(w, "del_count")
    <3>1. job'[w].pc \in {"del_floor", "del_zset"} /\ cn = c - 1
      BY <1>3, <1>10, <1>7, <2>1, <2>3 DEF CacheDecrCount, At
    <3>2. m = s + 1 /\ mn = s /\ lo = 1 /\ ln = 0
      BY <1>10, <2>2, <2>3, <3>1 DEF Mass, UncountedSteps, Low, LoweringSteps, At
    <3> QED BY <1>10, <3>1, <3>2
  <2>4. CASE At(w, "del_floor")
    <3>1. failed' # {} \/ off # 0
      BY <1>1, <2>4, Premises DEF FloorSteps, At
    <3>2. cn = 0 /\ job'[w].pc = "del_zset"
      BY <1>3, <1>10, <1>7, <2>1, <2>4 DEF CacheDecrCount, At
    <3>3. m = s /\ mn = s /\ lo = 0 /\ ln = 0
      BY <1>10, <2>2, <2>4, <3>2 DEF Mass, UncountedSteps, Low, LoweringSteps, At
    <3> QED BY <1>10, <3>1, <3>2, <3>3
  <2> QED BY <1>7, <2>3, <2>4 DEF CacheDecrCount
<1>8. CASE Works /\ DelRows(w)
  <2>1. /\ job[w].pc = "del_rows" /\ cn = c /\ job'[w].pc = "del_count"
        /\ share_file_list' = share_file_list \ OwnShare(u, f)
    BY <1>2, <1>3, <1>10, <1>8 DEF DelRows, At, On
  <2>2. SharesOf(f)' = {}
    <3>1. SharesOf(f) = OwnShare(u, f)
      BY <1>1, <1>2, <2>1, CountFacts DEF DeletingSteps
    <3> QED BY <2>1, <3>1 DEF SharesOf
  <2>3. m = s /\ mn = 1 /\ lo = 1 /\ ln = 1
    <3>1. sn = 0
      BY <1>10, <2>2, FS_EmptySet
    <3> QED BY <1>10, <2>1, <3>1 DEF Mass, UncountedSteps, Low, LoweringSteps
  <2>4. /\ Mild' => s <= 1
        /\ failed' = {} => s = 1
    <3>1. Mild' \/ failed' = {} => s = IF SharesOf(f) = {} THEN 0 ELSE 1
      BY <1>1, <1>2, <1>10, CountFacts
    <3>2. failed' = {} => SharesOf(f) # {}
      BY <1>1, <1>2, <2>1, CountFacts DEF StatusStage
    <3> QED BY <3>1, <3>2
  <2> QED BY <1>10, <2>1, <2>3, <2>4
<1>9. CASE Works /\ (DelExist(w) \/ DelStatus(w) \/ DelZset(w) \/ DelHash(w) \/ DelOwn(w))
  <2>1. share_file_list' = share_file_list /\ count' = count
    BY <1>9 DEF DelExist, DelStatus, DelZset, DelHash, DelOwn, board
  <2>2. Move(w, [job[w] EXCEPT !.n = 1, !.pc = "del_rows"]) => job'[w].pc = "del_rows"
    <3>1. SUFFICES ASSUME Move(w, [job[w] EXCEPT !.n = 1, !.pc = "del_rows"])
                   PROVE  job'[w].pc = "del_rows"
      OBVIOUS
    <3>2. Goes(w, {"del_rows"})
      BY <1>1, <3>1, Noted DEF Whole
    <3>3. job'[w].pc \in {"del_rows"}
      BY <1>1, <3>2, GoesFacts DEF Whole
    <3> QED BY <3>3
  <2>3. job[w].pc \notin UncountedSteps \cup {"del_count"}
        /\ job'[w].pc \notin UncountedSteps \cup {"del_count"}
        /\ (job'[w].pc \in LoweringSteps => job[w].pc \in LoweringSteps)
    BY <1>3, <1>9, <2>2 DEF DelExist, DelStatus, DelZset, DelHash, DelOwn, At, UncountedSteps,
       LoweringSteps
  <2> QED BY <1>1, <2>1, <2>3, CountSame
<1> QED BY <1>3, <1>6, <1>7, <1>8, <1>9 DEF handleDeleteFile

(* A download commits its own count and keeps the rows apart. *)
LEMMA CountByPv ==
    ASSUME Whole, NEW w \in Workers, handlePvFile(w)
    PROVE  count' = count /\ (Reliable => Total' = Total)
<1>1. Work(w) /\ job[w].op \notin Changing
  BY PvMoves DEF Work, Whole, Changing
<1>2. Phantoms' = Phantoms /\ \A f \in Files : Uncounted(f)' <=> Uncounted(f)
  BY <1>1, UncountedElsewhere
<1>3. count' = count /\ (share_file_list' = share_file_list \/ share_file_list' = Bumped(w))
  BY PvTable
<1>4. Reliable => Cardinality(CountedRows') = Cardinality(CountedRows)
  <2>1. share_file_list \subseteq Row /\ IsFiniteSet(share_file_list)
        /\ share_file_list' \subseteq Row
    BY <1>1, TypedParts, WorkFrame DEF Whole, BoardTyped
  <2>2. CountedRows' = {r \in share_file_list' : ~Uncounted(r.f)}
    <3>1. \A r \in share_file_list' : Uncounted(r.f)' <=> Uncounted(r.f)
      BY <1>2, <2>1 DEF Row
    <3> QED BY <3>1 DEF CountedRows
  <2>3. CASE share_file_list' = share_file_list
    BY <2>2, <2>3 DEF CountedRows
  <2>4. CASE share_file_list' = Bumped(w) /\ Reliable
    <3> DEFINE b == [r \in CountedRows |-> Bump(w, r)]
    <3>1. \A r \in share_file_list : Bump(w, r).f = r.f
      BY <1>1, BumpRow DEF Whole
    <3>2. CountedRows' = {Bump(w, r) : r \in CountedRows}
      <4>1. \A r \in share_file_list : Uncounted(Bump(w, r).f) <=> Uncounted(r.f)
        BY <3>1
      <4> QED BY <2>2, <2>4, <4>1 DEF Bumped, CountedRows
    <3>3. \A r, q \in CountedRows : b[r] = b[q] => r = q
      BY <1>1, <2>4, <3>1 DEF CountedRows, Whole, OneRow
    <3>4. b \in Bijection(CountedRows, CountedRows')
      <4>1. b \in Surjection(CountedRows, CountedRows')
        BY <3>2 DEF Surjection
      <4> QED BY <3>3, <4>1 DEF Bijection, Injection, IsInjective, Surjection
    <3>5. IsFiniteSet(CountedRows)
      BY <2>1, FS_Subset DEF CountedRows
    <3> QED BY <3>4, <3>5, FS_Bijection DEF ExistsBijection
  <2> QED BY <1>3, <2>3, <2>4
<1> QED BY <1>2, <1>3, <1>4 DEF Total

LEMMA TotalByReader ==
    ASSUME Whole, NEW w \in Workers, ApiSharefile(w)
    PROVE  Total' = Total
<1>1. Work(w) /\ job[w].op \notin Changing
  BY ReaderMoves DEF Work, Whole, Changing
<1>2. Phantoms' = Phantoms /\ \A f \in Files : Uncounted(f)' <=> Uncounted(f)
  BY <1>1, UncountedElsewhere
<1>3. share_file_list' = share_file_list /\ share_file_list \subseteq Row
  BY ReaderFrame, TypedParts DEF Whole, BoardTyped
<1>4. CountedRows' = CountedRows
  BY <1>2, <1>3 DEF CountedRows, Row
<1> QED BY <1>2, <1>4 DEF Total

LEMMA TotalElsewhere ==
    ASSUME Whole, NEW w \in Workers, Work(w), job[w].op \notin Changing
    PROVE  /\ Reliable => Total' = Total /\ Least' = Least
           /\ Changers' = Changers
<1>1. handlePvFile(w) \/ ApiSharefile(w)
  BY ShareMoves, CancelMoves, DelMoves DEF Work, Whole, Changing
<1>2. Lowerers' = Lowerers /\ Changers' = Changers
  BY UncountedElsewhere
<1> QED BY <1>1, <1>2, CountByPv, TotalByReader DEF Least

(* The total is a number. *)
LEMMA TotalSize ==
    ASSUME Whole
    PROVE  Total \in Nat /\ Least \in Int
<1>1. IsFiniteSet(CountedRows)
  BY FS_Subset DEF CountedRows, Whole, Typed
<1>2. Cardinality(CountedRows) \in Nat /\ Cardinality(Phantoms) \in Nat
  BY <1>1, Sizes, FS_CardinalityType
<1> QED BY <1>2, Sizes DEF Total, Least

(* The number of the rows is above the least of the total by no more than  *)
(* the changes at work: each has at most one row that does not count, or   *)
(* can lower the total by one.                                             *)
LEMMA RowsAtLoad ==
    ASSUME Whole, Reliable
    PROVE  /\ Cardinality(share_file_list) \in Nat
           /\ Cardinality(share_file_list) <= Least + Cardinality(Changers)
<1> DEFINE UR == {r \in share_file_list : Uncounted(r.f)}
           UW == {w \in Workers : job[w].pc \in UncountedSteps}
           at == [r \in UR |-> CHOOSE w \in Workers : job[w].f = r.f
                                                       /\ job[w].pc \in UncountedSteps]
<1>1. IsFiniteSet(share_file_list)
  BY DEF Whole, Typed
<1>2. IsFiniteSet(UR) /\ IsFiniteSet(CountedRows) /\ Cardinality(UR) \in Nat
      /\ Cardinality(CountedRows) \in Nat
  <2>1. UR \in SUBSET share_file_list /\ CountedRows \in SUBSET share_file_list
    BY DEF CountedRows
  <2> HIDE DEF UR
  <2> QED BY <1>1, <2>1, FS_Subset, FS_CardinalityType
<1>3. Cardinality(share_file_list) = Cardinality(CountedRows) + Cardinality(UR)
  <2>1. share_file_list = CountedRows \cup UR /\ CountedRows \cap UR = {}
    BY DEF CountedRows
  <2> HIDE DEF UR
  <2>2. Cardinality(CountedRows \cap UR) = 0
    BY <2>1, FS_EmptySet
  <2>3. Cardinality(CountedRows \cup UR)
           = Cardinality(CountedRows) + Cardinality(UR) - Cardinality(CountedRows \cap UR)
    BY <1>2, FS_Union
  <2> QED BY <1>2, <2>1, <2>2, <2>3
<1>4. UW \in SUBSET Changers /\ Lowerers \in SUBSET Changers /\ UW \cap Lowerers = {}
  <2>1. UncountedSteps \cap LoweringSteps = {}
    BY DEF UncountedSteps, LoweringSteps
  <2> QED BY <2>1, WaitingSteps DEF Changers, Lowerers, WaitedFor, Whole
<1>5. \A r \in UR : /\ at[r] \in Workers /\ job[at[r]].f = r.f
                     /\ job[at[r]].pc \in UncountedSteps
  BY DEF Uncounted
<1>6. at \in Injection(UR, UW)
  <2>1. at \in [UR -> UW]
    BY <1>5
  <2>2. \A r, q \in UR : at[r] = at[q] => r = q
    <3>1. \A r, q \in UR : at[r] = at[q] => r.f = q.f
      BY <1>5
    <3> QED BY <3>1 DEF Whole, OneRow
  <2> HIDE DEF at, UR, UW
  <2> QED BY <2>1, <2>2 DEF Injection, IsInjective
<1> HIDE DEF UR, UW, at
<1>7. /\ IsFiniteSet(UW) /\ Cardinality(UW) \in Nat
      /\ Cardinality(UR) <= Cardinality(UW)
  BY <1>4, <1>6, Sizes, FS_Subset, FS_Injection, FS_CardinalityType
<1>8. Cardinality(UW) + Cardinality(Lowerers) <= Cardinality(Changers)
  <2>1. Cardinality(UW \cap Lowerers) = 0
    BY <1>4, FS_EmptySet
  <2>2. Cardinality(UW \cup Lowerers)
           = Cardinality(UW) + Cardinality(Lowerers) - Cardinality(UW \cap Lowerers)
    BY <1>7, Sizes, FS_Union
  <2>3. UW \cup Lowerers \in SUBSET Changers
    BY <1>4
  <2>4. Cardinality(UW \cup Lowerers) <= Cardinality(Changers)
    BY <2>3, Sizes, FS_Subset
  <2> QED BY <1>7, <2>1, <2>2, <2>4, Sizes
<1>9. Cardinality(Phantoms) \in Nat
  BY Sizes, FS_CardinalityType
<1>10. /\ Total = Cardinality(CountedRows) + Cardinality(Phantoms)
       /\ Least = Total - Cardinality(Lowerers)
  BY DEF Total, Least
<1> QED BY <1>2, <1>3, <1>7, <1>8, <1>9, <1>10, Sizes

(* When nobody changes anything every row counts. *)
LEMMA TotalAtRest ==
    ASSUME \A w \in Workers : job[w].pc \notin UncountedSteps \cup {"del_count"},
           IsFiniteSet(share_file_list)
    PROVE  /\ Total = Cardinality(share_file_list) /\ Total \in Nat
<1>1. CountedRows = share_file_list /\ Phantoms = {}
  BY DEF CountedRows, Uncounted, Phantoms
<1>2. Cardinality(share_file_list) \in Nat
  BY FS_CardinalityType
<1> QED BY <1>1, <1>2, FS_EmptySet DEF Total

LEMMA NoChangers ==
    ASSUME Whole, Cardinality(Changers) <= 0
    PROVE  /\ Changers = {} /\ Total = Cardinality(share_file_list)
           /\ \A w \in Workers : /\ job[w].op \notin Changing
                                   /\ job[w].pc \notin FloorSteps
<1>1. Changers = {}
  BY Sizes, FS_EmptySet
<1>2. \A w \in Workers : job[w].op \notin Changing
  BY <1>1 DEF Changers
<1>3. \A w \in Workers : job[w].pc \notin FloorSteps \cup WaitedFor
  <2>1. FloorSteps \subseteq CancelSteps \cup DelSteps
    BY DEF FloorSteps, CancelSteps, DelSteps
  <2> QED BY <1>2, <2>1, OpOf, WaitingSteps DEF Whole, Changing
<1>4. \A w \in Workers : job[w].pc \notin UncountedSteps \cup {"del_count"}
  BY <1>3 DEF WaitedFor, LoweringSteps
<1>5. Total = Cardinality(share_file_list)
  BY <1>4, TotalAtRest DEF Whole, Typed
<1> QED BY <1>1, <1>2, <1>3, <1>5

(* What the notes say of the reloads. *)
LEMMA BesideTyped ==
    ASSUME Note, beside \in [Workers -> Nat]
    PROVE  beside' \in [Workers -> Nat]
<1>1. Changers' \ Changers \in SUBSET Workers
  BY DEF Changers
<1>2. Cardinality(Changers' \ Changers) \in Nat
  BY <1>1, BoardAssumption, FS_Subset, FS_CardinalityType
<1>3. \A w \in Workers : beside[w] + Cardinality(Changers' \ Changers) \in Nat
  BY <1>2
<1> QED BY <1>3, Sizes DEF Note

LEMMA BesideFacts ==
    ASSUME Whole, Note, beside \in [Workers -> Nat], NEW w \in Workers, Work(w)
    PROVE  /\ \A v \in Workers \ {w} : job[v].pc = "count_set" => beside'[v] = beside[v]
           /\ job[w].pc # "count_set" /\ job'[w].pc = "count_set"
                 => beside'[w] = Cardinality(Changers)
<1>1. Others(w)
  BY WorkMoves DEF Whole
<1>2. Changers' \ Changers = {}
  BY UncountedElsewhere
<1>3. Cardinality(Changers' \ Changers) = 0
  BY <1>2, FS_EmptySet
<1>4. ASSUME NEW v \in Workers \ {w}, job[v].pc = "count_set"
      PROVE  beside'[v] = beside[v]
  <2>1. beside'[v] = beside[v] + Cardinality(Changers' \ Changers)
    BY <1>1, <1>4 DEF Note, Others, At
  <2> QED BY <1>3, <2>1
<1>5. job[w].pc # "count_set" /\ job'[w].pc = "count_set"
        => beside'[w] = Cardinality(Changers)
  BY DEF Note, At
<1> QED BY <1>4, <1>5

LEMMA ReloadFacts ==
    ASSUME Whole, Note, NEW w \in Workers, Work(w)
    PROVE  \/ off' = off /\ (ApiSharefile(w) => count' = count)
           \/ /\ job[w].pc = "count_set" /\ Works
              /\ count' = job[w].n /\ off' = beside[w]
<1>1. CASE job[w].pc # "count_set"
  BY <1>1, OffKept, ReaderFrame DEF Whole, At
<1>2. CASE job[w].pc = "count_set"
  <2>1. job[w].op \in {"count", "list"}
    BY <1>2, OpOf DEF CountSteps, Whole
  <2>2. ApiSharefile(w)
    BY <2>1, ShareMoves, CancelMoves, PvMoves, DelMoves DEF Work, Whole
  <2>3. CountSet(w)
    BY <1>2, <2>2 DEF ApiSharefile, CountGet, CountDb, ListSelect, RankRange, RankName,
       RankScore, At
  <2>4. \A v \in Workers \ {w} : ~Reloads(v)
    BY WorkMoves DEF Reloads, At, Others, Whole
  <2>5. CASE Fails(w)
    <3>1. faults' # faults
      BY <2>5, FaultFacts DEF Fails, Whole, Typed
    <3>2. off' = off
      BY <2>4, <3>1 DEF Note, Reloads
    <3> QED BY <2>3, <2>5, <3>2, NotBoth DEF CountSet, Whole
  <2>6. CASE Works
    <3>1. count' = job[w].n /\ CountKnown(w, job[w].n)
      BY <2>3, <2>6, NotBoth DEF CountSet, Whole
    <3>2. job'[w].pc # "count_set"
      BY <3>1, GoneFacts, Ended, EndsFacts, IdleJob DEF CountKnown, Whole
    <3>3. Reloads(w)
      BY <1>2, <2>6, <3>2, WorksFacts DEF Reloads, At
    <3>4. off' = beside[w]
      BY <2>4, <3>3 DEF Note
    <3> QED BY <1>2, <2>6, <3>1, <3>4
  <2> QED BY <2>5, <2>6, Tallies DEF Whole
<1> QED BY <1>1, <1>2

(* A reader writes a number that is near enough, or changes nothing. *)
LEMMA CountByReader ==
    ASSUME Counts, Note, NEW w \in Workers, ApiSharefile(w)
    PROVE  CountKept
<1>1. Work(w) /\ job[w].op \notin Changing /\ Whole
  BY ReaderMoves DEF Work, Whole, Changing, Counts
<1>2. Total' = Total /\ Least' = Least
  BY <1>1, TotalByReader, UncountedElsewhere DEF Least
<1>3. /\ Total \in Nat /\ Least \in Int /\ Least <= Total
      /\ off \in Nat /\ beside[w] \in Nat
  BY <1>1, TotalSize, Sizes DEF Least, Counts, CountInv
<1>4. CASE off' = off /\ count' = count
  BY <1>1, <1>2, <1>3, <1>4, Premises DEF CountKept
<1>5. CASE job[w].pc = "count_set" /\ Works /\ count' = job[w].n /\ off' = beside[w]
  <2>1. LoadedInv(w)
    BY <1>5 DEF Counts, CountInv
  <2>2. /\ Mild' => Mild
        /\ failed' = {} => failed = {}
    BY <1>1, Premises
  <2>3. job[w].n \in Nat
    BY <1>1 DEF Whole, Typed, Job
  <2> QED BY <1>2, <1>3, <1>5, <2>1, <2>2, <2>3 DEF CountKept, LoadedInv
<1> QED BY <1>1, <1>4, <1>5, ReloadFacts

LEMMA CountKeptBy ==
    ASSUME Counts, Note, NEW w \in Workers, Work(w)
    PROVE  CountKept
<1>1. CASE handlePvFile(w)
  <2>1. job[w].op = "pv" /\ Whole
    BY <1>1, PvMoves DEF Counts, Whole
  <2>2. job[w].pc # "count_set" /\ job[w].op \notin Changing
    BY <2>1, OpOf DEF CountSteps, Changing, Whole
  <2>3. off' = off /\ count' = count /\ off \in Nat
    BY <1>1, <2>1, <2>2, OffKept, PvTable DEF Whole, Counts, CountInv
  <2>4. Reliable => Total' = Total /\ Least' = Least
    BY <2>1, <2>2, TotalElsewhere
  <2>5. Least \in Int
    BY <2>1, TotalSize
  <2> QED BY <2>3, <2>4, <2>5, Premises DEF CountKept
<1>2. CASE ~handlePvFile(w)
  BY <1>2, CountByShare, CountByCancel, CountByDelete, CountByReader DEF Work
<1> QED BY <1>1, <1>2

(* Who comes to count_set has just counted the rows. *)
LEMMA LoadedByDb ==
    ASSUME Whole, NEW w \in Workers, Work(w), job'[w].pc = "count_set"
    PROVE  /\ job[w].op \notin Changing /\ job[w].pc # "count_set"
           /\ job'[w].n = Cardinality(share_file_list)
<1>1. Others(w) /\ job[w].pc # "idle" /\ (job'[w] = Idle \/ GoesOn(w))
  BY WorkMoves DEF Whole
<1>2. ApiSharefile(w) /\ job[w].op \notin Changing
  <2>1. GoesOn(w) /\ job[w].op \in AllOps
    BY <1>1, IdleJob, Busy DEF Whole
  <2>2. \A op \in AllOps \ {"count", "list"} : "count_set" \notin StepsOf[op]
    BY DEF AllOps, StepsOf, ShareSteps, CancelSteps, PvSteps, DelSteps, RankSteps
  <2>3. job[w].op \in {"count", "list"}
    BY <2>1, <2>2 DEF GoesOn
  <2> QED BY <2>3, ShareMoves, CancelMoves, PvMoves, DelMoves DEF Work, Whole, Changing
<1>3. /\ \A p : Goto(w, p) => job'[w].pc = p
      /\ \A c : Finish(w, c) => job'[w].pc = "idle"
  BY GoneFacts, Ended, EndsFacts, IdleJob DEF Whole
<1>4. ~RankName(w) /\ ~RankScore(w) /\ ~RankRange(w)
  <2>1. job[w].op = "rank" => "count_set" \notin StepsOf[job[w].op]
    BY DEF StepsOf, RankSteps
  <2>2. job[w].op # "rank"
    BY <1>1, <2>1, IdleJob DEF GoesOn
  <2> QED BY <2>2, OpOf DEF RankName, RankScore, RankRange, At, RankSteps, Whole
<1>5. CountDb(w)
  BY <1>2, <1>3, <1>4 DEF ApiSharefile, CountGet, CountSet, CountKnown, ListSelect
<1>6. /\ job[w].pc # "count_set"
      /\ Move(w, [job[w] EXCEPT !.n = Cardinality(share_file_list), !.pc = "count_set"])
  BY <1>3, <1>5 DEF CountDb, At
<1>7. PICK k \in Nat : k = Cardinality(share_file_list)
  BY FS_CardinalityType DEF Whole, Typed
<1>8. job'[w].n = k
  <2>1. Move(w, [job[w] EXCEPT !.n = k, !.pc = "count_set"])
    BY <1>6, <1>7
  <2> QED BY <2>1, NotedFacts DEF Whole
<1> QED BY <1>2, <1>6, <1>7, <1>8

LEMMA LoadedKept ==
    ASSUME Counts, Note, NEW w \in Workers, Work(w), CountKept,
           NEW v \in Workers, job'[v].pc = "count_set"
    PROVE  LoadedInv(v)'
<1>1. /\ Whole /\ beside \in [Workers -> Nat]
      /\ Others(w) /\ Changers' \subseteq Changers
  BY WorkMoves, UncountedElsewhere DEF Counts, CountInv, Whole
<1>2. /\ Mild' => Mild /\ Reliable
      /\ failed' = {} => failed = {} /\ Reliable
  BY Premises
<1>3. Cardinality(Changers') <= Cardinality(Changers)
  BY <1>1, Sizes, FS_Subset
<1>4. Total \in Nat /\ Least \in Int
  BY <1>1, TotalSize
<1>5. CASE v # w
  <2>1. job'[v] = job[v] /\ beside'[v] = beside[v] /\ LoadedInv(v)
    BY <1>1, <1>5, BesideFacts DEF Others, Counts, CountInv
  <2>2. Cardinality(Changers') <= beside'[v]
    BY <1>1, <1>3, <2>1, Sizes DEF LoadedInv
  <2>3. Mild' => job'[v].n <= Least' + beside'[v]
    <3>1. SUFFICES ASSUME Mild'
                   PROVE  job'[v].n <= Least' + beside'[v]
      OBVIOUS
    <3>2. job[v].n <= Least + beside[v] /\ Least <= Least'
      BY <1>2, <2>1, <3>1 DEF LoadedInv, CountKept
    <3>3. Least' \in Int
      <4>1. Whole'
        BY <1>1, WholeKept
      <4>2. CountedRows' \in SUBSET share_file_list' /\ IsFiniteSet(share_file_list')
        BY <4>1 DEF CountedRows, Whole, Typed
      <4>3. Cardinality(CountedRows') \in Nat /\ Cardinality(Phantoms') \in Nat
        BY <4>2, Sizes, FS_Subset, FS_CardinalityType
      <4> QED BY <4>3, Sizes DEF Total, Least
    <3>4. job[v].n \in Nat
      BY <1>1 DEF Whole, Typed, Job
    <3> QED BY <1>1, <1>4, <2>1, <3>2, <3>3, <3>4
  <2>4. failed' = {} /\ beside'[v] = 0 => job'[v].n = Total'
    <3>1. SUFFICES ASSUME failed' = {}, beside'[v] = 0
                   PROVE  job'[v].n = Total'
      OBVIOUS
    <3>2. Cardinality(Changers) <= 0 /\ job[v].n = Total
      BY <1>2, <2>1, <3>1 DEF LoadedInv
    <3>3. job[w].op \notin Changing
      BY <1>1, <3>2, NoChangers
    <3>4. Total' = Total
      BY <1>1, <1>2, <3>1, <3>3, TotalElsewhere
    <3> QED BY <2>1, <3>2, <3>4
  <2> QED BY <2>2, <2>3, <2>4 DEF LoadedInv
<1>6. CASE v = w
  <2>1. /\ job[w].op \notin Changing /\ job[w].pc # "count_set"
        /\ job'[w].n = Cardinality(share_file_list)
    BY <1>1, <1>6, LoadedByDb
  <2>2. beside'[w] = Cardinality(Changers) /\ Changers' = Changers
    BY <1>1, <1>6, <2>1, BesideFacts, TotalElsewhere
  <2>3. Reliable => Total' = Total /\ Least' = Least
    BY <1>1, <2>1, TotalElsewhere
  <2>4. Reliable => Cardinality(share_file_list) <= Least + Cardinality(Changers)
    BY <1>1, RowsAtLoad
  <2>5. Cardinality(Changers) = 0 => Total = Cardinality(share_file_list)
    BY <1>1, NoChangers
  <2> QED BY <1>2, <1>6, <2>1, <2>2, <2>3, <2>4, <2>5, Sizes DEF LoadedInv
<1> QED BY <1>5, <1>6

(* Only a negative counter leads to the command that sets it to 0. *)
LEMMA FloorEntered ==
    ASSUME Typed, NEW w \in Workers, Work(w), job'[w].pc \in FloorSteps
    PROVE  count' < 0 /\ job[w].op \in Changing
<1>1. /\ \A p : Goto(w, p) => job'[w].pc = p
      /\ \A c : Finish(w, c) => job'[w].pc = "idle"
  BY GoneFacts, Ended, EndsFacts, IdleJob
<1>2. job'[w].pc \in StepsOf[job[w].op] /\ job[w].op \in AllOps
  BY WorkMoves, Busy, IdleJob DEF GoesOn, FloorSteps
<1>3. job[w].op \in {"cancel", "del"}
  BY <1>2 DEF AllOps, StepsOf, FloorSteps, ShareSteps, PvSteps, CountSteps, ListSteps, RankSteps
<1>8. job[w].op \in Changing
  BY <1>3 DEF Changing
<1>4. handleCancelShareFile(w) \/ handleDeleteFile(w)
  BY <1>3, ShareMoves, PvMoves, ReaderMoves DEF Work
<1>5. ASSUME NEW p, NEW floor, NEW after, after \notin FloorSteps,
             CacheDecrCount(w, p, floor, after)
      PROVE  count' < 0
  <2>1. "idle" \notin FloorSteps
    BY DEF FloorSteps
  <2>2. CASE count' < 0
    BY <2>2
  <2>3. CASE ~(count' < 0)
    <3>1. Finish(w, "fail") \/ Goto(w, after)
      BY <1>5, <2>3 DEF CacheDecrCount
    <3> QED BY <1>1, <1>5, <2>1, <3>1
  <2> QED BY <2>2, <2>3
<1>6. CASE handleCancelShareFile(w)
  <2>1. "cancel_rows" \notin FloorSteps /\ "cancel_zset" \notin FloorSteps
        /\ "cancel_hash" \notin FloorSteps /\ "cancel_count" \notin FloorSteps
        /\ "idle" \notin FloorSteps
    BY DEF FloorSteps
  <2>2. \/ Goto(w, "cancel_count") \/ Goto(w, "cancel_zset") \/ Goto(w, "cancel_hash")
        \/ Finish(w, "fail") \/ Finish(w, "ok")
        \/ CacheDecrCount(w, "cancel_count", "cancel_floor", "cancel_rows")
    BY <1>6 DEF handleCancelShareFile, SetStatus, CancelRows, CancelZset, CancelHash, Reply
  <2> QED BY <1>1, <1>5, <1>8, <2>1, <2>2
<1>7. CASE handleDeleteFile(w)
  <2>1. /\ "del_rows" \notin FloorSteps /\ "del_status" \notin FloorSteps
        /\ "del_own" \notin FloorSteps /\ "del_count" \notin FloorSteps
        /\ "del_zset" \notin FloorSteps /\ "del_hash" \notin FloorSteps
        /\ "idle" \notin FloorSteps
    BY DEF FloorSteps
  <2>2. CASE Move(w, [job[w] EXCEPT !.n = 1, !.pc = "del_rows"])
    <3>1. job'[w].pc = "del_rows"
      BY <2>2, NotedFacts
    <3> QED BY <2>1, <3>1
  <2>3. \/ Goto(w, "del_rows") \/ Goto(w, "del_status") \/ Goto(w, "del_own")
        \/ Goto(w, "del_count") \/ Goto(w, "del_hash") \/ Finish(w, "fail")
        \/ Move(w, [job[w] EXCEPT !.n = 1, !.pc = "del_rows"])
        \/ CacheDecrCount(w, "del_count", "del_floor", "del_zset")
    BY <1>7 DEF handleDeleteFile, DelExist, DelStatus, DelRows, DelZset, DelHash, DelOwn
  <2> QED BY <1>1, <1>5, <1>8, <2>1, <2>2, <2>3
<1> QED BY <1>4, <1>6, <1>7

LEMMA CountInvKept ==
    ASSUME Counts, Note, NEW w \in Workers, Work(w)
    PROVE  CountInv'
<1>1. CountKept /\ Whole /\ beside \in [Workers -> Nat] /\ off \in Nat
  BY CountKeptBy DEF Counts, CountInv
<1>2. beside' \in [Workers -> Nat] /\ off' \in Nat
  BY <1>1, BesideTyped, ReloadFacts
<1>3. \A v \in Workers : job'[v].pc = "count_set" => LoadedInv(v)'
  BY <1>1, LoadedKept
<1>4. ASSUME failed' = {}, off' = 0, NEW v \in Workers
      PROVE  job'[v].pc \notin FloorSteps
  <2>1. failed = {} /\ count' = Total'
    BY <1>1, <1>4, Premises DEF CountKept
  <2>2. CASE v = w
    <3>1. SUFFICES ASSUME job'[w].pc \in FloorSteps
                   PROVE  FALSE
      BY <2>2
    <3>2. count' < 0 /\ job[w].op \in Changing
      BY <1>1, <3>1, FloorEntered DEF Whole
    <3>3. Total' \in Nat
      BY <1>1, <3>2, WorkMoves, Busy, Balance DEF Whole
    <3> QED BY <2>1, <3>2, <3>3
  <2>3. CASE v # w
    <3>1. job'[v] = job[v]
      BY <1>1, <2>3, WorkMoves DEF Whole, Others
    <3>2. CASE off' = off
      BY <1>4, <2>1, <3>1, <3>2 DEF Counts, CountInv
    <3>3. CASE job[w].pc = "count_set" /\ off' = beside[w]
      <4>1. Cardinality(Changers) <= 0
        BY <1>4, <3>3 DEF Counts, CountInv, LoadedInv
      <4> QED BY <1>1, <3>1, <4>1, NoChangers
    <3> QED BY <1>1, <3>2, <3>3, ReloadFacts
  <2> QED BY <2>2, <2>3
<1> QED BY <1>1, <1>2, <1>3, <1>4 DEF CountInv, CountKept

-------------------------------------------------------------------------------
(* StatusInv, one handler after the other. *)
LEMMA DirtySteps ==
    ASSUME Typed, NEW w \in Workers
    PROVE  /\ job[w].pc \in DirtyStatus => job[w].op \in Changing
           /\ Idle.pc \notin DirtyStatus
           /\ \A op \in AllOps \ Changing : StepsOf[op] \cap DirtyStatus = {}
<1>1. DirtyStatus \subseteq ShareSteps \cup CancelSteps \cup DelSteps
  BY DEF DirtyStatus, ShareSteps, CancelSteps, DelSteps
<1>2. Idle.pc \notin DirtyStatus
  BY IdleJob DEF DirtyStatus
<1>3. \A op \in AllOps \ Changing : StepsOf[op] \cap DirtyStatus = {}
  BY DEF AllOps, Changing, StepsOf, DirtyStatus, PvSteps, CountSteps, ListSteps, RankSteps
<1> QED BY <1>1, <1>2, <1>3, OpOf DEF Changing

LEMMA StatusFacts ==
    ASSUME Counts, NEW w \in Workers, Work(w), job[w].op \in Changing, failed' = {},
           NEW u \in Users, NEW f \in Files, On(w, u, f)
    PROVE  /\ Works /\ ~Fails(w) /\ StatusStage(w, u, f) /\ Stage(w, f)
           /\ job[w].pc \notin DirtyStatus => Marked(u, f)
           /\ job[w].pc \notin Dirty => Clean(f)
           /\ shared_status \in [Users \X Files -> {NoRow, 0, 1}]
           /\ Key(w) = <<u, f>>
           /\ \A p : Goto(w, p) => job'[w].pc = p
           /\ \A c : Finish(w, c) => job'[w].pc = "idle"
<1>1. Whole /\ Typed /\ failed = {} /\ Works /\ up
  BY Premises DEF Counts, Whole
<1>2. Calm'
  BY <1>1, Tallies DEF Calm
<1>3. /\ ~Fails(w) /\ Stage(w, f) /\ (job[w].pc \notin Dirty => Clean(f))
      /\ \A p : Goto(w, p) => job'[w].pc = p
      /\ \A c : Finish(w, c) => job'[w].pc = "idle"
  BY <1>1, <1>2, ChangeFacts DEF On
<1>4. StatusStage(w, u, f)
  BY <1>1 DEF Counts, StatusInv
<1>5. job[w].pc \notin DirtyStatus => Marked(u, f)
  <2>1. \A v \in Workers \ {w} : On(v, u, f) => job[v].pc \notin DirtyStatus
    BY <1>1, Alone, DirtySteps DEF On, Whole
  <2> QED BY <1>1, <2>1 DEF Counts, StatusInv, Unmarked
<1> QED BY <1>1, <1>3, <1>4, <1>5, TypedParts DEF BoardTyped, Key, On

(* Marked says nothing else than these two. *)
LEMMA MarkedSame ==
    ASSUME NEW u, NEW f, Marked(u, f), shared_status'[<<u, f>>] = shared_status[<<u, f>>],
           OwnShare(u, f)' = {} <=> OwnShare(u, f) = {}
    PROVE  Marked(u, f)'
BY DEF Marked

StatusGoes(w, u, f) == /\ StatusStage(w, u, f)'
                       /\ job'[w].pc \notin DirtyStatus => Marked(u, f)'

LEMMA StatusByShare ==
    ASSUME Counts, NEW w \in Workers, handleShareFile(w), failed' = {},
           NEW u \in Users, NEW f \in Files, On(w, u, f)
    PROVE  StatusGoes(w, u, f)
<1>1. Work(w) /\ job[w].op \in Changing /\ Whole
  BY ShareMoves DEF Work, Whole, Changing, Counts
<1>2. /\ Works /\ ~Fails(w) /\ StatusStage(w, u, f) /\ Stage(w, f)
      /\ job[w].pc \notin DirtyStatus => Marked(u, f)
      /\ shared_status \in [Users \X Files -> {NoRow, 0, 1}] /\ Key(w) = <<u, f>>
      /\ \A p : Goto(w, p) => job'[w].pc = p
      /\ \A c : Finish(w, c) => job'[w].pc = "idle"
  BY <1>1, StatusFacts
<1>3. CASE SetStatus(w, "share_status", 1, "share_insert")
  <2>1. job[w].pc = "share_status" /\ job'[w].pc = "share_insert"
        /\ shared_status' = [shared_status EXCEPT ![<<u, f>>] = IF @ = NoRow THEN NoRow ELSE 1]
    BY <1>2, <1>3 DEF SetStatus, At
  <2>2. shared_status'[<<u, f>>] = 1
    BY <1>2, <2>1 DEF StatusStage
  <2> QED BY <2>1, <2>2 DEF StatusGoes, StatusStage, DirtyStatus
<1>4. CASE ShareInsert(w, "share_count")
  <2>1. job[w].pc = "share_insert" /\ job'[w].pc = "share_count"
        /\ shared_status' = shared_status /\ shared_status[<<u, f>>] = 1
    BY <1>2, <1>4 DEF ShareInsert, At, StatusStage
  <2>2. OwnShare(u, f)' # {}
    BY <1>1, <2>1, OwnByShare DEF Whole, InsertedSteps
  <2> QED BY <2>1, <2>2 DEF StatusGoes, StatusStage, Marked
<1>5. CASE ShareExist(w) \/ ShareRecord(w) \/ HadZset(w) \/ HadHash(w)
           \/ CacheIncrCount(w, "share_count", "share_zset") \/ ShareZset(w) \/ ShareHash(w)
  <2>1. /\ share_file_list' = share_file_list /\ shared_status' = shared_status
        /\ job[w].pc \notin DirtyStatus
    BY <1>5 DEF ShareExist, ShareRecord, HadZset, HadHash, CacheIncrCount, ShareZset,
       ShareHash, board, At, DirtyStatus
  <2>2. Marked(u, f)'
    BY <1>2, <2>1, SameOwn, MarkedSame
  <2>3. \/ job[w].pc \in {"share_exist", "share_record"}
              /\ job'[w].pc \in {"share_record", "share_status", "had_zset", "idle"}
        \/ job'[w].pc \in {"had_hash", "idle", "share_zset", "share_hash"}
    BY <1>2, <1>5 DEF ShareExist, ShareRecord, HadZset, HadHash, CacheIncrCount, ShareZset,
       ShareHash, At
  <2>4. StatusStage(w, u, f)'
    BY <1>2, <2>1, <2>3 DEF StatusStage
  <2> QED BY <2>2, <2>4 DEF StatusGoes
<1> QED BY <1>3, <1>4, <1>5 DEF handleShareFile

LEMMA StatusByCancel ==
    ASSUME Counts, NEW w \in Workers, handleCancelShareFile(w), failed' = {},
           NEW u \in Users, NEW f \in Files, On(w, u, f)
    PROVE  StatusGoes(w, u, f)
<1>1. Work(w) /\ job[w].op \in Changing /\ Whole
  BY CancelMoves DEF Work, Whole, Changing, Counts
<1>2. /\ Works /\ ~Fails(w) /\ StatusStage(w, u, f)
      /\ job[w].pc \notin DirtyStatus => Marked(u, f)
      /\ shared_status \in [Users \X Files -> {NoRow, 0, 1}] /\ Key(w) = <<u, f>>
      /\ \A p : Goto(w, p) => job'[w].pc = p
      /\ \A c : Finish(w, c) => job'[w].pc = "idle"
  BY <1>1, StatusFacts
<1>3. CASE SetStatus(w, "cancel_status", 0, "cancel_count")
  <2>1. job'[w].pc = "cancel_count"
        /\ shared_status' = [shared_status EXCEPT ![<<u, f>>] = IF @ = NoRow THEN NoRow ELSE 0]
    BY <1>2, <1>3 DEF SetStatus, At
  <2>2. shared_status'[<<u, f>>] # 1
    BY <1>2, <2>1 DEF NoRow
  <2> QED BY <2>1, <2>2 DEF StatusGoes, StatusStage, DirtyStatus
<1>4. CASE CacheDecrCount(w, "cancel_count", "cancel_floor", "cancel_rows")
  <2>1. /\ job[w].pc \in {"cancel_count", "cancel_floor"} /\ shared_status' = shared_status
        /\ job'[w].pc \in {"cancel_floor", "cancel_rows"}
    BY <1>2, <1>4 DEF CacheDecrCount, At
  <2> QED BY <1>2, <2>1 DEF StatusGoes, StatusStage, DirtyStatus
<1>5. CASE CancelRows(w)
  <2>1. /\ job[w].pc = "cancel_rows" /\ job'[w].pc = "cancel_zset"
        /\ shared_status' = shared_status /\ shared_status[<<u, f>>] # 1
        /\ share_file_list' = share_file_list \ OwnShare(u, f)
    BY <1>2, <1>5 DEF CancelRows, At, StatusStage, On
  <2>2. OwnShare(u, f)' = {}
    BY <2>1 DEF OwnShare, SharesOf
  <2> QED BY <2>1, <2>2 DEF StatusGoes, StatusStage, Marked
<1>6. CASE CancelZset(w) \/ CancelHash(w)
  <2>1. /\ share_file_list' = share_file_list /\ shared_status' = shared_status
        /\ job[w].pc \notin DirtyStatus /\ job'[w].pc \in {"cancel_hash", "idle"}
    BY <1>2, <1>6 DEF CancelZset, CancelHash, At, DirtyStatus, Reply
  <2>2. Marked(u, f)'
    BY <1>2, <2>1, SameOwn, MarkedSame
  <2> QED BY <2>1, <2>2 DEF StatusGoes, StatusStage
<1> QED BY <1>3, <1>4, <1>5, <1>6 DEF handleCancelShareFile

LEMMA StatusByDelete ==
    ASSUME Counts, NEW w \in Workers, handleDeleteFile(w), failed' = {},
           NEW u \in Users, NEW f \in Files, On(w, u, f)
    PROVE  StatusGoes(w, u, f)
<1>1. Work(w) /\ job[w].op \in Changing /\ Whole
  BY DelMoves DEF Work, Whole, Changing, Counts
<1>2. /\ Works /\ ~Fails(w) /\ StatusStage(w, u, f) /\ Stage(w, f)
      /\ job[w].pc \notin DirtyStatus => Marked(u, f)
      /\ job[w].pc \notin Dirty => Clean(f)
      /\ shared_status \in [Users \X Files -> {NoRow, 0, 1}] /\ Key(w) = <<u, f>>
      /\ \A p : Goto(w, p) => job'[w].pc = p
      /\ \A c : Finish(w, c) => job'[w].pc = "idle"
  BY <1>1, StatusFacts
<1>3. CASE DelExist(w)
  <2>1. /\ job[w].pc = "del_exist" /\ shared_status' = shared_status
        /\ share_file_list' = share_file_list /\ job[w].pc \notin DirtyStatus \cup Dirty
    BY <1>2, <1>3 DEF DelExist, board, At, DirtyStatus, Dirty
  <2>2. Marked(u, f)' /\ SharesOf(f)' = SharesOf(f)
    BY <1>2, <2>1, SameOwn, MarkedSame
  <2>3. job'[w].pc = "del_status" \/ (job'[w].pc = "del_rows" /\ zset[f] # NoScore)
    <3>1. ASSUME Move(w, [job[w] EXCEPT !.n = 1, !.pc = "del_rows"])
          PROVE  job'[w].pc = "del_rows"
      <4>1. Goes(w, {"del_rows"})
        BY <1>1, <3>1, Noted DEF Whole
      <4>2. job'[w].pc \in {"del_rows"}
        BY <1>1, <4>1, GoesFacts DEF Whole
      <4> QED BY <4>2
    <3> QED BY <1>2, <1>3, <3>1 DEF DelExist, On
  <2>4. job'[w].pc = "del_rows" => SharesOf(f) # {}
    BY <1>2, <2>1, <2>3 DEF Clean
  <2> QED BY <2>2, <2>3, <2>4 DEF StatusGoes, StatusStage
<1>4. CASE DelStatus(w)
  <2>1. /\ job[w].pc = "del_status" /\ share_file_list' = share_file_list
        /\ job'[w].pc = IF shared_status[<<u, f>>] = 1 THEN "del_rows" ELSE "del_own"
    BY <1>2, <1>4 DEF DelStatus, board, At
  <2>2. SharesOf(f) = {} /\ Marked(u, f)
    BY <1>2, <2>1 DEF Stage, DirtyStatus
  <2>3. job'[w].pc = "del_own"
    BY <2>1, <2>2 DEF Marked, OwnShare
  <2>4. SharesOf(f)' = {}
    BY <2>1, <2>2, SameOwn
  <2> QED BY <2>3, <2>4 DEF StatusGoes, StatusStage, DirtyStatus
<1>5. CASE DelRows(w)
  <2>1. job'[w].pc = "del_count"
    BY <1>2, <1>5 DEF DelRows
  <2> QED BY <2>1 DEF StatusGoes, StatusStage, DirtyStatus
<1>6. CASE CacheDecrCount(w, "del_count", "del_floor", "del_zset")
  <2>1. job'[w].pc \in {"del_floor", "del_zset"}
    BY <1>2, <1>6 DEF CacheDecrCount, At
  <2> QED BY <2>1 DEF StatusGoes, StatusStage, DirtyStatus
<1>7. CASE DelZset(w) \/ DelHash(w)
  <2>1. /\ job[w].pc \in {"del_zset", "del_hash"} /\ job'[w].pc \in {"del_hash", "del_own"}
        /\ share_file_list' = share_file_list
    BY <1>2, <1>7 DEF DelZset, DelHash, At
  <2>2. SharesOf(f)' = {}
    BY <1>2, <2>1, SameOwn DEF Stage
  <2> QED BY <2>1, <2>2 DEF StatusGoes, StatusStage, DirtyStatus
<1>8. CASE DelOwn(w)
  <2>1. /\ job[w].pc = "del_own" /\ job'[w].pc = "idle" /\ share_file_list' = share_file_list
        /\ shared_status' = [shared_status EXCEPT ![<<u, f>>] = NoRow]
    BY <1>2, <1>8 DEF DelOwn, At
  <2>2. SharesOf(f) = {} /\ shared_status'[<<u, f>>] # 1
    BY <1>2, <2>1 DEF StatusStage, NoRow
  <2>3. OwnShare(u, f)' = {}
    BY <2>1, <2>2, SameOwn DEF OwnShare
  <2> QED BY <2>1, <2>2, <2>3 DEF StatusGoes, StatusStage, Marked
<1> QED BY <1>3, <1>4, <1>5, <1>6, <1>7, <1>8 DEF handleDeleteFile

(* The marks of the other users, and those of the other files. *)
LEMMA MarksElsewhere ==
    ASSUME Whole, NEW w \in Workers, Work(w), NEW x \in Users, NEW g \in Files,
           ~On(w, x, g) \/ job[w].op \notin Changing
    PROVE  /\ OwnShare(x, g)' = {} <=> OwnShare(x, g) = {}
           /\ shared_status'[<<x, g>>] = shared_status[<<x, g>>]
<1>1. job[w].u \in Users /\ job[w].f \in Files /\ job[w].pc # "idle"
      /\ shared_status \in [Users \X Files -> {NoRow, 0, 1}]
  BY WorkMoves, Busy, TypedParts DEF Whole, BoardTyped
<1>2. PICK u \in Users, f \in Files : On(w, u, f)
  BY <1>1 DEF On
<1>3. /\ \/ share_file_list' = share_file_list
         \/ job[w].op \in Changing /\ share_file_list' = share_file_list \cup {NewRow(w)}
         \/ job[w].op \in Changing /\ share_file_list' = share_file_list \ OwnShare(u, f)
         \/ share_file_list' = Bumped(w)
      /\ \/ shared_status' = shared_status
         \/ /\ job[w].op \in Changing
            /\ \E k : shared_status' = [shared_status EXCEPT ![<<u, f>>] = k]
  <2>1. CASE handleShareFile(w)
    <3>1. job[w].op \in Changing
      BY <2>1, ShareMoves DEF Whole, Changing
    <3> QED BY <1>2, <2>1, <3>1 DEF handleShareFile, ShareExist, ShareRecord, HadZset, HadHash,
         SetStatus, ShareInsert, CacheIncrCount, ShareZset, ShareHash, board, NewRow, On, Key
  <2>2. CASE handleCancelShareFile(w)
    <3>1. job[w].op \in Changing
      BY <2>2, CancelMoves DEF Whole, Changing
    <3> QED BY <1>2, <2>2, <3>1 DEF handleCancelShareFile, SetStatus, CacheDecrCount, CancelRows,
         CancelZset, CancelHash, On, Key
  <2>3. CASE handlePvFile(w)
    BY <2>3, PvTable
  <2>4. CASE handleDeleteFile(w)
    <3>1. job[w].op \in Changing
      BY <2>4, DelMoves DEF Whole, Changing
    <3> QED BY <1>2, <2>4, <3>1 DEF handleDeleteFile, DelExist, DelStatus, DelRows,
         CacheDecrCount, DelZset, DelHash, DelOwn, board, On, Key
  <2>5. CASE ApiSharefile(w)
    BY <2>5, ReaderFrame DEF Whole
  <2> QED BY <2>1, <2>2, <2>3, <2>4, <2>5 DEF Work
<1>4. job[w].op \in Changing => x # u \/ g # f
  BY <1>2 DEF On
<1>5. shared_status'[<<x, g>>] = shared_status[<<x, g>>]
  BY <1>1, <1>3, <1>4
<1>6. OwnShare(x, g)' = {} <=> OwnShare(x, g) = {}
  <2>1. CASE share_file_list' = share_file_list
    BY <2>1, SameOwn
  <2>2. CASE job[w].op \in Changing /\ share_file_list' = share_file_list \cup {NewRow(w)}
    <3>1. NewRow(w).u = u /\ NewRow(w).f = f
      BY <1>1, <1>2, NewRowType DEF Whole, On
    <3> QED BY <1>4, <2>2, <3>1 DEF OwnShare, SharesOf
  <2>3. CASE job[w].op \in Changing /\ share_file_list' = share_file_list \ OwnShare(u, f)
    BY <1>4, <2>3 DEF OwnShare, SharesOf
  <2>4. CASE share_file_list' = Bumped(w)
    BY <2>4, BumpRow DEF OwnShare, SharesOf, Bumped, Whole
  <2> QED BY <1>3, <2>1, <2>2, <2>3, <2>4
<1> QED BY <1>5, <1>6

(* The steps StatusStage says something of. *)
StatusStaged == {"cancel_floor", "share_exist", "share_record", "share_status",
                 "share_insert", "cancel_count", "cancel_rows", "del_own", "del_rows"}

LEMMA StatusInvKept ==
    ASSUME Counts, NEW w \in Workers, Work(w)
    PROVE  StatusInv'
<1> SUFFICES ASSUME failed' = {}
             PROVE  /\ \A x \in Users, g \in Files : Unmarked(x, g)' => Marked(x, g)'
                    /\ \A v \in Workers, x \in Users, g \in Files :
                          On(v, x, g)' => StatusStage(v, x, g)'
  BY DEF StatusInv
<1>1. /\ Whole /\ Others(w) /\ (job'[w] = Idle \/ GoesOn(w)) /\ job[w].op \in AllOps
      /\ failed = {}
  BY WorkMoves, Busy, Premises DEF Counts, Whole
<1>2. /\ \A x \in Users, g \in Files : Unmarked(x, g) => Marked(x, g)
      /\ \A v \in Workers, x \in Users, g \in Files : On(v, x, g) => StatusStage(v, x, g)
  BY <1>1 DEF Counts, StatusInv
<1>3. PICK u \in Users, f \in Files : On(w, u, f)
  BY <1>1, WorkMoves, Busy DEF On, Whole
<1>4. job[w].op \in Changing => StatusGoes(w, u, f)
  BY <1>1, <1>3, StatusByShare, StatusByCancel, StatusByDelete, PvMoves, ReaderMoves
     DEF Work, Changing, Whole
<1>5. job[w].op \in Changing /\ job'[w] # Idle =>
         \A x \in Users, g \in Files : On(w, x, g)' <=> x = u /\ g = f
  BY <1>1, <1>3 DEF GoesOn, On, Changing
<1>6. /\ job[w].op \notin Changing => job'[w].pc \notin DirtyStatus /\ job[w].pc \notin DirtyStatus
      /\ Idle.pc \notin DirtyStatus
  BY <1>1, DirtySteps DEF GoesOn, Whole
<1>7. ASSUME NEW x \in Users, NEW g \in Files, Unmarked(x, g)'
      PROVE  Marked(x, g)'
  <2>1. CASE On(w, x, g) /\ job[w].op \in Changing
    <3>1. x = u /\ g = f
      BY <1>3, <2>1 DEF On
    <3>2. job'[w].pc \notin DirtyStatus
      BY <1>5, <1>6, <1>7, <2>1, <3>1 DEF Unmarked
    <3> QED BY <1>4, <2>1, <3>1, <3>2 DEF StatusGoes
  <2>2. CASE ~(On(w, x, g) /\ job[w].op \in Changing)
    <3>1. Unmarked(x, g)
      <4>1. On(w, x, g) => job[w].pc \notin DirtyStatus
        BY <1>6, <2>2
      <4> QED BY <1>1, <1>7, <4>1 DEF Unmarked, Others, On
    <3> QED BY <1>1, <1>2, <2>2, <3>1, MarksElsewhere, MarkedSame
  <2> QED BY <2>1, <2>2
<1>8. ASSUME NEW v \in Workers, NEW x \in Users, NEW g \in Files, On(v, x, g)'
      PROVE  StatusStage(v, x, g)'
  <2>1. job'[v].pc \notin StatusStaged => StatusStage(v, x, g)'
    BY DEF StatusStage, StatusStaged
  <2>2. /\ StatusStaged \subseteq ShareSteps \cup CancelSteps \cup DelSteps
        /\ "idle" \notin StatusStaged
        /\ \A op \in AllOps \ Changing : StepsOf[op] \cap StatusStaged = {}
    BY DEF StatusStaged, ShareSteps, CancelSteps, DelSteps, AllOps, Changing, StepsOf,
       PvSteps, CountSteps, ListSteps, RankSteps
  <2>3. CASE v = w
    <3>1. CASE job'[w] = Idle \/ job[w].op \notin Changing
      BY <1>1, <2>1, <2>2, <2>3, <3>1, IdleJob DEF GoesOn
    <3>2. CASE job'[w] # Idle /\ job[w].op \in Changing
      BY <1>4, <1>5, <1>8, <2>3, <3>2 DEF StatusGoes
    <3> QED BY <3>1, <3>2
  <2>4. CASE v # w
    <3>1. job'[v] = job[v] /\ On(v, x, g)
      BY <1>1, <1>8, <2>4 DEF Others, On
    <3>2. CASE job[v].op \in Changing
      <4>1. Same(g)
        BY <1>1, <2>4, <3>1, <3>2, Elsewhere DEF Whole, On
      <4> QED BY <1>2, <3>1, <4>1 DEF Same, StatusStage
    <3>3. CASE job[v].op \notin Changing
      <4>1. job[v].pc \notin StatusStaged
        BY <1>1, <2>2, <3>3, OpOf DEF Whole, Changing
      <4> QED BY <2>1, <3>1, <4>1
    <3> QED BY <3>2, <3>3
  <2> QED BY <2>3, <2>4
<1> QED BY <1>7, <1>8

LEMMA CountsKept ==
    ASSUME Counts, Note, NEW w \in Workers, Work(w)
    PROVE  Counts'
BY WholeKept, CountInvKept, StatusInvKept DEF Counts

(* A change that begins may lower the total by one and is beside every     *)
(* reload under way.                                                       *)
LEMMA CountInvAtStart ==
    ASSUME Whole, CountInv, Note, NEW w \in Workers, Others(w), NEW op \in AllOps,
           job[w].pc = "idle", job[w].op = "none",
           job'[w].pc = FirstPc[op], job'[w].op = op,
           FirstPc[op] \notin UncountedSteps \cup FloorSteps \cup {"del_count", "count_set"},
           FirstPc[op] \in LoweringSteps => op \in Changing,
           UNCHANGED <<share_file_list, count, failed, faults>>
    PROVE  CountInv'
<1>1. "idle" \notin UncountedSteps \cup LoweringSteps /\ "none" \notin Changing
  BY DEF UncountedSteps, LoweringSteps, Changing
<1>2. Total' = Total
  <2>1. \A g : Uncounted(g)' <=> Uncounted(g)
    BY <1>1 DEF Uncounted, Others
  <2>2. CountedRows' = CountedRows
    BY <2>1 DEF CountedRows
  <2>3. Phantoms' = Phantoms
    BY DEF Phantoms, Others
  <2> QED BY <2>2, <2>3 DEF Total
<1>3. off' = off
  <2>1. \A v \in Workers : ~Reloads(v)
    BY DEF Reloads, At, Others
  <2> QED BY <2>1 DEF Note
<1> DEFINE d == IF op \in Changing THEN 1 ELSE 0
<1>4. /\ Changers' = (IF op \in Changing THEN Changers \cup {w} ELSE Changers)
      /\ w \notin Changers
  BY <1>1 DEF Changers, Others
<1>5. /\ Lowerers' = (IF FirstPc[op] \in LoweringSteps THEN Lowerers \cup {w} ELSE Lowerers)
      /\ w \notin Lowerers
  BY <1>1 DEF Lowerers, Others
<1>6. Cardinality(Changers') = Cardinality(Changers) + d /\ Cardinality(Changers' \ Changers) = d
  <2>1. CASE op \in Changing
    <3>1. Changers' \ Changers = {w}
      BY <1>4, <2>1
    <3>2. Cardinality(Changers \cup {w}) = Cardinality(Changers) + 1
      BY <1>4, Sizes, FS_AddElement
    <3> QED BY <1>4, <2>1, <3>1, <3>2, FS_Singleton
  <2>2. CASE op \notin Changing
    <3>1. Changers' \ Changers = {} /\ Changers' = Changers
      BY <1>4, <2>2
    <3>2. d = 0 /\ Cardinality(Changers' \ Changers) = 0
      BY <2>2, <3>1, FS_EmptySet
    <3>3. Cardinality(Changers') = Cardinality(Changers) + 0
      BY <3>1, Sizes
    <3> QED BY <3>2, <3>3
  <2> QED BY <2>1, <2>2
<1>7. Cardinality(Lowerers') <= Cardinality(Lowerers) + d
  <2>1. CASE FirstPc[op] \in LoweringSteps
    <3>1. Cardinality(Lowerers \cup {w}) = Cardinality(Lowerers) + 1
      BY <1>5, Sizes, FS_AddElement
    <3> QED BY <1>5, <2>1, <3>1, Sizes
  <2>2. CASE FirstPc[op] \notin LoweringSteps
    BY <1>5, <2>2, Sizes
  <2> QED BY <2>1, <2>2
<1> PICK e \in {0, 1} : e = d
  OBVIOUS
<1> HIDE DEF d
<1>8. ASSUME NEW v \in Workers, job'[v].pc = "count_set"
      PROVE  LoadedInv(v)'
  <2>1. v # w /\ job'[v] = job[v] /\ LoadedInv(v)
    BY <1>8 DEF Others, CountInv
  <2>2. beside'[v] = beside[v] + e /\ beside[v] \in Nat
    BY <1>6, <1>8, <2>1 DEF Note, At, CountInv
  <2>3. Total \in Nat /\ Least = Total - Cardinality(Lowerers)
        /\ Least' = Total - Cardinality(Lowerers')
    BY <1>2, TotalSize DEF Least
  <2>4. job[v].n \in Nat
    BY DEF Whole, Typed, Job
  <2>5. Cardinality(Changers') <= beside'[v]
    BY <1>6, <2>1, <2>2, Sizes DEF LoadedInv
  <2>6. Mild' => job'[v].n <= Least' + beside'[v]
    <3>1. Mild' => job[v].n <= Least + beside[v]
      BY <2>1 DEF LoadedInv, Mild
    <3> QED BY <1>7, <2>1, <2>2, <2>3, <2>4, <3>1, Sizes
  <2>7. failed' = {} /\ beside'[v] = 0 => job'[v].n = Total'
    <3>1. beside'[v] = 0 => beside[v] = 0
      BY <2>2
    <3> QED BY <1>2, <2>1, <3>1 DEF LoadedInv
  <2> QED BY <2>5, <2>6, <2>7 DEF LoadedInv
<1>9. \A v \in Workers : job'[v].pc \in FloorSteps => job[v].pc \in FloorSteps
  BY DEF Others
<1>10. beside' \in [Workers -> Nat]
  BY BesideTyped DEF CountInv
<1> QED BY <1>2, <1>3, <1>8, <1>9, <1>10 DEF CountInv, Mild

(* A request begins: it has neither changed nor counted anything, and who  *)
(* shares or deletes has the file.                                         *)
LEMMA CountsAtStart ==
    ASSUME Counts, NEW w \in Workers, Start(w), Note, ~astray'
    PROVE  Counts'
<1>1. PICK op \in Ops, u \in Users, f \in Files :
         Begins(w, op, u, f) /\ InGoodOrder(op, u, f)
  BY StartBegins, BegunInOrder DEF Counts, Whole
<1>2. /\ Others(w) /\ job[w].pc = "idle" /\ job'[w].pc = FirstPc[op]
      /\ job'[w].u = u /\ job'[w].f = f /\ job'[w].op = op /\ job[w].op = "none"
      /\ UNCHANGED <<share_file_list, shared_status, count, failed, faults>>
  BY <1>1, IdleJob DEF Begins, board
<1>3. Whole'
  BY WholeAtStart DEF Counts
<1>4. FirstPc[op] \notin UncountedSteps \cup DirtyStatus \cup FloorSteps \cup {"del_count", "count_set"}
      /\ "idle" \notin UncountedSteps \cup DirtyStatus \cup LoweringSteps
      /\ (FirstPc[op] \in StatusStaged => op = "share" /\ FirstPc[op] = "share_exist")
      /\ (FirstPc[op] \in LoweringSteps => op \in Changing)
      /\ op \in AllOps
  BY BoardAssumption DEF AllOps, FirstPc, UncountedSteps, DirtyStatus, StatusStaged, FloorSteps,
     LoweringSteps, Changing
<1>5. CountInv'
  BY <1>1, <1>2, <1>4, CountInvAtStart DEF Counts, Whole
<1>6. StatusInv'
  <2> SUFFICES ASSUME failed' = {}
               PROVE  /\ \A x \in Users, g \in Files : Unmarked(x, g)' => Marked(x, g)'
                      /\ \A v \in Workers, x \in Users, g \in Files :
                            On(v, x, g)' => StatusStage(v, x, g)'
    BY DEF StatusInv
  <2>1. /\ \A x \in Users, g \in Files : Unmarked(x, g) => Marked(x, g)
        /\ \A v \in Workers, x \in Users, g \in Files : On(v, x, g) => StatusStage(v, x, g)
    BY <1>2 DEF Counts, StatusInv
  <2>2. \A x, g : SharesOf(g)' = SharesOf(g) /\ OwnShare(x, g)' = OwnShare(x, g)
    BY <1>2, SameOwn
  <2>3. ASSUME NEW x \in Users, NEW g \in Files, Unmarked(x, g)'
        PROVE  Marked(x, g)'
    <3>1. Unmarked(x, g)
      BY <1>2, <1>4, <2>3 DEF Unmarked, On, Others
    <3> QED BY <1>2, <2>1, <2>2, <3>1, MarkedSame
  <2>4. ASSUME NEW v \in Workers, NEW x \in Users, NEW g \in Files, On(v, x, g)'
        PROVE  StatusStage(v, x, g)'
    <3>1. CASE v = w
      <4>1. x = u /\ g = f
        BY <1>2, <2>4, <3>1 DEF On
      <4>2. op = "share" => shared_status[<<u, f>>] # NoRow
        BY <1>1 DEF InGoodOrder
      <4> QED BY <1>2, <1>4, <3>1, <4>1, <4>2 DEF StatusStage, StatusStaged
    <3>2. CASE v # w
      <4>1. job'[v] = job[v] /\ StatusStage(v, x, g)
        BY <1>2, <2>1, <2>4, <3>2 DEF On, Others
      <4> QED BY <1>2, <2>2, <4>1 DEF StatusStage
    <3> QED BY <3>1, <3>2
  <2> QED BY <2>3, <2>4
<1> QED BY <1>3, <1>5, <1>6 DEF Counts

LEMMA TotalAtRestNext ==
    ASSUME \A w \in Workers : job'[w] = Idle, IsFiniteSet(share_file_list')
    PROVE  Total' = Cardinality(share_file_list')
<1>1. \A w \in Workers : job'[w].pc \notin UncountedSteps \cup {"del_count"}
  BY IdleJob DEF UncountedSteps
<1>2. CountedRows' = share_file_list' /\ Phantoms' = {}
  BY <1>1 DEF CountedRows, Uncounted, Phantoms
<1>3. Cardinality(share_file_list') \in Nat
  BY FS_CardinalityType
<1> QED BY <1>2, <1>3, FS_EmptySet DEF Total

(* Nothing is written by a step at which nobody is at count_set before. *)
LEMMA NotesAtRest ==
    ASSUME Note, \A w \in Workers : job'[w] = Idle, NEW k \in Nat, off = k,
           faults' # faults \/ \A w \in Workers : job[w] = Idle
    PROVE  off' = off /\ beside' \in [Workers -> Nat]
           /\ \A w \in Workers : job'[w].pc \notin FloorSteps \cup {"count_set"}
<1>1. Idle.pc \notin FloorSteps \cup {"count_set"}
  BY IdleJob DEF FloorSteps
<1>2. \A w \in Workers : ~Reloads(w)
  BY <1>1 DEF Reloads, At
<1> QED BY <1>1, <1>2 DEF Note

LEMMA CountsAtCrash ==
    ASSUME Counts, Crash, Note
    PROVE  Counts'
<1>1. /\ Whole /\ Typed /\ \A w \in Workers : job'[w] = Idle
      /\ UNCHANGED <<share_file_list, shared_status, count>>
      /\ faults' = faults + 1 /\ failed \subseteq failed' /\ failed' # {}
      /\ \A w \in Workers : job[w].op \in failed'
  BY CrashTyped DEF Counts, Whole, board
<1>2. Whole'
  BY <1>1, WholeAtCrash
<1>3. Total' = Cardinality(share_file_list)
  BY <1>1, TotalAtRestNext DEF Typed
<1>7. /\ off \in Nat /\ off' = off /\ beside' \in [Workers -> Nat]
      /\ \A w \in Workers : job'[w].pc \notin FloorSteps \cup {"count_set"}
  <2>1. faults' # faults /\ off \in Nat
    BY <1>1 DEF Typed, Counts, CountInv
  <2> QED BY <1>1, <2>1, NotesAtRest
<1>4. Mild' => count' <= Total' + off'
  <2> SUFFICES ASSUME Mild'
               PROVE  count' <= Total' + off'
    OBVIOUS
  <2>1. count <= Total + off
    BY <1>1 DEF Mild, Typed, Counts, CountInv
  <2>2. Phantoms = {}
    <3>1. \A w \in Workers : job[w].pc = "del_count" => job[w].op = "del"
      BY <1>1, OpOf DEF DelSteps
    <3> QED BY <1>1, <3>1 DEF Mild, Phantoms
  <2>3. /\ Cardinality(CountedRows) <= Cardinality(share_file_list)
        /\ Cardinality(CountedRows) \in Nat /\ Cardinality(share_file_list) \in Nat
    <3>1. CountedRows \subseteq share_file_list /\ IsFiniteSet(share_file_list)
      BY <1>1 DEF CountedRows, Typed
    <3> QED BY <3>1, FS_Subset, FS_CardinalityType
  <2>4. Total = Cardinality(CountedRows)
    BY <2>2, <2>3, FS_EmptySet DEF Total
  <2>5. count \in Int
    BY <1>1, TypedParts DEF BoardTyped
  <2> QED BY <1>1, <1>3, <1>7, <2>1, <2>3, <2>4, <2>5
<1>5. CountInv'
  BY <1>1, <1>4, <1>7 DEF CountInv
<1>6. StatusInv'
  BY <1>1 DEF StatusInv
<1> QED BY <1>2, <1>5, <1>6 DEF Counts

LEMMA CountsAtInitialize ==
    ASSUME Counts, InitializePvCache, Note
    PROVE  Counts'
<1>1. /\ Whole /\ Typed /\ Typed' /\ \A w \in Workers : job'[w] = Idle
      /\ UNCHANGED <<share_file_list, shared_status, count, job, answer>>
      /\ failed # {} /\ failed \subseteq failed' /\ faults <= faults'
  BY InitializeTyped DEF Counts, Whole
<1>2. Whole'
  BY <1>1, WholeAtInit
<1>3. CountedRows' = CountedRows /\ Phantoms' = Phantoms
  BY <1>1 DEF CountedRows, Uncounted, Phantoms
<1>4. Total' = Total
  BY <1>3 DEF Total
<1>5. Mild' => Mild
  BY <1>1 DEF Mild, Typed
<1>8. /\ off \in Nat /\ off' = off /\ beside' \in [Workers -> Nat]
      /\ \A w \in Workers : job'[w].pc \notin FloorSteps \cup {"count_set"}
  BY <1>1, NotesAtRest DEF Counts, CountInv
<1>6. CountInv'
  BY <1>1, <1>4, <1>5, <1>8 DEF Counts, CountInv
<1>7. StatusInv'
  BY <1>1 DEF StatusInv
<1> QED BY <1>2, <1>6, <1>7 DEF Counts

LEMMA CountsStutters ==
    ASSUME Counts, UNCHANGED <<vars, notes>>
    PROVE  Counts'
<1>1. UNCHANGED <<share_file_list, shared_status, count, job, failed, faults, beside, off>>
      /\ UNCHANGED vars
  BY DEF vars, board, tally, notes
<1>2. Whole'
  BY <1>1, WholeStutters DEF Counts
<1>3. CountedRows' = CountedRows /\ Phantoms' = Phantoms
  BY <1>1 DEF CountedRows, Uncounted, Phantoms
<1>4. Total' = Total
  BY <1>3 DEF Total
<1>7. Lowerers' = Lowerers /\ Changers' = Changers
  BY <1>1 DEF Lowerers, Changers
<1>8. Least' = Least
  BY <1>4, <1>7 DEF Least
<1>9. \A w \in Workers : LoadedInv(w)' <=> LoadedInv(w)
  BY <1>1, <1>4, <1>7, <1>8 DEF LoadedInv, Mild
<1>5. CountInv'
  BY <1>1, <1>4, <1>9 DEF Counts, CountInv, Mild
<1>6. StatusInv'
  BY <1>1, SameOwn DEF Counts, StatusInv, Unmarked, Marked, On, StatusStage
<1> QED BY <1>2, <1>5, <1>6 DEF Counts

LEMMA CountsInit ==
    ASSUME NotedInit
    PROVE  Counts
<1>1. Whole /\ share_file_list = {} /\ count = 0 /\ \A w \in Workers : job[w] = Idle
  BY WholeInit DEF Init, NotedInit
<1>2. Idle.pc \notin UncountedSteps \cup {"del_count", "count_set"} \cup StatusStaged
                     \cup FloorSteps
  BY IdleJob DEF UncountedSteps, StatusStaged, FloorSteps
<1>3. Total = 0
  BY <1>1, <1>2, TotalAtRest, FS_EmptySet
<1>4. CountInv
  BY <1>1, <1>2, <1>3 DEF CountInv, NotedInit
<1>5. \A u \in Users, f \in Files : Marked(u, f)
  BY <1>1 DEF Init, NotedInit, Marked, OwnShare, SharesOf
<1>6. \A w \in Workers, u \in Users, f \in Files : StatusStage(w, u, f)
  BY <1>1, <1>2 DEF StatusStage, StatusStaged
<1> QED BY <1>1, <1>4, <1>5, <1>6 DEF Counts, StatusInv

LEMMA CountsStep ==
    ASSUME ~astray => Counts, [Next /\ Note]_<<vars, notes>>
    PROVE  ~astray' => Counts'
<1> SUFFICES ASSUME ~astray'
             PROVE  Counts'
  OBVIOUS
<1>1. CASE UNCHANGED <<vars, notes>>
  <2>1. astray' = astray
    BY <1>1 DEF notes
  <2> QED BY <1>1, <2>1, CountsStutters
<1>2. CASE Next /\ Note
  <2>1. Counts
    BY <1>2 DEF Note
  <2> QED BY <1>2, <2>1, CountsKept, CountsAtStart, CountsAtCrash, CountsAtInitialize DEF Next
<1> QED BY <1>1, <1>2

LEMMA CountsAlways == Spec => [](~astray => Counts)
<1>1. NotedInit => (~astray => Counts)
  BY CountsInit
<1>2. (~astray => Counts) /\ [Next /\ Note]_<<vars, notes>> => (~astray => Counts)'
  BY CountsStep
<1> QED BY <1>1, <1>2, PTL DEF Spec

(* As long as nothing has failed and the requests have come in good order, *)
(* between requests shared_status marks exactly the user who has shared    *)
(* the file, and FILE_PUBLIC_COUNT is the number of shares, unless changes *)
(* ran beside the reload that wrote it last; in whatever order the threads *)
(* have run the requests.                                                  *)
THEOREM BoardAgrees == Spec => []SettledBoard
<1>1. ASSUME Counts, Settled, failed = {}
      PROVE  /\ off = 0 => count = Cardinality(share_file_list)
             /\ \A u \in Users, f \in Files :
                   shared_status[<<u, f>>] = 1 <=> OwnShare(u, f) # {}
  <2>1. \A w \in Workers : job[w].pc \notin UncountedSteps \cup {"del_count"} \cup DirtyStatus
    BY <1>1 DEF Settled, At, UncountedSteps, DirtyStatus
  <2>2. Total = Cardinality(share_file_list)
    BY <1>1, <2>1, TotalAtRest DEF Counts, Whole, Typed
  <2>3. off = 0 => count = Total
    BY <1>1 DEF Counts, CountInv
  <2>4. \A u \in Users, f \in Files : Marked(u, f)
    BY <1>1, <2>1 DEF Counts, StatusInv, Unmarked
  <2> QED BY <2>2, <2>3, <2>4 DEF Marked
<1>2. (~astray => Counts) => SettledBoard
  BY <1>1 DEF SettledBoard
<1> QED BY CountsAlways, <1>2, PTL

(* After at most one failure, unless it hit a deletion, and as long as the *)
(* requests have come in good order, FILE_PUBLIC_COUNT is above the number *)
(* of shares between requests by no more than the changes that ran beside  *)
(* the reload that wrote it last; so, if none ran beside it, not at all:   *)
(* every handler but handleDeleteFile inserts before it counts up and      *)
(* counts down before it deletes, wherever it stops.                       *)
THEOREM CountErrsLow == Spec => []CountNeverOver
<1>1. ASSUME Counts, Settled, faults <= 1, "del" \notin failed
      PROVE  count <= Cardinality(share_file_list) + off
  <2>1. \A w \in Workers : job[w].pc \notin UncountedSteps \cup {"del_count"}
    BY <1>1 DEF Settled, At, UncountedSteps
  <2>2. Total = Cardinality(share_file_list)
    BY <1>1, <2>1, TotalAtRest DEF Counts, Whole, Typed
  <2> QED BY <1>1, <2>2 DEF Counts, CountInv, Mild
<1>2. (~astray => Counts) => CountNeverOver
  BY <1>1 DEF CountNeverOver
<1> QED BY CountsAlways, <1>2, PTL
===============================================================================
