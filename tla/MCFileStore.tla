------------------------------ MODULE MCFileStore ------------------------------
(* Small instances of FileStore for TLC. *)
EXTENDS FileStore, TLC

AllOps == {"md5", "upload", "save", "del"}

(* Every kind of failure but a failed delete from file_info. *)
MostFaults == {"own", "query", "update", "insert", "delete", "redis", "fdfs",
               "drop", "crash"}

(* Failures of a statement or of the process, not of a transaction's       *)
(* connection.                                                             *)
StatementFaults == MostFaults \ {"drop"}

(* The same, and the first query of handleDealMd5 does not fail. *)
LaterFaults == StatementFaults \ {"own"}

StoreSymmetry ==
    Permutations(Workers) \cup Permutations(Owners) \cup Permutations(Md5s)
================================================================================
