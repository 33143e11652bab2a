------------------------------ MODULE MCRedisConn ------------------------------
(* Small instances of RedisConn for TLC. *)
EXTENDS RedisConn

(* One command of every way to treat a missing and an unexpected reply. *)
SmallCommands == {Get, Incr, HgetChar, ZsetExist, FlushDb}
================================================================================
