------------------------------ MODULE MCMysqlDB ------------------------------
(* Small instances of MysqlDB: more workers than connections. *)
EXTENDS MysqlDB

CONSTANTS w1, w2, w3

(* No worker sleeps for ever beside a connection that was put back, said   *)
(* of one of them: they all run the same code.                             *)
NoWorkerLeftWaiting == NotLeftWaiting(w1)
=============================================================================
