------------------------------- MODULE MysqlDB -------------------------------
(***************************************************************************)
(* mysql/MysqlDB.cpp over mysql/MysqlConnPool.cpp: what the workers do     *)
(* with a connection between get() and put().  A MysqlDB wraps a handle of *)
(* the MySQL client library, which is outside and keeps the result of a    *)
(* statement until it is fetched, and a result fetched before, which       *)
(* outlives both the statement and the worker that sent it.                *)
(*                                                                         *)
(* A worker calls getResult() after an execute() that did not throw,       *)
(* nextRow() after getResult() whether it threw or not, reConnect() when   *)
(* it likes, and may put the connection back at any point: with a result   *)
(* unfetched, a result half read, or a broken link.                        *)
(***************************************************************************)
EXTENDS MysqlConnPool

CONSTANT MaxStatements        \* bound on the statements sent; they are numbered

ASSUME MaxStatementsAssumption == MaxStatements \in Nat

VARIABLES db,                 \* db[c]: the object behind connection c
          statements,         \* the statements sent so far
          asked,              \* asked[t]: t's last statement, if it did not fail, or 0
          stage               \* stage[t]: what t has done with that connection

clientVars == <<db, statements, asked, stage>>
allVars == <<vars, clientVars>>

NoStatement == 0

(* up: the handle has been connected; good: mysql_errno() is 0; unfetched: *)
(* the statement whose result the handle still has to deliver; mMysqlResult:*)
(* the statement whose rows nextRow() goes through.                        *)
Fresh == [up |-> FALSE, good |-> TRUE, unfetched |-> NoStatement, mMysqlResult |-> NoStatement]

ClientInit ==
    /\ Init
    /\ db = [c \in (1 .. MaxInits) \X (1 .. Size) |-> Fresh]
    /\ statements = 0
    /\ asked = [t \in Threads |-> NoStatement]
    /\ stage = [t \in Threads |-> "taken"]

(* connect() of the connection that initConnPool is about to queue. *)
connect ==
    /\ Connect
    /\ db' = [db EXCEPT ![<<pMysqlArray, filled + 1>>].up = TRUE]
    /\ UNCHANGED <<statements, asked, stage>>

(***************************************************************************)
(* The client library: what mysql_real_query, mysql_store_result and       *)
(* mysql_real_connect make of a handle h.                                  *)
(***************************************************************************)
(* A handle with a result unfetched takes no statement: "Commands out of   *)
(* sync".  A handle never connected takes none either.                     *)
QueryMaySucceed(h) == h.up /\ h.unfetched = NoStatement

(* A statement with rows leaves them to be fetched, another leaves none. *)
Queried(h, s) ==
    {[h EXCEPT !.good = TRUE, !.unfetched = u] : u \in {s, NoStatement}}

QueryFailed(h) == [h EXCEPT !.good = FALSE]

(* Without a result to fetch NULL comes back and no error is set. *)
Stored(h) ==
    IF h.unfetched = NoStatement
    THEN {[h EXCEPT !.mMysqlResult = NoStatement]}
    ELSE {[h EXCEPT !.good = TRUE, !.unfetched = NoStatement, !.mMysqlResult = h.unfetched],
          [h EXCEPT !.good = FALSE, !.unfetched = NoStatement, !.mMysqlResult = NoStatement]}

(***************************************************************************)
(* The calls of a worker that holds a connection                           *)
(***************************************************************************)
Using(t) == pc[t] = "idle" /\ conn[t] # NoConn

(* Statement s has gone to the server, or mysql_real_query has failed. *)
Sent(t, s) ==
    /\ QueryMaySucceed(db[conn[t]])
    /\ \E h \in Queried(db[conn[t]], s) : db' = [db EXCEPT ![conn[t]] = h]

Refused(t) == db' = [db EXCEPT ![conn[t]] = QueryFailed(@)]

(* An execute() that reports nothing when mysql_real_query fails. *)
SilentExecute(t) ==
    /\ Using(t)
    /\ statements < MaxStatements
    /\ statements' = statements + 1
    /\ Sent(t, statements') \/ Refused(t)
    /\ asked' = [asked EXCEPT ![t] = statements']
    /\ stage' = [stage EXCEPT ![t] = "executed"]
    /\ UNCHANGED vars

execute(t) ==
    /\ Using(t)
    /\ statements < MaxStatements
    /\ statements' = statements + 1
    /\ \/ /\ Sent(t, statements')
          /\ asked' = [asked EXCEPT ![t] = statements']
          /\ stage' = [stage EXCEPT ![t] = "executed"]
       \/ /\ Refused(t)
          /\ asked' = [asked EXCEPT ![t] = NoStatement]
          /\ stage' = [stage EXCEPT ![t] = "taken"]
    /\ UNCHANGED vars

(* A getResult() that gives up the old result only for a new one. *)
KeepingGetResult(t) ==
    /\ Using(t)
    /\ stage[t] = "executed"
    /\ \E h \in Stored(db[conn[t]]) :
         db' = [db EXCEPT ![conn[t]] =
                  IF h.mMysqlResult # NoStatement THEN h
                  ELSE [h EXCEPT !.mMysqlResult = db[conn[t]].mMysqlResult]]
    /\ stage' = [stage EXCEPT ![t] = "fetched"]
    /\ UNCHANGED <<vars, statements, asked>>

(* The old result is freed first; throws when there is none to fetch. *)
getResult(t) ==
    /\ Using(t)
    /\ stage[t] = "executed"
    /\ \E h \in Stored(db[conn[t]]) : db' = [db EXCEPT ![conn[t]] = h]
    /\ stage' = [stage EXCEPT ![t] = "fetched"]
    /\ UNCHANGED <<vars, statements, asked>>

(* Whose rows nextRow() goes through. *)
nextRow(t) == db[conn[t]].mMysqlResult

(* Does nothing while the last call of the handle succeeded; otherwise the *)
(* handle is closed and a new one connected, or left unconnected. The      *)
(* result fetched before stays.                                            *)
reConnect(t) ==
    /\ Using(t)
    /\ ~ db[conn[t]].good
    /\ \E connected \in BOOLEAN :
         db' = [db EXCEPT ![conn[t]] = [Fresh EXCEPT !.up = connected, !.good = connected,
                                                     !.mMysqlResult = db[conn[t]].mMysqlResult]]
    /\ UNCHANGED <<vars, statements, asked, stage>>

(* The worker hands the connection over to put() and forgets about it. *)
putBack(t) ==
    /\ CallPut(t)
    /\ asked' = [asked EXCEPT ![t] = NoStatement]
    /\ stage' = [stage EXCEPT ![t] = "taken"]
    /\ UNCHANGED <<db, statements>>

Use(t) == execute(t) \/ getResult(t) \/ reConnect(t)

(* The steps of the pool in which no MysqlDB takes part. *)
PoolStep ==
    /\ \/ InitConnPool \/ ConnectFails \/ InitConnPoolCharSet
       \/ \E t \in Threads : CallGet(t) \/ Step(t) \/ SpuriousWakeup(t)
    /\ UNCHANGED clientVars

ClientNext == PoolStep \/ connect \/ \E t \in Threads : Use(t) \/ putBack(t)

ClientSpec == ClientInit /\ [][ClientNext]_allVars

(* A worker that can run is eventually scheduled, is not overtaken for     *)
(* ever at the mutex, and does put back a connection it has taken, however *)
(* it uses it until then.                                                  *)
FairClientSpec ==
    /\ ClientSpec
    /\ \A t \in Threads :
         /\ WF_allVars((Step(t) /\ UNCHANGED clientVars) \/ putBack(t))
         /\ SF_allVars((LockGet(t) \/ LockPut(t) \/ Relock(t)) /\ UNCHANGED clientVars)
-----------------------------------------------------------------------------
(* The rows a worker reads are those of the statement it sent last, never  *)
(* of one that the connection's last holder left behind, fetched or        *)
(* unfetched, though put(), execute() and reConnect() clear nothing away.  *)
RowsAreOwn ==
    \A t \in Threads :
        Using(t) /\ stage[t] = "fetched" => nextRow(t) \in {NoStatement, asked[t]}
=============================================================================
