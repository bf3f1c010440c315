---------------------------- MODULE MysqlConnPool ----------------------------
(***************************************************************************)
(* mysql/MysqlConnPool.cpp: a pool of database connections behind a mutex  *)
(* and a condition variable.  One thread fills the pool with initConnPool, *)
(* which throws at the first connection that fails and may be called       *)
(* again, and sets the character set; then the workers take connections    *)
(* and put them back.  put() signals after it has released the mutex.      *)
(*                                                                         *)
(* A connection is <<a, i>>: element i of the a-th array allocated.        *)
(***************************************************************************)
EXTENDS Naturals, Sequences, FiniteSets, Functions

CONSTANTS Threads,            \* the workers
          NoThread,           \* the owner of a free mutex
          NoConn,             \* what a worker holds outside get()..put()
          Size,               \* the size given to initConnPool
          MaxInits            \* bound on the calls of initConnPool

ASSUME PoolThreadsAssumption == NoThread \notin Threads /\ IsFiniteSet(Threads)
ASSUME PoolNoConnAssumption == NoConn \notin Nat \X Nat
ASSUME SizeAssumption == Size \in Nat \ {0} /\ MaxInits \in Nat

VARIABLES mQLock,             \* the holder of the mutex
          mQCond,             \* the workers blocked in the condition variable
          mysqlQueue,         \* the connections ready to be taken
          pMysqlArray,        \* which array was allocated last; 0 is NULL
          filled,             \* how many of its connections are connected
          boot,               \* the filling thread: new, connect, failed, charset, ready
          pc,                 \* pc[t]: next step of worker t
          conn                \* conn[t]: the connection t has taken, or NoConn

Lock == INSTANCE ThreadCondLock WITH owner <- mQLock, waiters <- mQCond

bootVars == <<pMysqlArray, filled, boot>>
vars == <<mQLock, mQCond, mysqlQueue, pMysqlArray, filled, boot, pc, conn>>

Init == /\ Lock!Init
        /\ mysqlQueue = <<>>
        /\ pMysqlArray = 0
        /\ filled = 0
        /\ boot = "new"
        /\ pc = [t \in Threads |-> "idle"]
        /\ conn = [t \in Threads |-> NoConn]

Goto(t, from, to) == pc[t] = from /\ pc' = [pc EXCEPT ![t] = to]

(***************************************************************************)
(* The filling thread.  initConnPool takes no lock.                        *)
(***************************************************************************)
InitConnPool ==
    /\ boot \in {"new", "failed"}
    /\ pMysqlArray < MaxInits
    /\ pMysqlArray' = pMysqlArray + 1
    /\ filled' = 0
    /\ boot' = "connect"
    /\ UNCHANGED <<mQLock, mQCond, mysqlQueue, pc, conn>>

Connect ==
    /\ boot = "connect"
    /\ filled' = filled + 1
    /\ mysqlQueue' = Append(mysqlQueue, <<pMysqlArray, filled + 1>>)
    /\ boot' = IF filled + 1 = Size THEN "charset" ELSE "connect"
    /\ UNCHANGED <<mQLock, mQCond, pMysqlArray, pc, conn>>

(* connect() throws: the connections pushed so far stay in the pool. *)
ConnectFails ==
    /\ boot = "connect"
    /\ boot' = "failed"
    /\ UNCHANGED <<mQLock, mQCond, mysqlQueue, pMysqlArray, filled, pc, conn>>

(* initConnPoolCharSet, which visits every element of the array without a  *)
(* lock, before the workers start.                                         *)
InitConnPoolCharSet ==
    /\ boot = "charset"
    /\ boot' = "ready"
    /\ UNCHANGED <<mQLock, mQCond, mysqlQueue, pMysqlArray, filled, pc, conn>>

Boot == InitConnPool \/ Connect \/ ConnectFails \/ InitConnPoolCharSet

(***************************************************************************)
(* get()                                                                   *)
(***************************************************************************)
CallGet(t) ==
    /\ boot = "ready"
    /\ conn[t] = NoConn
    /\ Goto(t, "idle", "lockGet")
    /\ UNCHANGED <<mQLock, mQCond, mysqlQueue, bootVars, conn>>

LockGet(t) ==
    /\ Goto(t, "lockGet", "test")
    /\ Lock!lock(t)
    /\ UNCHANGED <<mysqlQueue, bootVars, conn>>

Wait(t) ==
    /\ Goto(t, "test", "wait")
    /\ mysqlQueue = <<>>
    /\ Lock!wait(t)
    /\ UNCHANGED <<mysqlQueue, bootVars, conn>>

SpuriousWakeup(t) ==
    /\ pc[t] = "wait"
    /\ Lock!wake(t)
    /\ UNCHANGED <<mysqlQueue, bootVars, pc, conn>>

Relock(t) ==
    /\ Goto(t, "wait", "test")
    /\ Lock!relock(t)
    /\ UNCHANGED <<mysqlQueue, bootVars, conn>>

(* The loop ends. *)
TestNonempty(t) ==
    /\ Goto(t, "test", "front")
    /\ mysqlQueue # <<>>
    /\ UNCHANGED <<mQLock, mQCond, mysqlQueue, bootVars, conn>>

(* The pointer is copied with front() and then removed with pop(), both    *)
(* undefined on an empty queue.                                            *)
Front(t) ==
    /\ Goto(t, "front", "pop")
    /\ mysqlQueue # <<>>
    /\ conn' = [conn EXCEPT ![t] = Head(mysqlQueue)]
    /\ UNCHANGED <<mQLock, mQCond, mysqlQueue, bootVars>>

Pop(t) ==
    /\ Goto(t, "pop", "unlockGet")
    /\ mysqlQueue # <<>>
    /\ mysqlQueue' = Tail(mysqlQueue)
    /\ UNCHANGED <<mQLock, mQCond, bootVars, conn>>

UnlockGet(t) ==
    /\ Goto(t, "unlockGet", "idle")
    /\ Lock!unlock(t)
    /\ UNCHANGED <<mysqlQueue, bootVars, conn>>

(***************************************************************************)
(* put(conn): a worker puts back the connection it has taken.              *)
(***************************************************************************)
CallPut(t) ==
    /\ conn[t] # NoConn
    /\ Goto(t, "idle", "lockPut")
    /\ UNCHANGED <<mQLock, mQCond, mysqlQueue, bootVars, conn>>

LockPut(t) ==
    /\ Goto(t, "lockPut", "push")
    /\ Lock!lock(t)
    /\ UNCHANGED <<mysqlQueue, bootVars, conn>>

(* A put() that drops a connection when others are queued. *)
DroppingPush(t) ==
    /\ Goto(t, "push", "unlockPut")
    /\ mysqlQueue' = IF mysqlQueue = <<>> THEN <<conn[t]>> ELSE mysqlQueue
    /\ conn' = [conn EXCEPT ![t] = NoConn]
    /\ UNCHANGED <<mQLock, mQCond, bootVars>>

Push(t) ==
    /\ Goto(t, "push", "unlockPut")
    /\ mysqlQueue' = Append(mysqlQueue, conn[t])
    /\ conn' = [conn EXCEPT ![t] = NoConn]
    /\ UNCHANGED <<mQLock, mQCond, bootVars>>

(* A put() that does not signal. *)
SilentUnlockPut(t) ==
    /\ Goto(t, "unlockPut", "idle")
    /\ Lock!unlock(t)
    /\ UNCHANGED <<mysqlQueue, bootVars, conn>>

UnlockPut(t) ==
    /\ Goto(t, "unlockPut", "signal")
    /\ Lock!unlock(t)
    /\ UNCHANGED <<mysqlQueue, bootVars, conn>>

(* A put() that signals only when the queue was empty. *)
FirstItemSignal(t) ==
    /\ Goto(t, "signal", "idle")
    /\ IF Len(mysqlQueue) = 1 THEN Lock!signal ELSE UNCHANGED <<mQLock, mQCond>>
    /\ UNCHANGED <<mysqlQueue, bootVars, conn>>

Signal(t) ==
    /\ Goto(t, "signal", "idle")
    /\ Lock!signal
    /\ UNCHANGED <<mysqlQueue, bootVars, conn>>

(* The steps of a call that has begun. *)
Step(t) == \/ LockGet(t)
           \/ Wait(t)
           \/ Relock(t)
           \/ TestNonempty(t)
           \/ Front(t)
           \/ Pop(t)
           \/ UnlockGet(t)
           \/ LockPut(t)
           \/ Push(t)
           \/ UnlockPut(t)
           \/ Signal(t)

Next == \/ Boot
        \/ \E t \in Threads : CallGet(t) \/ CallPut(t) \/ Step(t) \/ SpuriousWakeup(t)

Spec == Init /\ [][Next]_vars

-----------------------------------------------------------------------------
Conns == (1 .. MaxInits) \X (1 .. Size)

InMutex == {"test", "front", "pop", "unlockGet", "push", "unlockPut"}

Inside == {t \in Threads : pc[t] \in InMutex}

(* The queue without the connection that get() has copied already. *)
Queued == IF \E t \in Threads : pc[t] = "pop" THEN Tail(mysqlQueue) ELSE mysqlQueue

Held == {conn[t] : t \in Threads} \ {NoConn}

TypeOK ==
    /\ Lock!TypeOK
    /\ mysqlQueue \in Seq(Conns)
    /\ pMysqlArray \in 0 .. MaxInits
    /\ filled \in 0 .. Size
    /\ boot \in {"new", "connect", "failed", "charset", "ready"}
    /\ pc \in [Threads -> InMutex \cup {"idle", "lockGet", "wait", "lockPut", "signal"}]
    /\ conn \in [Threads -> Conns \cup {NoConn}]

(* A connection is in one place: queued once, or in one worker's hands.    *)
(* Two workers never talk over the same connection, though get() copies it *)
(* out of the queue before it removes it.                                  *)
NeverShared ==
    /\ Len(Queued) = Cardinality(Range(Queued))
    /\ Range(Queued) \cap Held = {}
    /\ \A t, u \in Threads : t # u /\ conn[t] # NoConn => conn[t] # conn[u]

(* No connection of the array in use leaks out of the pool, not even when  *)
(* an earlier initConnPool failed half way.                                *)
NeverLeaked ==
    \A i \in 1 .. filled : <<pMysqlArray, i>> \in Range(Queued) \cup Held

(* The mutex protects the queue: one worker at a time is past the lock. *)
MutualExclusion == \A t \in Threads : t \in Inside <=> mQLock = t

(* No wakeup is lost although put() signals after it unlocks: while        *)
(* workers sleep and the mutex is free, every queued connection has an     *)
(* awake worker that will look at the queue or a put that will signal.     *)
NoLostWakeup ==
    LET alert == {t \in Threads : \/ pc[t] \in {"lockGet", "signal"}
                                  \/ pc[t] = "wait" /\ t \notin mQCond}
    IN  mQCond # {} /\ Inside = {} => Len(mysqlQueue) <= Cardinality(alert)

(* A worker does not sleep for ever beside a connection that was put back: *)
(* it wakes, or others have taken every connection.                        *)
NotLeftWaiting(t) == t \in mQCond /\ mysqlQueue # <<>>
                     ~> (t \notin mQCond \/ mysqlQueue = <<>>)
=============================================================================
