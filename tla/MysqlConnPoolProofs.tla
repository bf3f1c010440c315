------------------------- MODULE MysqlConnPoolProofs -------------------------
(***************************************************************************)
(* Proofs about MysqlConnPool, for any number of workers and of            *)
(* connections and however often initConnPool fails; then about MysqlDB.   *)
(*                                                                         *)
(* That no connection is shared or leaked rests on facts about single      *)
(* threads (BootAlone, Hands), on the order in which connections are made  *)
(* (Numbered), and on the mutex (Holder): between its front() and its      *)
(* pop() a worker holds a connection that is still in the queue.           *)
(***************************************************************************)
EXTENDS MysqlDB, FunctionTheorems, FiniteSetTheorems, TLAPS

(* The workers start when the pool is filled. *)
BootAlone ==
    /\ boot # "ready" => /\ mQCond = {}
                         /\ \A t \in Threads : pc[t] = "idle" /\ conn[t] = NoConn
    /\ boot = "connect" => filled < Size /\ pMysqlArray > 0

(* Who has a connection in its hands. *)
Hands ==
    \A t \in Threads :
        /\ pc[t] \in {"lockGet", "test", "front", "wait", "unlockPut", "signal"} => conn[t] = NoConn
        /\ pc[t] \in {"lockPut", "push"} => conn[t] # NoConn

(* The holder of the mutex is past the lock, and a blocked worker waits. *)
Holder ==
    /\ MutualExclusion
    /\ \A t \in mQCond : pc[t] = "wait"

(* Connections in use belong to the arrays and elements connected so far. *)
Made(c) == c[1] <= pMysqlArray /\ (c[1] = pMysqlArray => c[2] <= filled)

Numbered ==
    /\ \A i \in DOMAIN Queued : Made(Queued[i])
    /\ \A t \in Threads : conn[t] # NoConn => Made(conn[t])

(* NeverShared, said of positions and workers one by one. *)
Apart ==
    /\ \A i, j \in DOMAIN Queued : Queued[i] = Queued[j] => i = j
    /\ \A i \in DOMAIN Queued, t \in Threads : Queued[i] # conn[t]
    /\ \A t, u \in Threads : t # u /\ conn[t] # NoConn => conn[t] # conn[u]

(* NeverLeaked, said of positions and workers one by one. *)
Kept ==
    \A k \in 1 .. filled :
        \/ \E i \in DOMAIN Queued : Queued[i] = <<pMysqlArray, k>>
        \/ \E t \in Threads : conn[t] = <<pMysqlArray, k>>

(* The workers that are going to look at the queue, or to signal one that  *)
(* will.                                                                   *)
Alert == {t \in Threads : \/ pc[t] \in {"lockGet", "test", "front", "pop", "unlockPut", "signal"}
                          \/ pc[t] = "wait" /\ t \notin mQCond}

(* NoLostWakeup at every step, not only while the mutex is free. *)
EnoughAlert == mQCond # {} => Len(mysqlQueue) <= Cardinality(Alert)

-----------------------------------------------------------------------------
(* What a put does to the queue, position by position. *)
LEMMA AppendedAt ==
  ASSUME NEW S, NEW q \in Seq(S), NEW x \in S
  PROVE  /\ Append(q, x) \in Seq(S)
         /\ DOMAIN Append(q, x) = 1 .. Len(q) + 1
         /\ \A i \in 1 .. Len(q) : Append(q, x)[i] = q[i]
         /\ Append(q, x)[Len(q) + 1] = x
  OBVIOUS

(* What a get does to it. *)
LEMMA TailAt ==
  ASSUME NEW S, NEW q \in Seq(S), q # <<>>
  PROVE  /\ Head(q) = q[1] /\ Head(q) \in S
         /\ Tail(q) \in Seq(S)
         /\ DOMAIN Tail(q) = 1 .. Len(q) - 1
         /\ Len(q) \in Nat \ {0} /\ DOMAIN q = 1 .. Len(q)
         /\ \A i \in 1 .. Len(q) - 1 : Tail(q)[i] = q[i + 1]
  OBVIOUS

(* A connection is a pair of numbers. *)
LEMMA ConnsAre == \A c \in Conns : /\ c = <<c[1], c[2]>> /\ c # NoConn
                                   /\ c[1] \in 1 .. MaxInits /\ c[2] \in 1 .. Size
  BY PoolNoConnAssumption, SizeAssumption DEF Conns

-----------------------------------------------------------------------------
(* Every step keeps the types; connect() stops at the end of the array.    *)
LEMMA NextTypeOK == TypeOK /\ BootAlone /\ Hands /\ [Next]_vars => TypeOK'
<1> SUFFICES ASSUME TypeOK, BootAlone, Hands, [Next]_vars PROVE TypeOK'
  OBVIOUS
<1> USE SizeAssumption DEF TypeOK, Goto, InMutex, bootVars, Lock!TypeOK
<1>0. CASE UNCHANGED vars
  BY <1>0 DEF vars
<1>a. ASSUME InitConnPool PROVE TypeOK'
  BY <1>a DEF InitConnPool
<1>b. ASSUME Connect PROVE TypeOK'
  <2>1. filled + 1 \in 1 .. Size /\ pMysqlArray \in 1 .. MaxInits
    BY <1>b DEF Connect, BootAlone
  <2>2. <<pMysqlArray, filled + 1>> \in Conns
    BY <2>1 DEF Conns
  <2>3. mysqlQueue' \in Seq(Conns)
    BY <1>b, <2>2 DEF Connect
  <2> QED BY <1>b, <2>1, <2>3 DEF Connect
<1>c. ASSUME ConnectFails PROVE TypeOK'
  BY <1>c DEF ConnectFails
<1>d. ASSUME InitConnPoolCharSet PROVE TypeOK'
  BY <1>d DEF InitConnPoolCharSet
<1>e. ASSUME NEW t \in Threads, CallGet(t) PROVE TypeOK'
  BY <1>e DEF CallGet
<1>f. ASSUME NEW t \in Threads, LockGet(t) PROVE TypeOK'
  BY <1>f DEF LockGet, Lock!lock
<1>g. ASSUME NEW t \in Threads, Wait(t) PROVE TypeOK'
  BY <1>g DEF Wait, Lock!wait
<1>h. ASSUME NEW t \in Threads, Relock(t) PROVE TypeOK'
  BY <1>h DEF Relock, Lock!relock, Lock!lock
<1>i. ASSUME NEW t \in Threads, Pop(t) PROVE TypeOK'
  <2>1. Tail(mysqlQueue) \in Seq(Conns)
    BY <1>i DEF Pop
  <2> QED BY <1>i, <2>1 DEF Pop
<1>q. ASSUME NEW t \in Threads, TestNonempty(t) PROVE TypeOK'
  BY <1>q DEF TestNonempty
<1>r. ASSUME NEW t \in Threads, Front(t) PROVE TypeOK'
  <2>1. Head(mysqlQueue) \in Conns
    BY <1>r DEF Front
  <2> QED BY <1>r, <2>1 DEF Front
<1>j. ASSUME NEW t \in Threads, UnlockGet(t) PROVE TypeOK'
  BY <1>j DEF UnlockGet, Lock!unlock
<1>k. ASSUME NEW t \in Threads, CallPut(t) PROVE TypeOK'
  BY <1>k DEF CallPut
<1>l. ASSUME NEW t \in Threads, LockPut(t) PROVE TypeOK'
  BY <1>l DEF LockPut, Lock!lock
<1>m. ASSUME NEW t \in Threads, Push(t) PROVE TypeOK'
  <2>1. conn[t] \in Conns
    BY <1>m DEF Push, Hands
  <2> QED BY <1>m, <2>1 DEF Push
<1>n. ASSUME NEW t \in Threads, UnlockPut(t) PROVE TypeOK'
  BY <1>n DEF UnlockPut, Lock!unlock
<1>o. ASSUME NEW t \in Threads, Signal(t) PROVE TypeOK'
  BY <1>o DEF Signal, Lock!signal
<1>p. ASSUME NEW t \in Threads, SpuriousWakeup(t) PROVE TypeOK'
  BY <1>p DEF SpuriousWakeup, Lock!wake
<1> QED
  BY <1>0, <1>a, <1>b, <1>c, <1>d, <1>e, <1>f, <1>g, <1>h, <1>i, <1>j, <1>k, <1>l, <1>m, <1>n, <1>o, <1>p,
     <1>q, <1>r
     DEF Next, Boot, Step

(* The single-thread facts and the mutex. *)
LEMMA NextThreads ==
  TypeOK /\ BootAlone /\ Hands /\ Holder /\ [Next]_vars => BootAlone' /\ Hands' /\ Holder'
<1> SUFFICES ASSUME TypeOK, BootAlone, Hands, Holder, [Next]_vars
             PROVE  BootAlone' /\ Hands' /\ Holder'
  OBVIOUS
<1>y. /\ pc \in [Threads -> InMutex \cup {"idle", "lockGet", "wait", "lockPut", "signal"}]
      /\ conn \in [Threads -> Conns \cup {NoConn}]
      /\ mQCond \subseteq Threads
      /\ boot \in {"new", "connect", "failed", "charset", "ready"}
      /\ filled \in 0 .. Size /\ pMysqlArray \in 0 .. MaxInits
      /\ mysqlQueue \in Seq(Conns)
      /\ NoConn \notin Conns
  BY ConnsAre DEF TypeOK, Lock!TypeOK
<1> USE PoolThreadsAssumption, SizeAssumption
    DEF BootAlone, Hands, Holder, MutualExclusion, Inside, InMutex, Goto, bootVars
<1>0. CASE UNCHANGED vars
  BY <1>0 DEF vars
<1>a. ASSUME InitConnPool PROVE BootAlone' /\ Hands' /\ Holder'
  BY <1>a, <1>y DEF InitConnPool
<1>b. ASSUME Connect PROVE BootAlone' /\ Hands' /\ Holder'
  BY <1>b, <1>y DEF Connect
<1>c. ASSUME ConnectFails PROVE BootAlone' /\ Hands' /\ Holder'
  BY <1>c, <1>y DEF ConnectFails
<1>d. ASSUME InitConnPoolCharSet PROVE BootAlone' /\ Hands' /\ Holder'
  BY <1>d, <1>y DEF InitConnPoolCharSet
<1>e. ASSUME NEW t \in Threads, CallGet(t) PROVE BootAlone' /\ Hands' /\ Holder'
  BY <1>e, <1>y DEF CallGet
<1>f. ASSUME NEW t \in Threads, LockGet(t) PROVE BootAlone' /\ Hands' /\ Holder'
  BY <1>f, <1>y DEF LockGet, Lock!lock
<1>g. ASSUME NEW t \in Threads, Wait(t) PROVE BootAlone' /\ Hands' /\ Holder'
  BY <1>g, <1>y DEF Wait, Lock!wait
<1>h. ASSUME NEW t \in Threads, Relock(t) PROVE BootAlone' /\ Hands' /\ Holder'
  BY <1>h, <1>y DEF Relock, Lock!relock, Lock!lock
<1>i. ASSUME NEW t \in Threads, Pop(t) PROVE BootAlone' /\ Hands' /\ Holder'
  BY <1>i, <1>y DEF Pop
<1>q. ASSUME NEW t \in Threads, TestNonempty(t) PROVE BootAlone' /\ Hands' /\ Holder'
  BY <1>q, <1>y DEF TestNonempty
<1>r. ASSUME NEW t \in Threads, Front(t) PROVE BootAlone' /\ Hands' /\ Holder'
  <2>1. Head(mysqlQueue) \in Conns
    BY <1>r, <1>y DEF Front
  <2> QED BY <1>r, <2>1, <1>y DEF Front
<1>j. ASSUME NEW t \in Threads, UnlockGet(t) PROVE BootAlone' /\ Hands' /\ Holder'
  BY <1>j, <1>y DEF UnlockGet, Lock!unlock
<1>k. ASSUME NEW t \in Threads, CallPut(t) PROVE BootAlone' /\ Hands' /\ Holder'
  BY <1>k, <1>y DEF CallPut
<1>l. ASSUME NEW t \in Threads, LockPut(t) PROVE BootAlone' /\ Hands' /\ Holder'
  BY <1>l, <1>y DEF LockPut, Lock!lock
<1>m. ASSUME NEW t \in Threads, Push(t) PROVE BootAlone' /\ Hands' /\ Holder'
  BY <1>m, <1>y DEF Push
<1>n. ASSUME NEW t \in Threads, UnlockPut(t) PROVE BootAlone' /\ Hands' /\ Holder'
  BY <1>n, <1>y DEF UnlockPut, Lock!unlock
<1>o. ASSUME NEW t \in Threads, Signal(t) PROVE BootAlone' /\ Hands' /\ Holder'
  BY <1>o, <1>y DEF Signal, Lock!signal
<1>p. ASSUME NEW t \in Threads, SpuriousWakeup(t) PROVE BootAlone' /\ Hands' /\ Holder'
  BY <1>p, <1>y DEF SpuriousWakeup, Lock!wake
<1> QED
  BY <1>0, <1>a, <1>b, <1>c, <1>d, <1>e, <1>f, <1>g, <1>h, <1>i, <1>j, <1>k, <1>l, <1>m, <1>n, <1>o, <1>p,
     <1>q, <1>r
     DEF Next, Boot, Step

-----------------------------------------------------------------------------
(* The queue without the connection that get() has copied already: a       *)
(* sequence of connections, and the whole queue while nobody is between    *)
(* front() and pop().                                                      *)
LEMMA QueuedType == TypeOK => Queued \in Seq(Conns)
<1> SUFFICES ASSUME TypeOK PROVE Queued \in Seq(Conns)
  OBVIOUS
<1>1. mysqlQueue \in Seq(Conns)
  BY DEF TypeOK
<1>2. CASE mysqlQueue # <<>>
  BY <1>1, <1>2 DEF Queued
<1>3. CASE mysqlQueue = <<>>
  <2>1. Tail(mysqlQueue) = <<>> /\ <<>> \in Seq(Conns)
    BY <1>3
  <2> QED BY <1>1, <2>1 DEF Queued
<1> QED BY <1>2, <1>3

LEMMA NobodyPops ==
  ASSUME \A t \in Threads : pc[t] = "idle", pc' = pc
  PROVE  Queued = mysqlQueue /\ Queued' = mysqlQueue'
  BY DEF Queued

(* From the one worker inside the mutex, before and after a step. *)
LEMMA QueuedIs ==
  ASSUME Holder, NEW t \in Threads, pc[t] \in InMutex
  PROVE  Queued = IF pc[t] = "pop" THEN Tail(mysqlQueue) ELSE mysqlQueue
  BY DEF Holder, MutualExclusion, Inside, InMutex, Queued

LEMMA QueuedWillBe ==
  ASSUME Holder', NEW t \in Threads, pc'[t] \in InMutex
  PROVE  Queued' = IF pc'[t] = "pop" THEN Tail(mysqlQueue') ELSE mysqlQueue'
  BY DEF Holder, MutualExclusion, Inside, InMutex, Queued

(* What the steps of the workers do to it. *)
LEMMA FrontVisible ==
  ASSUME TypeOK, Holder, Holder', NEW t \in Threads, Front(t)
  PROVE  /\ Queued # <<>> /\ Queued' = Tail(Queued)
         /\ conn' = [conn EXCEPT ![t] = Head(Queued)]
<1>1. pc[t] = "front" /\ pc'[t] = "pop"
  BY DEF Front, Goto, TypeOK
<1>2. Queued = mysqlQueue /\ Queued' = Tail(mysqlQueue')
  BY <1>1, QueuedIs, QueuedWillBe DEF InMutex
<1> QED BY <1>2 DEF Front

LEMMA PushVisible ==
  ASSUME TypeOK, Holder, Holder', NEW t \in Threads, Push(t)
  PROVE  Queued' = Append(Queued, conn[t])
<1>1. pc[t] = "push" /\ pc'[t] = "unlockPut"
  BY DEF Push, Goto, TypeOK
<1>2. Queued = mysqlQueue /\ Queued' = mysqlQueue'
  BY <1>1, QueuedIs, QueuedWillBe DEF InMutex
<1> QED BY <1>2 DEF Push

LEMMA OthersInvisible ==
  ASSUME TypeOK, Holder, Holder',
         \/ ConnectFails \/ InitConnPoolCharSet
         \/ \E t \in Threads :
               \/ CallGet(t) \/ LockGet(t) \/ Wait(t) \/ Relock(t) \/ TestNonempty(t)
               \/ Pop(t) \/ UnlockGet(t) \/ CallPut(t) \/ LockPut(t) \/ UnlockPut(t)
               \/ Signal(t) \/ SpuriousWakeup(t)
  PROVE  Queued' = Queued
<1>t. pc \in [Threads -> InMutex \cup {"idle", "lockGet", "wait", "lockPut", "signal"}]
  BY DEF TypeOK
<1> USE DEF Goto
<1>1. CASE ConnectFails \/ InitConnPoolCharSet
  BY <1>1 DEF ConnectFails, InitConnPoolCharSet, Queued
<1>2. ASSUME NEW t \in Threads, Pop(t) PROVE Queued' = Queued
  <2>1. pc[t] = "pop" /\ pc'[t] = "unlockGet"
    BY <1>2, <1>t DEF Pop
  <2>2. Queued = Tail(mysqlQueue) /\ Queued' = mysqlQueue'
    BY <2>1, QueuedIs, QueuedWillBe DEF InMutex
  <2> QED BY <1>2, <2>2 DEF Pop
<1>3. ASSUME NEW t \in Threads,
             \/ CallGet(t) \/ LockGet(t) \/ Wait(t) \/ Relock(t) \/ TestNonempty(t)
             \/ UnlockGet(t) \/ CallPut(t) \/ LockPut(t) \/ UnlockPut(t)
             \/ Signal(t) \/ SpuriousWakeup(t)
      PROVE  Queued' = Queued
  <2>1. \A u \in Threads : pc'[u] = "pop" <=> pc[u] = "pop"
    BY <1>3, <1>t DEF CallGet, LockGet, Wait, Relock, TestNonempty, UnlockGet, CallPut, LockPut,
                      UnlockPut, Signal, SpuriousWakeup
  <2>2. mysqlQueue' = mysqlQueue
    BY <1>3 DEF CallGet, LockGet, Wait, Relock, TestNonempty, UnlockGet, CallPut, LockPut,
                UnlockPut, Signal, SpuriousWakeup
  <2> QED BY <2>1, <2>2 DEF Queued
<1> QED BY <1>1, <1>2, <1>3

(* Connections.  Connecting adds one that nobody has, the front() of a get *)
(* moves one from the queue to the worker, a put moves it back.            *)
LEMMA NextConnections ==
  /\ TypeOK /\ TypeOK' /\ BootAlone /\ Hands /\ Holder /\ Holder'
  /\ Numbered /\ Apart /\ Kept
  /\ [Next]_vars
  => Numbered' /\ Apart' /\ Kept'
<1> SUFFICES ASSUME TypeOK, TypeOK', BootAlone, Hands, Holder, Holder',
                    Numbered, Apart, Kept, [Next]_vars
             PROVE  Numbered' /\ Apart' /\ Kept'
  OBVIOUS
<1>y. /\ conn \in [Threads -> Conns \cup {NoConn}]
      /\ Queued \in Seq(Conns)
      /\ filled \in Nat /\ pMysqlArray \in Nat /\ Len(Queued) \in Nat
      /\ DOMAIN Queued = 1 .. Len(Queued)
      /\ NoConn \notin Conns
  <2>1. Queued \in Seq(Conns)
    BY QueuedType
  <2> QED BY <2>1, ConnsAre, SizeAssumption DEF TypeOK
<1>c. \A c \in Conns : c[1] \in Nat /\ c[2] \in Nat /\ c = <<c[1], c[2]>>
  BY ConnsAre, SizeAssumption
<1> USE DEF Made
<1>0. CASE UNCHANGED <<Queued, pMysqlArray, filled, conn>>
  BY <1>0 DEF Numbered, Apart, Kept
<1>1. CASE InitConnPool
  <2>1. /\ UNCHANGED <<Queued, conn>> /\ filled' = 0 /\ pMysqlArray' = pMysqlArray + 1
    BY <1>1, NobodyPops DEF InitConnPool, BootAlone
  <2>2. Numbered'
    BY <2>1, <1>y, <1>c DEF Numbered
  <2>3. Apart' /\ Kept'
    BY <2>1, <1>y DEF Apart, Kept
  <2> QED BY <2>2, <2>3
<1>2. CASE Connect
  <2> DEFINE new == <<pMysqlArray, filled + 1>>
  <2>1. /\ Queued' = Append(Queued, new) /\ filled' = filled + 1
        /\ UNCHANGED <<pMysqlArray, conn>>
        /\ \A t \in Threads : conn[t] = NoConn
    BY <1>2, NobodyPops DEF Connect, BootAlone
  <2>2. new \in Conns
    BY <1>2, SizeAssumption DEF Connect, BootAlone, TypeOK, Conns
  <2>3. /\ DOMAIN Queued' = 1 .. Len(Queued) + 1
        /\ \A i \in 1 .. Len(Queued) : Queued'[i] = Queued[i]
        /\ Queued'[Len(Queued) + 1] = new
    BY <2>1, <2>2, <1>y, AppendedAt
  <2>4. \A i \in 1 .. Len(Queued) : Queued[i] \in Conns /\ Queued[i] # new
    BY <1>y, <1>c DEF Numbered
  <2> HIDE DEF new
  <2>5. Numbered'
    <3>1. new[1] = pMysqlArray /\ new[2] = filled + 1
      BY DEF new
    <3>2. ASSUME NEW i \in DOMAIN Queued'
          PROVE  /\ Queued'[i][1] <= pMysqlArray'
                 /\ Queued'[i][1] = pMysqlArray' => Queued'[i][2] <= filled'
      <4>1. CASE i = Len(Queued) + 1
        <5>1. Queued'[i] = new
          BY <4>1, <2>3
        <5>2. pMysqlArray' = pMysqlArray /\ filled' = filled + 1
          BY <2>1
        <5> QED BY <3>1, <5>1, <5>2, <1>y
      <4>2. CASE i # Len(Queued) + 1
        <5>1. i \in 1 .. Len(Queued)
          BY <4>2, <2>3, <1>y
        <5>2. Queued'[i] = Queued[i] /\ Queued[i] \in Conns
          BY <5>1, <2>3, <2>4
        <5>3. Made(Queued[i])
          BY <5>1, <1>y DEF Numbered
        <5> QED BY <5>2, <5>3, <2>1, <1>c, <1>y
      <4> QED BY <4>1, <4>2
    <3>3. \A t \in Threads : conn'[t] = NoConn
      BY <2>1
    <3> QED BY <3>2, <3>3 DEF Numbered
  <2>6. Apart'
    BY <2>1, <2>2, <2>3, <2>4, <1>y DEF Apart
  <2>7. Kept'
    <3>1. ASSUME NEW k \in 1 .. filled + 1
          PROVE  \E i \in DOMAIN Queued' : Queued'[i] = <<pMysqlArray, k>>
      <4>1. CASE k = filled + 1
        BY <4>1, <2>3, <1>y DEF new
      <4>2. CASE k # filled + 1
        <5>1. k \in 1 .. filled
          BY <4>2, <1>y
        <5>2. \A t \in Threads : conn[t] # <<pMysqlArray, k>>
          <6>1. <<pMysqlArray, k>> \in Nat \X Nat
            BY <1>y
          <6> QED BY <6>1, <2>1, PoolNoConnAssumption
        <5>3. PICK i \in DOMAIN Queued : Queued[i] = <<pMysqlArray, k>>
          BY <5>1, <5>2 DEF Kept
        <5> QED BY <5>3, <2>3, <1>y
      <4> QED BY <4>1, <4>2
    <3> QED BY <3>1, <2>1 DEF Kept
  <2> QED BY <2>5, <2>6, <2>7
<1>3. ASSUME NEW t \in Threads, Front(t) PROVE Numbered' /\ Apart' /\ Kept'
  <2>1. /\ Queued # <<>> /\ Queued' = Tail(Queued)
        /\ conn' = [conn EXCEPT ![t] = Head(Queued)]
        /\ UNCHANGED <<pMysqlArray, filled>>
        /\ conn[t] = NoConn
    BY <1>3, FrontVisible DEF Front, bootVars, Goto, Hands
  <2>2. /\ Head(Queued) = Queued[1] /\ Queued[1] \in Conns
        /\ Len(Queued) \in Nat \ {0}
        /\ DOMAIN Queued' = 1 .. Len(Queued) - 1
        /\ \A i \in 1 .. Len(Queued) - 1 : Queued'[i] = Queued[i + 1]
    BY <2>1, <1>y, TailAt
  <2>3. /\ conn'[t] = Queued[1]
        /\ \A u \in Threads : u # t => conn'[u] = conn[u]
    BY <2>1, <2>2, <1>y
  <2>4. \A i \in 1 .. Len(Queued) - 1 : i + 1 \in DOMAIN Queued /\ i + 1 # 1
    BY <1>y
  <2>5. 1 \in DOMAIN Queued
    BY <1>y, <2>2
  <2>6. Numbered'
    BY <2>1, <2>2, <2>3, <2>4, <2>5 DEF Numbered
  <2>7. Apart'
    <3>1. ASSUME NEW i \in DOMAIN Queued', NEW j \in DOMAIN Queued',
                 Queued'[i] = Queued'[j]
          PROVE  i = j
      <4>1. i + 1 = j + 1
        BY SMTT(30), <3>1, <2>2, <2>4 DEF Apart
      <4> QED BY <4>1, <2>2
    <3>2. ASSUME NEW i \in DOMAIN Queued', NEW u \in Threads
          PROVE  Queued'[i] # conn'[u]
      <4>1. CASE u = t
        BY <4>1, <2>2, <2>3, <2>4, <2>5 DEF Apart
      <4>2. CASE u # t
        BY <4>2, <2>2, <2>3, <2>4 DEF Apart
      <4> QED BY <4>1, <4>2
    <3>3. ASSUME NEW u \in Threads, NEW v \in Threads, u # v, conn'[u] # NoConn
          PROVE  conn'[u] # conn'[v]
      BY <3>3, <2>3, <2>5 DEF Apart
    <3> QED BY <3>1, <3>2, <3>3 DEF Apart
  <2>8. Kept'
    <3>1. ASSUME NEW k \in 1 .. filled
          PROVE  \/ \E i \in DOMAIN Queued' : Queued'[i] = <<pMysqlArray, k>>
                 \/ \E u \in Threads : conn'[u] = <<pMysqlArray, k>>
      <4>1. CASE \E i \in DOMAIN Queued : Queued[i] = <<pMysqlArray, k>>
        <5>1. PICK i \in DOMAIN Queued : Queued[i] = <<pMysqlArray, k>>
          BY <4>1
        <5>2. CASE i = 1
          BY <5>1, <5>2, <2>3
        <5>3. CASE i # 1
          <6>1. i - 1 \in 1 .. Len(Queued) - 1 /\ (i - 1) + 1 = i
            BY <5>3, <1>y
          <6>2. Queued'[i - 1] = Queued[(i - 1) + 1]
            BY <6>1, <2>2
          <6> QED BY <5>1, <6>1, <6>2, <2>2
        <5> QED BY <5>2, <5>3
      <4>2. CASE \E u \in Threads : conn[u] = <<pMysqlArray, k>>
        <5>1. PICK u \in Threads : conn[u] = <<pMysqlArray, k>>
          BY <4>2
        <5>2. <<pMysqlArray, k>> \in Nat \X Nat
          BY <1>y
        <5>3. u # t
          BY <5>1, <5>2, <2>1, PoolNoConnAssumption
        <5> QED BY <5>1, <5>3, <2>3
      <4> QED BY <4>1, <4>2 DEF Kept
    <3> QED BY <3>1, <2>1 DEF Kept
  <2> QED BY <2>6, <2>7, <2>8
<1>4. ASSUME NEW t \in Threads, Push(t) PROVE Numbered' /\ Apart' /\ Kept'
  <2>1. /\ Queued' = Append(Queued, conn[t])
        /\ conn' = [conn EXCEPT ![t] = NoConn]
        /\ UNCHANGED <<pMysqlArray, filled>>
        /\ conn[t] # NoConn /\ conn[t] \in Conns
    BY <1>4, <1>y, PushVisible DEF Push, bootVars, Goto, Hands
  <2>2. /\ DOMAIN Queued' = 1 .. Len(Queued) + 1
        /\ \A i \in 1 .. Len(Queued) : Queued'[i] = Queued[i]
        /\ Queued'[Len(Queued) + 1] = conn[t]
    BY <2>1, <1>y, AppendedAt
  <2>3. /\ conn'[t] = NoConn
        /\ \A u \in Threads : u # t => conn'[u] = conn[u]
    BY <2>1, <1>y
  <2>4. \A i \in 1 .. Len(Queued) + 1 :
           i \in DOMAIN Queued \/ i = Len(Queued) + 1
    BY <1>y
  <2>5. \A i \in DOMAIN Queued' : Queued'[i] \in Conns
    BY <2>1, <2>2, <2>4, <1>y
  <2>6. Numbered'
    BY <2>1, <2>2, <2>3, <2>4, <1>y DEF Numbered
  <2>7. Apart'
    <3>1. ASSUME NEW i \in DOMAIN Queued', NEW j \in DOMAIN Queued',
                 Queued'[i] = Queued'[j]
          PROVE  i = j
      BY <3>1, <2>2, <2>4, <1>y DEF Apart
    <3>2. ASSUME NEW i \in DOMAIN Queued', NEW u \in Threads
          PROVE  Queued'[i] # conn'[u]
      <4>1. CASE u = t
        BY <4>1, <2>3, <2>5, <1>y
      <4>2. CASE u # t
        BY <4>2, <2>1, <2>2, <2>3, <2>4, <1>y DEF Apart
      <4> QED BY <4>1, <4>2
    <3>3. ASSUME NEW u \in Threads, NEW v \in Threads, u # v, conn'[u] # NoConn
          PROVE  conn'[u] # conn'[v]
      BY <3>3, <2>3 DEF Apart
    <3> QED BY <3>1, <3>2, <3>3 DEF Apart
  <2>8. Kept'
    <3>1. ASSUME NEW k \in 1 .. filled
          PROVE  \/ \E i \in DOMAIN Queued' : Queued'[i] = <<pMysqlArray, k>>
                 \/ \E u \in Threads : conn'[u] = <<pMysqlArray, k>>
      <4>1. CASE \E i \in DOMAIN Queued : Queued[i] = <<pMysqlArray, k>>
        BY <4>1, <2>2, <1>y
      <4>2. CASE \E u \in Threads : conn[u] = <<pMysqlArray, k>>
        <5>1. PICK u \in Threads : conn[u] = <<pMysqlArray, k>>
          BY <4>2
        <5>2. CASE u = t
          <6>1. Len(Queued) + 1 \in DOMAIN Queued'
            BY <2>2, <1>y
          <6> QED BY <5>1, <5>2, <6>1, <2>2
        <5>3. CASE u # t
          BY <5>1, <5>3, <2>3
        <5> QED BY <5>2, <5>3
      <4> QED BY <4>1, <4>2 DEF Kept
    <3> QED BY <3>1, <2>1 DEF Kept
  <2> QED BY <2>6, <2>7, <2>8
<1>5. ASSUME \/ ConnectFails \/ InitConnPoolCharSet
             \/ \E t \in Threads :
                   \/ CallGet(t) \/ LockGet(t) \/ Wait(t) \/ Relock(t) \/ TestNonempty(t)
                   \/ Pop(t) \/ UnlockGet(t) \/ CallPut(t) \/ LockPut(t) \/ UnlockPut(t)
                   \/ Signal(t) \/ SpuriousWakeup(t)
      PROVE  UNCHANGED <<Queued, pMysqlArray, filled, conn>>
  BY <1>5, OthersInvisible
     DEF ConnectFails, InitConnPoolCharSet, CallGet, LockGet, Wait, Relock, TestNonempty, Pop,
         UnlockGet, CallPut, LockPut, UnlockPut, Signal, SpuriousWakeup, bootVars
<1>6. CASE UNCHANGED vars
  BY <1>6, <1>0 DEF vars, Queued
<1> QED BY <1>0, <1>1, <1>2, <1>3, <1>4, <1>5, <1>6 DEF Next, Boot, Step

-----------------------------------------------------------------------------
(* Wakeups.  A push makes its worker alert, a signal replaces it by the    *)
(* worker it wakes, a pop uses one up.                                     *)
LEMMA AlertFinite == IsFiniteSet(Alert) /\ Cardinality(Alert) \in Nat
<1>1. Alert \in SUBSET Threads
  BY DEF Alert
<1> QED BY <1>1, PoolThreadsAssumption, FS_Subset, FS_CardinalityType

(* Every step keeps as many alert workers as queued connections.           *)
LEMMA NextAlert ==
  /\ TypeOK /\ BootAlone /\ Hands /\ Holder /\ EnoughAlert
  /\ [Next]_vars
  => EnoughAlert'
<1> SUFFICES ASSUME TypeOK, BootAlone, Hands, Holder, EnoughAlert, [Next]_vars
             PROVE  EnoughAlert'
  OBVIOUS
<1> DEFINE k == Cardinality(Alert)
<1>t. /\ pc \in [Threads -> InMutex \cup {"idle", "lockGet", "wait", "lockPut", "signal"}]
      /\ conn \in [Threads -> Conns \cup {NoConn}]
      /\ mQCond \subseteq Threads
      /\ mysqlQueue \in Seq(Conns)
      /\ \A t \in mQCond : pc[t] = "wait"
  BY DEF TypeOK, Lock!TypeOK, Holder
<1>k. k \in Nat /\ Len(mysqlQueue) \in Nat
  BY AlertFinite, <1>t
<1> HIDE DEF k
<1> USE DEF Goto
<1>same. ASSUME Alert' = Alert, mysqlQueue' = mysqlQueue, mQCond' # {} => mQCond # {}
         PROVE  EnoughAlert'
  BY <1>same DEF EnoughAlert
<1>more. ASSUME NEW t, t \notin Alert, Alert' = Alert \cup {t}, mysqlQueue' = mysqlQueue,
                mQCond' # {} => mQCond # {}
         PROVE  EnoughAlert'
  <2>1. Cardinality(Alert') = k + 1
    BY <1>more, AlertFinite, FS_AddElement DEF k
  <2> QED BY <1>more, <1>k, <2>1 DEF EnoughAlert, k
<1>0. CASE UNCHANGED vars
  BY <1>0, <1>same DEF vars, Alert
<1>a. CASE Boot
  <2>1. mQCond' = {}
    BY <1>a DEF Boot, InitConnPool, Connect, ConnectFails, InitConnPoolCharSet, BootAlone
  <2> QED BY <2>1 DEF EnoughAlert
<1>e. ASSUME NEW t \in Threads, CallGet(t) PROVE EnoughAlert'
  <2>1. t \notin Alert /\ Alert' = Alert \cup {t}
    BY <1>e, <1>t DEF CallGet, Alert
  <2> QED BY <1>e, <2>1, <1>more DEF CallGet
<1>f. ASSUME NEW t \in Threads, LockGet(t) PROVE EnoughAlert'
  <2>1. Alert' = Alert
    BY <1>f, <1>t DEF LockGet, Lock!lock, Alert
  <2> QED BY <1>f, <2>1, <1>same DEF LockGet, Lock!lock
<1>g. ASSUME NEW t \in Threads, Wait(t) PROVE EnoughAlert'
  <2>1. mysqlQueue' = <<>>
    BY <1>g DEF Wait
  <2>2. Alert' \in SUBSET Threads
    BY DEF Alert
  <2>3. Cardinality(Alert') \in Nat
    BY <2>2, PoolThreadsAssumption, FS_Subset, FS_CardinalityType
  <2> QED BY <2>1, <2>3 DEF EnoughAlert
<1>h. ASSUME NEW t \in Threads, Relock(t) PROVE EnoughAlert'
  <2>1. Alert' = Alert
    BY <1>h, <1>t DEF Relock, Lock!relock, Lock!lock, Alert
  <2> QED BY <1>h, <2>1, <1>same DEF Relock, Lock!relock, Lock!lock
<1>i. ASSUME NEW t \in Threads, Pop(t) PROVE EnoughAlert'
  <2>1. t \in Alert /\ Alert' = Alert \ {t}
    BY <1>i, <1>t DEF Pop, Alert
  <2>2. Cardinality(Alert') = k - 1
    BY <2>1, AlertFinite, FS_RemoveElement DEF k
  <2>3. Len(mysqlQueue') = Len(mysqlQueue) - 1 /\ mQCond' = mQCond
    BY <1>i, <1>t DEF Pop
  <2> QED BY <2>2, <2>3, <1>k DEF EnoughAlert, k
<1>q. ASSUME NEW t \in Threads, TestNonempty(t) PROVE EnoughAlert'
  <2>1. Alert' = Alert
    BY <1>q, <1>t DEF TestNonempty, Alert
  <2> QED BY <1>q, <2>1, <1>same DEF TestNonempty
<1>r. ASSUME NEW t \in Threads, Front(t) PROVE EnoughAlert'
  <2>1. Alert' = Alert
    BY <1>r, <1>t DEF Front, Alert
  <2> QED BY <1>r, <2>1, <1>same DEF Front
<1>j. ASSUME NEW t \in Threads, UnlockGet(t) PROVE EnoughAlert'
  <2>1. Alert' = Alert
    BY <1>j, <1>t DEF UnlockGet, Lock!unlock, Alert
  <2> QED BY <1>j, <2>1, <1>same DEF UnlockGet, Lock!unlock
<1>l. ASSUME NEW t \in Threads, CallPut(t) \/ LockPut(t) PROVE EnoughAlert'
  <2>1. Alert' = Alert
    BY <1>l, <1>t DEF CallPut, LockPut, Lock!lock, Alert
  <2> QED BY <1>l, <2>1, <1>same DEF CallPut, LockPut, Lock!lock
<1>m. ASSUME NEW t \in Threads, Push(t) PROVE EnoughAlert'
  <2>1. t \notin Alert /\ Alert' = Alert \cup {t}
    BY <1>m, <1>t DEF Push, Alert
  <2>2. Cardinality(Alert') = k + 1
    BY <2>1, AlertFinite, FS_AddElement DEF k
  <2>3. Len(mysqlQueue') = Len(mysqlQueue) + 1 /\ mQCond' = mQCond
    BY <1>m, <1>t DEF Push, Hands
  <2> QED BY <2>2, <2>3, <1>k DEF EnoughAlert, k
<1>n. ASSUME NEW t \in Threads, UnlockPut(t) PROVE EnoughAlert'
  <2>1. Alert' = Alert
    BY <1>n, <1>t DEF UnlockPut, Lock!unlock, Alert
  <2> QED BY <1>n, <2>1, <1>same DEF UnlockPut, Lock!unlock
<1>o. ASSUME NEW t \in Threads, Signal(t) PROVE EnoughAlert'
  <2>1. CASE mQCond = {}
    BY <1>o, <2>1 DEF Signal, Lock!signal, EnoughAlert
  <2>2. CASE mQCond # {}
    <3>1. PICK w \in mQCond : mQCond' = mQCond \ {w}
      BY <1>o, <2>2 DEF Signal, Lock!signal
    <3>2. pc[w] = "wait" /\ w \in Threads /\ w # t
      BY <1>o, <1>t, <3>1 DEF Signal
    <3>3. /\ t \in Alert /\ w \notin Alert \ {t}
          /\ Alert' = (Alert \ {t}) \cup {w}
      BY <1>o, <1>t, <3>1, <3>2 DEF Signal, Alert
    <3>4. /\ IsFiniteSet(Alert \ {t})
          /\ Cardinality(Alert \ {t}) = k - 1
      BY <3>3, AlertFinite, FS_RemoveElement DEF k
    <3>5. Cardinality((Alert \ {t}) \cup {w}) = k - 1 + 1
      BY <3>3, <3>4, FS_AddElement
    <3> QED BY <1>o, <2>2, <3>3, <3>5, <1>k DEF Signal, EnoughAlert, k
  <2> QED BY <2>1, <2>2
<1>p. ASSUME NEW t \in Threads, SpuriousWakeup(t) PROVE EnoughAlert'
  <2>1. t \notin Alert /\ Alert' = Alert \cup {t}
    BY <1>p, <1>t DEF SpuriousWakeup, Lock!wake, Alert
  <2> QED BY <1>p, <2>1, <1>more DEF SpuriousWakeup, Lock!wake
<1> QED
  BY <1>0, <1>a, <1>e, <1>f, <1>g, <1>h, <1>i, <1>j, <1>l, <1>m, <1>n, <1>o, <1>p, <1>q, <1>r
     DEF Next, Step

-----------------------------------------------------------------------------
(* What every reachable state satisfies; each part is needed by another.   *)
PoolInv == TypeOK /\ BootAlone /\ Hands /\ Holder /\ Numbered /\ Apart /\ Kept /\ EnoughAlert

(* The empty pool, before the first array is allocated.                    *)
LEMMA InitPool == Init => PoolInv
<1> SUFFICES ASSUME Init PROVE PoolInv
  OBVIOUS
<1> USE SizeAssumption, PoolThreadsAssumption DEF Init, Lock!Init
<1>1. TypeOK
  BY DEF TypeOK, Lock!TypeOK
<1>2. BootAlone /\ Hands
  BY DEF BootAlone, Hands
<1>3. Holder
  BY DEF Holder, MutualExclusion, Inside, InMutex
<1>4. Numbered /\ Apart /\ Kept
  BY DEF Numbered, Apart, Kept, Queued
<1>5. EnoughAlert
  BY DEF EnoughAlert
<1> QED BY <1>1, <1>2, <1>3, <1>4, <1>5 DEF PoolInv

(* The parts of PoolInv together are inductive.                            *)
LEMMA PoolInvariant == Spec => []PoolInv
<1>1. PoolInv /\ [Next]_vars => PoolInv'
  BY NextTypeOK, NextThreads, NextConnections, NextAlert DEF PoolInv
<1> QED BY <1>1, InitPool, PTL DEF Spec

(* The variables keep their types: initConnPool does not run past the end  *)
(* of the array, and put() is never given the absent connection.           *)
THEOREM Typing == Spec => []TypeOK
  BY PoolInvariant, PTL DEF PoolInv

(* One worker at a time is inside the mutex of the pool. *)
THEOREM Exclusion == Spec => []MutualExclusion
  BY PoolInvariant, PTL DEF PoolInv, Holder

(* A sequence that repeats nothing is as long as its range is large.       *)
LEMMA DistinctLength ==
  ASSUME NEW S, NEW q \in Seq(S), \A i, j \in DOMAIN q : q[i] = q[j] => i = j
  PROVE  Len(q) = Cardinality(Range(q))
<1>1. Len(q) \in Nat /\ DOMAIN q = 1 .. Len(q)
  OBVIOUS
<1>2. Range(q) = {q[i] : i \in 1 .. Len(q)}
  BY <1>1 DEF Range
<1> DEFINE f == [i \in 1 .. Len(q) |-> q[i]]
<1>3. f \in Bijection(1 .. Len(q), Range(q))
  <2>1. f \in [1 .. Len(q) -> Range(q)]
    BY <1>2
  <2>2. \A i, j \in 1 .. Len(q) : f[i] = f[j] => i = j
    BY <1>1
  <2>3. \A y \in Range(q) : \E i \in 1 .. Len(q) : f[i] = y
    BY <1>2
  <2> QED BY <2>1, <2>2, <2>3, Fun_IsBij
<1>4. ExistsBijection(1 .. Len(q), Range(q))
  BY <1>3 DEF ExistsBijection
<1>5. IsFiniteSet(1 .. Len(q)) /\ Cardinality(1 .. Len(q)) = Len(q)
  BY <1>1, FS_Interval
<1> QED BY <1>4, <1>5, FS_Bijection

(* No two workers ever hold the same connection, and none is queued while  *)
(* a worker holds it, whether or not an earlier initConnPool failed.       *)
THEOREM NotShared == Spec => []NeverShared
<1>1. PoolInv => NeverShared
  <2> SUFFICES ASSUME PoolInv PROVE NeverShared
    OBVIOUS
  <2>1. Len(Queued) = Cardinality(Range(Queued))
    BY DistinctLength, QueuedType DEF PoolInv, Apart
  <2>2. Range(Queued) \cap Held = {}
    BY DEF PoolInv, Apart, Range, Held
  <2> QED BY <2>1, <2>2 DEF NeverShared, PoolInv, Apart
<1> QED BY <1>1, PoolInvariant, PTL

(* Every connection of the array in use is queued or in a worker's hands.  *)
THEOREM NotLeaked == Spec => []NeverLeaked
<1>1. PoolInv => NeverLeaked
  <2> SUFFICES ASSUME PoolInv, NEW k \in 1 .. filled
               PROVE  <<pMysqlArray, k>> \in Range(Queued) \cup Held
    BY DEF NeverLeaked
  <2>1. <<pMysqlArray, k>> # NoConn
    BY SizeAssumption, PoolNoConnAssumption DEF PoolInv, TypeOK
  <2> QED BY <2>1 DEF PoolInv, Kept, Range, Held
<1> QED BY <1>1, PoolInvariant, PTL

(* No signal is lost although put() signals after it has unlocked.         *)
THEOREM WakeupsSuffice == Spec => []NoLostWakeup
<1>1. PoolInv => NoLostWakeup
  <2> SUFFICES ASSUME PoolInv, mQCond # {}, Inside = {}
               PROVE  Len(mysqlQueue) <=
                        Cardinality({t \in Threads :
                           \/ pc[t] \in {"lockGet", "signal"}
                           \/ pc[t] = "wait" /\ t \notin mQCond})
    BY DEF NoLostWakeup
  <2>1. Alert = {t \in Threads : \/ pc[t] \in {"lockGet", "signal"}
                                 \/ pc[t] = "wait" /\ t \notin mQCond}
    BY DEF Alert, Inside, InMutex
  <2> QED BY <2>1 DEF PoolInv, EnoughAlert
<1> QED BY <1>1, PoolInvariant, PTL

-----------------------------------------------------------------------------
(***************************************************************************)
(* The proofs about MysqlDB.  Using connections does not disturb the pool, *)
(* so its theorems hold of ClientSpec too; and because a connection is one *)
(* worker's at a time, what a worker finds in it after its own execute()   *)
(* is its own.                                                             *)
(***************************************************************************)

Handles == [up : BOOLEAN, good : BOOLEAN, unfetched : Nat, mMysqlResult : Nat]

ClientTypeOK ==
    /\ db \in [Conns -> Handles]
    /\ statements \in Nat
    /\ asked \in [Threads -> Nat]
    /\ stage \in [Threads -> {"taken", "executed", "fetched"}]

(* What the object behind a worker's connection holds, step by step of the *)
(* worker's use of it.                                                     *)
OwnUnfetched(t) ==
    stage[t] = "executed" => /\ Using(t)
                             /\ db[conn[t]].unfetched \in {NoStatement, asked[t]}

OwnResult(t) ==
    stage[t] = "fetched" => /\ Using(t)
                            /\ db[conn[t]].mMysqlResult \in {NoStatement, asked[t]}

ClientInv ==
    /\ ClientTypeOK
    /\ \A t \in Threads : OwnUnfetched(t) /\ OwnResult(t)

-----------------------------------------------------------------------------
(* The workers' use of their connections is invisible to the pool. *)
LEMMA PoolUndisturbed == ClientSpec => Spec
<1>1. ClientInit => Init
    BY DEF ClientInit
<1>2. [ClientNext]_allVars => [Next]_vars
    BY DEF ClientNext, allVars, PoolStep, connect, Use, putBack, execute, getResult,
           reConnect, Next, Boot
<1> QED
    BY <1>1, <1>2, PTL DEF ClientSpec, Spec

LEMMA ClientHasPoolInv == ClientSpec => []PoolInv
    BY PoolUndisturbed, PoolInvariant, PTL

LEMMA InitClient == ClientInit => ClientInv
<1> SUFFICES ASSUME ClientInit PROVE ClientInv
    OBVIOUS
<1>1. db \in [Conns -> Handles]
    BY DEF ClientInit, Fresh, NoStatement, Handles, Conns
<1>2. /\ statements \in Nat
      /\ asked \in [Threads -> Nat]
      /\ stage \in [Threads -> {"taken"}]
    BY DEF ClientInit, NoStatement
<1> QED
    BY <1>1, <1>2 DEF ClientInv, ClientTypeOK, OwnUnfetched, OwnResult

(* What the client library's calls leave in a handle. *)
LEMMA Handled ==
  ASSUME NEW h \in Handles, NEW s \in Nat
  PROVE  /\ \A k \in Queried(h, s) : k \in Handles /\ k.unfetched \in {NoStatement, s}
         /\ QueryFailed(h) \in Handles
         /\ \A k \in Stored(h) :
               k \in Handles /\ k.mMysqlResult \in {NoStatement, h.unfetched}
<1> USE DEF NoStatement
<1>1. \A u \in Nat : LET k == [h EXCEPT !.good = TRUE, !.unfetched = u]
                     IN  k \in Handles /\ k.unfetched = u
    BY DEF Handles
<1>2. \A k \in Queried(h, s) : k \in Handles /\ k.unfetched \in {NoStatement, s}
    BY <1>1 DEF Queried
<1>3. QueryFailed(h) \in Handles
    BY DEF QueryFailed, Handles
<1>4. \A b \in BOOLEAN, u, r \in Nat :
         LET k == [h EXCEPT !.good = b, !.unfetched = u, !.mMysqlResult = r]
         IN  k \in Handles /\ k.mMysqlResult = r
    BY DEF Handles
<1>5. LET k == [h EXCEPT !.mMysqlResult = NoStatement]
      IN  k \in Handles /\ k.mMysqlResult = NoStatement
    BY DEF Handles
<1>6. h.unfetched \in Nat
    BY DEF Handles
<1>7. \A k \in Stored(h) : k \in Handles /\ k.mMysqlResult \in {NoStatement, h.unfetched}
    <2>1. CASE h.unfetched = NoStatement
      BY <1>5, <2>1 DEF Stored
    <2>2. CASE h.unfetched # NoStatement
      <3> DEFINE k1 == [h EXCEPT !.good = TRUE, !.unfetched = NoStatement,
                                 !.mMysqlResult = h.unfetched]
                 k2 == [h EXCEPT !.good = FALSE, !.unfetched = NoStatement,
                                 !.mMysqlResult = NoStatement]
      <3>1. k1 \in Handles /\ k1.mMysqlResult = h.unfetched
        BY <1>4, <1>6
      <3>2. k2 \in Handles /\ k2.mMysqlResult = NoStatement
        BY <1>4
      <3>3. Stored(h) = {k1, k2}
        BY <2>2 DEF Stored
      <3> HIDE DEF k1, k2
      <3> QED
        BY <3>1, <3>2, <3>3
    <2> QED
      BY <2>1, <2>2
<1> QED
    BY <1>2, <1>3, <1>7

(* A step of one worker touches no connection of another. *)
LEMMA NextClient ==
  ClientInv /\ PoolInv /\ [ClientNext]_allVars => ClientInv'
<1> SUFFICES ASSUME ClientInv, PoolInv, [ClientNext]_allVars PROVE ClientInv'
    OBVIOUS
<1> USE DEF ClientInv, Using, NoStatement
<1>0. /\ \A t \in Threads : conn[t] # NoConn => conn[t] \in Conns
      /\ \A t, u \in Threads : t # u /\ conn[t] # NoConn => conn[t] # conn[u]
      /\ conn \in [Threads -> Conns \cup {NoConn}]
      /\ DOMAIN pc = Threads
    BY DEF PoolInv, TypeOK, Apart
(* The pool: a worker that is using its connection takes no step in it. *)
<1>1. CASE PoolStep
  <2>1. ClientTypeOK'
    BY <1>1 DEF PoolStep, clientVars, ClientTypeOK
  <2>2. ASSUME NEW t \in Threads, Using(t)
        PROVE  Using(t)' /\ conn'[t] = conn[t]
    BY <1>0, <1>1, <2>2
    DEF PoolStep, InitConnPool, ConnectFails, InitConnPoolCharSet, CallGet, Step, SpuriousWakeup,
        LockGet, Wait, Relock, TestNonempty, Front, Pop, UnlockGet, LockPut, Push, UnlockPut, Signal,
         Goto, Conns
  <2> QED
    BY <1>1, <2>1, <2>2 DEF PoolStep, clientVars, OwnUnfetched, OwnResult
<1>2. CASE connect
  <2> DEFINE c == <<pMysqlArray, filled + 1>>
  <2>1. /\ db' = [db EXCEPT ![c].up = TRUE]
        /\ UNCHANGED <<statements, asked, stage, pc, conn>>
    BY <1>2 DEF connect, Connect
  <2>2. \A h \in Handles : LET k == [h EXCEPT !.up = TRUE]
                           IN  /\ k \in Handles
                               /\ k.unfetched = h.unfetched
                               /\ k.mMysqlResult = h.mMysqlResult
    BY DEF Handles
  <2>3. \A d \in Conns : /\ db'[d] \in Handles
                         /\ db'[d].unfetched = db[d].unfetched
                         /\ db'[d].mMysqlResult = db[d].mMysqlResult
    BY <2>1, <2>2 DEF ClientTypeOK
  <2>4. ClientTypeOK'
    BY <2>1, <2>3 DEF ClientTypeOK
  <2> QED
    BY <1>0, <2>1, <2>3, <2>4 DEF OwnUnfetched, OwnResult
<1>3. ASSUME NEW t \in Threads, putBack(t) PROVE ClientInv'
  <2>1. ClientTypeOK'
    BY <1>3 DEF putBack, ClientTypeOK
  <2> QED
    BY <1>0, <1>3, <2>1 DEF putBack, CallPut, Goto, ClientTypeOK, OwnUnfetched, OwnResult
<1>4. ASSUME NEW t \in Threads, execute(t) PROVE ClientInv'
  <2> DEFINE h == db'[conn[t]]
  <2>1. /\ conn[t] \in Conns
        /\ UNCHANGED <<pc, conn>>
        /\ statements' = statements + 1
    BY <1>0, <1>4 DEF execute, vars
  <2>2. /\ db' = [db EXCEPT ![conn[t]] = h]
        /\ h \in Handles
        /\ stage' = [stage EXCEPT ![t] = stage'[t]]
        /\ asked' = [asked EXCEPT ![t] = asked'[t]]
        /\ asked'[t] \in Nat
        /\ \/ stage'[t] = "taken"
           \/ stage'[t] = "executed" /\ h.unfetched \in {NoStatement, asked'[t]}
    <3>1. db[conn[t]] \in Handles /\ statements' \in Nat
      BY <2>1 DEF ClientTypeOK
    <3>2. CASE Sent(t, statements') /\ stage' = [stage EXCEPT ![t] = "executed"]
                                   /\ asked' = [asked EXCEPT ![t] = statements']
      <4>1. PICK k \in Queried(db[conn[t]], statements') : db' = [db EXCEPT ![conn[t]] = k]
        BY <3>2 DEF Sent
      <4>2. k \in Handles /\ k.unfetched \in {NoStatement, statements'} /\ h = k
        BY <2>1, <3>1, <4>1, Handled DEF ClientTypeOK
      <4> QED
        BY <3>1, <3>2, <4>1, <4>2 DEF ClientTypeOK
    <3>3. CASE Refused(t) /\ stage' = [stage EXCEPT ![t] = "taken"]
                          /\ asked' = [asked EXCEPT ![t] = NoStatement]
      <4>1. db' = [db EXCEPT ![conn[t]] = QueryFailed(db[conn[t]])]
        BY <3>3 DEF Refused
      <4>2. QueryFailed(db[conn[t]]) \in Handles /\ h = QueryFailed(db[conn[t]])
        BY <2>1, <3>1, <4>1, Handled DEF ClientTypeOK
      <4> QED
        BY <3>3, <4>1, <4>2 DEF ClientTypeOK
    <3> QED
      BY <1>4, <3>2, <3>3 DEF execute
  <2>3. ClientTypeOK'
    BY <2>1, <2>2 DEF ClientTypeOK
  <2> QED
    BY <1>0, <1>4, <2>1, <2>2, <2>3 DEF execute, ClientTypeOK, OwnUnfetched, OwnResult
<1>5. ASSUME NEW t \in Threads, getResult(t) PROVE ClientInv'
  <2> DEFINE h == db'[conn[t]]
  <2>1. /\ conn[t] \in Conns
        /\ UNCHANGED <<pc, conn, statements, asked>>
        /\ stage[t] = "executed"
        /\ stage' = [stage EXCEPT ![t] = "fetched"]
    BY <1>0, <1>5 DEF getResult, vars
  <2>2. /\ db' = [db EXCEPT ![conn[t]] = h]
        /\ h \in Handles
        /\ h.mMysqlResult \in {NoStatement, db[conn[t]].unfetched}
    <3>1. PICK k \in Stored(db[conn[t]]) : db' = [db EXCEPT ![conn[t]] = k]
      BY <1>5 DEF getResult
    <3>2. db[conn[t]] \in Handles
      BY <2>1 DEF ClientTypeOK
    <3>3. k \in Handles /\ k.mMysqlResult \in {NoStatement, db[conn[t]].unfetched} /\ h = k
      BY <2>1, <3>1, <3>2, Handled DEF ClientTypeOK
    <3> QED
      BY <3>1, <3>3
  <2>3. ClientTypeOK'
    BY <2>1, <2>2 DEF ClientTypeOK
  <2> QED
    BY <1>0, <1>5, <2>1, <2>2, <2>3 DEF getResult, ClientTypeOK, OwnUnfetched, OwnResult
<1>6. ASSUME NEW t \in Threads, reConnect(t) PROVE ClientInv'
  <2> DEFINE h == db'[conn[t]]
  <2>1. /\ conn[t] \in Conns
        /\ UNCHANGED <<pc, conn, statements, asked, stage>>
    BY <1>0, <1>6 DEF reConnect, vars
  <2>2. /\ db' = [db EXCEPT ![conn[t]] = h]
        /\ h \in Handles
        /\ h.unfetched = NoStatement
        /\ h.mMysqlResult = db[conn[t]].mMysqlResult
    <3>1. \A b \in BOOLEAN, r \in Nat :
             LET k == [Fresh EXCEPT !.up = b, !.good = b, !.mMysqlResult = r]
             IN  k \in Handles /\ k.unfetched = NoStatement /\ k.mMysqlResult = r
      BY DEF Fresh, Handles
    <3>2. db[conn[t]].mMysqlResult \in Nat
      BY <2>1 DEF ClientTypeOK, Handles
    <3>3. PICK b \in BOOLEAN :
             db' = [db EXCEPT ![conn[t]] = [Fresh EXCEPT !.up = b, !.good = b,
                                            !.mMysqlResult = db[conn[t]].mMysqlResult]]
      BY <1>6 DEF reConnect
    <3> QED
      BY <2>1, <3>1, <3>2, <3>3 DEF ClientTypeOK
  <2>3. ClientTypeOK'
    BY <2>1, <2>2 DEF ClientTypeOK
  <2> QED
    BY <1>0, <2>1, <2>2, <2>3 DEF ClientTypeOK, OwnUnfetched, OwnResult
<1>7. CASE UNCHANGED allVars
    BY <1>7 DEF allVars, clientVars, vars, ClientTypeOK, OwnUnfetched, OwnResult
<1> QED
    BY <1>1, <1>2, <1>3, <1>4, <1>5, <1>6, <1>7 DEF ClientNext, Use

(* The rows a worker reads after getResult() are those of the statement it *)
(* sent last, for any number of workers, connections and statements, and   *)
(* whatever the holders before left in the connection.                     *)
THEOREM RowsOwn == ClientSpec => []RowsAreOwn
<1>1. ClientInv => RowsAreOwn
    BY DEF ClientInv, OwnResult, RowsAreOwn, nextRow
<1>2. ClientSpec => []ClientInv
    BY InitClient, NextClient, ClientHasPoolInv, PTL DEF ClientSpec
<1> QED
    BY <1>1, <1>2, PTL

(* In use, too, no connection is shared between workers. *)
THEOREM NotSharedInUse == ClientSpec => []NeverShared
    BY PoolUndisturbed, NotShared, PTL
=============================================================================
