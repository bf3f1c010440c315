---------------------------- MODULE PcQueueProofs ----------------------------
(***************************************************************************)
(* Proofs about PcQueue, for any threads, any programs and any bound on    *)
(* the items: its types, its order, and that it implements the atomic      *)
(* first-in first-out container.                                           *)
(*                                                                         *)
(* Order and refinement need the mutex: between its front() and its pop()  *)
(* a consumer has an item that is still in the queue, and nobody else may  *)
(* look.  HolderInside states it: a thread past the lock is the holder.    *)
(***************************************************************************)
EXTENDS PcQueue, FiniteSetTheorems, TLAPS

(* Only the holder of the mutex is past the lock, and whoever is blocked   *)
(* in the condition variable, or has timed out there, is in wait.          *)
HolderInside ==
    /\ \A t \in Threads : t \in Inside <=> mLock = t
    /\ \A t \in mCond \cup timedout : pc[t] = "wait"
    /\ mCond \cap timedout = {}

(* The threads that are going to look at the queue, or to signal one that  *)
(* will.                                                                   *)
Lookers == {t \in Threads :
               \/ pc[t] = "signal"
               \/ pc[t] \in {"lock", "test", "front", "pop"} /\ op[t] \in {"get", "geto"}
               \/ pc[t] = "wait" /\ t \notin mCond \cup timedout}

(* NoLostWakeup at every step, not only while the mutex is free. *)
EnoughLookers == mCond # {} => Len(mQueue) <= Cardinality(Lookers)

QueueInv == TypeOK /\ HolderInside /\ FifoNothingLost /\ EnoughLookers

-----------------------------------------------------------------------------
(* The empty queue, with nobody inside or waiting. *)
LEMMA InitInv == Init => QueueInv
<1> SUFFICES ASSUME Init PROVE QueueInv
  OBVIOUS
<1>1. TypeOK
  BY DEF Init, TypeOK, Lock!Init, Lock!TypeOK, Ops
<1>2. HolderInside
  BY PcThreadsAssumption DEF Init, Lock!Init, HolderInside, Inside, InMutex
<1>3. FifoNothingLost
  <2>1. delivered \o Contents = <<>> /\ stored = 0
    BY DEF Init, Contents
  <2>2. [i \in 1 .. 0 |-> i] = <<>>
    OBVIOUS
  <2> QED BY <2>1, <2>2 DEF FifoNothingLost
<1>4. EnoughLookers
  BY DEF Init, Lock!Init, EnoughLookers
<1> QED BY <1>1, <1>2, <1>3, <1>4 DEF QueueInv

(* Every step keeps the types. *)
LEMMA NextTypeOK == TypeOK /\ [Next]_vars => TypeOK'
<1> SUFFICES ASSUME TypeOK, [Next]_vars PROVE TypeOK'
  OBVIOUS
<1> USE DEF TypeOK, Goto, InMutex, Lock!TypeOK
<1>0. CASE UNCHANGED vars
  BY <1>0 DEF vars
<1>a. ASSUME NEW t \in Threads, Call(t) PROVE TypeOK'
  <2>1. PICK o \in Program[t] : op' = [op EXCEPT ![t] = o]
    BY <1>a DEF Call
  <2>2. o \in Ops
    BY <2>1, PcProgramAssumption
  <2> QED BY <1>a, <2>1, <2>2 DEF Call
<1>b. ASSUME NEW t \in Threads, LockMutex(t) PROVE TypeOK'
  <2>1. /\ AfterLock(op[t]) \in InMutex
        /\ AfterLock(op[t]) \in {"push", "signal"} => op[t] = "put"
        /\ AfterLock(op[t]) \in {"test", "wait", "front", "pop"} => op[t] \in {"get", "geto"}
    BY DEF AfterLock
  <2> QED BY <1>b, <2>1 DEF LockMutex, Lock!lock
<1>c. ASSUME NEW t \in Threads, Push(t) PROVE TypeOK'
  BY <1>c DEF Push
<1>d. ASSUME NEW t \in Threads, Signal(t) PROVE TypeOK'
  BY <1>d DEF Signal, Lock!signal
<1>e. ASSUME NEW t \in Threads, Wait(t) PROVE TypeOK'
  BY <1>e DEF Wait, Lock!wait
<1>f. ASSUME NEW t \in Threads, Relock(t) PROVE TypeOK'
  BY <1>f DEF Relock, Lock!relock, Lock!lock
<1>g. ASSUME NEW t \in Threads, Pop(t) PROVE TypeOK'
  BY <1>g DEF Pop
<1>k. ASSUME NEW t \in Threads, TestNonempty(t) PROVE TypeOK'
  BY <1>k DEF TestNonempty
<1>l. ASSUME NEW t \in Threads, Front(t) PROVE TypeOK'
  BY <1>l DEF Front
<1>h. ASSUME NEW t \in Threads, Unlock(t) PROVE TypeOK'
  BY <1>h DEF Unlock, Lock!unlock
<1>i. ASSUME NEW t \in Threads, SpuriousWakeup(t) PROVE TypeOK'
  BY <1>i DEF SpuriousWakeup, Lock!wake
<1>j. ASSUME NEW t \in Threads, Timeout(t) PROVE TypeOK'
  BY <1>j DEF Timeout, Lock!wake
<1> QED
  BY <1>0, <1>a, <1>b, <1>c, <1>d, <1>e, <1>f, <1>g, <1>h, <1>i, <1>j, <1>k, <1>l
     DEF Next, Step

(* Every step keeps the mutex with the thread that is past the lock. *)
LEMMA NextHolder == TypeOK /\ HolderInside /\ [Next]_vars => HolderInside'
<1> SUFFICES ASSUME TypeOK, HolderInside, [Next]_vars PROVE HolderInside'
  OBVIOUS
<1>t. /\ pc \in [Threads -> InMutex \cup {"idle", "lock", "wait"}]
      /\ mCond \subseteq Threads /\ timedout \subseteq Threads
  BY DEF TypeOK, Lock!TypeOK
<1> USE PcThreadsAssumption DEF HolderInside, Inside, InMutex, Goto
<1>0. CASE UNCHANGED vars
  BY <1>0 DEF vars
<1>a. ASSUME NEW t \in Threads, Call(t) PROVE HolderInside'
  BY <1>a, <1>t DEF Call
<1>b. ASSUME NEW t \in Threads, LockMutex(t) PROVE HolderInside'
  <2>1. AfterLock(op[t]) \in {"push", "test", "unlock"}
    BY DEF AfterLock
  <2> QED BY <1>b, <1>t, <2>1 DEF LockMutex, Lock!lock
<1>c. ASSUME NEW t \in Threads, Push(t) PROVE HolderInside'
  BY <1>c, <1>t DEF Push
<1>d. ASSUME NEW t \in Threads, Signal(t) PROVE HolderInside'
  BY <1>d, <1>t DEF Signal, Lock!signal
<1>e. ASSUME NEW t \in Threads, Wait(t) PROVE HolderInside'
  BY <1>e, <1>t DEF Wait, Lock!wait
<1>f. ASSUME NEW t \in Threads, Relock(t) PROVE HolderInside'
  BY <1>f, <1>t DEF Relock, Lock!relock, Lock!lock
<1>g. ASSUME NEW t \in Threads, Pop(t) PROVE HolderInside'
  BY <1>g, <1>t DEF Pop
<1>k. ASSUME NEW t \in Threads, TestNonempty(t) PROVE HolderInside'
  BY <1>k, <1>t DEF TestNonempty
<1>l. ASSUME NEW t \in Threads, Front(t) PROVE HolderInside'
  BY <1>l, <1>t DEF Front
<1>h. ASSUME NEW t \in Threads, Unlock(t) PROVE HolderInside'
  BY <1>h, <1>t DEF Unlock, Lock!unlock
<1>i. ASSUME NEW t \in Threads, SpuriousWakeup(t) PROVE HolderInside'
  BY <1>i, <1>t DEF SpuriousWakeup, Lock!wake
<1>j. ASSUME NEW t \in Threads, Timeout(t) PROVE HolderInside'
  BY <1>j, <1>t DEF Timeout, Lock!wake
<1> QED
  BY <1>0, <1>a, <1>b, <1>c, <1>d, <1>e, <1>f, <1>g, <1>h, <1>i, <1>j, <1>k, <1>l
     DEF Next, Step

-----------------------------------------------------------------------------
(* The queue as its callers see it, from the one thread inside.            *)
LEMMA ContentsAre ==
  ASSUME TypeOK, HolderInside, NEW t \in Threads, pc[t] \in InMutex
  PROVE  Contents = IF pc[t] = "pop" THEN Tail(mQueue) ELSE mQueue
  BY DEF HolderInside, Inside, InMutex, Contents

(* The same of the state after a step. *)
LEMMA ContentsWillBe ==
  ASSUME TypeOK', HolderInside', NEW t \in Threads, pc'[t] \in InMutex
  PROVE  Contents' = IF pc'[t] = "pop" THEN Tail(mQueue') ELSE mQueue'
  BY DEF HolderInside, Inside, InMutex, Contents

(* What a step does to the queue as its callers see it. *)
LEMMA Visible ==
  ASSUME TypeOK, TypeOK', HolderInside, HolderInside', [Next]_vars
  PROVE  \/ UNCHANGED <<Contents, stored, delivered>>
         \/ /\ stored' = stored + 1
            /\ Contents' = Append(Contents, stored + 1)
            /\ delivered' = delivered
         \/ /\ Contents # <<>>
            /\ delivered' = Append(delivered, Head(Contents))
            /\ Contents' = Tail(Contents)
            /\ stored' = stored
<1>t. pc \in [Threads -> InMutex \cup {"idle", "lock", "wait"}]
  BY DEF TypeOK
<1> USE DEF Goto
<1>0. CASE UNCHANGED vars
  BY <1>0 DEF vars, Contents
<1>1. ASSUME NEW t \in Threads, Push(t)
      PROVE  /\ stored' = stored + 1 /\ delivered' = delivered
             /\ Contents' = Append(Contents, stored + 1)
  BY <1>1, <1>t, ContentsAre, ContentsWillBe DEF Push, InMutex
<1>2. ASSUME NEW t \in Threads, Front(t)
      PROVE  /\ Contents # <<>> /\ stored' = stored
             /\ delivered' = Append(delivered, Head(Contents))
             /\ Contents' = Tail(Contents)
  BY <1>2, <1>t, ContentsAre, ContentsWillBe DEF Front, InMutex
<1>3. ASSUME NEW t \in Threads, Pop(t) PROVE UNCHANGED <<Contents, stored, delivered>>
  BY <1>3, <1>t, ContentsAre, ContentsWillBe DEF Pop, InMutex
<1>4. ASSUME NEW t \in Threads,
             \/ Call(t) \/ LockMutex(t) \/ Signal(t) \/ Wait(t) \/ Relock(t)
             \/ TestNonempty(t) \/ Unlock(t) \/ SpuriousWakeup(t) \/ Timeout(t)
      PROVE  UNCHANGED <<Contents, stored, delivered>>
  <2>0. AfterLock(op[t]) # "pop"
    BY DEF AfterLock
  <2>1. \A u \in Threads : pc'[u] = "pop" <=> pc[u] = "pop"
    BY <1>4, <1>t, <2>0
       DEF Call, LockMutex, Signal, Wait, Relock, TestNonempty, Unlock, SpuriousWakeup, Timeout
  <2>2. UNCHANGED <<mQueue, stored, delivered>>
    BY <1>4
       DEF Call, LockMutex, Signal, Wait, Relock, TestNonempty, Unlock, SpuriousWakeup, Timeout
  <2> QED BY <2>1, <2>2 DEF Contents
<1> QED BY <1>0, <1>1, <1>2, <1>3, <1>4 DEF Next, Step

(* The queue as its callers see it is a sequence of numbers. *)
LEMMA ContentsType == TypeOK => Contents \in Seq(Nat)
<1> SUFFICES ASSUME TypeOK PROVE Contents \in Seq(Nat)
  OBVIOUS
<1>1. mQueue \in Seq(Nat)
  BY DEF TypeOK
<1>2. CASE mQueue # <<>>
  BY <1>1, <1>2 DEF Contents
<1>3. CASE mQueue = <<>>
  <2>1. Tail(mQueue) = <<>> /\ <<>> \in Seq(Nat)
    BY <1>3
  <2> QED BY <1>1, <2>1 DEF Contents
<1> QED BY <1>2, <1>3

(* Order: an item joins the end when it is put, and changes hands at the   *)
(* front when it is copied out.                                            *)
LEMMA NextFifo ==
  /\ TypeOK /\ TypeOK' /\ HolderInside /\ HolderInside' /\ FifoNothingLost
  /\ [Next]_vars
  => FifoNothingLost'
<1> SUFFICES ASSUME TypeOK, TypeOK', HolderInside, HolderInside', FifoNothingLost, [Next]_vars
             PROVE  FifoNothingLost'
  OBVIOUS
<1>t. Contents \in Seq(Nat) /\ delivered \in Seq(Nat) /\ stored \in Nat
  BY ContentsType DEF TypeOK
<1>0. CASE UNCHANGED <<Contents, stored, delivered>>
  BY <1>0 DEF FifoNothingLost
<1>1. CASE /\ stored' = stored + 1 /\ delivered' = delivered
           /\ Contents' = Append(Contents, stored + 1)
  <2>1. delivered \o Append(Contents, stored + 1) = Append(delivered \o Contents, stored + 1)
    BY <1>t
  <2>2. Append([i \in 1 .. stored |-> i], stored + 1) = [i \in 1 .. stored + 1 |-> i]
    BY <1>t
  <2> QED BY <1>1, <2>1, <2>2 DEF FifoNothingLost
<1>2. CASE /\ Contents # <<>> /\ stored' = stored
           /\ delivered' = Append(delivered, Head(Contents))
           /\ Contents' = Tail(Contents)
  <2>1. Append(delivered, Head(Contents)) \o Tail(Contents) = delivered \o Contents
    BY SMTT(30), <1>2, <1>t
  <2> QED BY <1>2, <2>1 DEF FifoNothingLost
<1> QED BY <1>0, <1>1, <1>2, Visible

-----------------------------------------------------------------------------
(* Wakeups.  A push makes its thread a looker, a signal replaces it by the *)
(* consumer it wakes, a pop uses one up; a timeout takes away none.        *)
LEMMA LookersFinite == IsFiniteSet(Lookers) /\ Cardinality(Lookers) \in Nat
<1>1. Lookers \in SUBSET Threads
  BY DEF Lookers
<1> QED BY <1>1, PcThreadsAssumption, FS_Subset, FS_CardinalityType

(* Every step keeps as many lookers as items while somebody is blocked. *)
LEMMA NextLookers ==
  TypeOK /\ HolderInside /\ EnoughLookers /\ [Next]_vars => EnoughLookers'
<1> SUFFICES ASSUME TypeOK, HolderInside, EnoughLookers, [Next]_vars
             PROVE  EnoughLookers'
  OBVIOUS
<1> DEFINE k == Cardinality(Lookers)
<1>t. /\ pc \in [Threads -> InMutex \cup {"idle", "lock", "wait"}]
      /\ op \in [Threads -> Ops \cup {"none"}]
      /\ mCond \subseteq Threads /\ timedout \subseteq Threads
      /\ mQueue \in Seq(Nat) /\ stored \in Nat
      /\ \A t \in Threads : /\ pc[t] \in {"push", "signal"} => op[t] = "put"
                            /\ pc[t] \in {"test", "wait", "front", "pop"} => op[t] \in {"get", "geto"}
  BY DEF TypeOK, Lock!TypeOK
<1>k. k \in Nat /\ Len(mQueue) \in Nat
  BY LookersFinite, <1>t
<1>w. /\ \A t \in mCond \cup timedout : pc[t] = "wait"
      /\ mCond \cap timedout = {}
  BY DEF HolderInside
<1> HIDE DEF k
<1> USE DEF Goto
<1>same. ASSUME Lookers' = Lookers, mQueue' = mQueue, mCond' # {} => mCond # {}
         PROVE  EnoughLookers'
  BY <1>same DEF EnoughLookers
<1>more. ASSUME NEW t, t \notin Lookers, Lookers' = Lookers \cup {t}, mQueue' = mQueue,
                mCond' # {} => mCond # {}
         PROVE  EnoughLookers'
  <2>1. Cardinality(Lookers') = k + 1
    BY <1>more, LookersFinite, FS_AddElement DEF k
  <2> QED BY <1>more, <1>k, <2>1 DEF EnoughLookers, k
<1>0. CASE UNCHANGED vars
  BY <1>0, <1>same DEF vars, Lookers
<1>a. ASSUME NEW t \in Threads, Call(t) PROVE EnoughLookers'
  <2>1. Lookers' = Lookers \/ (t \notin Lookers /\ Lookers' = Lookers \cup {t})
    BY <1>a, <1>t DEF Call, Lookers
  <2> QED BY <1>a, <2>1, <1>same, <1>more DEF Call
<1>b. ASSUME NEW t \in Threads, LockMutex(t) PROVE EnoughLookers'
  <2>1. /\ AfterLock(op[t]) \in {"push", "test", "unlock"}
        /\ AfterLock(op[t]) = "test" <=> op[t] \in {"get", "geto"}
    BY DEF AfterLock
  <2>2. Lookers' = Lookers
    BY <1>b, <1>t, <2>1 DEF LockMutex, Lock!lock, Lookers
  <2> QED BY <1>b, <2>2, <1>same DEF LockMutex, Lock!lock
<1>c. ASSUME NEW t \in Threads, Push(t) PROVE EnoughLookers'
  <2>1. t \notin Lookers /\ Lookers' = Lookers \cup {t}
    BY <1>c, <1>t DEF Push, Lookers
  <2>2. Cardinality(Lookers') = k + 1
    BY <2>1, LookersFinite, FS_AddElement DEF k
  <2>3. Len(mQueue') = Len(mQueue) + 1 /\ mCond' = mCond
    BY <1>c, <1>t DEF Push
  <2> QED BY <2>2, <2>3, <1>k DEF EnoughLookers, k
<1>d. ASSUME NEW t \in Threads, Signal(t) PROVE EnoughLookers'
  <2>1. CASE mCond = {}
    BY <1>d, <2>1 DEF Signal, Lock!signal, EnoughLookers
  <2>2. CASE mCond # {}
    <3>1. PICK w \in mCond : mCond' = mCond \ {w}
      BY <1>d, <2>2 DEF Signal, Lock!signal
    <3>2. pc[w] = "wait" /\ w \notin timedout /\ w \in Threads /\ w # t
      BY <1>d, <1>t, <1>w, <3>1 DEF Signal
    <3>3. /\ t \in Lookers /\ w \notin Lookers \ {t}
          /\ Lookers' = (Lookers \ {t}) \cup {w}
      BY <1>d, <1>t, <3>1, <3>2 DEF Signal, Lookers
    <3>4. /\ IsFiniteSet(Lookers \ {t})
          /\ Cardinality(Lookers \ {t}) = k - 1
      BY <3>3, LookersFinite, FS_RemoveElement DEF k
    <3>5. Cardinality((Lookers \ {t}) \cup {w}) = k - 1 + 1
      BY <3>3, <3>4, FS_AddElement
    <3> QED BY <1>d, <2>2, <3>3, <3>5, <1>k DEF Signal, EnoughLookers, k
  <2> QED BY <2>1, <2>2
<1>e. ASSUME NEW t \in Threads, Wait(t) PROVE EnoughLookers'
  <2>1. mQueue' = <<>>
    BY <1>e DEF Wait
  <2>2. Lookers' \in SUBSET Threads
    BY DEF Lookers
  <2>3. Cardinality(Lookers') \in Nat
    BY <2>2, PcThreadsAssumption, FS_Subset, FS_CardinalityType
  <2> QED BY <2>1, <2>3 DEF EnoughLookers
<1>f. ASSUME NEW t \in Threads, Relock(t) PROVE EnoughLookers'
  <2>1. Lookers' = Lookers
    BY <1>f, <1>t, <1>w DEF Relock, Lock!relock, Lock!lock, Lookers
  <2> QED BY <1>f, <2>1, <1>same DEF Relock, Lock!relock, Lock!lock
<1>m. ASSUME NEW t \in Threads, TestNonempty(t) PROVE EnoughLookers'
  <2>1. Lookers' = Lookers
    BY <1>m, <1>t DEF TestNonempty, Lookers
  <2> QED BY <1>m, <2>1, <1>same DEF TestNonempty
<1>l. ASSUME NEW t \in Threads, Front(t) PROVE EnoughLookers'
  <2>1. Lookers' = Lookers
    BY <1>l, <1>t DEF Front, Lookers
  <2> QED BY <1>l, <2>1, <1>same DEF Front
<1>g. ASSUME NEW t \in Threads, Pop(t) PROVE EnoughLookers'
  <2>1. t \in Lookers /\ Lookers' = Lookers \ {t}
    BY <1>g, <1>t DEF Pop, Lookers
  <2>2. Cardinality(Lookers') = k - 1
    BY <2>1, LookersFinite, FS_RemoveElement DEF k
  <2>3. Len(mQueue') = Len(mQueue) - 1 /\ mCond' = mCond
    BY <1>g, <1>t DEF Pop
  <2> QED BY <2>2, <2>3, <1>k DEF EnoughLookers, k
<1>h. ASSUME NEW t \in Threads, Unlock(t) PROVE EnoughLookers'
  <2>1. Lookers' = Lookers
    BY <1>h, <1>t DEF Unlock, Lock!unlock, Lookers
  <2> QED BY <1>h, <2>1, <1>same DEF Unlock, Lock!unlock
<1>i. ASSUME NEW t \in Threads, SpuriousWakeup(t) PROVE EnoughLookers'
  <2>1. t \notin Lookers /\ Lookers' = Lookers \cup {t}
    BY <1>i, <1>t, <1>w DEF SpuriousWakeup, Lock!wake, Lookers
  <2> QED BY <1>i, <2>1, <1>more DEF SpuriousWakeup, Lock!wake
<1>j. ASSUME NEW t \in Threads, Timeout(t) PROVE EnoughLookers'
  <2>1. Lookers' = Lookers
    BY <1>j, <1>t, <1>w DEF Timeout, Lock!wake, Lookers
  <2> QED BY <1>j, <2>1, <1>same DEF Timeout, Lock!wake
<1> QED
  BY <1>0, <1>a, <1>b, <1>c, <1>d, <1>e, <1>f, <1>g, <1>h, <1>i, <1>j, <1>l, <1>m
     DEF Next, Step

-----------------------------------------------------------------------------
(* The parts of QueueInv together are inductive. *)
LEMMA QueueInvariant == Spec => []QueueInv
<1>1. QueueInv /\ [Next]_vars => QueueInv'
  BY NextTypeOK, NextHolder, NextFifo, NextLookers DEF QueueInv
<1> QED BY <1>1, InitInv, PTL DEF Spec

(* The variables keep their types in every instance. *)
THEOREM Typing == Spec => []TypeOK
  BY QueueInvariant, PTL DEF QueueInv

(* Items leave in the order in which they came, none is lost and none is   *)
(* handed out twice, however many threads put, get and time out.           *)
THEOREM Order == Spec => []FifoNothingLost
  BY QueueInvariant, PTL DEF QueueInv

(* No signal is lost: while consumers sleep and the mutex is free, there   *)
(* are as many consumers about to look as there are items.                 *)
THEOREM WakeupsSuffice == Spec => []NoLostWakeup
<1>1. QueueInv => NoLostWakeup
  <2> SUFFICES ASSUME QueueInv, mCond # {}, Inside = {}
               PROVE  Len(mQueue) <=
                        Cardinality({t \in Threads :
                           /\ op[t] \in {"get", "geto"}
                           /\ \/ pc[t] = "lock"
                              \/ pc[t] = "wait" /\ t \notin mCond \cup timedout})
    BY DEF NoLostWakeup
  <2>1. Lookers = {t \in Threads :
                      /\ op[t] \in {"get", "geto"}
                      /\ \/ pc[t] = "lock"
                         \/ pc[t] = "wait" /\ t \notin mCond \cup timedout}
    BY DEF Lookers, QueueInv, TypeOK, Inside, InMutex
  <2> QED BY <2>1 DEF QueueInv, EnoughLookers
<1> QED BY <1>1, QueueInvariant, PTL

-----------------------------------------------------------------------------
(* The queue implements the atomic container: a push is a Store, a front() *)
(* is a Take, and no other step is visible to the callers.                 *)
THEOREM Atomic == Spec => ImplementsAtomicQueue
<1>1. Init => Abstract!Init
  BY DEF Init, Abstract!Init, Contents
<1>2. QueueInv /\ QueueInv' /\ [Next]_vars
      => [Abstract!Next]_<<Contents, stored, delivered, {}>>
  <2> SUFFICES ASSUME QueueInv, QueueInv', [Next]_vars
               PROVE  [Abstract!Next]_<<Contents, stored, delivered, {}>>
    OBVIOUS
  <2>0. CASE UNCHANGED <<Contents, stored, delivered>>
    BY <2>0
  <2>1. CASE /\ stored' = stored + 1 /\ delivered' = delivered
             /\ Contents' = Append(Contents, stored + 1)
    <3>1. Abstract!Store("put")
      BY <2>1 DEF Abstract!Store, Abstract!Inserted
    <3> QED BY <3>1 DEF Abstract!Next, Abstract!Puts
  <2>2. CASE /\ Contents # <<>> /\ stored' = stored
             /\ delivered' = Append(delivered, Head(Contents))
             /\ Contents' = Tail(Contents)
    <3>1. Abstract!Take("get")
      BY <2>2 DEF Abstract!Take, Abstract!Chosen, Abstract!Erased, Abstract!AtFront
    <3> QED BY <3>1 DEF Abstract!Next, Abstract!Takes
  <2> QED BY <2>0, <2>1, <2>2, Visible DEF QueueInv
<1> QED BY <1>1, <1>2, QueueInvariant, PTL DEF Spec, ImplementsAtomicQueue, Abstract!Spec
=============================================================================
