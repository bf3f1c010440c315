---------------------- MODULE SafeContainerByCondProofs ----------------------
(***************************************************************************)
(* Proofs about SafeContainerByCond, for any threads, any programs, either *)
(* container and any bound on the items.                                   *)
(*                                                                         *)
(* CondInv adds to the properties of the runs that an operation is in its  *)
(* thread's program, and says NoLostWakeup of every step: a store that has *)
(* signalled already counts for the item it is about to insert.            *)
(***************************************************************************)
EXTENDS SafeContainerByCond, SequenceTheorems, FiniteSetTheorems, TLAPS

(* A thread inside an operation is inside one of its program's. *)
OwnProgram == \A t \in Threads : /\ pc[t] # "idle" => op[t] \in Program[t]
                                 /\ pc[t] = "clear" => op[t] = "clear"

(* The consumers that are going to look at the container. *)
Awake == {t \in Threads : \/ pc[t] = "wait" /\ t \notin waiters
                          \/ pc[t] \in {"lock", "test", "read", "erase"} /\ op[t] \in Takes}

(* The stores that have signalled and not inserted yet: one at most. *)
Signalled == {t \in Threads : pc[t] = "insert"}

(* NoLostWakeup at every step, not only while the mutex is free. *)
EnoughAwake ==
    waiters # {} => Len(mContainer) + Cardinality(Signalled) <= Cardinality(Awake)

CondInv == /\ TypeOK
           /\ MutualExclusion
           /\ OwnProgram
           /\ NeverEmptyAtTake
           /\ EnoughAwake

-----------------------------------------------------------------------------
(* Storing an item. *)
LEMMA InsertedType ==
  ASSUME NEW c \in Seq(Nat), NEW o, NEW i \in Nat
  PROVE  Inserted(c, o, i) \in Seq(Nat) /\ Len(Inserted(c, o, i)) = Len(c) + 1
<1>1. CASE o = "push_front"
  <2>1. <<i>> \in Seq(Nat) /\ Len(<<i>>) = 1
    OBVIOUS
  <2>2. <<i>> \o c \in Seq(Nat) /\ Len(<<i>> \o c) = 1 + Len(c)
    BY <2>1
  <2> QED BY <1>1, <2>2 DEF Inserted
<1>2. CASE o # "push_front"
  BY <1>2 DEF Inserted
<1> QED BY <1>1, <1>2

(* Taking an item out of a nonempty container. *)
LEMMA ErasedType ==
  ASSUME NEW c \in Seq(Nat), c # <<>>, NEW o
  PROVE  /\ Chosen(c, o) \in Nat
         /\ Erased(c, o) \in Seq(Nat)
         /\ Len(Erased(c, o)) = Len(c) - 1
<1>1. Len(c) \in Nat /\ Len(c) > 0
  OBVIOUS
<1>2. Head(c) \in Nat /\ c[Len(c)] \in Nat
  BY <1>1
<1>3. Tail(c) \in Seq(Nat) /\ Len(Tail(c)) = Len(c) - 1
  BY <1>1
<1>4. PICK m \in Nat : m = Len(c) - 1
  BY <1>1
<1>5. SubSeq(c, 1, m) = [i \in 1 .. m |-> c[i]]
  BY <1>1, <1>4, SubSeqRestrict DEF Restrict
<1>6. SubSeq(c, 1, m) \in Seq(Nat) /\ Len(SubSeq(c, 1, m)) = m
  BY <1>1, <1>4, <1>5
<1>7. SubSeq(c, 1, Len(c) - 1) \in Seq(Nat) /\ Len(SubSeq(c, 1, Len(c) - 1)) = Len(c) - 1
  BY <1>4, <1>6
<1> QED BY <1>2, <1>3, <1>7 DEF Chosen, Erased

-----------------------------------------------------------------------------
(* Nobody is inside at the beginning, and nobody waits. *)
LEMMA InitInv == Init => CondInv
<1> SUFFICES ASSUME Init PROVE CondInv
  OBVIOUS
<1>1. TypeOK
  BY DEF Init, TypeOK, mCondLock!Init, mCondLock!TypeOK
<1>2. MutualExclusion /\ OwnProgram /\ NeverEmptyAtTake /\ EnoughAwake
  BY CondThreadsAssumption
     DEF Init, mCondLock!Init, MutualExclusion, OwnProgram, NeverEmptyAtTake, EnoughAwake,
         Inside, InMutex
<1> QED BY <1>1, <1>2 DEF CondInv

(* Every step keeps the types. *)
LEMMA NextTypeOK == TypeOK /\ [Next]_vars => TypeOK'
<1> SUFFICES ASSUME TypeOK, [Next]_vars PROVE TypeOK'
  OBVIOUS
<1> USE DEF TypeOK, Goto, InMutex, mCondLock!TypeOK
<1>0. CASE UNCHANGED vars
  BY <1>0 DEF vars
<1>a. ASSUME NEW t \in Threads, Call(t) PROVE TypeOK'
  <2>1. PICK o \in Program[t] : op' = [op EXCEPT ![t] = o]
    BY <1>a DEF Call
  <2>2. o \in Puts \cup Takes \cup {"clear"}
    BY <2>1, CondProgramAssumption DEF Callable
  <2> QED BY <1>a, <2>1, <2>2 DEF Call
<1>b. ASSUME NEW t \in Threads, Lock(t) PROVE TypeOK'
  <2>1. /\ AfterLock(op[t]) \in {"signal", "test", "clear"}
        /\ AfterLock(op[t]) = "signal" => op[t] \in Puts
        /\ AfterLock(op[t]) = "test" => op[t] \in Takes
    BY DEF AfterLock, Puts, Takes
  <2> QED BY <1>b, <2>1 DEF Lock, mCondLock!lock
<1>c. ASSUME NEW t \in Threads, Signal(t) PROVE TypeOK'
  BY <1>c DEF Signal, mCondLock!signal
<1>d. ASSUME NEW t \in Threads, Insert(t) PROVE TypeOK'
  <2>1. Inserted(mContainer, op[t], stored + 1) \in Seq(Nat)
    BY InsertedType
  <2> QED BY <1>d, <2>1 DEF Insert
<1>e. ASSUME NEW t \in Threads, TestNonempty(t) PROVE TypeOK'
  BY <1>e DEF TestNonempty
<1>f. ASSUME NEW t \in Threads, Wait(t) PROVE TypeOK'
  BY <1>f DEF Wait, mCondLock!wait
<1>g. ASSUME NEW t \in Threads, Relock(t) PROVE TypeOK'
  BY <1>g DEF Relock, mCondLock!relock, mCondLock!lock
<1>h. ASSUME NEW t \in Threads, Read(t) PROVE TypeOK'
  <2>1. Chosen(mContainer, op[t]) \in Nat
    BY <1>h, ErasedType DEF Read
  <2> QED BY <1>h, <2>1 DEF Read
<1>i. ASSUME NEW t \in Threads, Erase(t) PROVE TypeOK'
  <2>1. Erased(mContainer, op[t]) \in Seq(Nat)
    BY <1>i, ErasedType DEF Erase
  <2> QED BY <1>i, <2>1 DEF Erase
<1>j. ASSUME NEW t \in Threads, Clear(t) PROVE TypeOK'
  <2>1. {mContainer[i] : i \in DOMAIN mContainer} \subseteq Nat
    OBVIOUS
  <2>2. discarded' \in SUBSET Nat
    BY <1>j, <2>1 DEF Clear
  <2>3. <<>> \in Seq(Nat)
    OBVIOUS
  <2> QED BY <1>j, <2>2, <2>3 DEF Clear
<1>k. ASSUME NEW t \in Threads, Unlock(t) PROVE TypeOK'
  BY <1>k DEF Unlock, mCondLock!unlock
<1>l. ASSUME NEW t \in Threads, SpuriousWakeup(t) PROVE TypeOK'
  BY <1>l DEF SpuriousWakeup, mCondLock!wake
<1> QED
  BY <1>0, <1>a, <1>b, <1>c, <1>d, <1>e, <1>f, <1>g, <1>h, <1>i, <1>j, <1>k, <1>l
     DEF Next, Step

(* The lock, and whatever the holder of the mutex relies on.               *)
LEMMA NextExclusion ==
  TypeOK /\ MutualExclusion /\ OwnProgram /\ [Next]_vars => MutualExclusion' /\ OwnProgram'
<1> SUFFICES ASSUME TypeOK, MutualExclusion, OwnProgram, [Next]_vars
             PROVE  MutualExclusion' /\ OwnProgram'
  OBVIOUS
<1>t. /\ pc \in [Threads -> InMutex \cup {"idle", "lock", "wait"}]
      /\ op \in [Threads -> Puts \cup Takes \cup {"clear", "none"}]
      /\ waiters \subseteq Threads
  BY DEF TypeOK, mCondLock!TypeOK
<1> USE CondThreadsAssumption DEF MutualExclusion, OwnProgram, Inside, InMutex, Goto
<1>0. CASE UNCHANGED vars
  BY <1>0 DEF vars
<1>a. ASSUME NEW t \in Threads, Call(t) PROVE MutualExclusion' /\ OwnProgram'
  BY <1>a, <1>t DEF Call
<1>b. ASSUME NEW t \in Threads, Lock(t) PROVE MutualExclusion' /\ OwnProgram'
  <2>1. op[t] \in Callable
    BY <1>b, CondProgramAssumption DEF Lock
  <2>2. /\ AfterLock(op[t]) \in {"signal", "test", "clear"}
        /\ AfterLock(op[t]) = "clear" => op[t] = "clear"
    BY <2>1 DEF AfterLock, Callable, Puts, Takes
  <2> QED BY <1>b, <1>t, <2>2 DEF Lock, mCondLock!lock
<1>c. ASSUME NEW t \in Threads, Signal(t) PROVE MutualExclusion' /\ OwnProgram'
  BY <1>c, <1>t DEF Signal, mCondLock!signal
<1>d. ASSUME NEW t \in Threads, Insert(t) PROVE MutualExclusion' /\ OwnProgram'
  BY <1>d, <1>t DEF Insert
<1>e. ASSUME NEW t \in Threads, TestNonempty(t) PROVE MutualExclusion' /\ OwnProgram'
  BY <1>e, <1>t DEF TestNonempty
<1>f. ASSUME NEW t \in Threads, Wait(t) PROVE MutualExclusion' /\ OwnProgram'
  BY <1>f, <1>t DEF Wait, mCondLock!wait
<1>g. ASSUME NEW t \in Threads, Relock(t) PROVE MutualExclusion' /\ OwnProgram'
  BY <1>g, <1>t DEF Relock, mCondLock!relock, mCondLock!lock
<1>h. ASSUME NEW t \in Threads, Read(t) PROVE MutualExclusion' /\ OwnProgram'
  BY <1>h, <1>t DEF Read
<1>i. ASSUME NEW t \in Threads, Erase(t) PROVE MutualExclusion' /\ OwnProgram'
  BY <1>i, <1>t DEF Erase
<1>j. ASSUME NEW t \in Threads, Clear(t) PROVE MutualExclusion' /\ OwnProgram'
  BY <1>j, <1>t DEF Clear
<1>k. ASSUME NEW t \in Threads, Unlock(t) PROVE MutualExclusion' /\ OwnProgram'
  BY <1>k, <1>t DEF Unlock, mCondLock!unlock
<1>l. ASSUME NEW t \in Threads, SpuriousWakeup(t) PROVE MutualExclusion' /\ OwnProgram'
  BY <1>l, <1>t DEF SpuriousWakeup, mCondLock!wake
<1> QED
  BY <1>0, <1>a, <1>b, <1>c, <1>d, <1>e, <1>f, <1>g, <1>h, <1>i, <1>j, <1>k, <1>l
     DEF Next, Step

(* Only the holder of the mutex changes the container, so what a take has  *)
(* tested stays true until it erases.                                      *)
LEMMA NextNonempty ==
  TypeOK /\ MutualExclusion /\ NeverEmptyAtTake /\ [Next]_vars => NeverEmptyAtTake'
<1> SUFFICES ASSUME TypeOK, MutualExclusion, NeverEmptyAtTake, [Next]_vars
             PROVE  NeverEmptyAtTake'
  OBVIOUS
<1>t. /\ pc \in [Threads -> InMutex \cup {"idle", "lock", "wait"}]
      /\ mContainer \in Seq(Nat) /\ stored \in Nat
  BY DEF TypeOK
<1>m. \A t, u \in Threads : pc[t] \in InMutex /\ pc[u] \in InMutex => t = u
  BY DEF MutualExclusion, Inside
<1> USE DEF NeverEmptyAtTake, InMutex, Goto
<1>0. CASE UNCHANGED vars
  BY <1>0 DEF vars
<1>a. ASSUME NEW t \in Threads, Call(t) PROVE NeverEmptyAtTake'
  BY <1>a, <1>t DEF Call
<1>b. ASSUME NEW t \in Threads, Lock(t) PROVE NeverEmptyAtTake'
  <2>1. AfterLock(op[t]) \in {"signal", "test", "clear"}
    BY DEF AfterLock
  <2> QED BY <1>b, <1>t, <2>1 DEF Lock
<1>c. ASSUME NEW t \in Threads, Signal(t) PROVE NeverEmptyAtTake'
  BY <1>c, <1>t DEF Signal
<1>d. ASSUME NEW t \in Threads, Insert(t) PROVE NeverEmptyAtTake'
  <2>1. \A u \in Threads : pc'[u] \notin {"read", "erase"}
    BY <1>d, <1>t, <1>m DEF Insert
  <2> QED BY <2>1
<1>e. ASSUME NEW t \in Threads, TestNonempty(t) PROVE NeverEmptyAtTake'
  BY <1>e, <1>t DEF TestNonempty
<1>f. ASSUME NEW t \in Threads, Wait(t) PROVE NeverEmptyAtTake'
  BY <1>f, <1>t DEF Wait
<1>g. ASSUME NEW t \in Threads, Relock(t) PROVE NeverEmptyAtTake'
  BY <1>g, <1>t DEF Relock
<1>h. ASSUME NEW t \in Threads, Read(t) PROVE NeverEmptyAtTake'
  BY <1>h, <1>t DEF Read
<1>i. ASSUME NEW t \in Threads, Erase(t) PROVE NeverEmptyAtTake'
  <2>1. \A u \in Threads : pc'[u] \notin {"read", "erase"}
    BY <1>i, <1>t, <1>m DEF Erase
  <2> QED BY <2>1
<1>j. ASSUME NEW t \in Threads, Clear(t) PROVE NeverEmptyAtTake'
  <2>1. \A u \in Threads : pc'[u] \notin {"read", "erase"}
    BY <1>j, <1>t, <1>m DEF Clear
  <2> QED BY <2>1
<1>k. ASSUME NEW t \in Threads, Unlock(t) PROVE NeverEmptyAtTake'
  BY <1>k, <1>t DEF Unlock
<1>l. ASSUME NEW t \in Threads, SpuriousWakeup(t) PROVE NeverEmptyAtTake'
  BY <1>l, <1>t DEF SpuriousWakeup
<1> QED
  BY <1>0, <1>a, <1>b, <1>c, <1>d, <1>e, <1>f, <1>g, <1>h, <1>i, <1>j, <1>k, <1>l
     DEF Next, Step

-----------------------------------------------------------------------------
(* The sets of threads that are counted are finite. *)
LEMMA ThreadSetsFinite ==
  /\ IsFiniteSet(Awake) /\ Cardinality(Awake) \in Nat
  /\ IsFiniteSet(Signalled) /\ Cardinality(Signalled) \in Nat
<1>1. Awake \in SUBSET Threads /\ Signalled \in SUBSET Threads
  BY DEF Awake, Signalled
<1>2. IsFiniteSet(Awake) /\ IsFiniteSet(Signalled)
  BY <1>1, CondThreadsAssumption, FS_Subset
<1> QED BY <1>2, FS_CardinalityType

(* Wakeups.  A signal wakes a consumer for the item to be inserted, an     *)
(* insertion turns the announced item into a stored one, an erasing        *)
(* consumer takes one away, and a clear takes them all.                    *)
LEMMA NextAwake ==
  TypeOK /\ MutualExclusion /\ EnoughAwake /\ [Next]_vars => EnoughAwake'
<1> SUFFICES ASSUME TypeOK, MutualExclusion, EnoughAwake, [Next]_vars
             PROVE  EnoughAwake'
  OBVIOUS
<1> DEFINE k == Cardinality(Awake)
           n == Cardinality(Signalled)
<1>t. /\ pc \in [Threads -> InMutex \cup {"idle", "lock", "wait"}]
      /\ op \in [Threads -> Puts \cup Takes \cup {"clear", "none"}]
      /\ waiters \subseteq Threads
      /\ mContainer \in Seq(Nat) /\ stored \in Nat
      /\ \A t \in Threads : /\ pc[t] \in {"signal", "insert"} => op[t] \in Puts
                            /\ pc[t] \in {"test", "wait", "read", "erase"} => op[t] \in Takes
  BY DEF TypeOK, mCondLock!TypeOK
<1>d. Puts \cap Takes = {} /\ "clear" \notin Takes
  BY DEF Puts, Takes
<1>k. k \in Nat /\ n \in Nat /\ Len(mContainer) \in Nat
  BY ThreadSetsFinite, <1>t
<1>f. /\ IsFiniteSet(Awake)' /\ Cardinality(Awake)' \in Nat
      /\ IsFiniteSet(Signalled)' /\ Cardinality(Signalled)' \in Nat
  <2>1. Awake' \in SUBSET Threads /\ Signalled' \in SUBSET Threads
    BY DEF Awake, Signalled
  <2>2. IsFiniteSet(Awake') /\ IsFiniteSet(Signalled')
    BY <2>1, CondThreadsAssumption, FS_Subset
  <2> QED BY <2>2, FS_CardinalityType
<1>w. \A t \in waiters : pc[t] = "wait"
  BY DEF MutualExclusion
<1>m. \A t, u \in Threads : pc[t] \in InMutex /\ pc[u] \in InMutex => t = u
  BY DEF MutualExclusion, Inside
<1>q. waiters # {} => Len(mContainer) + n <= k
  BY DEF EnoughAwake
<1> HIDE DEF k, n
<1> USE DEF Goto
<1>same. ASSUME Awake' = Awake, Signalled' = Signalled, mContainer' = mContainer,
                waiters' # {} => waiters # {}
         PROVE  EnoughAwake'
  BY <1>same DEF EnoughAwake
<1>more. ASSUME NEW t, t \notin Awake, Awake' = Awake \cup {t}, Signalled' = Signalled,
                mContainer' = mContainer, waiters' # {} => waiters # {}
         PROVE  EnoughAwake'
  <2>1. Cardinality(Awake') = k + 1
    BY <1>more, ThreadSetsFinite, FS_AddElement DEF k
  <2> QED BY <1>more, <1>k, <1>q, <2>1 DEF EnoughAwake, n
<1>0. CASE UNCHANGED vars
  BY <1>0, <1>same DEF vars, Awake, Signalled
<1>a. ASSUME NEW t \in Threads, Call(t) PROVE EnoughAwake'
  <2>1. Awake' = Awake \/ (t \notin Awake /\ Awake' = Awake \cup {t})
    BY <1>a, <1>t DEF Call, Awake
  <2>2. Signalled' = Signalled
    BY <1>a, <1>t DEF Call, Signalled
  <2> QED BY <1>a, <2>1, <2>2, <1>same, <1>more DEF Call
<1>b. ASSUME NEW t \in Threads, Lock(t) PROVE EnoughAwake'
  <2>1. /\ AfterLock(op[t]) \in {"signal", "test", "clear"}
        /\ AfterLock(op[t]) = "test" <=> op[t] \in Takes
    BY <1>d DEF AfterLock
  <2>2. Awake' = Awake /\ Signalled' = Signalled
    BY <1>b, <1>t, <2>1 DEF Lock, mCondLock!lock, Awake, Signalled
  <2> QED BY <1>b, <2>2, <1>same DEF Lock, mCondLock!lock
<1>c. ASSUME NEW t \in Threads, Signal(t) PROVE EnoughAwake'
  <2>1. CASE waiters = {}
    BY <1>c, <2>1 DEF Signal, mCondLock!signal, EnoughAwake
  <2>2. CASE waiters # {}
    <3>1. PICK w \in waiters : waiters' = waiters \ {w}
      BY <1>c, <2>2 DEF Signal, mCondLock!signal
    <3>2. pc[w] = "wait" /\ w \in Threads /\ w # t
      BY <1>c, <1>t, <1>w, <3>1 DEF Signal
    <3>3. w \notin Awake /\ Awake' = Awake \cup {w}
      BY <1>c, <1>t, <1>d, <3>1, <3>2 DEF Signal, Awake
    <3>4. t \notin Signalled /\ Signalled' = Signalled \cup {t}
      BY <1>c, <1>t DEF Signal, Signalled
    <3>5. Cardinality(Awake') = k + 1 /\ Cardinality(Signalled') = n + 1
      BY <3>3, <3>4, ThreadSetsFinite, FS_AddElement DEF k, n
    <3>6. mContainer' = mContainer
      BY <1>c DEF Signal
    <3> QED BY <2>2, <3>5, <3>6, <1>k, <1>q DEF EnoughAwake
  <2> QED BY <2>1, <2>2
<1>e. ASSUME NEW t \in Threads, Insert(t) PROVE EnoughAwake'
  <2>1. t \in Signalled /\ Signalled' = Signalled \ {t}
    BY <1>e, <1>t DEF Insert, Signalled
  <2>2. Awake' = Awake
    BY <1>e, <1>t, <1>d DEF Insert, Awake
  <2>3. Cardinality(Signalled') = n - 1
    BY <2>1, ThreadSetsFinite, FS_RemoveElement DEF n
  <2>4. Len(mContainer') = Len(mContainer) + 1 /\ waiters' = waiters
    BY <1>e, <1>t, InsertedType DEF Insert
  <2> QED BY <2>2, <2>3, <2>4, <1>k, <1>q DEF EnoughAwake, k
<1>g. ASSUME NEW t \in Threads, TestNonempty(t) PROVE EnoughAwake'
  <2>1. Awake' = Awake /\ Signalled' = Signalled
    BY <1>g, <1>t DEF TestNonempty, Awake, Signalled
  <2> QED BY <1>g, <2>1, <1>same DEF TestNonempty
<1>h. ASSUME NEW t \in Threads, Wait(t) PROVE EnoughAwake'
  <2>1. Signalled = {} /\ Signalled' = Signalled
    BY <1>h, <1>t, <1>m DEF Wait, Signalled, InMutex
  <2>2. Cardinality(Signalled') = 0 /\ Len(mContainer') = 0
    BY <1>h, <2>1, FS_EmptySet DEF Wait
  <2> QED BY <2>2, <1>f DEF EnoughAwake
<1>i. ASSUME NEW t \in Threads, Relock(t) PROVE EnoughAwake'
  <2>1. Awake' = Awake /\ Signalled' = Signalled
    BY <1>i, <1>t DEF Relock, mCondLock!relock, mCondLock!lock, Awake, Signalled
  <2> QED BY <1>i, <2>1, <1>same DEF Relock, mCondLock!relock, mCondLock!lock
<1>j. ASSUME NEW t \in Threads, Read(t) PROVE EnoughAwake'
  <2>1. Awake' = Awake /\ Signalled' = Signalled
    BY <1>j, <1>t DEF Read, Awake, Signalled
  <2> QED BY <1>j, <2>1, <1>same DEF Read
<1>l. ASSUME NEW t \in Threads, Erase(t) PROVE EnoughAwake'
  <2>1. /\ t \in Awake /\ Awake' = Awake \ {t}
        /\ Signalled' = Signalled
    BY <1>l, <1>t DEF Erase, Awake, Signalled
  <2>2. Cardinality(Awake') = k - 1
    BY <2>1, ThreadSetsFinite, FS_RemoveElement DEF k
  <2>3. Len(mContainer') = Len(mContainer) - 1 /\ waiters' = waiters
    BY <1>l, <1>t, ErasedType DEF Erase
  <2> QED BY <2>1, <2>2, <2>3, <1>k, <1>q DEF EnoughAwake, n
<1>o. ASSUME NEW t \in Threads, Clear(t) PROVE EnoughAwake'
  <2>1. Signalled = {} /\ Signalled' = Signalled
    BY <1>o, <1>t, <1>m DEF Clear, Signalled, InMutex
  <2>2. Cardinality(Signalled') = 0 /\ Len(mContainer') = 0
    BY <1>o, <2>1, FS_EmptySet DEF Clear
  <2> QED BY <2>2, <1>f DEF EnoughAwake
<1>p. ASSUME NEW t \in Threads, Unlock(t) PROVE EnoughAwake'
  <2>1. Awake' = Awake /\ Signalled' = Signalled
    BY <1>p, <1>t DEF Unlock, mCondLock!unlock, Awake, Signalled
  <2> QED BY <1>p, <2>1, <1>same DEF Unlock, mCondLock!unlock
<1>s. ASSUME NEW t \in Threads, SpuriousWakeup(t) PROVE EnoughAwake'
  <2>1. /\ t \notin Awake /\ Awake' = Awake \cup {t}
        /\ Signalled' = Signalled
    BY <1>s, <1>t DEF SpuriousWakeup, mCondLock!wake, Awake, Signalled
  <2> QED BY <1>s, <2>1, <1>more DEF SpuriousWakeup, mCondLock!wake
<1> QED
  BY <1>0, <1>a, <1>b, <1>c, <1>e, <1>g, <1>h, <1>i, <1>j, <1>l, <1>o, <1>p, <1>s
     DEF Next, Step

-----------------------------------------------------------------------------
(* The parts of CondInv together are inductive. *)
LEMMA CondInvariant == Spec => []CondInv
<1>1. CondInv /\ [Next]_vars => CondInv'
  BY NextTypeOK, NextExclusion, NextNonempty, NextAwake DEF CondInv
<1> QED BY <1>1, InitInv, PTL DEF Spec

(* The variables keep their types in every instance. *)
THEOREM Typing == Spec => []TypeOK
  BY CondInvariant, PTL DEF CondInv

(* One thread at a time is past lock(), however many there are.            *)
THEOREM Exclusion == Spec => []MutualExclusion
  BY CondInvariant, PTL DEF CondInv

(* No take ever meets an empty container after its wait.                   *)
THEOREM NothingReadFromEmpty == Spec => []NeverEmptyAtTake
  BY CondInvariant, PTL DEF CondInv

(* No wakeup is lost, though the signal comes before the item.             *)
THEOREM WakeupsSuffice == Spec => []NoLostWakeup
<1>1. CondInv => NoLostWakeup
  <2> SUFFICES ASSUME CondInv, waiters # {}, Inside = {}
               PROVE  Len(mContainer) <= Cardinality(Awake)
    BY DEF NoLostWakeup, Awake
  <2>1. Signalled = {}
    BY DEF Signalled, Inside, InMutex
  <2>2. Cardinality(Signalled) = 0
    BY <2>1, FS_EmptySet
  <2>3. Len(mContainer) \in Nat
    BY DEF CondInv, TypeOK
  <2> QED BY <2>2, <2>3 DEF CondInv, EnoughAwake
<1> QED BY <1>1, CondInvariant, PTL

-----------------------------------------------------------------------------
(* At most one thread is between its reading and its erasing, so what the  *)
(* callers see is well defined.                                            *)
LEMMA ContentsAre ==
  ASSUME MutualExclusion, NEW t \in Threads, pc[t] \in InMutex
  PROVE  Contents = IF pc[t] = "erase" THEN Erased(mContainer, op[t]) ELSE mContainer
<1>1. Erasing = IF pc[t] = "erase" THEN {t} ELSE {}
  BY DEF MutualExclusion, Inside, InMutex, Erasing
<1>2. (CHOOSE u \in {t} : TRUE) = t
  OBVIOUS
<1> QED BY <1>1, <1>2 DEF Contents

(* The same of the state after a step. *)
LEMMA ContentsWillBe ==
  ASSUME MutualExclusion', NEW t \in Threads, pc'[t] \in InMutex
  PROVE  Contents' = IF pc'[t] = "erase" THEN Erased(mContainer', op'[t]) ELSE mContainer'
<1>1. Erasing' = IF pc'[t] = "erase" THEN {t} ELSE {}
  BY DEF MutualExclusion, Inside, InMutex, Erasing
<1>2. (CHOOSE u \in {t} : TRUE) = t
  OBVIOUS
<1> QED BY <1>1, <1>2 DEF Contents

(* The wrapper implements the atomic container: an insertion is a Store, a *)
(* reading is a Take, clear is a Clear of everything, and no other step is *)
(* visible to the callers.                                                 *)
THEOREM Atomic == Spec => ImplementsAtomicContainer
<1> DEFINE avars == <<Contents, stored, delivered, discarded>>
<1>1. Init => Abstract!Init
  BY DEF Init, Abstract!Init, Contents, Erasing
<1>2. CondInv /\ CondInv' /\ [Next]_vars => [Abstract!Next]_avars
  <2> SUFFICES ASSUME CondInv, CondInv', [Next]_vars PROVE [Abstract!Next]_avars
    OBVIOUS
  <2>t. /\ pc \in [Threads -> InMutex \cup {"idle", "lock", "wait"}]
        /\ op \in [Threads -> Puts \cup Takes \cup {"clear", "none"}]
        /\ mContainer \in Seq(Nat)
        /\ \A t \in Threads : /\ pc[t] = "insert" => op[t] \in Puts
                              /\ pc[t] \in {"read", "erase"} => op[t] \in Takes
    BY DEF CondInv, TypeOK
  <2>m. MutualExclusion /\ MutualExclusion'
    BY DEF CondInv
  <2>o. \A t \in Threads : pc[t] # "idle" => op[t] \in UNION {Program[u] : u \in Threads}
    BY DEF CondInv, OwnProgram
  <2> USE DEF Goto
  <2>same. ASSUME mContainer' = mContainer, Erasing' = Erasing,
                  \A u \in Threads : pc[u] = "erase" => op'[u] = op[u]
           PROVE  Contents' = Contents
    <3>1. CASE Erasing = {}
      BY <3>1, <2>same DEF Contents
    <3>2. CASE Erasing # {}
      <4>1. PICK u \in Threads : pc[u] = "erase"
        BY <3>2 DEF Erasing
      <4>2. pc'[u] = "erase"
        BY <4>1, <2>same DEF Erasing
      <4> QED BY <4>1, <4>2, <2>same, <2>m, ContentsAre, ContentsWillBe DEF InMutex
    <3> QED BY <3>1, <3>2
  <2>0. CASE UNCHANGED vars
    BY <2>0 DEF vars, Contents, Erasing
  <2>1. ASSUME NEW t \in Threads, Insert(t) PROVE Abstract!Next
    <3>1. Contents = mContainer /\ Contents' = mContainer'
      BY <2>1, <2>t, <2>m, ContentsAre, ContentsWillBe DEF Insert, InMutex
    <3>2. Abstract!Store(op[t])
      BY <2>1, <3>1 DEF Insert, Abstract!Store, Abstract!Inserted, Inserted
    <3>3. op[t] \in Puts \cap UNION {Program[u] : u \in Threads}
      BY <2>1, <2>t, <2>o DEF Insert
    <3> QED BY <3>2, <3>3 DEF Abstract!Next, Abstract!Puts, Puts
  <2>2. ASSUME NEW t \in Threads, Read(t) PROVE Abstract!Next
    <3>1. Contents = mContainer /\ Contents' = Erased(mContainer, op[t])
      BY <2>2, <2>t, <2>m, ContentsAre, ContentsWillBe DEF Read, InMutex
    <3>2. Abstract!Take(op[t])
      BY <2>2, <3>1 DEF Read, Abstract!Take, Abstract!Chosen, Chosen, Abstract!Erased, Erased,
                        Abstract!AtFront, AtFront
    <3>3. op[t] \in Takes \cap UNION {Program[u] : u \in Threads}
      BY <2>2, <2>t, <2>o DEF Read
    <3> QED BY <3>2, <3>3 DEF Abstract!Next, Abstract!Takes, Takes
  <2>3. ASSUME NEW t \in Threads, Clear(t) PROVE [Abstract!Next]_avars
    <3>1. Contents = mContainer /\ Contents' = <<>>
      BY <2>3, <2>t, <2>m, ContentsAre, ContentsWillBe DEF Clear, InMutex
    <3>2. CASE mContainer = <<>>
      <4>1. {mContainer[i] : i \in DOMAIN mContainer} = {}
        BY <3>2
      <4> QED BY <2>3, <3>1, <3>2, <4>1 DEF Clear
    <3>3. CASE mContainer # <<>>
      <4>1. /\ Len(mContainer) \in Nat /\ 1 \in 1 .. Len(mContainer)
            /\ DOMAIN mContainer = 1 .. Len(mContainer)
        BY <3>3, <2>t
      <4>2. SubSeq(mContainer, 1, 1 - 1) = <<>>
        BY SubSeqEmpty
      <4>3. Abstract!Clear
        BY <2>3, <3>1, <4>1, <4>2 DEF Clear, Abstract!Clear
      <4>4. "clear" \in UNION {Program[u] : u \in Threads}
        BY <2>3, <2>o DEF Clear, CondInv, OwnProgram
      <4> QED BY <4>3, <4>4 DEF Abstract!Next
    <3> QED BY <3>2, <3>3
  <2>4. ASSUME NEW t \in Threads, Erase(t) PROVE UNCHANGED avars
    BY <2>4, <2>t, <2>m, ContentsAre, ContentsWillBe DEF Erase, InMutex
  <2>5. ASSUME NEW t \in Threads,
               \/ Call(t) \/ Lock(t) \/ Signal(t) \/ TestNonempty(t) \/ Wait(t)
               \/ Relock(t) \/ Unlock(t) \/ SpuriousWakeup(t)
        PROVE  UNCHANGED avars
    <3>0. AfterLock(op[t]) # "erase"
      BY DEF AfterLock
    <3>1. Erasing' = Erasing /\ mContainer' = mContainer
      BY <2>5, <2>t, <3>0
         DEF Call, Lock, Signal, TestNonempty, Wait, Relock, Unlock, SpuriousWakeup, Erasing
    <3>2. \A u \in Threads : pc[u] = "erase" => op'[u] = op[u]
      BY <2>5, <2>t
         DEF Call, Lock, Signal, TestNonempty, Wait, Relock, Unlock, SpuriousWakeup
    <3>3. UNCHANGED <<stored, delivered, discarded>>
      BY <2>5 DEF Call, Lock, Signal, TestNonempty, Wait, Relock, Unlock, SpuriousWakeup
    <3> QED BY <3>1, <3>2, <3>3, <2>same
  <2> QED
    BY <2>0, <2>1, <2>2, <2>3, <2>4, <2>5 DEF Next, Step
<1> QED BY <1>1, <1>2, CondInvariant, PTL DEF Spec, ImplementsAtomicContainer, Abstract!Spec
=============================================================================
