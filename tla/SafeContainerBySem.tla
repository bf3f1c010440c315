------------------------- MODULE SafeContainerBySem -------------------------
(***************************************************************************)
(* SafeContainerBySem.h: a container made thread-safe with two POSIX       *)
(* semaphores.  mSizeSem counts the items nobody has claimed, mMutexSem is *)
(* a binary semaphore around the container.  A thread takes one step per   *)
(* semaphore call and per access to the container; pc says which step is   *)
(* next inside the operation op it has called.                             *)
(*                                                                         *)
(* The semaphore calls of ThreadSem.cpp never fail here (an interrupted    *)
(* sem_wait, whose result the wrapper ignores, is not modelled).           *)
(***************************************************************************)
EXTENDS Container, FiniteSets, Functions

CONSTANTS Threads,            \* the client threads
          Program,            \* Program[t]: the operations thread t may call
          MaxItems            \* bound on the number of items ever stored

ASSUME ThreadsAssumption == IsFiniteSet(Threads)
ASSUME ProgramAssumption == Program \in [Threads -> SUBSET Callable]
ASSUME MaxItemsAssumption == MaxItems \in Nat

VARIABLES mSizeSem,           \* value of the semaphore counting the items
          mMutexSem,          \* value of the semaphore guarding mContainer
          mContainer,         \* the items, a sequence of numbers
          pc,                 \* pc[t]: next step of thread t
          op,                 \* op[t]: the operation t is in, or called last
          value,              \* value[t]: clear's loop counter
          stored,             \* how many items were stored: the last one's number
          delivered,          \* the items handed to callers, in order
          discarded           \* the items erased by clear

vars == <<mSizeSem, mMutexSem, mContainer, pc, op, value,
          stored, delivered, discarded>>

Init == /\ mSizeSem = 0
        /\ mMutexSem = 1
        /\ mContainer = <<>>
        /\ pc = [t \in Threads |-> "idle"]
        /\ op = [t \in Threads |-> "none"]
        /\ value = [t \in Threads |-> 0]
        /\ stored = 0
        /\ delivered = <<>>
        /\ discarded = {}

Goto(t, from, to) == pc[t] = from /\ pc' = [pc EXCEPT ![t] = to]

(***************************************************************************)
(* The operations.  A client calls one of its program's operations: the    *)
(* takes wait for an item first, everything else for the mutex.            *)
(***************************************************************************)
Call(t) == \E o \in Program[t] :
    /\ o \in Puts => stored < MaxItems
    /\ Goto(t, "idle", IF o \in Takes THEN "waitSize" ELSE "waitMutex")
    /\ op' = [op EXCEPT ![t] = o]
    /\ UNCHANGED <<mSizeSem, mMutexSem, mContainer, value,
                   stored, delivered, discarded>>

(* A take that asks for the mutex before it has claimed an item. *)
UnclaimedWaitSize(t) ==
    /\ Goto(t, "waitSize", "waitMutex")
    /\ UNCHANGED <<mSizeSem, mMutexSem, mContainer, op, value,
                   stored, delivered, discarded>>

(* mSizeSem.wait() of get, pop_back and pop_front. *)
WaitSize(t) ==
    /\ Goto(t, "waitSize", "waitMutex")
    /\ mSizeSem > 0
    /\ mSizeSem' = mSizeSem - 1
    /\ UNCHANGED <<mMutexSem, mContainer, op, value, stored, delivered, discarded>>

(* mMutexSem.wait(), on the way to the operation's own work. *)
AfterMutex(o) == CASE o \in Puts    -> "insert"
                   [] o \in Takes   -> "read"
                   [] OTHER         -> "getValue"

(* A mutex that everybody passes. *)
OpenWaitMutex(t) ==
    /\ Goto(t, "waitMutex", AfterMutex(op[t]))
    /\ mMutexSem > 0
    /\ UNCHANGED <<mSizeSem, mMutexSem, mContainer, op, value,
                   stored, delivered, discarded>>

WaitMutex(t) ==
    /\ Goto(t, "waitMutex", AfterMutex(op[t]))
    /\ mMutexSem > 0
    /\ mMutexSem' = mMutexSem - 1
    /\ UNCHANGED <<mSizeSem, mContainer, op, value, stored, delivered, discarded>>

(* mContainer.put/push_back/push_front(item). *)
Insert(t) ==
    /\ Goto(t, "insert", "postSize")
    /\ stored' = stored + 1
    /\ mContainer' = Inserted(mContainer, op[t], stored + 1)
    /\ UNCHANGED <<mSizeSem, mMutexSem, op, value, delivered, discarded>>

(* A store that forgets mSizeSem.post(). *)
ForgottenPostSize(t) ==
    /\ Goto(t, "postSize", "postMutex")
    /\ UNCHANGED <<mSizeSem, mMutexSem, mContainer, op, value,
                   stored, delivered, discarded>>

(* A store that returns without mMutexSem.post(). *)
EarlyReturn(t) ==
    /\ Goto(t, "postSize", "idle")
    /\ mSizeSem' = mSizeSem + 1
    /\ UNCHANGED <<mMutexSem, mContainer, op, value, stored, delivered, discarded>>

(* mSizeSem.post(). *)
PostSize(t) ==
    /\ Goto(t, "postSize", "postMutex")
    /\ mSizeSem' = mSizeSem + 1
    /\ UNCHANGED <<mMutexSem, mContainer, op, value, stored, delivered, discarded>>

(* A take copies the item out and then erases it (Deque.h:79-85, 96-102,   *)
(* 113-119).  Both are undefined on an empty container: no step is defined *)
(* there and NeverEmptyAtTake says that no thread gets there.              *)
Read(t) ==
    /\ Goto(t, "read", "erase")
    /\ mContainer # <<>>
    /\ delivered' = Append(delivered, Chosen(mContainer, op[t]))
    /\ UNCHANGED <<mSizeSem, mMutexSem, mContainer, op, value, stored, discarded>>

(* A take that erases the front whatever it has read. *)
FrontErase(t) ==
    /\ Goto(t, "erase", "postMutex")
    /\ mContainer # <<>>
    /\ mContainer' = Tail(mContainer)
    /\ UNCHANGED <<mSizeSem, mMutexSem, op, value, stored, delivered, discarded>>

Erase(t) ==
    /\ Goto(t, "erase", "postMutex")
    /\ mContainer # <<>>
    /\ mContainer' = Erased(mContainer, op[t])
    /\ UNCHANGED <<mSizeSem, mMutexSem, op, value, stored, delivered, discarded>>

(* clear() reads the number of unclaimed items once ...  *)
GetValue(t) ==
    /\ Goto(t, "getValue", IF mSizeSem = 0 THEN "postMutex" ELSE "clearWait")
    /\ value' = [value EXCEPT ![t] = mSizeSem]
    /\ UNCHANGED <<mSizeSem, mMutexSem, mContainer, op, stored, delivered, discarded>>

(* ... and claims and erases that many items, keeping the mutex. *)
ClearWait(t) ==
    /\ Goto(t, "clearWait", "clearPop")
    /\ mSizeSem > 0
    /\ mSizeSem' = mSizeSem - 1
    /\ UNCHANGED <<mMutexSem, mContainer, op, value, stored, delivered, discarded>>

ClearPop(t) ==
    /\ Goto(t, "clearPop", IF value[t] = 1 THEN "postMutex" ELSE "clearWait")
    /\ mContainer # <<>>
    /\ discarded' = discarded \cup {Chosen(mContainer, "pop_back")}
    /\ mContainer' = Erased(mContainer, "pop_back")
    /\ value' = [value EXCEPT ![t] = @ - 1]
    /\ UNCHANGED <<mSizeSem, mMutexSem, op, stored, delivered>>

(* mMutexSem.post(), and the operation returns. *)
PostMutex(t) ==
    /\ Goto(t, "postMutex", "idle")
    /\ mMutexSem' = mMutexSem + 1
    /\ UNCHANGED <<mSizeSem, mContainer, op, value, stored, delivered, discarded>>

(* The steps of an operation that has been called. *)
Step(t) == \/ WaitSize(t)
           \/ WaitMutex(t)
           \/ Insert(t)
           \/ PostSize(t)
           \/ Read(t)
           \/ Erase(t)
           \/ GetValue(t)
           \/ ClearWait(t)
           \/ ClearPop(t)
           \/ PostMutex(t)

Next == \E t \in Threads : Call(t) \/ Step(t)

Spec == Init /\ [][Next]_vars

(* A thread that can run is eventually scheduled; a client need not call. *)
FairSpec == Spec /\ \A t \in Threads : WF_vars(Step(t))
-----------------------------------------------------------------------------
InMutex == {"insert", "postSize", "read", "erase", "getValue",
            "clearWait", "clearPop", "postMutex"}

(* Threads between mMutexSem.wait() and mMutexSem.post(). *)
Inside == {t \in Threads : pc[t] \in InMutex}

(* Threads that have claimed an item and not yet erased it. *)
Claims == {t \in Threads : \/ pc[t] = "waitMutex" /\ op[t] \in Takes
                           \/ pc[t] \in {"read", "erase", "clearPop"}}

(* Threads that have stored an item and not yet counted it. *)
Uncounted == {t \in Threads : pc[t] = "postSize"}

Erasing == {t \in Threads : pc[t] = "erase"}

(* The container as its callers see it: an item is gone once it is read. *)
Contents == IF Erasing = {} THEN mContainer
            ELSE Erased(mContainer, op[CHOOSE t \in Erasing : TRUE])

TypeOK ==
    /\ mSizeSem \in Nat
    /\ mMutexSem \in {0, 1}
    /\ mContainer \in Seq(Nat)
    /\ pc \in [Threads -> InMutex \cup {"idle", "waitSize", "waitMutex"}]
    /\ op \in [Threads -> Puts \cup Takes \cup {"clear", "none"}]
    /\ value \in [Threads -> Nat]
    /\ stored \in Nat
    /\ delivered \in Seq(Nat)
    /\ discarded \in SUBSET Nat

(* mMutexSem admits one thread at a time to the container, and is free     *)
(* exactly when nobody is inside.                                          *)
MutualExclusion ==
    /\ \A t, u \in Inside : t = u
    /\ mMutexSem = 1 <=> Inside = {}

(* The two semaphores and the container agree at every step: an item is    *)
(* unclaimed, claimed by one thread, or about to be counted.               *)
TokensMatchItems ==
    Len(mContainer) = mSizeSem + Cardinality(Claims) + Cardinality(Uncounted)

(* No take, and no turn of clear's loop, ever reads the front or the back  *)
(* of an empty container (undefined behaviour in Deque.h and Vector.h).    *)
NeverEmptyAtTake ==
    \A t \in Threads : pc[t] \in {"read", "erase", "clearPop"} => mContainer # <<>>

(* Every item stored is still in the container, or was handed to exactly   *)
(* one caller, or was discarded by clear: none is lost, none is handed out *)
(* twice.  An item being erased has been delivered already.                *)
ExactlyOnce ==
    LET kept == Range(Contents)
    IN  /\ kept \cup Range(delivered) \cup discarded = 1 .. stored
        /\ kept \cap Range(delivered) = {}
        /\ kept \cap discarded = {}
        /\ Range(delivered) \cap discarded = {}
        /\ Len(delivered) = Cardinality(Range(delivered))

(* The wrapper is the atomic container of AbstractContainer: threads       *)
(* between two of its steps are never seen by other callers.               *)
Abstract == INSTANCE AbstractContainer
            WITH contents <- Contents, Offered <- UNION {Program[t] : t \in Threads}

ImplementsAtomicContainer == Abstract!Spec

(* A clear() that has claimed fewer items than it set out to claim finds   *)
(* none left, and holds the mutex without which no store can count one.    *)
ClearBlocked == \E t \in Threads : pc[t] = "clearWait" /\ mSizeSem = 0

(* The mutex is always released again ... *)
MutexReleased == mMutexSem = 0 ~> mMutexSem = 1

(* ... or a clear() that shares the container with another consumer is     *)
(* blocked: nothing else keeps the mutex for ever.                         *)
OnlyClearBlocks == mMutexSem = 0 ~> (mMutexSem = 1 \/ ClearBlocked)

(* No consumer waits for ever beside items: it gets one, or others empty   *)
(* the container, or a clear() is blocked.                                 *)
NoConsumerLeftWaiting ==
    \A t \in Threads : pc[t] = "waitSize" /\ mContainer # <<>>
                       ~> (pc[t] # "waitSize" \/ mContainer = <<>> \/ ClearBlocked)
=============================================================================
