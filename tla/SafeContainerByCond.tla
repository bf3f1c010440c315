------------------------ MODULE SafeContainerByCond ------------------------
(***************************************************************************)
(* SafeContainerByCond.h: a container made thread-safe with a mutex and a  *)
(* condition variable.  A store signals before it inserts, holding the     *)
(* mutex for both; a take waits in a loop while the container is empty;    *)
(* clear empties the container and signals nobody.  pc[t] is the next step *)
(* of thread t inside operation op[t].                                     *)
(***************************************************************************)
EXTENDS Container, FiniteSets

CONSTANTS Threads,            \* the client threads
          NoThread,           \* the owner of a free mutex
          Program,            \* Program[t]: the operations thread t may call
          MaxItems            \* bound on the number of items ever stored

ASSUME CondThreadsAssumption == NoThread \notin Threads /\ IsFiniteSet(Threads)
ASSUME CondProgramAssumption == Program \in [Threads -> SUBSET Callable]

VARIABLES owner, waiters,     \* mCondLock
          mContainer,         \* the items, a sequence of numbers
          pc,                 \* pc[t]: next step of thread t
          op,                 \* op[t]: the operation t is in, or called last
          stored,             \* how many items were stored: the last one's number
          delivered,          \* the items handed to callers, in order
          discarded           \* the items erased by clear

mCondLock == INSTANCE ThreadCondLock

vars == <<owner, waiters, mContainer, pc, op, stored, delivered, discarded>>

Init == /\ mCondLock!Init
        /\ mContainer = <<>>
        /\ pc = [t \in Threads |-> "idle"]
        /\ op = [t \in Threads |-> "none"]
        /\ stored = 0
        /\ delivered = <<>>
        /\ discarded = {}

Goto(t, from, to) == pc[t] = from /\ pc' = [pc EXCEPT ![t] = to]

Call(t) == \E o \in Program[t] :
    /\ o \in Puts => stored < MaxItems
    /\ Goto(t, "idle", "lock")
    /\ op' = [op EXCEPT ![t] = o]
    /\ UNCHANGED <<owner, waiters, mContainer, stored, delivered, discarded>>

(* A store that does not signal. *)
SilentAfterLock(o) == CASE o \in Puts  -> "insert"
                        [] o \in Takes -> "test"
                        [] OTHER       -> "clear"

AfterLock(o) == CASE o \in Puts  -> "signal"
                  [] o \in Takes -> "test"
                  [] OTHER       -> "clear"

Lock(t) ==
    /\ Goto(t, "lock", AfterLock(op[t]))
    /\ mCondLock!lock(t)
    /\ UNCHANGED <<mContainer, op, stored, delivered, discarded>>

(* A store that signals only when the container was empty, as the second   *)
(* thread of the example in ThreadCondLock.cpp (line 177) does.            *)
FirstItemSignal(t) ==
    /\ Goto(t, "signal", "insert")
    /\ IF mContainer = <<>> THEN mCondLock!signal ELSE UNCHANGED <<owner, waiters>>
    /\ UNCHANGED <<mContainer, op, stored, delivered, discarded>>

(* A store signals first: the waiter cannot run before unlock() anyway. *)
Signal(t) ==
    /\ Goto(t, "signal", "insert")
    /\ mCondLock!signal
    /\ UNCHANGED <<mContainer, op, stored, delivered, discarded>>

Insert(t) ==
    /\ Goto(t, "insert", "unlock")
    /\ stored' = stored + 1
    /\ mContainer' = Inserted(mContainer, op[t], stored + 1)
    /\ UNCHANGED <<owner, waiters, op, delivered, discarded>>

(* while (mContainer.empty()) mCondLock.wait(); *)
TestNonempty(t) ==
    /\ Goto(t, "test", "read")
    /\ mContainer # <<>>
    /\ UNCHANGED <<owner, waiters, mContainer, op, stored, delivered, discarded>>

Wait(t) ==
    /\ Goto(t, "test", "wait")
    /\ mContainer = <<>>
    /\ mCondLock!wait(t)
    /\ UNCHANGED <<mContainer, op, stored, delivered, discarded>>

SpuriousWakeup(t) ==
    /\ pc[t] = "wait"
    /\ mCondLock!wake(t)
    /\ UNCHANGED <<mContainer, pc, op, stored, delivered, discarded>>

(* if instead of while around wait(). *)
UntestedRelock(t) ==
    /\ Goto(t, "wait", "read")
    /\ mCondLock!relock(t)
    /\ UNCHANGED <<mContainer, op, stored, delivered, discarded>>

(* wait() returns to the test of the loop. *)
Relock(t) ==
    /\ Goto(t, "wait", "test")
    /\ mCondLock!relock(t)
    /\ UNCHANGED <<mContainer, op, stored, delivered, discarded>>

(* A take copies the item out and then erases it.  Both are undefined on   *)
(* an empty container.                                                     *)
Read(t) ==
    /\ Goto(t, "read", "erase")
    /\ mContainer # <<>>
    /\ delivered' = Append(delivered, Chosen(mContainer, op[t]))
    /\ UNCHANGED <<owner, waiters, mContainer, op, stored, discarded>>

Erase(t) ==
    /\ Goto(t, "erase", "unlock")
    /\ mContainer # <<>>
    /\ mContainer' = Erased(mContainer, op[t])
    /\ UNCHANGED <<owner, waiters, op, stored, delivered, discarded>>

Clear(t) ==
    /\ Goto(t, "clear", "unlock")
    /\ discarded' = discarded \cup {mContainer[i] : i \in DOMAIN mContainer}
    /\ mContainer' = <<>>
    /\ UNCHANGED <<owner, waiters, op, stored, delivered>>

Unlock(t) ==
    /\ Goto(t, "unlock", "idle")
    /\ mCondLock!unlock(t)
    /\ UNCHANGED <<mContainer, op, stored, delivered, discarded>>

(* The steps of an operation that has been called. *)
Step(t) == \/ Lock(t)
           \/ Signal(t)
           \/ Insert(t)
           \/ TestNonempty(t)
           \/ Wait(t)
           \/ Relock(t)
           \/ Read(t)
           \/ Erase(t)
           \/ Clear(t)
           \/ Unlock(t)

Next == \E t \in Threads : Call(t) \/ Step(t) \/ SpuriousWakeup(t)

Spec == Init /\ [][Next]_vars

(* A thread that can run is eventually scheduled and a thread blocked on   *)
(* the mutex is not overtaken for ever; nothing forces a client to call or *)
(* a wait to end spuriously.                                               *)
FairSpec == /\ Spec
            /\ \A t \in Threads : /\ WF_vars(Step(t))
                                  /\ SF_vars(Lock(t) \/ Relock(t))
-----------------------------------------------------------------------------
InMutex == {"signal", "insert", "test", "read", "erase", "clear", "unlock"}

Inside == {t \in Threads : pc[t] \in InMutex}

Erasing == {t \in Threads : pc[t] = "erase"}

(* The container as its callers see it: an item is gone once it is read. *)
Contents == IF Erasing = {} THEN mContainer
            ELSE Erased(mContainer, op[CHOOSE t \in Erasing : TRUE])

TypeOK ==
    /\ mCondLock!TypeOK
    /\ mContainer \in Seq(Nat)
    /\ pc \in [Threads -> InMutex \cup {"idle", "lock", "wait"}]
    /\ op \in [Threads -> Puts \cup Takes \cup {"clear", "none"}]
    /\ \A t \in Threads : /\ pc[t] \in {"signal", "insert"} => op[t] \in Puts
                          /\ pc[t] \in {"test", "wait", "read", "erase"} => op[t] \in Takes
    /\ stored \in Nat
    /\ delivered \in Seq(Nat)
    /\ discarded \in SUBSET Nat

(* Only the thread that holds the mutex is past lock(), and a thread       *)
(* blocked in the condition variable is in wait().                         *)
MutualExclusion == /\ \A t \in Threads : t \in Inside <=> owner = t
                   /\ \A t \in waiters : pc[t] = "wait"

(* No take ever reads the front or the back of an empty container, however *)
(* its wait ended and whatever a clear erased meanwhile.                   *)
NeverEmptyAtTake ==
    \A t \in Threads : pc[t] \in {"read", "erase"} => mContainer # <<>>

(* No wakeup is lost.  When consumers sleep beside items, there are at     *)
(* least as many threads awake to take them: consumers already woken or    *)
(* testing, or a store that has not yet unlocked.                          *)
NoLostWakeup ==
    LET awake == {t \in Threads : \/ pc[t] = "wait" /\ t \notin waiters
                                  \/ pc[t] \in {"lock", "test", "read", "erase"}
                                     /\ op[t] \in Takes}
    IN  waiters # {} /\ Inside = {} => Len(mContainer) <= Cardinality(awake)

(* The wrapper is the atomic container of AbstractContainer. *)
Abstract == INSTANCE AbstractContainer
            WITH contents <- Contents, Offered <- UNION {Program[t] : t \in Threads}

ImplementsAtomicContainer == Abstract!Spec

(* A sleeping consumer does not sleep through an item for ever: it wakes,  *)
(* or the container is emptied by somebody else.                           *)
NoConsumerLeftWaiting ==
    \A t \in Threads : t \in waiters /\ mContainer # <<>>
                       ~> (t \notin waiters \/ mContainer = <<>>)
=============================================================================
