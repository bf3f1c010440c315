------------------------------- MODULE PcQueue -------------------------------
(***************************************************************************)
(* container/PcQueue.h: the producer/consumer queue, a std::queue with a   *)
(* mutex and a condition variable, whose geto() gives up after a timeout.  *)
(* pc[t] is the next step of thread t inside operation op[t].              *)
(*                                                                         *)
(* A wait that ends with ETIMEDOUT has not consumed a signal (as in        *)
(* glibc); time is not modelled, a deadline may pass at any moment.        *)
(***************************************************************************)
EXTENDS Naturals, Sequences, FiniteSets

CONSTANTS Threads,            \* the client threads
          NoThread,           \* the owner of a free mutex
          Program,            \* Program[t]: the operations thread t may call
          MaxItems            \* bound on the number of items ever put

Ops == {"put", "get", "geto", "size", "empty"}

ASSUME PcThreadsAssumption == NoThread \notin Threads /\ IsFiniteSet(Threads)
ASSUME PcProgramAssumption == Program \in [Threads -> SUBSET Ops]

VARIABLES mLock,              \* the holder of the mutex
          mCond,              \* the threads blocked in the condition variable
          mQueue,             \* the items, a sequence of numbers
          pc,                 \* pc[t]: next step of thread t
          op,                 \* op[t]: the operation t is in, or called last
          timedout,           \* the threads whose wait ended with ETIMEDOUT
          stored,             \* how many items were put: the last one's number
          delivered           \* the items handed to callers, in order

Lock == INSTANCE ThreadCondLock WITH owner <- mLock, waiters <- mCond

vars == <<mLock, mCond, mQueue, pc, op, timedout, stored, delivered>>

Init == /\ Lock!Init
        /\ mQueue = <<>>
        /\ pc = [t \in Threads |-> "idle"]
        /\ op = [t \in Threads |-> "none"]
        /\ timedout = {}
        /\ stored = 0
        /\ delivered = <<>>

Goto(t, from, to) == pc[t] = from /\ pc' = [pc EXCEPT ![t] = to]

Call(t) == \E o \in Program[t] :
    /\ o = "put" => stored < MaxItems
    /\ Goto(t, "idle", "lock")
    /\ op' = [op EXCEPT ![t] = o]
    /\ UNCHANGED <<mLock, mCond, mQueue, timedout, stored, delivered>>

(* size() and empty() read under the lock and have nothing else to do. *)
AfterLock(o) == CASE o = "put"             -> "push"
                  [] o \in {"get", "geto"} -> "test"
                  [] OTHER                 -> "unlock"

LockMutex(t) ==
    /\ Goto(t, "lock", AfterLock(op[t]))
    /\ Lock!lock(t)
    /\ UNCHANGED <<mQueue, op, timedout, stored, delivered>>

(* A put that does not signal. *)
SilentPush(t) ==
    /\ Goto(t, "push", "unlock")
    /\ stored' = stored + 1
    /\ mQueue' = Append(mQueue, stored + 1)
    /\ UNCHANGED <<mLock, mCond, op, timedout, delivered>>

Push(t) ==
    /\ Goto(t, "push", "signal")
    /\ stored' = stored + 1
    /\ mQueue' = Append(mQueue, stored + 1)
    /\ UNCHANGED <<mLock, mCond, op, timedout, delivered>>

(* A put that signals only when the queue was empty. *)
FirstItemSignal(t) ==
    /\ Goto(t, "signal", "unlock")
    /\ IF Len(mQueue) = 1 THEN Lock!signal ELSE UNCHANGED <<mLock, mCond>>
    /\ UNCHANGED <<mQueue, op, timedout, stored, delivered>>

Signal(t) ==
    /\ Goto(t, "signal", "unlock")
    /\ Lock!signal
    /\ UNCHANGED <<mQueue, op, timedout, stored, delivered>>

(* while(mQueue.empty()) wait: get() and geto() test the queue alike. *)
Wait(t) ==
    /\ Goto(t, "test", "wait")
    /\ mQueue = <<>>
    /\ Lock!wait(t)
    /\ UNCHANGED <<mQueue, op, timedout, stored, delivered>>

SpuriousWakeup(t) ==
    /\ pc[t] = "wait"
    /\ Lock!wake(t)
    /\ UNCHANGED <<mQueue, pc, op, timedout, stored, delivered>>

(* The deadline of geto() passes while it is blocked. *)
Timeout(t) ==
    /\ pc[t] = "wait" /\ op[t] = "geto"
    /\ Lock!wake(t)
    /\ timedout' = timedout \cup {t}
    /\ UNCHANGED <<mQueue, pc, op, stored, delivered>>

(* A geto() that starts a new wait after each timeout. *)
PatientRelock(t) ==
    /\ Goto(t, "wait", "test")
    /\ Lock!relock(t)
    /\ timedout' = timedout \ {t}
    /\ UNCHANGED <<mQueue, op, stored, delivered>>

(* The wait returns: geto() gives up after ETIMEDOUT without looking at    *)
(* the queue again, everything else goes back to the test.                 *)
Relock(t) ==
    /\ Goto(t, "wait", IF t \in timedout THEN "unlock" ELSE "test")
    /\ Lock!relock(t)
    /\ timedout' = timedout \ {t}
    /\ UNCHANGED <<mQueue, op, stored, delivered>>

(* The loop ends. *)
TestNonempty(t) ==
    /\ Goto(t, "test", "front")
    /\ mQueue # <<>>
    /\ UNCHANGED <<mLock, mCond, mQueue, op, timedout, stored, delivered>>

(* front() without pop(). *)
FrontOnly(t) ==
    /\ Goto(t, "front", "unlock")
    /\ mQueue # <<>>
    /\ delivered' = Append(delivered, Head(mQueue))
    /\ UNCHANGED <<mLock, mCond, mQueue, op, timedout, stored>>

(* The item is copied out with front() and then removed with pop(), both   *)
(* undefined on an empty queue.                                            *)
Front(t) ==
    /\ Goto(t, "front", "pop")
    /\ mQueue # <<>>
    /\ delivered' = Append(delivered, Head(mQueue))
    /\ UNCHANGED <<mLock, mCond, mQueue, op, timedout, stored>>

Pop(t) ==
    /\ Goto(t, "pop", "unlock")
    /\ mQueue # <<>>
    /\ mQueue' = Tail(mQueue)
    /\ UNCHANGED <<mLock, mCond, op, timedout, stored, delivered>>

Unlock(t) ==
    /\ Goto(t, "unlock", "idle")
    /\ Lock!unlock(t)
    /\ UNCHANGED <<mQueue, op, timedout, stored, delivered>>

(* The steps of an operation that has been called. *)
Step(t) == \/ LockMutex(t)
           \/ Push(t)
           \/ Signal(t)
           \/ Wait(t)
           \/ Relock(t)
           \/ TestNonempty(t)
           \/ Front(t)
           \/ Pop(t)
           \/ Unlock(t)

Next == \E t \in Threads : Call(t) \/ Step(t) \/ SpuriousWakeup(t) \/ Timeout(t)

Spec == Init /\ [][Next]_vars

(* A thread that can run is eventually scheduled, a thread blocked on the  *)
(* mutex is not overtaken for ever, and the absolute deadline of geto()    *)
(* passes in the end however often its wait is interrupted.                *)
FairSpec == /\ Spec
            /\ \A t \in Threads : /\ WF_vars(Step(t))
                                  /\ SF_vars(LockMutex(t) \/ Relock(t))
                                  /\ SF_vars(Timeout(t))
-----------------------------------------------------------------------------
InMutex == {"push", "signal", "test", "front", "pop", "unlock"}

Inside == {t \in Threads : pc[t] \in InMutex}

(* The queue as its callers see it: an item is gone once it is copied out. *)
Contents == IF \E t \in Threads : pc[t] = "pop" THEN Tail(mQueue) ELSE mQueue

TypeOK ==
    /\ Lock!TypeOK
    /\ mQueue \in Seq(Nat)
    /\ pc \in [Threads -> InMutex \cup {"idle", "lock", "wait"}]
    /\ op \in [Threads -> Ops \cup {"none"}]
    /\ \A t \in Threads : /\ pc[t] \in {"push", "signal"} => op[t] = "put"
                          /\ pc[t] \in {"test", "wait", "front", "pop"} => op[t] \in {"get", "geto"}
    /\ timedout \in SUBSET Threads
    /\ stored \in Nat
    /\ delivered \in Seq(Nat)

(* Items leave the queue in the order in which they were put, each once,   *)
(* though front() and pop() are two steps, and a timeout loses none: the   *)
(* rest is still queued, in order.                                         *)
FifoNothingLost == delivered \o Contents = [i \in 1 .. stored |-> i]

(* No signal is lost to a consumer that gives up: when the mutex is free   *)
(* and consumers sleep, every queued item has an awake consumer that will  *)
(* look at the queue.                                                      *)
NoLostWakeup ==
    LET looking == {t \in Threads : /\ op[t] \in {"get", "geto"}
                                    /\ \/ pc[t] = "lock"
                                       \/ /\ pc[t] = "wait"
                                          /\ t \notin mCond \cup timedout}
    IN  mCond # {} /\ Inside = {} => Len(mQueue) <= Cardinality(looking)

(* A consumer does not sleep through queued items for ever, even if others *)
(* give up meanwhile.                                                      *)
NoConsumerLeftWaiting ==
    \A t \in Threads : t \in mCond /\ mQueue # <<>>
                       ~> (t \notin mCond \/ mQueue = <<>>)

(* geto() always returns, with an item or with an exception. *)
GetoReturns ==
    \A t \in Threads : op[t] = "geto" /\ pc[t] # "idle" ~> pc[t] = "idle"

(* To its callers the queue is the atomic first-in first-out container of  *)
(* AbstractContainer, which nobody clears, whatever other threads do       *)
(* between a consumer's test, its front() and its pop().                   *)
Abstract == INSTANCE AbstractContainer
            WITH Kind <- "Deque", Offered <- {"put", "get"},
                 contents <- Contents, discarded <- {}

ImplementsAtomicQueue == Abstract!Spec
=============================================================================
