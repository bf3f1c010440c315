--------------------------- MODULE ThreadCondLock ---------------------------
(***************************************************************************)
(* sync/ThreadCondLock.cpp: a pthread mutex and the condition variable     *)
(* used with it.  The operations are actions over the two variables below; *)
(* the modules of the classes that own a ThreadCondLock (or the same two   *)
(* pthread objects) put them into their own steps.                         *)
(*                                                                         *)
(* A waiting thread leaves `waiters' when it is signalled, timed out or    *)
(* woken spuriously, and must then lock the mutex again before wait()      *)
(* returns.  broadcast() has no caller in the library and is left out.     *)
(***************************************************************************)
CONSTANTS Threads, NoThread

VARIABLES owner,              \* the thread that holds mMutex, or NoThread
          waiters             \* the threads blocked in pthread_cond_wait

Init == owner = NoThread /\ waiters = {}

TypeOK == owner \in Threads \cup {NoThread} /\ waiters \subseteq Threads

lock(t) == owner = NoThread /\ owner' = t /\ UNCHANGED waiters

unlock(t) == owner = t /\ owner' = NoThread /\ UNCHANGED waiters

(* The first half of wait(): release the mutex and block, in one step. *)
wait(t) == owner = t /\ owner' = NoThread /\ waiters' = waiters \cup {t}

(* Wake one waiter, if there is one.  Which one is the scheduler's choice. *)
signal == /\ IF waiters = {} THEN UNCHANGED waiters
             ELSE \E w \in waiters : waiters' = waiters \ {w}
          /\ UNCHANGED owner

(* POSIX lets a wait end without a signal; timedwait ends at its deadline. *)
wake(t) == t \in waiters /\ waiters' = waiters \ {t} /\ UNCHANGED owner

(* A wait() that returns without the mutex. *)
BareReturn(t) == t \notin waiters /\ UNCHANGED <<owner, waiters>>

(* The second half of wait(). *)
relock(t) == t \notin waiters /\ lock(t)
=============================================================================
