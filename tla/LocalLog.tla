------------------------------ MODULE LocalLog ------------------------------
(***************************************************************************)
(* log/LocalLog.cpp: threads share four log files of the current day.  A   *)
(* writer looks at the date; if it has changed reOpenAllLog() looks again  *)
(* under a mutex, closes each stream and opens the file of the new day.    *)
(* The write itself takes no lock.                                         *)
(***************************************************************************)
EXTENDS Naturals

CONSTANTS Threads,
          Nobody,             \* the owner of a free mutex
          MaxDays             \* bound on the days that pass

VARIABLES stream,             \* the four streams, in the order in which they are reopened
          mToday,
          mMutex,
          pc, which,          \* next step of a thread, and the stream it writes to
          k,                  \* the stream that reOpenAllLog() is at
          name,               \* the day in its filename
          day                 \* the calendar

vars == <<stream, mToday, mMutex, pc, which, k, name, day>>

(* mDebugStream, mQueryStream, mErrorStream, mStatStream; "null" is what a *)
(* failed fopen() leaves.                                                  *)
Streams == 1 .. 4
Opened(d) == [state |-> "open", day |-> d]

(* The object after openAllStream(). *)
Init == /\ stream = [s \in Streams |-> Opened(0)]
        /\ mToday = 0 /\ day = 0
        /\ mMutex = Nobody
        /\ pc = [t \in Threads |-> "idle"]
        /\ which \in [Threads -> Streams]
        /\ k = 1 /\ name = 0

Transition(t, from, to) == pc[t] = from /\ pc' = [pc EXCEPT ![t] = to]

(* appDebugLog() to appStatLog(): the date, and mToday without the mutex. *)
App(t) ==
    /\ Transition(t, "idle", IF day = mToday THEN "print" ELSE "lock")
    /\ UNCHANGED <<stream, mToday, mMutex, which, k, name, day>>

LockAndLook(t) ==
    /\ mMutex = Nobody
    /\ mMutex' = t
    /\ Transition(t, "lock", IF day = mToday THEN "unlock" ELSE "close")
    /\ k' = 1
    /\ UNCHANGED <<stream, mToday, which, name, day>>

(* getTodayLogFileName() and fclose(): the pointer stays what it was. *)
Close(t) ==
    /\ Transition(t, "close", "open")
    /\ name' = day
    /\ stream' = [stream EXCEPT ![k].state = "closed"]
    /\ UNCHANGED <<mToday, mMutex, which, k, day>>

Open(t) ==
    /\ Transition(t, "open", IF k = 4 THEN "mark" ELSE "close")
    /\ k' = IF k = 4 THEN 1 ELSE k + 1
    /\ stream' \in {[stream EXCEPT ![k] = Opened(name)],
                    [stream EXCEPT ![k].state = "null"]}
    /\ UNCHANGED <<mToday, mMutex, which, name, day>>

(* mToday = getToday(), a second look at the date. *)
Mark(t) ==
    /\ Transition(t, "mark", "unlock")
    /\ mToday' = day
    /\ UNCHANGED <<stream, mMutex, which, k, name, day>>

Unlock(t) ==
    /\ Transition(t, "unlock", "print")
    /\ mMutex' = Nobody
    /\ UNCHANGED <<stream, mToday, which, k, name, day>>

(* fprintf() and fflush(), to a stream that the thread chose in App. *)
fprintf(t) ==
    /\ Transition(t, "print", "idle")
    /\ \E s \in Streams : which' = [which EXCEPT ![t] = s]
    /\ UNCHANGED <<stream, mToday, mMutex, k, name, day>>

Midnight == /\ day < MaxDays
            /\ day' = day + 1
            /\ UNCHANGED <<stream, mToday, mMutex, pc, which, k, name>>

Next == \/ \E t \in Threads : \/ App(t) \/ LockAndLook(t) \/ Close(t) \/ Open(t)
                              \/ Mark(t) \/ Unlock(t) \/ fprintf(t)
        \/ Midnight

Spec == Init /\ [][Next]_vars
-----------------------------------------------------------------------------
(* Threads may write without a lock (LocalLog.h:51): a writer never meets  *)
(* a stream that another thread has closed.                                *)
NeverClosed == \A t \in Threads :
    pc[t] = "print" => stream[which[t]].state # "closed"
=============================================================================
