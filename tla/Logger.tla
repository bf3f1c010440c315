------------------------------- MODULE Logger -------------------------------
(***************************************************************************)
(* log/Logger.cpp: a log file that is rotated by size or by day.  Before a *)
(* line is written rotate_log() may close the file, remove the oldest of   *)
(* log_rotate_count files, rename every other one to the next number, and  *)
(* open a new file.  The process may end between any two of these calls;   *)
(* the next one finds the files as they are.                               *)
(*                                                                         *)
(* The class is not thread-safe by default (Logger.h:3): one thread, or    *)
(* one at a time in the thread-safe build, is in a call.  Each of log_err, *)
(* log_warning, log_info, log_debug and log_perror is a Log here; logging  *)
(* to the console is left out.  A line is its number, which it has when it *)
(* is written, and the day of its time, which the call reads when it       *)
(* begins: rotate_log() looks at the clock again, and midnight may come    *)
(* between any two steps.                                                  *)
(***************************************************************************)
EXTENDS Integers, Sequences

CONSTANTS Count,              \* log_rotate_count
          FSize,              \* log_rotate_fsize, in lines
          MaxLines, MaxDays,  \* bounds on the lines written and the days passed
          MaxCrashes,         \* bound on the ends of the process
          Absent              \* a file that does not exist

Entry == [line : Nat, day : Nat]

ASSUME LoggerAssumption == /\ Count \in Nat \ {0, 1} /\ FSize \in Nat
                           /\ {MaxLines, MaxDays, MaxCrashes} \subseteq Nat
                           /\ Absent \notin Seq(Entry)

VARIABLES files,              \* files[0] is log_filename, files[i] is log_filename.i
          logfp,              \* "open" (on files[0]) or "closed"
          log_rotate_type,    \* 0: by size, 1: by day
          today,              \* the day the Logger believes it is
          pc,                 \* next step of the call in progress; "down": no process
          stamp,              \* the day of the line in hand
          i,                  \* the loop variable of rotate_log
          day,                \* the calendar
          written,            \* number of lines written
          crashes,            \* number of processes that have ended
          disturbed           \* a rename() has failed

vars == <<files, logfp, log_rotate_type, today, pc, stamp, i, day, written, crashes, disturbed>>

Exists(n) == files[n] # Absent

Init == /\ files = [n \in 0 .. Count - 1 |-> Absent]
        /\ logfp = "closed"
        /\ log_rotate_type \in {0, 1}
        /\ today = 0 /\ day = 0
        /\ pc = "down"
        /\ stamp = 0 /\ i = 0
        /\ written = 0 /\ crashes = 0 /\ disturbed = FALSE

(* fopen() with "w". *)
TruncatingOpenNewest == /\ files' = [files EXCEPT ![0] = <<>>]
                        /\ logfp' = "open"

(* fopen(log_filename, "a") that succeeds. *)
OpenNewest == /\ files' = [files EXCEPT ![0] = IF Exists(0) THEN @ ELSE <<>>]
              /\ logfp' = "open"

(* A process starts: the constructor, and an init() that opens the file. *)
Start ==
    /\ pc = "down"
    /\ today' = day
    /\ OpenNewest
    /\ pc' = "idle"
    /\ UNCHANGED <<log_rotate_type, stamp, i, day, written, crashes, disturbed>>

(* An interval of two days. *)
LateNeedRotate == IF log_rotate_type = 0 THEN Len(files[0]) > FSize ELSE day > today + 1

(* The file is longer than log_rotate_fsize, or its day is over. *)
NeedRotate == IF log_rotate_type = 0 THEN Len(files[0]) > FSize ELSE day > today

(* A call, and the time of its line. *)
Log ==
    /\ pc = "idle" /\ written < MaxLines
    /\ stamp' = day
    /\ pc' = "check"
    /\ UNCHANGED <<files, logfp, log_rotate_type, today, i, day, written, crashes, disturbed>>

(* rotate_log() reads the clock, or the length ... *)
Check ==
    /\ pc = "check"
    /\ pc' = IF NeedRotate THEN "close" ELSE "write"
    /\ UNCHANGED <<files, logfp, log_rotate_type, today, stamp, i, day, written, crashes, disturbed>>

(* ... and, by day, reads it once more. *)
Close ==
    /\ pc = "close"
    /\ today' = IF log_rotate_type = 1 THEN day ELSE today
    /\ logfp' = "closed"
    /\ pc' = "remove"
    /\ UNCHANGED <<files, log_rotate_type, stamp, i, day, written, crashes, disturbed>>

RemoveOldest ==
    /\ pc = "remove"
    /\ files' = [files EXCEPT ![Count - 1] = Absent]
    /\ pc' = "rename" /\ i' = Count - 2
    /\ UNCHANGED <<logfp, log_rotate_type, today, stamp, day, written, crashes, disturbed>>

NextRename == IF i = 0 THEN pc' = "open" /\ UNCHANGED i
              ELSE i' = i - 1 /\ UNCHANGED pc

(* Renames from the newest to the oldest. *)
UpwardRename ==
    /\ pc = "rename"
    /\ LET n == Count - 2 - i IN
         files' = IF Exists(n) THEN [files EXCEPT ![n + 1] = files[n], ![n] = Absent] ELSE files
    /\ NextRename
    /\ UNCHANGED <<logfp, log_rotate_type, today, stamp, day, written, crashes, disturbed>>

(* One turn of the loop: what is at i replaces what is at i + 1. *)
Rename ==
    /\ pc = "rename"
    /\ files' = IF Exists(i) THEN [files EXCEPT ![i + 1] = files[i], ![i] = Absent] ELSE files
    /\ NextRename
    /\ UNCHANGED <<logfp, log_rotate_type, today, stamp, day, written, crashes, disturbed>>

(* rename() fails; nobody looks. *)
RenameFails ==
    /\ pc = "rename" /\ Exists(i)
    /\ NextRename
    /\ disturbed' = TRUE
    /\ UNCHANGED <<files, logfp, log_rotate_type, today, stamp, day, written, crashes>>

Open ==
    /\ pc = "open"
    /\ OpenNewest
    /\ pc' = "write"
    /\ UNCHANGED <<log_rotate_type, today, stamp, i, day, written, crashes, disturbed>>

(* vfprintf() and fflush(). *)
Write ==
    /\ pc = "write"
    /\ files' = [files EXCEPT ![0] = Append(@, [line |-> written + 1, day |-> stamp])]
    /\ written' = written + 1
    /\ pc' = "idle" /\ stamp' = 0
    /\ UNCHANGED <<logfp, log_rotate_type, today, i, day, crashes, disturbed>>

(* The process ends: killed, or because fopen() has failed in rotate_log() *)
(* and vfprintf() has been called with a null stream.                      *)
Crash ==
    /\ pc # "down" /\ crashes < MaxCrashes
    /\ pc' = "down" /\ logfp' = "closed"
    /\ stamp' = 0 /\ i' = 0
    /\ crashes' = crashes + 1
    /\ UNCHANGED <<files, log_rotate_type, today, day, written, disturbed>>

(* Midnight. *)
NewDay ==
    /\ log_rotate_type = 1 /\ day < MaxDays
    /\ day' = day + 1
    /\ UNCHANGED <<files, logfp, log_rotate_type, today, pc, stamp, i, written, crashes, disturbed>>

Next == \/ Start \/ Log \/ Check \/ Close \/ RemoveOldest \/ Rename \/ RenameFails \/ Open
        \/ Write \/ Crash \/ NewDay

Spec == Init /\ [][Next]_vars
-----------------------------------------------------------------------------
(* The numbers of the lines in a file, and of all that are kept. *)
Lines(n) == IF Exists(n) THEN {files[n][k].line : k \in 1 .. Len(files[n])} ELSE {}
Kept     == UNION {Lines(n) : n \in 0 .. Count - 1}

(* Read from the oldest file to the newest, the log is in the order in     *)
(* which it was written, no line twice, also where the process ended in    *)
(* the middle of a rotation; and unless a rename() has failed, no line is  *)
(* missing between the oldest that is kept and the last that was written.  *)
NoGap ==
    /\ \A n \in 0 .. Count - 1 : Exists(n) =>
          \A j, k \in 1 .. Len(files[n]) : j < k => files[n][j].line < files[n][k].line
    /\ \A n, older \in 0 .. Count - 1 : n < older =>
          \A x \in Lines(older), y \in Lines(n) : x < y
    /\ Kept \subseteq 1 .. written
    /\ ~disturbed => \A x \in Kept : x .. written \subseteq Kept

(* By size: all but the newest of the files hold history, and a process    *)
(* that ends in the middle of a rotation costs at most one of them.        *)
HistoryKept ==
    log_rotate_type = 0 /\ ~disturbed =>
        \A x \in 1 .. written :
            x > written - (Count - 1 - crashes) * (FSize + 1) => x \in Kept

(* By size a file has at most one line over its limit.  By day it has the *)
(* lines of one day, if the process has lived as long, but for the first:  *)
(* a call that finds midnight between its two looks at the clock leaves    *)
(* the last line of a day at the head of the next day's file.  A failed    *)
(* rename() leaves the old file to be continued.                           *)
FilesBounded ==
    \A n \in 0 .. Count - 1 : Exists(n) /\ ~disturbed =>
        IF log_rotate_type = 0 THEN Len(files[n]) <= FSize + 1
        ELSE crashes = 0 => \A k \in 2 .. Len(files[n]) :
                               /\ files[n][k].day = files[n][2].day
                               /\ files[n][1].day <= files[n][k].day
=============================================================================
