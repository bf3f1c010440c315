-------------------------- MODULE CachePersistence --------------------------
(***************************************************************************)
(* save() and load() of cache/CacheManager.h, composed with the cache.     *)
(* save writes cache.head, cache.idx1 and cache.idx2 one after the other   *)
(* and takes no lock: operations run beside it.  (Each file here is of one *)
(* moment; a write that an operation overtakes can be of several.)  load   *)
(* reads the files back and checks their lengths only.  A process that     *)
(* starts, its pointers null, loads the files and calls init() if that     *)
(* fails.  A load() into a cache in use is left out.                       *)
(***************************************************************************)
EXTENDS CacheManager

VARIABLES head, idx1, idx2,   \* the files: <<contents>>, or <<>> if missing or too short
          saving,             \* what save writes next, or "no"
          sound,              \* save has returned true, and none has begun since
          alone,              \* the cache has not changed while that save ran
          asSaved             \* the cache when the last save began

pvars == <<m, found, broken, head, idx1, idx2, saving, sound, alone, asSaved>>

PInit == /\ Init
         /\ head = <<>> /\ idx1 = <<>> /\ idx2 = <<>>
         /\ saving = "no"
         /\ sound = FALSE /\ alone = TRUE
         /\ asSaved = Fresh

Operation == /\ Next
             /\ alone' = (alone /\ (saving = "no" \/ m' = m))
             /\ UNCHANGED <<head, idx1, idx2, saving, sound, asSaved>>

Head_(c) == [free_list_size |-> c.free_list_size,
             free_list |-> c.free_list, busy_list |-> c.busy_list]

(* The array of items, with their fields. *)
Items_(c) == [sign |-> c.sign, value |-> c.value, hashlink |-> c.hashlink, link |-> c.link]

(* One file written: completely, or cut short by the fclose() that nobody  *)
(* checks; or not opened, or cut short by an fwrite(): then save returns   *)
(* false, as it seems to when the process ends here.                       *)
Written(file, contents, next) ==
    \/ file' \in {<<contents>>, <<>>} /\ saving' = next
    \/ file' \in {file, <<>>} /\ saving' = "no"

SaveHead ==
    /\ saving = "no"
    /\ Written(head, Head_(m), "idx1")
    /\ sound' = FALSE /\ alone' = TRUE
    /\ asSaved' = m
    /\ UNCHANGED <<m, found, broken, idx1, idx2>>

(* An fopen() whose failure save() does not notice. *)
SkippedSaveIdx1 ==
    /\ saving = "idx1"
    /\ idx1' \in {<<m.pidx>>, <<>>, idx1} /\ saving' = "idx2"
    /\ UNCHANGED <<m, found, broken, head, idx2, sound, alone, asSaved>>

SaveIdx1 ==
    /\ saving = "idx1"
    /\ Written(idx1, m.pidx, "idx2")
    /\ UNCHANGED <<m, found, broken, head, idx2, sound, alone, asSaved>>

SaveIdx2 ==
    /\ saving = "idx2"
    /\ \/ idx2' \in {<<Items_(m)>>, <<>>} /\ sound' = TRUE
       \/ idx2' \in {idx2, <<>>} /\ UNCHANGED sound
    /\ saving' = "no"
    /\ UNCHANGED <<m, found, broken, head, idx1, alone, asSaved>>

(* load() returns true when each file is there and long enough. *)
Loadable == <<>> \notin {head, idx1, idx2}

Loaded == [pidx |-> idx1[1],
           sign |-> idx2[1].sign, value |-> idx2[1].value,
           hashlink |-> idx2[1].hashlink, link |-> idx2[1].link,
           free_list |-> head[1].free_list, busy_list |-> head[1].busy_list,
           free_list_size |-> head[1].free_list_size]

WholeCache(c) == /\ ListsPartitionSlots(c)
                 /\ \A k \in Range(Busy(c)) : c.sign[k] \in Signs
                 /\ ChainsHoldBusySlots(c)

(* The process ends, in the middle of a save or not, and a new one starts  *)
(* with the files as they are.  In a cache that is not whole the next      *)
(* operation may use any index.                                            *)
Restart ==
    /\ m' = IF Loadable THEN Loaded ELSE Fresh
    /\ found' = <<>>
    /\ broken' = (Loadable /\ ~WholeCache(Loaded))
    /\ saving' = "no"
    /\ UNCHANGED <<head, idx1, idx2, sound, alone, asSaved>>

PNext == Operation \/ SaveHead \/ SaveIdx1 \/ SaveIdx2 \/ Restart

PSpec == PInit /\ [][PNext]_pvars
-----------------------------------------------------------------------------
(* All that there is of a cache. *)
Persisted(c) == <<Head_(c), c.pidx, Items_(c)>>

(* A process that starts when the last save has returned true, and no      *)
(* operation changed the cache beside it, has the cache as it was then, or *)
(* an empty one, for the end of a file may be lost without a trace: never  *)
(* a mixture of that save and the files of earlier ones, that failed or    *)
(* were broken off, or of other processes.                                 *)
RestartRestores ==
    [][Restart /\ sound /\ alone => Persisted(m') \in {Persisted(asSaved), Persisted(Fresh)}]_pvars

(* ``Thread-safe'' (CacheManager.h:19): a save that has returned true      *)
(* leaves files that belong together, whatever operations ran beside it.   *)
LoadedWhole == sound /\ Loadable => WholeCache(Loaded)
=============================================================================
