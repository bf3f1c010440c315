---------------------------- MODULE AbstractCache ----------------------------
(***************************************************************************)
(* What CacheManager.h promises: a map from keys to values with room for   *)
(* Size entries, kept in the order in which they will be replaced.  find   *)
(* makes an entry the last to be replaced.  insert first makes room when   *)
(* the cache is full, even for a key it then finds present; a present key  *)
(* gets its new value where it is.                                         *)
(***************************************************************************)
EXTENDS Naturals, Sequences, SequencesExt

CONSTANTS Keys, Values,
          Size,               \* the number of entries
          Batch               \* how many are replaced when the cache is full

VARIABLES entries,            \* <<key, value>> pairs, the first to be replaced first
          found               \* <<key, value>> or <<key>> after a find, else <<>>

Init == entries = <<>> /\ found = <<>>

Positions(es, k) == {i \in DOMAIN es : es[i][1] = k}

insert(k, v) ==
    LET room == IF Len(entries) = Size THEN SubSeq(entries, Batch + 1, Size)
                ELSE entries
    IN  /\ found' = <<>>
        /\ entries' = IF Positions(room, k) = {} THEN Append(room, <<k, v>>)
                      ELSE [i \in DOMAIN room |->
                               IF room[i][1] = k THEN <<k, v>> ELSE room[i]]

remove(k) == /\ found' = <<>>
             /\ \/ Positions(entries, k) = {} /\ UNCHANGED entries
                \/ \E i \in Positions(entries, k) : entries' = RemoveAt(entries, i)

find(k) == \/ /\ found' = <<k>>
              /\ Positions(entries, k) = {}
              /\ UNCHANGED entries
           \/ \E i \in Positions(entries, k) :
                /\ found' = entries[i]
                /\ entries' = Append(RemoveAt(entries, i), entries[i])

Next == \E k \in Keys : (\E v \in Values : insert(k, v)) \/ remove(k) \/ find(k)

Spec == Init /\ [][Next]_<<entries, found>>
=============================================================================
