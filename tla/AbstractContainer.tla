-------------------------- MODULE AbstractContainer --------------------------
(***************************************************************************)
(* What a thread-safe container promises its callers, whichever way it is  *)
(* synchronised: storing, handing out and clearing are atomic, an item     *)
(* leaves the container exactly when it is handed out or discarded.        *)
(* SafeContainerBySem and SafeContainerByCond implement it.                *)
(***************************************************************************)
EXTENDS Container

CONSTANT Offered             \* the operations that somebody may call

VARIABLES contents,           \* the items in the container
          stored,             \* how many items were stored: the last one's number
          delivered,          \* the items handed to callers, in order
          discarded           \* the items erased by clear

Init == contents = <<>> /\ stored = 0 /\ delivered = <<>> /\ discarded = {}

Store(o) == /\ stored' = stored + 1
            /\ contents' = Inserted(contents, o, stored + 1)
            /\ UNCHANGED <<delivered, discarded>>

Take(o) == /\ contents # <<>>
           /\ delivered' = Append(delivered, Chosen(contents, o))
           /\ contents' = Erased(contents, o)
           /\ UNCHANGED <<stored, discarded>>

(* clear() erases from the back; an implementation may do it in pieces. *)
Clear == \E n \in 1 .. Len(contents) :
           /\ contents' = SubSeq(contents, 1, n - 1)
           /\ discarded' = discarded \cup {contents[i] : i \in n .. Len(contents)}
           /\ UNCHANGED <<stored, delivered>>

Next == \/ \E o \in Puts \cap Offered : Store(o)
        \/ \E o \in Takes \cap Offered : Take(o)
        \/ "clear" \in Offered /\ Clear

Spec == Init /\ [][Next]_<<contents, stored, delivered, discarded>>
=============================================================================
