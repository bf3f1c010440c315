------------------------------ MODULE Container ------------------------------
(***************************************************************************)
(* The two containers that the thread-safe wrappers of                     *)
(* src/ylutils_lib/src/container/ are instantiated with: Deque (Deque.h)   *)
(* and Vector (Vector.h).  A container is a sequence.  A Deque is first-in *)
(* first-out under put and get, a Vector is last-in first-out: its get     *)
(* reads and erases the back.                                              *)
(***************************************************************************)
EXTENDS Naturals, Sequences

CONSTANT Kind                 \* which container the wrapper is built on

ASSUME KindAssumption == Kind \in {"Deque", "Vector"}

Puts  == {"put", "push_back", "push_front"}
Takes == {"get", "pop_back", "pop_front"}

(* A Vector has no front operations: Vector.h:56-63 defines push_front and *)
(* pop_front as empty functions that must not be called.                   *)
Callable == IF Kind = "Deque" THEN Puts \cup Takes \cup {"clear"}
            ELSE (Puts \cup Takes \cup {"clear"}) \ {"push_front", "pop_front"}

(* The container after operation o has stored item i. *)
Inserted(c, o, i) == IF o = "push_front" THEN <<i>> \o c ELSE Append(c, i)

AtFront(o) == o = "pop_front" \/ (o = "get" /\ Kind = "Deque")

(* The item that a take reads, and the container once it is erased.  Both  *)
(* are meaningful for a nonempty container only, as front() and back().    *)
Chosen(c, o)  == IF AtFront(o) THEN Head(c) ELSE c[Len(c)]
Erased(c, o) == IF AtFront(o) THEN Tail(c) ELSE SubSeq(c, 1, Len(c) - 1)
=============================================================================
