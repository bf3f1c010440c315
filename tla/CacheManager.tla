---------------------------- MODULE CacheManager ----------------------------
(***************************************************************************)
(* cache/CacheManager.h: a fixed-size cache.  Slots are array elements and *)
(* links are indices, -1 for none.  A slot is on the free list or on the   *)
(* busy list, both doubly linked through `link'; a busy slot is also on    *)
(* the chain of its hash bucket, doubly linked through `hashlink'.  The    *)
(* head of the busy list is the first to be replaced.                      *)
(*                                                                         *)
(* insert, remove and find hold fmutex from their first access to the      *)
(* arrays to the last, so each is one step.  The hit statistics of find    *)
(* are left out.  A key is the signature <<sign1, sign2>> that YeeSign     *)
(* computes from the string.                                               *)
(***************************************************************************)
EXTENDS Integers, SequencesExt

CONSTANTS Size,               \* the number of slots
          Share,              \* reclaim replaces one slot in Share: 10, in the code
          Signs,              \* the signatures of the keys in use
          Values,
          Inserted,           \* the <<key, value>> pairs that clients insert
          Sought, Removed,    \* the keys that they look up, and remove
          NoSign, NoValue     \* what a slot holds before its first use

ASSUME CacheSizeAssumption == Size \in Nat \ {0} /\ Share \in Nat \ {0}
ASSUME SignsAssumption == /\ Signs \subseteq Nat \X Nat
                          /\ Inserted \subseteq Signs \X Values
                          /\ Sought \cup Removed \subseteq Signs

VARIABLES m,                  \* the arrays and list heads of the object
          found,              \* <<key, value>> or <<key>> after a find, else <<>>
          broken              \* an index outside the arrays was used

vars == <<m, found, broken>>

Slots == 0 .. Size - 1
Nil   == -1

Link(next, prev) == [next |-> next, prev |-> prev]

(* init().  The array pvalue is held field by field. *)
Fresh ==
    [pidx      |-> [i \in Slots |-> Nil],
     sign      |-> [i \in Slots |-> NoSign],
     value     |-> [i \in Slots |-> NoValue],
     hashlink  |-> [i \in Slots |-> Link(Nil, Nil)],
     link      |-> [i \in Slots |-> Link(IF i = Size - 1 THEN Nil ELSE i + 1, i - 1)],
     free_list |-> Link(0, Size - 1),
     busy_list |-> Link(Nil, Nil),
     free_list_size |-> Size]

Init == m = Fresh /\ found = <<>> /\ broken = FALSE

index(sign) == (sign[1] + sign[2]) % Size

(* operator== compares sign1 of both, and sign2 of its second argument     *)
(* with itself.                                                            *)
Same(sign1, sign2) == sign1[1] = sign2[1] /\ sign2[2] = sign2[2]

(***************************************************************************)
(* The list operations, each from one state of the object to the next.     *)
(***************************************************************************)
(* The links when pos is appended to a list whose last slot is k. *)
Appended(links, k, pos) ==
    IF k = Nil THEN [links EXCEPT ![pos] = Link(Nil, Nil)]
    ELSE [links EXCEPT ![k].next = pos, ![pos] = Link(Nil, k)]

(* The links when the neighbours of pos are made to pass over it. *)
Unlinked(links, pos) ==
    LET l == links[pos]
        forward == IF l.prev = Nil THEN links ELSE [links EXCEPT ![l.prev].next = l.next]
    IN  IF l.next = Nil THEN forward ELSE [forward EXCEPT ![l.next].prev = l.prev]

get_from_free_list(c) ==
    LET nxt == c.link[c.free_list.next].next
    IN  [c EXCEPT !.free_list = Link(nxt, IF nxt = Nil THEN Nil ELSE @.prev),
                  !.link = IF nxt = Nil THEN @ ELSE [@ EXCEPT ![nxt].prev = Nil],
                  !.free_list_size = @ - 1]

insert_into_free_list(c, pos) ==
    LET k == c.free_list.prev
    IN  [c EXCEPT !.free_list = Link(IF k = Nil THEN pos ELSE @.next, pos),
                  !.link = Appended(@, k, pos),
                  !.free_list_size = @ + 1]

insert_into_busy_list(c, pos) ==
    LET k == c.busy_list.prev
    IN  [c EXCEPT !.busy_list = Link(IF k = Nil THEN pos ELSE @.next, pos),
                  !.link = Appended(@, k, pos)]

(* A deletion that leaves the end of the list where it was. *)
endless_del_from_busy_list(c, pos) ==
    LET l == c.link[pos]
    IN  [c EXCEPT !.busy_list = Link(IF l.prev = Nil THEN l.next ELSE @.next, @.prev),
                  !.link = Unlinked(@, pos)]

del_from_busy_list(c, pos) ==
    LET l == c.link[pos]
    IN  [c EXCEPT !.busy_list = Link(IF l.prev = Nil THEN l.next ELSE @.next,
                                     IF l.next = Nil THEN l.prev ELSE @.prev),
                  !.link = Unlinked(@, pos)]

(* The head of a chain that keeps its prev link to the slot taken off. *)
BackwardUnchained(c, b, pos) ==
    LET h == c.hashlink[pos]
    IN  IF h.prev = Nil THEN [c EXCEPT !.pidx[b] = h.next]
        ELSE [c EXCEPT !.hashlink[h.prev].next = h.next]

(* Take pos off the chain of bucket b (the same code in reclaim, remove). *)
Unchained(c, b, pos) ==
    LET h == c.hashlink[pos]
    IN  [c EXCEPT !.pidx = IF h.prev = Nil THEN [@ EXCEPT ![b] = h.next] ELSE @,
                  !.hashlink = Unlinked(@, pos)]

(* The head of the busy list, returned to the free list. *)
Replaced(c) ==
    LET k == c.busy_list.next
    IN  insert_into_free_list(
            Unchained(del_from_busy_list(c, k), index(c.sign[k]), k), k)

ReplacedTimes(n, c) ==
    LET after[k \in 0 .. n] == IF k = 0 THEN c ELSE Replaced(after[k - 1])
    IN  after[n]

reclaim(c) == ReplacedTimes(Size \div Share, c)

(***************************************************************************)
(* The slots from start along next to Nil, but no more than one more than  *)
(* there are: a walk that comes back to a slot is cut off there.           *)
(***************************************************************************)
Walk(next, start) ==
    LET from[n \in 0 .. Size + 1] ==
            [p \in Slots \cup {Nil} |->
                IF p = Nil \/ n = 0 THEN <<>> ELSE <<p>> \o from[n - 1][next[p]]]
    IN  from[Size + 1][start]

Nexts(links) == [i \in Slots |-> links[i].next]
Prevs(links) == [i \in Slots |-> links[i].prev]

Chain(c, b) == Walk(Nexts(c.hashlink), c.pidx[b])

(* The first slot of the chain whose signature operator== takes for sign:  *)
(* the loops of insert, remove and find stop there, or at the end.         *)
Match(c, sign) ==
    LET chain == Chain(c, index(sign))
        same  == {i \in DOMAIN chain : Same(c.sign[chain[i]], sign)}
    IN  IF same = {} THEN Nil ELSE chain[Min(same)]

(***************************************************************************)
(* The operations.                                                         *)
(***************************************************************************)
Placed(c, sign, v) ==
    LET pos == c.free_list.next
        b   == index(sign)
        top == c.pidx[b]
        linked == [c.hashlink EXCEPT ![pos] = Link(top, Nil)]
    IN  insert_into_busy_list(
            [get_from_free_list(c) EXCEPT
                !.value[pos] = v, !.sign[pos] = sign, !.pidx[b] = pos,
                !.hashlink = IF top = Nil THEN linked ELSE [linked EXCEPT ![top].prev = pos]],
            pos)

(* insert makes room before it looks for the key.  When there is still no  *)
(* free slot it goes on with slot -1.                                      *)
insert(sign, v) ==
    LET room == IF m.free_list_size = 0 THEN reclaim(m) ELSE m
        vi   == Match(room, sign)
    IN  /\ ~broken
        /\ \/ /\ vi # Nil
              /\ m' = [room EXCEPT !.value[vi] = v]
              /\ UNCHANGED broken
           \/ /\ vi = Nil /\ room.free_list.next # Nil
              /\ m' = Placed(room, sign, v)
              /\ UNCHANGED broken
           \/ /\ vi = Nil /\ room.free_list.next = Nil
              /\ broken' = TRUE
              /\ UNCHANGED m
        /\ found' = <<>>

remove(sign) ==
    LET vi == Match(m, sign)
    IN  /\ ~broken
        /\ m' = IF vi = Nil THEN m
                ELSE Unchained(insert_into_free_list(del_from_busy_list(m, vi), vi),
                               index(sign), vi)
        /\ found' = <<>>
        /\ UNCHANGED broken

(* A find that leaves the slot where it is in the busy list. *)
still_find(sign) ==
    LET vi == Match(m, sign)
    IN  /\ ~broken
        /\ found' = IF vi = Nil THEN <<sign>> ELSE <<sign, m.value[vi]>>
        /\ UNCHANGED <<m, broken>>

find(sign) ==
    LET vi == Match(m, sign)
    IN  /\ ~broken
        /\ IF vi = Nil THEN found' = <<sign>> /\ UNCHANGED m
           ELSE /\ found' = <<sign, m.value[vi]>>
                /\ m' = insert_into_busy_list(del_from_busy_list(m, vi), vi)
        /\ UNCHANGED broken

Next == \/ \E e \in Inserted : insert(e[1], e[2])
        \/ \E sign \in Removed : remove(sign)
        \/ \E sign \in Sought : find(sign)

Spec == Init /\ [][Next]_vars
-----------------------------------------------------------------------------
Free(c) == Walk(Nexts(c.link), c.free_list.next)
Busy(c) == Walk(Nexts(c.link), c.busy_list.next)

(* Every slot is on exactly one of the two lists, once; both read the same *)
(* forwards and backwards; free_list_size is exact.                        *)
ListsPartitionSlots(c) ==
    LET free == Free(c)
        busy == Busy(c)
    IN  /\ IsInjective(free \o busy)
        /\ Range(free \o busy) = Slots
        /\ Walk(Prevs(c.link), c.free_list.prev) = Reverse(free)
        /\ Walk(Prevs(c.link), c.busy_list.prev) = Reverse(busy)
        /\ c.free_list_size = Len(free)

(* The chain of a bucket holds exactly the busy slots whose signature      *)
(* hashes there, once each, with prev links that mirror the next links.    *)
ChainsHoldBusySlots(c) ==
    LET busy == Range(Busy(c)) IN
    \A b \in Slots :
        LET chain == Chain(c, b)
        IN  /\ IsInjective(chain)
            /\ Range(chain) = {s \in busy : index(c.sign[s]) = b}
            /\ \A i \in DOMAIN chain :
                   c.hashlink[chain[i]].prev =
                       IF i = 1 THEN Nil ELSE chain[i - 1]

(* The lists and the chains stay whole over every history of insert,       *)
(* remove, find and reclaim.                                               *)
ListsWhole  == ListsPartitionSlots(m)
ChainsWhole == ChainsHoldBusySlots(m)

(* insert never goes on with slot -1: in a full cache the least used items *)
(* are replaced (CacheManager.h:18).  It needs Share <= Size.              *)
NeverOutOfSlots == ~broken

(* The array structure is the map of AbstractCache: the busy list, read    *)
(* from its head, is the map in the order of replacement.                  *)
Entries == LET busy == Busy(m)
           IN  [i \in DOMAIN busy |-> <<m.sign[busy[i]], m.value[busy[i]]>>]

Abstract == INSTANCE AbstractCache
            WITH Keys <- Signs, Batch <- Size \div Share, entries <- Entries

ImplementsLruMap == Abstract!Spec
=============================================================================
