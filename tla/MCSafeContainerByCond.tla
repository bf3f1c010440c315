------------------------ MODULE MCSafeContainerByCond ------------------------
(* A small instance of SafeContainerByCond: who calls what. *)
EXTENDS SafeContainerByCond, TLC

CONSTANTS p1, p2, c1, c2

(* Two producers and two consumers of a stack, one of which also clears. *)
Stack == (p1 :> {"put"}) @@ (p2 :> {"push_back"})
         @@ (c1 :> {"get"}) @@ (c2 :> {"pop_back", "clear"})
=============================================================================
