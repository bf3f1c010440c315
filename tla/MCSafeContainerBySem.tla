------------------------ MODULE MCSafeContainerBySem ------------------------
(* Small instances of SafeContainerBySem: who calls what. *)
EXTENDS SafeContainerBySem, TLC

CONSTANTS p1, p2, c1, c2

(* Producers and consumers at both ends of a Deque, one of which clears. *)
BothEnds == (p1 :> {"put", "push_front"}) @@ (p2 :> {"push_back"})
            @@ (c1 :> {"get", "clear"}) @@ (c2 :> {"pop_back", "pop_front"})

(* One consumer clears while another takes. *)
ClearBesideConsumer == (p1 :> {"put"}) @@ (c1 :> {"clear"}) @@ (c2 :> {"get"})
=============================================================================
