------------------------- MODULE MCCachePersistence -------------------------
(* A small instance of CachePersistence: two slots, two keys. *)
EXTENDS CachePersistence

Two == {<<0, 0>>, <<1, 0>>}
TwoValues == Two \X Values

(* What a process does with a cache that is not whole is not followed. *)
SavedSpec == PInit /\ [][PNext /\ (~broken \/ Restart)]_pvars
=============================================================================
