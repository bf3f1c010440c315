--------------------------- MODULE MCCacheManager ---------------------------
(* Small instances of CacheManager.  Signatures are chosen so that some    *)
(* share a bucket.                                                         *)
EXTENDS CacheManager

(* For four slots: <<0, 0>>, <<2, 2>>, <<3, 1>> and <<4, 0>> share bucket 0. *)
Five  == {<<0, 0>>, <<1, 0>>, <<2, 2>>, <<3, 1>>, <<4, 0>>}
Two   == {<<0, 0>>, <<1, 0>>}
Other == {<<2, 2>>}

(* One key has two values. *)
SomeValues == {<<sign, 1>> : sign \in Five} \cup {<<<<0, 0>>, 2>>}

=============================================================================
