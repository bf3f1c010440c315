------------------------------ MODULE MCPcQueue ------------------------------
(* A small instance of PcQueue: producers, a blocking consumer, and a     *)
(* consumer that may time out.                                             *)
EXTENDS PcQueue, TLC

CONSTANTS p1, p2, c1, c2

Clients == (p1 :> {"put"}) @@ (p2 :> {"put", "size", "empty"})
           @@ (c1 :> {"get"}) @@ (c2 :> {"geto", "get"})
=============================================================================
