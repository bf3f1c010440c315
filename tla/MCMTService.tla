----------------------------- MODULE MCMTService -----------------------------
(* A small instance of MTService: four connections, three descriptors. *)
EXTENDS MTService
=============================================================================
