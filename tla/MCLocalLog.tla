----------------------------- MODULE MCLocalLog -----------------------------
(* Small instances of LocalLog. *)
EXTENDS LocalLog
=============================================================================
