----------------------------- MODULE MCOrderLists -----------------------------
(* Model-checking instance of OrderLists. *)
EXTENDS OrderLists
=============================================================================
