----------------------------- MODULE MCSPSCQueue -----------------------------
(* Model-checking instance of SPSCQueue: at most MaxPush items are pushed. *)
EXTENDS SPSCQueue

CONSTANT MaxPush

MCNext == QueueNext /\ tail_' <= MaxPush
MCSpec == QueueInit /\ [][MCNext]_queue_vars
=============================================================================
