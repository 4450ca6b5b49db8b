---------------------------- MODULE MCThreadQueue ----------------------------
(* A work queue with two ordinary poppers and one that passes a deadline,    *)
(* and three accepted pushes: threads can sleep while entries pile up.       *)
EXTENDS ThreadQueue
=============================================================================
