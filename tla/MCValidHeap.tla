---------------------------- MODULE MCValidHeap -----------------------------
(* TLC's instance of ValidHeap. *)
EXTENDS ValidHeap
=============================================================================
