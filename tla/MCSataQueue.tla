---------------------------- MODULE MCSataQueue -----------------------------
(* TLC's instances of SataQueue. *)
EXTENDS SataQueue
=============================================================================
