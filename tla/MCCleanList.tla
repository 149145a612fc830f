---------------------------- MODULE MCCleanList -----------------------------
(* TLC's instance of CleanList, and the mutants its properties must catch. *)
EXTENDS CleanList
=============================================================================
