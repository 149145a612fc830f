------------------------------ MODULE FifoList ------------------------------
(***************************************************************************)
(* What a clean list promises its callers (log.c and                       *)
(* garbage_collection.c): a bounded first-in first-out queue of log block  *)
(* numbers, the oldest erased block being handed out first, that stops the *)
(* firmware when a block is requested and there is none, or given back     *)
(* when the queue already holds as many as the bank has.                   *)
(***************************************************************************)
EXTENDS Naturals, Sequences

CONSTANTS Lbn,      \* the log block numbers of a bank
          Capacity  \* the most blocks the queue holds

VARIABLES queue,    \* the clean blocks, oldest first
          popped,   \* the block the last pop returned; {} before the first pop
          hung      \* the firmware stopped in while(1)

vars == <<queue, popped, hung>>

Init == queue = << >> /\ popped = {} /\ hung = FALSE

Push(l) == /\ ~hung
           /\ Len(queue) < Capacity
           /\ queue' = Append(queue, l)
           /\ UNCHANGED <<popped, hung>>

Pop == /\ ~hung
       /\ queue # << >>
       /\ queue' = Tail(queue)
       /\ popped' = {Head(queue)}
       /\ UNCHANGED hung

PopEmpty == /\ ~hung
            /\ queue = << >>
            /\ hung' = TRUE
            /\ UNCHANGED <<queue, popped>>

PushFull == /\ ~hung
            /\ Len(queue) = Capacity
            /\ hung' = TRUE
            /\ UNCHANGED <<queue, popped>>

Next == (\E l \in Lbn : Push(l)) \/ PushFull \/ Pop \/ PopEmpty

Spec == Init /\ [][Next]_vars
=============================================================================
