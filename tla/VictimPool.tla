----------------------------- MODULE VictimPool -----------------------------
(***************************************************************************)
(* What the heap of a bank promises log.c and garbage_collection.c: a      *)
(* count of valid chunks for every block, and, among the blocks that have  *)
(* been inserted, one with the least count to collect next.                *)
(***************************************************************************)
EXTENDS Integers

CONSTANTS Blk,    \* the blocks of the bank
          Full    \* the count of a block nothing was invalidated in

VARIABLES count,  \* valid chunks of each block
          pool,   \* the blocks inserted
          hung    \* the firmware stopped in while(1)

vars == <<count, pool, hung>>

Init == count = [l \in Blk |-> Full] /\ pool = {} /\ hung = FALSE

Insert(l) == /\ ~hung
             /\ l \notin pool
             /\ pool' = pool \cup {l}
             /\ UNCHANGED <<count, hung>>

Decrement(l, n) == /\ ~hung
                   /\ n <= count[l]
                   /\ count' = [count EXCEPT ![l] = @ - n]
                   /\ UNCHANGED <<pool, hung>>

(* Of the blocks in the pool, one with the least count leaves it. *)
Remove == /\ ~hung
          /\ \E l \in pool :
                /\ \A k \in pool : count[l] <= count[k]
                /\ pool' = pool \ {l}
                /\ count' = [count EXCEPT ![l] = Full]
          /\ UNCHANGED hung

Set(l, v) == /\ ~hung
             /\ l \notin pool
             /\ count' = [count EXCEPT ![l] = v]
             /\ UNCHANGED <<pool, hung>>

(* A count that would pass 0, or be set under a block in the pool. *)
Stop == /\ ~hung
        /\ pool # {} \/ \E l \in Blk : count[l] = 0
        /\ hung' = TRUE
        /\ UNCHANGED <<count, pool>>

Next == \/ \E l \in Blk : \/ Insert(l)
                          \/ \E n \in 1 .. Full : Decrement(l, n)
                          \/ \E v \in 0 .. Full : Set(l, v)
        \/ Remove
        \/ Stop

Spec == Init /\ [][Next]_vars
=============================================================================
