----------------------------- MODULE ValidHeap ------------------------------
(***************************************************************************)
(* The heap that finds the next victim of a garbage collection: heap.c.    *)
(*                                                                         *)
(* One array of DRAM holds an element (block and count of valid chunks)    *)
(* for every block of a bank.  The first nEl elements are a binary         *)
(* min-heap of the full blocks; the others are only counted.  A second     *)
(* array gives the position of every block in the first.  No operation     *)
(* touches two banks, so one bank stands for all.                          *)
(*                                                                         *)
(* Each swap of bubbleUp and bubbleDown is a step of its own.              *)
(*                                                                         *)
(* The operations rely on what their callers in log.c, write.c,            *)
(* overwrite.c and garbage_collection.c do: a block is inserted when it    *)
(* has become full and hence once, the block removed is always the victim, *)
(* and no more chunks are taken off a count than it has.                   *)
(***************************************************************************)
EXTENDS Integers

CONSTANTS NumBlks,   \* logBlksPerBank
          Full       \* initialValue

ASSUME HeapAssumption == NumBlks \in Nat \ {0} /\ Full \in Nat

Blk == 0 .. NumBlks - 1
Pos == 1 .. NumBlks     \* "positions in heap start from 1"

VARIABLES el,      \* validChunks: position -> element
          pos,     \* positionsPtr: block -> position
          nEl,     \* nElInHeap
          bubble,  \* where bubbleUp or bubbleDown has got to
          hung     \* the firmware stopped in a while(1) of this file

vars == <<el, pos, nEl, bubble, hung>>

Still == [dir |-> "none", at |-> 1]
Up(p) == [dir |-> "up", at |-> p]
Down(p) == [dir |-> "down", at |-> p]

(* ValidChunksHeapInit *)
Init == /\ el = [p \in Pos |-> [lbn |-> p - 1, value |-> Full]]
        /\ pos = [l \in Blk |-> l + 1]
        /\ nEl = 0
        /\ bubble = Still
        /\ hung = FALSE

-----------------------------------------------------------------------------
(* A mutant: only the first of the elements is told its new position. *)
MutOnePosition(e, p, q) == [pos EXCEPT ![e[p].lbn] = q]

(* A mutant: positions start from 0, as in DRAM. *)
MutFromZero(e, p, q) == [pos EXCEPT ![e[p].lbn] = q - 1, ![e[q].lbn] = p - 1]

(* swap: the elements of e at p and q change places, and are told so. *)
SwappedPos(e, p, q) == [pos EXCEPT ![e[p].lbn] = q, ![e[q].lbn] = p]
SwappedEl(e, p, q) == [e EXCEPT ![p] = e[q], ![q] = e[p]]
Swap(e, p, q) == el' = SwappedEl(e, p, q) /\ pos' = SwappedPos(e, p, q)

Value(p) == el[p].value
InHeap(l) == pos[l] <= nEl
Ready == ~hung /\ bubble = Still      \* no operation is under way

(* A mutant: the new element is left where it was put. *)
MutNotBubbled(p) == Still

(* bubbleUp is not called for the first element of the heap. *)
BubbleFrom(p) == Up(p)

(* insertBlkInHeap *)
Insert(l) == /\ Ready
             /\ ~InHeap(l)
             /\ nEl' = nEl + 1
             /\ Swap(el, pos[l], nEl + 1)
             /\ bubble' = BubbleFrom(nEl + 1)
             /\ UNCHANGED hung

(* decrementValidChunks (n = 1) and decrementValidChunksByN *)
Decrement(l, n) == /\ Ready
                   /\ Value(pos[l]) # 0
                   /\ n <= Value(pos[l])
                   /\ el' = [el EXCEPT ![pos[l]].value = @ - n]
                   /\ bubble' = IF InHeap(l) THEN Up(pos[l]) ELSE Still
                   /\ UNCHANGED <<pos, nEl, hung>>

(* "decresing valid chunks below 0" *)
DecrementZero(l) == /\ Ready
                    /\ Value(pos[l]) = 0
                    /\ hung' = TRUE
                    /\ UNCHANGED <<el, pos, nEl, bubble>>

(* setValidChunks *)
Set(l, v) == /\ Ready
             /\ ~InHeap(l)
             /\ el' = [el EXCEPT ![pos[l]].value = v]
             /\ UNCHANGED <<pos, nEl, bubble, hung>>

(* "trying to set value for blk that is already inserted in heap" *)
SetInserted(l) == /\ Ready
                  /\ InHeap(l)
                  /\ hung' = TRUE
                  /\ UNCHANGED <<el, pos, nEl, bubble>>

(* resetValidChunksAndRemove of the block getVictim returned. *)
Remove == /\ Ready
          /\ nEl > 0
          /\ Swap([el EXCEPT ![1].value = Full], 1, nEl)
          /\ nEl' = nEl - 1
          /\ bubble' = Down(1)
          /\ UNCHANGED hung

-----------------------------------------------------------------------------
Stops == bubble' = Still /\ UNCHANGED <<el, pos>>

(* One iteration of bubbleUp. *)
BubbleUp == /\ bubble.dir = "up"
            /\ LET p == bubble.at
                   f == p \div 2
               IN  IF p > 1 /\ Value(p) < Value(f)
                   THEN Swap(el, p, f) /\ bubble' = Up(f)
                   ELSE Stops
            /\ UNCHANGED <<nEl, hung>>

(* A mutant: the element sinks below its first child whatever the second. *)
MutFirstChild(f) == 2 * f

(* The child an element sinks below, when it has children in the heap. *)
Child(f) == IF 2 * f + 1 > nEl \/ Value(2 * f) < Value(2 * f + 1) THEN 2 * f ELSE 2 * f + 1

(* One iteration of bubbleDown. *)
BubbleDown == /\ bubble.dir = "down"
              /\ LET f == bubble.at
                     c == Child(f)
                 IN  IF 2 * f <= nEl /\ \E k \in {2 * f, 2 * f + 1} : k <= nEl /\ Value(k) < Value(f)
                     THEN Swap(el, f, c) /\ bubble' = Down(c)
                     ELSE Stops
              /\ UNCHANGED <<nEl, hung>>

Next == \/ \E l \in Blk : \/ Insert(l)
                          \/ \E n \in 1 .. Full : Decrement(l, n)
                          \/ DecrementZero(l)
                          \/ \E v \in 0 .. Full : Set(l, v)
                          \/ SetInserted(l)
        \/ Remove
        \/ BubbleUp
        \/ BubbleDown

Spec == Init /\ [][Next]_vars

-----------------------------------------------------------------------------
(* Every variable holds a value of its type. *)
TypeOK == /\ el \in [Pos -> [lbn : Blk, value : 0 .. Full]]
          /\ pos \in [Blk -> Pos]
          /\ nEl \in 0 .. NumBlks
          /\ bubble \in [dir : {"none", "up", "down"}, at : Pos]
          /\ hung \in BOOLEAN

(* The positions lead to the elements of their blocks, and back: every     *)
(* operation of the file stops the firmware when it finds an element that  *)
(* "doesn't correpond to lbn".                                             *)
PositionsInverse == /\ \A l \in Blk : el[pos[l]].lbn = l
                    /\ \A p \in Pos : pos[el[p].lbn] = p

(* No element has a lesser one below it, but for the one on its way up     *)
(* (lesser than its father) or down (greater than a child).                *)
HeapOrdered ==
    \A p \in 2 .. nEl :
        \/ Value(p \div 2) <= Value(p)
        \/ bubble = Up(p)
        \/ bubble = Down(p \div 2)

(* The heap behaves as a pool that gives out a block with the least count: *)
(* the view the rest of the translation layer has of it.                   *)
Pool == INSTANCE VictimPool WITH
            count <- [l \in Blk |-> Value(pos[l])],
            pool  <- {l \in Blk : InHeap(l)}
ImplementsPool == Pool!Spec
=============================================================================
