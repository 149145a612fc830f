----------------------------- MODULE CleanList ------------------------------
(***************************************************************************)
(* The list of clean (erased) log blocks of one bank: cleanList.c.         *)
(*                                                                         *)
(* The list lives in DRAM as singly linked nodes taken from a fixed arena. *)
(* Nodes that carry no block are chained in a second list, the unused      *)
(* nodes, so that nothing is ever allocated.  The state of a bank is       *)
(* reached only through the operations below and no operation touches two  *)
(* banks, so one bank stands for all of them.                              *)
(*                                                                         *)
(* order and pool are history variables: the nodes of the clean list and   *)
(* of the unused list in the order the program means them to have.  They   *)
(* are written and never read, and they are what the pointers are compared *)
(* with.                                                                   *)
(***************************************************************************)
EXTENDS Naturals, Sequences

CONSTANTS Lbn,       \* the log block numbers of the bank
          NumNodes   \* nodes in the arena (numNodesPerBank)

ASSUME NumNodesAssumption == NumNodes \in Nat \ {0}

NULL == 0
Node == 1 .. NumNodes          \* the arena, in address order
NodeOrNull == Node \cup {NULL}

VARIABLES next,    \* Node -> the node's next field
          lbn,     \* Node -> the node's lbn field
          head,    \* cleanListHead
          tail,    \* cleanListTail
          unused,  \* cleanListUnusedNodes
          size,    \* size
          popped,  \* what the last cleanListPop returned; {} before the first
          hung,    \* the firmware stopped in a while(1) of this file
          order,   \* history: nodes of the clean list, front first
          pool     \* history: nodes of the unused list, top first

vars == <<next, lbn, head, tail, unused, size, popped, hung, order, pool>>

-----------------------------------------------------------------------------
(* cleanListInit chains every node into the unused list; what the lbn      *)
(* fields hold is whatever the DRAM held.                                  *)
Init == /\ next = [n \in Node |-> IF n = NumNodes THEN NULL ELSE n + 1]
        /\ lbn \in [Node -> Lbn]
        /\ head = NULL
        /\ tail = NULL
        /\ unused = 1
        /\ size = 0
        /\ popped = {}
        /\ hung = FALSE
        /\ order = << >>
        /\ pool = [i \in 1 .. NumNodes |-> i]

(* The next fields after node new has been linked behind the tail.  An     *)
(* empty list has no tail to link it to.                                   *)
Linked(new) == IF tail # NULL
               THEN [next EXCEPT ![new] = NULL, ![tail] = new]
               ELSE [next EXCEPT ![new] = NULL]

(* A mutant: the unused nodes are taken by address, as if never recycled.  *)
MutUnusedByAddress == unused + 1

UnusedAfterPush == next[unused]

(* A mutant: the new node becomes the head, which makes the list a stack.  *)
MutHeadIsNewest == unused

HeadAfterPush == IF head = NULL THEN unused ELSE head

Push(l) == /\ ~hung
           /\ unused # NULL
           /\ unused' = UnusedAfterPush
           /\ lbn' = [lbn EXCEPT ![unused] = l]
           /\ next' = Linked(unused)
           /\ tail' = unused
           /\ head' = HeadAfterPush
           /\ size' = size + 1
           /\ order' = Append(order, unused)
           /\ pool' = Tail(pool)
           /\ UNCHANGED <<popped, hung>>

(* "list is full": every node of the arena is in use. *)
PushFull == /\ ~hung
            /\ unused = NULL
            /\ hung' = TRUE
            /\ UNCHANGED <<next, lbn, head, tail, unused, size, popped, order, pool>>

(* A mutant: the tail pointer survives the pop of the last block. *)
MutTailKept == tail

(* The tail pointer after the head has been taken: cleared with the last.  *)
TailAfterPop == IF head = tail THEN NULL ELSE tail

(* A mutant: the node taken is not chained to the other unused nodes. *)
MutNodeNotRecycled == next

(* The node taken goes on top of the unused list. *)
NextAfterPop == [next EXCEPT ![head] = unused]

Pop == /\ ~hung
       /\ head # NULL
       /\ size # 0
       /\ tail' = TailAfterPop
       /\ next' = NextAfterPop
       /\ unused' = head
       /\ head' = next[head]
       /\ size' = size - 1
       /\ popped' = {lbn[head]}
       /\ order' = Tail(order)
       /\ pool' = <<head>> \o pool
       /\ UNCHANGED <<lbn, hung>>

(* "list is empty" *)
PopEmpty == /\ ~hung
            /\ head = NULL
            /\ hung' = TRUE
            /\ UNCHANGED <<next, lbn, head, tail, unused, size, popped, order, pool>>

(* The blocks of the list, oldest first, as the nodes hold them.           *)
Blocks == [i \in 1 .. Len(order) |-> lbn[order[i]]]

Next == (\E l \in Lbn : Push(l)) \/ PushFull \/ Pop \/ PopEmpty

Spec == Init /\ [][Next]_vars

-----------------------------------------------------------------------------
(* Every variable holds a value of its type. *)
TypeOK == /\ next \in [Node -> NodeOrNull]
          /\ lbn \in [Node -> Lbn]
          /\ head \in NodeOrNull
          /\ tail \in NodeOrNull
          /\ unused \in NodeOrNull
          /\ size \in Nat
          /\ popped \in SUBSET Lbn
          /\ hung \in BOOLEAN
          /\ order \in Seq(Node)
          /\ pool \in Seq(Node)

First(s) == IF Len(s) = 0 THEN NULL ELSE s[1]
Last(s) == IF Len(s) = 0 THEN NULL ELSE s[Len(s)]

(* Following next from the first node of s visits exactly s, then NULL. *)
Chained(s) == /\ \A i \in 1 .. Len(s) - 1 : next[s[i]] = s[i + 1]
              /\ Len(s) > 0 => next[Last(s)] = NULL

(* The pointers spell the two lists: head, tail and the next fields give   *)
(* the clean list, the top pointer and the next fields the unused list,    *)
(* and size is the length of the first (cleanListSize is what log.c takes  *)
(* its garbage collection decisions on).                                   *)
PointersSpellLists == /\ head = First(order)
                      /\ tail = Last(order)
                      /\ unused = First(pool)
                      /\ Chained(order)
                      /\ Chained(pool)
                      /\ size = Len(order)

(* No node is lost or shared: the two lists have no node twice, none in    *)
(* common, and together they are the arena.                                *)
NodesConserved ==
    /\ \A i, j \in 1 .. Len(order) : order[i] = order[j] => i = j
    /\ \A i, j \in 1 .. Len(pool) : pool[i] = pool[j] => i = j
    /\ \A i \in 1 .. Len(order), j \in 1 .. Len(pool) : order[i] # pool[j]
    /\ Len(order) + Len(pool) = NumNodes

(* The linked list behaves as a bounded queue of block numbers: blocks     *)
(* come out in the order in which they were erased, none lost or repeated, *)
(* and the firmware stops only for a pop of an empty list or a push into a *)
(* full one.                                                               *)
Fifo == INSTANCE FifoList WITH queue <- Blocks, Capacity <- NumNodes
ImplementsFifo == Fifo!Spec
=============================================================================
