------------------------------- MODULE FtlLog -------------------------------
(***************************************************************************)
(* The log blocks of a bank (log.c): which block takes the next W page or  *)
(* OW page, what happens when it is full, and the sealing of an OW block.  *)
(*                                                                         *)
(* increaseRWLpn and increaseOWLpn are the last thing every program of a   *)
(* page does, so they are operators here, used by the actions that program *)
(* a page; what they do when the block is full (AllocRw, AllocOw) can      *)
(* start a garbage collection and is made of actions of its own.           *)
(*                                                                         *)
(* The SW log is left out: nothing in the source ever gives SWCtrl.logLpn  *)
(* a block, so the branches that use it are never taken.                   *)
(***************************************************************************)
EXTENDS FtlState

(* Frames.  check: the caller is increaseRWLpn, which looks at the space   *)
(* that is left; count: garbage collections so far.                        *)
AllocRwFrame == [op : {"AllocRw"}, bank : Bank, check : BOOLEAN]
SpaceFrame   == [op : {"CheckSpace"}, bank : Bank]
AllocOwFrame == [op : {"AllocOw"}, bank : Bank, count : 0 .. 10]
GcFrame      == [op : {"Gc"}, bank : Bank]

(* A mutant: the block taken stays at the front of the clean list. *)
MutNotPopped(b) == clean

(* cleanListSize and cleanListPop *)
Scarce(b) == Len(clean[b]) <= 1
Popped(b) == [clean EXCEPT ![b] = Tail(@)]

(* RWCtrl after cleanListPop gave it a block. *)
FreshRw(b) == [rwCtrl EXCEPT ![b] = [lbn |-> Head(clean[b]), page |-> 0, isOw |-> FALSE]]

-----------------------------------------------------------------------------
(* getRWLpn, when the bank has no W block yet: the top function is about   *)
(* to program a W page of that bank.                                       *)
GetRWLpn ==
    /\ \E op \in {"FlushW", "WritePage", "GcCopy"} : Running(op)
    /\ rwCtrl[Top.bank].lbn = NoBlk
    /\ stk' = Append(stk, [op |-> "AllocRw", bank |-> Top.bank, check |-> FALSE])
    /\ UNCHANGED <<chunksMap, flashVars, logVars, heapVars, bufVars, gcNest, refBank, err, written>>

(* A mutant: the pages of the list start at 1. *)
MutNoted(list, q, lpns) == [x \in Page \X Slot |-> IF x[1] = q - 1 THEN lpns[x[2]] ELSE list[x]]

(* chunkInLpnsList: page q of the list names the owners of its chunks. *)
Noted(list, q, lpns) == [x \in Page \X Slot |-> IF x[1] = q THEN lpns[x[2]] ELSE list[x]]

(* increaseRWLpn(b), list being the W block's list with the page just      *)
(* programmed, lists the list pages of the flash, and callers the stack it *)
(* returns to.  A full block gets its list page and enters the heap.       *)
IncreaseRWLpn(b, list, lists, callers) ==
    LET l == rwCtrl[b].lbn IN
    IF rwCtrl[b].page = LastPage
    THEN /\ flashList' = [lists EXCEPT ![<<b, l, "W">>] = list]
         /\ rwList' = [rwList EXCEPT ![b] = EmptyList]
         /\ wHeap' = [wHeap EXCEPT ![b] = @ \cup {l}]
         /\ stk' = Append(callers, [op |-> "AllocRw", bank |-> b, check |-> TRUE])
         /\ UNCHANGED rwCtrl
    ELSE /\ flashList' = lists
         /\ rwList' = [rwList EXCEPT ![b] = list]
         /\ rwCtrl' = [rwCtrl EXCEPT ![b].page = @ + IF rwCtrl[b].isOw THEN 2 ELSE 1]
         /\ stk' = callers
         /\ UNCHANGED wHeap

(* There are blocks to spare: take the oldest clean one. *)
AllocRwPop ==
    /\ Running("AllocRw")
    /\ LET b == Top.bank
       IN  /\ ~Scarce(b)
           /\ rwCtrl' = FreshRw(b)
           /\ clean' = Popped(b)
           /\ stk' = Below
    /\ UNCHANGED <<chunksMap, flashVars, owCtrl, rwList, owList, heapVars, bufVars,
                   gcNest, refBank, err, written>>

(* sealOWBlk reads the block's list back and clears the overwrite bit of   *)
(* every chunk the list leads to: for each slot, the first chunk of the    *)
(* logical page that is mapped there.                                      *)
SealedMap(b, l) ==
    LET list == flashList[<<b, l, "OW">>]
        Owner(c, p, s) == /\ list[<<p, s>>] = c[1]
                          /\ chunksMap[c] = <<"FlashOwLog", b, l, p, s>>
                          /\ \A i \in Slot : i < c[2] => chunksMap[<<c[1], i>>] # chunksMap[c]
    IN  [c \in Chunk |->
            IF \E p \in LowPage, s \in Slot : Owner(c, p, s)
            THEN [chunksMap[c] EXCEPT ![1] = "FlashWLog"] ELSE chunksMap[c]]

(* A mutant: the block starts again as a W block with the count of one. *)
MutSealedAsNew(n) == ChunksPerLogBlk

(* setValidChunks: the count of the OW block goes with it. *)
SealedCount(n) == n

SealedList(b, l) == flashList[<<b, l, "OW">>]

(* sealOWBlk: the best OW block becomes the W block of the bank, to be     *)
(* filled from page 2 on, every other page.                                *)
SealOWBlk ==
    /\ Running("AllocRw")
    /\ LET b == Top.bank
       IN  /\ Scarce(b)
           /\ OwMin(b) >= HighChunks
           /\ OwIsBetter(b)
           /\ \E l \in Victims(owValid, owHeap, b) :
                  /\ wValid' = [wValid EXCEPT ![<<b, l>>] = SealedCount(owValid[<<b, l>>])]
                  /\ owValid' = [owValid EXCEPT ![<<b, l>>] = ChunksPerOwBlk]
                  /\ owHeap' = [owHeap EXCEPT ![b] = @ \ {l}]
                  /\ owCounter' = [x \in DOMAIN owCounter |->
                                      IF x[1] = b /\ x[2] = l THEN 0 ELSE owCounter[x]]
                  /\ rwCtrl' = [rwCtrl EXCEPT ![b] = [lbn |-> l, page |-> 2, isOw |-> TRUE]]
                  /\ rwList' = [rwList EXCEPT ![b] = SealedList(b, l)]
                  /\ chunksMap' = SealedMap(b, l)
           /\ err' = ErrUnless(Top.check => Len(clean[b]) >= 1, "out of space")
           /\ stk' = Below
    /\ UNCHANGED <<flash, flashList, owCtrl, owList, clean, wHeap, bufVars, gcNest,
                   refBank, written>>

(* Otherwise the bank takes its last clean block, and garbage collection   *)
(* gives one back.                                                         *)
AllocRwGc ==
    /\ Running("AllocRw")
    /\ LET b == Top.bank
       IN  /\ Scarce(b)
           /\ OwMin(b) >= HighChunks
           /\ ~OwIsBetter(b)
           /\ clean[b] # << >>
           /\ rwCtrl' = FreshRw(b)
           /\ clean' = Popped(b)
           /\ stk' = Append(IF Top.check THEN At([op |-> "CheckSpace", bank |-> b]) ELSE Below,
                            [op |-> "Gc", bank |-> b])
    /\ UNCHANGED <<chunksMap, flashVars, owCtrl, rwList, owList, heapVars, bufVars,
                   gcNest, refBank, err, written>>

(* The while(1) of this part of the code, and of the functions it calls:   *)
(* an OW block with impossible counts, no OW block to seal, no clean block *)
(* to take.                                                                *)
AllocRwHang ==
    /\ Running("AllocRw")
    /\ LET b == Top.bank
       IN  /\ Scarce(b)
           /\ \/ OwMin(b) < HighChunks /\ Hang("OW block below its free chunks")
              \/ /\ OwMin(b) >= HighChunks /\ OwIsBetter(b)
                 /\ owHeap[b] = {} /\ Hang("no OW block to seal")
              \/ /\ OwMin(b) >= HighChunks /\ ~OwIsBetter(b)
                 /\ clean[b] = << >> /\ Hang("pop of an empty clean list")

(* The end of increaseRWLpn. *)
CheckSpace ==
    /\ Running("CheckSpace")
    /\ err' = ErrUnless(Len(clean[Top.bank]) >= 1, "out of space")
    /\ stk' = Below
    /\ UNCHANGED <<chunksMap, flashVars, logVars, heapVars, bufVars, gcNest, refBank, written>>

-----------------------------------------------------------------------------
(* getOWLpn, when the bank has no OW block. *)
GetOWLpn ==
    /\ \E op \in {"FlushOw", "OwPage"} : Running(op)
    /\ owCtrl[Top.bank].lbn = NoBlk
    /\ stk' = Append(stk, [op |-> "AllocOw", bank |-> Top.bank, count |-> 0])
    /\ UNCHANGED <<chunksMap, flashVars, logVars, heapVars, bufVars, gcNest, refBank, err, written>>

(* increaseOWLpn(b), with the parameters of IncreaseRWLpn. *)
IncreaseOWLpn(b, list, callers) ==
    LET l == owCtrl[b].lbn
        p == owCtrl[b].page
    IN  /\ owList' = [owList EXCEPT ![b] = list]
        /\ IF p = LastLowPage
           THEN /\ flashList' = [flashList EXCEPT ![<<b, l, "OW">>] = list]
                /\ owHeap' = [owHeap EXCEPT ![b] = @ \cup {l}]
                /\ owCtrl' = [owCtrl EXCEPT ![b].lbn = NoBlk]
                /\ stk' = Append(callers, [op |-> "AllocOw", bank |-> b, count |-> 0])
           ELSE /\ owCtrl' = [owCtrl EXCEPT ![b].page = IF p = 0 THEN 1 ELSE p + 2]
                /\ stk' = callers
                /\ UNCHANGED <<flashList, owHeap>>

AllocOwPop ==
    /\ Running("AllocOw")
    /\ LET b == Top.bank
       IN  /\ ~Scarce(b)
           /\ owCtrl' = [owCtrl EXCEPT ![b] = [lbn |-> Head(clean[b]), page |-> 0]]
           /\ owList' = [owList EXCEPT ![b] = EmptyList]
           /\ clean' = Popped(b)
           /\ stk' = Below
    /\ UNCHANGED <<chunksMap, flashVars, rwCtrl, rwList, heapVars, bufVars, gcNest,
                   refBank, err, written>>

(* "could not free a block after 10 GC" *)
AllocOwGc ==
    /\ Running("AllocOw")
    /\ Scarce(Top.bank)
    /\ IF Top.count = 10
       THEN Hang("no block after 10 garbage collections")
       ELSE /\ stk' = Append(At([Top EXCEPT !.count = @ + 1]), [op |-> "Gc", bank |-> Top.bank])
            /\ UNCHANGED <<chunksMap, flashVars, logVars, heapVars, bufVars, gcNest,
                           refBank, err, written>>

LogNext == \/ GetRWLpn \/ AllocRwPop \/ SealOWBlk \/ AllocRwGc \/ AllocRwHang \/ CheckSpace
           \/ GetOWLpn \/ AllocOwPop \/ AllocOwGc
=============================================================================
