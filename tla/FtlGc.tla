------------------------------- MODULE FtlGc --------------------------------
(***************************************************************************)
(* Garbage collection of a log block (garbage_collection.c, and the        *)
(* functions of write.c it writes chunks with).                            *)
(*                                                                         *)
(* A collection copies the valid chunks of the victim, page by page: a     *)
(* page whose chunks are all valid is copied whole to the W block of the   *)
(* next bank, from other pages the chunks go one by one to the log buffers *)
(* of the next banks.  Both can fill a block of the destination and so     *)
(* start another collection before this one is over.                       *)
(*                                                                         *)
(* GC_BUF and VICTIM_LPN_LIST belong to one bank and nesting level, hence  *)
(* to one activation: the chunks read from the victim are a local of the   *)
(* frame (pending), and the list, which does not change before the victim  *)
(* is erased, is read where the flash holds it.                            *)
(***************************************************************************)
EXTENDS FtlLog

(* The block being collected: from the OW heap or the W heap, and how many *)
(* valid chunks the heap promised.                                         *)
Job == [bank : Bank, lbn : Lbn, ow : BOOLEAN, expected : Nat]
GcScanFrame == [op : {"GcScan"}, job : Job, page : Nat, found : Nat]
GcCopyFrame == [op : {"GcCopy"}, bank : Bank, job : Job, page : Page, found : Nat,
                chunks : [Slot -> Chunk]]
GcChunksFrame == [op : {"GcChunks"}, job : Job, page : Page, found : Nat,
                  pending : Seq([chunk : Chunk, data : Content])]
FlushWFrame == [op : {"FlushW"}, bank : Bank]

(* A mutant: the overwrite bit is not masked when the list of an OW victim *)
(* is compared with the map.                                               *)
MutBitNotMasked(j, p, s, c) ==
    /\ flashList[<<j.bank, j.lbn, IF j.ow THEN "OW" ELSE "W">>][<<p, s>>] = c[1]
    /\ chunksMap[c] = <<"FlashWLog", j.bank, j.lbn, p, s>>

(* A mutant: a listed chunk is taken for valid wherever the map has it. *)
MutStaleCopied(j, p, s, c) ==
    /\ flashList[<<j.bank, j.lbn, IF j.ow THEN "OW" ELSE "W">>][<<p, s>>] = c[1]
    /\ c[2] = s

(* The chunk of the listed logical page is where the list has it; the      *)
(* overwrite bit does not matter.                                          *)
Maps(j, p, s, c) ==
    /\ flashList[<<j.bank, j.lbn, IF j.ow THEN "OW" ELSE "W">>][<<p, s>>] = c[1]
    /\ chunksMap[c] \in {<<"FlashWLog", j.bank, j.lbn, p, s>>, <<"FlashOwLog", j.bank, j.lbn, p, s>>}

Owners(j, p, s) == {c \in Chunk : Maps(j, p, s, c)}
(* The first chunk of the logical page that fits. *)
Owner(j, p, s) == CHOOSE c \in Owners(j, p, s) : \A d \in Owners(j, p, s) : c[2] <= d[2]
ValidSlots(j, p) == {s \in Slot : Owners(j, p, s) # {}}
PagesLeft(f) == {p \in Page : p >= f.page /\ ValidSlots(f.job, p) # {}}

(* set_log_vbn, nand_block_erase, ret_free_vbn, cleanListPush: the victim  *)
(* is erased and clean again.  (That the erased block changes its physical *)
(* address with a spare one is the subject of BlockMap.)                   *)
ErasedFlash(j, fl) == [x \in DOMAIN fl |->
    IF x[1] = j.bank /\ x[2] = j.lbn THEN [s \in Slot |-> Erased] ELSE fl[x]]
ErasedLists(j) == [x \in DOMAIN flashList |->
    IF x[1] = j.bank /\ x[2] = j.lbn THEN EmptyList ELSE flashList[x]]

(* A mutant: the erased block is not put on the clean list. *)
MutNotPushed(j) == clean

Pushed(j) == [clean EXCEPT ![j.bank] = Append(@, j.lbn)]

-----------------------------------------------------------------------------
ChoosesOw(b) == OwIsBetter(b)

(* A mutant: a block starts its next life with the count of the last. *)
MutCountKept(n, full) == n

(* resetValidChunksAndRemove: the count of a block that left its heap. *)
ResetCount(n, full) == full

GcStartHang ==
    /\ Running("Gc")
    /\ LET b == Top.bank
       IN  \/ gcNest[b] >= 2 /\ Hang("garbage collection nested too deep")
           \/ gcNest[b] < 2 /\ OwMin(b) < HighChunks /\ Hang("OW block below its free chunks")
           \/ gcNest[b] < 2 /\ wHeap[b] = {} /\ owHeap[b] = {} /\ Hang("nothing to collect")

(* The victim leaves its heap with its count set for its next life.        *)
GcStart ==
    /\ Running("Gc")
    /\ LET b == Top.bank
           scan(l, ow, n) == At([op |-> "GcScan", page |-> 0, found |-> 0,
                                 job |-> [bank |-> b, lbn |-> l, ow |-> ow, expected |-> n]])
       IN  /\ gcNest[b] < 2
           /\ OwMin(b) >= HighChunks
           /\ gcNest' = [gcNest EXCEPT ![b] = @ + 1]
           /\ IF ChoosesOw(b)
              THEN \E l \in Victims(owValid, owHeap, b) :
                      /\ owValid' = [owValid EXCEPT ![<<b, l>>] = ResetCount(@, ChunksPerOwBlk)]
                      /\ owHeap' = [owHeap EXCEPT ![b] = @ \ {l}]
                      /\ owCounter' = [x \in DOMAIN owCounter |->
                                          IF x[1] = b /\ x[2] = l THEN 0 ELSE owCounter[x]]
                      /\ stk' = scan(l, TRUE, OwMin(b) - HighChunks)
                      /\ UNCHANGED <<wValid, wHeap>>
              ELSE \E l \in Victims(wValid, wHeap, b) :
                      /\ wValid' = [wValid EXCEPT ![<<b, l>>] = ResetCount(@, ChunksPerLogBlk)]
                      /\ wHeap' = [wHeap EXCEPT ![b] = @ \ {l}]
                      /\ stk' = scan(l, FALSE, WMin(b))
                      /\ UNCHANGED <<owValid, owHeap, owCounter>>
    /\ UNCHANGED <<chunksMap, flash, flashList, logVars, bufVars, refBank, err, written>>

(* Nothing was valid, or the loop has passed the last page: erase.         *)
GcEnd ==
    /\ Running("GcScan")
    /\ LET j == Top.job
       IN  /\ j.expected = 0 \/ PagesLeft(Top) = {}
           /\ flash' = ErasedFlash(j, flash)
           /\ flashList' = ErasedLists(j)
           /\ clean' = Pushed(j)
           /\ gcNest' = [gcNest EXCEPT ![j.bank] = @ - 1]
           /\ stk' = Below
    /\ UNCHANGED <<chunksMap, owCounter, rwCtrl, owCtrl, rwList, owList, heapVars,
                   bufVars, refBank, err, written>>

(* The next page with valid chunks.  When all are valid it goes to the     *)
(* next bank's W block.                                                    *)
GcFullPage ==
    /\ Running("GcScan")
    /\ Top.job.expected > 0
    /\ PagesLeft(Top) # {}
    /\ LET p == Min(PagesLeft(Top))
       IN  /\ ValidSlots(Top.job, p) = Slot
           /\ refBank' = NextBank
           /\ stk' = At([op |-> "GcCopy", bank |-> NextBank, job |-> Top.job, page |-> p,
                         found |-> Top.found + ChunksPerPage,
                         chunks |-> [s \in Slot |-> Owner(Top.job, p, s)]])
    /\ UNCHANGED <<chunksMap, flashVars, logVars, heapVars, bufVars, gcNest, err, written>>

(* The copy of a whole page.  When it was the last the victim is erased    *)
(* before increaseRWLpn, so that it can be reused at once.                 *)
GcCopyPage ==
    /\ Running("GcCopy")
    /\ rwCtrl[Top.bank].lbn # NoBlk
    /\ LET d    == Top.bank
           j    == Top.job
           l    == rwCtrl[d].lbn
           q    == rwCtrl[d].page
           last == Top.found = j.expected
           list == Noted(rwList[d], q, [s \in Slot |-> Top.chunks[s][1]])
           copy == [flash EXCEPT ![<<d, l, q>>] = flash[<<j.bank, j.lbn, Top.page>>]]
       IN  /\ chunksMap' = [c \in Chunk |->
                  IF \E s \in Slot : Top.chunks[s] = c
                  THEN <<"FlashWLog", d, l, q, CHOOSE s \in Slot : Top.chunks[s] = c>>
                  ELSE chunksMap[c]]
           /\ flash' = IF last THEN ErasedFlash(j, copy) ELSE copy
           /\ clean' = IF last THEN Pushed(j) ELSE clean
           /\ gcNest' = IF last THEN [gcNest EXCEPT ![j.bank] = @ - 1] ELSE gcNest
           /\ IncreaseRWLpn(d, list, IF last THEN ErasedLists(j) ELSE flashList,
                  IF last THEN Below
                  ELSE At([op |-> "GcScan", page |-> Top.page + 1, found |-> Top.found, job |-> j]))
    /\ UNCHANGED <<owCounter, owCtrl, owList, wValid, owValid, owHeap, bufVars, refBank, err, written>>

(* Other pages are read into GC_BUF; after the last one the victim is      *)
(* erased before its chunks are written anywhere.                          *)
GcPartialPage ==
    /\ Running("GcScan")
    /\ Top.job.expected > 0
    /\ PagesLeft(Top) # {}
    /\ LET j     == Top.job
           p     == Min(PagesLeft(Top))
           valid == ValidSlots(j, p)
           found == Top.found + Cardinality(valid)
           nth(i) == CHOOSE s \in valid : Cardinality({t \in valid : t < s}) = i - 1
       IN  /\ valid # Slot
           /\ stk' = At([op |-> "GcChunks", job |-> j, page |-> p, found |-> found,
                         pending |-> [i \in 1 .. Cardinality(valid) |->
                             [chunk |-> Owner(j, p, nth(i)), data |-> flash[<<j.bank, j.lbn, p>>][nth(i)]]]])
           /\ IF found = j.expected
              THEN /\ flash' = ErasedFlash(j, flash)
                   /\ flashList' = ErasedLists(j)
                   /\ clean' = Pushed(j)
              ELSE UNCHANGED <<flash, flashList, clean>>
    /\ UNCHANGED <<chunksMap, owCounter, rwCtrl, owCtrl, rwList, owList, heapVars,
                   bufVars, gcNest, refBank, err, written>>

(* writeChunkOnLogBlockDuringGC, updateDramBufMetadataDuringGc and         *)
(* updateChunkPtrDuringGC.                                                 *)
GcWriteChunk ==
    /\ Running("GcChunks")
    /\ Top.pending # << >>
    /\ LET d == NextBank
           s == chunkPtr[d]
           x == Head(Top.pending)
           rest == At([Top EXCEPT !.pending = Tail(@)])
       IN  /\ refBank' = d
           /\ logBuf' = [logBuf EXCEPT ![d][s] =
                            [lpn |-> x.chunk[1], idx |-> x.chunk[2], data |-> x.data]]
           /\ chunksMap' = [chunksMap EXCEPT ![x.chunk] = <<"DRAMWLog", d, s>>]
           /\ chunkPtr' = [chunkPtr EXCEPT ![d] = (s + 1) % ChunksPerPage]
           /\ stk' = IF s + 1 = ChunksPerPage
                     THEN Append(rest, [op |-> "FlushW", bank |-> d]) ELSE rest
    /\ UNCHANGED <<flashVars, logVars, heapVars, owBuf, owChunkPtr, gcNest, err, written>>

GcPageDone ==
    /\ Running("GcChunks")
    /\ Top.pending = << >>
    /\ LET j == Top.job
       IN  IF Top.found = j.expected
           THEN /\ gcNest' = [gcNest EXCEPT ![j.bank] = @ - 1]
                /\ stk' = Below
           ELSE /\ stk' = At([op |-> "GcScan", page |-> Top.page + 1, found |-> Top.found, job |-> j])
                /\ UNCHANGED gcNest
    /\ UNCHANGED <<chunksMap, flashVars, logVars, heapVars, bufVars, refBank, err, written>>

-----------------------------------------------------------------------------
(* A mutant: slots that lost their lpn keep their place in the count. *)
MutHolesCounted(b) == wValid[<<b, rwCtrl[b].lbn>>]

(* The count of the W block once the holes of the buffer are taken off.    *)
CountAfterFlush(b) ==
    wValid[<<b, rwCtrl[b].lbn>>] - Cardinality({s \in Slot : logBuf[b][s].lpn = NoLpn})

(* flushLogBuffer and flushLogBufferDuringGC: the log buffer becomes the   *)
(* next page of the bank's W block.                                        *)
FlushW ==
    /\ Running("FlushW")
    /\ rwCtrl[Top.bank].lbn # NoBlk
    /\ LET b == Top.bank
           l == rwCtrl[b].lbn
           q == rwCtrl[b].page
           from(c) == {s \in Slot : logBuf[b][s].lpn = c[1] /\ logBuf[b][s].idx = c[2]}
           list == Noted(rwList[b], q, [s \in Slot |-> logBuf[b][s].lpn])
       IN  /\ flash' = [flash EXCEPT ![<<b, l, q>>] = [s \in Slot |-> logBuf[b][s].data]]
           /\ chunksMap' = [c \in Chunk |->
                  IF from(c) = {} THEN chunksMap[c] ELSE <<"FlashWLog", b, l, q, Max(from(c))>>]
           /\ wValid' = [wValid EXCEPT ![<<b, l>>] = Max({CountAfterFlush(b), 0})]
           /\ err' = ErrUnless(CountAfterFlush(b) >= 0, "valid chunks below 0")
           /\ IncreaseRWLpn(b, list, flashList, Below)
    /\ UNCHANGED <<owCounter, owCtrl, owList, clean, owValid, owHeap, bufVars, gcNest, refBank, written>>

GcNext == GcStartHang \/ GcStart \/ GcEnd \/ GcFullPage \/ GcCopyPage \/ GcPartialPage
          \/ GcWriteChunk \/ GcPageDone \/ FlushW
=============================================================================
