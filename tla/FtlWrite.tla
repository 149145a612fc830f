------------------------------ MODULE FtlWrite ------------------------------
(***************************************************************************)
(* Writes of the host: write.c, and the parts of ftl.c around it (trim,    *)
(* the cleaning that follows every write).                                 *)
(*                                                                         *)
(* A whole page goes to the next bank's W block, the copies of its chunks  *)
(* having been invalidated first.  Chunks written one by one gather in the *)
(* bank's log buffer until they fill a page.                               *)
(***************************************************************************)
EXTENDS FtlGc

CleanFrame == [op : {"Clean"}, bank : 0 .. NumBanks]
WritePageFrame   == [op : {"WritePage"}, bank : Bank, lpn : Lpn]
WriteChunksFrame == [op : {"WriteChunks"}, bank : Bank, lpn : Lpn, todo : Seq(Piece)]

ChunksOf(lpn, pieces) == {<<lpn, pieces[i].idx>> : i \in DOMAIN pieces}
WholePage(pieces) == Len(pieces) = ChunksPerPage /\ \A i \in DOMAIN pieces : ~pieces[i].part

(* The host has sent new data for chunks cs (or, new = FALSE, trimmed      *)
(* them).  The next request is only taken when the previous one is over.   *)
Receive(cs, new) ==
    /\ err = "none"
    /\ stk = << >>
    /\ written' = [c \in Chunk |-> IF c \in cs THEN new ELSE written[c]]

StartClean == [op |-> "Clean", bank |-> 0]

-----------------------------------------------------------------------------
(* trimRange: chunks covered in part are only warned about. *)
TrimRequest(lpn, pieces) ==
    LET whole == {<<lpn, pieces[i].idx>> : i \in {j \in DOMAIN pieces : ~pieces[j].part}}
    IN  /\ Receive(whole, FALSE)
        /\ ManageOld(whole)
        /\ chunksMap' = [c \in Chunk |-> IF c \in whole THEN Invalid ELSE chunksMap[c]]
        /\ UNCHANGED <<flashVars, logVars, wHeap, owHeap, chunkPtr, owChunkPtr,
                       gcNest, refBank, stk>>

(* writeToLogBlk, the whole page. *)
WritePageRequest(lpn, pieces) ==
    /\ WholePage(pieces)
    /\ Receive(ChunksOf(lpn, pieces), TRUE)
    /\ refBank' = NextBank
    /\ ManageOld(ChunksOf(lpn, pieces))
    /\ stk' = <<StartClean, [op |-> "WritePage", bank |-> NextBank, lpn |-> lpn]>>
    /\ UNCHANGED <<chunksMap, flashVars, logVars, wHeap, owHeap, chunkPtr, owChunkPtr, gcNest>>

(* writeToLogBlk, less than a page. *)
WriteChunksRequest(lpn, pieces) ==
    /\ ~WholePage(pieces)
    /\ Receive(ChunksOf(lpn, pieces), TRUE)
    /\ refBank' = NextBank
    /\ stk' = <<StartClean, [op |-> "WriteChunks", bank |-> NextBank, lpn |-> lpn, todo |-> pieces]>>
    /\ UNCHANGED <<chunksMap, flashVars, logVars, heapVars, bufVars, gcNest, err>>

(* writeCompletePage *)
WritePage ==
    /\ Running("WritePage")
    /\ rwCtrl[Top.bank].lbn # NoBlk
    /\ LET b  == Top.bank
           l  == rwCtrl[b].lbn
           q  == rwCtrl[b].page
           cs == {Top.lpn} \X Slot
           list == Noted(rwList[b], q, [s \in Slot |-> Top.lpn])
       IN  /\ flash' = [FlashWithout(cs) EXCEPT ![<<b, l, q>>] = [s \in Slot |-> <<Top.lpn, s>>]]
           /\ logBuf' = BufWithout(logBuf, cs)
           /\ owBuf' = BufWithout(owBuf, cs)
           /\ chunksMap' = [c \in Chunk |->
                  IF c \in cs THEN <<"FlashWLog", b, l, q, c[2]>> ELSE chunksMap[c]]
           /\ IncreaseRWLpn(b, list, flashList, Below)
    /\ UNCHANGED <<owCounter, owCtrl, owList, clean, wValid, owValid, owHeap, chunkPtr,
                   owChunkPtr, gcNest, refBank, err, written>>

(* writeChunkOld, the chunk being in the log buffer: it is updated there. *)
WriteChunkInPlace ==
    /\ Running("WriteChunks")
    /\ Top.todo # << >>
    /\ LET c   == <<Top.lpn, Head(Top.todo).idx>>
           old == Where(c)
       IN  /\ old \in DRAMWLog
           /\ logBuf' = [BufWithout(logBuf, {c}) EXCEPT
                            ![old[2]][old[3]].data = Merged(c, Head(Top.todo).part)]
           /\ owBuf' = BufWithout(owBuf, {c})
           /\ flash' = FlashWithout({c})
           /\ stk' = At([Top EXCEPT !.todo = Tail(@)])
    /\ UNCHANGED <<chunksMap, flashList, owCounter, logVars, heapVars, chunkPtr, owChunkPtr,
                   gcNest, refBank, err, written>>

(* The OW buffer once chunk c is in the log buffer. *)
OwBufWithout(c) == BufWithout(Unmapped(owBuf, {c}, "DRAMOwLog"), {c})

(* writeChunkOld otherwise: it takes the next slot of the bank's log       *)
(* buffer (updateDramBufMetadata, updateChunkPtr).                         *)
WriteChunk ==
    /\ Running("WriteChunks")
    /\ Top.todo # << >>
    /\ LET c == <<Top.lpn, Head(Top.todo).idx>>
           b == Top.bank
           s == chunkPtr[b]
           rest == At([Top EXCEPT !.todo = Tail(@)])
       IN  /\ Where(c) \notin DRAMWLog
           /\ OldCounts({c})
           /\ logBuf' = [BufWithout(logBuf, {c}) EXCEPT ![b][s] =
                            [lpn |-> c[1], idx |-> c[2], data |-> Merged(c, Head(Top.todo).part)]]
           /\ owBuf' = OwBufWithout(c)
           /\ flash' = FlashWithout({c})
           /\ chunksMap' = [chunksMap EXCEPT ![c] = <<"DRAMWLog", b, s>>]
           /\ chunkPtr' = [chunkPtr EXCEPT ![b] = (s + 1) % ChunksPerPage]
           /\ stk' = IF s + 1 = ChunksPerPage
                     THEN Append(rest, [op |-> "FlushW", bank |-> b]) ELSE rest
    /\ UNCHANGED <<flashList, owCounter, logVars, wHeap, owHeap, owChunkPtr, gcNest, refBank, written>>

WriteChunksDone ==
    /\ Running("WriteChunks")
    /\ Top.todo = << >>
    /\ stk' = Below
    /\ UNCHANGED <<chunksMap, flashVars, logVars, heapVars, bufVars, gcNest, refBank, err, written>>

-----------------------------------------------------------------------------
(* backgroundCleaning: of the banks that are not busy (any may be), those  *)
(* whose best W block holds nothing valid collect it.                      *)
CleanGc ==
    /\ Running("Clean")
    /\ \E b \in Top.bank .. NumBanks - 1 :
          /\ WMin(b) = 0
          /\ stk' = Append(At([Top EXCEPT !.bank = b + 1]), [op |-> "Gc", bank |-> b])
    /\ UNCHANGED <<chunksMap, flashVars, logVars, heapVars, bufVars, gcNest, refBank, err, written>>

CleanDone ==
    /\ Running("Clean")
    /\ stk' = Below
    /\ UNCHANGED <<chunksMap, flashVars, logVars, heapVars, bufVars, gcNest, refBank, err, written>>

WriteStep == WritePage \/ WriteChunkInPlace \/ WriteChunk \/ WriteChunksDone
             \/ CleanGc \/ CleanDone

WriteNext == \/ WriteStep
             \/ \E lpn \in Lpn, r \in Requests :
                   \/ r.kind = "trim"  /\ TrimRequest(lpn, r.pieces)
                   \/ r.kind = "write" /\ WritePageRequest(lpn, r.pieces)
                   \/ r.kind = "write" /\ WriteChunksRequest(lpn, r.pieces)
=============================================================================
