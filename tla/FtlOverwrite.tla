---------------------------- MODULE FtlOverwrite ----------------------------
(***************************************************************************)
(* Overwrites of the host (overwrite.c): writes the host expects to repeat *)
(* soon.  Chunks that lie in the OW log in the order of the request are    *)
(* programmed again where they are, as long as their page stands it; other *)
(* chunks move to the OW log, whole pages at once, single chunks through   *)
(* the bank's OW buffer.                                                   *)
(***************************************************************************)
EXTENDS FtlWrite

OwPageFrame      == [op : {"OwPage"}, bank : Bank, lpn : Lpn]
OwChunksFrame    == [op : {"OwChunks"}, lpn : Lpn, todo : Seq(Piece)]
OwExhaustedFrame == [op : {"OwExhausted"}, bank : Bank, lbn : Lbn, lpn : Lpn,
                     todo : Seq(Piece), moved : Nat]
FlushOwFrame     == [op : {"FlushOw"}, bank : Bank]

(* oldVersionIsInOwLogInOrder *)
InOrder(lpn, pieces) ==
    LET first == Where(<<lpn, pieces[1].idx>>)
    IN  /\ first \in FlashOwLog
        /\ \A i \in DOMAIN pieces :
              Where(<<lpn, pieces[i].idx>>) = [first EXCEPT ![5] = pieces[i].idx]

(* A mutant: one program more than the page stands. *)
MutOneMore(x) == owCounter[x] <= OwLimit

CanProgramAgain(x) == owCounter[x] < OwLimit

(* The page x after the pieces were programmed over it. *)
Reprogrammed(x, lpn, pieces) ==
    [s \in Slot |-> IF \E i \in DOMAIN pieces : pieces[i].idx = s
                    THEN Merged(<<lpn, s>>, \E i \in DOMAIN pieces : pieces[i] = [idx |-> s, part |-> TRUE])
                    ELSE FlashWithout(ChunksOf(lpn, pieces))[x][s]]

-----------------------------------------------------------------------------
(* The four ways an overwrite can go.                                      *)

(* overwritePageOldInOrderInOwLog below the limit. *)
OverwriteInPlace(lpn, pieces) ==
    /\ InOrder(lpn, pieces)
    /\ Receive(ChunksOf(lpn, pieces), TRUE)
    /\ LET old == Where(<<lpn, pieces[1].idx>>)
           x   == <<old[2], old[3], old[4]>>
       IN  /\ CanProgramAgain(x)
           /\ flash' = [FlashWithout(ChunksOf(lpn, pieces)) EXCEPT ![x] = Reprogrammed(x, lpn, pieces)]
           /\ owCounter' = [owCounter EXCEPT ![x] = @ + 1]
           /\ logBuf' = BufWithout(logBuf, ChunksOf(lpn, pieces))
           /\ owBuf' = BufWithout(owBuf, ChunksOf(lpn, pieces))
    /\ stk' = <<StartClean>>
    /\ UNCHANGED <<chunksMap, flashList, logVars, heapVars, chunkPtr, owChunkPtr,
                   gcNest, refBank, err>>

Exhausted(lpn, pieces) ==
    LET old == Where(<<lpn, pieces[1].idx>>)
    IN  InOrder(lpn, pieces) /\ ~CanProgramAgain(<<old[2], old[3], old[4]>>)

(* overwriteCompletePageInOwLog, up to getOWLpn: the old copies are given  *)
(* up before there is a page for the new ones.                             *)
OverwritePageRequest(lpn, pieces) ==
    /\ WholePage(pieces)
    /\ InOrder(lpn, pieces) => Exhausted(lpn, pieces)
    /\ Receive(ChunksOf(lpn, pieces), TRUE)
    /\ refBank' = NextBank
    /\ ManageOld(ChunksOf(lpn, pieces))
    /\ stk' = <<StartClean, [op |-> "OwPage", bank |-> NextBank, lpn |-> lpn]>>
    /\ UNCHANGED <<chunksMap, flashVars, logVars, wHeap, owHeap, chunkPtr, owChunkPtr, gcNest>>

(* overwritePageOldInOrderInOwLog at the limit: the chunks will move, and  *)
(* the block they are in now is remembered to be told at the end.          *)
OverwriteExhaustedRequest(lpn, pieces) ==
    /\ ~WholePage(pieces)
    /\ Exhausted(lpn, pieces)
    /\ Receive(ChunksOf(lpn, pieces), TRUE)
    /\ refBank' = NextBank
    /\ LET old == Where(<<lpn, pieces[1].idx>>)
       IN  stk' = <<StartClean, [op |-> "OwExhausted", bank |-> old[2], lbn |-> old[3],
                                 lpn |-> lpn, todo |-> pieces, moved |-> 0]>>
    /\ UNCHANGED <<chunksMap, flashVars, logVars, heapVars, bufVars, gcNest, err>>

(* overwritePartialPageOldNotInOrder *)
OverwriteChunksRequest(lpn, pieces) ==
    /\ ~WholePage(pieces)
    /\ ~InOrder(lpn, pieces)
    /\ Receive(ChunksOf(lpn, pieces), TRUE)
    /\ stk' = <<StartClean, [op |-> "OwChunks", lpn |-> lpn, todo |-> pieces]>>
    /\ UNCHANGED <<chunksMap, flashVars, logVars, heapVars, bufVars, gcNest, refBank, err>>

-----------------------------------------------------------------------------
(* Chunk by chunk.                                                         *)

(* The piece being written and the frame after it. *)
PieceChunk == <<Top.lpn, Head(Top.todo).idx>>
PieceData  == Merged(PieceChunk, Head(Top.todo).part)
AfterPiece == At([Top EXCEPT !.todo = Tail(@)])

(* overwriteChunkOldInOwBuf: the OW buffer already holds the chunk. *)
OwChunkInBuf ==
    /\ Running("OwChunks")
    /\ Top.todo # << >>
    /\ LET old == Where(PieceChunk)
       IN  /\ old \in DRAMOwLog
           /\ owBuf' = [BufWithout(owBuf, {PieceChunk}) EXCEPT ![old[2]][old[3]].data = PieceData]
           /\ logBuf' = BufWithout(logBuf, {PieceChunk})
           /\ flash' = FlashWithout({PieceChunk})
           /\ stk' = AfterPiece
    /\ UNCHANGED <<chunksMap, flashList, owCounter, logVars, heapVars, chunkPtr, owChunkPtr,
                   gcNest, refBank, err, written>>

(* overwriteChunkOldInOwLog, the page standing another program. *)
OwChunkInPlace ==
    /\ Running("OwChunks")
    /\ Top.todo # << >>
    /\ LET old == Where(PieceChunk)
           x   == <<old[2], old[3], old[4]>>
       IN  /\ old \in FlashOwLog
           /\ CanProgramAgain(x)
           /\ flash' = [FlashWithout({PieceChunk}) EXCEPT ![x][old[5]] = PieceData]
           /\ owCounter' = [owCounter EXCEPT ![x] = @ + 1]
           /\ logBuf' = BufWithout(logBuf, {PieceChunk})
           /\ owBuf' = BufWithout(owBuf, {PieceChunk})
           /\ stk' = AfterPiece
    /\ UNCHANGED <<chunksMap, flashList, logVars, heapVars, chunkPtr, owChunkPtr,
                   gcNest, refBank, err, written>>

(* updateOwDramBufMetadata and updateOwChunkPtr: chunk c takes the next    *)
(* slot of bank b's OW buffer, flushed when it is full.                    *)
ToOwBuf(b, c, data, rest) ==
    LET s == owChunkPtr[b]
    IN  /\ owBuf' = [BufWithout(owBuf, {c}) EXCEPT ![b][s] =
                        [lpn |-> c[1], idx |-> c[2], data |-> data]]
        /\ flash' = FlashWithout({c})
        /\ chunksMap' = [chunksMap EXCEPT ![c] = <<"DRAMOwLog", b, s>>]
        /\ owChunkPtr' = [owChunkPtr EXCEPT ![b] = (s + 1) % ChunksPerPage]
        /\ stk' = IF s + 1 = ChunksPerPage
                  THEN Append(rest, [op |-> "FlushOw", bank |-> b]) ELSE rest

(* overwriteChunkNew, overwriteChunkOldInWLog, overwriteChunkOldInWBuf,    *)
(* and overwriteChunkOldInOwLog when the page is exhausted.                *)
OwChunkNew ==
    /\ Running("OwChunks")
    /\ Top.todo # << >>
    /\ LET c   == PieceChunk
           old == Where(c)
       IN  /\ old \notin DRAMOwLog
           /\ old \in FlashOwLog => ~CanProgramAgain(<<old[2], old[3], old[4]>>)
           /\ refBank' = NextBank
           /\ OldCounts({c})
           /\ logBuf' = BufWithout(Unmapped(logBuf, {c}, "DRAMWLog"), {c})
           /\ ToOwBuf(NextBank, c, PieceData, AfterPiece)
    /\ UNCHANGED <<flashList, owCounter, logVars, wHeap, owHeap, chunkPtr, gcNest, written>>

OwChunksDone ==
    /\ Running("OwChunks")
    /\ Top.todo = << >>
    /\ stk' = Below
    /\ UNCHANGED <<chunksMap, flashVars, logVars, heapVars, bufVars, gcNest, refBank, err, written>>

(* The loop of overwritePageOldInOrderInOwLog.  It takes the chunk to be   *)
(* in flash still: were it in a buffer by now, its address would be taken  *)
(* for that of a page of flash.                                            *)
OwExhaustedChunk ==
    /\ Running("OwExhausted")
    /\ Top.todo # << >>
    /\ LET c == PieceChunk
           inFlash == Where(c) \in FlashWLog \cup FlashOwLog
       IN  /\ refBank' = NextBank
           /\ logBuf' = BufWithout(logBuf, {c})
           /\ ToOwBuf(NextBank, c,
                      IF Head(Top.todo).part /\ ~inFlash THEN Stale ELSE PieceData,
                      At([Top EXCEPT !.todo = Tail(@), !.moved = @ + 1]))
    /\ UNCHANGED <<flashList, owCounter, logVars, heapVars, chunkPtr, gcNest, err, written>>

(* A mutant: the chunks that moved still count in the block they left. *)
MutMovedStillCount(v, n) == v

(* decrementValidChunksByN, in UINT16 arithmetic. *)
MinusN(v, n) == (v - n) % 65536

OwExhaustedDone ==
    /\ Running("OwExhausted")
    /\ Top.todo = << >>
    /\ owValid' = [owValid EXCEPT ![<<Top.bank, Top.lbn>>] = MinusN(@, Top.moved)]
    /\ err' = ErrUnless(owValid[<<Top.bank, Top.lbn>>] # 0, "valid chunks below 0")
    /\ stk' = Below
    /\ UNCHANGED <<chunksMap, flashVars, logVars, wValid, wHeap, owHeap, bufVars, gcNest,
                   refBank, written>>

-----------------------------------------------------------------------------
(* Programs of a page of the bank's OW block.                              *)

(* overwriteCompletePageInOwLog from getOWLpn on. *)
OwPage ==
    /\ Running("OwPage")
    /\ owCtrl[Top.bank].lbn # NoBlk
    /\ LET b  == Top.bank
           l  == owCtrl[b].lbn
           q  == owCtrl[b].page
           cs == {Top.lpn} \X Slot
           list == Noted(owList[b], q, [s \in Slot |-> Top.lpn])
       IN  /\ flash' = [FlashWithout(cs) EXCEPT ![<<b, l, q>>] = [s \in Slot |-> <<Top.lpn, s>>]]
           /\ owCounter' = [owCounter EXCEPT ![<<b, l, q>>] = @ + 1]
           /\ logBuf' = BufWithout(logBuf, cs)
           /\ owBuf' = BufWithout(owBuf, cs)
           /\ chunksMap' = [c \in Chunk |->
                  IF c \in cs THEN <<"FlashOwLog", b, l, q, c[2]>> ELSE chunksMap[c]]
           /\ IncreaseOWLpn(b, list, Below)
    /\ UNCHANGED <<rwCtrl, rwList, clean, wValid, owValid, wHeap, chunkPtr, owChunkPtr,
                   gcNest, refBank, err, written>>

(* flushOwLogBuffer *)
FlushOw ==
    /\ Running("FlushOw")
    /\ owCtrl[Top.bank].lbn # NoBlk
    /\ LET b == Top.bank
           l == owCtrl[b].lbn
           q == owCtrl[b].page
           holes == Cardinality({s \in Slot : owBuf[b][s].lpn = NoLpn})
           from(c) == {s \in Slot : owBuf[b][s].lpn = c[1] /\ owBuf[b][s].idx = c[2]}
           list == Noted(owList[b], q, [s \in Slot |-> owBuf[b][s].lpn])
       IN  /\ flash' = [flash EXCEPT ![<<b, l, q>>] = [s \in Slot |-> owBuf[b][s].data]]
           /\ owCounter' = [owCounter EXCEPT ![<<b, l, q>>] = @ + 1]
           /\ chunksMap' = [c \in Chunk |->
                  IF from(c) = {} THEN chunksMap[c] ELSE <<"FlashOwLog", b, l, q, Max(from(c))>>]
           /\ owValid' = [owValid EXCEPT ![<<b, l>>] = Max({@ - holes, 0})]
           /\ err' = ErrUnless(owValid[<<b, l>>] >= holes, "valid chunks below 0")
           /\ IncreaseOWLpn(b, list, Below)
    /\ UNCHANGED <<rwCtrl, rwList, clean, wValid, wHeap, bufVars, gcNest, refBank, written>>

OverwriteStep == OwChunkInBuf \/ OwChunkInPlace \/ OwChunkNew \/ OwChunksDone
                 \/ OwExhaustedChunk \/ OwExhaustedDone \/ OwPage \/ FlushOw

OverwriteNext ==
    \/ OverwriteStep
    \/ \E lpn \in Lpn, r \in Requests :
          /\ r.kind = "overwrite"
          /\ \/ OverwriteInPlace(lpn, r.pieces)
             \/ OverwritePageRequest(lpn, r.pieces)
             \/ OverwriteExhaustedRequest(lpn, r.pieces)
             \/ OverwriteChunksRequest(lpn, r.pieces)
=============================================================================
