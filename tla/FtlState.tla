------------------------------ MODULE FtlState ------------------------------
(***************************************************************************)
(* The state of the flash translation layer and what every part of it does *)
(* to that state: the geometry (ftl_parameters.h), the metadata kept in    *)
(* SRAM and DRAM (ftl_metadata.h, dram_layout.h), the contents of the      *)
(* flash, and the control stack of the single thread that runs it.         *)
(*                                                                         *)
(* A page holds ChunksPerPage chunks, the unit of the mapping.  A log      *)
(* block is written either in order, all its pages (a W block), or first   *)
(* only its low pages, which tolerate being programmed again (an OW        *)
(* block).  An OW block whose low pages are spent can be sealed: it goes   *)
(* on as a W block on its remaining (high) pages.                          *)
(*                                                                         *)
(* Data is what the properties tell apart: a slot of the flash or of a     *)
(* DRAM buffer holds the latest data the host has sent for some chunk, or  *)
(* stale data, or nothing (erased).                                        *)
(***************************************************************************)
EXTENDS Integers, Sequences, FiniteSets, FiniteSetsExt

CONSTANTS Lpn,           \* logical pages
          NoLpn,         \* INVALID, where a logical page is expected
          NumBanks,      \* NUM_BANKS
          LogBlks,       \* LOG_BLK_PER_BANK
          LowPages,      \* low pages of a block used for overwriting (63)
          ChunksPerPage, \* CHUNKS_PER_PAGE (8)
          OwLimit,       \* programs of a low page between two erases
          Requests       \* the requests the host may send, see Request

Bank == 0 .. NumBanks - 1
Lbn  == 0 .. LogBlks - 1
Slot == 0 .. ChunksPerPage - 1
Block == Bank \X Lbn
Chunk == Lpn \X Slot

Page      == 0 .. 2 * LowPages          \* pages of a block that hold data
LastPage  == 2 * LowPages               \* UsedPagesPerLogBlk - 1
LastLowPage == IF LowPages = 1 THEN 0 ELSE 2 * LowPages - 3     \* 123
LowPage   == {p \in Page : p <= LastLowPage /\ (p = 0 \/ p % 2 = 1)}

ChunksPerLogBlk == (2 * LowPages + 1) * ChunksPerPage   \* CHUNKS_PER_LOG_BLK
ChunksPerOwBlk  == 2 * LowPages * ChunksPerPage         \* CHUNKS_PER_LOG_BLK - 8
HighChunks      == LowPages * ChunksPerPage             \* 504

(* A request covers consecutive chunks of one page, each wholly or in part *)
(* (only the first and the last of a range can be covered in part).        *)
Piece   == [idx : Slot, part : BOOLEAN]
Request == [kind : {"write", "overwrite", "trim"}, pieces : Seq(Piece) \ {<< >>}]

ASSUME GeometryAssumption ==
    /\ NumBanks \in Nat \ {0}
    /\ LogBlks \in Nat \ {0}
    /\ LowPages \in Nat \ {0}
    /\ ChunksPerPage \in Nat \ {0}
    /\ OwLimit \in Nat \ {0}
    /\ NoLpn \notin Lpn

ASSUME RequestsAssumption == Requests \subseteq Request

(* Where a chunk is: findChunkLocation. *)
Invalid   == <<"Invalid">>
FlashWLog  == {"FlashWLog"} \X Bank \X Lbn \X Page \X Slot
FlashOwLog == {"FlashOwLog"} \X Bank \X Lbn \X Page \X Slot
DRAMWLog   == {"DRAMWLog"} \X Bank \X Slot
DRAMOwLog  == {"DRAMOwLog"} \X Bank \X Slot
Location   == {Invalid} \cup FlashWLog \cup FlashOwLog \cup DRAMWLog \cup DRAMOwLog

(* What a slot holds. *)
Erased  == <<"erased">>
Stale   == <<"stale">>
Content == Chunk \cup {Erased, Stale}

LpnOrNone == Lpn \cup {NoLpn}
List      == [Page \X Slot -> LpnOrNone]      \* the lpns in a block, slot by slot
EmptyList == [x \in Page \X Slot |-> NoLpn]
BufSlot   == [lpn : LpnOrNone, idx : Slot, data : Content]

NoBlk  == -1                                   \* INVALID, where a block is expected
RWCtrl == [lbn : Lbn \cup {NoBlk}, page : Page, isOw : BOOLEAN]
OWCtrl == [lbn : Lbn \cup {NoBlk}, page : Page]

VARIABLES
    chunksMap,   \* ChunksMapTable: where each chunk is
    flash,       \* what the data pages hold
    flashList,   \* the list pages of a block: 127 ("W") and 125 ("OW")
    owCounter,   \* OwCounter: programs of a low page since the erase
    rwCtrl,      \* RWCtrl: the W block being filled and its next page
    owCtrl,      \* OWCtrl: the OW block being filled and its next page
    rwList,      \* RWCtrl.lpnsListPtr: its list, in DRAM
    owList,      \* OWCtrl.lpnsListPtr
    clean,       \* cleanListDataWrite, as the queue CleanList implements
    wValid,      \* heapDataWrite: valid chunks of a block
    owValid,     \* heapDataOverwrite: the same for OW blocks
    wHeap,       \* heapDataWrite: the blocks in the heap, all full
    owHeap,      \* heapDataOverwrite: likewise
    logBuf,      \* LOG_BUF and logBufMeta: chunks waiting for a W page
    owBuf,       \* OW_LOG_BUF and owLogBufMeta: for an OW page
    chunkPtr,    \* next slot of logBuf
    owChunkPtr,  \* next slot of owBuf
    gcNest,      \* gcNestLevel
    refBank,     \* referenceBank
    stk,         \* the functions being executed, innermost last
    err,         \* the while(1) the firmware stopped in, or "none"
    written      \* history: the chunks that hold data for the host

flashVars == <<flash, flashList, owCounter>>
logVars   == <<rwCtrl, owCtrl, rwList, owList, clean>>
heapVars  == <<wValid, owValid, wHeap, owHeap>>
bufVars   == <<logBuf, owBuf, chunkPtr, owChunkPtr>>

vars == <<chunksMap, flashVars, logVars, heapVars, bufVars, gcNest, refBank,
          stk, err, written>>

(* format, init_metadata_sram, initLog and ValidChunksHeapInit.  The slots *)
(* of the buffers are written before they are read.                        *)
Init ==
    /\ chunksMap = [c \in Chunk |-> Invalid]
    /\ flash = [x \in Bank \X Lbn \X Page |-> [s \in Slot |-> Erased]]
    /\ flashList = [x \in Bank \X Lbn \X {"W", "OW"} |-> EmptyList]
    /\ owCounter = [x \in Bank \X Lbn \X Page |-> 0]
    /\ rwCtrl = [b \in Bank |-> [lbn |-> NoBlk, page |-> 0, isOw |-> FALSE]]
    /\ owCtrl = [b \in Bank |-> [lbn |-> NoBlk, page |-> 0]]
    /\ rwList = [b \in Bank |-> EmptyList]
    /\ owList = [b \in Bank |-> EmptyList]
    /\ clean = [b \in Bank |-> [i \in 1 .. LogBlks |-> i - 1]]
    /\ wValid = [x \in Block |-> ChunksPerLogBlk]
    /\ owValid = [x \in Block |-> ChunksPerOwBlk]
    /\ wHeap = [b \in Bank |-> {}]
    /\ owHeap = [b \in Bank |-> {}]
    /\ logBuf = [b \in Bank |-> [s \in Slot |-> [lpn |-> NoLpn, idx |-> 0, data |-> Stale]]]
    /\ owBuf = [b \in Bank |-> [s \in Slot |-> [lpn |-> NoLpn, idx |-> 0, data |-> Stale]]]
    /\ chunkPtr = [b \in Bank |-> 0]
    /\ owChunkPtr = [b \in Bank |-> 0]
    /\ gcNest = [b \in Bank |-> 0]
    /\ refBank = 0
    /\ stk = << >>
    /\ err = "none"
    /\ written = [c \in Chunk |-> FALSE]

-----------------------------------------------------------------------------
(* The control stack.  A frame is a function under way: op names the place *)
(* it is at, the other fields are its local variables.                     *)

Top == stk[Len(stk)]
Running(op) == err = "none" /\ Len(stk) > 0 /\ Top.op = op
Below == SubSeq(stk, 1, Len(stk) - 1)           \* the callers of the top function
At(f) == Append(Below, f)                       \* the top function moves on to f
Hang(why) == /\ err' = why
             /\ UNCHANGED <<chunksMap, flashVars, logVars, heapVars, bufVars,
                            gcNest, refBank, stk, written>>

(* A mutant: the bank after the last is not the first. *)
MutNoWrap == refBank + 1

(* chooseNewBank: round robin. *)
NextBank == (refBank + 1) % NumBanks

-----------------------------------------------------------------------------
(* The victim heaps: only the minimum is ever looked at.                   *)

NoVictim == 2 ^ 20    \* INVALID as a count: above every count of a block

(* getVictimValidPagesNumber *)
LeastValid(valid, heap, b) ==
    IF heap[b] = {} THEN NoVictim ELSE Min({valid[<<b, l>>] : l \in heap[b]})
(* getVictim *)
Victims(valid, heap, b) == {l \in heap[b] : valid[<<b, l>>] = LeastValid(valid, heap, b)}

WMin(b)  == LeastValid(wValid, wHeap, b)
OwMin(b) == LeastValid(owValid, owHeap, b)
(* The decision taken three times in log.c and garbage_collection.c: the   *)
(* best OW block has fewer valid chunks than the best W block, its unused  *)
(* high pages, which count as valid, left out.                             *)
OwIsBetter(b) == OwMin(b) - HighChunks < WMin(b)

-----------------------------------------------------------------------------
(* The old copies of chunks.                                               *)

Where(c) == chunksMap[c]
ContentAt(loc) == CASE loc \in FlashWLog \cup FlashOwLog -> flash[<<loc[2], loc[3], loc[4]>>][loc[5]]
                    [] loc \in DRAMWLog -> logBuf[loc[2]][loc[3]].data
                    [] loc \in DRAMOwLog -> owBuf[loc[2]][loc[3]].data
                    [] OTHER -> Erased

(* How many chunks of cs a block holds in the log of that name. *)
Held(cs, log, x) ==
    Cardinality({c \in cs : /\ Where(c) \in FlashWLog \cup FlashOwLog
                            /\ Where(c)[1] = log
                            /\ <<Where(c)[2], Where(c)[3]>> = x})

(* decrementValidChunks for each copy of the chunks of cs in that log.     *)
(* The firmware stops before a count passes 0 (CountsAllow); what follows  *)
(* in the same step is then of no consequence.                             *)
Decremented(valid, cs, log) ==
    [x \in Block |-> IF Held(cs, log, x) <= valid[x] THEN valid[x] - Held(cs, log, x) ELSE 0]
CountsAllow(cs) ==
    \A x \in Block : Held(cs, "FlashWLog", x) <= wValid[x] /\ Held(cs, "FlashOwLog", x) <= owValid[x]
ErrUnless(ok, why) == IF ok THEN "none" ELSE why

(* The buffer after the slots that hold chunks of cs have lost their lpn,  *)
(* so that a flush will not map them.                                      *)
Unmapped(buf, cs, log) ==
    [b \in Bank |-> [s \in Slot |->
        IF \E c \in cs : Where(c) = <<log, b, s>>
        THEN [buf[b][s] EXCEPT !.lpn = NoLpn] ELSE buf[b][s]]]

(* The copies of cs in flash no longer count as valid. *)
OldCounts(cs) ==
    /\ wValid' = Decremented(wValid, cs, "FlashWLog")
    /\ owValid' = Decremented(owValid, cs, "FlashOwLog")
    /\ err' = ErrUnless(CountsAllow(cs), "valid chunks below 0")

(* A mutant: the slots of the buffers keep their lpn. *)
MutSlotKept(cs) ==
    /\ OldCounts(cs)
    /\ UNCHANGED <<logBuf, owBuf>>

(* manageOldChunkForCompletePageWrite for each chunk of cs. *)
ManageOld(cs) ==
    /\ OldCounts(cs)
    /\ logBuf' = Unmapped(logBuf, cs, "DRAMWLog")
    /\ owBuf' = Unmapped(owBuf, cs, "DRAMOwLog")

(* New data for the chunks of cs has been written somewhere: every other   *)
(* copy is stale.                                                          *)
FlashWithout(cs) == [x \in Bank \X Lbn \X Page |-> [s \in Slot |->
                        IF flash[x][s] \in cs THEN Stale ELSE flash[x][s]]]
BufWithout(buf, cs) == [b \in Bank |-> [s \in Slot |->
                        IF buf[b][s].data \in cs THEN [buf[b][s] EXCEPT !.data = Stale]
                        ELSE buf[b][s]]]

(* What a read of chunk c returns: erased sectors when it is not mapped. *)
HostReads(c) == ContentAt(Where(c))

(* The data of chunk c once new data for all or part of it is merged with  *)
(* what the map leads to.                                                  *)
Merged(c, part) ==
    IF part /\ Where(c) # Invalid /\ ContentAt(Where(c)) # c THEN Stale ELSE c
=============================================================================
