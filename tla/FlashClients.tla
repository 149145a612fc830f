---------------------------- MODULE FlashClients ----------------------------
(***************************************************************************)
(* How the translation layer uses the flash driver and the DRAM buffers:   *)
(* the writes, overwrites, reads and collections of write.c, overwrite.c,  *)
(* read.c and garbage_collection.c, reduced to the buffers they fill, the  *)
(* commands they issue and what they wait for before.  Programs return on  *)
(* issue, so the buffer of a program must not be filled again before the   *)
(* bank has read it: no buffer has an owner, each caller waits for what it *)
(* believes to be enough.                                                  *)
(*                                                                         *)
(* The write buffers are a ring the SATA hardware fills on its own, up to  *)
(* BM_WRITE_LIMIT; the limit is moved on by the hardware when a program    *)
(* from the host has read its buffer and by the code when it has copied    *)
(* one itself.                                                             *)
(***************************************************************************)
EXTENDS FlashDriver

CONSTANTS ChunksPerPage,   \* CHUNKS_PER_PAGE
          NumWrBufs,       \* NUM_WR_BUFFERS
          MaxChunks,       \* bound: chunks of a partial page
          MaxPages,        \* bound: pages a collection moves
          Jobs             \* bound: what the translation layer is asked for

ASSUME ClientsAssumption == /\ ChunksPerPage \in Nat \ {0}
                            /\ NumWrBufs \in Nat /\ NumWrBufs > NumBanks + 1
                            /\ MaxChunks \in Nat \ {0}
                            /\ MaxPages \in Nat \ {0}
                            /\ Jobs \subseteq {"page", "in place", "partial", "trim",
                                               "read", "collect", "erase"}

VARIABLES chunkPtr,   \* chunkPtr and owChunkPtr of each bank
          lastBank,   \* lastBankUsingFtlBuf1
          writeId,    \* g_ftl_write_buf_id
          limit,      \* BM_WRITE_LIMIT
          sata        \* SATA_WBUF_PTR: the buffer the host is filling

clients == <<chunkPtr, lastBank, writeId, limit, sata>>
vars    == <<driver, clients>>

LOG_BUF(b)     == <<"LOG", b>>
OW_LOG_BUF(b)  == <<"OW", b>>
FTL_BUF(i)     == <<"FTL", i>>
GC_BUF(b)      == <<"GC", b>>
WR_BUF(i)      == <<"WR", i>>
PageBufs       == {LOG_BUF(b) : b \in Banks} \cup {OW_LOG_BUF(b) : b \in Banks}
ReadBuf        == <<"RD", 0>>
TempBuf        == <<"TEMP", 0>>
RangeBuf       == <<"RANGE", 0>>
INVALID        == NumBanks

(* A mutant: the buffer after the last is not the first. *)
MutNextId(i) == i + 1

NextId(i) == (i + 1) % NumWrBufs

(* How far a buffer is from the limit, and which hold data of the host.    *)
Ahead(i)   == (i + NumWrBufs - limit) % NumWrBufs
Arrived(i) == Ahead(i) < Ahead(sata)

Init == /\ InitDriver
        /\ chunkPtr = [x \in PageBufs |-> 0]
        /\ lastBank = INVALID
        /\ writeId = 0
        /\ limit = 0
        /\ sata = 0

-----------------------------------------------------------------------------
(* The steps of the translation layer.                                     *)

Copy(src, dst) == [do |-> "copy", src |-> src, dst |-> dst]
Advance(x)     == [do |-> "advance", buf |-> x]
Chunks(n)      == [do |-> "chunks", n |-> n]
Moves(b, n)    == [do |-> "moves", bank |-> b, n |-> n]
Collect(b, prev, n) == [do |-> "collect", bank |-> b, prev |-> prev, n |-> n]

(* mem_copy. *)
CopyStep == /\ At("copy")
            /\ Pop
            /\ UNCHANGED <<fcp, wr, run, fsm, loaded, resets, clients>>

(* updateChunkPtr, updateOwChunkPtr, updateChunkPtrDuringGC: a full buffer *)
(* is programmed onto its own bank.                                        *)
AdvanceStep ==
    /\ At("advance")
    /\ LET x == Next1.buf IN
         /\ chunkPtr' = [chunkPtr EXCEPT ![x] = (@ + 1) % ChunksPerPage]
         /\ todo' = (IF chunkPtr'[x] = 0 THEN nand_page_program(x[2], x) ELSE << >>) \o Tail(todo)
    /\ UNCHANGED <<fcp, wr, run, fsm, loaded, resets, lastBank, writeId, limit, sata>>

(* nand_page_ptprogram_from_host, once the command is issued. *)
NextIdStep == /\ At("nextId")
              /\ writeId' = NextId(writeId)
              /\ Pop
              /\ UNCHANGED <<fcp, wr, run, fsm, loaded, resets, chunkPtr, lastBank, limit, sata>>

(* A mutant: nothing is waited for. *)
MutSyncStep == /\ At("sync")
               /\ Pop
               /\ UNCHANGED <<fcp, wr, run, fsm, loaded, resets, clients>>

(* syncWithWriteLimit. *)
SyncStep == /\ At("sync")
            /\ writeId = limit
            /\ Pop
            /\ UNCHANGED <<fcp, wr, run, fsm, loaded, resets, clients>>

(* The write buffer is given back: BM_STACK_WRSET, BM_STACK_RESET. *)
ReleaseStep == /\ At("release")
               /\ writeId' = NextId(writeId)
               /\ limit' = writeId'
               /\ Pop
               /\ UNCHANGED <<fcp, wr, run, fsm, loaded, resets, chunkPtr, lastBank, sata>>

-----------------------------------------------------------------------------
(* A part of a page: chunk by chunk into LOG_BUF or OW_LOG_BUF.            *)

(* writeChunkNew, overwriteCompleteChunkNew, overwritePartialChunkNew. *)
NewChunk(x) == waitBusyBank(x[2]) \o << Copy(WR_BUF(writeId), x), Advance(x) >>

(* writePartialChunkWhenOldChunkIsInFlashLog and the two of overwrite.c    *)
(* that read the old chunk from flash.                                     *)
MergedChunk(x, old) == waitBusyBank(x[2]) \o nand_page_read(old, x)
                       \o << Copy(WR_BUF(writeId), x), Advance(x) >>

(* writePartialChunkWhenOldIsInOWBuf, overwriteChunkOldInWBuf. *)
MovedChunk(x, old) == waitBusyBank(x[2])
                      \o << Copy(old, x), Copy(WR_BUF(writeId), x), Advance(x) >>

(* writePartialChunkWhenOldIsInWBuf: the old chunk is written over where   *)
(* it is.                                                                  *)
OldInWBuf(x) == waitBusyBank(x[2]) \o << Copy(WR_BUF(writeId), x) >>

(* overwriteChunkOldInOwBuf: the same, without a wait. *)
OldInOwBuf(x) == << Copy(WR_BUF(writeId), x) >>

(* A mutant: the bank that used FTL_BUF(1) last is not remembered. *)
MutOldInOwLog(b) == << Copy(WR_BUF(writeId), FTL_BUF(1)) >>
                    \o nand_page_program(b, FTL_BUF(1))

(* overwriteChunkOldInOwLog, the page having been programmed less often    *)
(* than the limit: through FTL_BUF(1).                                     *)
OldInOwLog(b) == (IF lastBank # INVALID THEN waitBusyBank(lastBank) ELSE << >>)
                 \o << Copy(WR_BUF(writeId), FTL_BUF(1)) >>
                 \o nand_page_program(b, FTL_BUF(1))

Open(x) == chunkPtr[x] > 0

ChunkCode ==
    {NewChunk(x) : x \in PageBufs}
    \cup {MergedChunk(x, b) : x \in PageBufs, b \in Banks}
    \cup {MovedChunk(LOG_BUF(b), OW_LOG_BUF(o)) : b \in Banks, o \in {y \in Banks : Open(OW_LOG_BUF(y))}}
    \cup {MovedChunk(OW_LOG_BUF(b), LOG_BUF(o)) : b \in Banks, o \in {y \in Banks : Open(LOG_BUF(y))}}
    \cup {OldInWBuf(LOG_BUF(o)) : o \in {y \in Banks : Open(LOG_BUF(y))}}
    \cup {OldInOwBuf(OW_LOG_BUF(o)) : o \in {y \in Banks : Open(OW_LOG_BUF(y))}}

(* remainingSects_ goes down by the sectors of the chunk. *)
Others(n) == << Chunks(n - 1) >>

(* writePartialPageOld, overwritePartialPageOldNotInOrder: a chunk of the  *)
(* page after the other.                                                   *)
NextChunk == /\ At("chunks")
             /\ Next1.n > 0
             /\ \/ /\ \E code \in ChunkCode :
                        todo' = code \o Others(Next1.n) \o Tail(todo)
                   /\ UNCHANGED lastBank
                \/ \E b \in Banks :
                     /\ todo' = OldInOwLog(b) \o Others(Next1.n) \o Tail(todo)
                     /\ lastBank' = b
             /\ UNCHANGED <<fcp, wr, run, fsm, loaded, resets, chunkPtr, writeId, limit, sata>>

LastChunk == /\ At("chunks")
             /\ Next1.n < MaxChunks
             /\ Pop
             /\ UNCHANGED <<fcp, wr, run, fsm, loaded, resets, clients>>

PartialPage == << Step("sync"), Chunks(MaxChunks), Step("release") >>

(* writeCompletePage, overwriteCompletePageInOwLog. *)
CompletePage(b) == nand_page_ptprogram_from_host(b, writeId)

(* overwritePageOldInOrderInOwLog: the page is programmed where it is. *)
InPlacePage(b) == << Step("sync") >> \o nand_page_ptprogram_from_host(b, writeId)

(* ftl_trim reads the ranges in the write buffer. *)
Trim == << Step("sync"), Copy(WR_BUF(writeId), RangeBuf), Step("release") >>

-----------------------------------------------------------------------------
(* readFromLogBlk for one chunk: rebuildPageToFtlBuf, and the copy for the *)
(* host.                                                                   *)
Read(fetch) == flash_finish \o fetch \o << Copy(FTL_BUF(0), ReadBuf) >>

FetchCode == {nand_page_read(b, FTL_BUF(0)) : b \in Banks}
             \cup {nand_page_read(b, TempBuf) \o << Copy(TempBuf, FTL_BUF(0)) >> : b \in Banks}
             \cup {<< Copy(x, FTL_BUF(0)) >> : x \in {y \in PageBufs : Open(y)}}

-----------------------------------------------------------------------------
(* garbageCollectLog: the pages of the victim that have valid chunks.      *)

(* All its chunks are valid: it is programmed as it is.  The bank the      *)
(* page before went to is waited for.                                      *)
FullPage(b, prev, dst) == (IF prev # INVALID THEN waitBusyBank(prev) ELSE << >>)
                          \o nand_page_read(b, GC_BUF(b))
                          \o nand_page_program(dst, GC_BUF(b))

(* Some are, and these go to banks of their own, one after the other:      *)
(* writeChunkOnLogBlockDuringGC.                                           *)
MoveChunk(b, dst) == waitBusyBank(dst) \o << Copy(GC_BUF(b), LOG_BUF(dst)), Advance(LOG_BUF(dst)) >>
OtherMoves(b, n)  == IF n = 1 THEN << >> ELSE << Moves(b, n - 1) >>

NextMove ==
    /\ At("moves")
    /\ \E dst \in Banks :
          todo' = MoveChunk(Next1.bank, dst) \o OtherMoves(Next1.bank, Next1.n) \o Tail(todo)
    /\ UNCHANGED <<fcp, wr, run, fsm, loaded, resets, clients>>

(* The last valid chunk of the victim has been read: it is erased. *)
Victim(b, n) == IF n = 1 THEN nand_block_erase(b) ELSE << >>

(* A mutant: the collection goes on after the last valid chunk. *)
MutRest(b, prev, n) == << Collect(b, prev, n) >>

Rest(b, prev, n) == IF n = 1 THEN << >> ELSE << Collect(b, prev, n - 1) >>

NextPage ==
    /\ At("collect")
    /\ LET b == Next1.bank
           prev == Next1.prev
           n == Next1.n
       IN  \/ \E dst \in Banks :
                todo' = FullPage(b, prev, dst) \o Victim(b, n) \o Rest(b, dst, n) \o Tail(todo)
           \/ \E k \in 1 .. ChunksPerPage - 1 :
                todo' = nand_page_read(b, GC_BUF(b)) \o Victim(b, n) \o << Moves(b, k) >>
                        \o Rest(b, prev, n) \o Tail(todo)
    /\ UNCHANGED <<fcp, wr, run, fsm, loaded, resets, clients>>

-----------------------------------------------------------------------------
(* What the translation layer does next, nothing being left to do.  What   *)
(* copies a write buffer itself is taken to start when the data of the     *)
(* host are in it: Main gets the command from the hardware, and the code   *)
(* does not ask.                                                           *)
Begin == /\ todo = << >>
         /\ \E job \in Jobs :
              \/ job = "page" /\ \E b \in Banks : todo' = CompletePage(b)
              \/ job = "in place" /\ \E b \in Banks : todo' = InPlacePage(b)
              \/ job = "partial" /\ Arrived(writeId) /\ todo' = PartialPage
              \/ job = "trim" /\ Arrived(writeId) /\ todo' = Trim
              \/ job = "read" /\ \E fetch \in FetchCode : todo' = Read(fetch)
              \/ job = "collect" /\ \E b \in Banks, n \in 1 .. MaxPages : todo' = << Collect(b, INVALID, n) >>
              \/ job = "erase" /\ \E b \in Banks : todo' = nand_block_erase_sync(b)
         /\ UNCHANGED <<fcp, wr, run, fsm, loaded, resets, clients>>

-----------------------------------------------------------------------------
(* The hardware.                                                           *)

(* The host has filled a write buffer. *)
HostData == /\ NextId(sata) # limit
            /\ sata' = NextId(sata)
            /\ UNCHANGED <<driver, chunkPtr, lastBank, writeId, limit>>

OfHost(c) == c.buf[1] = "WR"

(* FO_B_SATA_W: [DRAM -> flash] waits for [SATA -> DRAM], and the limit    *)
(* then passes the buffers that have been read.  The ring is taken to be   *)
(* long enough: while a bank has still to read its buffer, the others do   *)
(* not get all the way round to it.                                        *)
InTime(i) == Ahead(i) + NumBanks + 1 < NumWrBufs

TransferHost(b) ==
    /\ fsm[b] = "before"
    /\ OfHost(run[b])
    /\ Arrived(run[b].buf[2])
    /\ InTime(run[b].buf[2])
    /\ Transfer(b)
    /\ LET left == {c.buf[2] : c \in {x \in Untransferred \ {run[b]} : OfHost(x)}}
           read == IF At("nextId") THEN NextId(writeId) ELSE writeId
       IN  limit' = IF left = {} THEN read
                    ELSE CHOOSE i \in left : \A j \in left : Ahead(i) <= Ahead(j)
    /\ UNCHANGED <<chunkPtr, lastBank, writeId, sata>>

TransferOther(b) == fsm[b] = "before" /\ ~OfHost(run[b]) /\ Transfer(b) /\ UNCHANGED clients

(* A bound on resets: what the SATA buffer manager makes of a program from *)
(* the host that a reset takes away is not in the sources.                 *)
NoneOfHost == \A c \in {wr} \cup {run[b] : b \in Banks} \cup (IF At("issue") THEN {fcp} ELSE {}) :
                  ~OfHost(c)

(* What the processor does, but to give up. *)
Processor == \/ /\ SetRegs \/ Issue \/ Waited \/ BankIdle \/ Finished \/ Returned \/ Restart
                /\ UNCHANGED clients
             \/ CopyStep \/ AdvanceStep \/ NextIdStep \/ SyncStep \/ ReleaseStep
             \/ NextChunk \/ LastChunk \/ NextPage \/ NextMove

Next == \/ Processor
        \/ Begin
        \/ Controller /\ UNCHANGED clients
        \/ \E b \in Banks : GiveUp(b) /\ NoneOfHost /\ UNCHANGED clients
        \/ HostData
        \/ \E b \in Banks : TransferHost(b) \/ TransferOther(b)

(* The processor goes on with what it can do, the controller with its      *)
(* commands, and the host sends the data of its writes.  Nothing says that *)
(* the host sends a command, or that a command is given up.                *)
Fairness == /\ WF_vars(Processor)
            /\ WF_vars(Accept /\ UNCHANGED clients)
            /\ WF_vars(HostData)
            /\ \A b \in Banks : /\ WF_vars(End(b) /\ UNCHANGED clients)
                              /\ WF_vars(TransferHost(b) \/ TransferOther(b))

Spec == Init /\ [][Next]_vars /\ Fairness

-----------------------------------------------------------------------------
(* The values are what the code writes, and no bank works at no command.   *)
TypeOK == /\ {fcp.op} \subseteq {"read", "program", "erase", "generic", "wait"}
          /\ \A b \in Banks : (fsm[b] = "idle") = (run[b] = None)
          /\ wr = None \/ wr.bank \in Banks
          /\ chunkPtr \in [PageBufs -> 0 .. ChunksPerPage - 1]
          /\ lastBank \in Banks \cup {INVALID}
          /\ {writeId, limit, sata} \subseteq 0 .. NumWrBufs - 1
          /\ resets \in 0 .. MaxResets

(* Who is at a buffer of the kinds k: nobody reads into one that a program *)
(* has still to be read from, and the processor neither fills such a one   *)
(* nor takes from one that is being read into.                             *)
Undisturbed(k) ==
    LET Mine(S) == {x \in S : x[1] \in k}
    IN  /\ Mine(Sources) \cap Mine(Targets) = {}
        /\ At("copy") => /\ Next1.dst \notin Mine(Sources \cup Targets)
                         /\ Next1.src \notin Mine(Targets)

(* The waits before LOG_BUF, OW_LOG_BUF and FTL_BUF are filled are enough: *)
(* waitBusyBank of the bank the buffer belongs to, lastBankUsingFtlBuf1,   *)
(* flash_finish in initRead.                                               *)
BuffersKept == Undisturbed({"LOG", "OW", "FTL", "TEMP"})

(* previousDstBank "is used to wait for banks in case we are doing         *)
(* copyback to different bank" (garbage_collection.c): GC_BUF is not       *)
(* filled before the page in it has been programmed.                       *)
GcBufKept == Undisturbed({"GC"})

(* syncWithWriteLimit before the code gives a write buffer back itself:    *)
(* the limit up to which the host may fill never passes a buffer a program *)
(* has still to be read from.                                              *)
WriteBuffersKept == \A c \in Untransferred : OfHost(c) => Ahead(c.buf[2]) <= Ahead(writeId)

(* "synchronous one full page read" (flash_wrapper.c): when nand_page_read *)
(* returns, the page is in the buffer.                                     *)
ReadsDeliver == At("return") => loaded = <<Next1.bank, Next1.buf>>

(* Whatever the translation layer does comes to its end: no wait, for the  *)
(* Waiting Room, a bank or the host, is for something that cannot happen.  *)
CallsReturn == (todo # << >>) ~> (todo = << >>)
=============================================================================
