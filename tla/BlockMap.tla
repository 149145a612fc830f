------------------------------ MODULE BlockMap ------------------------------
(***************************************************************************)
(* Which physical blocks the translation layer works with: ftl_open reads  *)
(* the list of bad blocks the installer left in page 0 of every bank, and  *)
(* marks them in a bitmap; format gives each bank its free blocks and its  *)
(* log blocks; afterwards every garbage collection swaps the block of its  *)
(* victim for a free one.  The bitmap and both tables are in DRAM, reached *)
(* through mem_util.c (module Dram), so every block number is what was     *)
(* really stored there.                                                    *)
(*                                                                         *)
(* In the build that is shipped there are two planes, and capacity is not  *)
(* reduced: block v of a bank is the pair of flash blocks 2 v and 2 v + 1. *)
(***************************************************************************)
EXTENDS Dram, Sequences

CONSTANTS NumBanks,
          VBlks,        \* VBLKS_PER_BANK
          FirstBlk,     \* format takes the blocks after this one (180)
          LogBlks,      \* LOG_BLK_PER_BANK
          FreeBlks,     \* FREE_BLK_PER_BANK
          ScanItems,    \* SCAN_LIST_ITEMS
          Pages,        \* what page 0 of the banks may hold
          PowerUp,      \* what the DRAM may hold when power comes
          MaxFailures,  \* bound: erase operations that fail
          MaxNest       \* bound: collections under way

Bank    == 0 .. NumBanks - 1
Lbn     == 0 .. LogBlks - 1
VBlk    == 0 .. VBlks - 1
PBlks   == 2 * VBlks
NoBlk   == 65535                  \* (UINT16) -1
INVALID == -1

(* The part of dram_layout.h that matters here. *)
RoundUp(n) == ((n + EccUnit - 1) \div EccUnit) * EccUnit
TempBuf   == 0
BadBlkBmp == RoundUp(2 * (ScanItems + 1))
BmpBytes  == RoundUp((NumBanks * VBlks) \div 8)
LogBmt    == BadBlkBmp + BmpBytes
BmtBytes  == RoundUp(NumBanks * LogBlks * 2)
FreeBmt   == LogBmt + BmtBytes
FreeBytes == RoundUp(NumBanks * FreeBlks * 2)
Address   == 0 .. Real(FreeBmt + FreeBytes) - 1

(* A mutant: the table of the next bank starts one cell early. *)
MutLogCell(b, l) == LogBmt + (b * (LogBlks - 1) + l) * 2

BmpOf(b)       == BadBlkBmp + b * ((VBlks \div 8) + 1)
LogCell(b, l)  == LogBmt + (b * LogBlks + l) * 2
FreeCell(b, k) == FreeBmt + (b * FreeBlks + k) * 2

PageType == [Bank -> [corrupt : BOOLEAN, words : [0 .. ScanItems -> Half]]]

ASSUME SizesAssumption ==
    /\ NumBanks \in Nat \ {0}
    /\ LogBlks \in Nat \ {0}
    /\ FreeBlks \in Nat \ {0}
    /\ VBlks \in Nat /\ FirstBlk \in Nat /\ FirstBlk < VBlks /\ VBlks < NoBlk
    /\ ScanItems \in Nat
    /\ MaxFailures \in Nat /\ MaxNest \in Nat
    /\ Pages \subseteq PageType
    /\ PowerUp \subseteq [Address -> Byte]

(* Each bank is given one byte more than VBLKS_PER_BANK / 8, which the size *)
(* of the whole bitmap leaves out: that they fit is luck of the rounding.   *)
ASSUME BitmapFits == NumBanks * ((VBlks \div 8) + 1) <= BmpBytes

VARIABLES page,     \* page 0 of each bank in flash: the list of bad blocks
          mem,      \* the DRAM
          at,       \* where the firmware is
          bank, i, num, result, vblk, lbn,   \* its locals
          isrFlag,  \* g_bsp_isr_flag
          head,     \* free_list_head
          tail,     \* free_list_tail
          gc,       \* the collections under way, the last one started last
          failed    \* history: the blocks whose erase failed in this format

vars == <<page, mem, at, bank, i, num, result, vblk, lbn, isrFlag, head, tail, gc, failed>>
locals == <<bank, i, num, result, vblk, lbn>>

Zeros == [b \in Bank |-> 0]

InitFirmware == /\ mem \in PowerUp
                /\ at = "off"
                /\ bank = 0 /\ i = 0 /\ num = 0 /\ result = TRUE /\ vblk = 0 /\ lbn = 0
                /\ isrFlag = Zeros /\ head = Zeros /\ tail = Zeros
                /\ gc = << >>
                /\ failed = {}

Init == page \in Pages /\ InitFirmware

-----------------------------------------------------------------------------
(* build_bad_blk_list.                                                     *)

Boot == /\ at = "off"
        /\ mem' = Fill(mem, BadBlkBmp, 0, BmpBytes)
        /\ at' = "read"
        /\ bank' = 0
        /\ UNCHANGED <<page, i, num, result, vblk, lbn, isrFlag, head, tail, gc, failed>>

(* The page is read into TEMP_BUF; result TRUE is OK. *)
ReadList ==
    /\ at = "read"
    /\ mem' = Dma(mem, TempBuf, page[bank].words)
    /\ IF page[bank].corrupt
       THEN num' = 0 /\ result' = FALSE
       ELSE num' = Read16(mem', TempBuf) /\ result' = (num' <= ScanItems)
    /\ i' = IF result' THEN 0 ELSE num'
    /\ at' = "check"
    /\ UNCHANGED <<page, bank, vblk, lbn, isrFlag, head, tail, gc, failed>>

(* A mutant: the bit of the high chip is not masked. *)
MutWholeEntry(m, k) == Read16(m, TempBuf + 2 + 2 * k)

Entry(m, k) == Read16(m, TempBuf + 2 + 2 * k) % 32768

CheckEntry ==
    /\ at = "check"
    /\ i < num
    /\ IF Entry(mem, i) = 0 \/ Entry(mem, i) >= PBlks
       THEN result' = FALSE /\ UNCHANGED mem
       ELSE /\ mem' = Write16(mem, TempBuf + 2 + 2 * i, Entry(mem, i))
            /\ UNCHANGED result
    /\ i' = i + 1
    /\ UNCHANGED <<page, at, bank, num, vblk, lbn, isrFlag, head, tail, gc, failed>>

(* A list that is refused keeps its header, which is searched all the same. *)
EndCheck ==
    /\ at = "check"
    /\ i >= num
    /\ IF result THEN mem' = Write16(mem, TempBuf, 0) /\ UNCHANGED num
                 ELSE num' = 0 /\ UNCHANGED mem
    /\ at' = "mark"
    /\ vblk' = 1
    /\ UNCHANGED <<page, bank, i, result, lbn, isrFlag, head, tail, gc, failed>>

InList(p) == SearchEqu(mem, TempBuf, num + 1, p) < num + 1

MarkBlk ==
    /\ at = "mark"
    /\ vblk < VBlks
    /\ mem' = IF InList(2 * vblk) \/ InList(2 * vblk + 1)
              THEN SetBit(mem, BmpOf(bank), vblk) ELSE mem
    /\ vblk' = vblk + 1
    /\ UNCHANGED <<page, at, bank, i, num, result, lbn, isrFlag, head, tail, gc, failed>>

EndMark ==
    /\ at = "mark"
    /\ vblk >= VBlks
    /\ IF bank + 1 < NumBanks THEN at' = "read" /\ bank' = bank + 1
                              ELSE at' = "tables" /\ bank' = 0
    /\ UNCHANGED <<page, mem, i, num, result, vblk, lbn, isrFlag, head, tail, gc, failed>>

-----------------------------------------------------------------------------
(* format.  A failed erase interrupts: ftl_isr records the block, once the *)
(* bank is idle, and format finds it recorded.                             *)

IsBad(b, v) == TstBit(mem, BmpOf(b), v)

Tables ==
    /\ at = "tables"
    /\ mem' = Fill(Fill(mem, LogBmt, 0, BmtBytes), FreeBmt, 0, FreeBytes)
    /\ at' = "bank"
    /\ UNCHANGED <<page, locals, isrFlag, head, tail, gc, failed>>

(* Block FirstBlk is erased as well; whether that fails is not looked at. *)
StartBank ==
    /\ at = "bank"
    /\ isrFlag' = [isrFlag EXCEPT ![bank] = INVALID]
    /\ vblk' = FirstBlk
    /\ lbn' = 0
    /\ at' = "free"
    /\ UNCHANGED <<page, mem, bank, i, num, result, head, tail, gc, failed>>

Candidate == vblk + 1
Usable    == Candidate < VBlks /\ ~IsBad(bank, Candidate)

SkipBad ==
    /\ at \in {"free", "log"}
    /\ Candidate < VBlks
    /\ IsBad(bank, Candidate)
    /\ vblk' = Candidate
    /\ UNCHANGED <<page, mem, at, bank, i, num, result, lbn, isrFlag, head, tail, gc, failed>>

(* ftl_isr, for a bank that reports a bad block: only a failed erase is   *)
(* recorded.  Corrupt data (not modelled) makes the flag INVALID again.    *)
AfterIsr(b, command, v) == IF command = "erase" THEN [isrFlag EXCEPT ![b] = v] ELSE isrFlag

(* set_bad_block; the flag is INVALID again when the loop goes on. *)
EraseFails ==
    /\ at \in {"free", "log"}
    /\ Usable
    /\ Cardinality(failed) < MaxFailures
    /\ LET flag == AfterIsr(bank, "erase", Candidate)
       IN  /\ mem' = SetBit(mem, BmpOf(bank), flag[bank])
           /\ isrFlag' = [flag EXCEPT ![bank] = INVALID]
    /\ failed' = failed \cup {<<bank, Candidate>>}
    /\ vblk' = Candidate
    /\ UNCHANGED <<page, at, bank, i, num, result, lbn, head, tail, gc>>

(* ret_free_vbn *)
Returned(m, b, v) == Write16(m, FreeCell(b, head[b]), v)

(* A mutant: the position does not wrap. *)
MutOverAdvanced(f, b) == [f EXCEPT ![b] = @ + 1]

Advanced(f, b) == [f EXCEPT ![b] = (@ + 1) % FreeBlks]

TakeFree ==
    /\ at = "free"
    /\ Usable
    /\ mem' = Returned(mem, bank, Candidate)
    /\ head' = Advanced(head, bank)
    /\ vblk' = Candidate
    /\ IF lbn + 1 < FreeBlks THEN lbn' = lbn + 1 /\ UNCHANGED at ELSE lbn' = 0 /\ at' = "log"
    /\ UNCHANGED <<page, bank, i, num, result, isrFlag, tail, gc, failed>>

(* Nothing ends the search for free blocks at the end of the bank: it goes *)
(* on into the bits of the next bank and erases blocks that do not exist.  *)
Overrun ==
    /\ at = "free"
    /\ Candidate >= VBlks
    /\ at' = "overrun"
    /\ UNCHANGED <<page, mem, locals, isrFlag, head, tail, gc, failed>>

TakeLog ==
    /\ at = "log"
    /\ lbn < LogBlks
    /\ Usable
    /\ mem' = Write16(mem, LogCell(bank, lbn), Candidate)
    /\ vblk' = Candidate
    /\ lbn' = lbn + 1
    /\ UNCHANGED <<page, at, bank, i, num, result, isrFlag, head, tail, gc, failed>>

(* The bank has no block left for this log block. *)
NoneLeft ==
    /\ at = "log"
    /\ lbn < LogBlks
    /\ Candidate >= VBlks
    /\ mem' = Write16(mem, LogCell(bank, lbn), NoBlk)
    /\ lbn' = lbn + 1
    /\ UNCHANGED <<page, at, bank, i, num, result, vblk, isrFlag, head, tail, gc, failed>>

(* The last bank is followed by init_metadata_sram. *)
EndBank ==
    /\ at = "log"
    /\ lbn = LogBlks
    /\ IF bank + 1 < NumBanks
       THEN at' = "bank" /\ bank' = bank + 1 /\ UNCHANGED <<head, tail>>
       ELSE at' = "ready" /\ head' = Zeros /\ tail' = Zeros /\ UNCHANGED bank
    /\ UNCHANGED <<page, mem, i, num, result, vblk, lbn, isrFlag, gc, failed>>

-----------------------------------------------------------------------------
(* garbageCollectLog: the block of the victim is looked up when the        *)
(* collection starts, and exchanged when it ends; others may run between.  *)

GetLogVbn(b, l) == Read16(mem, LogCell(b, l))

(* A mutant: it is still there. *)
MutNotCollected(b, l) == FALSE

(* A victim is out of its heap before anything else can run. *)
Collected(b, l) == \E k \in DOMAIN gc : <<gc[k].bank, gc[k].lbn>> = <<b, l>>

StartGc(b, l) ==
    /\ at = "ready"
    /\ Len(gc) < MaxNest
    /\ ~Collected(b, l)
    /\ gc' = Append(gc, [bank |-> b, lbn |-> l, vbn |-> GetLogVbn(b, l)])
    /\ UNCHANGED <<page, mem, at, locals, isrFlag, head, tail, failed>>

(* A mutant: the old block is given back before the new one is taken. *)
MutReturnedFirst(e) ==
    LET m == Returned(mem, e.bank, e.vbn)
    IN  Write16(m, LogCell(e.bank, e.lbn), Read16(m, FreeCell(e.bank, tail[e.bank])))

(* set_log_vbn(bank, victimLbn, get_free_vbn(bank)), then ret_free_vbn. *)
Exchanged(e) ==
    LET free == Read16(mem, FreeCell(e.bank, tail[e.bank]))
    IN  Returned(Write16(mem, LogCell(e.bank, e.lbn), free), e.bank, e.vbn)

(* Nobody looks at the flag a failed erase leaves. *)
EndGc ==
    LET e == gc[Len(gc)]
    IN  /\ at = "ready"
        /\ gc # << >>
        /\ tail' = Advanced(tail, e.bank)
        /\ mem' = Exchanged(e)
        /\ head' = Advanced(head, e.bank)
        /\ isrFlag' \in {isrFlag, AfterIsr(e.bank, "erase", e.vbn)}
        /\ gc' = SubSeq(gc, 1, Len(gc) - 1)
        /\ UNCHANGED <<page, at, locals, failed>>

(* Power goes and comes back; what is in DRAM is as good as any. *)
PowerCycle ==
    /\ at # "off"
    /\ mem' \in PowerUp
    /\ at' = "off"
    /\ bank' = 0 /\ i' = 0 /\ num' = 0 /\ result' = TRUE /\ vblk' = 0 /\ lbn' = 0
    /\ isrFlag' = Zeros /\ head' = Zeros /\ tail' = Zeros
    /\ gc' = << >>
    /\ failed' = {}
    /\ UNCHANGED page

Next ==
    \/ Boot \/ ReadList \/ CheckEntry \/ EndCheck \/ MarkBlk \/ EndMark
    \/ Tables \/ StartBank \/ SkipBad \/ EraseFails \/ TakeFree \/ Overrun
    \/ TakeLog \/ NoneLeft \/ EndBank
    \/ \E b \in Bank, l \in Lbn : StartGc(b, l)
    \/ EndGc
    \/ PowerCycle

Spec == Init /\ [][Next]_vars

-----------------------------------------------------------------------------
(* What the translation layer relies on.                                   *)

(* What page 0 says: the flash blocks of a list that will be accepted. *)
Listed(p)   == {p.words[k] % 32768 : k \in 1 .. p.words[0]}
Accepted(p) == /\ ~p.corrupt
               /\ p.words[0] <= ScanItems
               /\ Listed(p) \subseteq 1 .. PBlks - 1

Bad(b, v) == <<b, v>> \in failed \/ {2 * v, 2 * v + 1} \cap Listed(page[b]) # {}

(* The places a block of bank b can be in, each with what is there. *)
Cells(b)    == {LogCell(b, l) : l \in Lbn} \cup {FreeCell(b, k) : k \in 0 .. FreeBlks - 1}
InUse(m, b) == {Read16(m, c) : c \in Cells(b)} \ {NoBlk}

(* The variables have the types the C declarations and the ranges of the   *)
(* loops give them.                                                        *)
TypeOK ==
    /\ page \in PageType
    /\ mem \in [Address -> Byte]
    /\ at \in {"off", "read", "check", "mark", "tables", "bank", "free", "log", "ready", "overrun"}
    /\ bank \in Bank
    /\ i \in 0 .. NoBlk /\ num \in 0 .. NoBlk
    /\ result \in BOOLEAN
    /\ vblk \in 0 .. VBlks
    /\ lbn \in (0 .. LogBlks) \cup (0 .. FreeBlks - 1)
    /\ isrFlag \in [Bank -> Int]
    /\ head \in [Bank -> 0 .. FreeBlks - 1] /\ tail \in [Bank -> 0 .. FreeBlks - 1]
    /\ gc \in Seq([bank : Bank, lbn : Lbn, vbn : Half])
    /\ failed \subseteq Bank \X VBlk

(* No two log blocks of a bank, no two free blocks, and no log block and   *)
(* free block are the same physical block, whatever collections are under  *)
(* way (set_log_vbn, get_free_vbn, ret_free_vbn over the tables in DRAM).  *)
BlocksDistinct ==
    at = "ready" =>
        \A b \in Bank : \A c, d \in Cells(b) :
            c # d /\ Read16(mem, c) # NoBlk => Read16(mem, c) # Read16(mem, d)

(* A collection puts back the block its victim still has: the number read  *)
(* before other collections ran (garbage_collection.c:53) is not stale.    *)
VictimsCurrent ==
    \A k \in DOMAIN gc : gc[k].vbn = GetLogVbn(gc[k].bank, gc[k].lbn)

(* Once the bitmap is built, a bank whose list was accepted has exactly    *)
(* the blocks marked of which a plane is listed, and those whose erase     *)
(* failed since: build_bad_blk_list, is_bad_block, set_bad_block.          *)
BitmapExact ==
    at \in {"bank", "free", "log", "ready"} =>
        \A b \in Bank : Accepted(page[b]) =>
            \A v \in 1 .. VBlks - 1 : IsBad(b, v) <=> Bad(b, v)

(* No block known to be bad is in use, and no good block after FirstBlk is *)
(* left over while a log block has none (format).                          *)
GoodBlocksUsed ==
    at = "ready" =>
        \A b \in Bank : Accepted(page[b]) =>
            /\ \A v \in InUse(mem, b) : ~Bad(b, v)
            /\ \/ \A c \in Cells(b) : Read16(mem, c) # NoBlk
               \/ \A v \in FirstBlk + 1 .. VBlks - 1 : Bad(b, v) \/ v \in InUse(mem, b)

(* Garbage collection neither loses a block nor brings in another one.     *)
BlocksKept ==
    [][at = "ready" /\ at' = "ready" => \A b \in Bank : InUse(mem', b) = InUse(mem, b)]_vars
=============================================================================
