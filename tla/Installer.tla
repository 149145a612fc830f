----------------------------- MODULE Installer ------------------------------
(***************************************************************************)
(* installer-linux.c: the program that prepares a drive in factory mode.   *)
(* It finds the blocks the factory marked as bad (or reads the list back   *)
(* from flash, or from files), erases the flash around them, and writes    *)
(* the list and the firmware into block zero of every bank.                *)
(*                                                                         *)
(* A bank is two chips side by side, "high" and "low".  The program can    *)
(* end between any two commands to the drive (ERR_EXIT, a pulled cable, a  *)
(* signal); its memory is then lost, what it did to the drive is not.      *)
(***************************************************************************)
EXTENDS Integers, Sequences, FiniteSets, SequencesExt

CONSTANTS NumBanks,
          PBlks,       \* PBLKS_PER_BANK
          ScanItems,   \* SCAN_LIST_ITEMS
          Factory,     \* the bad blocks: <<bank, block, chip>>
          Sdram,       \* the size of the DRAM of this board, in MB
          BuiltFor,    \* DRAM_SIZE, in MB
          Cuts         \* how many bytes of a file there can be when it is cut off

RBank == 0 .. NumBanks - 1
Chip  == {"high", "low"}
Items == [0 .. ScanItems -> 0 .. 65535]   \* a scan_list_t, num_entries first

NoItems == [k \in 0 .. ScanItems |-> 0]
Blank   == [corrupt |-> FALSE, words |-> [k \in 0 .. ScanItems |-> 65535]]

(* A file in the directory of saved lists: the list that was written to it *)
(* and how many bytes of it are there.                                     *)
FileSize == 2 * (ScanItems + 1)           \* SCAN_LIST_SIZE
NoFile   == << >>
File     == [words : Items, size : 0 .. FileSize]

VARIABLES page,     \* page 0 of block zero of each bank
          zero,     \* the rest of block zero: "blank", "dummies", "stamp", "image" or
            \* "spoilt"
          marks,    \* the factory's marks that are still on the flash
          files,    \* the file of each bank in the directory of saved lists
          dir,      \* that directory exists
          pc,       \* where the program is, "out" when it does not run
          up,       \* hc->up
          list,     \* hc->scan_list
          loaded,   \* hc->scan_list_loaded
          blk, rb,  \* the loops' pblk_offset and rbank
          last,     \* the argument end_pblk_offset of erase_flash
          warned,   \* history: all was erased after the warning that no list was read
          partial   \* history: files were read that did not give back the list of every bank

instVars == <<page, zero, marks, files, dir, pc, up, list, loaded, blk, rb, last, warned, partial>>
media    == <<page, zero, marks, files, dir>>
loops    == <<blk, rb, last>>
history  == <<warned, partial>>

InitInstaller ==
    /\ page = [b \in RBank |-> Blank]
    /\ zero = [b \in RBank |-> "blank"]
    /\ marks = Factory
    /\ files = [b \in RBank |-> NoFile]
    /\ dir = FALSE
    /\ pc = "out"
    /\ up = FALSE
    /\ list = [b \in RBank |-> NoItems]
    /\ loaded = FALSE
    /\ blk = 0 /\ rb = 0 /\ last = 0
    /\ warned = FALSE /\ partial = FALSE

-----------------------------------------------------------------------------
(* detect_sdram_size: three addresses of a DRAM that is set up as the       *)
(* largest; on a smaller one some of them are the same cell.               *)

Cell(size, a) == IF size = 16 \/ (size = 32 /\ a = "test32") THEN "base" ELSE a
Poke(size, m, a, v) == [m EXCEPT ![Cell(size, a)] = v]
Peek(size, m, a) == m[Cell(size, a)]

Detected(size) ==
    LET any == [c \in {"base", "test16", "test32"} |-> -1]
        m16 == Poke(size, Poke(size, any, "base", 0), "test16", 16)
        m32 == Poke(size, Poke(size, m16, "base", 0), "test32", 32)
    IN  IF Peek(size, m16, "base") = 16 THEN 16
        ELSE IF Peek(size, m32, "test32") # 32 \/ Peek(size, m32, "base") = 32 THEN 32
        ELSE 64

(* main, open_target_drv: a board with other DRAM than built for is left. *)
Start ==
    /\ pc = "out"
    /\ Detected(Sdram) = BuiltFor
    /\ pc' = "menu"
    /\ up' = FALSE
    /\ loaded' = FALSE
    /\ list' = [b \in RBank |-> NoItems]
    /\ UNCHANGED <<media, loops, history>>

(* What the program knows is gone. *)
Exit ==
    /\ pc' = "out"
    /\ up' = FALSE
    /\ loaded' = FALSE
    /\ list' = [b \in RBank |-> NoItems]
    /\ blk' = 0 /\ rb' = 0 /\ last' = 0

(* "exit", or any ERR_EXIT. *)
Quit ==
    /\ pc # "out"
    /\ Exit
    /\ UNCHANGED <<media, history>>

(* init: the identity of the chips is what it was built for, or includes   *)
(* it and the user goes on all the same, or is not.                        *)
Initialize ==
    /\ pc = "menu"
    /\ up' \in BOOLEAN
    /\ UNCHANGED <<media, pc, list, loaded, loops, history>>

-----------------------------------------------------------------------------
(* The ways to a list.                                                     *)

(* What the ROM code reports for bank b: an entry for each marked chip. *)
Scanned(b) == SetToSeq({IF m[3] = "high" THEN m[2] + 32768 ELSE m[2] : m \in {m \in marks : m[1] = b}})

(* The entries are added to those that are there. *)
Appended(l, s) ==
    [k \in 0 .. ScanItems |-> IF k = 0 THEN l[0] + Len(s)
                              ELSE IF k \in l[0] + 1 .. l[0] + Len(s) THEN s[k - l[0]] ELSE l[k]]

(* scan_bad_blks; a scan that would run past the end of a list is left out. *)
Scan ==
    /\ pc = "menu"
    /\ up
    /\ \A b \in RBank : list[b][0] + Len(Scanned(b)) <= ScanItems
    /\ list' = [b \in RBank |-> Appended(list[b], Scanned(b))]
    /\ loaded' = TRUE
    /\ UNCHANGED <<media, pc, up, loops, history>>

(* bank_read: OK, ERR_CORRUPT or ERR_BLANK. *)
Readable(p) == ~p.corrupt /\ p # Blank

(* load_scan_list_from_nand: the lists that are good are kept all the same. *)
LoadNand ==
    /\ pc = "menu"
    /\ up
    /\ list' = [b \in RBank |-> IF Readable(page[b]) THEN page[b].words ELSE list[b]]
    /\ loaded' = (loaded \/ \A b \in RBank : Readable(page[b]))
    /\ UNCHANGED <<media, pc, up, loops, history>>

(* load_scan_list_from_file: up to the first file that is not there.       *)
Found == {b \in RBank : \A c \in 0 .. b : files[c] # NoFile}

(* fread into list l: beyond the end of a file that was cut off, which     *)
(* nobody notices, the list stays what it was, byte by byte.               *)
Overlaid(l, f) ==
    [k \in 0 .. ScanItems |->
        IF 2 * k + 2 <= f.size THEN f.words[k]
        ELSE IF 2 * k + 1 = f.size THEN ((l[k] \div 256) * 256) + (f.words[k] % 256)
        ELSE l[k]]

LoadFiles ==
    /\ pc = "menu"
    /\ list' = [b \in RBank |-> IF b \in Found THEN Overlaid(list[b], files[b]) ELSE list[b]]
    /\ loaded' = (loaded \/ Found # {})
    /\ partial' = \/ partial
                  \/ /\ Found # {}
                     /\ \E b \in RBank : files[b] = NoFile \/ list'[b] # files[b].words
    /\ UNCHANGED <<media, pc, up, loops, warned>>

(* save_scan, into a new directory. *)
StartSave ==
    /\ pc = "menu"
    /\ loaded
    /\ ~dir
    /\ dir' = TRUE
    /\ rb' = 0
    /\ pc' = "save"
    /\ UNCHANGED <<page, zero, marks, files, up, list, loaded, blk, last, history>>

(* fopen, fwrite and fclose of one file.  Not all of it may get there: the *)
(* program ends when fwrite says so (ERR_EXIT) or when it is killed, and   *)
(* goes on when it is only fclose that could not write.                    *)
SaveBank ==
    /\ pc = "save"
    /\ \E n \in Cuts \cup {FileSize} : files' = [files EXCEPT ![rb] = [words |-> list[rb], size |-> n]]
    /\ \/ /\ IF rb + 1 < NumBanks THEN rb' = rb + 1 /\ UNCHANGED pc ELSE rb' = 0 /\ pc' = "menu"
          /\ UNCHANGED <<up, list, loaded, blk, last>>
       \/ Exit
    /\ UNCHANGED <<page, zero, marks, dir, history>>

-----------------------------------------------------------------------------
(* erase_flash(blk, last).                                                 *)

(* The user confirms one of the two warnings; all means one block more     *)
(* than there are.  The list in memory stays as it is.                     *)
EraseAll ==
    /\ pc = "menu"
    /\ warned' = (warned \/ ~loaded)
    /\ pc' = "erase"
    /\ blk' = 0 /\ rb' = 0 /\ last' = PBlks
    /\ UNCHANGED <<media, up, list, loaded, partial>>

Listed(b, c) == {list[b][k] % 32768 : k \in {k \in 1 .. list[b][0] : (list[b][k] >= 32768) = (c = "high")}}

(* A mutant: the options that leave a chip out are not set. *)
MutSpared == {}

Spared == {c \in Chip : blk \in Listed(rb, c)}

(* A chip of which the block is listed is left out. *)
EraseBlock ==
    /\ pc = "erase"
    /\ blk <= last
    /\ marks' = marks \ {<<rb, blk, c>> : c \in Chip \ Spared}
    /\ IF blk = 0
       THEN page' = [page EXCEPT ![rb] = Blank] /\ zero' = [zero EXCEPT ![rb] = "blank"]
       ELSE UNCHANGED <<page, zero>>
    /\ IF rb + 1 < NumBanks THEN rb' = rb + 1 /\ UNCHANGED blk ELSE rb' = 0 /\ blk' = blk + 1
    /\ UNCHANGED <<files, dir, pc, up, list, loaded, last, history>>

EndErase ==
    /\ pc = "erase"
    /\ blk > last
    /\ pc' = IF last = 0 THEN "lists" ELSE "menu"
    /\ blk' = 0 /\ rb' = 0 /\ last' = 0
    /\ UNCHANGED <<media, up, list, loaded, history>>

-----------------------------------------------------------------------------
(* install.  Block zero alone is erased, then written step by step over    *)
(* all banks; a page that reads back otherwise ends it.                    *)

StartInstall ==
    /\ pc = "menu"
    /\ up
    /\ loaded
    /\ pc' = "erase"
    /\ blk' = 0 /\ rb' = 0 /\ last' = 0
    /\ UNCHANGED <<media, up, list, loaded, history>>

(* A mutant: the loop over the banks does not end. *)
MutNextRBank(after) == rb' = rb + 1 /\ UNCHANGED pc

NextRBank(after) ==
    IF rb + 1 < NumBanks THEN rb' = rb + 1 /\ UNCHANGED pc ELSE rb' = 0 /\ pc' = after

WriteList ==
    /\ pc = "lists"
    /\ \E corrupt \in BOOLEAN : page' = [page EXCEPT ![rb] = [corrupt |-> corrupt, words |-> list[rb]]]
    /\ NextRBank("compare")
    /\ UNCHANGED <<zero, marks, files, dir, up, list, loaded, blk, last, history>>

(* A mutant: the lists are not read back. *)
MutSame == TRUE

Same == \A b \in RBank : page[b] = [corrupt |-> FALSE, words |-> list[b]]

CompareLists ==
    /\ pc = "compare"
    /\ pc' = IF Same THEN "dummies" ELSE "menu"
    /\ UNCHANGED <<media, up, list, loaded, loops, history>>

(* write_to_flash, for all the pages of a step on one bank; dummy pages    *)
(* and pages of firmware end the installation when one reads back wrong,   *)
(* the stamp of the other banks is still written.                          *)
Written(what) ==
    /\ zero' = [zero EXCEPT ![rb] = what]
    /\ UNCHANGED <<page, marks, files, dir, up, list, loaded, blk, last, history>>
Spoilt == Written("spoilt")

WriteDummies ==
    /\ pc = "dummies"
    /\ \/ Written("dummies") /\ NextRBank("stamp")
       \/ Spoilt /\ rb' = 0 /\ pc' = "menu"

WriteStamp ==
    /\ pc = "stamp"
    /\ Written("stamp") \/ Spoilt
    /\ NextRBank(IF \A b \in RBank : zero'[b] = "stamp" THEN "image" ELSE "menu")

WriteFirmware ==
    /\ pc = "image"
    /\ \/ Written("image") /\ NextRBank("reset")
       \/ Spoilt /\ rb' = 0 /\ pc' = "menu"

(* ROM_CMD_RESET, and the program ends. *)
Reset ==
    /\ pc = "reset"
    /\ Exit
    /\ UNCHANGED <<media, history>>

NextInstaller ==
    \/ Start \/ Quit \/ Initialize
    \/ Scan \/ LoadNand \/ LoadFiles \/ StartSave \/ SaveBank
    \/ EraseAll \/ EraseBlock \/ EndErase
    \/ StartInstall \/ WriteList \/ CompareLists
    \/ WriteDummies \/ WriteStamp \/ WriteFirmware \/ Reset
=============================================================================
