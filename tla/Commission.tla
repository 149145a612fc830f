----------------------------- MODULE Commission -----------------------------
(***************************************************************************)
(* A drive from the factory into service: the installer (Installer) and    *)
(* the firmware it puts there (BlockMap) meet in the flash.  The firmware  *)
(* runs when power comes and the ROM finds it, the installer when the      *)
(* drive is in factory mode instead.                                       *)
(*                                                                         *)
(* A block of the firmware is two blocks on both chips of its bank; when   *)
(* it is erased, so are the marks the factory put on any of them.          *)
(***************************************************************************)
EXTENDS BlockMap

CONSTANTS Factory, Sdram, BuiltFor, Cuts,  \* see Installer
          BootBanks                        \* the banks the ROM looks for firmware on

VARIABLES zero, marks, files, dir, pc, up, list, loaded, blk, rb, last, warned, partial

I == INSTANCE Installer

ASSUME FactoryAssumption ==
    /\ Factory \subseteq I!RBank \X (1 .. PBlks - 1) \X I!Chip
    /\ Sdram \in {16, 32, 64}
    /\ BootBanks \subseteq I!RBank
    /\ Cuts \subseteq 0 .. I!FileSize - 1

(* An entry of a list is a UINT16 of which one bit is the chip, and so is   *)
(* the number of entries.                                                  *)
ASSUME EntryAssumption == PBlks <= 32768 /\ ScanItems <= 65535

firmware  == <<mem, at, bank, i, num, result, vblk, lbn, isrFlag, head, tail, gc, failed>>
others    == <<zero, files, dir, pc, up, list, loaded, blk, rb, last, warned, partial>>
driveVars == <<page, marks, others, firmware>>

DriveInit == I!InitInstaller /\ InitFirmware

(* The installer has the drive to itself. *)
Install == at = "off" /\ I!NextInstaller /\ UNCHANGED firmware

(* The ROM loads the firmware from block zero. *)
Start == pc = "out" /\ (\E b \in BootBanks : zero[b] = "image") /\ Boot
         /\ UNCHANGED <<marks, others>>

(* What the firmware does without erasing a block. *)
Run == /\ \/ ReadList \/ CheckEntry \/ EndCheck \/ MarkBlk \/ EndMark
          \/ Tables \/ SkipBad \/ Overrun \/ NoneLeft \/ EndBank \/ PowerCycle
          \/ \E b \in Bank, l \in Lbn : StartGc(b, l)
       /\ UNCHANGED <<marks, others>>

Erased(b, v) == marks' = {m \in marks : m[1] # b \/ m[2] \div 2 # v}

(* format erases block FirstBlk whether it is bad or not, and then the     *)
(* blocks it takes.                                                        *)
Erase == /\ \/ StartBank /\ Erased(bank, FirstBlk)
            \/ (TakeFree \/ TakeLog \/ EraseFails) /\ Erased(bank, Candidate)
         /\ UNCHANGED others

Collect == /\ EndGc
           /\ Erased(gc[Len(gc)].bank, gc[Len(gc)].vbn)
           /\ UNCHANGED others

DriveNext == Install \/ Start \/ Run \/ Erase \/ Collect

DriveSpec == DriveInit /\ [][DriveNext]_driveVars

-----------------------------------------------------------------------------

(* The marks of the blocks that are erased only if they are good. *)
Guarded == {m \in Factory : m[2] \div 2 # FirstBlk}

(* The firmware reads the page correctly, and what it says is all there is *)
(* to know: no such mark of the bank is unlisted.                          *)
Informed(b) ==
    /\ Accepted(page[b])
    /\ {m[2] : m \in {m \in Guarded : m[1] = b}} \subseteq Listed(page[b])

(* The installer's variables have their types; those of the firmware are   *)
(* typed by BlockMap.                                                      *)
DriveTypeOK ==
    /\ TypeOK
    /\ zero \in [I!RBank -> {"blank", "dummies", "stamp", "image", "spoilt"}]
    /\ marks \subseteq Factory
    /\ files \in [I!RBank -> I!File \cup {I!NoFile}]
    /\ pc \in {"out", "menu", "save", "erase", "lists", "compare", "dummies", "stamp", "image", "reset"}
    /\ list \in [I!RBank -> I!Items]
    /\ {dir, up, loaded, warned, partial} \subseteq BOOLEAN
    /\ blk \in 0 .. PBlks + 1 /\ rb \in I!RBank /\ last \in {0, PBlks}

(* What the factory knew about bad blocks stays on the flash, through any  *)
(* number of installations, interrupted or not, and through any use of     *)
(* the drive: neither the installer nor the firmware erases a bad block    *)
(* (erase_flash, build_bad_blk_list, format).  There are three exceptions: *)
(* the user was told that this would happen; files were read that were     *)
(* missing or cut off; block FirstBlk, which format erases at every start. *)
MarksSurvive == warned \/ partial \/ Guarded \subseteq marks

(* The same without the exception for files: a user who was not warned has *)
(* not lost anything.                                                      *)
WarnedOrSpared == warned \/ Guarded \subseteq marks

(* A firmware that starts finds a complete list of bad blocks on every     *)
(* bank (install_block_zero writes and compares all lists first).          *)
StartsInformed ==
    [][at = "off" /\ at' = "read" /\ ~warned /\ ~partial => \A b \in I!RBank : Informed(b)]_driveVars

(* No block with a bad plane, on either chip, is in use.                   *)
NoBadBlockInUse ==
    at = "ready" /\ ~warned /\ ~partial =>
        \A b \in I!RBank : \A v \in InUse(mem, b) :
            \A m \in Factory : m[1] = b => m[2] \div 2 # v
=============================================================================
