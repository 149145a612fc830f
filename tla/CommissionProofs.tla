-------------------------- MODULE CommissionProofs --------------------------
(***************************************************************************)
(* Whatever the size of the drive and the blocks the factory marked, the   *)
(* installer and the firmware keep the marks, and the firmware never uses  *)
(* a bad block, while installations are cut off anywhere and begun again,  *)
(* until a user is warned or reads files that are missing or cut off.      *)
(* Marks on block FirstBlk, which format erases at every start, are not    *)
(* kept; that block is never used, so they are not missed (Guarded).       *)
(*                                                                         *)
(* The three properties need each other.  The installer spares what its    *)
(* list names (Knowledge), the list comes from the marks, from a file or   *)
(* from page 0, and was therefore complete once; the firmware spares what  *)
(* page 0 names, which the installer completes on all banks before there   *)
(* is any firmware to start (Installation); so the next scan still finds   *)
(* all the marks.  The firmware by itself is that of BlockMapProofs.       *)
(***************************************************************************)
EXTENDS Commission, BlockMapProofs, FiniteSetTheorems

-----------------------------------------------------------------------------
(* The installer's names for what the firmware has as well. *)
LEMMA InstallerTypes ==
    /\ I!RBank = Bank
    /\ I!Items = [0 .. ScanItems -> Half]
    /\ 0 \in Bank /\ NumBanks \in Nat /\ ScanItems \in Nat /\ PBlks \in Nat /\ PBlks > 0
<1>1. I!RBank = Bank /\ I!Items = [0 .. ScanItems -> Half]
  BY DEF I!RBank, Bank, I!Items, Half
<1>2. /\ 0 \in Bank /\ NumBanks \in Nat /\ ScanItems \in Nat /\ PBlks \in Nat /\ PBlks > 0
  BY SizesAssumption DEF Bank, PBlks
<1> QED
  BY <1>1, <1>2

(* Files, and how many bytes there can be of one that was cut off. *)
LEMMA FileTypes ==
    /\ I!File = [words : I!Items, size : 0 .. I!FileSize]
    /\ I!FileSize \in 0 .. I!FileSize /\ Cuts \subseteq 0 .. I!FileSize
<1>1. I!FileSize \in Nat
  BY InstallerTypes DEF I!FileSize
<1>2. Cuts \subseteq 0 .. I!FileSize - 1
  BY FactoryAssumption
<1> HIDE DEF I!FileSize
<1> QED
  BY <1>1, <1>2 DEF I!File

(* What the ROM reports for a marked chip. *)
EntryOf(m) == IF m[3] = "high" THEN m[2] + 32768 ELSE m[2]

LEMMA EntriesDecode ==
    ASSUME NEW m \in Factory
    PROVE  /\ m[1] \in Bank /\ m[2] \in 1 .. PBlks - 1 /\ m[3] \in {"high", "low"}
           /\ EntryOf(m) \in Half /\ EntryOf(m) \in Nat /\ EntryOf(m) <= 65535
           /\ EntryOf(m) % 32768 = m[2]
           /\ EntryOf(m) >= 32768 <=> m[3] = "high"
<1>1. m[1] \in Bank /\ m[2] \in 1 .. PBlks - 1 /\ m[3] \in {"high", "low"}
  BY FactoryAssumption, InstallerTypes DEF I!Chip
<1>2. m[2] \in Nat /\ 1 <= m[2] /\ m[2] < 32768
  BY <1>1, EntryAssumption, InstallerTypes
<1>3. /\ EntryOf(m) \in Nat /\ EntryOf(m) <= 65535
      /\ EntryOf(m) % 32768 = m[2]
      /\ EntryOf(m) >= 32768 <=> m[3] = "high"
  BY <1>2 DEF EntryOf
<1> QED
  BY <1>1, <1>3, HalfRange

(* A finite set in some order: every member, and nothing else. *)
LEMMA InSomeOrder ==
    ASSUME NEW S, IsFiniteSet(S)
    PROVE  /\ I!SetToSeq(S) \in Seq(S)
           /\ Len(I!SetToSeq(S)) \in Nat
           /\ \A x \in S : \E j \in 1 .. Len(I!SetToSeq(S)) : I!SetToSeq(S)[j] = x
<1> DEFINE n == Cardinality(S)
           s == I!SetToSeq(S)
<1>1. n \in Nat /\ ExistsBijection(1 .. n, S)
  BY FS_CardinalityType
<1>2. s = CHOOSE f \in [1 .. n -> S] : IsInjective(f)
  BY DEF I!SetToSeq, I!IsInjective, IsInjective, Cardinality, I!Cardinality
<1>3. \E f \in [1 .. n -> S] : IsInjective(f)
  BY <1>1 DEF ExistsBijection, Bijection, Injection
<1> HIDE DEF s, n
<1>4. s \in [1 .. n -> S] /\ IsInjective(s)
  BY <1>2, <1>3
<1>5. s \in Seq(S) /\ Len(s) = n
  BY <1>1, <1>4
<1>6. s \in Injection(1 .. n, S)
  BY <1>4 DEF Injection
<1>7. Cardinality(1 .. n) = n
  BY <1>1, FS_Interval
<1>8. s \in Surjection(1 .. n, S)
  BY <1>6, <1>7, FS_Injection DEF n
<1> QED
  BY <1>1, <1>5, <1>8 DEF Surjection, s

LEMMA ScannedMarks ==
    ASSUME marks \subseteq Factory, NEW b \in Bank
    PROVE  /\ Len(I!Scanned(b)) \in Nat
           /\ \A j \in 1 .. Len(I!Scanned(b)) :
                \E m \in marks : m[1] = b /\ I!Scanned(b)[j] = EntryOf(m)
           /\ \A m \in marks : m[1] = b =>
                \E j \in 1 .. Len(I!Scanned(b)) : I!Scanned(b)[j] = EntryOf(m)
<1> DEFINE S == {EntryOf(m) : m \in {m \in marks : m[1] = b}}
<1>1. S \in SUBSET Nat /\ \A x \in S : x <= 65535
  BY EntriesDecode
<1>2. I!Scanned(b) = I!SetToSeq(S)
  BY DEF I!Scanned, EntryOf
<1>3. \A x \in S : \E m \in marks : m[1] = b /\ x = EntryOf(m)
  OBVIOUS
<1>4. \A m \in marks : m[1] = b => EntryOf(m) \in S
  OBVIOUS
<1> HIDE DEF S
<1>5. IsFiniteSet(S)
  BY <1>1, FS_BoundedSetOfNaturals
<1>6. /\ I!SetToSeq(S) \in Seq(S)
      /\ Len(I!SetToSeq(S)) \in Nat
      /\ \A x \in S : \E j \in 1 .. Len(I!SetToSeq(S)) : I!SetToSeq(S)[j] = x
  BY <1>5, InSomeOrder
<1>7. \A j \in 1 .. Len(I!SetToSeq(S)) : I!SetToSeq(S)[j] \in S
  BY <1>6
<1> QED
  BY <1>2, <1>3, <1>4, <1>6, <1>7

-----------------------------------------------------------------------------
(* Types.                                                                  *)

InstallerTypeOK ==
    /\ zero \in [Bank -> {"blank", "dummies", "stamp", "image", "spoilt"}]
    /\ marks \subseteq Factory
    /\ files \in [Bank -> I!File \cup {I!NoFile}]
    /\ pc \in {"out", "menu", "save", "erase", "lists", "compare", "dummies", "stamp", "image", "reset"}
    /\ list \in [Bank -> I!Items]
    /\ {dir, up, loaded, warned, partial} \subseteq BOOLEAN
    /\ blk \in 0 .. PBlks + 1 /\ rb \in Bank /\ last \in {0, PBlks}

LEMMA TypesOfBoth == DriveTypeOK <=> TypeOK /\ InstallerTypeOK
BY InstallerTypes DEF DriveTypeOK, InstallerTypeOK

LEMMA FixedItems ==
    /\ I!NoItems \in I!Items
    /\ I!Blank \in [corrupt : BOOLEAN, words : I!Items]
    /\ I!NoItems[0] = 0 /\ I!Blank.words[0] = 65535
<1>1. 0 \in Half /\ 65535 \in Half /\ 0 \in 0 .. ScanItems
  BY HalfRange, InstallerTypes
<1>2. [k \in 0 .. ScanItems |-> 65535] \in [0 .. ScanItems -> Half]
  BY <1>1
<1>3. I!NoItems \in I!Items /\ I!NoItems[0] = 0
  BY <1>1, InstallerTypes DEF I!NoItems
<1> QED
  BY <1>1, <1>2, <1>3, InstallerTypes DEF I!Blank

LEMMA PageTypes == PageType = [Bank -> [corrupt : BOOLEAN, words : I!Items]]
BY InstallerTypes DEF PageType

(* The next bank, and the first one again after the last. *)
LEMMA BanksInTurn ==
    ASSUME NEW b \in Bank
    PROVE  0 \in Bank /\ (b + 1 < NumBanks => b + 1 \in Bank)
BY InstallerTypes DEF Bank

(* Entries put after those that are there. *)
LEMMA ItemsAppended ==
    ASSUME NEW l \in I!Items, NEW s, Len(s) \in Nat, \A j \in 1 .. Len(s) : s[j] \in Half,
           l[0] + Len(s) <= ScanItems
    PROVE  LET a == I!Appended(l, s)
           IN  /\ a \in I!Items
               /\ a[0] = l[0] + Len(s)
               /\ l[0] \in Nat
               /\ \A k \in 1 .. l[0] : a[k] = l[k]
               /\ \A j \in 1 .. Len(s) : l[0] + j \in 1 .. a[0] /\ a[l[0] + j] = s[j]
               /\ \A k \in 1 .. a[0] : k \in 1 .. l[0] \/ k - l[0] \in 1 .. Len(s)
<1> DEFINE a == I!Appended(l, s)
<1>1. /\ ScanItems \in Nat /\ 0 \in 0 .. ScanItems
      /\ \A k \in 0 .. ScanItems : l[k] \in Half
  BY InstallerTypes
<1>2. l[0] \in Nat
  BY <1>1, HalfRange
<1>3. l[0] + Len(s) \in Half
  BY <1>2, HalfRange, EntryAssumption, <1>1
<1>4. \A k \in 0 .. ScanItems :
         a[k] = IF k = 0 THEN l[0] + Len(s)
                ELSE IF k \in l[0] + 1 .. l[0] + Len(s) THEN s[k - l[0]] ELSE l[k]
  BY DEF I!Appended
<1>5. \A k \in 0 .. ScanItems : a[k] \in Half
  BY <1>1, <1>2, <1>3, <1>4
<1>6. a = [k \in 0 .. ScanItems |-> a[k]]
  BY DEF I!Appended
<1> HIDE DEF a
<1>7. a \in I!Items
  BY <1>5, <1>6, InstallerTypes
<1>8. a[0] = l[0] + Len(s)
  BY <1>1, <1>4
<1>9. \A k \in 1 .. l[0] : k \in 0 .. ScanItems /\ k # 0 /\ k \notin l[0] + 1 .. l[0] + Len(s)
  BY <1>1, <1>2
<1>10. \A j \in 1 .. Len(s) :
          /\ l[0] + j \in 1 .. l[0] + Len(s)
          /\ l[0] + j \in 0 .. ScanItems /\ l[0] + j # 0
          /\ l[0] + j \in l[0] + 1 .. l[0] + Len(s) /\ (l[0] + j) - l[0] = j
  BY <1>1, <1>2
<1>11. \A k \in 1 .. l[0] : a[k] = l[k]
  BY <1>4, <1>9
<1>12. \A j \in 1 .. Len(s) : l[0] + j \in 1 .. a[0] /\ a[l[0] + j] = s[j]
  BY <1>4, <1>8, <1>10
<1>13. \A k \in 1 .. a[0] : k \in 1 .. l[0] \/ k - l[0] \in 1 .. Len(s)
  BY <1>2, <1>8
<1> QED
  BY <1>2, <1>7, <1>8, <1>11, <1>12, <1>13 DEF a

LEMMA ScanTypes ==
    ASSUME TypeOK, InstallerTypeOK, I!Scan
    PROVE  list' \in [Bank -> I!Items]
<1>1. /\ list' = [b \in Bank |-> I!Appended(list[b], I!Scanned(b))]
      /\ \A b \in Bank : list[b][0] + Len(I!Scanned(b)) <= ScanItems
  BY InstallerTypes DEF I!Scan
<1>2. marks \subseteq Factory /\ list \in [Bank -> I!Items]
  BY DEF InstallerTypeOK
<1>3. ASSUME NEW b \in Bank PROVE I!Appended(list[b], I!Scanned(b)) \in I!Items
  <2>1. /\ Len(I!Scanned(b)) \in Nat
        /\ \A j \in 1 .. Len(I!Scanned(b)) : I!Scanned(b)[j] \in Half
    BY <1>2, ScannedMarks, EntriesDecode
  <2> QED
    BY <1>1, <1>2, <2>1, ItemsAppended
<1> QED
  BY <1>1, <1>3

(* A list read over another one is a list still, wherever its file ends. *)
LEMMA OverlaidTypes ==
    ASSUME NEW l \in I!Items, NEW f \in I!File
    PROVE  I!Overlaid(l, f) \in I!Items
<1>1. \A k \in 0 .. ScanItems : l[k] \in Half /\ f.words[k] \in Half
  BY FileTypes, InstallerTypes
<1>2. \A o, n \in Nat : o <= 65535 => /\ ((o \div 256) * 256) + (n % 256) \in Nat
                                      /\ ((o \div 256) * 256) + (n % 256) <= 65535
  OBVIOUS
<1>3. \A o, n \in Half : ((o \div 256) * 256) + (n % 256) \in Half
  BY <1>2, HalfRange
<1>4. \A k \in 0 .. ScanItems :
         (IF 2 * k + 2 <= f.size THEN f.words[k]
          ELSE IF 2 * k + 1 = f.size THEN ((l[k] \div 256) * 256) + (f.words[k] % 256)
          ELSE l[k]) \in Half
  BY <1>1, <1>3
<1> QED
  BY <1>4, InstallerTypes DEF I!Overlaid

LEMMA InstallerStepTypes ==
    ASSUME TypeOK, InstallerTypeOK, I!NextInstaller
    PROVE  page' \in PageType /\ InstallerTypeOK'
<1>0. page \in [Bank -> [corrupt : BOOLEAN, words : I!Items]]
  BY PageTypes DEF TypeOK
<1> USE DEF I!media, I!loops, I!history
<1>1. CASE I!Start \/ I!Quit \/ I!Reset
  <2>1. /\ pc' \in {"menu", "out"} /\ up' = FALSE /\ loaded' = FALSE
        /\ list' = [b \in Bank |-> I!NoItems]
        /\ blk' \in {0, blk} /\ rb' \in {0, rb} /\ last' \in {0, last}
        /\ UNCHANGED <<page, zero, marks, files, dir, warned, partial>>
    BY <1>1, InstallerTypes DEF I!Start, I!Quit, I!Reset, I!Exit
  <2>2. {dir', up', loaded', warned', partial'} \subseteq BOOLEAN
    BY <2>1 DEF InstallerTypeOK
  <2>3. blk' \in 0 .. PBlks + 1 /\ rb' \in Bank /\ last' \in {0, PBlks}
    BY <2>1, InstallerTypes DEF InstallerTypeOK
  <2>4. list' \in [Bank -> I!Items]
    BY <2>1, FixedItems
  <2>5. page' \in PageType /\ pc' \in {"menu", "out"}
    BY <2>1, <1>0, PageTypes
  <2> QED
    BY <2>1, <2>2, <2>3, <2>4, <2>5 DEF InstallerTypeOK
<1>2. CASE I!Initialize
  BY <1>2, <1>0, PageTypes DEF I!Initialize, InstallerTypeOK
<1>3. CASE I!Scan
  BY <1>3, <1>0, PageTypes, ScanTypes DEF I!Scan, InstallerTypeOK
<1>4. CASE I!LoadNand
  <2>1. list' \in [Bank -> I!Items] /\ loaded' \in BOOLEAN
    BY <1>4, <1>0, InstallerTypes DEF I!LoadNand, InstallerTypeOK
  <2> QED
    BY <2>1, <1>4, <1>0, PageTypes DEF I!LoadNand, InstallerTypeOK
<1>5. CASE I!LoadFiles
  <2>1. \A b \in Bank : b \in I!Found => files[b] \in I!File
    BY InstallerTypes DEF I!Found, InstallerTypeOK, Bank
  <2>2. \A b \in Bank : b \in I!Found => I!Overlaid(list[b], files[b]) \in I!Items
    BY <2>1, OverlaidTypes DEF InstallerTypeOK
  <2>3. list' \in [Bank -> I!Items]
    BY <1>5, <2>2, InstallerTypes DEF I!LoadFiles, InstallerTypeOK
  <2>4. loaded' \in BOOLEAN /\ partial' \in BOOLEAN
    BY <1>5 DEF I!LoadFiles, InstallerTypeOK
  <2> QED
    BY <2>3, <2>4, <1>5, <1>0, PageTypes DEF I!LoadFiles, InstallerTypeOK
<1>6. CASE I!StartSave \/ I!EraseAll \/ I!StartInstall \/ I!CompareLists \/ I!EndErase
  <2>1. /\ pc' \in {"save", "erase", "lists", "menu", "dummies"} /\ dir' \in {dir, TRUE}
        /\ blk' \in {0, blk} /\ rb' \in {0, rb} /\ last' \in {0, PBlks, last}
        /\ warned' \in {warned, warned \/ ~loaded}
        /\ UNCHANGED <<page, zero, marks, files, up, list, loaded, partial>>
    BY <1>6 DEF I!StartSave, I!EraseAll, I!StartInstall, I!CompareLists, I!EndErase
  <2>2. {dir', up', loaded', warned', partial'} \subseteq BOOLEAN
    BY <2>1 DEF InstallerTypeOK
  <2>3. blk' \in 0 .. PBlks + 1 /\ rb' \in Bank /\ last' \in {0, PBlks}
    BY <2>1, InstallerTypes DEF InstallerTypeOK
  <2>4. page' \in PageType
    BY <2>1, <1>0, PageTypes
  <2> QED
    BY <2>1, <2>2, <2>3, <2>4 DEF InstallerTypeOK
<1>7. CASE I!SaveBank
  <2>1. /\ \E n \in 0 .. I!FileSize : files' = [files EXCEPT ![rb] = [words |-> list[rb], size |-> n]]
        /\ UNCHANGED <<page, zero, marks, dir, warned, partial>>
    BY <1>7, FileTypes DEF I!SaveBank
  <2>2. files' \in [Bank -> I!File \cup {I!NoFile}]
    <3>1. PICK n \in 0 .. I!FileSize : files' = [files EXCEPT ![rb] = [words |-> list[rb], size |-> n]]
      BY <2>1
    <3>2. [words |-> list[rb], size |-> n] \in I!File
      BY FileTypes DEF InstallerTypeOK
    <3> QED
      BY <3>1, <3>2 DEF InstallerTypeOK
  <2>3. CASE UNCHANGED <<up, list, loaded, blk, last>>
    <3>1. \/ rb + 1 < NumBanks /\ rb' = rb + 1 /\ pc' = "save"
          \/ rb' = 0 /\ pc' = "menu"
          \/ I!Exit
      BY <1>7 DEF I!SaveBank
    <3>2. rb' \in Bank /\ pc' \in {"out", "save", "menu"}
      BY <3>1, BanksInTurn DEF InstallerTypeOK, I!Exit
    <3> QED
      BY <2>1, <2>2, <2>3, <3>2, <1>0, PageTypes DEF InstallerTypeOK
  <2>4. CASE I!Exit
    <3>1. /\ pc' = "out" /\ up' = FALSE /\ loaded' = FALSE
          /\ list' \in [Bank -> I!Items]
          /\ blk' = 0 /\ rb' \in Bank /\ last' = 0
      BY <2>4, FixedItems, InstallerTypes DEF I!Exit
    <3>2. UNCHANGED <<page, zero, marks, dir, warned, partial>>
      BY <2>1
    <3>3. {dir', up', loaded', warned', partial'} \subseteq BOOLEAN
      BY <3>1, <3>2 DEF InstallerTypeOK
    <3>4. blk' \in 0 .. PBlks + 1 /\ last' \in {0, PBlks}
      BY <3>1, InstallerTypes
    <3>5. page' \in PageType /\ zero' \in [Bank -> {"blank", "dummies", "stamp", "image", "spoilt"}]
          /\ marks' \subseteq Factory
      BY <3>2, <1>0, PageTypes DEF InstallerTypeOK
    <3>6. pc' \in {"out", "menu", "save", "erase", "lists", "compare", "dummies", "stamp", "image", "reset"}
      BY <3>1
    <3>7. list' \in [Bank -> I!Items] /\ rb' \in Bank
      BY <3>1
    <3> QED
      BY <2>2, <3>3, <3>4, <3>5, <3>6, <3>7 DEF InstallerTypeOK
  <2> QED
    BY <2>3, <2>4, <1>7 DEF I!SaveBank
<1>8. CASE I!EraseBlock
  <2>1. rb' \in Bank /\ blk' \in 0 .. PBlks + 1
    BY <1>8, BanksInTurn, InstallerTypes DEF I!EraseBlock, InstallerTypeOK
  <2>2. /\ page' \in [Bank -> [corrupt : BOOLEAN, words : I!Items]]
        /\ zero' \in [Bank -> {"blank", "dummies", "stamp", "image", "spoilt"}]
    BY <1>8, <1>0, FixedItems DEF I!EraseBlock, InstallerTypeOK
  <2>3. marks' \subseteq Factory
    BY <1>8 DEF I!EraseBlock, InstallerTypeOK
  <2> QED
    BY <2>1, <2>2, <2>3, <1>8, PageTypes DEF I!EraseBlock, InstallerTypeOK
<1>9. CASE I!WriteList
  <2>1. page' \in [Bank -> [corrupt : BOOLEAN, words : I!Items]]
    BY <1>9, <1>0 DEF I!WriteList, InstallerTypeOK
  <2>2. rb' \in Bank /\ pc' \in {"lists", "compare"}
    BY <1>9, BanksInTurn DEF I!WriteList, I!NextRBank, InstallerTypeOK
  <2> QED
    BY <2>1, <2>2, <1>9, PageTypes DEF I!WriteList, InstallerTypeOK
<1>10. CASE I!WriteDummies \/ I!WriteStamp \/ I!WriteFirmware
  <2>1. \E w \in {"blank", "dummies", "stamp", "image", "spoilt"} : zero' = [zero EXCEPT ![rb] = w]
    BY <1>10 DEF I!WriteDummies, I!WriteStamp, I!WriteFirmware, I!Spoilt, I!Written
  <2>2. UNCHANGED <<page, marks, files, dir, up, list, loaded, blk, last, warned, partial>>
    BY <1>10 DEF I!WriteDummies, I!WriteStamp, I!WriteFirmware, I!Spoilt, I!Written
  <2>3. rb' \in Bank
    BY <1>10, BanksInTurn
       DEF I!WriteDummies, I!WriteStamp, I!WriteFirmware, I!NextRBank, InstallerTypeOK
  <2>4. pc' \in {"dummies", "stamp", "image", "reset", "menu"}
    BY <1>10 DEF I!WriteDummies, I!WriteStamp, I!WriteFirmware, I!NextRBank
  <2> QED
    BY <2>1, <2>2, <2>3, <2>4, <1>0, PageTypes DEF InstallerTypeOK
<1> QED
  BY <1>1, <1>2, <1>3, <1>4, <1>5, <1>6, <1>7, <1>8, <1>9, <1>10 DEF I!NextInstaller

-----------------------------------------------------------------------------
(* The firmware by itself is BlockMap, whatever the installer leaves it.   *)

FirmwareInv == MapInv /\ GoodInv

LEMMA FirmwareSteps ==
    ASSUME Start \/ Run \/ Erase \/ Collect
    PROVE  Next /\ UNCHANGED <<page, others>>
<1>1. Next /\ UNCHANGED others
  BY DEF Start, Run, Erase, Collect, Next
<1>2. CASE Boot \/ ReadList \/ CheckEntry \/ EndCheck \/ MarkBlk \/ EndMark
  BY <1>1, <1>2 DEF Boot, ReadList, CheckEntry, EndCheck, MarkBlk, EndMark
<1>3. CASE Tables \/ StartBank \/ SkipBad \/ EraseFails \/ TakeFree \/ Overrun
  BY <1>1, <1>3 DEF Tables, StartBank, SkipBad, EraseFails, TakeFree, Overrun
<1>4. CASE TakeLog \/ NoneLeft \/ EndBank \/ EndGc \/ PowerCycle
  BY <1>1, <1>4 DEF TakeLog, NoneLeft, EndBank, EndGc, PowerCycle
<1>5. CASE \E b \in Bank, l \in Lbn : StartGc(b, l)
  BY <1>1, <1>5 DEF StartGc
<1> QED
  BY <1>1, <1>2, <1>3, <1>4, <1>5 DEF Next

(* While the power of the firmware is off, page 0 may become anything. *)
LEMMA PageMayChange ==
    ASSUME FirmwareInv, at = "off", page' \in PageType, UNCHANGED firmware
    PROVE  FirmwareInv'
<1>1. UNCHANGED <<mem, at, bank, i, num, result, vblk, lbn, isrFlag, head, tail, gc, failed>>
  BY DEF firmware
<1>2. Inv /\ TypeOK /\ BitmapInv
  BY DEF FirmwareInv, MapInv
<1>3. Types' /\ Search'
  BY <1>1, <1>2 DEF Inv, Types, Search
<1>4. Blocks'
  <2>1. \A b : Handed(b)' = Handed(b)
    BY <1>1 DEF Handed
  <2> QED
    BY <1>1, <1>2, <2>1 DEF Inv, Blocks, Numbered, Apart, UpTo
<1>5. Victims'
  BY <1>1, <1>2 DEF Inv, Victims, VictimsCurrent
<1>6. TypeOK'
  BY <1>1, <1>2 DEF TypeOK
<1>7. at' = "off" /\ failed' = {}
  BY <1>1, <1>2 DEF BitmapInv
<1>8. ListInv' /\ BitmapInv' /\ GoodInv'
  BY <1>7 DEF ListInv, BitmapInv, GoodInv, Scanning, Building
<1> QED
  BY <1>3, <1>4, <1>5, <1>6, <1>8 DEF FirmwareInv, MapInv, Inv

DriveTypes == FirmwareInv /\ InstallerTypeOK

LEMMA TypesInit == DriveInit => DriveTypes
<1> SUFFICES ASSUME DriveInit PROVE DriveTypes
  OBVIOUS
<1>1. /\ page = [b \in Bank |-> I!Blank] /\ zero = [b \in Bank |-> "blank"]
      /\ marks = Factory /\ files = [b \in Bank |-> I!NoFile]
      /\ dir = FALSE /\ up = FALSE /\ loaded = FALSE /\ warned = FALSE /\ partial = FALSE
      /\ pc = "out" /\ list = [b \in Bank |-> I!NoItems]
      /\ blk = 0 /\ rb = 0 /\ last = 0
      /\ InitFirmware
  BY InstallerTypes DEF DriveInit, I!InitInstaller
<1>2. page \in PageType
  BY <1>1, PageTypes, FixedItems
<1>3. {dir, up, loaded, warned, partial} \subseteq BOOLEAN
  BY <1>1
<1>4. InstallerTypeOK
  BY <1>1, <1>3, FixedItems, InstallerTypes DEF InstallerTypeOK
<1>5. GoodInv
  BY <1>1 DEF InitFirmware, GoodInv, Building
<1> QED
  BY <1>1, <1>2, <1>4, <1>5, MapStart DEF DriveTypes, FirmwareInv

LEMMA FirmwareTypes ==
    ASSUME DriveTypes, Start \/ Run \/ Erase \/ Collect
    PROVE  DriveTypes'
<1>1. Next /\ UNCHANGED <<page, others>>
  BY FirmwareSteps
<1>2. FirmwareInv'
  BY <1>1, MapNext, GoodNext DEF DriveTypes, FirmwareInv
<1>3. marks' \subseteq Factory
  BY DEF Start, Run, Erase, Collect, Erased, DriveTypes, InstallerTypeOK
<1> QED
  BY <1>1, <1>2, <1>3 DEF others, DriveTypes, InstallerTypeOK

LEMMA TypesNext == DriveTypes /\ [DriveNext]_driveVars => DriveTypes'
<1> SUFFICES ASSUME DriveTypes, [DriveNext]_driveVars PROVE DriveTypes'
  OBVIOUS
<1>1. CASE Install
  <2>1. page' \in PageType /\ InstallerTypeOK'
    BY <1>1, InstallerStepTypes DEF Install, DriveTypes, FirmwareInv, MapInv
  <2> QED
    BY <1>1, <2>1, PageMayChange DEF Install, DriveTypes
<1>2. CASE Start \/ Run \/ Erase \/ Collect
  BY <1>2, FirmwareTypes
<1>3. CASE UNCHANGED driveVars
  <2>1. UNCHANGED <<page, marks, others, firmware>>
    BY <1>3 DEF driveVars
  <2>2. UNCHANGED vars
    BY <2>1 DEF firmware, vars
  <2>3. InstallerTypeOK'
    BY <2>1 DEF others, DriveTypes, InstallerTypeOK
  <2> QED
    BY <2>2, <2>3, MapNext, GoodNext DEF DriveTypes, FirmwareInv
<1> QED
  BY <1>1, <1>2, <1>3 DEF DriveNext

(* The variables of the installer and of the firmware keep their types     *)
(* while the two take turns on one drive, power failures included: no list *)
(* the installer builds has a count or an entry of more than 16 bits.      *)
THEOREM DriveTypeCorrect == DriveSpec => []DriveTypeOK
<1>1. DriveTypes => DriveTypeOK
  BY TypesOfBoth DEF DriveTypes, FirmwareInv, MapInv
<1> QED
  BY <1>1, TypesInit, TypesNext, PTL DEF DriveSpec

-----------------------------------------------------------------------------
(* What the installer knows.  As long as the user was not warned and the   *)
(* files that were read gave back all lists, every list there is, in       *)
(* memory, on the flash or meant for a file, has at least all the guarded  *)
(* marks of its bank.                                                      *)

Quiet == ~warned /\ ~partial

(* All entries are blocks of the bank; entries may be there twice. *)
Sound(l) == l[0] <= ScanItems /\ \A k \in 1 .. l[0] : l[k] % 32768 \in 1 .. PBlks - 1

Full(b, l) ==
    /\ Sound(l)
    /\ \A m \in Guarded : m[1] = b =>
         \E k \in 1 .. l[0] : l[k] % 32768 = m[2] /\ (l[k] >= 32768 <=> m[3] = "high")

Knowledge ==
    Quiet =>
      /\ Guarded \subseteq marks
      /\ \A b \in Bank : Sound(list[b])
      /\ loaded => \A b \in Bank : Full(b, list[b])
      /\ pc \notin {"out", "menu"} => loaded
      /\ \A b \in Bank : page[b] = I!Blank \/ Full(b, page[b].words)
      /\ \A b \in Bank : files[b] = I!NoFile \/ Full(b, files[b].words)

(* How far the installation is: while pages of lists are missing there is  *)
(* no firmware on bank 0, and there are none missing once it is written.   *)
Installation ==
    Quiet =>
      /\ pc = "erase" /\ ~(blk = 0 /\ rb = 0) => zero[0] # "image"
      /\ pc \in {"lists", "compare"} => zero[0] # "image"
      /\ pc \in {"dummies", "stamp", "image", "reset"} => I!Same
      /\ zero[0] = "image" \/ at # "off" => \A b \in Bank : Informed(b)

LEMMA NothingKnown == Sound(I!NoItems)
BY FixedItems, InstallerTypes DEF Sound

(* A scan makes any sound list full. *)
LEMMA ScanFills ==
    ASSUME marks \subseteq Factory, Guarded \subseteq marks, NEW b \in Bank, NEW l \in I!Items, Sound(l),
           l[0] + Len(I!Scanned(b)) <= ScanItems
    PROVE  Full(b, I!Appended(l, I!Scanned(b)))
<1> DEFINE s == I!Scanned(b)
           a == I!Appended(l, s)
<1>1. /\ Len(s) \in Nat
      /\ \A j \in 1 .. Len(s) : \E m \in Factory : s[j] = EntryOf(m)
      /\ \A m \in Guarded : m[1] = b => \E j \in 1 .. Len(s) : s[j] = EntryOf(m)
  BY ScannedMarks
<1> HIDE DEF s
<1>2. \A j \in 1 .. Len(s) : s[j] \in Half /\ s[j] % 32768 \in 1 .. PBlks - 1
  BY <1>1, EntriesDecode
<1>3. l[0] + Len(s) <= ScanItems
  BY DEF s
<1>4. /\ a[0] = l[0] + Len(s)
      /\ l[0] \in Nat
      /\ \A k \in 1 .. l[0] : a[k] = l[k]
      /\ \A j \in 1 .. Len(s) : l[0] + j \in 1 .. a[0] /\ a[l[0] + j] = s[j]
      /\ \A k \in 1 .. a[0] : k \in 1 .. l[0] \/ k - l[0] \in 1 .. Len(s)
  BY <1>1, <1>2, <1>3, ItemsAppended
<1> HIDE DEF a
<1>5. ASSUME NEW k \in 1 .. a[0] PROVE a[k] % 32768 \in 1 .. PBlks - 1
  <2>1. CASE k \in 1 .. l[0]
    BY <2>1, <1>4 DEF Sound
  <2>2. CASE k - l[0] \in 1 .. Len(s)
    <3>1. l[0] + (k - l[0]) = k
      BY <1>1, <1>4
    <3>2. a[k] = s[k - l[0]]
      BY <2>2, <3>1, <1>4
    <3> QED
      BY <2>2, <3>2, <1>2
  <2> QED
    BY <2>1, <2>2, <1>4
<1>6. Sound(a)
  BY <1>3, <1>4, <1>5 DEF Sound
<1>7. ASSUME NEW m \in Guarded, m[1] = b
      PROVE  \E k \in 1 .. a[0] : a[k] % 32768 = m[2] /\ (a[k] >= 32768 <=> m[3] = "high")
  <2>1. PICK j \in 1 .. Len(s) : s[j] = EntryOf(m)
    BY <1>1, <1>7
  <2>2. l[0] + j \in 1 .. a[0] /\ a[l[0] + j] = EntryOf(m)
    BY <2>1, <1>4
  <2> QED
    BY <2>2, EntriesDecode DEF Guarded
<1>8. Full(b, a)
  BY <1>6, <1>7 DEF Full
<1> QED
  BY <1>8 DEF a, s

(* A list with all the marks of a bank spares all of them. *)
LEMMA MarksSpared ==
    ASSUME Guarded \subseteq marks, rb \in Bank, Full(rb, list[rb])
    PROVE  Guarded \subseteq marks \ {<<rb, blk, c>> : c \in I!Chip \ I!Spared}
<1> SUFFICES ASSUME NEW m \in Guarded, NEW c \in I!Chip \ I!Spared, m = <<rb, blk, c>>
             PROVE  FALSE
  OBVIOUS
<1>1. PICK k \in 1 .. list[rb][0] :
         list[rb][k] % 32768 = m[2] /\ (list[rb][k] >= 32768 <=> m[3] = "high")
  BY DEF Full
<1>2. blk \in I!Listed(rb, c)
  BY <1>1 DEF I!Listed
<1> QED
  BY <1>2 DEF I!Spared

(* A page with all the marks of its bank is what the firmware needs. *)
LEMMA FullInforms ==
    ASSUME NEW b \in Bank, Full(b, page[b].words), ~page[b].corrupt
    PROVE  Informed(b)
<1>1. Accepted(page[b])
  BY DEF Accepted, Listed, Full, Sound
<1>2. \A m \in Guarded : m[1] = b => m[2] \in Listed(page[b])
  BY DEF Full, Listed
<1> QED
  BY <1>1, <1>2 DEF Informed

-----------------------------------------------------------------------------
(* An informed firmware spares the marks as well.                          *)

LEMMA MarkedIsBad ==
    ASSUME NEW b, Informed(b), NEW m \in Guarded, m[1] = b
    PROVE  Bad(b, m[2] \div 2)
<1>1. m[2] \in Nat /\ m[2] \in Listed(page[b])
  BY EntriesDecode, InstallerTypes DEF Informed, Guarded
<1>2. m[2] \in {2 * (m[2] \div 2), 2 * (m[2] \div 2) + 1}
  BY <1>1
<1> QED
  BY <1>1, <1>2 DEF Bad

LEMMA InUseIsGood ==
    ASSUME FirmwareInv, at = "ready", NEW b \in Bank, Informed(b), NEW v \in InUse(mem, b)
    PROVE  ~Bad(b, v) /\ v # FirstBlk
<1>1. Handed(b) = Cells(b)
  BY DEF Handed
<1>2. v \in Found(b)
  BY <1>1 DEF Found, InUse
<1>3. GoodBank(b)
  BY DEF FirmwareInv, GoodInv, Informed
<1> QED
  BY <1>2, <1>3 DEF GoodBank

(* Whatever it has for a victim, a mark is on no block of that number. *)
LEMMA VictimsGood ==
    ASSUME FirmwareInv, at = "ready", gc # << >>, \A b \in Bank : Informed(b),
           NEW m \in Guarded, m[1] = gc[Len(gc)].bank
    PROVE  m[2] \div 2 # gc[Len(gc)].vbn
<1> DEFINE e == gc[Len(gc)]
<1>1. gc \in Seq([bank : Bank, lbn : Lbn, vbn : Nat]) /\ VictimsCurrent
  BY DEF FirmwareInv, MapInv, Inv, Victims
<1>2. ASSUME NEW S, gc \in Seq(S) PROVE Len(gc) \in DOMAIN gc /\ e \in S
  BY <1>2
<1>3. Len(gc) \in DOMAIN gc /\ e \in [bank : Bank, lbn : Lbn, vbn : Nat]
  BY <1>1, <1>2
<1>4. e.vbn = Read16(mem, LogCell(e.bank, e.lbn))
  BY <1>1, <1>3 DEF VictimsCurrent, GetLogVbn
<1>5. LogCell(e.bank, e.lbn) \in Cells(e.bank)
  BY <1>3, CellsOf
<1> HIDE DEF e
<1>6. CASE e.vbn = NoBlk
  <2>1. m[2] \in Nat /\ m[2] < 2 * VBlks
    BY EntriesDecode, Sizes, InstallerTypes DEF PBlks, Guarded
  <2>2. m[2] \div 2 < VBlks /\ m[2] \div 2 \in Nat
    BY <2>1, Sizes
  <2> QED
    BY <2>2, <1>6, Sizes, NoBlkIsNat DEF e
<1>7. CASE e.vbn # NoBlk
  <2>1. e.vbn \in InUse(mem, e.bank)
    BY <1>4, <1>5, <1>7 DEF InUse
  <2>2. ~Bad(e.bank, e.vbn)
    BY <2>1, <1>3, InUseIsGood
  <2> QED
    BY <2>2, <1>3, MarkedIsBad DEF e
<1> QED
  BY <1>6, <1>7

LEMMA FirmwareSpares ==
    ASSUME DriveTypes, Guarded \subseteq marks, at # "off" => \A b \in Bank : Informed(b),
           Start \/ Run \/ Erase \/ Collect
    PROVE  Guarded \subseteq marks'
<1>1. CASE Start \/ Run
  BY <1>1 DEF Start, Run
<1>2. CASE StartBank /\ Erased(bank, FirstBlk)
  BY <1>2 DEF Erased, Guarded
<1>3. CASE (TakeFree \/ TakeLog \/ EraseFails) /\ Erased(bank, Candidate)
  <2>1. at \in {"free", "log"} /\ Usable
    BY <1>3 DEF TakeFree, TakeLog, EraseFails
  <2>2. bank \in Bank /\ Informed(bank)
    BY <2>1 DEF DriveTypes, FirmwareInv, MapInv, TypeOK
  <2>3. ~Bad(bank, Candidate)
    BY <2>1, <2>2, CandidateJudged DEF DriveTypes, FirmwareInv, Usable, Informed
  <2>4. \A m \in Guarded : m[1] # bank \/ m[2] \div 2 # Candidate
    BY <2>2, <2>3, MarkedIsBad
  <2> QED
    BY <1>3, <2>4 DEF Erased
<1>4. CASE Collect
  <2>1. at = "ready" /\ gc # << >>
    BY <1>4 DEF Collect, EndGc
  <2>2. \A m \in Guarded : m[1] # gc[Len(gc)].bank \/ m[2] \div 2 # gc[Len(gc)].vbn
    BY <2>1, VictimsGood DEF DriveTypes
  <2> QED
    BY <1>4, <2>2 DEF Collect, Erased
<1> QED
  BY <1>1, <1>2, <1>3, <1>4 DEF Erase

-----------------------------------------------------------------------------
(* What the installer knows, step by step.                                 *)

LEMMA QuietBefore == I!NextInstaller /\ Quiet' => Quiet
<1> SUFFICES ASSUME I!NextInstaller, Quiet' PROVE Quiet
  OBVIOUS
<1> USE DEF Quiet, I!history
<1>1. CASE I!LoadFiles
  BY <1>1 DEF I!LoadFiles
<1>2. CASE I!EraseAll
  BY <1>2 DEF I!EraseAll
<1>3. CASE I!Start \/ I!Quit \/ I!Initialize \/ I!Scan \/ I!LoadNand \/ I!StartSave \/ I!SaveBank
  BY <1>3 DEF I!Start, I!Quit, I!Initialize, I!Scan, I!LoadNand, I!StartSave, I!SaveBank
<1>4. CASE \/ I!EraseBlock \/ I!EndErase \/ I!StartInstall \/ I!WriteList \/ I!CompareLists
           \/ I!WriteDummies \/ I!WriteStamp \/ I!WriteFirmware \/ I!Reset
  BY <1>4 DEF I!EraseBlock, I!EndErase, I!StartInstall, I!WriteList, I!CompareLists,
              I!WriteDummies, I!WriteStamp, I!WriteFirmware, I!Written, I!Spoilt, I!Reset
<1> QED
  BY <1>1, <1>2, <1>3, <1>4 DEF I!NextInstaller

(* The lists in memory change in the menu only. *)
LEMMA ListsLearnt ==
    ASSUME DriveTypes, Quiet, Quiet', Knowledge, I!Scan \/ I!LoadNand \/ I!LoadFiles
    PROVE  /\ \A b \in Bank : Sound(list'[b])
           /\ loaded' => \A b \in Bank : Full(b, list'[b])
<1>1. /\ list \in [Bank -> I!Items] /\ marks \subseteq Factory /\ Guarded \subseteq marks
      /\ \A b \in Bank : Sound(list[b])
      /\ loaded => \A b \in Bank : Full(b, list[b])
      /\ \A b \in Bank : page[b] = I!Blank \/ Full(b, page[b].words)
      /\ \A b \in Bank : files[b] = I!NoFile \/ Full(b, files[b].words)
  BY DEF Knowledge, DriveTypes, InstallerTypeOK
<1>2. \A b, l : Full(b, l) => Sound(l)
  BY DEF Full
<1>3. CASE I!Scan
  <2>1. \A b \in Bank : /\ list'[b] = I!Appended(list[b], I!Scanned(b))
                        /\ list[b][0] + Len(I!Scanned(b)) <= ScanItems
    BY <1>3, InstallerTypes DEF I!Scan
  <2>2. \A b \in Bank : Full(b, list'[b])
    BY <1>1, <2>1, ScanFills
  <2> QED
    BY <1>2, <2>2
<1>4. CASE I!LoadNand
  <2>1. \A b \in Bank : list'[b] = IF I!Readable(page[b]) THEN page[b].words ELSE list[b]
    BY <1>4, InstallerTypes DEF I!LoadNand
  <2>2. \A b \in Bank : I!Readable(page[b]) => Full(b, page[b].words)
    BY <1>1 DEF I!Readable
  <2>3. loaded' => loaded \/ \A b \in Bank : I!Readable(page[b])
    BY <1>4, InstallerTypes DEF I!LoadNand
  <2> QED
    BY <1>1, <1>2, <2>1, <2>2, <2>3
<1>5. CASE I!LoadFiles
  <2>1. CASE I!Found = {}
    <3>1. (loaded' <=> loaded) /\ \A b \in Bank : list'[b] = list[b]
      BY <1>5, <2>1, InstallerTypes DEF I!LoadFiles
    <3> QED
      BY <1>1, <3>1
  <2>2. CASE I!Found # {}
    <3>1. \A b \in Bank : files[b] # I!NoFile /\ list'[b] = files[b].words
      BY <1>5, <2>2, InstallerTypes DEF I!LoadFiles, Quiet
    <3>2. \A b \in Bank : Full(b, list'[b])
      BY <1>1, <3>1
    <3> QED
      BY <1>2, <3>2
  <2> QED
    BY <2>1, <2>2
<1> QED
  BY <1>3, <1>4, <1>5

LEMMA KnowledgeInstaller ==
    ASSUME DriveTypes, Knowledge, I!NextInstaller, Quiet'
    PROVE  Knowledge'
<1>1. Quiet
  BY QuietBefore
<1>2. /\ Guarded \subseteq marks
      /\ \A b \in Bank : Sound(list[b])
      /\ loaded => \A b \in Bank : Full(b, list[b])
      /\ pc \notin {"out", "menu"} => loaded
      /\ \A b \in Bank : page[b] = I!Blank \/ Full(b, page[b].words)
      /\ \A b \in Bank : files[b] = I!NoFile \/ Full(b, files[b].words)
  BY <1>1 DEF Knowledge
<1>3. page \in [Bank -> [corrupt : BOOLEAN, words : I!Items]] /\ InstallerTypeOK
  BY PageTypes DEF DriveTypes, FirmwareInv, MapInv, TypeOK
<1> USE DEF I!media, I!loops, I!history
<1>4. CASE I!Start \/ I!Quit \/ I!Reset
  <2>1. /\ pc' \in {"menu", "out"} /\ loaded' = FALSE
        /\ list' = [b \in Bank |-> I!NoItems]
        /\ UNCHANGED <<page, marks, files>>
    BY <1>4, InstallerTypes DEF I!Start, I!Quit, I!Reset, I!Exit
  <2> QED
    BY <1>2, <2>1, NothingKnown DEF Knowledge
<1>5. CASE I!Scan \/ I!LoadNand \/ I!LoadFiles
  <2>1. pc' = "menu" /\ UNCHANGED <<page, marks, files>>
    BY <1>5 DEF I!Scan, I!LoadNand, I!LoadFiles
  <2> QED
    BY <1>1, <1>2, <1>5, <2>1, ListsLearnt DEF Knowledge
<1>6. CASE \/ I!Initialize \/ I!StartSave \/ I!EraseAll \/ I!StartInstall \/ I!CompareLists \/ I!EndErase
           \/ I!WriteDummies \/ I!WriteStamp \/ I!WriteFirmware
  <2>1. UNCHANGED <<page, marks, files, list, loaded>>
    BY <1>6 DEF I!Initialize, I!StartSave, I!EraseAll, I!StartInstall, I!CompareLists, I!EndErase,
                I!WriteDummies, I!WriteStamp, I!WriteFirmware, I!Written, I!Spoilt
  <2>2. pc' = "menu" \/ loaded
    BY <1>2, <1>6 DEF I!Initialize, I!StartSave, I!EraseAll, I!StartInstall, I!CompareLists, I!EndErase,
                I!WriteDummies, I!WriteStamp, I!WriteFirmware, Quiet
  <2> QED
    BY <1>2, <2>1, <2>2 DEF Knowledge
<1>7. CASE I!SaveBank
  <2>1. (\E n : files' = [files EXCEPT ![rb] = [words |-> list[rb], size |-> n]])
        /\ UNCHANGED <<page, marks>> /\ loaded
    BY <1>7, <1>2 DEF I!SaveBank
  <2>2. \A b \in Bank : files'[b] = files[b] \/ (b = rb /\ files'[b].words = list[b])
    BY <1>3, <2>1 DEF InstallerTypeOK
  <2>3. \A b \in Bank : files'[b] = I!NoFile \/ Full(b, files'[b].words)
    BY <1>2, <2>1, <2>2
  <2>4. CASE UNCHANGED <<list, loaded>>
    BY <1>2, <2>1, <2>3, <2>4 DEF Knowledge
  <2>5. CASE I!Exit
    <3>1. pc' = "out" /\ loaded' = FALSE /\ list' = [b \in Bank |-> I!NoItems]
      BY <2>5, InstallerTypes DEF I!Exit
    <3> QED
      BY <1>2, <2>1, <2>3, <3>1, NothingKnown DEF Knowledge
  <2> QED
    BY <2>4, <2>5, <1>7 DEF I!SaveBank
<1>8. CASE I!EraseBlock
  <2>1. /\ marks' = marks \ {<<rb, blk, c>> : c \in I!Chip \ I!Spared}
        /\ page' \in {page, [page EXCEPT ![rb] = I!Blank]}
        /\ UNCHANGED <<files, list, loaded>> /\ loaded
    BY <1>8, <1>2 DEF I!EraseBlock
  <2>2. Guarded \subseteq marks'
    BY <1>2, <1>3, <2>1, MarksSpared DEF InstallerTypeOK
  <2>3. \A b \in Bank : page'[b] \in {page[b], I!Blank}
    BY <1>3, <2>1
  <2>4. \A b \in Bank : page'[b] = I!Blank \/ Full(b, page'[b].words)
    BY <1>2, <2>3
  <2> QED
    BY <1>2, <2>1, <2>2, <2>4 DEF Knowledge
<1>9. CASE I!WriteList
  <2>1. PICK corrupt \in BOOLEAN : page' = [page EXCEPT ![rb] = [corrupt |-> corrupt, words |-> list[rb]]]
    BY <1>9 DEF I!WriteList
  <2>2. UNCHANGED <<marks, files, list, loaded>> /\ loaded
    BY <1>9, <1>2 DEF I!WriteList
  <2>3. \A b \in Bank : page'[b] = page[b] \/ (b = rb /\ page'[b].words = list[rb])
    BY <1>3, <2>1
  <2>4. \A b \in Bank : page'[b] = I!Blank \/ Full(b, page'[b].words)
    BY <1>2, <2>2, <2>3
  <2> QED
    BY <1>2, <2>2, <2>4 DEF Knowledge
<1> QED
  BY <1>4, <1>5, <1>6, <1>7, <1>8, <1>9 DEF I!NextInstaller

-----------------------------------------------------------------------------
(* How far the installation is, step by step.                              *)

(* Lists that read back as they are in memory inform every bank. *)
LEMMA ComparedInforms ==
    ASSUME Quiet, Knowledge, pc \notin {"out", "menu"}, I!Same
    PROVE  \A b \in Bank : Informed(b)
<1> SUFFICES ASSUME NEW b \in Bank PROVE Informed(b)
  OBVIOUS
<1>1. Full(b, list[b])
  BY DEF Knowledge
<1>2. page[b] = [corrupt |-> FALSE, words |-> list[b]]
  BY InstallerTypes DEF I!Same
<1> QED
  BY <1>1, <1>2, FullInforms

LEMMA InformedStays == page' = page => \A b : Informed(b)' <=> Informed(b)
BY DEF Informed, Accepted, Listed

LEMMA SameStays == UNCHANGED <<page, list>> => (I!Same' <=> I!Same)
BY DEF I!Same

LEMMA InstallationInstaller ==
    ASSUME DriveTypes, Knowledge, Installation, at = "off", at' = "off", I!NextInstaller, Quiet'
    PROVE  Installation'
<1>1. Quiet
  BY QuietBefore
<1>2. /\ pc = "erase" /\ ~(blk = 0 /\ rb = 0) => zero[0] # "image"
      /\ pc \in {"lists", "compare"} => zero[0] # "image"
      /\ pc \in {"dummies", "stamp", "image", "reset"} => I!Same
      /\ zero[0] = "image" => \A b \in Bank : Informed(b)
  BY <1>1 DEF Installation
<1>3. InstallerTypeOK
  BY DEF DriveTypes
<1> USE DEF I!media, I!loops, I!history
<1>4. CASE \/ I!Start \/ I!Quit \/ I!Initialize \/ I!Scan \/ I!LoadNand \/ I!LoadFiles
           \/ I!StartSave \/ I!SaveBank \/ I!Reset
  <2>1. pc' \in {"out", "menu", "save"} /\ UNCHANGED <<page, zero>>
    BY <1>4 DEF I!Start, I!Quit, I!Initialize, I!Scan, I!LoadNand, I!LoadFiles, I!StartSave, I!SaveBank, I!Reset,
                I!Exit
  <2> QED
    BY <1>2, <2>1, InformedStays DEF Installation
<1>5. CASE I!EraseAll \/ I!StartInstall
  <2>1. pc' = "erase" /\ blk' = 0 /\ rb' = 0 /\ UNCHANGED <<page, zero>>
    BY <1>5 DEF I!EraseAll, I!StartInstall
  <2> QED
    BY <1>2, <2>1, InformedStays DEF Installation
<1>6. CASE I!EraseBlock
  <2>1. pc = "erase" /\ pc' = "erase"
    BY <1>6 DEF I!EraseBlock
  <2>2. CASE blk = 0
    <3>1. zero' = [zero EXCEPT ![rb] = "blank"]
      BY <1>6, <2>2 DEF I!EraseBlock
    <3>2. zero'[0] # "image"
      BY <1>2, <1>3, <2>1, <2>2, <3>1, InstallerTypes DEF InstallerTypeOK
    <3> QED
      BY <2>1, <3>2 DEF Installation
  <2>3. CASE blk # 0
    <3>1. zero' = zero /\ zero[0] # "image"
      BY <1>2, <1>6, <2>1, <2>3 DEF I!EraseBlock
    <3> QED
      BY <2>1, <3>1 DEF Installation
  <2> QED
    BY <2>2, <2>3
<1>7. CASE I!EndErase
  <2>1. pc = "erase" /\ pc' \in {"lists", "menu"} /\ blk > last /\ UNCHANGED <<page, zero>>
    BY <1>7 DEF I!EndErase
  <2>2. blk # 0
    BY <1>3, <2>1, InstallerTypes DEF InstallerTypeOK
  <2> QED
    BY <1>2, <2>1, <2>2 DEF Installation
<1>8. CASE I!WriteList
  <2>1. pc = "lists" /\ pc' \in {"lists", "compare"} /\ zero' = zero
    BY <1>8 DEF I!WriteList, I!NextRBank
  <2> QED
    BY <1>2, <2>1 DEF Installation
<1>9. CASE I!CompareLists
  <2>1. UNCHANGED <<page, zero, list>> /\ (pc' = "menu" \/ (pc' = "dummies" /\ I!Same))
    BY <1>9 DEF I!CompareLists
  <2> QED
    BY <1>2, <2>1, InformedStays, SameStays DEF Installation
<1>10. CASE I!WriteDummies \/ I!WriteStamp \/ I!WriteFirmware
  <2>1. /\ pc \in {"dummies", "stamp", "image"} /\ pc' \in {"dummies", "stamp", "image", "reset", "menu"}
        /\ UNCHANGED <<page, list>>
    BY <1>10 DEF I!WriteDummies, I!WriteStamp, I!WriteFirmware, I!Spoilt, I!Written, I!NextRBank
  <2>2. I!Same /\ I!Same'
    BY <1>2, <2>1, SameStays
  <2>3. \A b \in Bank : Informed(b)
    BY <1>1, <2>1, <2>2, ComparedInforms
  <2> QED
    BY <2>1, <2>2, <2>3, InformedStays DEF Installation
<1> QED
  BY <1>4, <1>5, <1>6, <1>7, <1>8, <1>9, <1>10 DEF I!NextInstaller

-----------------------------------------------------------------------------
(* The theorems.  The ROM loads the firmware from bank 0: the installer    *)
(* erases that bank's block zero first and writes the lists of all banks   *)
(* before any firmware, which is of no use to a ROM that looks elsewhere.  *)

DriveInv == DriveTypes /\ Knowledge /\ Installation

LEMMA DriveInvInit == DriveInit => DriveInv
<1> SUFFICES ASSUME DriveInit PROVE DriveInv
  OBVIOUS
<1>1. /\ page = [b \in Bank |-> I!Blank] /\ zero = [b \in Bank |-> "blank"]
      /\ marks = Factory /\ files = [b \in Bank |-> I!NoFile]
      /\ loaded = FALSE /\ pc = "out" /\ list = [b \in Bank |-> I!NoItems]
      /\ at = "off"
  BY InstallerTypes DEF DriveInit, I!InitInstaller, InitFirmware
<1>2. Knowledge
  BY <1>1, NothingKnown DEF Knowledge, Guarded
<1>3. Installation
  BY <1>1, InstallerTypes DEF Installation
<1> QED
  BY <1>2, <1>3, TypesInit DEF DriveInv

LEMMA DriveInvNext ==
    ASSUME BootBanks \subseteq {0}, DriveInv, [DriveNext]_driveVars
    PROVE  DriveInv'
<1>1. DriveTypes /\ DriveTypes'
  BY TypesNext DEF DriveInv
<1>2. ASSUME Quiet' PROVE Knowledge' /\ Installation'
  <2>1. CASE Install
    <3>1. I!NextInstaller /\ at = "off" /\ at' = "off"
      BY <2>1 DEF Install, firmware
    <3> QED
      BY <1>1, <1>2, <3>1, KnowledgeInstaller, InstallationInstaller DEF DriveInv
  <2>2. CASE Start \/ Run \/ Erase \/ Collect
    <3>1. UNCHANGED <<page, zero, files, pc, list, loaded, blk, rb, warned, partial>>
      BY <2>2, FirmwareSteps DEF others
    <3>2. Quiet
      BY <1>2, <3>1 DEF Quiet
    <3>3. at # "off" => \A b \in Bank : Informed(b)
      BY <3>2 DEF DriveInv, Installation
    <3>4. Guarded \subseteq marks'
      BY <1>1, <2>2, <3>2, <3>3, FirmwareSpares DEF DriveInv, Knowledge
    <3>5. Knowledge'
      BY <3>1, <3>2, <3>4 DEF DriveInv, Knowledge
    <3>6. at' # "off" => \A b \in Bank : Informed(b)
      <4>1. CASE Start
        <5>1. zero[0] = "image"
          BY <4>1 DEF Start
        <5> QED
          BY <5>1, <3>2 DEF DriveInv, Installation
      <4>2. CASE Run \/ Erase \/ Collect
        <5>1. at' # "off" => at # "off"
          BY <4>2 DEF Run, Erase, Collect, ReadList, CheckEntry, EndCheck, MarkBlk, EndMark, Tables,
                      SkipBad, Overrun, NoneLeft, EndBank, PowerCycle, StartGc, StartBank, TakeFree,
                      TakeLog, EraseFails, EndGc
        <5> QED
          BY <5>1, <3>3
      <4> QED
        BY <2>2, <4>1, <4>2
    <3>7. Installation'
      BY <3>1, <3>2, <3>6, InformedStays, SameStays DEF DriveInv, Installation
    <3> QED
      BY <3>5, <3>7
  <2>3. CASE UNCHANGED driveVars
    <3>1. UNCHANGED <<page, marks, zero, files, pc, list, loaded, blk, rb, warned, partial, at>>
      BY <2>3 DEF driveVars, others, firmware
    <3>2. Quiet
      BY <1>2, <3>1 DEF Quiet
    <3>3. Knowledge'
      BY <3>1, <3>2 DEF DriveInv, Knowledge
    <3>4. Installation'
      BY <3>1, <3>2, InformedStays, SameStays DEF DriveInv, Installation
    <3> QED
      BY <3>3, <3>4
  <2> QED
    BY <2>1, <2>2, <2>3 DEF DriveNext
<1>3. ~Quiet' => Knowledge' /\ Installation'
  BY DEF Knowledge, Installation
<1> QED
  BY <1>1, <1>2, <1>3 DEF DriveInv

(* The factory's marks outlive any number of installations, ended at any   *)
(* step, a saved list cut off included, and any use of the drive, except   *)
(* those on block FirstBlk, as long as the user was not warned and no      *)
(* files were read that are missing or cut off                             *)
(* (erase_flash, install_block_zero, build_bad_blk_list, format).          *)
THEOREM MarksAlwaysSurvive ==
    ASSUME BootBanks \subseteq {0}
    PROVE  DriveSpec => []MarksSurvive
<1>1. DriveInv => MarksSurvive
  BY DEF DriveInv, Knowledge, Quiet, MarksSurvive
<1>2. DriveInv /\ [DriveNext]_driveVars => DriveInv'
  BY DriveInvNext
<1> QED
  BY <1>1, <1>2, DriveInvInit, PTL DEF DriveSpec

(* No block with a bad plane is a log block or a free block of the         *)
(* firmware, whichever way the lists came to the flash, unless the user    *)
(* was warned or read files that are missing or cut off.  The marks format *)
(* erases are no exception: it takes blocks after FirstBlk only.           *)
THEOREM NoBadBlockIsUsed ==
    ASSUME BootBanks \subseteq {0}
    PROVE  DriveSpec => []NoBadBlockInUse
<1>1. DriveInv => NoBadBlockInUse
  <2> SUFFICES ASSUME DriveInv, at = "ready", Quiet, NEW b \in Bank, NEW v \in InUse(mem, b),
                      NEW m \in Factory, m[1] = b
               PROVE  m[2] \div 2 # v
    BY InstallerTypes DEF NoBadBlockInUse, Quiet
  <2>1. Informed(b)
    BY DEF DriveInv, Installation
  <2>2. ~Bad(b, v) /\ v # FirstBlk
    BY <2>1, InUseIsGood DEF DriveInv, DriveTypes
  <2>3. m \in Guarded => Bad(b, m[2] \div 2)
    BY <2>1, MarkedIsBad
  <2> QED
    BY <2>2, <2>3 DEF Guarded
<1>2. DriveInv /\ [DriveNext]_driveVars => DriveInv'
  BY DriveInvNext
<1> QED
  BY <1>1, <1>2, DriveInvInit, PTL DEF DriveSpec

(* A firmware that starts finds on every bank a list it accepts and that   *)
(* has all guarded marks, although the installation can be cut off after   *)
(* any page, with the same two exceptions.                                 *)
THEOREM AlwaysStartsInformed ==
    ASSUME BootBanks \subseteq {0}
    PROVE  DriveSpec => StartsInformed
<1>1. DriveInv /\ [DriveNext]_driveVars =>
        [at = "off" /\ at' = "read" /\ ~warned /\ ~partial => \A b \in I!RBank : Informed(b)]_driveVars
  <2> SUFFICES ASSUME DriveInv, [DriveNext]_driveVars, at = "off", at' = "read", Quiet
               PROVE  \A b \in Bank : Informed(b)
    BY InstallerTypes DEF Quiet
  <2>1. ~ (Install \/ UNCHANGED driveVars)
    BY DEF Install, driveVars, firmware
  <2>2. ~ (Run \/ Erase \/ Collect)
    BY DEF Run, Erase, Collect, ReadList, CheckEntry, EndCheck, MarkBlk, EndMark, Tables, SkipBad,
           Overrun, NoneLeft, EndBank, PowerCycle, StartGc, StartBank, TakeFree, TakeLog, EraseFails, EndGc
  <2>3. zero[0] = "image"
    BY <2>1, <2>2 DEF DriveNext, Start
  <2> QED
    BY <2>3 DEF DriveInv, Installation
<1>2. DriveInv /\ [DriveNext]_driveVars => DriveInv'
  BY DriveInvNext
<1> QED
  BY <1>1, <1>2, DriveInvInit, PTL DEF DriveSpec, StartsInformed
=============================================================================
