----------------------------- MODULE FtlProofs ------------------------------
(***************************************************************************)
(* Every step of the translation layer keeps every variable to its type,   *)
(* and every log block has one use, whatever the geometry and the          *)
(* requests: none is lost, and none is filled, kept or collected twice.    *)
(* No page is programmed that is not erased, but the low pages of OW       *)
(* blocks, as long as the map leads to OW blocks where it says so; from a  *)
(* host that only writes there is no other program at all.                 *)
(*                                                                         *)
(* TypeOK is not inductive: the next page of an OW block must be one of    *)
(* its low pages for the page after it to exist, and a sealed block, which *)
(* goes on by two pages, must be at an even one to meet the last page.     *)
(* PagesInRange says so.  The proof has a lemma for what each step does to *)
(* the types, preceded by the facts about numbers, the geometry, the       *)
(* control stack and the operators of the model those lemmas share.        *)
(*                                                                         *)
(* OneUse counts the uses of a block; the proof goes by the six conditions *)
(* of which exactly one holds (ExactlyOne).  That is not inductive by      *)
(* itself: a block taken from the clean list has one use because it is     *)
(* there once, an OW block being looked for must not find one in its place *)
(* already, and a victim is pushed once because no other collection has    *)
(* it.  UseInv adds what the control stack looks like for that: a bank     *)
(* gets its W block in one go, only a collection runs on top of the search *)
(* for an OW block, and two collections have two victims.                  *)
(*                                                                         *)
(* ProgramsAllowed rests on OneUse and on where erased pages are, PageInv: *)
(* all over the blocks of the clean list, ahead of the next page of a W    *)
(* block, and on the high pages of an OW block, so that a sealed block     *)
(* goes on erased pages.  What the map says of an OW page programmed in    *)
(* place is OwChunksInOwBlocks.                                            *)
(*                                                                         *)
(* What the host reads back is not proved of every host: some lose data    *)
(* (moved_pages).  It is of a host that writes and trims whole pages, with *)
(* the counts, the lists and the collections it rests on (PagesInv).       *)
(***************************************************************************)
EXTENDS Ftl, TLAPS, FiniteSetTheorems, SequenceTheorems

-----------------------------------------------------------------------------
(* Numbers.                                                                *)

(* A set of naturals that has an element has a least one. *)
LEMMA LeastExists ==
    ASSUME NEW S \in SUBSET Nat, S # {}
    PROVE  \E x \in S : \A y \in S : x <= y
<1> DEFINE R == {p \in Nat \X Nat : p[1] < p[2]}
<1>1. IsWellFoundedOn(R, Nat)
  BY NatLessThanWellFounded DEF OpToRel
<1>2. \A x, y \in Nat : <<y, x>> \in R <=> y < x
  OBVIOUS
<1> HIDE DEF R
<1>3. PICK x \in S : \A y \in S : <<y, x>> \notin R
  BY <1>1, WFMin
<1>4. \A y \in S : ~ (y < x)
  BY <1>2, <1>3
<1> QED
  BY <1>4

LEMMA MinExists ==
    ASSUME NEW S \in SUBSET Nat, S # {}
    PROVE  Min(S) \in S /\ \A y \in S : Min(S) <= y
  BY LeastExists DEF Min

(* ... and if it is bounded, a greatest one. *)
LEMMA MaxExists ==
    ASSUME NEW n \in Nat, NEW S \in SUBSET (0 .. n), S # {}
    PROVE  Max(S) \in S /\ \A y \in S : Max(S) >= y
<1> DEFINE T == {n - x : x \in S}
<1>1. T \subseteq Nat /\ T # {}
  <2>1. \A x \in S : n - x \in Nat
    OBVIOUS
  <2> QED
    BY <2>1
<1>2. PICK t \in T : \A y \in T : t <= y
  BY <1>1, LeastExists
<1>3. PICK x \in S : t = n - x
  BY <1>2
<1>4. \A y \in S : n - y \in T
  OBVIOUS
<1>5. \A y \in S : x >= y
  BY <1>2, <1>3, <1>4
<1> QED
  BY <1>5 DEF Max

(* The i-th element of a finite set of numbers. *)
LEMMA NthExists ==
    ASSUME NEW n \in Nat, NEW S \in SUBSET (0 .. n - 1), NEW i \in 1 .. Cardinality(S)
    PROVE  \E s \in S : Cardinality({t \in S : t < s}) = i - 1
<1> DEFINE Below1(m) == {t \in S : t < m}
           T == {m \in Nat : Cardinality(Below1(m)) >= i}
<1>0. \A t \in S : t \in Nat /\ t < n
  OBVIOUS
<1>1. IsFiniteSet(S)
  <2>1. IsFiniteSet(0 .. n - 1)
    BY FS_Interval
  <2> QED
    BY <2>1, FS_Subset
<1>2. \A m \in Nat : IsFiniteSet(Below1(m)) /\ Cardinality(Below1(m)) \in Nat
  <2> TAKE m \in Nat
  <2>1. Below1(m) \in SUBSET S
    OBVIOUS
  <2>2. IsFiniteSet(Below1(m))
    BY <1>1, <2>1, FS_Subset
  <2> QED
    BY <2>2, FS_CardinalityType
<1>3. Below1(n) = S
  BY <1>0
<1>4. n \in T
  <2>1. Cardinality(S) \in Nat
    BY <1>1, FS_CardinalityType
  <2> QED
    BY <1>3, <2>1
<1>5. PICK m \in T : \A k \in T : m <= k
  BY <1>4, LeastExists
<1>6. m # 0
  <2>1. Below1(0) = {}
    <3>1. \A t \in S : ~ (t < 0)
      BY <1>0
    <3> QED
      BY <3>1
  <2>2. Cardinality(Below1(0)) = 0
    BY <2>1, FS_EmptySet
  <2>3. 1 <= i /\ i \in Nat
    <3>1. Cardinality(S) \in Nat
      BY <1>1, FS_CardinalityType
    <3> QED
      BY <3>1
  <2>4. Cardinality(Below1(m)) >= i
    BY <1>5
  <2> QED
    BY <2>2, <2>3, <2>4
<1>7. m - 1 \in Nat /\ m - 1 \notin T
  BY <1>5, <1>6
<1>8. Cardinality(Below1(m - 1)) <= i - 1
  <2>1. ~ (Cardinality(Below1(m - 1)) >= i)
    BY <1>7
  <2>2. Cardinality(Below1(m - 1)) \in Nat
    BY <1>2, <1>7
  <2>3. i \in Int
    OBVIOUS
  <2> HIDE DEF Below1
  <2> QED
    BY <2>1, <2>2, <2>3
<1>9. Below1(m) = IF m - 1 \in S THEN Below1(m - 1) \cup {m - 1} ELSE Below1(m - 1)
  <2>1. m \in Nat
    BY <1>5
  <2>2. \A t \in S : t < m <=> (t < m - 1 \/ t = m - 1)
    BY <1>0, <2>1
  <2> QED
    BY <2>2
<1>10. m - 1 \in S
  BY <1>5, <1>7, <1>9
<1>11. Cardinality(Below1(m)) = Cardinality(Below1(m - 1)) + 1
  <2>1. m - 1 \notin Below1(m - 1)
    OBVIOUS
  <2> QED
    BY <1>2, <1>7, <1>9, <1>10, <2>1, FS_AddElement
<1>12. Cardinality(Below1(m - 1)) = i - 1
  BY <1>2, <1>5, <1>7, <1>8, <1>11
<1> QED
  BY <1>10, <1>12

-----------------------------------------------------------------------------
(* The geometry.                                                           *)

LEMMA Geometry ==
    /\ NumBanks \in Nat /\ NumBanks > 0 /\ LogBlks \in Nat /\ LogBlks > 0
    /\ LowPages \in Nat /\ LowPages > 0 /\ ChunksPerPage \in Nat /\ ChunksPerPage > 0
    /\ OwLimit \in Nat
    /\ ChunksPerLogBlk \in Nat /\ ChunksPerOwBlk \in Nat /\ HighChunks \in Nat
    /\ 0 \in Bank /\ 0 \in Slot /\ 0 \in Page /\ 2 \in Page /\ 0 \in LowPage
    /\ Bank \subseteq Nat /\ Slot \subseteq Nat /\ Page \subseteq Nat /\ Lbn \subseteq Nat
    /\ LowPage \subseteq Page /\ LastPage \in Page /\ LastLowPage \in Nat
    /\ IsFiniteSet(Slot)
<1>1. IsFiniteSet(Slot)
  BY GeometryAssumption, FS_Interval DEF Slot
<1> QED
  BY <1>1, GeometryAssumption DEF ChunksPerLogBlk, ChunksPerOwBlk, HighChunks, Bank, Slot, Page,
     Lbn, LowPage, LastPage, LastLowPage

(* The same, in terms of what the proofs below leave unexpanded. *)
LEMMA LocationParts ==
    /\ \A b \in Bank, l \in Lbn, p \in Page, s \in Slot :
          /\ <<"FlashWLog", b, l, p, s>> \in FlashWLog
          /\ <<"FlashOwLog", b, l, p, s>> \in FlashOwLog
    /\ \A b \in Bank, s \in Slot :
          /\ <<"DRAMWLog", b, s>> \in DRAMWLog
          /\ <<"DRAMOwLog", b, s>> \in DRAMOwLog
    /\ \A x \in FlashWLog \cup FlashOwLog :
          /\ x[2] \in Bank /\ x[3] \in Lbn /\ x[4] \in Page /\ x[5] \in Slot
          /\ [x EXCEPT ![1] = "FlashWLog"] \in FlashWLog
    /\ \A x \in DRAMWLog \cup DRAMOwLog : x[2] \in Bank /\ x[3] \in Slot
    /\ Invalid \in Location
    /\ FlashWLog \subseteq Location /\ FlashOwLog \subseteq Location
    /\ DRAMWLog \subseteq Location /\ DRAMOwLog \subseteq Location
  BY DEF FlashWLog, FlashOwLog, DRAMWLog, DRAMOwLog, Location

LEMMA ContentParts ==
    /\ Chunk \subseteq Content /\ Stale \in Content /\ Erased \in Content
    /\ \A n \in Lpn, s \in Slot : <<n, s>> \in Chunk
    /\ \A c \in Chunk : c[1] \in Lpn /\ c[2] \in Slot /\ c = <<c[1], c[2]>>
    /\ Lpn \subseteq LpnOrNone /\ NoLpn \in LpnOrNone
  BY DEF Chunk, Content, LpnOrNone

-----------------------------------------------------------------------------
(* The stack.                                                              *)

LEMMA FrameKinds ==
    ASSUME NEW f \in Frame
    PROVE  /\ f.op = "AllocRw" => f \in AllocRwFrame
           /\ f.op = "CheckSpace" => f \in SpaceFrame
           /\ f.op = "AllocOw" => f \in AllocOwFrame
           /\ f.op = "Gc" => f \in GcFrame
           /\ f.op = "GcScan" => f \in GcScanFrame
           /\ f.op = "GcCopy" => f \in GcCopyFrame
           /\ f.op = "GcChunks" => f \in GcChunksFrame
           /\ f.op = "FlushW" => f \in FlushWFrame
           /\ f.op = "Clean" => f \in CleanFrame
           /\ f.op = "WritePage" => f \in WritePageFrame
           /\ f.op = "WriteChunks" => f \in WriteChunksFrame
           /\ f.op = "OwPage" => f \in OwPageFrame
           /\ f.op = "OwChunks" => f \in OwChunksFrame
           /\ f.op = "OwExhausted" => f \in OwExhaustedFrame
           /\ f.op = "FlushOw" => f \in FlushOwFrame
  BY DEF Frame, AllocRwFrame, SpaceFrame, AllocOwFrame, GcFrame, GcScanFrame, GcCopyFrame,
     GcChunksFrame, FlushWFrame, CleanFrame, WritePageFrame, WriteChunksFrame, OwPageFrame,
     OwChunksFrame, OwExhaustedFrame, FlushOwFrame

LEMMA StackParts ==
    ASSUME stk \in Seq(Frame), Len(stk) > 0
    PROVE  /\ Top \in Frame
           /\ Below \in Seq(Frame)
           /\ Len(Below) = Len(stk) - 1
           /\ \A i \in 1 .. Len(stk) - 1 : Below[i] = stk[i]
           /\ \A f \in Frame : At(f) \in Seq(Frame) /\ Append(stk, f) \in Seq(Frame)
           /\ \A f, g \in Frame : Append(At(f), g) \in Seq(Frame)
           /\ stk = Append(Below, Top)
<1>1. Below \in Seq(Frame) /\ Len(Below) = Len(stk) - 1
      /\ \A i \in 1 .. Len(stk) - 1 : Below[i] = stk[i]
  <2>1. Len(stk) \in Nat /\ \A i \in 1 .. Len(stk) - 1 : stk[i] \in Frame
    OBVIOUS
  <2> DEFINE n == Len(stk) - 1
  <2>2. n \in Nat
    BY <2>1
  <2>3. \A i \in 1 .. n : stk[i] \in Frame
    BY <2>1
  <2> HIDE DEF n
  <2>4. /\ SubSeq(stk, 1, n) \in Seq(Frame)
        /\ Len(SubSeq(stk, 1, n)) = IF 1 <= n THEN n - 1 + 1 ELSE 0
        /\ \A i \in 1 .. n - 1 + 1 : SubSeq(stk, 1, n)[i] = stk[1 + i - 1]
    BY <2>2, <2>3, SubSeqProperties
  <2>5. \A i \in 1 .. n : i \in 1 .. n - 1 + 1 /\ stk[1 + i - 1] = stk[i]
    BY <2>2
  <2>6. (IF 1 <= n THEN n - 1 + 1 ELSE 0) = n
    BY <2>2
  <2>7. SubSeq(stk, 1, n) = Below
    BY DEF Below, n
  <2> QED
    BY <2>4, <2>5, <2>6, <2>7 DEF n
<1>2. Top \in Frame
  BY DEF Top
<1>3. stk = Append(Below, Top)
  BY <1>1, <1>2 DEF Top
<1> QED
  BY <1>1, <1>2, <1>3 DEF At

-----------------------------------------------------------------------------
(* Types.                                                                  *)

LEMMA RunningFrame ==
    ASSUME TypeOK, NEW op, Running(op)
    PROVE  stk \in Seq(Frame) /\ Len(stk) > 0 /\ Top \in Frame /\ Top.op = op
  BY StackParts DEF Running, TypeOK

(* The pages RWCtrl and OWCtrl stand at are pages increaseRWLpn and        *)
(* increaseOWLpn can go on from: a sealed block is filled on even pages,   *)
(* an OW block on low pages.                                               *)
PagesInRange ==
    \A b \in Bank : /\ rwCtrl[b].isOw => rwCtrl[b].page % 2 = 0
                   /\ owCtrl[b].page \in LowPage

LEMMA NotedTyped ==
    ASSUME NEW list \in List, NEW q, NEW lpns \in [Slot -> LpnOrNone]
    PROVE  Noted(list, q, lpns) \in List
  BY DEF Noted, List

LEMMA EmptyListTyped == EmptyList \in List
  BY DEF EmptyList, List, LpnOrNone

(* What the host's data do to the other copies of a chunk. *)
LEMMA WithoutTyped ==
    ASSUME TypeOK, NEW cs, NEW buf \in [Bank -> [Slot -> BufSlot]], NEW log
    PROVE  /\ FlashWithout(cs) \in [Bank \X Lbn \X Page -> [Slot -> Content]]
           /\ BufWithout(buf, cs) \in [Bank -> [Slot -> BufSlot]]
           /\ Unmapped(buf, cs, log) \in [Bank -> [Slot -> BufSlot]]
<1>1. FlashWithout(cs) \in [Bank \X Lbn \X Page -> [Slot -> Content]]
  BY ContentParts, ZenonT(30) DEF FlashWithout, TypeOK
<1>2. \A r \in BufSlot : [r EXCEPT !.data = Stale] \in BufSlot /\ [r EXCEPT !.lpn = NoLpn] \in BufSlot
  BY ContentParts DEF BufSlot
<1> QED
  BY <1>1, <1>2 DEF BufWithout, Unmapped

LEMMA MergedTyped == ASSUME NEW c \in Chunk, NEW part PROVE Merged(c, part) \in Content
  BY ContentParts DEF Merged

LEMMA HeldIsNat ==
    ASSUME NEW n, NEW cs \in SUBSET ({n} \X Slot), NEW log, NEW x
    PROVE  Held(cs, log, x) \in Nat
<1>1. IsFiniteSet({n} \X Slot)
  BY Geometry, FS_Singleton, FS_Product
<1>2. IsFiniteSet(cs)
  BY <1>1, FS_Subset
<1> DEFINE h == {c \in cs : /\ Where(c) \in FlashWLog \cup FlashOwLog
                           /\ Where(c)[1] = log
                           /\ <<Where(c)[2], Where(c)[3]>> = x}
<1>3. h \in SUBSET cs
  OBVIOUS
<1>4. Cardinality(h) \in Nat
  BY <1>2, <1>3, FS_Subset, FS_CardinalityType
<1> QED
  BY <1>4 DEF Held

LEMMA OldCountsTyped ==
    ASSUME TypeOK, NEW n, NEW cs \in SUBSET ({n} \X Slot), OldCounts(cs)
    PROVE  /\ wValid' \in [Block -> Nat] /\ owValid' \in [Block -> Nat]
           /\ err' \in {"none", "valid chunks below 0"}
<1>1. \A log, x : Held(cs, log, x) \in Nat
  BY HeldIsNat
<1>2. ASSUME NEW valid \in [Block -> Nat], NEW log PROVE Decremented(valid, cs, log) \in [Block -> Nat]
  BY <1>1 DEF Decremented
<1> QED
  BY <1>2, Zenon DEF OldCounts, ErrUnless, TypeOK

LEMMA ManageOldTyped ==
    ASSUME TypeOK, NEW n, NEW cs \in SUBSET ({n} \X Slot), ManageOld(cs)
    PROVE  /\ wValid' \in [Block -> Nat] /\ owValid' \in [Block -> Nat]
           /\ err' \in {"none", "valid chunks below 0"}
           /\ logBuf' \in [Bank -> [Slot -> BufSlot]] /\ owBuf' \in [Bank -> [Slot -> BufSlot]]
  BY OldCountsTyped, WithoutTyped DEF ManageOld, TypeOK

LEMMA IncreaseRWLpnTyped ==
    ASSUME TypeOK, PagesInRange, NEW b \in Bank, rwCtrl[b].lbn # NoBlk, NEW list \in List,
           NEW lists \in [Bank \X Lbn \X {"W", "OW"} -> List], NEW callers \in Seq(Frame),
           IncreaseRWLpn(b, list, lists, callers)
    PROVE  /\ flashList' \in [Bank \X Lbn \X {"W", "OW"} -> List]
           /\ rwList' \in [Bank -> List]
           /\ wHeap' \in [Bank -> SUBSET Lbn]
           /\ rwCtrl' \in [Bank -> RWCtrl]
           /\ stk' \in Seq(Frame)
<1> DEFINE l == rwCtrl[b].lbn
<1>1. l \in Lbn /\ rwCtrl[b] \in RWCtrl
  BY DEF TypeOK, RWCtrl
<1>2. CASE rwCtrl[b].page = LastPage
  <2>1. [op |-> "AllocRw", bank |-> b, check |-> TRUE] \in Frame
    BY DEF Frame, AllocRwFrame
  <2>3. /\ flashList' = [lists EXCEPT ![<<b, l, "W">>] = list]
        /\ stk' = Append(callers, [op |-> "AllocRw", bank |-> b, check |-> TRUE])
        /\ rwList' = [rwList EXCEPT ![b] = EmptyList]
        /\ wHeap' = [wHeap EXCEPT ![b] = @ \cup {l}]
        /\ rwCtrl' = rwCtrl
    BY <1>2, Zenon DEF IncreaseRWLpn
  <2>2. stk' \in Seq(Frame)
    BY <2>1, <2>3
  <2> HIDE DEF l
  <2>4. flashList' \in [Bank \X Lbn \X {"W", "OW"} -> List]
    BY <1>1, <2>3
  <2>5. wHeap' \in [Bank -> SUBSET Lbn] /\ rwList' \in [Bank -> List] /\ rwCtrl' \in [Bank -> RWCtrl]
    BY <1>1, <2>3, EmptyListTyped DEF TypeOK
  <2> QED
    BY <2>2, <2>4, <2>5
<1>3. CASE rwCtrl[b].page # LastPage
  <2>0. /\ rwCtrl' = [rwCtrl EXCEPT ![b].page = @ + IF rwCtrl[b].isOw THEN 2 ELSE 1]
        /\ flashList' = lists
        /\ stk' = callers
        /\ rwList' = [rwList EXCEPT ![b] = list]
        /\ wHeap' = wHeap
    BY <1>3, Zenon DEF IncreaseRWLpn
  <2>1. rwCtrl[b].page + (IF rwCtrl[b].isOw THEN 2 ELSE 1) \in Page
    <3>1. rwCtrl[b].page \in 0 .. 2 * LowPages /\ rwCtrl[b].page # 2 * LowPages /\ LowPages \in Nat
      BY <1>1, <1>3, Geometry DEF RWCtrl, Page, LastPage
    <3>2. rwCtrl[b].isOw => rwCtrl[b].page % 2 = 0
      BY DEF PagesInRange
    <3>3. CASE rwCtrl[b].isOw
      BY <3>1, <3>2, <3>3 DEF Page
    <3>4. CASE ~ rwCtrl[b].isOw
      BY <3>1, <3>4 DEF Page
    <3> QED
      BY <3>3, <3>4
  <2>2. rwCtrl' \in [Bank -> RWCtrl]
    <3> DEFINE q == rwCtrl[b].page + (IF rwCtrl[b].isOw THEN 2 ELSE 1)
    <3>1. rwCtrl' = [rwCtrl EXCEPT ![b] = [rwCtrl[b] EXCEPT !.page = q]]
      BY <2>0
    <3>2. q \in Page
      BY <2>1
    <3> HIDE DEF q
    <3>3. [rwCtrl[b] EXCEPT !.page = q] \in RWCtrl
      BY <1>1, <3>2 DEF RWCtrl
    <3> QED
      BY <3>1, <3>3 DEF TypeOK
  <2> QED
    BY <2>0, <2>2 DEF TypeOK
<1> QED
  BY <1>2, <1>3

LEMMA IncreaseOWLpnTyped ==
    ASSUME TypeOK, PagesInRange, NEW b \in Bank, owCtrl[b].lbn # NoBlk, NEW list \in List,
           NEW callers \in Seq(Frame), IncreaseOWLpn(b, list, callers)
    PROVE  /\ flashList' \in [Bank \X Lbn \X {"W", "OW"} -> List]
           /\ owList' \in [Bank -> List]
           /\ owHeap' \in [Bank -> SUBSET Lbn]
           /\ owCtrl' \in [Bank -> OWCtrl]
           /\ \A x \in Bank : owCtrl'[x].page \in LowPage
           /\ stk' \in Seq(Frame)
<1> DEFINE l == owCtrl[b].lbn
           p == owCtrl[b].page
<1>1. l \in Lbn /\ owCtrl[b] \in OWCtrl /\ p \in LowPage
  BY DEF TypeOK, OWCtrl, PagesInRange
<1>2. owList' \in [Bank -> List]
  BY DEF IncreaseOWLpn, TypeOK
<1>3. CASE p = LastLowPage
  <2>1. [op |-> "AllocOw", bank |-> b, count |-> 0] \in Frame
    BY DEF Frame, AllocOwFrame
  <2>2. stk' \in Seq(Frame)
    BY <1>3, <2>1, SMTT(30) DEF IncreaseOWLpn
  <2>3. flashList' = [flashList EXCEPT ![<<b, l, "OW">>] = list]
    BY <1>3 DEF IncreaseOWLpn
  <2>4. owHeap' = [owHeap EXCEPT ![b] = @ \cup {l}] /\ owCtrl' = [owCtrl EXCEPT ![b].lbn = NoBlk]
    BY <1>3 DEF IncreaseOWLpn
  <2> HIDE DEF l
  <2>5. flashList' \in [Bank \X Lbn \X {"W", "OW"} -> List]
    BY <1>1, <2>3 DEF TypeOK
  <2>6. owHeap' \in [Bank -> SUBSET Lbn]
    BY <1>1, <2>4 DEF TypeOK
  <2>7. owCtrl' \in [Bank -> OWCtrl] /\ \A x \in Bank : owCtrl'[x].page \in LowPage
    BY <1>1, <2>4 DEF TypeOK, OWCtrl, PagesInRange
  <2> QED
    BY <1>2, <2>2, <2>5, <2>6, <2>7
<1>4. CASE p # LastLowPage
  <2> DEFINE q == IF p = 0 THEN 1 ELSE p + 2
  <2>1. q \in LowPage
    <3>1. LowPages \in Nat /\ LowPages > 0
      BY Geometry
    <3>2. p \in 0 .. 2 * LowPages /\ p <= LastLowPage /\ (p = 0 \/ p % 2 = 1)
      BY <1>1 DEF LowPage, Page
    <3> HIDE DEF p
    <3>3. CASE LowPages = 1
      BY <1>4, <3>2, <3>3 DEF LastLowPage
    <3>4. CASE LowPages # 1
      <4>1. LastLowPage = 2 * LowPages - 3 /\ LowPages >= 2
        BY <3>1, <3>4 DEF LastLowPage
      <4>2. q <= LastLowPage
        BY <1>4, <3>1, <3>2, <4>1
      <4>3. q \in 0 .. 2 * LowPages
        BY <3>1, <3>2, <4>1, <4>2
      <4>4. q % 2 = 1
        BY <3>2
      <4> QED
        BY <4>2, <4>3, <4>4 DEF LowPage, Page
    <3> QED
      BY <3>3, <3>4
  <2>2. owCtrl' = [owCtrl EXCEPT ![b].page = q]
    BY <1>4 DEF IncreaseOWLpn
  <2> HIDE DEF q, p
  <2>3. owCtrl' \in [Bank -> OWCtrl] /\ \A x \in Bank : owCtrl'[x].page \in LowPage
    BY <1>1, <2>1, <2>2, Geometry DEF TypeOK, OWCtrl, PagesInRange
  <2> QED
    BY <1>2, <1>4, <2>3 DEF IncreaseOWLpn, TypeOK, p
<1> QED
  BY <1>3, <1>4

LEMMA GetRWLpnTyped == TypeOK /\ GetRWLpn => TypeOK'
<1> SUFFICES ASSUME TypeOK, GetRWLpn PROVE TypeOK'
  OBVIOUS
<1>1. PICK op \in {"FlushW", "WritePage", "GcCopy"} : Running(op)
  BY DEF GetRWLpn
<1>2. Top.bank \in Bank
  BY <1>1, RunningFrame, FrameKinds DEF FlushWFrame, WritePageFrame, GcCopyFrame
<1>3. [op |-> "AllocRw", bank |-> Top.bank, check |-> FALSE] \in Frame
  BY <1>2 DEF Frame, AllocRwFrame
<1>4. stk' \in Seq(Frame)
  BY <1>1, <1>3, RunningFrame, StackParts DEF GetRWLpn
<1> QED
  BY <1>4 DEF GetRWLpn, TypeOK, flashVars, logVars, heapVars, bufVars

LEMMA AllocRwPopTyped == TypeOK /\ AllocRwPop => TypeOK'
<1> SUFFICES ASSUME TypeOK, AllocRwPop PROVE TypeOK'
  OBVIOUS
<1> DEFINE b == Top.bank
<1>1. Running("AllocRw") /\ b \in Bank
  <2>1. Running("AllocRw")
    BY DEF AllocRwPop
  <2> QED
    BY <2>1, RunningFrame, FrameKinds DEF AllocRwFrame
<1>2. Head(clean[b]) \in Lbn /\ Tail(clean[b]) \in Seq(Lbn)
  <2>1. clean[b] \in Seq(Lbn) /\ ~ Scarce(b)
    BY <1>1 DEF AllocRwPop, TypeOK
  <2>2. clean[b] # << >>
    BY <2>1 DEF Scarce
  <2> QED
    BY <2>1, <2>2, HeadTailProperties
<1>3. rwCtrl' \in [Bank -> RWCtrl]
  BY <1>1, <1>2, Geometry DEF AllocRwPop, TypeOK, FreshRw, RWCtrl
<1>4. clean' \in [Bank -> Seq(Lbn)]
  BY <1>1, <1>2 DEF AllocRwPop, TypeOK, Popped
<1>5. stk' \in Seq(Frame)
  BY <1>1, RunningFrame, StackParts DEF AllocRwPop
<1> QED
  BY <1>3, <1>4, <1>5 DEF AllocRwPop, TypeOK, flashVars, heapVars, bufVars

LEMMA HangTyped == ASSUME TypeOK, NEW why, Hang(why),
        why \in {"pop of an empty clean list",
               "no OW block to seal", "OW block below its free chunks", "nothing to collect",
               "garbage collection nested too deep", "no block after 10 garbage collections"}
    PROVE TypeOK'
  BY DEF Hang, TypeOK, flashVars, logVars, heapVars, bufVars

LEMMA VictimsExist ==
    ASSUME NEW valid \in [Block -> Nat], NEW heap \in [Bank -> SUBSET Lbn], NEW b \in Bank,
           NEW l \in Victims(valid, heap, b)
    PROVE  l \in Lbn /\ LeastValid(valid, heap, b) \in Nat /\ heap[b] # {} /\ l \in heap[b]
<1>1. l \in Lbn /\ l \in heap[b] /\ valid[<<b, l>>] = LeastValid(valid, heap, b)
  BY DEF Victims
<1>2. valid[<<b, l>>] \in Nat
  BY <1>1 DEF Block
<1> QED
  BY <1>1, <1>2

LEMMA SealedMapTyped ==
    ASSUME TypeOK, NEW b, NEW l
    PROVE  SealedMap(b, l) \in [Chunk -> Location]
<1>1. \A c \in Chunk : \A p, s : chunksMap[c] = <<"FlashOwLog", b, l, p, s>> =>
         [chunksMap[c] EXCEPT ![1] = "FlashWLog"] \in Location
  <2> SUFFICES ASSUME NEW c \in Chunk, NEW p, NEW s, chunksMap[c] = <<"FlashOwLog", b, l, p, s>>
               PROVE  [chunksMap[c] EXCEPT ![1] = "FlashWLog"] \in Location
    OBVIOUS
  <2>1. chunksMap[c] \in Location
    BY DEF TypeOK
  <2>2. b \in Bank /\ l \in Lbn /\ p \in Page /\ s \in Slot
    BY <2>1 DEF Location, Invalid, FlashWLog, FlashOwLog, DRAMWLog, DRAMOwLog
  <2>3. [chunksMap[c] EXCEPT ![1] = "FlashWLog"] = <<"FlashWLog", b, l, p, s>>
    OBVIOUS
  <2> QED
    BY <2>2, <2>3, LocationParts
<1> QED
  BY <1>1 DEF SealedMap, TypeOK

LEMMA SealOWBlkTyped == TypeOK /\ SealOWBlk => TypeOK'
<1> SUFFICES ASSUME TypeOK, SealOWBlk PROVE TypeOK'
  OBVIOUS
<1> DEFINE b == Top.bank
<1>1. Running("AllocRw") /\ b \in Bank
  <2>1. Running("AllocRw")
    BY DEF SealOWBlk
  <2> QED
    BY <2>1, RunningFrame, FrameKinds DEF AllocRwFrame
<1>2. stk' \in Seq(Frame)
  BY <1>1, RunningFrame, StackParts DEF SealOWBlk
<1>3. PICK l \in Victims(owValid, owHeap, b) :
         /\ wValid' = [wValid EXCEPT ![<<b, l>>] = SealedCount(owValid[<<b, l>>])]
         /\ owValid' = [owValid EXCEPT ![<<b, l>>] = ChunksPerOwBlk]
         /\ owHeap' = [owHeap EXCEPT ![b] = @ \ {l}]
         /\ owCounter' = [x \in DOMAIN owCounter |->
                             IF x[1] = b /\ x[2] = l THEN 0 ELSE owCounter[x]]
         /\ rwCtrl' = [rwCtrl EXCEPT ![b] = [lbn |-> l, page |-> 2, isOw |-> TRUE]]
         /\ rwList' = [rwList EXCEPT ![b] = SealedList(b, l)]
         /\ chunksMap' = SealedMap(b, l)
  BY Zenon DEF SealOWBlk
<1>4. l \in Lbn /\ <<b, l>> \in Block
  BY <1>1, VictimsExist DEF TypeOK, Block
<1>5. wValid' \in [Block -> Nat] /\ owValid' \in [Block -> Nat]
  BY <1>3, <1>4, Geometry DEF TypeOK, SealedCount
<1>6. owHeap' \in [Bank -> SUBSET Lbn]
  BY <1>3 DEF TypeOK
<1>7. owCounter' \in [Bank \X Lbn \X Page -> Nat]
  BY <1>3 DEF TypeOK
<1>8. rwCtrl' \in [Bank -> RWCtrl]
  BY <1>1, <1>3, <1>4, Geometry DEF TypeOK, RWCtrl
<1>9. rwList' \in [Bank -> List]
  <2>1. SealedList(b, l) \in List
    BY <1>1, <1>4 DEF TypeOK, SealedList
  <2> QED
    BY <1>3, <2>1 DEF TypeOK
<1>10. chunksMap' \in [Chunk -> Location]
  BY <1>3, SealedMapTyped
<1>11. err' \in {"none", "out of space"}
  BY DEF SealOWBlk, ErrUnless
<1> QED
  BY <1>2, <1>5, <1>6, <1>7, <1>8, <1>9, <1>10, <1>11 DEF SealOWBlk, TypeOK, bufVars

LEMMA AllocRwGcTyped == TypeOK /\ AllocRwGc => TypeOK'
<1> SUFFICES ASSUME TypeOK, AllocRwGc PROVE TypeOK'
  OBVIOUS
<1> DEFINE b == Top.bank
<1>1. Running("AllocRw") /\ b \in Bank
  <2>1. Running("AllocRw")
    BY DEF AllocRwGc
  <2> QED
    BY <2>1, RunningFrame, FrameKinds DEF AllocRwFrame
<1>2. Head(clean[b]) \in Lbn /\ Tail(clean[b]) \in Seq(Lbn)
  <2>1. clean[b] \in Seq(Lbn) /\ clean[b] # << >>
    BY <1>1 DEF AllocRwGc, TypeOK
  <2> QED
    BY <2>1, HeadTailProperties
<1>3. rwCtrl' \in [Bank -> RWCtrl]
  BY <1>1, <1>2, Geometry DEF AllocRwGc, TypeOK, FreshRw, RWCtrl
<1>4. clean' \in [Bank -> Seq(Lbn)]
  BY <1>1, <1>2 DEF AllocRwGc, TypeOK, Popped
<1>5. stk' \in Seq(Frame)
  <2>1. [op |-> "CheckSpace", bank |-> b] \in Frame /\ [op |-> "Gc", bank |-> b] \in Frame
    BY <1>1 DEF Frame, SpaceFrame, GcFrame
  <2>2. At([op |-> "CheckSpace", bank |-> b]) \in Seq(Frame) /\ Below \in Seq(Frame)
    BY <1>1, <2>1, RunningFrame, StackParts
  <2> QED
    BY <2>1, <2>2 DEF AllocRwGc
<1> QED
  BY <1>3, <1>4, <1>5 DEF AllocRwGc, TypeOK, flashVars, heapVars, bufVars

LEMMA AllocRwHangTyped == TypeOK /\ AllocRwHang => TypeOK'
  BY HangTyped DEF AllocRwHang

LEMMA CheckSpaceTyped == TypeOK /\ CheckSpace => TypeOK'
<1> SUFFICES ASSUME TypeOK, CheckSpace PROVE TypeOK'
  OBVIOUS
<1>1. stk' \in Seq(Frame)
  BY RunningFrame, StackParts DEF CheckSpace
<1>2. err' \in {"none", "out of space"}
  BY DEF CheckSpace, ErrUnless
<1> QED
  BY <1>1, <1>2 DEF CheckSpace, TypeOK, flashVars, logVars, heapVars, bufVars

LEMMA GetOWLpnTyped == TypeOK /\ GetOWLpn => TypeOK'
<1> SUFFICES ASSUME TypeOK, GetOWLpn PROVE TypeOK'
  OBVIOUS
<1>1. PICK op \in {"FlushOw", "OwPage"} : Running(op)
  BY DEF GetOWLpn
<1>2. Top.bank \in Bank
  BY <1>1, RunningFrame, FrameKinds DEF FlushOwFrame, OwPageFrame
<1>3. [op |-> "AllocOw", bank |-> Top.bank, count |-> 0] \in Frame
  BY <1>2 DEF Frame, AllocOwFrame
<1>4. stk' \in Seq(Frame)
  BY <1>1, <1>3, RunningFrame, StackParts DEF GetOWLpn
<1> QED
  BY <1>4 DEF GetOWLpn, TypeOK, flashVars, logVars, heapVars, bufVars

LEMMA AllocOwPopTyped == TypeOK /\ AllocOwPop => TypeOK'
<1> SUFFICES ASSUME TypeOK, AllocOwPop PROVE TypeOK'
  OBVIOUS
<1> DEFINE b == Top.bank
<1>1. Running("AllocOw") /\ b \in Bank
  <2>1. Running("AllocOw")
    BY DEF AllocOwPop
  <2> QED
    BY <2>1, RunningFrame, FrameKinds DEF AllocOwFrame
<1>2. Head(clean[b]) \in Lbn /\ Tail(clean[b]) \in Seq(Lbn)
  <2>1. clean[b] \in Seq(Lbn) /\ ~ Scarce(b)
    BY <1>1 DEF AllocOwPop, TypeOK
  <2>2. clean[b] # << >>
    BY <2>1 DEF Scarce
  <2> QED
    BY <2>1, <2>2, HeadTailProperties
<1>3. owCtrl' \in [Bank -> OWCtrl]
  BY <1>1, <1>2, Geometry DEF AllocOwPop, TypeOK, OWCtrl
<1>4. clean' \in [Bank -> Seq(Lbn)]
  BY <1>1, <1>2 DEF AllocOwPop, TypeOK, Popped
<1>5. stk' \in Seq(Frame)
  BY <1>1, RunningFrame, StackParts DEF AllocOwPop
<1>6. owList' \in [Bank -> List]
  BY EmptyListTyped DEF AllocOwPop, TypeOK
<1> QED
  BY <1>3, <1>4, <1>5, <1>6 DEF AllocOwPop, TypeOK, flashVars, heapVars, bufVars

LEMMA AllocOwGcTyped == TypeOK /\ AllocOwGc => TypeOK'
<1> SUFFICES ASSUME TypeOK, AllocOwGc PROVE TypeOK'
  OBVIOUS
<1>1. Running("AllocOw") /\ Top \in AllocOwFrame
  <2>1. Running("AllocOw")
    BY DEF AllocOwGc
  <2> QED
    BY <2>1, RunningFrame, FrameKinds
<1>2. CASE Top.count = 10
  BY <1>2, HangTyped DEF AllocOwGc
<1>3. CASE Top.count # 10
  <2>1. [Top EXCEPT !.count = @ + 1] \in AllocOwFrame
    BY <1>1, <1>3 DEF AllocOwFrame
  <2>2. [Top EXCEPT !.count = @ + 1] \in Frame /\ [op |-> "Gc", bank |-> Top.bank] \in Frame
    BY <1>1, <2>1 DEF Frame, GcFrame, AllocOwFrame
  <2>3. stk' \in Seq(Frame)
    BY <1>1, <1>3, <2>2, RunningFrame, StackParts DEF AllocOwGc
  <2> QED
    BY <1>3, <2>3 DEF AllocOwGc, TypeOK, flashVars, logVars, heapVars, bufVars
<1> QED
  BY <1>2, <1>3

LEMMA GcStartHangTyped == TypeOK /\ GcStartHang => TypeOK'
  BY HangTyped DEF GcStartHang

(* A GcScan frame at the start of a block. *)
LEMMA ScanTyped ==
    ASSUME NEW j \in Job, NEW p \in Nat, NEW n \in Nat
    PROVE  [op |-> "GcScan", page |-> p, found |-> n, job |-> j] \in Frame
  BY DEF Frame, GcScanFrame

LEMMA GcStartTyped == TypeOK /\ GcStart => TypeOK'
<1> SUFFICES ASSUME TypeOK, GcStart PROVE TypeOK'
  OBVIOUS
<1> DEFINE b == Top.bank
           scan(l, ow, n) == At([op |-> "GcScan", page |-> 0, found |-> 0,
                                 job |-> [bank |-> b, lbn |-> l, ow |-> ow, expected |-> n]])
<1>1. Running("Gc") /\ b \in Bank
  <2>1. Running("Gc")
    BY DEF GcStart
  <2> QED
    BY <2>1, RunningFrame, FrameKinds DEF GcFrame
<1>2. \A l \in Lbn, ow \in BOOLEAN, n \in Nat : scan(l, ow, n) \in Seq(Frame)
  <2> TAKE l \in Lbn, ow \in BOOLEAN, n \in Nat
  <2>1. [bank |-> b, lbn |-> l, ow |-> ow, expected |-> n] \in Job
    BY <1>1 DEF Job
  <2>2. [op |-> "GcScan", page |-> 0, found |-> 0,
         job |-> [bank |-> b, lbn |-> l, ow |-> ow, expected |-> n]] \in Frame
    BY <2>1, ScanTyped
  <2> QED
    BY <1>1, <2>2, RunningFrame, StackParts
<1>3. gcNest' \in [Bank -> Int]
  <2>1. gcNest' = [gcNest EXCEPT ![b] = @ + 1]
    BY DEF GcStart
  <2>2. gcNest \in [Bank -> Int]
    BY DEF TypeOK
  <2> HIDE DEF b
  <2> QED
    BY <1>1, <2>1, <2>2
<1>4. CASE ChoosesOw(b)
  <2>1. PICK l \in Victims(owValid, owHeap, b) :
           /\ owValid' = [owValid EXCEPT ![<<b, l>>] = ResetCount(@, ChunksPerOwBlk)]
           /\ owHeap' = [owHeap EXCEPT ![b] = @ \ {l}]
           /\ owCounter' = [x \in DOMAIN owCounter |->
                               IF x[1] = b /\ x[2] = l THEN 0 ELSE owCounter[x]]
           /\ stk' = scan(l, TRUE, OwMin(b) - HighChunks)
           /\ UNCHANGED <<wValid, wHeap>>
    BY <1>4, Zenon DEF GcStart
  <2>2. l \in Lbn /\ <<b, l>> \in Block /\ OwMin(b) \in Nat
    BY <1>1, VictimsExist DEF TypeOK, Block, OwMin
  <2>3. OwMin(b) - HighChunks \in Nat
    <3>1. OwMin(b) >= HighChunks
      BY DEF GcStart
    <3> QED
      BY <2>2, <3>1, Geometry
  <2>4. stk' \in Seq(Frame)
    <3> HIDE DEF scan
    <3> QED
      BY <1>2, <2>1, <2>2, <2>3
  <2>5. owValid' \in [Block -> Nat] /\ owHeap' \in [Bank -> SUBSET Lbn]
        /\ owCounter' \in [Bank \X Lbn \X Page -> Nat]
    BY <2>1, Geometry DEF TypeOK, ResetCount
  <2> QED
    BY <1>3, <2>1, <2>4, <2>5 DEF GcStart, TypeOK, logVars, bufVars
<1>5. CASE ~ ChoosesOw(b)
  <2>1. PICK l \in Victims(wValid, wHeap, b) :
           /\ wValid' = [wValid EXCEPT ![<<b, l>>] = ResetCount(@, ChunksPerLogBlk)]
           /\ wHeap' = [wHeap EXCEPT ![b] = @ \ {l}]
           /\ stk' = scan(l, FALSE, WMin(b))
           /\ UNCHANGED <<owValid, owHeap, owCounter>>
    BY <1>5, Zenon DEF GcStart
  <2>2. l \in Lbn /\ WMin(b) \in Nat
    BY <1>1, VictimsExist DEF TypeOK, Block, WMin
  <2>3. stk' \in Seq(Frame)
    <3> HIDE DEF scan
    <3> QED
      BY <1>2, <2>1, <2>2
  <2>4. wValid' \in [Block -> Nat] /\ wHeap' \in [Bank -> SUBSET Lbn]
    BY <2>1, Geometry DEF TypeOK, ResetCount
  <2> QED
    BY <1>3, <2>1, <2>3, <2>4 DEF GcStart, TypeOK, logVars, bufVars
<1> QED
  BY <1>4, <1>5

(* What erasing a victim leaves. *)
LEMMA ErasedTyped ==
    ASSUME TypeOK, NEW j \in Job, NEW fl \in [Bank \X Lbn \X Page -> [Slot -> Content]]
    PROVE  /\ ErasedFlash(j, fl) \in [Bank \X Lbn \X Page -> [Slot -> Content]]
           /\ ErasedLists(j) \in [Bank \X Lbn \X {"W", "OW"} -> List]
           /\ Pushed(j) \in [Bank -> Seq(Lbn)]
           /\ [gcNest EXCEPT ![j.bank] = @ - 1] \in [Bank -> Int]
<1>1. j.bank \in Bank /\ j.lbn \in Lbn
  BY DEF Job
<1>2. [s \in Slot |-> Erased] \in [Slot -> Content]
  BY ContentParts
<1>3. ErasedFlash(j, fl) \in [Bank \X Lbn \X Page -> [Slot -> Content]]
  BY <1>2 DEF ErasedFlash
<1>4. ErasedLists(j) \in [Bank \X Lbn \X {"W", "OW"} -> List]
  BY EmptyListTyped DEF ErasedLists, TypeOK
<1>5. Append(clean[j.bank], j.lbn) \in Seq(Lbn)
  <2>1. clean[j.bank] \in Seq(Lbn)
    BY <1>1 DEF TypeOK
  <2> QED
    BY <1>1, <2>1, AppendProperties
<1>6. Pushed(j) \in [Bank -> Seq(Lbn)]
  BY <1>1, <1>5 DEF Pushed, TypeOK
<1>7. [gcNest EXCEPT ![j.bank] = @ - 1] \in [Bank -> Int]
  <2>1. gcNest \in [Bank -> Int]
    BY DEF TypeOK
  <2> QED
    BY <1>1, <2>1
<1> QED
  BY <1>3, <1>4, <1>6, <1>7

LEMMA ScanRunning ==
    ASSUME TypeOK, Running("GcScan")
    PROVE  /\ Top \in GcScanFrame /\ Top.job \in Job /\ Top.page \in Nat /\ Top.found \in Nat
           /\ Below \in Seq(Frame)
           /\ Top.job.bank \in Bank /\ Top.job.lbn \in Lbn /\ Top.job.expected \in Nat
<1>1. Top \in GcScanFrame
  BY RunningFrame, FrameKinds
<1>2. Top.job \in Job
  BY <1>1 DEF GcScanFrame
<1>3. Below \in Seq(Frame)
  BY RunningFrame, StackParts
<1> QED
  BY <1>1, <1>2, <1>3 DEF GcScanFrame, Job

LEMMA GcEndTyped == TypeOK /\ GcEnd => TypeOK'
<1> SUFFICES ASSUME TypeOK, GcEnd PROVE TypeOK'
  OBVIOUS
<1>1. Running("GcScan")
  BY DEF GcEnd
<1>2. /\ flash' \in [Bank \X Lbn \X Page -> [Slot -> Content]]
      /\ flashList' \in [Bank \X Lbn \X {"W", "OW"} -> List]
      /\ clean' \in [Bank -> Seq(Lbn)]
      /\ gcNest' \in [Bank -> Int]
  <2>1. flash \in [Bank \X Lbn \X Page -> [Slot -> Content]]
    BY DEF TypeOK
  <2> QED
    BY <1>1, <2>1, ScanRunning, ErasedTyped DEF GcEnd
<1>3. stk' \in Seq(Frame)
  BY <1>1, ScanRunning DEF GcEnd
<1> QED
  BY <1>2, <1>3 DEF GcEnd, TypeOK, heapVars, bufVars

(* The owner of a valid slot is a chunk the map and the list agree on. *)
LEMMA OwnerExists ==
    ASSUME NEW j, NEW p, NEW s, Owners(j, p, s) # {}
    PROVE  Owner(j, p, s) \in Owners(j, p, s) /\ Owner(j, p, s) \in Chunk
<1> DEFINE I == {c[2] : c \in Owners(j, p, s)}
<1>1. Owners(j, p, s) \subseteq Chunk
  BY DEF Owners
<1>2. I \in SUBSET Nat /\ I # {}
  BY <1>1, ContentParts, Geometry
<1>3. PICK x \in I : \A y \in I : x <= y
  BY <1>2, LeastExists
<1>4. PICK c \in Owners(j, p, s) : c[2] = x
  BY <1>3
<1>5. \A d \in Owners(j, p, s) : c[2] <= d[2]
  BY <1>3, <1>4
<1>6. Owner(j, p, s) \in Owners(j, p, s)
  BY <1>4, <1>5 DEF Owner
<1> QED
  BY <1>1, <1>6

(* The next page to copy. *)
LEMMA NextPage ==
    ASSUME TypeOK, Running("GcScan"), PagesLeft(Top) # {}
    PROVE  /\ Min(PagesLeft(Top)) \in Page
           /\ Min(PagesLeft(Top)) \in PagesLeft(Top)
           /\ \A s \in ValidSlots(Top.job, Min(PagesLeft(Top))) :
                 s \in Slot /\ Owner(Top.job, Min(PagesLeft(Top)), s) \in Chunk
<1>1. PagesLeft(Top) \in SUBSET Nat /\ PagesLeft(Top) \subseteq Page
  BY Geometry DEF PagesLeft
<1>2. Min(PagesLeft(Top)) \in PagesLeft(Top)
  BY <1>1, MinExists
<1> QED
  BY <1>1, <1>2, OwnerExists DEF ValidSlots

LEMMA NextBankTyped == ASSUME TypeOK PROVE NextBank \in Bank
<1>1. refBank \in 0 .. NumBanks - 1 /\ NumBanks \in Nat /\ NumBanks > 0
  BY Geometry DEF TypeOK, Bank
<1>2. (refBank + 1) % NumBanks \in 0 .. NumBanks - 1
  BY <1>1
<1> QED
  BY <1>2 DEF NextBank, Bank

LEMMA GcFullPageTyped == TypeOK /\ GcFullPage => TypeOK'
<1> SUFFICES ASSUME TypeOK, GcFullPage PROVE TypeOK'
  OBVIOUS
<1> DEFINE p == Min(PagesLeft(Top))
           f == [op |-> "GcCopy", bank |-> NextBank, job |-> Top.job, page |-> p,
                         found |-> Top.found + ChunksPerPage,
                         chunks |-> [s \in Slot |-> Owner(Top.job, p, s)]]
<1>1. Running("GcScan") /\ PagesLeft(Top) # {}
  BY DEF GcFullPage
<1>2. ValidSlots(Top.job, p) = Slot /\ stk' = At(f) /\ refBank' = NextBank
  BY DEF GcFullPage
<1>3. p \in Page /\ \A s \in Slot : Owner(Top.job, p, s) \in Chunk
  BY <1>1, <1>2, NextPage
<1>4. f \in Frame
  <2> HIDE DEF p
  <2>1. [s \in Slot |-> Owner(Top.job, p, s)] \in [Slot -> Chunk]
    BY <1>3
  <2>2. Top.found + ChunksPerPage \in Nat
    BY <1>1, ScanRunning, Geometry
  <2>3. f \in GcCopyFrame
    BY <1>1, <1>3, <2>1, <2>2, ScanRunning, NextBankTyped DEF GcCopyFrame
  <2> QED
    BY <2>3 DEF Frame
<1>5. stk' \in Seq(Frame)
  <2> HIDE DEF f
  <2> QED
    BY <1>1, <1>2, <1>4, RunningFrame, StackParts
<1>6. refBank' \in Bank
  BY <1>2, NextBankTyped
<1> QED
  BY <1>5, <1>6 DEF GcFullPage, TypeOK, flashVars, logVars, heapVars, bufVars

LEMMA GcCopyPageTyped == TypeOK /\ PagesInRange /\ GcCopyPage => TypeOK'
<1> SUFFICES ASSUME TypeOK, PagesInRange, GcCopyPage PROVE TypeOK'
  OBVIOUS
<1> DEFINE d    == Top.bank
           j    == Top.job
           l    == rwCtrl[d].lbn
           q    == rwCtrl[d].page
           last == Top.found = j.expected
           list == Noted(rwList[d], q, [s \in Slot |-> Top.chunks[s][1]])
           copy == [flash EXCEPT ![<<d, l, q>>] = flash[<<j.bank, j.lbn, Top.page>>]]
           lists == IF last THEN ErasedLists(j) ELSE flashList
           callers == IF last THEN Below
                  ELSE At([op |-> "GcScan", page |-> Top.page + 1, found |-> Top.found, job |-> j])
<1>0. Running("GcCopy") /\ l # NoBlk
  BY DEF GcCopyPage
<1>1. Top \in GcCopyFrame
  BY <1>0, RunningFrame, FrameKinds
<1>2. /\ d \in Bank /\ j \in Job /\ Top.page \in Page /\ Top.page + 1 \in Nat
      /\ Top.found \in Nat /\ Top.chunks \in [Slot -> Chunk]
  <2>1. /\ d \in Bank /\ j \in Job /\ Top.page \in Page
        /\ Top.found \in Nat /\ Top.chunks \in [Slot -> Chunk]
    BY <1>1 DEF GcCopyFrame
  <2>2. \A x \in Page : x + 1 \in Nat
    BY Geometry DEF Page
  <2> HIDE DEF d, j
  <2> QED
    BY <2>1, <2>2
<1>3. /\ chunksMap' = [c \in Chunk |->
             IF \E s \in Slot : Top.chunks[s] = c
             THEN <<"FlashWLog", d, l, q, CHOOSE s \in Slot : Top.chunks[s] = c>>
             ELSE chunksMap[c]]
      /\ flash' = IF last THEN ErasedFlash(j, copy) ELSE copy
      /\ clean' = IF last THEN Pushed(j) ELSE clean
      /\ gcNest' = IF last THEN [gcNest EXCEPT ![j.bank] = @ - 1] ELSE gcNest
      /\ IncreaseRWLpn(d, list, lists, callers)
  BY Zenon DEF GcCopyPage
<1>4. l \in Lbn /\ q \in Page /\ rwList[d] \in List
  BY <1>0, <1>2 DEF TypeOK, RWCtrl
<1>5. chunksMap' \in [Chunk -> Location]
  <2>1. \A c \in Chunk : (\E s \in Slot : Top.chunks[s] = c) =>
           <<"FlashWLog", d, l, q, CHOOSE s \in Slot : Top.chunks[s] = c>> \in Location
    <3> SUFFICES ASSUME NEW c \in Chunk, \E s \in Slot : Top.chunks[s] = c
                 PROVE  <<"FlashWLog", d, l, q, CHOOSE s \in Slot : Top.chunks[s] = c>> \in Location
      OBVIOUS
    <3> DEFINE s == CHOOSE s \in Slot : Top.chunks[s] = c
    <3>1. s \in Slot
      OBVIOUS
    <3> HIDE DEF s, l, q, d
    <3>2. <<"FlashWLog", d, l, q, s>> \in Location
      BY <1>2, <1>4, <3>1, LocationParts
    <3> QED
      BY <3>2 DEF s
  <2> HIDE DEF d, l, q
  <2> QED
    BY <1>3, <2>1 DEF TypeOK
<1>6. copy \in [Bank \X Lbn \X Page -> [Slot -> Content]]
  <2>1. flash[<<j.bank, j.lbn, Top.page>>] \in [Slot -> Content]
    BY <1>2 DEF Job, TypeOK
  <2> HIDE DEF d, l, q, j
  <2> QED
    BY <2>1 DEF TypeOK
<1>7. /\ flash' \in [Bank \X Lbn \X Page -> [Slot -> Content]]
      /\ clean' \in [Bank -> Seq(Lbn)]
      /\ gcNest' \in [Bank -> Int]
      /\ lists \in [Bank \X Lbn \X {"W", "OW"} -> List]
  <2> HIDE DEF copy, j, last
  <2>1. CASE last
    BY <1>2, <1>3, <1>6, <2>1, ErasedTyped
  <2>2. CASE ~ last
    BY <1>3, <1>6, <2>2 DEF TypeOK
  <2> QED
    BY <2>1, <2>2
<1>8. list \in List
  <2>1. [s \in Slot |-> Top.chunks[s][1]] \in [Slot -> LpnOrNone]
    BY <1>2, ContentParts
  <2> QED
    BY <1>4, <2>1, NotedTyped
<1>9. callers \in Seq(Frame)
  <2>1. [op |-> "GcScan", page |-> Top.page + 1, found |-> Top.found, job |-> j] \in Frame
    BY <1>2, ScanTyped
  <2> QED
    BY <1>0, <2>1, RunningFrame, StackParts
<1>10. /\ flashList' \in [Bank \X Lbn \X {"W", "OW"} -> List]
       /\ rwList' \in [Bank -> List]
       /\ wHeap' \in [Bank -> SUBSET Lbn]
       /\ rwCtrl' \in [Bank -> RWCtrl]
       /\ stk' \in Seq(Frame)
  <2> HIDE DEF d, list, lists, callers
  <2>1. rwCtrl[d].lbn # NoBlk
    BY <1>0 DEF d
  <2> QED
    BY <1>2, <1>3, <1>7, <1>8, <1>9, <2>1, IncreaseRWLpnTyped
<1> QED
  BY <1>5, <1>7, <1>10 DEF GcCopyPage, TypeOK, bufVars

LEMMA GcPartialPageTyped == TypeOK /\ GcPartialPage => TypeOK'
<1> SUFFICES ASSUME TypeOK, GcPartialPage PROVE TypeOK'
  OBVIOUS
<1> DEFINE j     == Top.job
           p     == Min(PagesLeft(Top))
           valid == ValidSlots(j, p)
           found == Top.found + Cardinality(valid)
           nth(i) == CHOOSE s \in valid : Cardinality({t \in valid : t < s}) = i - 1
           pending == [i \in 1 .. Cardinality(valid) |->
                         [chunk |-> Owner(j, p, nth(i)), data |-> flash[<<j.bank, j.lbn, p>>][nth(i)]]]
           f == [op |-> "GcChunks", job |-> j, page |-> p, found |-> found, pending |-> pending]
<1>1. Running("GcScan") /\ PagesLeft(Top) # {}
  BY DEF GcPartialPage
<1>2. /\ stk' = At(f)
      /\ IF found = j.expected
         THEN /\ flash' = ErasedFlash(j, flash)
              /\ flashList' = ErasedLists(j)
              /\ clean' = Pushed(j)
         ELSE UNCHANGED <<flash, flashList, clean>>
  BY DEF GcPartialPage
<1>3. p \in Page /\ \A s \in valid : s \in Slot /\ Owner(j, p, s) \in Chunk
  BY <1>1, NextPage
<1>4. j \in Job /\ j.bank \in Bank /\ j.lbn \in Lbn /\ Top.found \in Nat
  BY <1>1, ScanRunning
<1>5. valid \in SUBSET (0 .. ChunksPerPage - 1) /\ Cardinality(valid) \in Nat
  <2>1. valid \in SUBSET Slot
    BY <1>3
  <2> HIDE DEF valid
  <2>2. IsFiniteSet(valid)
    BY <2>1, Geometry, FS_Subset
  <2> QED
    BY <2>1, <2>2, FS_CardinalityType DEF Slot
<1>6. \A i \in 1 .. Cardinality(valid) : nth(i) \in valid
  <2> HIDE DEF valid
  <2> TAKE i \in 1 .. Cardinality(valid)
  <2>1. \E s \in valid : Cardinality({t \in valid : t < s}) = i - 1
    BY <1>5, NthExists, Geometry
  <2> QED
    BY <2>1
<1>7. pending \in Seq([chunk : Chunk, data : Content])
  <2>1. flash[<<j.bank, j.lbn, p>>] \in [Slot -> Content]
    BY <1>3, <1>4 DEF TypeOK
  <2> HIDE DEF j, p, valid, nth
  <2> DEFINE n == Cardinality(valid)
             read(i) == [chunk |-> Owner(j, p, nth(i)), data |-> flash[<<j.bank, j.lbn, p>>][nth(i)]]
  <2>2. \A i \in 1 .. n : read(i) \in [chunk : Chunk, data : Content]
    BY <1>3, <1>6, <2>1
  <2>3. n \in Nat
    BY <1>5
  <2>4. pending = [i \in 1 .. n |-> read(i)]
    OBVIOUS
  <2> HIDE DEF n, read, pending
  <2>5. pending \in [1 .. n -> [chunk : Chunk, data : Content]]
    BY <2>2, <2>4
  <2> QED
    BY <2>3, <2>5, SeqDef, ZenonT(30)
<1>8. found \in Nat
  <2> HIDE DEF valid
  <2> QED
    BY <1>4, <1>5
<1>9. f \in Frame
  <2> HIDE DEF j, p, found, pending
  <2> QED
    BY <1>3, <1>4, <1>7, <1>8 DEF Frame, GcChunksFrame
<1>10. stk' \in Seq(Frame)
  <2> HIDE DEF f
  <2> QED
    BY <1>1, <1>2, <1>9, RunningFrame, StackParts
<1>11. /\ flash' \in [Bank \X Lbn \X Page -> [Slot -> Content]]
       /\ flashList' \in [Bank \X Lbn \X {"W", "OW"} -> List]
       /\ clean' \in [Bank -> Seq(Lbn)]
  <2> HIDE DEF j, found, f
  <2>1. flash \in [Bank \X Lbn \X Page -> [Slot -> Content]]
    BY DEF TypeOK
  <2>2. CASE found = j.expected
    <3>1. flash' = ErasedFlash(j, flash) /\ flashList' = ErasedLists(j) /\ clean' = Pushed(j)
      BY <1>2, <2>2
    <3>2. /\ ErasedFlash(j, flash) \in [Bank \X Lbn \X Page -> [Slot -> Content]]
          /\ ErasedLists(j) \in [Bank \X Lbn \X {"W", "OW"} -> List]
          /\ Pushed(j) \in [Bank -> Seq(Lbn)]
      BY <1>4, <2>1, ErasedTyped
    <3> QED
      BY <3>1, <3>2
  <2>3. CASE found # j.expected
    BY <1>2, <2>3 DEF TypeOK
  <2> QED
    BY <2>2, <2>3
<1> QED
  BY <1>10, <1>11 DEF GcPartialPage, TypeOK, heapVars, bufVars

(* The slot after slot s of a buffer. *)
LEMMA NextSlot == \A s \in Slot : (s + 1) % ChunksPerPage \in Slot
  BY Geometry DEF Slot

LEMMA GcWriteChunkTyped == TypeOK /\ GcWriteChunk => TypeOK'
<1> SUFFICES ASSUME TypeOK, GcWriteChunk PROVE TypeOK'
  OBVIOUS
<1> DEFINE d == NextBank
           s == chunkPtr[d]
           x == Head(Top.pending)
           f == [Top EXCEPT !.pending = Tail(@)]
           new == [lpn |-> x.chunk[1], idx |-> x.chunk[2], data |-> x.data]
<1>0. Running("GcChunks")
  BY DEF GcWriteChunk
<1>1. Top \in GcChunksFrame
  BY <1>0, RunningFrame, FrameKinds
<1>2. /\ Top.pending # << >>
      /\ refBank' = d
      /\ logBuf' = [logBuf EXCEPT ![d][s] = new]
      /\ chunksMap' = [chunksMap EXCEPT ![x.chunk] = <<"DRAMWLog", d, s>>]
      /\ chunkPtr' = [chunkPtr EXCEPT ![d] = (s + 1) % ChunksPerPage]
      /\ stk' = IF s + 1 = ChunksPerPage
                THEN Append(At(f), [op |-> "FlushW", bank |-> d]) ELSE At(f)
  BY DEF GcWriteChunk
<1>3. d \in Bank /\ s \in Slot
  <2>1. d \in Bank
    BY NextBankTyped
  <2> HIDE DEF d
  <2> QED
    BY <2>1 DEF TypeOK
<1>4. x \in [chunk : Chunk, data : Content] /\ Tail(Top.pending) \in Seq([chunk : Chunk, data : Content])
  <2>1. Top.pending \in Seq([chunk : Chunk, data : Content])
    BY <1>1 DEF GcChunksFrame
  <2> QED
    BY <1>2, <2>1, HeadTailProperties
<1>5. f \in Frame
  <2>1. f \in GcChunksFrame
    BY <1>1, <1>4 DEF GcChunksFrame
  <2> QED
    BY <2>1 DEF Frame
<1>6. [op |-> "FlushW", bank |-> d] \in Frame
  BY <1>3 DEF Frame, FlushWFrame
<1>7. stk' \in Seq(Frame)
  <2> HIDE DEF f, d, s
  <2> QED
    BY <1>0, <1>2, <1>5, <1>6, RunningFrame, StackParts
<1>8. new \in BufSlot
  BY <1>4, ContentParts DEF BufSlot
<1>9. logBuf' \in [Bank -> [Slot -> BufSlot]]
  <2> HIDE DEF d, s, new
  <2> QED
    BY <1>2, <1>3, <1>8 DEF TypeOK
<1>10. chunksMap' \in [Chunk -> Location]
  <2> HIDE DEF d, s, x
  <2>1. <<"DRAMWLog", d, s>> \in Location
    BY <1>3, LocationParts
  <2> QED
    BY <1>2, <2>1 DEF TypeOK
<1>11. chunkPtr' \in [Bank -> Slot] /\ refBank' \in Bank
  <2> HIDE DEF d, s
  <2> QED
    BY <1>2, <1>3, NextSlot DEF TypeOK
<1> QED
  BY <1>7, <1>9, <1>10, <1>11 DEF GcWriteChunk, TypeOK, flashVars, logVars, heapVars

LEMMA GcPageDoneTyped == TypeOK /\ GcPageDone => TypeOK'
<1> SUFFICES ASSUME TypeOK, GcPageDone PROVE TypeOK'
  OBVIOUS
<1> DEFINE j == Top.job
<1>0. Running("GcChunks")
  BY DEF GcPageDone
<1>1. Top \in GcChunksFrame
  BY <1>0, RunningFrame, FrameKinds
<1>2. j \in Job /\ j.bank \in Bank /\ Top.page \in Page /\ Top.found \in Nat
  BY <1>1 DEF GcChunksFrame, Job
<1>3. /\ \/ stk' = Below
         \/ stk' = At([op |-> "GcScan", page |-> Top.page + 1, found |-> Top.found, job |-> j])
      /\ gcNest' \in {gcNest, [gcNest EXCEPT ![j.bank] = @ - 1]}
  BY Zenon DEF GcPageDone
<1>4. stk' \in Seq(Frame)
  <2>1. \A y \in Page : y + 1 \in Nat
    BY Geometry DEF Page
  <2>2. [op |-> "GcScan", page |-> Top.page + 1, found |-> Top.found, job |-> j] \in Frame
    <3> HIDE DEF j
    <3> QED
      BY <1>2, <2>1, ScanTyped
  <2> QED
    BY <1>0, <1>3, <2>2, RunningFrame, StackParts
<1>5. gcNest' \in [Bank -> Int]
  <2>1. flash \in [Bank \X Lbn \X Page -> [Slot -> Content]] /\ gcNest \in [Bank -> Int]
    BY DEF TypeOK
  <2>2. [gcNest EXCEPT ![j.bank] = @ - 1] \in [Bank -> Int]
    BY <1>2, <2>1, ErasedTyped
  <2> QED
    BY <1>3, <2>1, <2>2
<1> QED
  BY <1>4, <1>5 DEF GcPageDone, TypeOK, flashVars, logVars, heapVars, bufVars

(* What a flush takes from a buffer. *)
LEMMA FlushTyped ==
    ASSUME NEW buf \in [Bank -> [Slot -> BufSlot]], NEW b \in Bank
    PROVE  /\ [s \in Slot |-> buf[b][s].data] \in [Slot -> Content]
           /\ [s \in Slot |-> buf[b][s].lpn] \in [Slot -> LpnOrNone]
           /\ Cardinality({s \in Slot : buf[b][s].lpn = NoLpn}) \in Nat
           /\ \A c : LET from == {s \in Slot : buf[b][s].lpn = c[1] /\ buf[b][s].idx = c[2]}
                     IN  from # {} => Max(from) \in Slot /\ Max(from) \in from
<1>1. Cardinality({s \in Slot : buf[b][s].lpn = NoLpn}) \in Nat
  <2>1. {s \in Slot : buf[b][s].lpn = NoLpn} \in SUBSET Slot
    OBVIOUS
  <2> QED
    BY <2>1, Geometry, FS_Subset, FS_CardinalityType
<1>2. \A S \in SUBSET Slot : S # {} => Max(S) \in S
  <2>1. ChunksPerPage - 1 \in Nat
    BY Geometry
  <2> QED
    BY <2>1, MaxExists DEF Slot
<1> QED
  BY <1>1, <1>2 DEF BufSlot

LEMMA MaxWith0 == \A n \in Int : Max({n, 0}) \in Nat /\ Max({n, 0}) = IF n >= 0 THEN n ELSE 0
<1> TAKE n \in Int
<1>1. CASE n >= 0
  <2>1. n \in {n, 0} /\ \A y \in {n, 0} : n >= y
    BY <1>1
  <2>2. \A x \in {n, 0} : (\A y \in {n, 0} : x >= y) => x = n
    BY <1>1
  <2>3. Max({n, 0}) = n
    BY <2>1, <2>2 DEF Max
  <2> QED
    BY <1>1, <2>3
<1>2. CASE n < 0
  <2>1. 0 \in {n, 0} /\ \A y \in {n, 0} : 0 >= y
    BY <1>2
  <2>2. \A x \in {n, 0} : (\A y \in {n, 0} : x >= y) => x = 0
    BY <1>2
  <2>3. Max({n, 0}) = 0
    BY <2>1, <2>2 DEF Max
  <2> QED
    BY <1>2, <2>3
<1> QED
  BY <1>1, <1>2

LEMMA FlushWTyped == TypeOK /\ PagesInRange /\ FlushW => TypeOK'
<1> SUFFICES ASSUME TypeOK, PagesInRange, FlushW PROVE TypeOK'
  OBVIOUS
<1> DEFINE b == Top.bank
           l == rwCtrl[b].lbn
           q == rwCtrl[b].page
           from(c) == {s \in Slot : logBuf[b][s].lpn = c[1] /\ logBuf[b][s].idx = c[2]}
           list == Noted(rwList[b], q, [s \in Slot |-> logBuf[b][s].lpn])
<1>0. Running("FlushW") /\ l # NoBlk
  BY DEF FlushW
<1>1. b \in Bank
  BY <1>0, RunningFrame, FrameKinds DEF FlushWFrame
<1>2. l \in Lbn /\ q \in Page /\ rwList[b] \in List
  BY <1>0, <1>1 DEF TypeOK, RWCtrl
<1>3. /\ flash' = [flash EXCEPT ![<<b, l, q>>] = [s \in Slot |-> logBuf[b][s].data]]
      /\ chunksMap' = [c \in Chunk |->
             IF from(c) = {} THEN chunksMap[c] ELSE <<"FlashWLog", b, l, q, Max(from(c))>>]
      /\ wValid' = [wValid EXCEPT ![<<b, l>>] = Max({CountAfterFlush(b), 0})]
      /\ err' = ErrUnless(CountAfterFlush(b) >= 0, "valid chunks below 0")
      /\ IncreaseRWLpn(b, list, flashList, Below)
  BY DEF FlushW
<1>4. /\ [s \in Slot |-> logBuf[b][s].data] \in [Slot -> Content]
      /\ [s \in Slot |-> logBuf[b][s].lpn] \in [Slot -> LpnOrNone]
      /\ Cardinality({s \in Slot : logBuf[b][s].lpn = NoLpn}) \in Nat
      /\ \A c : from(c) # {} => Max(from(c)) \in Slot
  <2>1. logBuf \in [Bank -> [Slot -> BufSlot]]
    BY DEF TypeOK
  <2> HIDE DEF b
  <2> QED
    BY <1>1, <2>1, FlushTyped
<1>5. flash' \in [Bank \X Lbn \X Page -> [Slot -> Content]]
  <2> HIDE DEF b, l, q
  <2> QED
    BY <1>3, <1>4 DEF TypeOK
<1>6. chunksMap' \in [Chunk -> Location]
  <2> HIDE DEF b, l, q, from
  <2>1. \A c \in Chunk : from(c) # {} => <<"FlashWLog", b, l, q, Max(from(c))>> \in Location
    BY <1>1, <1>2, <1>4, LocationParts
  <2> QED
    BY <1>3, <2>1 DEF TypeOK
<1>7. wValid' \in [Block -> Nat]
  <2>1. wValid[<<b, l>>] \in Nat
    BY <1>1, <1>2 DEF TypeOK, Block
  <2>2. CountAfterFlush(b) \in Int
    <3>1. CountAfterFlush(b) = wValid[<<b, l>>] - Cardinality({s \in Slot : logBuf[b][s].lpn = NoLpn})
      BY DEF CountAfterFlush
    <3> HIDE DEF b, l
    <3> QED
      BY <1>4, <2>1, <3>1
  <2>3. Max({CountAfterFlush(b), 0}) \in Nat
    BY <2>2, MaxWith0
  <2> HIDE DEF b, l
  <2> QED
    BY <1>3, <2>3 DEF TypeOK
<1>8. err' \in {"none", "valid chunks below 0"}
  BY <1>3 DEF ErrUnless
<1>9. list \in List
  BY <1>2, <1>4, NotedTyped
<1>10. /\ flashList' \in [Bank \X Lbn \X {"W", "OW"} -> List]
       /\ rwList' \in [Bank -> List]
       /\ wHeap' \in [Bank -> SUBSET Lbn]
       /\ rwCtrl' \in [Bank -> RWCtrl]
       /\ stk' \in Seq(Frame)
  <2>1. rwCtrl[b].lbn # NoBlk
    BY <1>0
  <2>2. Below \in Seq(Frame)
    BY <1>0, RunningFrame, StackParts
  <2>3. flashList \in [Bank \X Lbn \X {"W", "OW"} -> List]
    BY DEF TypeOK
  <2> HIDE DEF b, list
  <2> QED
    BY <1>1, <1>3, <1>9, <2>1, <2>2, <2>3, IncreaseRWLpnTyped
<1> QED
  BY <1>5, <1>6, <1>7, <1>8, <1>10 DEF FlushW, TypeOK, bufVars

-----------------------------------------------------------------------------
(* Requests. *)
LEMMA RequestParts ==
    ASSUME NEW r \in Requests
    PROVE  r.pieces \in Seq(Piece)
  BY RequestsAssumption DEF Request

LEMMA PiecesTyped ==
    ASSUME NEW lpn \in Lpn, NEW pieces \in Seq(Piece)
    PROVE  /\ \A i \in DOMAIN pieces : pieces[i].idx \in Slot /\ pieces[i].part \in BOOLEAN
           /\ ChunksOf(lpn, pieces) \in SUBSET ({lpn} \X Slot)
<1>1. \A i \in DOMAIN pieces : pieces[i] \in Piece
  OBVIOUS
<1>2. \A i \in DOMAIN pieces : pieces[i].idx \in Slot /\ pieces[i].part \in BOOLEAN
  BY <1>1 DEF Piece
<1> QED
  BY <1>2 DEF ChunksOf

LEMMA ReceiveTyped ==
    ASSUME TypeOK, NEW cs, NEW new \in BOOLEAN, Receive(cs, new)
    PROVE  written' \in [Chunk -> BOOLEAN] /\ err = "none" /\ stk = << >>
  BY DEF Receive, TypeOK

LEMMA StartCleanTyped == StartClean \in Frame
<1>1. 0 \in 0 .. NumBanks
  BY Geometry
<1> QED
  BY <1>1 DEF StartClean, Frame, CleanFrame

LEMMA TrimRequestTyped ==
    ASSUME TypeOK, NEW lpn \in Lpn, NEW pieces \in Seq(Piece), TrimRequest(lpn, pieces)
    PROVE  TypeOK'
<1> DEFINE whole == {<<lpn, pieces[i].idx>> : i \in {j \in DOMAIN pieces : ~pieces[j].part}}
<1>1. whole \in SUBSET ({lpn} \X Slot)
  BY PiecesTyped
<1>2. /\ Receive(whole, FALSE) /\ ManageOld(whole)
      /\ chunksMap' = [c \in Chunk |-> IF c \in whole THEN Invalid ELSE chunksMap[c]]
  BY DEF TrimRequest
<1> HIDE DEF whole
<1>3. written' \in [Chunk -> BOOLEAN]
  BY <1>2, ReceiveTyped
<1>4. /\ wValid' \in [Block -> Nat] /\ owValid' \in [Block -> Nat]
      /\ err' \in {"none", "valid chunks below 0"}
      /\ logBuf' \in [Bank -> [Slot -> BufSlot]] /\ owBuf' \in [Bank -> [Slot -> BufSlot]]
  BY <1>1, <1>2, ManageOldTyped
<1>5. chunksMap' \in [Chunk -> Location]
  BY <1>2, LocationParts DEF TypeOK
<1> QED
  BY <1>3, <1>4, <1>5 DEF TrimRequest, TypeOK, flashVars, logVars

LEMMA WritePageRequestTyped ==
    ASSUME TypeOK, NEW lpn \in Lpn, NEW pieces \in Seq(Piece), WritePageRequest(lpn, pieces)
    PROVE  TypeOK'
<1> DEFINE f == [op |-> "WritePage", bank |-> NextBank, lpn |-> lpn]
<1>1. ChunksOf(lpn, pieces) \in SUBSET ({lpn} \X Slot)
  BY PiecesTyped
<1>2. written' \in [Chunk -> BOOLEAN]
  BY ReceiveTyped DEF WritePageRequest
<1>3. /\ wValid' \in [Block -> Nat] /\ owValid' \in [Block -> Nat]
      /\ err' \in {"none", "valid chunks below 0"}
      /\ logBuf' \in [Bank -> [Slot -> BufSlot]] /\ owBuf' \in [Bank -> [Slot -> BufSlot]]
  BY <1>1, ManageOldTyped DEF WritePageRequest
<1>4. f \in Frame /\ refBank' \in Bank
  BY NextBankTyped DEF Frame, WritePageFrame, WritePageRequest
<1>5. stk' \in Seq(Frame)
  <2>1. stk' = <<StartClean, f>>
    BY DEF WritePageRequest
  <2> HIDE DEF f
  <2> QED
    BY <1>4, <2>1, StartCleanTyped
<1> QED
  BY <1>2, <1>3, <1>4, <1>5 DEF WritePageRequest, TypeOK, flashVars, logVars

LEMMA WriteChunksRequestTyped ==
    ASSUME TypeOK, NEW lpn \in Lpn, NEW pieces \in Seq(Piece), WriteChunksRequest(lpn, pieces)
    PROVE  TypeOK'
<1> DEFINE f == [op |-> "WriteChunks", bank |-> NextBank, lpn |-> lpn, todo |-> pieces]
<1>1. written' \in [Chunk -> BOOLEAN]
  BY ReceiveTyped DEF WriteChunksRequest
<1>2. f \in Frame /\ refBank' \in Bank
  BY NextBankTyped DEF Frame, WriteChunksFrame, WriteChunksRequest
<1>3. stk' \in Seq(Frame)
  <2>1. stk' = <<StartClean, f>>
    BY DEF WriteChunksRequest
  <2> HIDE DEF f
  <2> QED
    BY <1>2, <2>1, StartCleanTyped
<1> QED
  BY <1>1, <1>2, <1>3 DEF WriteChunksRequest, TypeOK, flashVars, logVars, heapVars, bufVars

LEMMA WritePageTyped == TypeOK /\ PagesInRange /\ WritePage => TypeOK'
<1> SUFFICES ASSUME TypeOK, PagesInRange, WritePage PROVE TypeOK'
  OBVIOUS
<1> DEFINE b  == Top.bank
           l  == rwCtrl[b].lbn
           q  == rwCtrl[b].page
           n  == Top.lpn
           cs == {n} \X Slot
           list == Noted(rwList[b], q, [s \in Slot |-> n])
<1>0. Running("WritePage") /\ l # NoBlk
  BY DEF WritePage
<1>1. b \in Bank /\ n \in Lpn
  BY <1>0, RunningFrame, FrameKinds DEF WritePageFrame
<1>2. l \in Lbn /\ q \in Page /\ rwList[b] \in List
  BY <1>0, <1>1 DEF TypeOK, RWCtrl
<1>3. /\ flash' = [FlashWithout(cs) EXCEPT ![<<b, l, q>>] = [s \in Slot |-> <<n, s>>]]
      /\ logBuf' = BufWithout(logBuf, cs)
      /\ owBuf' = BufWithout(owBuf, cs)
      /\ chunksMap' = [c \in Chunk |->
             IF c \in cs THEN <<"FlashWLog", b, l, q, c[2]>> ELSE chunksMap[c]]
      /\ IncreaseRWLpn(b, list, flashList, Below)
  BY DEF WritePage
<1>4. /\ FlashWithout(cs) \in [Bank \X Lbn \X Page -> [Slot -> Content]]
      /\ logBuf' \in [Bank -> [Slot -> BufSlot]] /\ owBuf' \in [Bank -> [Slot -> BufSlot]]
  <2>1. logBuf \in [Bank -> [Slot -> BufSlot]] /\ owBuf \in [Bank -> [Slot -> BufSlot]]
    BY DEF TypeOK
  <2> QED
    BY <1>3, <2>1, WithoutTyped
<1>5. flash' \in [Bank \X Lbn \X Page -> [Slot -> Content]]
  <2>1. [s \in Slot |-> <<n, s>>] \in [Slot -> Content]
    BY <1>1, ContentParts
  <2> HIDE DEF b, l, q, cs
  <2> QED
    BY <1>3, <1>4, <2>1
<1>6. chunksMap' \in [Chunk -> Location]
  <2> HIDE DEF b, l, q, cs
  <2>1. \A c \in Chunk : <<"FlashWLog", b, l, q, c[2]>> \in Location
    BY <1>1, <1>2, ContentParts, LocationParts
  <2> QED
    BY <1>3, <2>1 DEF TypeOK
<1>7. list \in List
  <2>1. [s \in Slot |-> n] \in [Slot -> LpnOrNone]
    BY <1>1, ContentParts
  <2> QED
    BY <1>2, <2>1, NotedTyped
<1>8. /\ flashList' \in [Bank \X Lbn \X {"W", "OW"} -> List]
      /\ rwList' \in [Bank -> List]
      /\ wHeap' \in [Bank -> SUBSET Lbn]
      /\ rwCtrl' \in [Bank -> RWCtrl]
      /\ stk' \in Seq(Frame)
  <2>1. rwCtrl[b].lbn # NoBlk
    BY <1>0
  <2>2. Below \in Seq(Frame)
    BY <1>0, RunningFrame, StackParts
  <2>3. flashList \in [Bank \X Lbn \X {"W", "OW"} -> List]
    BY DEF TypeOK
  <2> HIDE DEF b, list
  <2> QED
    BY <1>1, <1>3, <1>7, <2>1, <2>2, <2>3, IncreaseRWLpnTyped
<1> QED
  BY <1>4, <1>5, <1>6, <1>8 DEF WritePage, TypeOK

(* The piece at the head of a list of pieces still to be written. *)
LEMMA HeadPieceTyped ==
    ASSUME NEW lpn \in Lpn, NEW todo \in Seq(Piece), todo # << >>
    PROVE  /\ Head(todo).idx \in Slot
           /\ <<lpn, Head(todo).idx>> \in Chunk
           /\ {<<lpn, Head(todo).idx>>} \in SUBSET ({lpn} \X Slot)
           /\ Tail(todo) \in Seq(Piece)
<1>1. Head(todo) \in Piece /\ Tail(todo) \in Seq(Piece)
  BY HeadTailProperties
<1> QED
  BY <1>1, ContentParts DEF Piece

LEMMA WriteChunksRunning ==
    ASSUME TypeOK, Running("WriteChunks"), Top.todo # << >>
    PROVE  /\ Top.bank \in Bank /\ Top.lpn \in Lpn
           /\ Head(Top.todo).idx \in Slot
           /\ <<Top.lpn, Head(Top.todo).idx>> \in Chunk
           /\ {<<Top.lpn, Head(Top.todo).idx>>} \in SUBSET ({Top.lpn} \X Slot)
           /\ [Top EXCEPT !.todo = Tail(@)] \in Frame
<1>1. Top \in WriteChunksFrame
  BY RunningFrame, FrameKinds
<1>2. Top.bank \in Bank /\ Top.lpn \in Lpn /\ Top.todo \in Seq(Piece)
  BY <1>1 DEF WriteChunksFrame
<1>3. Tail(Top.todo) \in Seq(Piece)
  BY <1>2, HeadPieceTyped
<1>4. [Top EXCEPT !.todo = Tail(@)] \in WriteChunksFrame
  BY <1>1, <1>3 DEF WriteChunksFrame
<1> QED
  BY <1>2, <1>4, HeadPieceTyped DEF Frame

LEMMA WriteChunkInPlaceTyped == TypeOK /\ WriteChunkInPlace => TypeOK'
<1> SUFFICES ASSUME TypeOK, WriteChunkInPlace PROVE TypeOK'
  OBVIOUS
<1> DEFINE c == <<Top.lpn, Head(Top.todo).idx>>
           old == Where(c)
           f == [Top EXCEPT !.todo = Tail(@)]
           m == Merged(c, Head(Top.todo).part)
<1>0. Running("WriteChunks") /\ Top.todo # << >>
  BY DEF WriteChunkInPlace
<1>1. c \in Chunk /\ f \in Frame
  BY <1>0, WriteChunksRunning
<1>2. /\ old \in DRAMWLog
      /\ logBuf' = [BufWithout(logBuf, {c}) EXCEPT ![old[2]][old[3]].data = m]
      /\ owBuf' = BufWithout(owBuf, {c})
      /\ flash' = FlashWithout({c})
      /\ stk' = At(f)
  BY DEF WriteChunkInPlace
<1>3. m \in Content /\ old[2] \in Bank /\ old[3] \in Slot
  BY <1>1, <1>2, MergedTyped, LocationParts
<1>4. /\ flash' \in [Bank \X Lbn \X Page -> [Slot -> Content]]
      /\ BufWithout(logBuf, {c}) \in [Bank -> [Slot -> BufSlot]] /\ owBuf' \in [Bank -> [Slot -> BufSlot]]
  <2>1. logBuf \in [Bank -> [Slot -> BufSlot]] /\ owBuf \in [Bank -> [Slot -> BufSlot]]
    BY DEF TypeOK
  <2> HIDE DEF c
  <2> QED
    BY <1>2, <2>1, WithoutTyped
<1>5. logBuf' \in [Bank -> [Slot -> BufSlot]]
  <2> DEFINE buf == BufWithout(logBuf, {c})
             d == old[2]
             s == old[3]
  <2>1. logBuf' = [buf EXCEPT ![d][s].data = m] /\ buf \in [Bank -> [Slot -> BufSlot]]
        /\ d \in Bank /\ s \in Slot
    BY <1>2, <1>3, <1>4
  <2> HIDE DEF buf, m, d, s
  <2>2. [buf[d][s] EXCEPT !.data = m] \in BufSlot
    BY <1>3, <2>1 DEF BufSlot
  <2>3. logBuf' = [buf EXCEPT ![d][s] = [buf[d][s] EXCEPT !.data = m]]
    BY <2>1
  <2> QED
    BY <2>1, <2>2, <2>3
<1>6. stk' \in Seq(Frame)
  <2> HIDE DEF f
  <2> QED
    BY <1>0, <1>1, <1>2, RunningFrame, StackParts
<1> QED
  BY <1>4, <1>5, <1>6 DEF WriteChunkInPlace, TypeOK, logVars, heapVars

LEMMA WriteChunkTyped == TypeOK /\ WriteChunk => TypeOK'
<1> SUFFICES ASSUME TypeOK, WriteChunk PROVE TypeOK'
  OBVIOUS
<1> DEFINE c == <<Top.lpn, Head(Top.todo).idx>>
           b == Top.bank
           s == chunkPtr[b]
           f == [Top EXCEPT !.todo = Tail(@)]
           m == Merged(c, Head(Top.todo).part)
           new == [lpn |-> c[1], idx |-> c[2], data |-> m]
<1>0. Running("WriteChunks") /\ Top.todo # << >>
  BY DEF WriteChunk
<1>1. c \in Chunk /\ b \in Bank /\ f \in Frame
  BY <1>0, WriteChunksRunning
<1>2. /\ OldCounts({c})
      /\ logBuf' = [BufWithout(logBuf, {c}) EXCEPT ![b][s] = new]
      /\ owBuf' = OwBufWithout(c)
      /\ flash' = FlashWithout({c})
      /\ chunksMap' = [chunksMap EXCEPT ![c] = <<"DRAMWLog", b, s>>]
      /\ chunkPtr' = [chunkPtr EXCEPT ![b] = (s + 1) % ChunksPerPage]
      /\ stk' = IF s + 1 = ChunksPerPage
                THEN Append(At(f), [op |-> "FlushW", bank |-> b]) ELSE At(f)
  BY DEF WriteChunk
<1>3. /\ wValid' \in [Block -> Nat] /\ owValid' \in [Block -> Nat]
      /\ err' \in {"none", "valid chunks below 0"}
  <2>1. {c} \in SUBSET ({Top.lpn} \X Slot)
    BY <1>0, WriteChunksRunning
  <2> HIDE DEF c
  <2> QED
    BY <1>2, <2>1, OldCountsTyped
<1>4. s \in Slot
  <2> HIDE DEF b
  <2> QED
    BY <1>1 DEF TypeOK
<1>5. /\ flash' \in [Bank \X Lbn \X Page -> [Slot -> Content]]
      /\ BufWithout(logBuf, {c}) \in [Bank -> [Slot -> BufSlot]] /\ owBuf' \in [Bank -> [Slot -> BufSlot]]
  <2>1. logBuf \in [Bank -> [Slot -> BufSlot]] /\ owBuf \in [Bank -> [Slot -> BufSlot]]
    BY DEF TypeOK
  <2> HIDE DEF c
  <2>2. Unmapped(owBuf, {c}, "DRAMOwLog") \in [Bank -> [Slot -> BufSlot]]
    BY <2>1, WithoutTyped
  <2> QED
    BY <1>2, <2>1, <2>2, WithoutTyped DEF OwBufWithout
<1>6. logBuf' \in [Bank -> [Slot -> BufSlot]]
  <2>1. new \in BufSlot
    <3>1. c[1] \in Lpn /\ c[2] \in Slot /\ m \in Content
      BY <1>1, ContentParts, MergedTyped
    <3> HIDE DEF c, m
    <3> QED
      BY <3>1, ContentParts DEF BufSlot
  <2> HIDE DEF new, b, s, c
  <2> QED
    BY <1>1, <1>2, <1>4, <1>5, <2>1
<1>7. chunksMap' \in [Chunk -> Location]
  <2> HIDE DEF b, s, c
  <2>1. <<"DRAMWLog", b, s>> \in Location
    BY <1>1, <1>4, LocationParts
  <2> QED
    BY <1>2, <2>1 DEF TypeOK
<1>8. chunkPtr' \in [Bank -> Slot]
  <2> HIDE DEF b, s
  <2> QED
    BY <1>2, <1>4, NextSlot DEF TypeOK
<1>9. stk' \in Seq(Frame)
  <2>1. [op |-> "FlushW", bank |-> b] \in Frame
    BY <1>1 DEF Frame, FlushWFrame
  <2> HIDE DEF f, b, s
  <2> QED
    BY <1>0, <1>1, <1>2, <2>1, RunningFrame, StackParts
<1> QED
  BY <1>3, <1>5, <1>6, <1>7, <1>8, <1>9 DEF WriteChunk, TypeOK, logVars

LEMMA WriteChunksDoneTyped == TypeOK /\ WriteChunksDone => TypeOK'
<1> SUFFICES ASSUME TypeOK, WriteChunksDone PROVE TypeOK'
  OBVIOUS
<1>1. stk' \in Seq(Frame)
  BY RunningFrame, StackParts DEF WriteChunksDone
<1> QED
  BY <1>1 DEF WriteChunksDone, TypeOK, flashVars, logVars, heapVars, bufVars

LEMMA CleanDoneTyped == TypeOK /\ CleanDone => TypeOK'
<1> SUFFICES ASSUME TypeOK, CleanDone PROVE TypeOK'
  OBVIOUS
<1>1. stk' \in Seq(Frame)
  BY RunningFrame, StackParts DEF CleanDone
<1> QED
  BY <1>1 DEF CleanDone, TypeOK, flashVars, logVars, heapVars, bufVars

LEMMA CleanGcTyped == TypeOK /\ CleanGc => TypeOK'
<1> SUFFICES ASSUME TypeOK, CleanGc PROVE TypeOK'
  OBVIOUS
<1>0. Running("Clean")
  BY DEF CleanGc
<1>1. Top \in CleanFrame
  BY <1>0, RunningFrame, FrameKinds
<1>2. PICK b \in Top.bank .. NumBanks - 1 :
         stk' = Append(At([Top EXCEPT !.bank = b + 1]), [op |-> "Gc", bank |-> b])
  BY DEF CleanGc
<1>3. b \in Bank /\ b + 1 \in 0 .. NumBanks
  <2>1. Top.bank \in 0 .. NumBanks
    BY <1>1 DEF CleanFrame
  <2> QED
    BY <1>2, <2>1, Geometry DEF Bank
<1>4. [Top EXCEPT !.bank = b + 1] \in Frame /\ [op |-> "Gc", bank |-> b] \in Frame
  <2>1. [Top EXCEPT !.bank = b + 1] \in CleanFrame
    BY <1>1, <1>3 DEF CleanFrame
  <2> QED
    BY <1>3, <2>1 DEF Frame, GcFrame
<1>5. stk' \in Seq(Frame)
  BY <1>0, <1>2, <1>4, RunningFrame, StackParts
<1> QED
  BY <1>5 DEF CleanGc, TypeOK, flashVars, logVars, heapVars, bufVars

-----------------------------------------------------------------------------
(* Overwrites. *)

(* The page a request in order is in. *)
LEMMA InOrderTyped ==
    ASSUME TypeOK, NEW lpn, NEW pieces, InOrder(lpn, pieces)
    PROVE  LET old == Where(<<lpn, pieces[1].idx>>)
           IN  old[2] \in Bank /\ old[3] \in Lbn /\ old[4] \in Page
  BY LocationParts DEF InOrder

LEMMA CounterTyped ==
    ASSUME TypeOK, NEW x \in Bank \X Lbn \X Page, owCounter' = [owCounter EXCEPT ![x] = @ + 1]
    PROVE  owCounter' \in [Bank \X Lbn \X Page -> Nat]
<1>1. owCounter \in [Bank \X Lbn \X Page -> Nat]
  BY DEF TypeOK
<1> QED
  BY <1>1

LEMMA OverwriteInPlaceTyped ==
    ASSUME TypeOK, NEW lpn \in Lpn, NEW pieces \in Seq(Piece), OverwriteInPlace(lpn, pieces)
    PROVE  TypeOK'
<1> DEFINE cs == ChunksOf(lpn, pieces)
           old == Where(<<lpn, pieces[1].idx>>)
           x   == <<old[2], old[3], old[4]>>
<1>1. /\ InOrder(lpn, pieces) /\ Receive(cs, TRUE)
      /\ flash' = [FlashWithout(cs) EXCEPT ![x] = Reprogrammed(x, lpn, pieces)]
      /\ owCounter' = [owCounter EXCEPT ![x] = @ + 1]
      /\ logBuf' = BufWithout(logBuf, cs)
      /\ owBuf' = BufWithout(owBuf, cs)
      /\ stk' = <<StartClean>>
  BY DEF OverwriteInPlace
<1>2. x \in Bank \X Lbn \X Page
  BY <1>1, InOrderTyped
<1>3. written' \in [Chunk -> BOOLEAN]
  BY <1>1, ReceiveTyped
<1>4. /\ FlashWithout(cs) \in [Bank \X Lbn \X Page -> [Slot -> Content]]
      /\ logBuf' \in [Bank -> [Slot -> BufSlot]] /\ owBuf' \in [Bank -> [Slot -> BufSlot]]
  <2>1. logBuf \in [Bank -> [Slot -> BufSlot]] /\ owBuf \in [Bank -> [Slot -> BufSlot]]
    BY DEF TypeOK
  <2> HIDE DEF cs
  <2> QED
    BY <1>1, <2>1, WithoutTyped
<1>5. owCounter' \in [Bank \X Lbn \X Page -> Nat]
  <2> HIDE DEF x
  <2> QED
    BY <1>1, <1>2, CounterTyped
<1>6. flash' \in [Bank \X Lbn \X Page -> [Slot -> Content]]
  <2> HIDE DEF x
  <2>1. \A s \in Slot : \A part : Merged(<<lpn, s>>, part) \in Content
    BY MergedTyped, ContentParts
  <2>2. \A s \in Slot : FlashWithout(cs)[x][s] \in Content
    BY <1>2, <1>4
  <2>3. Reprogrammed(x, lpn, pieces) \in [Slot -> Content]
    BY <2>1, <2>2 DEF Reprogrammed
  <2> HIDE DEF cs
  <2> QED
    BY <1>1, <1>4, <2>3
<1>7. stk' \in Seq(Frame)
  BY <1>1, StartCleanTyped
<1> QED
  BY <1>3, <1>4, <1>5, <1>6, <1>7 DEF OverwriteInPlace, TypeOK, logVars, heapVars

LEMMA OverwritePageRequestTyped ==
    ASSUME TypeOK, NEW lpn \in Lpn, NEW pieces \in Seq(Piece), OverwritePageRequest(lpn, pieces)
    PROVE  TypeOK'
<1> DEFINE f == [op |-> "OwPage", bank |-> NextBank, lpn |-> lpn]
<1>1. ChunksOf(lpn, pieces) \in SUBSET ({lpn} \X Slot)
  BY PiecesTyped
<1>2. written' \in [Chunk -> BOOLEAN]
  BY ReceiveTyped DEF OverwritePageRequest
<1>3. /\ wValid' \in [Block -> Nat] /\ owValid' \in [Block -> Nat]
      /\ err' \in {"none", "valid chunks below 0"}
      /\ logBuf' \in [Bank -> [Slot -> BufSlot]] /\ owBuf' \in [Bank -> [Slot -> BufSlot]]
  BY <1>1, ManageOldTyped DEF OverwritePageRequest
<1>4. f \in Frame /\ refBank' \in Bank
  BY NextBankTyped DEF Frame, OwPageFrame, OverwritePageRequest
<1>5. stk' \in Seq(Frame)
  <2>1. stk' = <<StartClean, f>>
    BY DEF OverwritePageRequest
  <2> HIDE DEF f
  <2> QED
    BY <1>4, <2>1, StartCleanTyped
<1> QED
  BY <1>2, <1>3, <1>4, <1>5 DEF OverwritePageRequest, TypeOK, flashVars, logVars

LEMMA OverwriteExhaustedRequestTyped ==
    ASSUME TypeOK, NEW lpn \in Lpn, NEW pieces \in Seq(Piece), OverwriteExhaustedRequest(lpn, pieces)
    PROVE  TypeOK'
<1> DEFINE old == Where(<<lpn, pieces[1].idx>>)
           f == [op |-> "OwExhausted", bank |-> old[2], lbn |-> old[3],
                 lpn |-> lpn, todo |-> pieces, moved |-> 0]
<1>1. written' \in [Chunk -> BOOLEAN]
  BY ReceiveTyped DEF OverwriteExhaustedRequest
<1>2. InOrder(lpn, pieces) /\ stk' = <<StartClean, f>> /\ refBank' \in Bank
  BY NextBankTyped DEF OverwriteExhaustedRequest, Exhausted
<1>3. old[2] \in Bank /\ old[3] \in Lbn
  BY <1>2, InOrderTyped
<1>4. f \in Frame
  <2> HIDE DEF old
  <2> QED
    BY <1>3 DEF Frame, OwExhaustedFrame
<1>5. stk' \in Seq(Frame)
  <2> HIDE DEF f
  <2> QED
    BY <1>2, <1>4, StartCleanTyped
<1> QED
  BY <1>1, <1>2, <1>5 DEF OverwriteExhaustedRequest, TypeOK, flashVars, logVars, heapVars, bufVars

LEMMA OverwriteChunksRequestTyped ==
    ASSUME TypeOK, NEW lpn \in Lpn, NEW pieces \in Seq(Piece), OverwriteChunksRequest(lpn, pieces)
    PROVE  TypeOK'
<1> DEFINE f == [op |-> "OwChunks", lpn |-> lpn, todo |-> pieces]
<1>1. written' \in [Chunk -> BOOLEAN]
  BY ReceiveTyped DEF OverwriteChunksRequest
<1>2. f \in Frame
  BY DEF Frame, OwChunksFrame
<1>3. stk' \in Seq(Frame)
  <2>1. stk' = <<StartClean, f>>
    BY DEF OverwriteChunksRequest
  <2> HIDE DEF f
  <2> QED
    BY <1>2, <2>1, StartCleanTyped
<1> QED
  BY <1>1, <1>3 DEF OverwriteChunksRequest, TypeOK, flashVars, logVars, heapVars, bufVars

(* The same for the two functions that overwrite chunk by chunk. *)
LEMMA PieceTyped ==
    ASSUME TypeOK, NEW op \in {"OwChunks", "OwExhausted"}, Running(op), Top.todo # << >>
    PROVE  /\ Top.lpn \in Lpn /\ PieceChunk \in Chunk /\ PieceData \in Content
           /\ {PieceChunk} \in SUBSET ({Top.lpn} \X Slot)
           /\ op = "OwChunks" => AfterPiece \in Seq(Frame)
           /\ op = "OwExhausted" =>
                 At([Top EXCEPT !.todo = Tail(@), !.moved = @ + 1]) \in Seq(Frame)
<1>1. Top \in OwChunksFrame \/ Top \in OwExhaustedFrame
  BY RunningFrame, FrameKinds
<1>2. Top.lpn \in Lpn /\ Top.todo \in Seq(Piece)
  BY <1>1 DEF OwChunksFrame, OwExhaustedFrame
<1>3. /\ Tail(Top.todo) \in Seq(Piece)
      /\ PieceChunk \in Chunk
      /\ {PieceChunk} \in SUBSET ({Top.lpn} \X Slot)
  BY <1>2, HeadPieceTyped DEF PieceChunk
<1>4. ASSUME op = "OwChunks" PROVE AfterPiece \in Seq(Frame)
  <2>1. Top \in OwChunksFrame
    BY <1>4, RunningFrame, FrameKinds
  <2>2. [Top EXCEPT !.todo = Tail(@)] \in OwChunksFrame
    BY <1>3, <2>1 DEF OwChunksFrame
  <2> QED
    BY <2>2, RunningFrame, StackParts DEF Frame, AfterPiece
<1>5. ASSUME op = "OwExhausted" PROVE At([Top EXCEPT !.todo = Tail(@), !.moved = @ + 1]) \in Seq(Frame)
  <2>1. Top \in OwExhaustedFrame
    BY <1>5, RunningFrame, FrameKinds
  <2>3. Top.moved + 1 \in Nat
    BY <2>1 DEF OwExhaustedFrame
  <2>2. [Top EXCEPT !.todo = Tail(@), !.moved = @ + 1] \in OwExhaustedFrame
    BY <1>3, <2>1, <2>3 DEF OwExhaustedFrame
  <2> QED
    BY <2>2, RunningFrame, StackParts DEF Frame
<1> QED
  BY <1>2, <1>3, <1>4, <1>5, MergedTyped DEF PieceData

LEMMA OwChunkInBufTyped == TypeOK /\ OwChunkInBuf => TypeOK'
<1> SUFFICES ASSUME TypeOK, OwChunkInBuf PROVE TypeOK'
  OBVIOUS
<1> DEFINE c == PieceChunk
           old == Where(c)
           m == PieceData
<1>0. Running("OwChunks") /\ Top.todo # << >>
  BY DEF OwChunkInBuf
<1>1. c \in Chunk /\ m \in Content /\ AfterPiece \in Seq(Frame)
  BY <1>0, PieceTyped
<1>2. /\ old \in DRAMOwLog
      /\ owBuf' = [BufWithout(owBuf, {c}) EXCEPT ![old[2]][old[3]].data = m]
      /\ logBuf' = BufWithout(logBuf, {c})
      /\ flash' = FlashWithout({c})
      /\ stk' = AfterPiece
  BY DEF OwChunkInBuf
<1>3. old[2] \in Bank /\ old[3] \in Slot
  BY <1>2, LocationParts
<1>4. /\ flash' \in [Bank \X Lbn \X Page -> [Slot -> Content]]
      /\ BufWithout(owBuf, {c}) \in [Bank -> [Slot -> BufSlot]] /\ logBuf' \in [Bank -> [Slot -> BufSlot]]
  <2>1. logBuf \in [Bank -> [Slot -> BufSlot]] /\ owBuf \in [Bank -> [Slot -> BufSlot]]
    BY DEF TypeOK
  <2> HIDE DEF c
  <2> QED
    BY <1>2, <2>1, WithoutTyped
<1>5. owBuf' \in [Bank -> [Slot -> BufSlot]]
  <2> DEFINE buf == BufWithout(owBuf, {c})
             d == old[2]
             s == old[3]
  <2>1. owBuf' = [buf EXCEPT ![d][s].data = m] /\ buf \in [Bank -> [Slot -> BufSlot]]
        /\ d \in Bank /\ s \in Slot
    BY <1>2, <1>3, <1>4
  <2> HIDE DEF buf, m, d, s
  <2>2. [buf[d][s] EXCEPT !.data = m] \in BufSlot
    BY <1>1, <2>1 DEF BufSlot
  <2>3. owBuf' = [buf EXCEPT ![d][s] = [buf[d][s] EXCEPT !.data = m]]
    BY <2>1
  <2> QED
    BY <2>1, <2>2, <2>3
<1> QED
  BY <1>1, <1>2, <1>4, <1>5 DEF OwChunkInBuf, TypeOK, logVars, heapVars

LEMMA OwChunkInPlaceTyped == TypeOK /\ OwChunkInPlace => TypeOK'
<1> SUFFICES ASSUME TypeOK, OwChunkInPlace PROVE TypeOK'
  OBVIOUS
<1> DEFINE c == PieceChunk
           old == Where(c)
           x == <<old[2], old[3], old[4]>>
           m == PieceData
<1>0. Running("OwChunks") /\ Top.todo # << >>
  BY DEF OwChunkInPlace
<1>1. c \in Chunk /\ m \in Content /\ AfterPiece \in Seq(Frame)
  BY <1>0, PieceTyped
<1>2. /\ old \in FlashOwLog
      /\ flash' = [FlashWithout({c}) EXCEPT ![x][old[5]] = m]
      /\ owCounter' = [owCounter EXCEPT ![x] = @ + 1]
      /\ logBuf' = BufWithout(logBuf, {c})
      /\ owBuf' = BufWithout(owBuf, {c})
      /\ stk' = AfterPiece
  BY DEF OwChunkInPlace
<1>3. x \in Bank \X Lbn \X Page /\ old[5] \in Slot
  BY <1>2, LocationParts
<1>4. /\ FlashWithout({c}) \in [Bank \X Lbn \X Page -> [Slot -> Content]]
      /\ owBuf' \in [Bank -> [Slot -> BufSlot]] /\ logBuf' \in [Bank -> [Slot -> BufSlot]]
  <2>1. logBuf \in [Bank -> [Slot -> BufSlot]] /\ owBuf \in [Bank -> [Slot -> BufSlot]]
    BY DEF TypeOK
  <2> HIDE DEF c
  <2> QED
    BY <1>2, <2>1, WithoutTyped
<1>5. flash' \in [Bank \X Lbn \X Page -> [Slot -> Content]]
  <2> DEFINE fl == FlashWithout({c})
             s == old[5]
  <2>1. flash' = [fl EXCEPT ![x][s] = m] /\ fl \in [Bank \X Lbn \X Page -> [Slot -> Content]]
        /\ s \in Slot
    BY <1>2, <1>3, <1>4
  <2> HIDE DEF fl, s, m, x
  <2> QED
    BY <1>1, <1>3, <2>1
<1>6. owCounter' \in [Bank \X Lbn \X Page -> Nat]
  <2> HIDE DEF x
  <2> QED
    BY <1>2, <1>3, CounterTyped
<1> QED
  BY <1>1, <1>2, <1>4, <1>5, <1>6 DEF OwChunkInPlace, TypeOK, logVars, heapVars

LEMMA ToOwBufTyped ==
    ASSUME TypeOK, NEW b \in Bank, NEW c \in Chunk, NEW data \in Content, NEW rest \in Seq(Frame),
           ToOwBuf(b, c, data, rest)
    PROVE  /\ owBuf' \in [Bank -> [Slot -> BufSlot]]
           /\ flash' \in [Bank \X Lbn \X Page -> [Slot -> Content]]
           /\ chunksMap' \in [Chunk -> Location]
           /\ owChunkPtr' \in [Bank -> Slot]
           /\ stk' \in Seq(Frame)
<1> DEFINE s == owChunkPtr[b]
           new == [lpn |-> c[1], idx |-> c[2], data |-> data]
<1>1. /\ owBuf' = [BufWithout(owBuf, {c}) EXCEPT ![b][s] = new]
      /\ flash' = FlashWithout({c})
      /\ chunksMap' = [chunksMap EXCEPT ![c] = <<"DRAMOwLog", b, s>>]
      /\ owChunkPtr' = [owChunkPtr EXCEPT ![b] = (s + 1) % ChunksPerPage]
      /\ stk' = IF s + 1 = ChunksPerPage
                THEN Append(rest, [op |-> "FlushOw", bank |-> b]) ELSE rest
  BY DEF ToOwBuf
<1>2. s \in Slot
  BY DEF TypeOK
<1>3. new \in BufSlot
  BY ContentParts DEF BufSlot
<1>4. /\ flash' \in [Bank \X Lbn \X Page -> [Slot -> Content]]
      /\ BufWithout(owBuf, {c}) \in [Bank -> [Slot -> BufSlot]]
  <2>1. owBuf \in [Bank -> [Slot -> BufSlot]]
    BY DEF TypeOK
  <2> QED
    BY <1>1, <2>1, WithoutTyped
<1>5. [op |-> "FlushOw", bank |-> b] \in Frame
  BY DEF Frame, FlushOwFrame
<1>6. stk' \in Seq(Frame)
  <2> HIDE DEF s
  <2> QED
    BY <1>1, <1>5
<1> HIDE DEF s, new
<1>7. owBuf' \in [Bank -> [Slot -> BufSlot]]
  BY <1>1, <1>2, <1>3, <1>4
<1>8. chunksMap' \in [Chunk -> Location]
  <2>1. <<"DRAMOwLog", b, s>> \in Location
    BY <1>2, LocationParts
  <2> QED
    BY <1>1, <2>1 DEF TypeOK
<1>9. owChunkPtr' \in [Bank -> Slot]
  BY <1>1, <1>2, NextSlot DEF TypeOK
<1> QED
  BY <1>4, <1>6, <1>7, <1>8, <1>9

LEMMA OwChunkNewTyped == TypeOK /\ OwChunkNew => TypeOK'
<1> SUFFICES ASSUME TypeOK, OwChunkNew PROVE TypeOK'
  OBVIOUS
<1> DEFINE c == PieceChunk
           d == NextBank
<1>0. Running("OwChunks") /\ Top.todo # << >>
  BY DEF OwChunkNew
<1>1. c \in Chunk /\ PieceData \in Content /\ AfterPiece \in Seq(Frame) /\ d \in Bank
      /\ {c} \in SUBSET ({Top.lpn} \X Slot)
  BY <1>0, PieceTyped, NextBankTyped
<1>2. /\ refBank' = d
      /\ OldCounts({c})
      /\ logBuf' = BufWithout(Unmapped(logBuf, {c}, "DRAMWLog"), {c})
      /\ ToOwBuf(d, c, PieceData, AfterPiece)
  BY DEF OwChunkNew
<1> HIDE DEF c, d
<1>3. /\ wValid' \in [Block -> Nat] /\ owValid' \in [Block -> Nat]
      /\ err' \in {"none", "valid chunks below 0"}
  BY <1>1, <1>2, OldCountsTyped
<1>4. logBuf' \in [Bank -> [Slot -> BufSlot]]
  <2>1. logBuf \in [Bank -> [Slot -> BufSlot]]
    BY DEF TypeOK
  <2>2. Unmapped(logBuf, {c}, "DRAMWLog") \in [Bank -> [Slot -> BufSlot]]
    BY <2>1, WithoutTyped
  <2> QED
    BY <1>2, <2>2, WithoutTyped
<1>5. /\ owBuf' \in [Bank -> [Slot -> BufSlot]]
      /\ flash' \in [Bank \X Lbn \X Page -> [Slot -> Content]]
      /\ chunksMap' \in [Chunk -> Location]
      /\ owChunkPtr' \in [Bank -> Slot]
      /\ stk' \in Seq(Frame)
  BY <1>1, <1>2, ToOwBufTyped
<1> QED
  BY <1>1, <1>2, <1>3, <1>4, <1>5 DEF OwChunkNew, TypeOK, logVars

LEMMA OwChunksDoneTyped == TypeOK /\ OwChunksDone => TypeOK'
<1> SUFFICES ASSUME TypeOK, OwChunksDone PROVE TypeOK'
  OBVIOUS
<1>1. stk' \in Seq(Frame)
  BY RunningFrame, StackParts DEF OwChunksDone
<1> QED
  BY <1>1 DEF OwChunksDone, TypeOK, flashVars, logVars, heapVars, bufVars

LEMMA OwExhaustedChunkTyped == TypeOK /\ OwExhaustedChunk => TypeOK'
<1> SUFFICES ASSUME TypeOK, OwExhaustedChunk PROVE TypeOK'
  OBVIOUS
<1> DEFINE c == PieceChunk
           d == NextBank
           inFlash == Where(c) \in FlashWLog \cup FlashOwLog
           data == IF Head(Top.todo).part /\ ~inFlash THEN Stale ELSE PieceData
           rest == At([Top EXCEPT !.todo = Tail(@), !.moved = @ + 1])
<1>0. Running("OwExhausted") /\ Top.todo # << >>
  BY DEF OwExhaustedChunk
<1>1. c \in Chunk /\ PieceData \in Content /\ rest \in Seq(Frame) /\ d \in Bank
  BY <1>0, PieceTyped, NextBankTyped
<1>2. /\ refBank' = d
      /\ logBuf' = BufWithout(logBuf, {c})
      /\ ToOwBuf(d, c, data, rest)
  BY DEF OwExhaustedChunk
<1>3. data \in Content
  BY <1>1, ContentParts
<1> HIDE DEF c, d, data, rest
<1>4. logBuf' \in [Bank -> [Slot -> BufSlot]]
  <2>1. logBuf \in [Bank -> [Slot -> BufSlot]]
    BY DEF TypeOK
  <2> QED
    BY <1>2, <2>1, WithoutTyped
<1>5. /\ owBuf' \in [Bank -> [Slot -> BufSlot]]
      /\ flash' \in [Bank \X Lbn \X Page -> [Slot -> Content]]
      /\ chunksMap' \in [Chunk -> Location]
      /\ owChunkPtr' \in [Bank -> Slot]
      /\ stk' \in Seq(Frame)
  BY <1>1, <1>2, <1>3, ToOwBufTyped
<1> QED
  BY <1>1, <1>2, <1>4, <1>5 DEF OwExhaustedChunk, TypeOK, logVars, heapVars

LEMMA OwExhaustedDoneTyped == TypeOK /\ OwExhaustedDone => TypeOK'
<1> SUFFICES ASSUME TypeOK, OwExhaustedDone PROVE TypeOK'
  OBVIOUS
<1> DEFINE x == <<Top.bank, Top.lbn>>
<1>0. Running("OwExhausted")
  BY DEF OwExhaustedDone
<1>1. Top \in OwExhaustedFrame
  BY <1>0, RunningFrame, FrameKinds
<1>2. x \in Block /\ Top.moved \in Nat
  BY <1>1 DEF OwExhaustedFrame, Block
<1>3. owValid' = [owValid EXCEPT ![x] = MinusN(@, Top.moved)]
  BY DEF OwExhaustedDone
<1>4. owValid' \in [Block -> Nat]
  <2>1. owValid \in [Block -> Nat]
    BY DEF TypeOK
  <2> HIDE DEF x
  <2>2. \A v, n \in Nat : (v - n) % 65536 \in Nat
    OBVIOUS
  <2>3. MinusN(owValid[x], Top.moved) \in Nat
    BY <1>2, <2>1, <2>2 DEF MinusN
  <2> QED
    BY <1>3, <2>1, <2>3
<1>5. stk' \in Seq(Frame)
  BY <1>0, RunningFrame, StackParts DEF OwExhaustedDone
<1>6. err' \in {"none", "valid chunks below 0"}
  BY DEF OwExhaustedDone, ErrUnless
<1> QED
  BY <1>4, <1>5, <1>6 DEF OwExhaustedDone, TypeOK, flashVars, logVars, bufVars

LEMMA OwPageTyped ==
    TypeOK /\ PagesInRange /\ OwPage => TypeOK' /\ \A y \in Bank : owCtrl'[y].page \in LowPage
<1> SUFFICES ASSUME TypeOK, PagesInRange, OwPage
             PROVE  TypeOK' /\ \A y \in Bank : owCtrl'[y].page \in LowPage
  OBVIOUS
<1> DEFINE b  == Top.bank
           l  == owCtrl[b].lbn
           q  == owCtrl[b].page
           n  == Top.lpn
           cs == {n} \X Slot
           x  == <<b, l, q>>
           list == Noted(owList[b], q, [s \in Slot |-> n])
<1>0. Running("OwPage") /\ l # NoBlk
  BY DEF OwPage
<1>1. b \in Bank /\ n \in Lpn
  BY <1>0, RunningFrame, FrameKinds DEF OwPageFrame
<1>2. l \in Lbn /\ q \in Page /\ owList[b] \in List
  BY <1>0, <1>1 DEF TypeOK, OWCtrl
<1>3. /\ flash' = [FlashWithout(cs) EXCEPT ![x] = [s \in Slot |-> <<n, s>>]]
      /\ owCounter' = [owCounter EXCEPT ![x] = @ + 1]
      /\ logBuf' = BufWithout(logBuf, cs)
      /\ owBuf' = BufWithout(owBuf, cs)
      /\ chunksMap' = [c \in Chunk |->
             IF c \in cs THEN <<"FlashOwLog", b, l, q, c[2]>> ELSE chunksMap[c]]
      /\ IncreaseOWLpn(b, list, Below)
  BY DEF OwPage
<1>4. /\ FlashWithout(cs) \in [Bank \X Lbn \X Page -> [Slot -> Content]]
      /\ logBuf' \in [Bank -> [Slot -> BufSlot]] /\ owBuf' \in [Bank -> [Slot -> BufSlot]]
  <2>1. logBuf \in [Bank -> [Slot -> BufSlot]] /\ owBuf \in [Bank -> [Slot -> BufSlot]]
    BY DEF TypeOK
  <2> QED
    BY <1>3, <2>1, WithoutTyped
<1>5. x \in Bank \X Lbn \X Page
  BY <1>1, <1>2
<1>6. owCounter' \in [Bank \X Lbn \X Page -> Nat]
  <2> HIDE DEF x
  <2> QED
    BY <1>3, <1>5, CounterTyped
<1>7. flash' \in [Bank \X Lbn \X Page -> [Slot -> Content]]
  <2>1. [s \in Slot |-> <<n, s>>] \in [Slot -> Content]
    BY <1>1, ContentParts
  <2> HIDE DEF x, cs
  <2> QED
    BY <1>3, <1>4, <2>1
<1>8. chunksMap' \in [Chunk -> Location]
  <2> HIDE DEF b, l, q, cs
  <2>1. \A c \in Chunk : <<"FlashOwLog", b, l, q, c[2]>> \in Location
    BY <1>1, <1>2, ContentParts, LocationParts
  <2> QED
    BY <1>3, <2>1 DEF TypeOK
<1>9. list \in List
  <2>1. [s \in Slot |-> n] \in [Slot -> LpnOrNone]
    BY <1>1, ContentParts
  <2> QED
    BY <1>2, <2>1, NotedTyped
<1>10. /\ flashList' \in [Bank \X Lbn \X {"W", "OW"} -> List]
       /\ owList' \in [Bank -> List]
       /\ owHeap' \in [Bank -> SUBSET Lbn]
       /\ owCtrl' \in [Bank -> OWCtrl]
       /\ \A y \in Bank : owCtrl'[y].page \in LowPage
       /\ stk' \in Seq(Frame)
  <2>1. owCtrl[b].lbn # NoBlk
    BY <1>0
  <2>2. Below \in Seq(Frame)
    BY <1>0, RunningFrame, StackParts
  <2> HIDE DEF b, list
  <2> QED
    BY <1>1, <1>3, <1>9, <2>1, <2>2, IncreaseOWLpnTyped
<1> QED
  BY <1>4, <1>6, <1>7, <1>8, <1>10 DEF OwPage, TypeOK

LEMMA FlushOwTyped ==
    TypeOK /\ PagesInRange /\ FlushOw => TypeOK' /\ \A y \in Bank : owCtrl'[y].page \in LowPage
<1> SUFFICES ASSUME TypeOK, PagesInRange, FlushOw
             PROVE  TypeOK' /\ \A y \in Bank : owCtrl'[y].page \in LowPage
  OBVIOUS
<1> DEFINE b == Top.bank
           l == owCtrl[b].lbn
           q == owCtrl[b].page
           x == <<b, l, q>>
           holes == Cardinality({s \in Slot : owBuf[b][s].lpn = NoLpn})
           from(c) == {s \in Slot : owBuf[b][s].lpn = c[1] /\ owBuf[b][s].idx = c[2]}
           list == Noted(owList[b], q, [s \in Slot |-> owBuf[b][s].lpn])
<1>0. Running("FlushOw") /\ l # NoBlk
  BY DEF FlushOw
<1>1. b \in Bank
  BY <1>0, RunningFrame, FrameKinds DEF FlushOwFrame
<1>2. l \in Lbn /\ q \in Page /\ owList[b] \in List
  BY <1>0, <1>1 DEF TypeOK, OWCtrl
<1>3. /\ flash' = [flash EXCEPT ![x] = [s \in Slot |-> owBuf[b][s].data]]
      /\ owCounter' = [owCounter EXCEPT ![x] = @ + 1]
      /\ chunksMap' = [c \in Chunk |->
             IF from(c) = {} THEN chunksMap[c] ELSE <<"FlashOwLog", b, l, q, Max(from(c))>>]
      /\ owValid' = [owValid EXCEPT ![<<b, l>>] = Max({@ - holes, 0})]
      /\ err' = ErrUnless(owValid[<<b, l>>] >= holes, "valid chunks below 0")
      /\ IncreaseOWLpn(b, list, Below)
  BY DEF FlushOw
<1>4. /\ [s \in Slot |-> owBuf[b][s].data] \in [Slot -> Content]
      /\ [s \in Slot |-> owBuf[b][s].lpn] \in [Slot -> LpnOrNone]
      /\ holes \in Nat
      /\ \A c : from(c) # {} => Max(from(c)) \in Slot
  <2>1. owBuf \in [Bank -> [Slot -> BufSlot]]
    BY DEF TypeOK
  <2> HIDE DEF b
  <2> QED
    BY <1>1, <2>1, FlushTyped
<1>5. flash' \in [Bank \X Lbn \X Page -> [Slot -> Content]]
  <2> HIDE DEF b, x
  <2> QED
    BY <1>3, <1>4 DEF TypeOK
<1>6. owCounter' \in [Bank \X Lbn \X Page -> Nat]
  <2>1. x \in Bank \X Lbn \X Page
    BY <1>1, <1>2
  <2> HIDE DEF x
  <2> QED
    BY <1>3, <2>1, CounterTyped
<1>7. chunksMap' \in [Chunk -> Location]
  <2> HIDE DEF b, l, q, from
  <2>1. \A c \in Chunk : from(c) # {} => <<"FlashOwLog", b, l, q, Max(from(c))>> \in Location
    BY <1>1, <1>2, <1>4, LocationParts
  <2> QED
    BY <1>3, <2>1 DEF TypeOK
<1>8. owValid' \in [Block -> Nat]
  <2>1. owValid[<<b, l>>] \in Nat
    BY <1>1, <1>2 DEF TypeOK, Block
  <2> HIDE DEF holes, b, l
  <2>2. owValid[<<b, l>>] - holes \in Int
    BY <1>4, <2>1
  <2>3. Max({owValid[<<b, l>>] - holes, 0}) \in Nat
    BY <2>2, MaxWith0
  <2> QED
    BY <1>3, <2>3 DEF TypeOK
<1>9. err' \in {"none", "valid chunks below 0"}
  BY <1>3 DEF ErrUnless
<1>10. list \in List
  BY <1>2, <1>4, NotedTyped
<1>11. /\ flashList' \in [Bank \X Lbn \X {"W", "OW"} -> List]
       /\ owList' \in [Bank -> List]
       /\ owHeap' \in [Bank -> SUBSET Lbn]
       /\ owCtrl' \in [Bank -> OWCtrl]
       /\ \A y \in Bank : owCtrl'[y].page \in LowPage
       /\ stk' \in Seq(Frame)
  <2>1. owCtrl[b].lbn # NoBlk
    BY <1>0
  <2>2. Below \in Seq(Frame)
    BY <1>0, RunningFrame, StackParts
  <2> HIDE DEF b, list
  <2> QED
    BY <1>1, <1>3, <1>10, <2>1, <2>2, IncreaseOWLpnTyped
<1> QED
  BY <1>5, <1>6, <1>7, <1>8, <1>9, <1>11 DEF FlushOw, TypeOK, bufVars

-----------------------------------------------------------------------------
LEMMA InitTyped == Init => TypeOK /\ PagesInRange
<1> SUFFICES ASSUME Init PROVE TypeOK /\ PagesInRange
  OBVIOUS
<1> USE Geometry
<1>1. chunksMap \in [Chunk -> Location]
  BY LocationParts DEF Init
<1>2. flash \in [Bank \X Lbn \X Page -> [Slot -> Content]]
  <2>1. [s \in Slot |-> Erased] \in [Slot -> Content]
    BY ContentParts
  <2> QED
    BY <2>1 DEF Init
<1>3. /\ flashList \in [Bank \X Lbn \X {"W", "OW"} -> List]
      /\ rwList \in [Bank -> List] /\ owList \in [Bank -> List]
  BY EmptyListTyped DEF Init
<1>4. owCounter \in [Bank \X Lbn \X Page -> Nat]
  BY DEF Init
<1>5. /\ rwCtrl \in [Bank -> RWCtrl] /\ owCtrl \in [Bank -> OWCtrl]
      /\ PagesInRange
  BY DEF Init, RWCtrl, OWCtrl, PagesInRange
<1>6. clean \in [Bank -> Seq(Lbn)]
  <2>1. \A i \in 1 .. LogBlks : i - 1 \in Lbn
    BY DEF Lbn
  <2>2. [i \in 1 .. LogBlks |-> i - 1] \in [1 .. LogBlks -> Lbn]
    BY <2>1
  <2>3. [i \in 1 .. LogBlks |-> i - 1] \in Seq(Lbn)
    BY <2>2, SeqDef
  <2> QED
    BY <2>3 DEF Init
<1>7. wValid \in [Block -> Nat] /\ owValid \in [Block -> Nat]
  BY DEF Init
<1>8. wHeap \in [Bank -> SUBSET Lbn] /\ owHeap \in [Bank -> SUBSET Lbn]
  BY DEF Init
<1>9. logBuf \in [Bank -> [Slot -> BufSlot]] /\ owBuf \in [Bank -> [Slot -> BufSlot]]
  <2>1. [lpn |-> NoLpn, idx |-> 0, data |-> Stale] \in BufSlot
    BY ContentParts DEF BufSlot
  <2>2. [s \in Slot |-> [lpn |-> NoLpn, idx |-> 0, data |-> Stale]] \in [Slot -> BufSlot]
    BY <2>1
  <2> QED
    BY <2>2, Zenon DEF Init
<1>10. /\ chunkPtr \in [Bank -> Slot] /\ owChunkPtr \in [Bank -> Slot]
       /\ gcNest \in [Bank -> Int] /\ refBank \in Bank
       /\ stk \in Seq(Frame) /\ err = "none" /\ written \in [Chunk -> BOOLEAN]
  BY DEF Init
<1> QED
  BY <1>1, <1>2, <1>3, <1>4, <1>5, <1>6, <1>7, <1>8, <1>9, <1>10 DEF TypeOK

(* Who moves RWCtrl: only the functions of log.c. *)
LEMMA RWPageInRange ==
    ASSUME TypeOK, PagesInRange, NEW b \in Bank, NEW list, NEW lists, NEW callers,
           rwCtrl[b].lbn # NoBlk, IncreaseRWLpn(b, list, lists, callers)
    PROVE  \A x \in Bank : rwCtrl'[x].isOw => rwCtrl'[x].page % 2 = 0
<1>1. CASE rwCtrl[b].page = LastPage
  BY <1>1 DEF IncreaseRWLpn, PagesInRange
<1>2. CASE rwCtrl[b].page # LastPage
  <2>1. rwCtrl' = [rwCtrl EXCEPT ![b].page = @ + IF rwCtrl[b].isOw THEN 2 ELSE 1]
    BY <1>2, Zenon DEF IncreaseRWLpn
  <2>2. rwCtrl[b].page \in Nat /\ rwCtrl \in [Bank -> RWCtrl]
    BY Geometry DEF TypeOK, RWCtrl
  <2>3. rwCtrl[b].isOw => (rwCtrl[b].page + 2) % 2 = 0
    BY <2>2 DEF PagesInRange
  <2>4. ASSUME NEW x \in Bank PROVE rwCtrl'[x].isOw => rwCtrl'[x].page % 2 = 0
    <3>1. CASE x = b
      <4>1. rwCtrl'[b] = [rwCtrl[b] EXCEPT !.page = @ + IF rwCtrl[b].isOw THEN 2 ELSE 1]
        BY <2>1, <2>2
      <4>2. rwCtrl[b] \in RWCtrl
        BY <2>2
      <4> QED
        BY <2>3, <3>1, <4>1, <4>2 DEF RWCtrl
    <3>2. CASE x # b
      BY <2>1, <2>2, <3>2 DEF PagesInRange
    <3> QED
      BY <3>1, <3>2
  <2> QED
    BY <2>4
<1> QED
  BY <1>1, <1>2

LEMMA TypesStep == TypeOK /\ PagesInRange /\ [Next]_vars => TypeOK' /\ PagesInRange'
<1> SUFFICES ASSUME TypeOK, PagesInRange, [Next]_vars PROVE TypeOK' /\ PagesInRange'
  OBVIOUS
<1> DEFINE RWSame == UNCHANGED rwCtrl
           OWSame == UNCHANGED owCtrl
<1>1. RWSame /\ OWSame => PagesInRange'
  BY DEF PagesInRange
<1>2. ASSUME LogNext PROVE TypeOK' /\ PagesInRange'
  <2>1. CASE GetRWLpn
    BY <1>1, <2>1, GetRWLpnTyped DEF GetRWLpn, logVars
  <2>2. CASE AllocRwPop
    <3>1. PagesInRange'
      BY <2>2 DEF AllocRwPop, FreshRw, PagesInRange, TypeOK
    <3> QED
      BY <2>2, <3>1, AllocRwPopTyped
  <2>3. CASE SealOWBlk
    <3>1. PICK l : rwCtrl' = [rwCtrl EXCEPT ![Top.bank] = [lbn |-> l, page |-> 2, isOw |-> TRUE]]
      BY <2>3, Zenon DEF SealOWBlk
    <3>2. PagesInRange'
      <4>1. owCtrl' = owCtrl /\ rwCtrl \in [Bank -> RWCtrl]
        BY <2>3 DEF SealOWBlk, TypeOK
      <4> QED
        BY <3>1, <4>1 DEF PagesInRange
    <3> QED
      BY <2>3, <3>2, SealOWBlkTyped
  <2>4. CASE AllocRwGc
    <3>1. PagesInRange'
      BY <2>4 DEF AllocRwGc, FreshRw, PagesInRange, TypeOK
    <3> QED
      BY <2>4, <3>1, AllocRwGcTyped
  <2>5. CASE AllocRwHang
    BY <1>1, <2>5, AllocRwHangTyped DEF AllocRwHang, Hang, logVars
  <2>6. CASE CheckSpace
    BY <1>1, <2>6, CheckSpaceTyped DEF CheckSpace, logVars
  <2>7. CASE GetOWLpn
    BY <1>1, <2>7, GetOWLpnTyped DEF GetOWLpn, logVars
  <2>8. CASE AllocOwPop
    <3>1. PagesInRange'
      BY <2>8, Geometry DEF AllocOwPop, PagesInRange, TypeOK
    <3> QED
      BY <2>8, <3>1, AllocOwPopTyped
  <2>9. CASE AllocOwGc
    BY <1>1, <2>9, AllocOwGcTyped DEF AllocOwGc, Hang, logVars
  <2> QED
    BY <1>2, <2>1, <2>2, <2>3, <2>4, <2>5, <2>6, <2>7, <2>8, <2>9 DEF LogNext
<1>3. ASSUME GcNext PROVE TypeOK' /\ PagesInRange'
  <2>1. CASE GcStartHang
    BY <1>1, <2>1, GcStartHangTyped DEF GcStartHang, Hang, logVars
  <2>2. CASE GcStart
    BY <1>1, <2>2, GcStartTyped DEF GcStart, logVars
  <2>3. CASE GcEnd
    BY <1>1, <2>3, GcEndTyped DEF GcEnd
  <2>4. CASE GcFullPage
    BY <1>1, <2>4, GcFullPageTyped DEF GcFullPage, logVars
  <2>5. CASE GcCopyPage
    <3>1. Top.bank \in Bank
      BY <2>5, RunningFrame, FrameKinds DEF GcCopyPage, GcCopyFrame
    <3>2. \A x \in Bank : rwCtrl'[x].isOw => rwCtrl'[x].page % 2 = 0
      BY <2>5, <3>1, RWPageInRange DEF GcCopyPage
    <3>3. PagesInRange'
      BY <2>5, <3>2 DEF GcCopyPage, PagesInRange
    <3> QED
      BY <2>5, <3>3, GcCopyPageTyped
  <2>6. CASE GcPartialPage
    BY <1>1, <2>6, GcPartialPageTyped DEF GcPartialPage
  <2>7. CASE GcWriteChunk
    BY <1>1, <2>7, GcWriteChunkTyped DEF GcWriteChunk, logVars
  <2>8. CASE GcPageDone
    BY <1>1, <2>8, GcPageDoneTyped DEF GcPageDone, logVars
  <2>9. CASE FlushW
    <3>1. Top.bank \in Bank
      <4>1. Running("FlushW")
        BY <2>9 DEF FlushW
      <4> QED
        BY <4>1, RunningFrame, FrameKinds DEF FlushWFrame
    <3>2. \A x \in Bank : rwCtrl'[x].isOw => rwCtrl'[x].page % 2 = 0
      BY <2>9, <3>1, RWPageInRange DEF FlushW
    <3>3. PagesInRange'
      BY <2>9, <3>2 DEF FlushW, PagesInRange
    <3> QED
      BY <2>9, <3>3, FlushWTyped
  <2> QED
    BY <1>3, <2>1, <2>2, <2>3, <2>4, <2>5, <2>6, <2>7, <2>8, <2>9 DEF GcNext
<1>4. ASSUME WriteStep PROVE TypeOK' /\ PagesInRange'
  <2>1. CASE WritePage
    <3>1. Top.bank \in Bank
      BY <2>1, RunningFrame, FrameKinds DEF WritePage, WritePageFrame
    <3>2. \A x \in Bank : rwCtrl'[x].isOw => rwCtrl'[x].page % 2 = 0
      BY <2>1, <3>1, RWPageInRange DEF WritePage
    <3>3. PagesInRange'
      BY <2>1, <3>2 DEF WritePage, PagesInRange
    <3> QED
      BY <2>1, <3>3, WritePageTyped
  <2>2. CASE WriteChunkInPlace
    BY <1>1, <2>2, WriteChunkInPlaceTyped DEF WriteChunkInPlace, logVars
  <2>3. CASE WriteChunk
    BY <1>1, <2>3, WriteChunkTyped DEF WriteChunk, logVars
  <2>4. CASE WriteChunksDone
    BY <1>1, <2>4, WriteChunksDoneTyped DEF WriteChunksDone, logVars
  <2>5. CASE CleanGc
    BY <1>1, <2>5, CleanGcTyped DEF CleanGc, logVars
  <2>6. CASE CleanDone
    BY <1>1, <2>6, CleanDoneTyped DEF CleanDone, logVars
  <2> QED
    BY <1>4, <2>1, <2>2, <2>3, <2>4, <2>5, <2>6 DEF WriteStep
<1>5. ASSUME OverwriteStep PROVE TypeOK' /\ PagesInRange'
  <2>1. CASE OwChunkInBuf
    BY <1>1, <2>1, OwChunkInBufTyped DEF OwChunkInBuf, logVars
  <2>2. CASE OwChunkInPlace
    BY <1>1, <2>2, OwChunkInPlaceTyped DEF OwChunkInPlace, logVars
  <2>3. CASE OwChunkNew
    BY <1>1, <2>3, OwChunkNewTyped DEF OwChunkNew, logVars
  <2>4. CASE OwChunksDone
    BY <1>1, <2>4, OwChunksDoneTyped DEF OwChunksDone, logVars
  <2>5. CASE OwExhaustedChunk
    BY <1>1, <2>5, OwExhaustedChunkTyped DEF OwExhaustedChunk, logVars
  <2>6. CASE OwExhaustedDone
    BY <1>1, <2>6, OwExhaustedDoneTyped DEF OwExhaustedDone, logVars
  <2>7. CASE OwPage
    <3>1. PagesInRange'
      BY <2>7, OwPageTyped DEF OwPage, PagesInRange
    <3> QED
      BY <2>7, <3>1, OwPageTyped
  <2>8. CASE FlushOw
    <3>1. PagesInRange'
      BY <2>8, FlushOwTyped DEF FlushOw, PagesInRange
    <3> QED
      BY <2>8, <3>1, FlushOwTyped
  <2> QED
    BY <1>5, <2>1, <2>2, <2>3, <2>4, <2>5, <2>6, <2>7, <2>8 DEF OverwriteStep
<1>6. ASSUME NEW lpn \in Lpn, NEW r \in Requests,
             \/ TrimRequest(lpn, r.pieces)
             \/ WritePageRequest(lpn, r.pieces)
             \/ WriteChunksRequest(lpn, r.pieces)
             \/ OverwriteInPlace(lpn, r.pieces)
             \/ OverwritePageRequest(lpn, r.pieces)
             \/ OverwriteExhaustedRequest(lpn, r.pieces)
             \/ OverwriteChunksRequest(lpn, r.pieces)
      PROVE  TypeOK' /\ PagesInRange'
  <2>1. RWSame /\ OWSame
    BY <1>6 DEF TrimRequest, WritePageRequest, WriteChunksRequest, OverwriteInPlace,
       OverwritePageRequest, OverwriteExhaustedRequest, OverwriteChunksRequest, logVars
  <2>2. TypeOK'
    BY <1>6, RequestParts, TrimRequestTyped, WritePageRequestTyped, WriteChunksRequestTyped,
       OverwriteInPlaceTyped, OverwritePageRequestTyped, OverwriteExhaustedRequestTyped,
       OverwriteChunksRequestTyped
  <2> QED
    BY <1>1, <2>1, <2>2
<1>7. CASE UNCHANGED vars
  BY <1>7 DEF TypeOK, PagesInRange, vars, flashVars, logVars, heapVars, bufVars
<1> QED
  BY <1>2, <1>3, <1>4, <1>5, <1>6, <1>7 DEF Next, WriteNext, OverwriteNext

LEMMA TypesInvariant == Spec => [](TypeOK /\ PagesInRange)
<1>1. Init => TypeOK /\ PagesInRange
  BY InitTyped
<1>2. (TypeOK /\ PagesInRange) /\ [Next]_vars => (TypeOK /\ PagesInRange)'
  BY TypesStep
<1> QED
  BY <1>1, <1>2, PTL DEF Spec

(* Every variable of the translation layer keeps to its type: for any      *)
(* geometry and any set of requests.                                       *)
THEOREM TypeCorrect == Spec => []TypeOK
  BY TypesInvariant, PTL

-----------------------------------------------------------------------------
(* Every block has one use.                                                *)

(* Frame f holds a victim that is not erased yet: block l of bank b. *)
VictimIs(f, b, l) ==
    /\ f.op \in {"GcScan", "GcCopy"} \/ (f.op = "GcChunks" /\ f.found # f.job.expected)
    /\ f.job.bank = b /\ f.job.lbn = l

HoldsVictim(s, b, l) == \E i \in DOMAIN s : VictimIs(s[i], b, l)
AllocatesW(s, b)  == \E i \in DOMAIN s : s[i].op = "AllocRw" /\ s[i].bank = b
AllocatesOw(s, b) == \E i \in DOMAIN s : s[i].op = "AllocOw" /\ s[i].bank = b

(* What runs while an OW block is being looked for: a collection and what  *)
(* it needs to write its chunks.                                           *)
GcOps == {"Gc", "GcScan", "GcCopy", "GcChunks", "FlushW", "AllocRw", "CheckSpace"}

(* The order of the stack: a bank gets its W block in one go, and only a   *)
(* collection runs on top of the search for an OW block, so that there is  *)
(* one such search.                                                        *)
Ordered(s) == \A i, j \in DOMAIN s : i < j =>
    /\ s[i].op # "AllocRw"
    /\ s[i].op = "AllocOw" => s[j].op \in GcOps

(* Two collections have two victims. *)
VictimsDiffer(s) == \A i, j \in DOMAIN s, b \in Bank, l \in Lbn :
    VictimIs(s[i], b, l) /\ VictimIs(s[j], b, l) => i = j

InClean(b, l) == \E i \in DOMAIN clean[b] : clean[b][i] = l

(* The six uses, of which a block has one. *)
ExactlyOne(c, w, o, wh, oh, v) ==
    /\ c \/ w \/ o \/ wh \/ oh \/ v
    /\ c  => ~w /\ ~o /\ ~wh /\ ~oh /\ ~v
    /\ w  => ~o /\ ~wh /\ ~oh /\ ~v
    /\ o  => ~wh /\ ~oh /\ ~v
    /\ wh => ~oh /\ ~v
    /\ oh => ~v

UseInv ==
    /\ Ordered(stk)
    /\ VictimsDiffer(stk)
    /\ \A b \in Bank : AllocatesOw(stk, b) => owCtrl[b].lbn = NoBlk
    /\ \A b \in Bank : \A i, j \in DOMAIN clean[b] : clean[b][i] = clean[b][j] => i = j
    /\ \A b \in Bank, l \in Lbn :
          ExactlyOne(InClean(b, l), rwCtrl[b].lbn = l /\ ~AllocatesW(stk, b), owCtrl[b].lbn = l,
                     l \in wHeap[b], l \in owHeap[b], HoldsVictim(stk, b, l))

(* The stack s when a frame is put on it. *)
NoW(s)      == \A i \in DOMAIN s : s[i].op # "AllocRw"
OwSearch(s) == \E i \in DOMAIN s : s[i].op = "AllocOw"

LEMMA Push ==
    ASSUME NEW s \in Seq(Frame), NEW f \in Frame
    PROVE  LET t == Append(s, f)
           IN  /\ \A b, l : HoldsVictim(t, b, l) <=> HoldsVictim(s, b, l) \/ VictimIs(f, b, l)
               /\ \A b : AllocatesW(t, b) <=> AllocatesW(s, b) \/ (f.op = "AllocRw" /\ f.bank = b)
               /\ \A b : AllocatesOw(t, b) <=> AllocatesOw(s, b) \/ (f.op = "AllocOw" /\ f.bank = b)
               /\ Ordered(t) <=> Ordered(s) /\ NoW(s) /\ (OwSearch(s) => f.op \in GcOps)
               /\ VictimsDiffer(t) <=>
                     /\ VictimsDiffer(s)
                     /\ \A b \in Bank, l \in Lbn : ~ (HoldsVictim(s, b, l) /\ VictimIs(f, b, l))
<1> DEFINE t == Append(s, f)
           n == Len(s)
<1>1. /\ n \in Nat /\ DOMAIN s = 1 .. n /\ DOMAIN t = 1 .. n + 1
      /\ \A i \in 1 .. n : t[i] = s[i]
      /\ t[n + 1] = f
  OBVIOUS
<1> HIDE DEF t, n
<1>2. \A i \in 1 .. n + 1 : i \in 1 .. n \/ i = n + 1
  BY <1>1
<1>3. \A b, l : HoldsVictim(t, b, l) <=> HoldsVictim(s, b, l) \/ VictimIs(f, b, l)
  BY <1>1, <1>2, SMTT(30) DEF HoldsVictim
<1>4. \A b : AllocatesW(t, b) <=> AllocatesW(s, b) \/ (f.op = "AllocRw" /\ f.bank = b)
  BY <1>1, <1>2 DEF AllocatesW
<1>5. \A b : AllocatesOw(t, b) <=> AllocatesOw(s, b) \/ (f.op = "AllocOw" /\ f.bank = b)
  BY <1>1, <1>2 DEF AllocatesOw
<1>6. Ordered(t) <=> Ordered(s) /\ NoW(s) /\ (OwSearch(s) => f.op \in GcOps)
  BY <1>1, <1>2 DEF Ordered, NoW, OwSearch
<1>7. VictimsDiffer(t) <=> /\ VictimsDiffer(s)
                           /\ \A b \in Bank, l \in Lbn : ~ (HoldsVictim(s, b, l) /\ VictimIs(f, b, l))
  <2>1. VictimsDiffer(t) => VictimsDiffer(s)
    BY <1>1, <1>2 DEF VictimsDiffer
  <2>2. VictimsDiffer(t) => \A b \in Bank, l \in Lbn : ~ (HoldsVictim(s, b, l) /\ VictimIs(f, b, l))
    BY <1>1, <1>2 DEF VictimsDiffer, HoldsVictim
  <2>3. ASSUME VictimsDiffer(s),
               \A b \in Bank, l \in Lbn : ~ (HoldsVictim(s, b, l) /\ VictimIs(f, b, l))
        PROVE  VictimsDiffer(t)
    BY <1>1, <1>2, <2>3 DEF VictimsDiffer, HoldsVictim
  <2> QED
    BY <2>1, <2>2, <2>3
<1> QED
  BY <1>3, <1>4, <1>5, <1>6, <1>7 DEF t

LEMMA EmptyStack ==
    /\ Ordered(<< >>) /\ VictimsDiffer(<< >>) /\ NoW(<< >>) /\ ~ OwSearch(<< >>)
    /\ \A b, l : ~ HoldsVictim(<< >>, b, l)
    /\ \A b : ~ AllocatesW(<< >>, b) /\ ~ AllocatesOw(<< >>, b)
  BY DEF Ordered, VictimsDiffer, NoW, OwSearch, HoldsVictim, AllocatesW, AllocatesOw

LEMMA NoWAllocates ==
    ASSUME NEW s
    PROVE  /\ NoW(s) => \A b : ~ AllocatesW(s, b)
           /\ ~ OwSearch(s) => \A b : ~ AllocatesOw(s, b)
  BY DEF NoW, AllocatesW, OwSearch, AllocatesOw

(* What holds of the callers of the top function. *)
LEMMA CallersOrdered ==
    ASSUME stk \in Seq(Frame), Len(stk) > 0, Ordered(stk), VictimsDiffer(stk)
    PROVE  /\ Below \in Seq(Frame) /\ Top \in Frame
           /\ Ordered(Below) /\ VictimsDiffer(Below) /\ NoW(Below)
           /\ OwSearch(Below) => Top.op \in GcOps
           /\ \A b : ~ AllocatesW(Below, b)
           /\ \A b : AllocatesW(stk, b) <=> Top.op = "AllocRw" /\ Top.bank = b
           /\ \A b : AllocatesOw(stk, b) <=> AllocatesOw(Below, b) \/ (Top.op = "AllocOw" /\ Top.bank = b)
           /\ \A b, l : HoldsVictim(stk, b, l) <=> HoldsVictim(Below, b, l) \/ VictimIs(Top, b, l)
           /\ \A b \in Bank, l \in Lbn : ~ (HoldsVictim(Below, b, l) /\ VictimIs(Top, b, l))
<1>1. Below \in Seq(Frame) /\ Top \in Frame /\ stk = Append(Below, Top)
  BY StackParts
<1>2. /\ \A b, l : HoldsVictim(stk, b, l) <=> HoldsVictim(Below, b, l) \/ VictimIs(Top, b, l)
      /\ \A b : AllocatesW(stk, b) <=> AllocatesW(Below, b) \/ (Top.op = "AllocRw" /\ Top.bank = b)
      /\ \A b : AllocatesOw(stk, b) <=> AllocatesOw(Below, b) \/ (Top.op = "AllocOw" /\ Top.bank = b)
      /\ Ordered(Below) /\ NoW(Below) /\ (OwSearch(Below) => Top.op \in GcOps)
      /\ VictimsDiffer(Below)
      /\ \A b \in Bank, l \in Lbn : ~ (HoldsVictim(Below, b, l) /\ VictimIs(Top, b, l))
  BY <1>1, Push
<1> QED
  BY <1>1, <1>2, NoWAllocates

(* A step that leaves blocks where they are: the stack it leaves. *)
StackQuiet ==
    /\ Ordered(stk') /\ VictimsDiffer(stk')
    /\ \A b \in Bank, l \in Lbn : HoldsVictim(stk', b, l) <=> HoldsVictim(stk, b, l)
    /\ \A b \in Bank : rwCtrl[b].lbn # NoBlk => (AllocatesW(stk', b) <=> AllocatesW(stk, b))
    /\ \A b \in Bank : AllocatesOw(stk', b) => owCtrl[b].lbn = NoBlk

LEMMA QuietStep ==
    ASSUME TypeOK, UseInv, StackQuiet, UNCHANGED <<clean, wHeap, owHeap>>,
           \A b \in Bank : rwCtrl'[b].lbn = rwCtrl[b].lbn /\ owCtrl'[b].lbn = owCtrl[b].lbn
    PROVE  UseInv'
<1>1. \A l \in Lbn : l # NoBlk
  BY DEF Lbn, NoBlk
<1>2. ASSUME NEW b \in Bank, NEW l \in Lbn
      PROVE  /\ (rwCtrl[b].lbn = l /\ ~AllocatesW(stk, b))' <=> rwCtrl[b].lbn = l /\ ~AllocatesW(stk, b)
             /\ HoldsVictim(stk, b, l)' <=> HoldsVictim(stk, b, l)
             /\ InClean(b, l)' <=> InClean(b, l)
  BY <1>1 DEF StackQuiet, InClean
<1>3. ASSUME NEW b \in Bank, NEW l \in Lbn
      PROVE  ExactlyOne(InClean(b, l), rwCtrl[b].lbn = l /\ ~AllocatesW(stk, b), owCtrl[b].lbn = l,
                        l \in wHeap[b], l \in owHeap[b], HoldsVictim(stk, b, l))'
  BY <1>2 DEF UseInv, ExactlyOne
<1>4. /\ Ordered(stk') /\ VictimsDiffer(stk')
      /\ \A b \in Bank : AllocatesOw(stk', b) => owCtrl'[b].lbn = NoBlk
      /\ \A b \in Bank : \A i, j \in DOMAIN clean'[b] : clean'[b][i] = clean'[b][j] => i = j
  BY DEF StackQuiet, UseInv
<1> QED
  BY <1>3, <1>4 DEF UseInv

(* The three ways a step leaves the stack. *)
LEMMA Replaced ==
    ASSUME TypeOK, UseInv, Len(stk) > 0, NEW f \in Frame, stk' = At(f),
           Top.op \notin {"AllocRw", "AllocOw"}, f.op \notin {"AllocRw", "AllocOw"},
           Top.op \in GcOps => f.op \in GcOps,
           \A b \in Bank, l \in Lbn : VictimIs(f, b, l) <=> VictimIs(Top, b, l)
    PROVE  StackQuiet
<1>1. stk \in Seq(Frame) /\ Ordered(stk) /\ VictimsDiffer(stk)
      /\ \A b \in Bank : AllocatesOw(stk, b) => owCtrl[b].lbn = NoBlk
  BY DEF TypeOK, UseInv
<1>2. Below \in Seq(Frame) /\ stk' = Append(Below, f)
  BY <1>1, StackParts DEF At
<1> QED
  BY <1>1, <1>2, CallersOrdered, Push DEF StackQuiet

LEMMA Returned ==
    ASSUME TypeOK, UseInv, Len(stk) > 0, stk' = Below, Top.op # "AllocRw",
           \A b \in Bank, l \in Lbn : ~ VictimIs(Top, b, l)
    PROVE  StackQuiet
<1>1. stk \in Seq(Frame) /\ Ordered(stk) /\ VictimsDiffer(stk)
      /\ \A b \in Bank : AllocatesOw(stk, b) => owCtrl[b].lbn = NoBlk
  BY DEF TypeOK, UseInv
<1> QED
  BY <1>1, CallersOrdered DEF StackQuiet

LEMMA Called ==
    ASSUME TypeOK, UseInv, Len(stk) > 0, NEW f \in Frame, NEW g \in Frame,
           stk' = Append(At(f), g),
           Top.op # "AllocRw", f.op # "AllocRw",
           f.op = "AllocOw" => Top.op = "AllocOw" /\ f.bank = Top.bank /\ g.op \in GcOps,
           Top.op \in GcOps => f.op \in GcOps /\ g.op \in GcOps,
           \A b \in Bank, l \in Lbn : VictimIs(f, b, l) <=> VictimIs(Top, b, l),
           \A b \in Bank, l \in Lbn : ~ VictimIs(g, b, l),
           g.op = "AllocRw" => g.bank \in Bank /\ rwCtrl[g.bank].lbn = NoBlk,
           g.op = "AllocOw" => g.bank \in Bank /\ owCtrl[g.bank].lbn = NoBlk
    PROVE  StackQuiet
<1>1. stk \in Seq(Frame) /\ Ordered(stk) /\ VictimsDiffer(stk)
      /\ \A b \in Bank : AllocatesOw(stk, b) => owCtrl[b].lbn = NoBlk
  BY DEF TypeOK, UseInv
<1>2. Below \in Seq(Frame) /\ stk' = Append(Append(Below, f), g) /\ Append(Below, f) \in Seq(Frame)
  BY <1>1, StackParts DEF At
<1> DEFINE t == Append(Below, f)
<1>3. /\ \A b, l : HoldsVictim(t, b, l) <=> HoldsVictim(Below, b, l) \/ VictimIs(f, b, l)
      /\ \A b : ~ AllocatesW(t, b)
      /\ \A b : AllocatesOw(t, b) <=> AllocatesOw(Below, b) \/ (f.op = "AllocOw" /\ f.bank = b)
      /\ Ordered(t)
      /\ VictimsDiffer(t)
  <2> HIDE DEF t
  <2>1. /\ \A b, l : HoldsVictim(t, b, l) <=> HoldsVictim(Below, b, l) \/ VictimIs(f, b, l)
        /\ \A b : AllocatesW(t, b) <=> AllocatesW(Below, b) \/ (f.op = "AllocRw" /\ f.bank = b)
        /\ \A b : AllocatesOw(t, b) <=> AllocatesOw(Below, b) \/ (f.op = "AllocOw" /\ f.bank = b)
        /\ Ordered(t) <=> Ordered(Below) /\ NoW(Below) /\ (OwSearch(Below) => f.op \in GcOps)
        /\ VictimsDiffer(t) <=>
              /\ VictimsDiffer(Below)
              /\ \A b \in Bank, l \in Lbn : ~ (HoldsVictim(Below, b, l) /\ VictimIs(f, b, l))
    BY <1>2, Push DEF t
  <2> QED
    BY <1>1, <2>1, CallersOrdered
<1>4. NoW(t) /\ (OwSearch(t) => OwSearch(Below) \/ f.op = "AllocOw")
  <2>1. NoW(Below)
    BY <1>1, CallersOrdered
  <2> QED
    BY <1>2, <2>1 DEF NoW, OwSearch
<1>5. OwSearch(t) => g.op \in GcOps
  BY <1>1, <1>4, CallersOrdered
<1> HIDE DEF t
<1>6. /\ \A b, l : HoldsVictim(stk', b, l) <=> HoldsVictim(t, b, l) \/ VictimIs(g, b, l)
      /\ \A b : AllocatesW(stk', b) <=> (g.op = "AllocRw" /\ g.bank = b)
      /\ \A b : AllocatesOw(stk', b) <=> AllocatesOw(t, b) \/ (g.op = "AllocOw" /\ g.bank = b)
      /\ Ordered(stk') /\ VictimsDiffer(stk')
  <2>1. stk' = Append(t, g) /\ t \in Seq(Frame)
    BY <1>2 DEF t
  <2> QED
    BY <1>3, <1>4, <1>5, <2>1, Push
<1> QED
  BY <1>1, <1>3, <1>6, CallersOrdered DEF StackQuiet

LEMMA Requested ==
    ASSUME TypeOK, UseInv, stk = << >>, NEW f \in Frame,
           stk' \in {<<StartClean>>, <<StartClean, f>>},
           f.op \in {"WritePage", "WriteChunks", "OwPage", "OwChunks", "OwExhausted"}
    PROVE  StackQuiet
<1> DEFINE s == <<StartClean>>
<1>1. s \in Seq(Frame) /\ StartClean \in Frame /\ s = Append(<< >>, StartClean)
      /\ <<StartClean, f>> = Append(s, f) /\ << >> \in Seq(Frame)
  BY StartCleanTyped
<1>2. \A b, l : ~ VictimIs(StartClean, b, l) /\ ~ VictimIs(f, b, l)
  BY DEF VictimIs, StartClean
<1>3. StartClean.op = "Clean"
  BY DEF StartClean
<1>4. /\ Ordered(s) /\ VictimsDiffer(s) /\ NoW(s) /\ ~ OwSearch(s)
      /\ \A b, l : ~ HoldsVictim(s, b, l)
      /\ \A b : ~ AllocatesW(s, b) /\ ~ AllocatesOw(s, b)
  <2>1. NoW(s) /\ ~ OwSearch(s)
    BY <1>3 DEF NoW, OwSearch
  <2>2. \A b : ~ AllocatesW(s, b) /\ ~ AllocatesOw(s, b)
    BY <2>1, NoWAllocates
  <2>3. \A b, l : ~ HoldsVictim(s, b, l)
    BY <1>2 DEF HoldsVictim
  <2>4. Ordered(s) /\ VictimsDiffer(s)
    BY DEF Ordered, VictimsDiffer
  <2> QED
    BY <2>1, <2>2, <2>3, <2>4
<1>5. \A b, l : ~ HoldsVictim(stk, b, l) /\ ~ AllocatesW(stk, b)
  BY EmptyStack
<1> HIDE DEF s
<1>6. CASE stk' = <<StartClean>>
  BY <1>4, <1>5, <1>6 DEF StackQuiet, s
<1>7. CASE stk' = <<StartClean, f>>
  <2>1. /\ Ordered(stk') /\ VictimsDiffer(stk')
        /\ \A b, l : ~ HoldsVictim(stk', b, l)
        /\ \A b : ~ AllocatesW(stk', b) /\ ~ AllocatesOw(stk', b)
    <3>1. stk' = Append(s, f)
      BY <1>1, <1>7
    <3>2. f.op # "AllocRw" /\ f.op # "AllocOw"
      OBVIOUS
    <3> DEFINE t == Append(s, f)
    <3>3. /\ \A b, l : HoldsVictim(t, b, l) <=> HoldsVictim(s, b, l) \/ VictimIs(f, b, l)
          /\ \A b : AllocatesW(t, b) <=> AllocatesW(s, b) \/ (f.op = "AllocRw" /\ f.bank = b)
          /\ \A b : AllocatesOw(t, b) <=> AllocatesOw(s, b) \/ (f.op = "AllocOw" /\ f.bank = b)
          /\ Ordered(t) <=> Ordered(s) /\ NoW(s) /\ (OwSearch(s) => f.op \in GcOps)
          /\ VictimsDiffer(t) <=>
                /\ VictimsDiffer(s)
                /\ \A b \in Bank, l \in Lbn : ~ (HoldsVictim(s, b, l) /\ VictimIs(f, b, l))
      BY <1>1, Push
    <3> HIDE DEF t
    <3>4. stk' = t
      BY <3>1 DEF t
    <3> QED
      BY <1>2, <1>4, <3>2, <3>3, <3>4
  <2> QED
    BY <1>5, <2>1 DEF StackQuiet
<1> QED
  BY <1>6, <1>7

(* Only collections have victims. *)
LEMMA NoVictimIn ==
    ASSUME NEW f, f.op \notin {"GcScan", "GcCopy", "GcChunks"}
    PROVE  \A b, l : ~ VictimIs(f, b, l)
  BY DEF VictimIs

LEMMA QuietVars ==
    ASSUME TypeOK, UseInv, StackQuiet, UNCHANGED logVars, UNCHANGED wHeap, UNCHANGED owHeap
    PROVE  UseInv'
  BY QuietStep DEF logVars

LEMMA HangUse == ASSUME UseInv, NEW why, Hang(why) PROVE UseInv'
  BY ZenonT(30) DEF Hang, UseInv, logVars, heapVars, InClean, Ordered, VictimsDiffer, AllocatesOw, AllocatesW,
     HoldsVictim

LEMMA GetRWLpnUse == TypeOK /\ UseInv /\ GetRWLpn => UseInv'
<1> SUFFICES ASSUME TypeOK, UseInv, GetRWLpn PROVE UseInv'
  OBVIOUS
<1> DEFINE g == [op |-> "AllocRw", bank |-> Top.bank, check |-> FALSE]
<1>1. PICK op \in {"FlushW", "WritePage", "GcCopy"} : Running(op)
  BY DEF GetRWLpn
<1>2. Top.bank \in Bank
  BY <1>1, RunningFrame, FrameKinds DEF FlushWFrame, WritePageFrame, GcCopyFrame
<1>3. g \in Frame
  BY <1>2 DEF Frame, AllocRwFrame
<1>4. stk' = Append(At(Top), g) /\ Len(stk) > 0 /\ Top \in Frame /\ Top.op = op
  BY <1>1, RunningFrame, StackParts DEF GetRWLpn, At
<1>5. rwCtrl[Top.bank].lbn = NoBlk
  BY DEF GetRWLpn
<1>6. \A b, l : ~ VictimIs(g, b, l)
  BY NoVictimIn
<1>7. g.op \in GcOps /\ g.op = "AllocRw" /\ g.bank = Top.bank /\ Top.op \notin {"AllocRw", "AllocOw"}
  BY <1>4 DEF GcOps
<1> HIDE DEF g
<1>8. StackQuiet
  BY <1>2, <1>3, <1>4, <1>5, <1>6, <1>7, Called
<1> QED
  BY <1>8, QuietVars DEF GetRWLpn, heapVars

LEMMA GetOWLpnUse == TypeOK /\ UseInv /\ GetOWLpn => UseInv'
<1> SUFFICES ASSUME TypeOK, UseInv, GetOWLpn PROVE UseInv'
  OBVIOUS
<1> DEFINE g == [op |-> "AllocOw", bank |-> Top.bank, count |-> 0]
<1>1. PICK op \in {"FlushOw", "OwPage"} : Running(op)
  BY DEF GetOWLpn
<1>2. Top.bank \in Bank
  BY <1>1, RunningFrame, FrameKinds DEF FlushOwFrame, OwPageFrame
<1>3. g \in Frame
  BY <1>2 DEF Frame, AllocOwFrame
<1>4. stk' = Append(At(Top), g) /\ Len(stk) > 0 /\ Top \in Frame /\ Top.op = op
  BY <1>1, RunningFrame, StackParts DEF GetOWLpn, At
<1>5. owCtrl[Top.bank].lbn = NoBlk
  BY DEF GetOWLpn
<1>6. \A b, l : ~ VictimIs(g, b, l)
  BY NoVictimIn
<1>7. g.op = "AllocOw" /\ g.bank = Top.bank /\ Top.op \notin GcOps \cup {"AllocRw", "AllocOw"}
  BY <1>4 DEF GcOps
<1> HIDE DEF g
<1>8. StackQuiet
  BY <1>2, <1>3, <1>4, <1>5, <1>6, <1>7, Called
<1> QED
  BY <1>8, QuietVars DEF GetOWLpn, heapVars

LEMMA CheckSpaceUse == TypeOK /\ UseInv /\ CheckSpace => UseInv'
<1> SUFFICES ASSUME TypeOK, UseInv, CheckSpace PROVE UseInv'
  OBVIOUS
<1>1. Len(stk) > 0 /\ Top.op = "CheckSpace"
  BY RunningFrame DEF CheckSpace
<1>2. StackQuiet
  BY <1>1, NoVictimIn, Returned DEF CheckSpace
<1> QED
  BY <1>2, QuietVars DEF CheckSpace, heapVars

LEMMA AllocOwGcUse == TypeOK /\ UseInv /\ AllocOwGc => UseInv'
<1> SUFFICES ASSUME TypeOK, UseInv, AllocOwGc PROVE UseInv'
  OBVIOUS
<1> DEFINE f == [Top EXCEPT !.count = @ + 1]
           g == [op |-> "Gc", bank |-> Top.bank]
<1>0. Running("AllocOw")
  BY DEF AllocOwGc
<1>1. Len(stk) > 0 /\ Top \in AllocOwFrame
  BY <1>0, RunningFrame, FrameKinds
<1>2. CASE Top.count = 10
  BY <1>2, HangUse DEF AllocOwGc
<1>3. CASE Top.count # 10
  <2>1. f \in AllocOwFrame
    BY <1>1, <1>3 DEF AllocOwFrame
  <2>2. f \in Frame /\ g \in Frame
    BY <1>1, <2>1 DEF Frame, GcFrame, AllocOwFrame
  <2>3. f.op = "AllocOw" /\ f.bank = Top.bank /\ Top.op = "AllocOw" /\ g.op = "Gc" /\ Top.bank \in Bank
    BY <1>1 DEF AllocOwFrame
  <2>4. "Gc" \in GcOps /\ "AllocOw" \notin GcOps
    BY DEF GcOps
  <2>5. stk' = Append(At(f), g) /\ UNCHANGED logVars /\ UNCHANGED wHeap /\ UNCHANGED owHeap
    BY <1>3 DEF AllocOwGc, heapVars
  <2> HIDE DEF f, g
  <2>6. \A b, l : ~ VictimIs(g, b, l) /\ ~ VictimIs(f, b, l) /\ ~ VictimIs(Top, b, l)
    BY <2>3, NoVictimIn
  <2>7. StackQuiet
    BY <1>1, <2>2, <2>3, <2>4, <2>5, <2>6, Called
  <2> QED
    BY <2>5, <2>7, QuietVars
<1> QED
  BY <1>2, <1>3

LEMMA GcFullPageUse == TypeOK /\ UseInv /\ GcFullPage /\ TypeOK' => UseInv'
<1> SUFFICES ASSUME TypeOK, UseInv, GcFullPage, TypeOK' PROVE UseInv'
  OBVIOUS
<1> DEFINE p == Min(PagesLeft(Top))
           f == [op |-> "GcCopy", bank |-> NextBank, job |-> Top.job, page |-> p,
                         found |-> Top.found + ChunksPerPage,
                         chunks |-> [s \in Slot |-> Owner(Top.job, p, s)]]
<1>1. Len(stk) > 0 /\ Top.op = "GcScan" /\ stk \in Seq(Frame)
  BY RunningFrame DEF GcFullPage
<1>2. stk' = At(f)
  BY DEF GcFullPage
<1>3. \A b, l : VictimIs(f, b, l) <=> VictimIs(Top, b, l)
  BY <1>1 DEF VictimIs
<1>4. f.op = "GcCopy" /\ "GcCopy" \in GcOps
  BY DEF GcOps
<1> HIDE DEF f
<1>5. f \in Frame
  <2>1. stk' \in Seq(Frame) /\ Below \in Seq(Frame)
    BY <1>1, StackParts DEF TypeOK
  <2>2. stk' = Append(Below, f)
    BY <1>2 DEF At
  <2>3. stk'[Len(Below) + 1] = f /\ Len(Below) + 1 \in 1 .. Len(stk')
    BY <2>1, <2>2
  <2> QED
    BY <2>1, <2>3
<1>6. StackQuiet
  BY <1>1, <1>2, <1>3, <1>4, <1>5, Replaced
<1> QED
  BY <1>6, QuietVars DEF GcFullPage, heapVars

LEMMA GcPageDoneUse == TypeOK /\ UseInv /\ GcPageDone => UseInv'
<1> SUFFICES ASSUME TypeOK, UseInv, GcPageDone PROVE UseInv'
  OBVIOUS
<1> DEFINE j == Top.job
           f == [op |-> "GcScan", page |-> Top.page + 1, found |-> Top.found, job |-> j]
<1>0. Running("GcChunks")
  BY DEF GcPageDone
<1>1. Top \in GcChunksFrame /\ Len(stk) > 0 /\ Top.op = "GcChunks"
  BY <1>0, RunningFrame, FrameKinds
<1>2. j \in Job /\ Top.page \in Page /\ Top.found \in Nat
  BY <1>1 DEF GcChunksFrame
<1>3. StackQuiet
  <2>1. CASE Top.found = j.expected
    <3>1. stk' = Below
      BY <2>1, Zenon DEF GcPageDone
    <3>2. \A b, l : ~ VictimIs(Top, b, l)
      BY <1>1, <2>1 DEF VictimIs
    <3> QED
      BY <1>1, <3>1, <3>2, Returned
  <2>2. CASE Top.found # j.expected
    <3>1. stk' = At(f)
      BY <2>2, Zenon DEF GcPageDone
    <3>2. \A b, l : VictimIs(f, b, l) <=> VictimIs(Top, b, l)
      BY <1>1, <2>2 DEF VictimIs
    <3>3. \A y \in Page : y + 1 \in Nat
      BY Geometry DEF Page
    <3>4. f \in Frame
      <4> HIDE DEF j
      <4> QED
        BY <1>2, <3>3, ScanTyped
    <3>5. f.op = "GcScan" /\ "GcScan" \in GcOps
      BY DEF GcOps
    <3> HIDE DEF f
    <3> QED
      BY <1>1, <3>1, <3>2, <3>4, <3>5, Replaced
  <2> QED
    BY <2>1, <2>2
<1> QED
  BY <1>3, QuietVars DEF GcPageDone, heapVars

(* The frames a step leaves on the stack, the types being kept. *)
LEMMA NewFrame ==
    ASSUME TypeOK, TypeOK', Len(stk) > 0, NEW f, stk' = At(f)
    PROVE  f \in Frame
<1>1. stk' \in Seq(Frame) /\ Below \in Seq(Frame) /\ stk' = Append(Below, f)
  BY StackParts DEF TypeOK, At
<1>2. stk'[Len(Below) + 1] = f /\ Len(Below) + 1 \in 1 .. Len(stk')
  BY <1>1
<1> QED
  BY <1>1, <1>2

LEMMA NewFrames ==
    ASSUME TypeOK, TypeOK', Len(stk) > 0, NEW f, NEW g, stk' = Append(At(f), g)
    PROVE  f \in Frame /\ g \in Frame
<1>1. stk' \in Seq(Frame) /\ Below \in Seq(Frame) /\ stk' = Append(Append(Below, f), g)
  BY StackParts DEF TypeOK, At
<1> DEFINE n == Len(Below)
<1>2. /\ stk'[n + 1] = f /\ stk'[n + 2] = g
      /\ n + 1 \in 1 .. Len(stk') /\ n + 2 \in 1 .. Len(stk')
  BY <1>1
<1> QED
  BY <1>1, <1>2

(* Steps that go on with the next piece or chunk of a list, and flush a    *)
(* buffer when it is full. *)
LEMMA NextPieceUse ==
    ASSUME TypeOK, TypeOK', UseInv, Len(stk) > 0, UNCHANGED logVars, UNCHANGED wHeap, UNCHANGED owHeap,
           NEW f, NEW g, stk' = At(f) \/ stk' = Append(At(f), g),
           Top.op \in {"GcChunks", "WriteChunks", "OwChunks", "OwExhausted"},
           f.op = Top.op, g.op \in {"FlushW", "FlushOw"}, Top.op = "GcChunks" => g.op = "FlushW",
           \A b, l : VictimIs(f, b, l) <=> VictimIs(Top, b, l)
    PROVE  UseInv'
<1>1. /\ "GcChunks" \in GcOps /\ "FlushW" \in GcOps
      /\ {"WriteChunks", "OwChunks", "OwExhausted"} \cap GcOps = {}
  BY DEF GcOps
<1>2. CASE stk' = At(f)
  <2>1. f \in Frame
    BY <1>2, NewFrame
  <2>2. StackQuiet
    BY <1>1, <1>2, <2>1, Replaced
  <2> QED
    BY <2>2, QuietVars
<1>3. CASE stk' = Append(At(f), g)
  <2>1. f \in Frame /\ g \in Frame
    BY <1>3, NewFrames
  <2>2. \A b, l : ~ VictimIs(g, b, l)
    BY NoVictimIn
  <2>3. StackQuiet
    BY <1>1, <1>3, <2>1, <2>2, Called
  <2> QED
    BY <2>3, QuietVars
<1> QED
  BY <1>2, <1>3

LEMMA GcWriteChunkUse == TypeOK /\ UseInv /\ GcWriteChunk /\ TypeOK' => UseInv'
<1> SUFFICES ASSUME TypeOK, UseInv, GcWriteChunk, TypeOK' PROVE UseInv'
  OBVIOUS
<1> DEFINE f == [Top EXCEPT !.pending = Tail(@)]
           g == [op |-> "FlushW", bank |-> NextBank]
<1>0. Running("GcChunks")
  BY DEF GcWriteChunk
<1>1. Len(stk) > 0 /\ Top.op = "GcChunks" /\ Top \in GcChunksFrame
  BY <1>0, RunningFrame, FrameKinds
<1>2. stk' = At(f) \/ stk' = Append(At(f), g)
  BY DEF GcWriteChunk
<1>3. f.op = Top.op /\ f.found = Top.found /\ f.job = Top.job /\ g.op = "FlushW"
  BY <1>1 DEF GcChunksFrame
<1> HIDE DEF f, g
<1>4. \A b, l : VictimIs(f, b, l) <=> VictimIs(Top, b, l)
  BY <1>3 DEF VictimIs
<1>5. UNCHANGED logVars /\ UNCHANGED wHeap /\ UNCHANGED owHeap
  BY DEF GcWriteChunk, heapVars
<1> QED
  BY <1>1, <1>2, <1>3, <1>4, <1>5, NextPieceUse

LEMMA WriteChunkInPlaceUse == TypeOK /\ UseInv /\ WriteChunkInPlace /\ TypeOK' => UseInv'
<1> SUFFICES ASSUME TypeOK, UseInv, WriteChunkInPlace, TypeOK' PROVE UseInv'
  OBVIOUS
<1> DEFINE f == [Top EXCEPT !.todo = Tail(@)]
<1>0. Running("WriteChunks")
  BY DEF WriteChunkInPlace
<1>1. Len(stk) > 0 /\ Top.op = "WriteChunks" /\ Top \in WriteChunksFrame
  BY <1>0, RunningFrame, FrameKinds
<1>2. stk' = At(f)
  BY DEF WriteChunkInPlace
<1>3. f.op = Top.op
  BY <1>1 DEF WriteChunksFrame
<1> HIDE DEF f
<1>4. f \in Frame /\ \A b, l : ~ VictimIs(f, b, l) /\ ~ VictimIs(Top, b, l)
  BY <1>1, <1>2, <1>3, NewFrame, NoVictimIn
<1>5. StackQuiet
  <2>1. Top.op \notin GcOps
    BY <1>1 DEF GcOps
  <2> QED
    BY <1>1, <1>2, <1>3, <1>4, <2>1, Replaced
<1> QED
  BY <1>5, QuietVars DEF WriteChunkInPlace, heapVars

LEMMA WriteChunkUse == TypeOK /\ UseInv /\ WriteChunk /\ TypeOK' => UseInv'
<1> SUFFICES ASSUME TypeOK, UseInv, WriteChunk, TypeOK' PROVE UseInv'
  OBVIOUS
<1> DEFINE f == [Top EXCEPT !.todo = Tail(@)]
           g == [op |-> "FlushW", bank |-> Top.bank]
<1>0. Running("WriteChunks")
  BY DEF WriteChunk
<1>1. Len(stk) > 0 /\ Top.op = "WriteChunks" /\ Top \in WriteChunksFrame
  BY <1>0, RunningFrame, FrameKinds
<1>2. stk' = At(f) \/ stk' = Append(At(f), g)
  BY DEF WriteChunk
<1>3. f.op = Top.op /\ g.op = "FlushW"
  BY <1>1 DEF WriteChunksFrame
<1> HIDE DEF f, g
<1>4. \A b, l : VictimIs(f, b, l) <=> VictimIs(Top, b, l)
  BY <1>1, <1>3, NoVictimIn
<1>5. UNCHANGED logVars /\ UNCHANGED wHeap /\ UNCHANGED owHeap
  BY DEF WriteChunk
<1> QED
  BY <1>1, <1>2, <1>3, <1>4, <1>5, NextPieceUse

(* A frame of an overwrite with one piece less. *)
LEMMA AfterPieceUse ==
    ASSUME TypeOK, TypeOK', UseInv, Running("OwChunks"), NEW g,
           UNCHANGED logVars, UNCHANGED wHeap, UNCHANGED owHeap,
           stk' = AfterPiece \/ stk' = Append(AfterPiece, g), g.op = "FlushOw"
    PROVE  UseInv'
<1> DEFINE f == [Top EXCEPT !.todo = Tail(@)]
<1>1. Len(stk) > 0 /\ Top.op = "OwChunks" /\ Top \in OwChunksFrame
  BY RunningFrame, FrameKinds
<1>2. stk' = At(f) \/ stk' = Append(At(f), g)
  BY DEF AfterPiece
<1>3. f.op = Top.op
  BY <1>1 DEF OwChunksFrame
<1> HIDE DEF f
<1>4. \A b, l : VictimIs(f, b, l) <=> VictimIs(Top, b, l)
  BY <1>1, <1>3, NoVictimIn
<1> QED
  BY <1>1, <1>2, <1>3, <1>4, NextPieceUse

LEMMA OwChunksUse ==
    ASSUME TypeOK, UseInv, TypeOK', OwChunkInBuf \/ OwChunkInPlace \/ OwChunkNew
    PROVE  UseInv'
<1> DEFINE g == [op |-> "FlushOw", bank |-> NextBank]
<1>1. Running("OwChunks")
  BY DEF OwChunkInBuf, OwChunkInPlace, OwChunkNew
<1>2. UNCHANGED logVars /\ UNCHANGED wHeap /\ UNCHANGED owHeap
  BY DEF OwChunkInBuf, OwChunkInPlace, OwChunkNew, heapVars
<1>3. stk' = AfterPiece \/ stk' = Append(AfterPiece, g)
  BY DEF OwChunkInBuf, OwChunkInPlace, OwChunkNew, ToOwBuf
<1> QED
  BY <1>1, <1>2, <1>3, AfterPieceUse

LEMMA OwExhaustedChunkUse == TypeOK /\ UseInv /\ OwExhaustedChunk /\ TypeOK' => UseInv'
<1> SUFFICES ASSUME TypeOK, UseInv, OwExhaustedChunk, TypeOK' PROVE UseInv'
  OBVIOUS
<1> DEFINE f == [Top EXCEPT !.todo = Tail(@), !.moved = @ + 1]
           g == [op |-> "FlushOw", bank |-> NextBank]
<1>0. Running("OwExhausted")
  BY DEF OwExhaustedChunk
<1>1. Len(stk) > 0 /\ Top.op = "OwExhausted" /\ Top \in OwExhaustedFrame
  BY <1>0, RunningFrame, FrameKinds
<1>2. stk' = At(f) \/ stk' = Append(At(f), g)
  BY DEF OwExhaustedChunk, ToOwBuf
<1>3. f.op = Top.op /\ g.op = "FlushOw"
  BY <1>1 DEF OwExhaustedFrame
<1> HIDE DEF f, g
<1>4. \A b, l : VictimIs(f, b, l) <=> VictimIs(Top, b, l)
  BY <1>1, <1>3, NoVictimIn
<1>5. UNCHANGED logVars /\ UNCHANGED wHeap /\ UNCHANGED owHeap
  BY DEF OwExhaustedChunk, heapVars
<1> QED
  BY <1>1, <1>2, <1>3, <1>4, <1>5, NextPieceUse

(* Functions that are done. *)
LEMMA DoneUse ==
    ASSUME TypeOK, UseInv, WriteChunksDone \/ CleanDone \/ OwChunksDone \/ OwExhaustedDone
    PROVE  UseInv'
<1>1. Len(stk) > 0 /\ Top.op \in {"WriteChunks", "Clean", "OwChunks", "OwExhausted"}
  BY RunningFrame DEF WriteChunksDone, CleanDone, OwChunksDone, OwExhaustedDone
<1>2. stk' = Below /\ UNCHANGED logVars /\ UNCHANGED wHeap /\ UNCHANGED owHeap
  BY DEF WriteChunksDone, CleanDone, OwChunksDone, OwExhaustedDone, heapVars
<1>3. StackQuiet
  BY <1>1, <1>2, NoVictimIn, Returned
<1> QED
  BY <1>2, <1>3, QuietVars

LEMMA CleanGcUse == TypeOK /\ UseInv /\ CleanGc /\ TypeOK' => UseInv'
<1> SUFFICES ASSUME TypeOK, UseInv, CleanGc, TypeOK' PROVE UseInv'
  OBVIOUS
<1>0. Running("Clean")
  BY DEF CleanGc
<1>1. Len(stk) > 0 /\ Top.op = "Clean" /\ Top \in CleanFrame
  BY <1>0, RunningFrame, FrameKinds
<1>2. PICK b : stk' = Append(At([Top EXCEPT !.bank = b + 1]), [op |-> "Gc", bank |-> b])
  BY DEF CleanGc
<1> DEFINE f == [Top EXCEPT !.bank = b + 1]
           g == [op |-> "Gc", bank |-> b]
<1>3. f.op = "Clean" /\ g.op = "Gc" /\ stk' = Append(At(f), g)
  BY <1>1, <1>2 DEF CleanFrame
<1> HIDE DEF f, g
<1>4. f \in Frame /\ g \in Frame
  BY <1>1, <1>3, NewFrames
<1>5. \A x, l : ~ VictimIs(f, x, l) /\ ~ VictimIs(g, x, l) /\ ~ VictimIs(Top, x, l)
  BY <1>1, <1>3, NoVictimIn
<1>6. "Clean" \notin GcOps
  BY DEF GcOps
<1>7. StackQuiet
  BY <1>1, <1>3, <1>4, <1>5, <1>6, Called
<1> QED
  BY <1>7, QuietVars DEF CleanGc, heapVars

LEMMA RequestUse ==
    ASSUME TypeOK, UseInv, TypeOK', NEW lpn \in Lpn, NEW pieces,
           \/ TrimRequest(lpn, pieces)
           \/ WritePageRequest(lpn, pieces)
           \/ WriteChunksRequest(lpn, pieces)
           \/ OverwriteInPlace(lpn, pieces)
           \/ OverwritePageRequest(lpn, pieces)
           \/ OverwriteExhaustedRequest(lpn, pieces)
           \/ OverwriteChunksRequest(lpn, pieces)
    PROVE  UseInv'
<1>1. UNCHANGED logVars /\ UNCHANGED wHeap /\ UNCHANGED owHeap
  BY DEF TrimRequest, WritePageRequest, WriteChunksRequest, OverwriteInPlace, OverwritePageRequest,
     OverwriteExhaustedRequest, OverwriteChunksRequest, heapVars
<1>2. stk = << >>
  BY Zenon DEF TrimRequest, WritePageRequest, WriteChunksRequest, OverwriteInPlace, OverwritePageRequest,
     OverwriteExhaustedRequest, OverwriteChunksRequest, Receive
<1>3. CASE stk' = stk
  BY <1>1, <1>3, ZenonT(30) DEF UseInv, logVars, InClean, Ordered, VictimsDiffer, AllocatesOw, AllocatesW,
     HoldsVictim
<1>4. ASSUME NEW f, stk' = <<StartClean, f>> \/ stk' = <<StartClean>>,
             f.op \in {"WritePage", "WriteChunks", "OwPage", "OwChunks", "OwExhausted"}
      PROVE  UseInv'
  <2>1. CASE stk' = <<StartClean, f>>
    <3>1. f \in Frame
      <4>1. stk' \in Seq(Frame)
        BY DEF TypeOK
      <4>2. 2 \in 1 .. Len(stk') /\ stk'[2] = f
        BY <2>1
      <4> QED
        BY <4>1, <4>2
    <3>2. StackQuiet
      BY <1>2, <1>4, <2>1, <3>1, Requested
    <3> QED
      BY <1>1, <3>2, QuietVars
  <2>2. CASE stk' = <<StartClean>>
    <3> DEFINE h == [op |-> "OwPage", bank |-> 0, lpn |-> lpn]
    <3>1. h \in Frame /\ h.op = "OwPage"
      BY Geometry DEF Frame, OwPageFrame
    <3> HIDE DEF h
    <3>2. StackQuiet
      BY <1>2, <2>2, <3>1, Requested
    <3> QED
      BY <1>1, <3>2, QuietVars
  <2> QED
    BY <1>4, <2>1, <2>2
<1>5. CASE TrimRequest(lpn, pieces)
  BY <1>3, <1>5 DEF TrimRequest
<1>6. CASE WritePageRequest(lpn, pieces)
  BY <1>4, <1>6 DEF WritePageRequest
<1>7. CASE WriteChunksRequest(lpn, pieces)
  BY <1>4, <1>7 DEF WriteChunksRequest
<1>8. CASE OverwriteInPlace(lpn, pieces)
  <2>1. stk' = <<StartClean>>
    BY <1>8 DEF OverwriteInPlace
  <2> DEFINE h == [op |-> "OwPage", bank |-> 0, lpn |-> lpn]
  <2>2. h.op = "OwPage"
    OBVIOUS
  <2> QED
    BY <1>4, <2>1, <2>2
<1>9. CASE OverwritePageRequest(lpn, pieces)
  BY <1>4, <1>9 DEF OverwritePageRequest
<1>10. CASE OverwriteExhaustedRequest(lpn, pieces)
  BY <1>4, <1>10 DEF OverwriteExhaustedRequest
<1>11. CASE OverwriteChunksRequest(lpn, pieces)
  BY <1>4, <1>11 DEF OverwriteChunksRequest
<1> QED
  BY <1>5, <1>6, <1>7, <1>8, <1>9, <1>10, <1>11

-----------------------------------------------------------------------------
(* Steps that give a block another use.                                    *)

LEMMA AtStack ==
    ASSUME stk \in Seq(Frame), Len(stk) > 0, Ordered(stk), VictimsDiffer(stk), NEW f \in Frame,
           Top.op \in GcOps => f.op \in GcOps,
           \A b \in Bank, l \in Lbn : VictimIs(f, b, l) => ~ HoldsVictim(Below, b, l)
    PROVE  LET t == At(f)
           IN  /\ t \in Seq(Frame) /\ Ordered(t) /\ VictimsDiffer(t)
               /\ f.op # "AllocRw" => NoW(t)
               /\ OwSearch(t) => OwSearch(Below) \/ f.op = "AllocOw"
               /\ \A b, l : HoldsVictim(t, b, l) <=> HoldsVictim(Below, b, l) \/ VictimIs(f, b, l)
               /\ \A b : AllocatesW(t, b) <=> f.op = "AllocRw" /\ f.bank = b
               /\ \A b : AllocatesOw(t, b) <=> AllocatesOw(Below, b) \/ (f.op = "AllocOw" /\ f.bank = b)
<1> DEFINE t == At(f)
<1>1. t = Append(Below, f) /\ Below \in Seq(Frame) /\ t \in Seq(Frame)
  BY StackParts DEF At
<1>2. /\ Ordered(Below) /\ VictimsDiffer(Below) /\ NoW(Below)
      /\ OwSearch(Below) => Top.op \in GcOps
      /\ \A b : ~ AllocatesW(Below, b)
  BY CallersOrdered
<1>3. f.op # "AllocRw" => NoW(t)
  BY <1>1, <1>2 DEF NoW
<1>4. OwSearch(t) => OwSearch(Below) \/ f.op = "AllocOw"
  BY <1>1 DEF OwSearch
<1> HIDE DEF t
<1>5. /\ \A b, l : HoldsVictim(t, b, l) <=> HoldsVictim(Below, b, l) \/ VictimIs(f, b, l)
      /\ \A b : AllocatesW(t, b) <=> AllocatesW(Below, b) \/ (f.op = "AllocRw" /\ f.bank = b)
      /\ \A b : AllocatesOw(t, b) <=> AllocatesOw(Below, b) \/ (f.op = "AllocOw" /\ f.bank = b)
      /\ Ordered(t) <=> Ordered(Below) /\ NoW(Below) /\ (OwSearch(Below) => f.op \in GcOps)
      /\ VictimsDiffer(t) <=>
            /\ VictimsDiffer(Below)
            /\ \A b \in Bank, l \in Lbn : ~ (HoldsVictim(Below, b, l) /\ VictimIs(f, b, l))
  BY <1>1, Push
<1>6. t \in Seq(Frame) /\ Ordered(t) /\ VictimsDiffer(t)
  BY <1>1, <1>2, <1>5
<1> QED
  BY <1>2, <1>3, <1>4, <1>5, <1>6 DEF t

LEMMA AtAtStack ==
    ASSUME stk \in Seq(Frame), Len(stk) > 0, Ordered(stk), VictimsDiffer(stk),
           NEW f \in Frame, NEW g \in Frame,
           Top.op \in GcOps => f.op \in GcOps, f.op \notin {"AllocRw", "AllocOw"},
           g.op \in GcOps \ {"GcScan", "GcCopy", "GcChunks"},
           \A b \in Bank, l \in Lbn : VictimIs(f, b, l) => ~ HoldsVictim(Below, b, l)
    PROVE  LET u == Append(At(f), g)
           IN  /\ Ordered(u) /\ VictimsDiffer(u)
               /\ \A b, l : HoldsVictim(u, b, l) <=> HoldsVictim(Below, b, l) \/ VictimIs(f, b, l)
               /\ \A b : AllocatesW(u, b) <=> g.op = "AllocRw" /\ g.bank = b
               /\ \A b : AllocatesOw(u, b) <=> AllocatesOw(Below, b)
<1> DEFINE t == At(f)
           u == Append(t, g)
<1>1. /\ t \in Seq(Frame) /\ Ordered(t) /\ VictimsDiffer(t) /\ NoW(t)
      /\ OwSearch(t) => OwSearch(Below)
      /\ \A b, l : HoldsVictim(t, b, l) <=> HoldsVictim(Below, b, l) \/ VictimIs(f, b, l)
      /\ \A b : ~ AllocatesW(t, b)
      /\ \A b : AllocatesOw(t, b) <=> AllocatesOw(Below, b)
  BY AtStack
<1>2. \A b, l : ~ VictimIs(g, b, l)
  BY NoVictimIn
<1>3. g.op # "AllocOw"
  BY DEF GcOps
<1> HIDE DEF t
<1>4. /\ \A b, l : HoldsVictim(u, b, l) <=> HoldsVictim(t, b, l) \/ VictimIs(g, b, l)
      /\ \A b : AllocatesW(u, b) <=> AllocatesW(t, b) \/ (g.op = "AllocRw" /\ g.bank = b)
      /\ \A b : AllocatesOw(u, b) <=> AllocatesOw(t, b) \/ (g.op = "AllocOw" /\ g.bank = b)
      /\ Ordered(u) <=> Ordered(t) /\ NoW(t) /\ (OwSearch(t) => g.op \in GcOps)
      /\ VictimsDiffer(u) <=>
            /\ VictimsDiffer(t)
            /\ \A b \in Bank, l \in Lbn : ~ (HoldsVictim(t, b, l) /\ VictimIs(g, b, l))
  BY <1>1, Push
<1> HIDE DEF u
<1>5. /\ Ordered(u) /\ VictimsDiffer(u)
      /\ \A b, l : HoldsVictim(u, b, l) <=> HoldsVictim(Below, b, l) \/ VictimIs(f, b, l)
      /\ \A b : AllocatesW(u, b) <=> g.op = "AllocRw" /\ g.bank = b
      /\ \A b : AllocatesOw(u, b) <=> AllocatesOw(Below, b)
  BY <1>1, <1>2, <1>3, <1>4
<1> QED
  BY <1>5 DEF u, t

(* What the invariant says of the stack, and what it says of a block. *)
LEMMA UseParts ==
    ASSUME TypeOK, UseInv
    PROVE  /\ stk \in Seq(Frame) /\ Ordered(stk) /\ VictimsDiffer(stk)
           /\ \A b \in Bank : AllocatesOw(stk, b) => owCtrl[b].lbn = NoBlk
           /\ \A b \in Bank : \A i, j \in DOMAIN clean[b] : clean[b][i] = clean[b][j] => i = j
           /\ clean \in [Bank -> Seq(Lbn)]
           /\ \A l \in Lbn : l # NoBlk
<1>1. \A l \in Lbn : l # NoBlk
  BY DEF Lbn, NoBlk
<1> QED
  BY <1>1 DEF TypeOK, UseInv

LEMMA OneUseOf ==
    ASSUME UseInv, NEW b \in Bank, NEW l \in Lbn
    PROVE  ExactlyOne(InClean(b, l), rwCtrl[b].lbn = l /\ ~AllocatesW(stk, b), owCtrl[b].lbn = l,
                      l \in wHeap[b], l \in owHeap[b], HoldsVictim(stk, b, l))
  BY DEF UseInv

(* The first block of the clean list is taken. *)
LEMMA PoppedClean ==
    ASSUME TypeOK, UseInv, NEW b \in Bank, clean[b] # << >>, clean' = Popped(b)
    PROVE  /\ \A x \in Bank : \A i, j \in DOMAIN clean'[x] : clean'[x][i] = clean'[x][j] => i = j
           /\ Head(clean[b]) \in Lbn /\ InClean(b, Head(clean[b]))
           /\ \A x \in Bank, y \in Lbn :
                 InClean(x, y)' <=> InClean(x, y) /\ ~ (x = b /\ y = Head(clean[b]))
<1>1. /\ clean \in [Bank -> Seq(Lbn)]
      /\ \A x \in Bank : \A i, j \in DOMAIN clean[x] : clean[x][i] = clean[x][j] => i = j
  BY UseParts
<1> DEFINE s == clean[b]
<1>2. s \in Seq(Lbn) /\ s # << >>
  BY <1>1
<1>3. clean'[b] = Tail(s) /\ \A x \in Bank : x # b => clean'[x] = clean[x]
  BY <1>1 DEF Popped
<1>4. \A i, j \in DOMAIN s : s[i] = s[j] => i = j
  BY <1>1
<1> HIDE DEF s
<1>5. /\ Len(s) \in Nat /\ Len(s) >= 1 /\ DOMAIN s = 1 .. Len(s)
      /\ DOMAIN Tail(s) = 1 .. Len(s) - 1
      /\ \A i \in 1 .. Len(s) - 1 : Tail(s)[i] = s[i + 1]
      /\ Head(s) = s[1] /\ s[1] \in Lbn
  BY <1>2
<1>6. \A i, j \in DOMAIN Tail(s) : Tail(s)[i] = Tail(s)[j] => i = j
  BY <1>4, <1>5
<1>7. \A y : (\E i \in DOMAIN Tail(s) : Tail(s)[i] = y) <=> (\E i \in DOMAIN s : s[i] = y) /\ y # Head(s)
  <2> SUFFICES ASSUME NEW y
               PROVE  (\E i \in DOMAIN Tail(s) : Tail(s)[i] = y) <=>
                         (\E i \in DOMAIN s : s[i] = y) /\ y # Head(s)
    OBVIOUS
  <2>1. ASSUME NEW i \in DOMAIN Tail(s), Tail(s)[i] = y
        PROVE  (\E k \in DOMAIN s : s[k] = y) /\ y # Head(s)
    <3>1. i + 1 \in DOMAIN s /\ s[i + 1] = y /\ i + 1 # 1 /\ 1 \in DOMAIN s
      BY <1>5, <2>1
    <3> QED
      BY <1>4, <1>5, <3>1
  <2>2. ASSUME NEW i \in DOMAIN s, s[i] = y, y # Head(s)
        PROVE  \E k \in DOMAIN Tail(s) : Tail(s)[k] = y
    <3>1. i # 1 /\ i \in 1 .. Len(s)
      BY <1>5, <2>2
    <3>2. i - 1 \in DOMAIN Tail(s) /\ Tail(s)[i - 1] = s[i]
      BY <1>5, <3>1
    <3> QED
      BY <2>2, <3>2
  <2> QED
    BY <2>1, <2>2
<1>8. Head(s) \in Lbn /\ \E i \in DOMAIN s : s[i] = Head(s)
  BY <1>5
<1>9. \A x \in Bank : \A i, j \in DOMAIN clean'[x] : clean'[x][i] = clean'[x][j] => i = j
  <2> TAKE x \in Bank
  <2>1. CASE x = b
    BY <1>3, <1>6, <2>1, ZenonT(30)
  <2>2. CASE x # b
    BY <1>1, <1>3, <2>2
  <2> QED
    BY <2>1, <2>2
<1>10. \A x \in Bank, y \in Lbn : InClean(x, y)' <=> InClean(x, y) /\ ~ (x = b /\ y = Head(s))
  <2>1. \A x \in Bank, y \in Lbn : x # b => (InClean(x, y)' <=> InClean(x, y))
    BY <1>3 DEF InClean
  <2>2. \A y \in Lbn : InClean(b, y)' <=> InClean(b, y) /\ y # Head(s)
    BY <1>3, <1>7, ZenonT(30) DEF InClean, s
  <2> QED
    BY <2>1, <2>2
<1>11. InClean(b, Head(s))
  BY <1>8 DEF InClean, s
<1> QED
  BY <1>8, <1>9, <1>10, <1>11 DEF s

(* A block is put at the end of the clean list. *)
LEMMA PushedClean ==
    ASSUME TypeOK, UseInv, NEW j \in Job, ~ InClean(j.bank, j.lbn), clean' = Pushed(j)
    PROVE  /\ \A x \in Bank : \A i, k \in DOMAIN clean'[x] : clean'[x][i] = clean'[x][k] => i = k
           /\ \A x \in Bank, y \in Lbn :
                 InClean(x, y)' <=> InClean(x, y) \/ (x = j.bank /\ y = j.lbn)
<1>1. /\ clean \in [Bank -> Seq(Lbn)]
      /\ \A x \in Bank : \A i, k \in DOMAIN clean[x] : clean[x][i] = clean[x][k] => i = k
  BY UseParts
<1> DEFINE b == j.bank
           l == j.lbn
           s == clean[b]
           t == Append(s, l)
<1>2. b \in Bank /\ l \in Lbn
  BY DEF Job
<1>3. s \in Seq(Lbn) /\ \A i, k \in DOMAIN s : s[i] = s[k] => i = k
  BY <1>1, <1>2
<1>4. clean'[b] = t /\ \A x \in Bank : x # b => clean'[x] = clean[x]
  BY <1>1, <1>2 DEF Pushed
<1>5. ~ \E i \in DOMAIN s : s[i] = l
  BY DEF InClean
<1> HIDE DEF s, b, l
<1>6. /\ Len(s) \in Nat /\ DOMAIN s = 1 .. Len(s) /\ DOMAIN t = 1 .. Len(s) + 1
      /\ \A i \in 1 .. Len(s) : t[i] = s[i]
      /\ t[Len(s) + 1] = l
  BY <1>2, <1>3
<1> HIDE DEF t
<1>7. \A i, k \in DOMAIN t : t[i] = t[k] => i = k
  <2>1. \A i \in DOMAIN t : i \in DOMAIN s \/ i = Len(s) + 1
    BY <1>6
  <2> QED
    BY <1>3, <1>5, <1>6, <2>1
<1>8. \A y : (\E i \in DOMAIN t : t[i] = y) <=> (\E i \in DOMAIN s : s[i] = y) \/ y = l
  <2>1. \A i \in DOMAIN t : i \in DOMAIN s \/ i = Len(s) + 1
    BY <1>6
  <2>2. Len(s) + 1 \in DOMAIN t /\ \A i \in DOMAIN s : i \in DOMAIN t
    BY <1>6
  <2> QED
    BY <1>6, <2>1, <2>2
<1>9. \A x \in Bank : \A i, k \in DOMAIN clean'[x] : clean'[x][i] = clean'[x][k] => i = k
  BY <1>1, <1>4, <1>7
<1>10. \A x \in Bank, y \in Lbn : InClean(x, y)' <=> InClean(x, y) \/ (x = b /\ y = l)
  <2>1. \A x \in Bank, y \in Lbn : x # b => (InClean(x, y)' <=> InClean(x, y))
    BY <1>4 DEF InClean
  <2>2. \A y \in Lbn : InClean(b, y)' <=> InClean(b, y) \/ y = l
    BY <1>4, <1>8 DEF InClean, s
  <2> QED
    BY <2>1, <2>2
<1> QED
  BY <1>9, <1>10 DEF b, l

(* A clean block becomes the W block of bank b. *)
LEMMA WBlockTaken ==
    ASSUME TypeOK, UseInv, NEW b \in Bank, clean[b] # << >>,
           Top.op = "AllocRw", Top.bank = b, Len(stk) > 0,
           rwCtrl' = FreshRw(b), clean' = Popped(b), UNCHANGED <<owCtrl, wHeap, owHeap>>,
           Ordered(stk'), VictimsDiffer(stk'),
           \A x, y : HoldsVictim(stk', x, y) <=> HoldsVictim(stk, x, y),
           \A x : ~ AllocatesW(stk', x),
           \A x : AllocatesOw(stk', x) => AllocatesOw(stk, x)
    PROVE  UseInv'
<1>1. /\ \A x \in Bank : \A i, j \in DOMAIN clean'[x] : clean'[x][i] = clean'[x][j] => i = j
      /\ Head(clean[b]) \in Lbn /\ InClean(b, Head(clean[b]))
      /\ \A x \in Bank, y \in Lbn :
            InClean(x, y)' <=> InClean(x, y) /\ ~ (x = b /\ y = Head(clean[b]))
  BY PoppedClean
<1> DEFINE h == Head(clean[b])
<1>2. rwCtrl'[b].lbn = h /\ \A x \in Bank : x # b => rwCtrl'[x] = rwCtrl[x]
  BY DEF FreshRw, TypeOK
<1> HIDE DEF h
<1>3. \A x : AllocatesW(stk, x) <=> x = b
  BY UseParts, CallersOrdered
<1>4. ASSUME NEW x \in Bank, NEW y \in Lbn
      PROVE  ExactlyOne(InClean(x, y), rwCtrl[x].lbn = y /\ ~AllocatesW(stk, x), owCtrl[x].lbn = y,
                        y \in wHeap[x], y \in owHeap[x], HoldsVictim(stk, x, y))'
  <2>1. InClean(x, y)' <=> InClean(x, y) /\ ~ (x = b /\ y = h)
    BY <1>1 DEF h
  <2>2. (rwCtrl[x].lbn = y /\ ~AllocatesW(stk, x))' <=>
           (rwCtrl[x].lbn = y /\ ~AllocatesW(stk, x)) \/ (x = b /\ y = h)
    BY <1>2, <1>3
  <2>3. HoldsVictim(stk, x, y)' <=> HoldsVictim(stk, x, y)
    OBVIOUS
  <2>4. x = b /\ y = h => InClean(x, y)
    BY <1>1 DEF h
  <2>5. ExactlyOne(InClean(x, y), rwCtrl[x].lbn = y /\ ~AllocatesW(stk, x), owCtrl[x].lbn = y,
                   y \in wHeap[x], y \in owHeap[x], HoldsVictim(stk, x, y))
    BY OneUseOf
  <2> QED
    BY <2>1, <2>2, <2>3, <2>4, <2>5 DEF ExactlyOne
<1>5. \A x \in Bank : AllocatesOw(stk', x) => owCtrl'[x].lbn = NoBlk
  BY UseParts
<1> QED
  BY <1>1, <1>4, <1>5 DEF UseInv

LEMMA AllocRwPopUse == TypeOK /\ UseInv /\ AllocRwPop => UseInv'
<1> SUFFICES ASSUME TypeOK, UseInv, AllocRwPop PROVE UseInv'
  OBVIOUS
<1> DEFINE b == Top.bank
<1>0. Running("AllocRw")
  BY DEF AllocRwPop
<1>1. Len(stk) > 0 /\ Top.op = "AllocRw" /\ b \in Bank
  BY <1>0, RunningFrame, FrameKinds DEF AllocRwFrame
<1>2. clean[b] # << >>
  BY DEF AllocRwPop, Scarce
<1>3. rwCtrl' = FreshRw(b) /\ clean' = Popped(b) /\ UNCHANGED <<owCtrl, wHeap, owHeap>> /\ stk' = Below
  BY DEF AllocRwPop, heapVars
<1> HIDE DEF b
<1>4. /\ Ordered(stk') /\ VictimsDiffer(stk')
      /\ \A x, y : HoldsVictim(stk', x, y) <=> HoldsVictim(stk, x, y)
      /\ \A x : ~ AllocatesW(stk', x)
      /\ \A x : AllocatesOw(stk', x) => AllocatesOw(stk, x)
  BY <1>1, <1>3, UseParts, CallersOrdered, NoVictimIn
<1>5. Top.bank = b
  BY DEF b
<1> QED
  BY <1>1, <1>2, <1>3, <1>4, <1>5, WBlockTaken

LEMMA AllocRwGcUse == TypeOK /\ UseInv /\ AllocRwGc /\ TypeOK' => UseInv'
<1> SUFFICES ASSUME TypeOK, UseInv, AllocRwGc, TypeOK' PROVE UseInv'
  OBVIOUS
<1> DEFINE b == Top.bank
           f == [op |-> "CheckSpace", bank |-> b]
           g == [op |-> "Gc", bank |-> b]
<1>0. Running("AllocRw")
  BY DEF AllocRwGc
<1>1. Len(stk) > 0 /\ Top.op = "AllocRw" /\ b \in Bank
  BY <1>0, RunningFrame, FrameKinds DEF AllocRwFrame
<1>2. clean[b] # << >>
  BY DEF AllocRwGc
<1>3. /\ rwCtrl' = FreshRw(b) /\ clean' = Popped(b) /\ UNCHANGED <<owCtrl, wHeap, owHeap>>
      /\ stk' = At(g) \/ stk' = Append(At(f), g)
  BY DEF AllocRwGc, heapVars, At
<1>4. f \in Frame /\ g \in Frame
  BY <1>1 DEF Frame, SpaceFrame, GcFrame
<1>5. Top.bank = b /\ f.op = "CheckSpace" /\ g.op = "Gc" /\ "CheckSpace" \in GcOps
      /\ "Gc" \in GcOps \ {"GcScan", "GcCopy", "GcChunks"}
  BY DEF GcOps
<1> HIDE DEF b, f, g
<1>6. \A x, y : ~ VictimIs(f, x, y) /\ ~ VictimIs(g, x, y) /\ ~ VictimIs(Top, x, y)
  BY <1>1, <1>5, NoVictimIn
<1>7. /\ stk \in Seq(Frame) /\ Ordered(stk) /\ VictimsDiffer(stk)
      /\ \A x, y : HoldsVictim(stk, x, y) <=> HoldsVictim(Below, x, y)
      /\ \A x : AllocatesOw(Below, x) => AllocatesOw(stk, x)
  BY <1>1, <1>6, UseParts, CallersOrdered
<1>8. /\ Ordered(stk') /\ VictimsDiffer(stk')
      /\ \A x, y : HoldsVictim(stk', x, y) <=> HoldsVictim(stk, x, y)
      /\ \A x : ~ AllocatesW(stk', x)
      /\ \A x : AllocatesOw(stk', x) => AllocatesOw(stk, x)
  <2>1. CASE stk' = At(g)
    <3>1. LET t == At(g)
           IN  /\ t \in Seq(Frame) /\ Ordered(t) /\ VictimsDiffer(t)
               /\ g.op # "AllocRw" => NoW(t)
               /\ OwSearch(t) => OwSearch(Below) \/ g.op = "AllocOw"
               /\ \A x, l : HoldsVictim(t, x, l) <=> HoldsVictim(Below, x, l) \/ VictimIs(g, x, l)
               /\ \A x : AllocatesW(t, x) <=> g.op = "AllocRw" /\ g.bank = x
               /\ \A x : AllocatesOw(t, x) <=> AllocatesOw(Below, x) \/ (g.op = "AllocOw" /\ g.bank = x)
      BY <1>1, <1>4, <1>5, <1>6, <1>7, AtStack
    <3> QED
      BY <1>5, <1>6, <1>7, <2>1, <3>1
  <2>2. CASE stk' = Append(At(f), g)
    <3>1. LET u == Append(At(f), g)
           IN  /\ Ordered(u) /\ VictimsDiffer(u)
               /\ \A x, l : HoldsVictim(u, x, l) <=> HoldsVictim(Below, x, l) \/ VictimIs(f, x, l)
               /\ \A x : AllocatesW(u, x) <=> g.op = "AllocRw" /\ g.bank = x
               /\ \A x : AllocatesOw(u, x) <=> AllocatesOw(Below, x)
      BY <1>1, <1>4, <1>5, <1>6, <1>7, AtAtStack
    <3> QED
      BY <1>5, <1>6, <1>7, <2>2, <3>1
  <2> QED
    BY <1>3, <2>1, <2>2
<1> QED
  BY <1>1, <1>2, <1>3, <1>5, <1>8, WBlockTaken

LEMMA SealOWBlkUse == TypeOK /\ UseInv /\ SealOWBlk => UseInv'
<1> SUFFICES ASSUME TypeOK, UseInv, SealOWBlk PROVE UseInv'
  OBVIOUS
<1> DEFINE b == Top.bank
<1>0. Running("AllocRw")
  BY DEF SealOWBlk
<1>1. Len(stk) > 0 /\ Top.op = "AllocRw" /\ b \in Bank
  BY <1>0, RunningFrame, FrameKinds DEF AllocRwFrame
<1>2. PICK l \in Victims(owValid, owHeap, b) :
         /\ owHeap' = [owHeap EXCEPT ![b] = @ \ {l}]
         /\ rwCtrl' = [rwCtrl EXCEPT ![b] = [lbn |-> l, page |-> 2, isOw |-> TRUE]]
  BY Zenon DEF SealOWBlk
<1>3. l \in Lbn /\ l \in owHeap[b]
  BY <1>1, VictimsExist DEF TypeOK
<1>4. /\ stk' = Below /\ UNCHANGED <<clean, wHeap, owCtrl>>
      /\ owHeap'[b] = owHeap[b] \ {l} /\ rwCtrl'[b].lbn = l
      /\ \A x \in Bank : x # b => owHeap'[x] = owHeap[x] /\ rwCtrl'[x] = rwCtrl[x]
  BY <1>1, <1>2 DEF SealOWBlk, TypeOK
<1>5. \A x : AllocatesW(stk, x) <=> x = b
  BY <1>1, UseParts, CallersOrdered
<1> HIDE DEF b
<1>6. /\ Ordered(stk') /\ VictimsDiffer(stk')
      /\ \A x, y : HoldsVictim(stk', x, y) <=> HoldsVictim(stk, x, y)
      /\ \A x : ~ AllocatesW(stk', x)
      /\ \A x : AllocatesOw(stk', x) => AllocatesOw(stk, x)
  BY <1>1, <1>4, UseParts, CallersOrdered, NoVictimIn
<1>7. ASSUME NEW x \in Bank, NEW y \in Lbn
      PROVE  ExactlyOne(InClean(x, y), rwCtrl[x].lbn = y /\ ~AllocatesW(stk, x), owCtrl[x].lbn = y,
                        y \in wHeap[x], y \in owHeap[x], HoldsVictim(stk, x, y))'
  <2>1. InClean(x, y)' <=> InClean(x, y)
    BY <1>4 DEF InClean
  <2>2. (rwCtrl[x].lbn = y /\ ~AllocatesW(stk, x))' <=>
           (rwCtrl[x].lbn = y /\ ~AllocatesW(stk, x)) \/ (x = b /\ y = l)
    BY <1>4, <1>5, <1>6
  <2>3. (y \in owHeap[x])' <=> y \in owHeap[x] /\ ~ (x = b /\ y = l)
    BY <1>4
  <2>4. HoldsVictim(stk, x, y)' <=> HoldsVictim(stk, x, y)
    BY <1>6
  <2>5. x = b /\ y = l => y \in owHeap[x]
    BY <1>3
  <2>6. ExactlyOne(InClean(x, y), rwCtrl[x].lbn = y /\ ~AllocatesW(stk, x), owCtrl[x].lbn = y,
                   y \in wHeap[x], y \in owHeap[x], HoldsVictim(stk, x, y))
    BY OneUseOf
  <2>7. ((owCtrl[x].lbn = y)' <=> owCtrl[x].lbn = y) /\ ((y \in wHeap[x])' <=> y \in wHeap[x])
    BY <1>4
  <2> QED
    BY <2>1, <2>2, <2>3, <2>4, <2>5, <2>6, <2>7 DEF ExactlyOne
<1>8. /\ \A x \in Bank : AllocatesOw(stk', x) => owCtrl'[x].lbn = NoBlk
      /\ \A x \in Bank : \A i, j \in DOMAIN clean'[x] : clean'[x][i] = clean'[x][j] => i = j
  BY <1>4, <1>6, UseParts
<1> QED
  BY <1>6, <1>7, <1>8 DEF UseInv

(* A clean block becomes the OW block of a bank: no other search for one   *)
(* is under way.                                                           *)
LEMMA AllocOwPopUse == TypeOK /\ UseInv /\ AllocOwPop => UseInv'
<1> SUFFICES ASSUME TypeOK, UseInv, AllocOwPop PROVE UseInv'
  OBVIOUS
<1> DEFINE b == Top.bank
           h == Head(clean[b])
<1>0. Running("AllocOw")
  BY DEF AllocOwPop
<1>1. Len(stk) > 0 /\ Top.op = "AllocOw" /\ b \in Bank
  BY <1>0, RunningFrame, FrameKinds DEF AllocOwFrame
<1>2. clean[b] # << >> /\ clean' = Popped(b)
  BY DEF AllocOwPop, Scarce
<1>3. /\ stk' = Below /\ UNCHANGED <<rwCtrl, wHeap, owHeap>>
      /\ owCtrl' = [owCtrl EXCEPT ![b] = [lbn |-> h, page |-> 0]]
  BY DEF AllocOwPop, heapVars
<1>4. /\ \A x \in Bank : \A i, j \in DOMAIN clean'[x] : clean'[x][i] = clean'[x][j] => i = j
      /\ h \in Lbn /\ InClean(b, h)
      /\ \A x \in Bank, y \in Lbn : InClean(x, y)' <=> InClean(x, y) /\ ~ (x = b /\ y = h)
  BY <1>1, <1>2, PoppedClean
<1>5. owCtrl[b].lbn = NoBlk
  BY <1>1, UseParts, CallersOrdered
<1> HIDE DEF b, h
<1>6. owCtrl'[b].lbn = h /\ \A x \in Bank : x # b => owCtrl'[x] = owCtrl[x]
  BY <1>1, <1>3 DEF TypeOK
<1>7. /\ Ordered(stk') /\ VictimsDiffer(stk')
      /\ \A x, y : HoldsVictim(stk', x, y) <=> HoldsVictim(stk, x, y)
      /\ \A x : ~ AllocatesW(stk', x) /\ ~ AllocatesW(stk, x)
      /\ \A x : ~ AllocatesOw(stk', x)
  <2>1. "AllocOw" \notin GcOps
    BY DEF GcOps
  <2>2. ~ OwSearch(Below)
    BY <1>1, <2>1, UseParts, CallersOrdered
  <2>3. \A x : ~ AllocatesOw(Below, x)
    BY <2>2, NoWAllocates
  <2> QED
    BY <1>1, <1>3, <2>3, UseParts, CallersOrdered, NoVictimIn
<1>8. ASSUME NEW x \in Bank, NEW y \in Lbn
      PROVE  ExactlyOne(InClean(x, y), rwCtrl[x].lbn = y /\ ~AllocatesW(stk, x), owCtrl[x].lbn = y,
                        y \in wHeap[x], y \in owHeap[x], HoldsVictim(stk, x, y))'
  <2>1. InClean(x, y)' <=> InClean(x, y) /\ ~ (x = b /\ y = h)
    BY <1>4
  <2>2. (owCtrl[x].lbn = y)' <=> owCtrl[x].lbn = y \/ (x = b /\ y = h)
    BY <1>5, <1>6, UseParts
  <2>3. HoldsVictim(stk, x, y)' <=> HoldsVictim(stk, x, y)
    BY <1>7
  <2>4. x = b /\ y = h => InClean(x, y)
    BY <1>4
  <2>5. ExactlyOne(InClean(x, y), rwCtrl[x].lbn = y /\ ~AllocatesW(stk, x), owCtrl[x].lbn = y,
                   y \in wHeap[x], y \in owHeap[x], HoldsVictim(stk, x, y))
    BY OneUseOf
  <2>6. (rwCtrl[x].lbn = y /\ ~AllocatesW(stk, x))' <=> (rwCtrl[x].lbn = y /\ ~AllocatesW(stk, x))
    BY <1>3, <1>7
  <2>7. ((y \in wHeap[x])' <=> y \in wHeap[x]) /\ ((y \in owHeap[x])' <=> y \in owHeap[x])
    BY <1>3
  <2> QED
    BY <2>1, <2>2, <2>3, <2>4, <2>5, <2>6, <2>7 DEF ExactlyOne
<1> QED
  BY <1>4, <1>7, <1>8 DEF UseInv

(* A collection starts: its victim leaves its heap. *)
LEMMA GcStartUse == TypeOK /\ UseInv /\ GcStart /\ TypeOK' => UseInv'
<1> SUFFICES ASSUME TypeOK, UseInv, GcStart, TypeOK' PROVE UseInv'
  OBVIOUS
<1> DEFINE b == Top.bank
           scan(l, ow, n) == [op |-> "GcScan", page |-> 0, found |-> 0,
                              job |-> [bank |-> b, lbn |-> l, ow |-> ow, expected |-> n]]
<1>0. Running("Gc")
  BY DEF GcStart
<1>1. Len(stk) > 0 /\ Top.op = "Gc" /\ b \in Bank
  BY <1>0, RunningFrame, FrameKinds DEF GcFrame
<1>2. UNCHANGED logVars
  BY DEF GcStart
<1>3. PICK l \in Lbn, ow \in BOOLEAN, n \in {OwMin(b) - HighChunks, WMin(b)} :
         /\ stk' = At(scan(l, ow, n))
         /\ IF ow THEN /\ l \in owHeap[b] /\ owHeap' = [owHeap EXCEPT ![b] = @ \ {l}]
                       /\ wHeap' = wHeap
                  ELSE /\ l \in wHeap[b] /\ wHeap' = [wHeap EXCEPT ![b] = @ \ {l}]
                       /\ owHeap' = owHeap
  <2>1. CASE ChoosesOw(b)
    <3>1. PICK l \in Victims(owValid, owHeap, b) :
             /\ owHeap' = [owHeap EXCEPT ![b] = @ \ {l}]
             /\ stk' = At(scan(l, TRUE, OwMin(b) - HighChunks))
             /\ wHeap' = wHeap
      BY <2>1, Zenon DEF GcStart
    <3>2. l \in Lbn /\ l \in owHeap[b]
      BY <1>1, VictimsExist DEF TypeOK
    <3> QED
      BY <3>1, <3>2
  <2>2. CASE ~ ChoosesOw(b)
    <3>1. PICK l \in Victims(wValid, wHeap, b) :
             /\ wHeap' = [wHeap EXCEPT ![b] = @ \ {l}]
             /\ stk' = At(scan(l, FALSE, WMin(b)))
             /\ owHeap' = owHeap
      BY <2>2, Zenon DEF GcStart
    <3>2. l \in Lbn /\ l \in wHeap[b]
      BY <1>1, VictimsExist DEF TypeOK
    <3> QED
      BY <3>1, <3>2
  <2> QED
    BY <2>1, <2>2
<1> DEFINE f == scan(l, ow, n)
<1>4. f.op = "GcScan" /\ \A x, y : VictimIs(f, x, y) <=> x = b /\ y = l
  BY DEF VictimIs
<1>5. stk' = At(f) /\ "GcScan" \in GcOps
  BY <1>3 DEF GcOps
<1> HIDE DEF b, f, scan
<1>6. f \in Frame
  BY <1>1, <1>5, NewFrame
<1>7. ExactlyOne(InClean(b, l), rwCtrl[b].lbn = l /\ ~AllocatesW(stk, b), owCtrl[b].lbn = l,
                 l \in wHeap[b], l \in owHeap[b], HoldsVictim(stk, b, l))
  BY <1>1, OneUseOf
<1>8. ~ HoldsVictim(stk, b, l) /\ (l \in wHeap[b] \/ l \in owHeap[b])
  BY <1>3, <1>7 DEF ExactlyOne
<1>9. \A x, y : HoldsVictim(stk, x, y) <=> HoldsVictim(Below, x, y)
  BY <1>1, UseParts, CallersOrdered, NoVictimIn
<1>10. /\ Ordered(stk') /\ VictimsDiffer(stk')
       /\ \A x, y : HoldsVictim(stk', x, y) <=> HoldsVictim(stk, x, y) \/ (x = b /\ y = l)
       /\ \A x : ~ AllocatesW(stk', x) /\ ~ AllocatesW(stk, x)
       /\ \A x : AllocatesOw(stk', x) => AllocatesOw(stk, x)
  <2>1. LET t == At(f)
        IN  /\ t \in Seq(Frame) /\ Ordered(t) /\ VictimsDiffer(t)
            /\ f.op # "AllocRw" => NoW(t)
            /\ OwSearch(t) => OwSearch(Below) \/ f.op = "AllocOw"
            /\ \A x, y : HoldsVictim(t, x, y) <=> HoldsVictim(Below, x, y) \/ VictimIs(f, x, y)
            /\ \A x : AllocatesW(t, x) <=> f.op = "AllocRw" /\ f.bank = x
            /\ \A x : AllocatesOw(t, x) <=> AllocatesOw(Below, x) \/ (f.op = "AllocOw" /\ f.bank = x)
    BY <1>1, <1>4, <1>5, <1>6, <1>8, <1>9, UseParts, AtStack
  <2>2. \A x : ~ AllocatesW(stk, x)
    BY <1>1, UseParts, CallersOrdered
  <2>3. \A x : AllocatesOw(Below, x) => AllocatesOw(stk, x)
    BY <1>1, UseParts, CallersOrdered
  <2> QED
    BY <1>4, <1>5, <1>9, <2>1, <2>2, <2>3
<1>11. ASSUME NEW x \in Bank, NEW y \in Lbn
       PROVE  ExactlyOne(InClean(x, y), rwCtrl[x].lbn = y /\ ~AllocatesW(stk, x), owCtrl[x].lbn = y,
                         y \in wHeap[x], y \in owHeap[x], HoldsVictim(stk, x, y))'
  <2>1. ExactlyOne(InClean(x, y), rwCtrl[x].lbn = y /\ ~AllocatesW(stk, x), owCtrl[x].lbn = y,
                   y \in wHeap[x], y \in owHeap[x], HoldsVictim(stk, x, y))
    BY OneUseOf
  <2>2. /\ InClean(x, y)' <=> InClean(x, y)
        /\ (rwCtrl[x].lbn = y /\ ~AllocatesW(stk, x))' <=> (rwCtrl[x].lbn = y /\ ~AllocatesW(stk, x))
        /\ (owCtrl[x].lbn = y)' <=> owCtrl[x].lbn = y
    BY <1>2, <1>10 DEF logVars, InClean
  <2>3. HoldsVictim(stk, x, y)' <=> HoldsVictim(stk, x, y) \/ (x = b /\ y = l)
    BY <1>10
  <2>4. /\ (y \in wHeap[x])' <=> y \in wHeap[x] /\ ~ (~ow /\ x = b /\ y = l)
        /\ (y \in owHeap[x])' <=> y \in owHeap[x] /\ ~ (ow /\ x = b /\ y = l)
    <3>1. wHeap \in [Bank -> SUBSET Lbn] /\ owHeap \in [Bank -> SUBSET Lbn]
      BY DEF TypeOK
    <3>2. CASE ow
      <4>1. owHeap' = [owHeap EXCEPT ![b] = @ \ {l}] /\ wHeap' = wHeap
        BY <1>3, <3>2
      <4> QED
        BY <3>1, <3>2, <4>1
    <3>3. CASE ~ow
      <4>1. wHeap' = [wHeap EXCEPT ![b] = @ \ {l}] /\ owHeap' = owHeap
        BY <1>3, <3>3
      <4> QED
        BY <3>1, <3>3, <4>1
    <3> QED
      BY <3>2, <3>3
  <2>5. x = b /\ y = l => IF ow THEN y \in owHeap[x] ELSE y \in wHeap[x]
    BY <1>3
  <2>6. ow \in BOOLEAN
    BY <1>3
  <2> QED
    BY <2>1, <2>2, <2>3, <2>4, <2>5, <2>6 DEF ExactlyOne
<1>12. /\ \A x \in Bank : AllocatesOw(stk', x) => owCtrl'[x].lbn = NoBlk
       /\ \A x \in Bank : \A i, j \in DOMAIN clean'[x] : clean'[x][i] = clean'[x][j] => i = j
  BY <1>2, <1>10, UseParts DEF logVars
<1> QED
  BY <1>10, <1>11, <1>12 DEF UseInv

(* The victim of the top function is erased and clean again. *)
LEMMA VictimErased ==
    ASSUME TypeOK, UseInv, Len(stk) > 0, Top.job \in Job, Top.op \in {"GcScan", "GcCopy", "GcChunks"},
           \A x, y : VictimIs(Top, x, y) <=> x = Top.job.bank /\ y = Top.job.lbn,
           clean' = Pushed(Top.job),
           UNCHANGED <<owCtrl, wHeap, owHeap>>, \A x \in Bank : rwCtrl'[x].lbn = rwCtrl[x].lbn,
           Ordered(stk'), VictimsDiffer(stk'),
           \A x, y : HoldsVictim(stk', x, y) <=> HoldsVictim(Below, x, y),
           \A x : ~ AllocatesW(stk', x),
           \A x : AllocatesOw(stk', x) => AllocatesOw(Below, x)
    PROVE  UseInv'
<1> DEFINE b == Top.job.bank
           l == Top.job.lbn
<1>1. b \in Bank /\ l \in Lbn
  BY DEF Job
<1>2. /\ HoldsVictim(stk, b, l)
      /\ \A x \in Bank, y \in Lbn :
            HoldsVictim(Below, x, y) <=> HoldsVictim(stk, x, y) /\ ~ (x = b /\ y = l)
      /\ \A x : ~ AllocatesW(stk, x)
      /\ \A x : AllocatesOw(Below, x) => AllocatesOw(stk, x)
  <2>1. VictimIs(Top, b, l)
    OBVIOUS
  <2> HIDE DEF b, l
  <2>2. /\ \A x, y : HoldsVictim(stk, x, y) <=> HoldsVictim(Below, x, y) \/ VictimIs(Top, x, y)
        /\ \A x \in Bank, y \in Lbn : ~ (HoldsVictim(Below, x, y) /\ VictimIs(Top, x, y))
        /\ \A x : AllocatesW(stk, x) <=> Top.op = "AllocRw" /\ Top.bank = x
        /\ \A x : AllocatesOw(stk, x) <=> AllocatesOw(Below, x) \/ (Top.op = "AllocOw" /\ Top.bank = x)
    BY UseParts, CallersOrdered
  <2>3. \A x, y : VictimIs(Top, x, y) <=> x = b /\ y = l
    BY DEF b, l
  <2> QED
    BY <2>1, <2>2, <2>3
<1>3. ~ InClean(b, l)
  <2>1. ExactlyOne(InClean(b, l), rwCtrl[b].lbn = l /\ ~AllocatesW(stk, b), owCtrl[b].lbn = l,
                   l \in wHeap[b], l \in owHeap[b], HoldsVictim(stk, b, l))
    BY <1>1, OneUseOf
  <2> QED
    BY <1>2, <2>1 DEF ExactlyOne
<1>4. /\ \A x \in Bank : \A i, k \in DOMAIN clean'[x] : clean'[x][i] = clean'[x][k] => i = k
      /\ \A x \in Bank, y \in Lbn : InClean(x, y)' <=> InClean(x, y) \/ (x = b /\ y = l)
  BY <1>3, PushedClean
<1> HIDE DEF b, l
<1>5. ASSUME NEW x \in Bank, NEW y \in Lbn
      PROVE  ExactlyOne(InClean(x, y), rwCtrl[x].lbn = y /\ ~AllocatesW(stk, x), owCtrl[x].lbn = y,
                        y \in wHeap[x], y \in owHeap[x], HoldsVictim(stk, x, y))'
  <2>1. ExactlyOne(InClean(x, y), rwCtrl[x].lbn = y /\ ~AllocatesW(stk, x), owCtrl[x].lbn = y,
                   y \in wHeap[x], y \in owHeap[x], HoldsVictim(stk, x, y))
    BY OneUseOf
  <2>2. /\ (rwCtrl[x].lbn = y /\ ~AllocatesW(stk, x))' <=> (rwCtrl[x].lbn = y /\ ~AllocatesW(stk, x))
        /\ (owCtrl[x].lbn = y)' <=> owCtrl[x].lbn = y
        /\ (y \in wHeap[x])' <=> y \in wHeap[x]
        /\ (y \in owHeap[x])' <=> y \in owHeap[x]
    BY <1>2
  <2>3. HoldsVictim(stk, x, y)' <=> HoldsVictim(stk, x, y) /\ ~ (x = b /\ y = l)
    BY <1>2
  <2>4. InClean(x, y)' <=> InClean(x, y) \/ (x = b /\ y = l)
    BY <1>4
  <2>5. x = b /\ y = l => HoldsVictim(stk, x, y)
    BY <1>2
  <2> QED
    BY <2>1, <2>2, <2>3, <2>4, <2>5 DEF ExactlyOne
<1>6. \A x \in Bank : AllocatesOw(stk', x) => owCtrl'[x].lbn = NoBlk
  BY <1>2, UseParts
<1> QED
  BY <1>4, <1>5, <1>6 DEF UseInv

LEMMA GcEndUse == TypeOK /\ UseInv /\ GcEnd => UseInv'
<1> SUFFICES ASSUME TypeOK, UseInv, GcEnd PROVE UseInv'
  OBVIOUS
<1>0. Running("GcScan")
  BY DEF GcEnd
<1>1. Len(stk) > 0 /\ Top.op = "GcScan" /\ Top.job \in Job
  BY <1>0, RunningFrame, ScanRunning
<1>2. \A x, y : VictimIs(Top, x, y) <=> x = Top.job.bank /\ y = Top.job.lbn
  BY <1>1 DEF VictimIs
<1>3. /\ clean' = Pushed(Top.job) /\ stk' = Below
      /\ UNCHANGED <<owCtrl, wHeap, owHeap>> /\ \A x \in Bank : rwCtrl'[x].lbn = rwCtrl[x].lbn
  BY DEF GcEnd, heapVars
<1>4. Ordered(Below) /\ VictimsDiffer(Below) /\ \A x : ~ AllocatesW(Below, x)
  BY <1>1, UseParts, CallersOrdered
<1> QED
  BY <1>1, <1>2, <1>3, <1>4, VictimErased

LEMMA GcPartialPageUse == TypeOK /\ UseInv /\ GcPartialPage /\ TypeOK' => UseInv'
<1> SUFFICES ASSUME TypeOK, UseInv, GcPartialPage, TypeOK' PROVE UseInv'
  OBVIOUS
<1>0. Running("GcScan")
  BY DEF GcPartialPage
<1>1. Len(stk) > 0 /\ Top.op = "GcScan" /\ Top.job \in Job
  BY <1>0, RunningFrame, ScanRunning
<1>2. \A x, y : VictimIs(Top, x, y) <=> x = Top.job.bank /\ y = Top.job.lbn
  BY <1>1 DEF VictimIs
<1> DEFINE j     == Top.job
           p     == Min(PagesLeft(Top))
           valid == ValidSlots(j, p)
           found == Top.found + Cardinality(valid)
           nth(i) == CHOOSE s \in valid : Cardinality({t \in valid : t < s}) = i - 1
           pending == [i \in 1 .. Cardinality(valid) |->
                        [chunk |-> Owner(j, p, nth(i)), data |-> flash[<<j.bank, j.lbn, p>>][nth(i)]]]
<1>3. /\ stk' = At([op |-> "GcChunks", job |-> Top.job, page |-> p, found |-> found, pending |-> pending])
      /\ IF found = Top.job.expected
         THEN /\ flash' = ErasedFlash(j, flash)
              /\ flashList' = ErasedLists(j)
              /\ clean' = Pushed(Top.job)
         ELSE UNCHANGED <<flash, flashList, clean>>
  BY DEF GcPartialPage
<1> HIDE DEF j, p, found, pending
<1> DEFINE f == [op |-> "GcChunks", job |-> Top.job, page |-> p, found |-> found, pending |-> pending]
<1>4. f.op = "GcChunks" /\ f.job = Top.job /\ f.found = found /\ "GcChunks" \in GcOps /\ stk' = At(f)
  BY <1>3 DEF GcOps
<1>5. UNCHANGED <<owCtrl, wHeap, owHeap>> /\ rwCtrl' = rwCtrl
  BY DEF GcPartialPage, heapVars
<1> HIDE DEF f
<1>6. f \in Frame
  BY <1>1, <1>4, NewFrame
<1>7. CASE found = Top.job.expected
  <2>1. \A x, y : ~ VictimIs(f, x, y)
    BY <1>4, <1>7 DEF VictimIs
  <2>2. LET t == At(f)
        IN  /\ t \in Seq(Frame) /\ Ordered(t) /\ VictimsDiffer(t)
            /\ f.op # "AllocRw" => NoW(t)
            /\ OwSearch(t) => OwSearch(Below) \/ f.op = "AllocOw"
            /\ \A x, y : HoldsVictim(t, x, y) <=> HoldsVictim(Below, x, y) \/ VictimIs(f, x, y)
            /\ \A x : AllocatesW(t, x) <=> f.op = "AllocRw" /\ f.bank = x
            /\ \A x : AllocatesOw(t, x) <=> AllocatesOw(Below, x) \/ (f.op = "AllocOw" /\ f.bank = x)
    BY <1>1, <1>4, <1>6, <2>1, UseParts, AtStack
  <2>3. clean' = Pushed(Top.job)
    BY <1>3, <1>7
  <2>4. /\ Ordered(stk') /\ VictimsDiffer(stk')
        /\ \A x, y : HoldsVictim(stk', x, y) <=> HoldsVictim(Below, x, y)
        /\ \A x : ~ AllocatesW(stk', x)
        /\ \A x : AllocatesOw(stk', x) => AllocatesOw(Below, x)
    BY <1>4, <2>1, <2>2
  <2> QED
    BY <1>1, <1>2, <1>5, <2>3, <2>4, VictimErased
<1>8. CASE found # Top.job.expected
  <2>1. \A x, y : VictimIs(f, x, y) <=> VictimIs(Top, x, y)
    BY <1>1, <1>4, <1>8 DEF VictimIs
  <2>2. StackQuiet
    BY <1>1, <1>4, <1>6, <2>1, Replaced
  <2>3. UNCHANGED <<clean, wHeap, owHeap>>
        /\ \A x \in Bank : rwCtrl'[x].lbn = rwCtrl[x].lbn /\ owCtrl'[x].lbn = owCtrl[x].lbn
    BY <1>3, <1>5, <1>8
  <2> QED
    BY <2>2, <2>3, QuietStep
<1> QED
  BY <1>7, <1>8

(* A page of a W block has been programmed: a full block enters the heap   *)
(* and its place is empty.  Blocks whose collection ends in the same step  *)
(* are clean. *)
LEMMA RWPageUse ==
    ASSUME TypeOK, UseInv, Len(stk) > 0, Top.op \in {"FlushW", "WritePage", "GcCopy"},
           NEW d \in Bank, rwCtrl[d].lbn # NoBlk, NEW list, NEW lists, NEW callers \in Seq(Frame),
           IncreaseRWLpn(d, list, lists, callers), UNCHANGED <<owCtrl, owHeap>>,
           Ordered(callers), VictimsDiffer(callers), NoW(callers),
           \A x : AllocatesOw(callers, x) => AllocatesOw(stk, x),
           \A x \in Bank : \A i, k \in DOMAIN clean'[x] : clean'[x][i] = clean'[x][k] => i = k,
           \A x \in Bank, y \in Lbn :
              \/ /\ InClean(x, y)' <=> InClean(x, y)
                 /\ HoldsVictim(callers, x, y) <=> HoldsVictim(stk, x, y)
              \/ HoldsVictim(stk, x, y) /\ ~ HoldsVictim(callers, x, y) /\ InClean(x, y)'
    PROVE  UseInv'
<1> DEFINE l == rwCtrl[d].lbn
           g == [op |-> "AllocRw", bank |-> d, check |-> TRUE]
<1>1. /\ l \in Lbn /\ rwCtrl \in [Bank -> RWCtrl] /\ wHeap \in [Bank -> SUBSET Lbn]
  BY DEF TypeOK, RWCtrl
<1>2. \A x : ~ AllocatesW(stk, x) /\ ~ AllocatesW(callers, x)
  BY UseParts, CallersOrdered, NoWAllocates
<1>3. /\ Ordered(stk') /\ VictimsDiffer(stk')
      /\ \A x, y : HoldsVictim(stk', x, y) <=> HoldsVictim(callers, x, y)
      /\ \A x : AllocatesOw(stk', x) <=> AllocatesOw(callers, x)
      /\ \/ /\ \A x \in Bank, y \in Lbn : (y \in wHeap[x])' <=> y \in wHeap[x] \/ (x = d /\ y = l)
            /\ \A x : AllocatesW(stk', x) <=> x = d
            /\ rwCtrl' = rwCtrl
         \/ /\ wHeap' = wHeap
            /\ \A x : ~ AllocatesW(stk', x)
            /\ \A x \in Bank : rwCtrl'[x].lbn = rwCtrl[x].lbn
  <2>1. CASE rwCtrl[d].page = LastPage
    <3>1. /\ wHeap' = [wHeap EXCEPT ![d] = @ \cup {l}]
          /\ stk' = Append(callers, g) /\ rwCtrl' = rwCtrl
      BY <2>1, Zenon DEF IncreaseRWLpn
    <3>2. g \in Frame
      BY DEF Frame, AllocRwFrame
    <3>3. g.op = "AllocRw" /\ g.bank = d /\ "AllocRw" \in GcOps
      BY DEF GcOps
    <3> HIDE DEF g, l
    <3>4. \A x, y : ~ VictimIs(g, x, y)
      BY <3>3, NoVictimIn
    <3> DEFINE t == Append(callers, g)
    <3>5. /\ \A b, y : HoldsVictim(t, b, y) <=> HoldsVictim(callers, b, y) \/ VictimIs(g, b, y)
          /\ \A b : AllocatesW(t, b) <=> AllocatesW(callers, b) \/ (g.op = "AllocRw" /\ g.bank = b)
          /\ \A b : AllocatesOw(t, b) <=> AllocatesOw(callers, b) \/ (g.op = "AllocOw" /\ g.bank = b)
          /\ Ordered(t) <=> Ordered(callers) /\ NoW(callers) /\ (OwSearch(callers) => g.op \in GcOps)
          /\ VictimsDiffer(t) <=>
                /\ VictimsDiffer(callers)
                /\ \A b \in Bank, y \in Lbn : ~ (HoldsVictim(callers, b, y) /\ VictimIs(g, b, y))
      BY <3>2, Push
    <3>6. stk' = t
      BY <3>1
    <3> HIDE DEF t
    <3>7. \A x \in Bank, y \in Lbn : (y \in wHeap[x])' <=> y \in wHeap[x] \/ (x = d /\ y = l)
      BY <1>1, <3>1
    <3> QED
      BY <1>2, <3>1, <3>3, <3>4, <3>5, <3>6, <3>7
  <2>2. CASE rwCtrl[d].page # LastPage
    <3>1. /\ stk' = callers /\ wHeap' = wHeap
          /\ rwCtrl' = [rwCtrl EXCEPT ![d].page = @ + IF rwCtrl[d].isOw THEN 2 ELSE 1]
      BY <2>2, Zenon DEF IncreaseRWLpn
    <3>2. \A x \in Bank : rwCtrl'[x].lbn = rwCtrl[x].lbn
      BY <1>1, <3>1 DEF RWCtrl
    <3> QED
      BY <1>2, <3>1, <3>2
  <2> QED
    BY <2>1, <2>2
<1> HIDE DEF l, g
<1>4. ASSUME NEW x \in Bank, NEW y \in Lbn
      PROVE  ExactlyOne(InClean(x, y), rwCtrl[x].lbn = y /\ ~AllocatesW(stk, x), owCtrl[x].lbn = y,
                        y \in wHeap[x], y \in owHeap[x], HoldsVictim(stk, x, y))'
  <2>1. ExactlyOne(InClean(x, y), rwCtrl[x].lbn = y /\ ~AllocatesW(stk, x), owCtrl[x].lbn = y,
                   y \in wHeap[x], y \in owHeap[x], HoldsVictim(stk, x, y))
    BY OneUseOf
  <2>2. \/ /\ (y \in wHeap[x])' <=> y \in wHeap[x] \/ (rwCtrl[x].lbn = y /\ x = d)
           /\ (rwCtrl[x].lbn = y /\ ~AllocatesW(stk, x))' <=> rwCtrl[x].lbn = y /\ x # d
        \/ /\ (y \in wHeap[x])' <=> y \in wHeap[x]
           /\ (rwCtrl[x].lbn = y /\ ~AllocatesW(stk, x))' <=> rwCtrl[x].lbn = y
    BY <1>3 DEF l
  <2>3. /\ (owCtrl[x].lbn = y)' <=> owCtrl[x].lbn = y
        /\ (y \in owHeap[x])' <=> y \in owHeap[x]
        /\ HoldsVictim(stk, x, y)' <=> HoldsVictim(callers, x, y)
        /\ ~ AllocatesW(stk, x)
    BY <1>2, <1>3
  <2>4. \/ /\ InClean(x, y)' <=> InClean(x, y)
           /\ HoldsVictim(callers, x, y) <=> HoldsVictim(stk, x, y)
        \/ HoldsVictim(stk, x, y) /\ ~ HoldsVictim(callers, x, y) /\ InClean(x, y)'
    OBVIOUS
  <2> QED
    BY <2>1, <2>2, <2>3, <2>4 DEF ExactlyOne
<1>5. \A x \in Bank : AllocatesOw(stk', x) => owCtrl'[x].lbn = NoBlk
  BY <1>3, UseParts
<1> QED
  BY <1>3, <1>4, <1>5 DEF UseInv

LEMMA WPageUse ==
    ASSUME TypeOK, UseInv, FlushW \/ WritePage
    PROVE  UseInv'
<1>1. PICK op \in {"FlushW", "WritePage"} : Running(op)
  BY DEF FlushW, WritePage
<1>2. Len(stk) > 0 /\ Top.op = op /\ Top.bank \in Bank
  BY <1>1, RunningFrame, FrameKinds DEF FlushWFrame, WritePageFrame
<1>3. PICK list, lists : IncreaseRWLpn(Top.bank, list, lists, Below)
  BY Zenon DEF FlushW, WritePage
<1>4. rwCtrl[Top.bank].lbn # NoBlk /\ clean' = clean /\ UNCHANGED <<owCtrl, owHeap>>
  BY DEF FlushW, WritePage
<1>5. /\ Below \in Seq(Frame) /\ Ordered(Below) /\ VictimsDiffer(Below) /\ NoW(Below)
      /\ \A x : AllocatesOw(Below, x) => AllocatesOw(stk, x)
      /\ \A x, y : HoldsVictim(stk, x, y) <=> HoldsVictim(Below, x, y)
  BY <1>2, UseParts, CallersOrdered, NoVictimIn
<1>6. \A x \in Bank : \A i, k \in DOMAIN clean'[x] : clean'[x][i] = clean'[x][k] => i = k
  BY <1>4, UseParts
<1>7. \A x \in Bank, y \in Lbn : InClean(x, y)' <=> InClean(x, y)
  BY <1>4 DEF InClean
<1> QED
  BY <1>2, <1>3, <1>4, <1>5, <1>6, <1>7, RWPageUse

LEMMA GcCopyPageUse == TypeOK /\ UseInv /\ GcCopyPage => UseInv'
<1> SUFFICES ASSUME TypeOK, UseInv, GcCopyPage PROVE UseInv'
  OBVIOUS
<1> DEFINE d == Top.bank
           j == Top.job
           f == [op |-> "GcScan", page |-> Top.page + 1, found |-> Top.found, job |-> j]
<1>0. Running("GcCopy")
  BY DEF GcCopyPage
<1>1. Len(stk) > 0 /\ Top.op = "GcCopy" /\ Top \in GcCopyFrame
  BY <1>0, RunningFrame, FrameKinds
<1>2. d \in Bank /\ j \in Job /\ j.bank \in Bank /\ j.lbn \in Lbn /\ Top.page \in Page /\ Top.found \in Nat
  BY <1>1 DEF GcCopyFrame, Job
<1>3. rwCtrl[d].lbn # NoBlk /\ UNCHANGED <<owCtrl, owHeap>>
  BY DEF GcCopyPage
<1>4. \A x, y : VictimIs(Top, x, y) <=> x = j.bank /\ y = j.lbn
  BY <1>1 DEF VictimIs
<1>5. /\ Below \in Seq(Frame) /\ Ordered(Below) /\ VictimsDiffer(Below) /\ NoW(Below)
      /\ \A x : AllocatesOw(Below, x) <=> AllocatesOw(stk, x)
      /\ \A x, y : HoldsVictim(stk, x, y) <=> HoldsVictim(Below, x, y) \/ VictimIs(Top, x, y)
      /\ \A x \in Bank, y \in Lbn : ~ (HoldsVictim(Below, x, y) /\ VictimIs(Top, x, y))
  BY <1>1, UseParts, CallersOrdered
<1>6. CASE Top.found = j.expected
  <2>1. PICK list, lists : IncreaseRWLpn(d, list, lists, Below)
    BY <1>6, Zenon DEF GcCopyPage
  <2>2. clean' = Pushed(j)
    BY <1>6 DEF GcCopyPage
  <2> HIDE DEF d, j
  <2>3. ~ InClean(j.bank, j.lbn)
    <3>1. ExactlyOne(InClean(j.bank, j.lbn), rwCtrl[j.bank].lbn = j.lbn /\ ~AllocatesW(stk, j.bank),
                     owCtrl[j.bank].lbn = j.lbn, j.lbn \in wHeap[j.bank], j.lbn \in owHeap[j.bank],
                     HoldsVictim(stk, j.bank, j.lbn))
      BY <1>2, OneUseOf
    <3>2. HoldsVictim(stk, j.bank, j.lbn)
      BY <1>4, <1>5
    <3> QED
      BY <3>1, <3>2 DEF ExactlyOne
  <2>4. /\ \A x \in Bank : \A i, k \in DOMAIN clean'[x] : clean'[x][i] = clean'[x][k] => i = k
        /\ \A x \in Bank, y \in Lbn :
              InClean(x, y)' <=> InClean(x, y) \/ (x = j.bank /\ y = j.lbn)
    BY <1>2, <2>2, <2>3, PushedClean
  <2>5. ASSUME NEW x \in Bank, NEW y \in Lbn
        PROVE  \/ /\ InClean(x, y)' <=> InClean(x, y)
                  /\ HoldsVictim(Below, x, y) <=> HoldsVictim(stk, x, y)
               \/ HoldsVictim(stk, x, y) /\ ~ HoldsVictim(Below, x, y) /\ InClean(x, y)'
    BY <1>4, <1>5, <2>4
  <2> QED
    BY <1>1, <1>2, <1>3, <1>5, <2>1, <2>4, <2>5, RWPageUse
<1>7. CASE Top.found # j.expected
  <2>1. PICK list, lists : IncreaseRWLpn(d, list, lists, At(f))
    BY <1>7, Zenon DEF GcCopyPage
  <2>2. clean' = clean
    BY <1>7 DEF GcCopyPage
  <2>3. f \in Frame
    <3>1. \A x \in Page : x + 1 \in Nat
      BY Geometry DEF Page
    <3> HIDE DEF j
    <3> QED
      BY <1>2, <3>1, ScanTyped
  <2>4. f.op = "GcScan" /\ "GcScan" \in GcOps /\ \A x, y : VictimIs(f, x, y) <=> VictimIs(Top, x, y)
    BY <1>4 DEF GcOps, VictimIs
  <2> HIDE DEF d, j, f
  <2>5. LET t == At(f)
        IN  /\ t \in Seq(Frame) /\ Ordered(t) /\ VictimsDiffer(t)
            /\ f.op # "AllocRw" => NoW(t)
            /\ OwSearch(t) => OwSearch(Below) \/ f.op = "AllocOw"
            /\ \A b, l : HoldsVictim(t, b, l) <=> HoldsVictim(Below, b, l) \/ VictimIs(f, b, l)
            /\ \A b : AllocatesW(t, b) <=> f.op = "AllocRw" /\ f.bank = b
            /\ \A b : AllocatesOw(t, b) <=> AllocatesOw(Below, b) \/ (f.op = "AllocOw" /\ f.bank = b)
    BY <1>1, <1>5, <2>3, <2>4, UseParts, AtStack
  <2>6. /\ At(f) \in Seq(Frame) /\ Ordered(At(f)) /\ VictimsDiffer(At(f)) /\ NoW(At(f))
        /\ \A x : AllocatesOw(At(f), x) => AllocatesOw(stk, x)
        /\ \A x, y : HoldsVictim(At(f), x, y) <=> HoldsVictim(stk, x, y)
    BY <1>5, <2>4, <2>5
  <2>7. \A x \in Bank : \A i, k \in DOMAIN clean'[x] : clean'[x][i] = clean'[x][k] => i = k
    BY <2>2, UseParts
  <2>8. \A x \in Bank, y \in Lbn : InClean(x, y)' <=> InClean(x, y)
    BY <2>2 DEF InClean
  <2> QED
    BY <1>1, <1>2, <1>3, <2>1, <2>6, <2>7, <2>8, RWPageUse
<1> QED
  BY <1>6, <1>7

(* A page of an OW block has been programmed: a full block enters its heap *)
(* and another is looked for. *)
LEMMA OwPageUse ==
    ASSUME TypeOK, UseInv, OwPage \/ FlushOw
    PROVE  UseInv'
<1> DEFINE b == Top.bank
           l == owCtrl[b].lbn
           g == [op |-> "AllocOw", bank |-> b, count |-> 0]
<1>1. PICK op \in {"OwPage", "FlushOw"} : Running(op)
  BY DEF OwPage, FlushOw
<1>2. Len(stk) > 0 /\ Top.op = op /\ b \in Bank
  BY <1>1, RunningFrame, FrameKinds DEF OwPageFrame, FlushOwFrame
<1>3. PICK list : IncreaseOWLpn(b, list, Below)
  BY Zenon DEF OwPage, FlushOw
<1>4. l # NoBlk /\ UNCHANGED <<clean, rwCtrl, wHeap>>
  BY DEF OwPage, FlushOw
<1>5. l \in Lbn /\ owCtrl \in [Bank -> OWCtrl] /\ owHeap \in [Bank -> SUBSET Lbn]
  BY <1>2, <1>4 DEF TypeOK, OWCtrl
<1>6. /\ Below \in Seq(Frame) /\ Ordered(Below) /\ VictimsDiffer(Below) /\ NoW(Below)
      /\ \A x : AllocatesOw(Below, x) <=> AllocatesOw(stk, x)
      /\ \A x, y : HoldsVictim(stk, x, y) <=> HoldsVictim(Below, x, y)
      /\ OwSearch(Below) => Top.op \in GcOps
      /\ \A x : ~ AllocatesW(stk, x) /\ ~ AllocatesW(Below, x)
  BY <1>2, UseParts, CallersOrdered, NoVictimIn
<1>7. CASE owCtrl[b].page # LastLowPage
  <2>1. /\ owCtrl' = [owCtrl EXCEPT ![b].page = IF owCtrl[b].page = 0 THEN 1 ELSE owCtrl[b].page + 2]
        /\ stk' = Below /\ owHeap' = owHeap
    BY <1>3, <1>7 DEF IncreaseOWLpn
  <2>2. \A x \in Bank : owCtrl'[x].lbn = owCtrl[x].lbn
    BY <1>5, <2>1 DEF OWCtrl
  <2>3. \A x, y : ~ VictimIs(Top, x, y)
    BY <1>2, NoVictimIn
  <2>4. StackQuiet
    BY <1>2, <2>1, <2>3, Returned
  <2> QED
    BY <1>4, <2>1, <2>2, <2>4, QuietStep
<1>8. CASE owCtrl[b].page = LastLowPage
  <2>1. /\ owHeap' = [owHeap EXCEPT ![b] = @ \cup {l}]
        /\ owCtrl' = [owCtrl EXCEPT ![b].lbn = NoBlk]
        /\ stk' = Append(Below, g)
    BY <1>3, <1>8 DEF IncreaseOWLpn
  <2>2. g \in Frame /\ g.op = "AllocOw" /\ g.bank = b
    BY <1>2 DEF Frame, AllocOwFrame
  <2> HIDE DEF b, l, g
  <2>3. /\ \A x \in Bank, y \in Lbn : (y \in owHeap[x])' <=> y \in owHeap[x] \/ (x = b /\ y = l)
        /\ owCtrl'[b].lbn = NoBlk /\ \A x \in Bank : x # b => owCtrl'[x] = owCtrl[x]
    BY <1>2, <1>5, <2>1 DEF OWCtrl
  <2>4. ~ OwSearch(Below) /\ \A x : ~ AllocatesOw(Below, x)
    <3>1. Top.op \notin GcOps
      BY <1>2 DEF GcOps
    <3> QED
      BY <1>6, <3>1, NoWAllocates
  <2>5. /\ Ordered(stk') /\ VictimsDiffer(stk')
        /\ \A x, y : HoldsVictim(stk', x, y) <=> HoldsVictim(stk, x, y)
        /\ \A x : ~ AllocatesW(stk', x)
        /\ \A x : AllocatesOw(stk', x) <=> x = b
    <3> DEFINE t == Append(Below, g)
    <3>1. /\ \A x, y : HoldsVictim(t, x, y) <=> HoldsVictim(Below, x, y) \/ VictimIs(g, x, y)
          /\ \A x : AllocatesW(t, x) <=> AllocatesW(Below, x) \/ (g.op = "AllocRw" /\ g.bank = x)
          /\ \A x : AllocatesOw(t, x) <=> AllocatesOw(Below, x) \/ (g.op = "AllocOw" /\ g.bank = x)
          /\ Ordered(t) <=> Ordered(Below) /\ NoW(Below) /\ (OwSearch(Below) => g.op \in GcOps)
          /\ VictimsDiffer(t) <=>
                /\ VictimsDiffer(Below)
                /\ \A x \in Bank, y \in Lbn : ~ (HoldsVictim(Below, x, y) /\ VictimIs(g, x, y))
      BY <1>6, <2>2, Push
    <3>2. stk' = t
      BY <2>1
    <3> HIDE DEF t
    <3>3. \A x, y : ~ VictimIs(g, x, y)
      BY <2>2, NoVictimIn
    <3> QED
      BY <1>6, <2>2, <2>4, <3>1, <3>2, <3>3
  <2>6. ASSUME NEW x \in Bank, NEW y \in Lbn
        PROVE  ExactlyOne(InClean(x, y), rwCtrl[x].lbn = y /\ ~AllocatesW(stk, x), owCtrl[x].lbn = y,
                          y \in wHeap[x], y \in owHeap[x], HoldsVictim(stk, x, y))'
    <3>1. ExactlyOne(InClean(x, y), rwCtrl[x].lbn = y /\ ~AllocatesW(stk, x), owCtrl[x].lbn = y,
                     y \in wHeap[x], y \in owHeap[x], HoldsVictim(stk, x, y))
      BY OneUseOf
    <3>2. /\ InClean(x, y)' <=> InClean(x, y)
          /\ (rwCtrl[x].lbn = y /\ ~AllocatesW(stk, x))' <=> (rwCtrl[x].lbn = y /\ ~AllocatesW(stk, x))
          /\ (y \in wHeap[x])' <=> y \in wHeap[x]
          /\ HoldsVictim(stk, x, y)' <=> HoldsVictim(stk, x, y)
      BY <1>4, <1>6, <2>5 DEF InClean
    <3>3. (owCtrl[x].lbn = y)' <=> owCtrl[x].lbn = y /\ ~ (x = b /\ y = l)
      BY <2>3, UseParts DEF l
    <3>4. (y \in owHeap[x])' <=> y \in owHeap[x] \/ (x = b /\ y = l)
      BY <2>3
    <3>5. x = b /\ y = l => owCtrl[x].lbn = y
      BY DEF l
    <3> QED
      BY <3>1, <3>2, <3>3, <3>4, <3>5 DEF ExactlyOne
  <2>7. /\ \A x \in Bank : AllocatesOw(stk', x) => owCtrl'[x].lbn = NoBlk
        /\ \A x \in Bank : \A i, j \in DOMAIN clean'[x] : clean'[x][i] = clean'[x][j] => i = j
    BY <1>4, <2>3, <2>5, UseParts
  <2> QED
    BY <2>5, <2>6, <2>7 DEF UseInv
<1> QED
  BY <1>7, <1>8

LEMMA InitUse == Init => UseInv
<1> SUFFICES ASSUME Init PROVE UseInv
  OBVIOUS
<1>1. stk = << >> /\ clean = [b \in Bank |-> [i \in 1 .. LogBlks |-> i - 1]]
  BY DEF Init
<1>2. \A b \in Bank : /\ rwCtrl[b].lbn = NoBlk /\ owCtrl[b].lbn = NoBlk
                      /\ wHeap[b] = {} /\ owHeap[b] = {}
  BY DEF Init
<1>3. /\ Ordered(stk) /\ VictimsDiffer(stk)
      /\ \A b, l : ~ HoldsVictim(stk, b, l)
      /\ \A b : ~ AllocatesOw(stk, b)
  BY <1>1, EmptyStack
<1>4. \A b \in Bank : \A i, j \in DOMAIN clean[b] : clean[b][i] = clean[b][j] => i = j
  BY <1>1, Geometry
<1>5. \A b \in Bank, l \in Lbn : InClean(b, l)
  <2> SUFFICES ASSUME NEW b \in Bank, NEW l \in Lbn PROVE InClean(b, l)
    OBVIOUS
  <2>1. l + 1 \in 1 .. LogBlks /\ (l + 1) - 1 = l
    BY Geometry DEF Lbn
  <2> QED
    BY <1>1, <2>1 DEF InClean
<1>6. \A l \in Lbn : l # NoBlk
  BY DEF Lbn, NoBlk
<1>7. \A b \in Bank, l \in Lbn :
         ExactlyOne(InClean(b, l), rwCtrl[b].lbn = l /\ ~AllocatesW(stk, b), owCtrl[b].lbn = l,
                    l \in wHeap[b], l \in owHeap[b], HoldsVictim(stk, b, l))
  BY <1>2, <1>3, <1>5, <1>6 DEF ExactlyOne
<1> QED
  BY <1>3, <1>4, <1>7 DEF UseInv

LEMMA UseStep == TypeOK /\ PagesInRange /\ UseInv /\ [Next]_vars => UseInv'
<1> SUFFICES ASSUME TypeOK, PagesInRange, UseInv, [Next]_vars PROVE UseInv'
  OBVIOUS
<1>1. TypeOK'
  BY TypesStep
<1>2. CASE LogNext
  <2>1. AllocRwHang => UseInv'
    BY HangUse DEF AllocRwHang
  <2> QED
    BY <1>1, <1>2, <2>1, GetRWLpnUse, AllocRwPopUse, SealOWBlkUse, AllocRwGcUse, CheckSpaceUse,
       GetOWLpnUse, AllocOwPopUse, AllocOwGcUse DEF LogNext
<1>3. CASE GcNext
  <2>1. GcStartHang => UseInv'
    BY HangUse DEF GcStartHang
  <2> QED
    BY <1>1, <1>3, <2>1, GcStartUse, GcEndUse, GcFullPageUse, GcCopyPageUse, GcPartialPageUse,
       GcWriteChunkUse, GcPageDoneUse, WPageUse DEF GcNext
<1>4. CASE WriteStep
  BY <1>1, <1>4, WPageUse, WriteChunkInPlaceUse, WriteChunkUse, DoneUse, CleanGcUse DEF WriteStep
<1>5. CASE OverwriteStep
  BY <1>1, <1>5, OwChunksUse, DoneUse, OwExhaustedChunkUse, OwPageUse DEF OverwriteStep
<1>6. ASSUME NEW lpn \in Lpn, NEW r \in Requests,
             \/ TrimRequest(lpn, r.pieces)
             \/ WritePageRequest(lpn, r.pieces)
             \/ WriteChunksRequest(lpn, r.pieces)
             \/ OverwriteInPlace(lpn, r.pieces)
             \/ OverwritePageRequest(lpn, r.pieces)
             \/ OverwriteExhaustedRequest(lpn, r.pieces)
             \/ OverwriteChunksRequest(lpn, r.pieces)
      PROVE  UseInv'
  BY <1>1, <1>6, RequestUse
<1>7. CASE UNCHANGED vars
  <2>1. UNCHANGED <<rwCtrl, owCtrl, clean, wHeap, owHeap, stk>>
    BY <1>7 DEF vars, logVars, heapVars
  <2> QED
    BY <2>1 DEF UseInv, InClean
<1> QED
  BY <1>2, <1>3, <1>4, <1>5, <1>6, <1>7 DEF Next, WriteNext, OverwriteNext

(* Exactly one use is one element of Uses. *)
LEMMA UseOne ==
    ASSUME TypeOK, UseInv
    PROVE  OneUse
<1> SUFFICES ASSUME NEW b \in Bank, NEW l \in Lbn PROVE Cardinality(Uses(b, l)) = 1
  BY DEF OneUse
<1>1. ExactlyOne(InClean(b, l), rwCtrl[b].lbn = l /\ ~AllocatesW(stk, b), owCtrl[b].lbn = l,
                 l \in wHeap[b], l \in owHeap[b], HoldsVictim(stk, b, l))
  BY OneUseOf
<1>2. (rwCtrl[b].lbn = l /\ ~AllocatesW(stk, b)) <=> Filling(b, l)
  BY DEF Filling, AllocatesW
<1>3. HoldsVictim(stk, b, l) <=> Collecting(b, l)
  BY DEF HoldsVictim, VictimIs, Collecting
<1>4. \A i, j \in DOMAIN clean[b] : clean[b][i] = clean[b][j] => i = j
  BY UseParts
<1> DEFINE places == {<<"clean", i>> : i \in {i \in DOMAIN clean[b] : clean[b][i] = l}}
<1>5. /\ InClean(b, l) => \E i : places = {<<"clean", i>>}
      /\ ~ InClean(b, l) => places = {}
  <2>1. ASSUME NEW i \in DOMAIN clean[b], clean[b][i] = l
        PROVE  places = {<<"clean", i>>}
    BY <1>4, <2>1
  <2> QED
    BY <2>1 DEF InClean
<1>6. Uses(b, l) = places \cup (IF Filling(b, l) THEN {<<"W">>} ELSE {})
                     \cup (IF owCtrl[b].lbn = l THEN {<<"OW">>} ELSE {})
                     \cup (IF l \in wHeap[b] THEN {<<"WHeap">>} ELSE {})
                     \cup (IF l \in owHeap[b] THEN {<<"OwHeap">>} ELSE {})
                     \cup (IF Collecting(b, l) THEN {<<"victim">>} ELSE {})
  BY DEF Uses
<1> HIDE DEF places
<1>7. \E x : Uses(b, l) = {x}
  BY <1>1, <1>2, <1>3, <1>5, <1>6, Zenon DEF ExactlyOne
<1> QED
  BY <1>7, FS_Singleton

(* No block of the log is lost and none is used twice: for any geometry    *)
(* and any set of requests.                                                *)
THEOREM BlocksHaveOneUse == Spec => []OneUse
<1>1. Init => UseInv
  BY InitUse
<1>2. TypeOK /\ PagesInRange /\ UseInv /\ [Next]_vars => UseInv'
  BY UseStep
<1>3. TypeOK /\ UseInv => OneUse
  BY UseOne
<1> QED
  BY <1>1, <1>2, <1>3, TypesInvariant, PTL DEF Spec

-----------------------------------------------------------------------------
(* Pages.                                                                  *)

(* The pages of an OW block that are left for when it is sealed. *)
HighPage == {p \in Page : p >= 2 /\ p % 2 = 0}

ErasedPage(x) == \A s \in Slot : flash[x][s] = Erased

(* Block l of bank b is the OW block of the bank or was it and is full. *)
OwBlock(b, l) == owCtrl[b].lbn = l \/ l \in owHeap[b]

(* Page p of the block is one the layer will program as an erased page. *)
Blank(b, l, p) ==
    \/ InClean(b, l)
    \/ rwCtrl[b].lbn = l /\ ~AllocatesW(stk, b) /\ p \in PagesToCome(b)
    \/ OwBlock(b, l) /\ p \in HighPage

(* The page has been programmed as a page of an OW block. *)
OwProgrammed(b, l, p) == l \in owHeap[b] \/ (owCtrl[b].lbn = l /\ p < owCtrl[b].page)

BlankErased == \A b \in Bank, l \in Lbn, p \in Page : Blank(b, l, p) => ErasedPage(<<b, l, p>>)
CountersInRange == \A b \in Bank, l \in Lbn, p \in Page :
    /\ owCounter[<<b, l, p>>] <= OwLimit
    /\ owCounter[<<b, l, p>>] > 0 => OwProgrammed(b, l, p)

PageInv == BlankErased /\ CountersInRange

(* What ProgramsAllowed says of a page. *)
OwLow(x) == x[3] \in LowPage /\ (x[2] = owCtrl[x[1]].lbn \/ x[2] \in owHeap[x[1]])
Allowed(x) ==
    /\ \/ \A s \in Slot : flash'[x][s] \in {flash[x][s], Stale}
       \/ \A s \in Slot : flash[x][s] = Erased
       \/ \A s \in Slot : flash'[x][s] = Erased
       \/ OwLow(x)
    /\ owCounter'[x] > owCounter[x] => OwLow(x) /\ owCounter'[x] <= OwLimit

AllAllowed == \A x \in Bank \X Lbn \X Page : Allowed(x)

LEMMA AllAllowedIs == (ProgramsAllowed <=> [][AllAllowed]_vars)
  BY PTL DEF ProgramsAllowed, AllAllowed, Allowed, OwLow

(* What is erased is no chunk's data. *)
LEMMA ErasedIsNoData ==
    /\ \A n, s : Erased # <<n, s>>
    /\ Erased # Stale
<1>1. \A n, s : Len(<<n, s>>) = 2 /\ Len(<<"erased">>) = 1
  OBVIOUS
<1> QED
  BY <1>1 DEF Erased, Stale

LEMMA ErasedNotOf ==
    /\ \A lpn, pieces : Erased \notin ChunksOf(lpn, pieces)
    /\ \A lpn : Erased \notin {lpn} \X Slot
    /\ Erased \notin {PieceChunk}
  BY ErasedIsNoData DEF ChunksOf, PieceChunk

LEMMA PageSets ==
    /\ \A p \in LowPage : p \notin HighPage
    /\ \A b : HighPage = {p \in Page : p >= 2 /\ (p - 2) % 2 = 0}
<1>1. \A p \in Page : p \in Nat
  BY Geometry
<1>2. \A p \in LowPage : p \notin HighPage
  BY <1>1 DEF LowPage, HighPage
<1>3. \A p \in Nat : p >= 2 => (p % 2 = 0 <=> (p - 2) % 2 = 0)
  OBVIOUS
<1> QED
  BY <1>1, <1>2, <1>3 DEF HighPage

(* Page x keeps what it holds, or some of it goes stale. *)
Kept(x) == \A s \in Slot : flash'[x][s] = flash[x][s] \/ (flash'[x][s] = Stale /\ flash[x][s] # Erased)

LEMMA WithoutKept ==
    ASSUME TypeOK, NEW cs, Erased \notin cs, NEW x \in Bank \X Lbn \X Page, NEW s \in Slot
    PROVE  \/ FlashWithout(cs)[x][s] = flash[x][s]
           \/ FlashWithout(cs)[x][s] = Stale /\ flash[x][s] # Erased
  BY DEF FlashWithout

LEMMA ErasedKept ==
    ASSUME NEW x, Kept(x), ErasedPage(x)
    PROVE  \A s \in Slot : flash'[x][s] = Erased
  BY DEF Kept, ErasedPage

(* The part of a step that concerns one page. *)
PageStep(b, l, p) ==
    LET x == <<b, l, p>>
    IN  /\ Blank(b, l, p)' => ErasedPage(x) \/ ErasedPage(x)'
        /\ \/ Kept(x)
           \/ ErasedPage(x)'
           \/ ~ Blank(b, l, p)' /\ (ErasedPage(x) \/ OwLow(x))
        /\ \/ owCounter'[x] = owCounter[x] /\ (OwProgrammed(b, l, p) => OwProgrammed(b, l, p)')
           \/ owCounter'[x] = 0
           \/ OwLow(x) /\ OwProgrammed(b, l, p)' /\ owCounter'[x] <= OwLimit

(* Every page of the step: the invariant is kept and the programs are allowed. *)
LEMMA PagesStep ==
    ASSUME TypeOK, PageInv, \A b \in Bank, l \in Lbn, p \in Page : PageStep(b, l, p)
    PROVE  PageInv' /\ AllAllowed
<1>1. ASSUME NEW b \in Bank, NEW l \in Lbn, NEW p \in Page
      PROVE  /\ Blank(b, l, p)' => ErasedPage(<<b, l, p>>)'
             /\ owCounter'[<<b, l, p>>] <= OwLimit
             /\ owCounter'[<<b, l, p>>] > 0 => OwProgrammed(b, l, p)'
             /\ Allowed(<<b, l, p>>)
  <2> DEFINE x == <<b, l, p>>
  <2>1. PageStep(b, l, p)
    BY <1>1
  <2>2. /\ owCounter[x] \in Nat /\ OwLimit \in Nat
        /\ owCounter[x] <= OwLimit
        /\ owCounter[x] > 0 => OwProgrammed(b, l, p)
    BY Geometry DEF TypeOK, PageInv, CountersInRange
  <2>3. /\ Blank(b, l, p)' => ErasedPage(x) \/ ErasedPage(x)'
        /\ \/ Kept(x)
           \/ ErasedPage(x)'
           \/ ~ Blank(b, l, p)' /\ (ErasedPage(x) \/ OwLow(x))
    BY <2>1 DEF PageStep
  <2>4. \/ owCounter'[x] = owCounter[x] /\ (OwProgrammed(b, l, p) => OwProgrammed(b, l, p)')
        \/ owCounter'[x] = 0
        \/ OwLow(x) /\ OwProgrammed(b, l, p)' /\ owCounter'[x] <= OwLimit
    BY <2>1 DEF PageStep
  <2> HIDE DEF x
  <2>5. Blank(b, l, p)' => ErasedPage(x)'
    BY <2>3, ErasedKept DEF ErasedPage
  <2>6. /\ owCounter'[x] <= OwLimit
        /\ owCounter'[x] > 0 => OwProgrammed(b, l, p)'
        /\ owCounter'[x] > owCounter[x] => OwLow(x) /\ owCounter'[x] <= OwLimit
    BY <2>2, <2>4
  <2>7. \/ \A s \in Slot : flash'[x][s] \in {flash[x][s], Stale}
        \/ \A s \in Slot : flash[x][s] = Erased
        \/ \A s \in Slot : flash'[x][s] = Erased
        \/ OwLow(x)
    BY <2>3 DEF Kept, ErasedPage
  <2>8. Allowed(x)
    BY <2>6, <2>7 DEF Allowed
  <2> QED
    BY <2>5, <2>6, <2>8 DEF x
<1> QED
  BY <1>1 DEF PageInv, BlankErased, CountersInRange, AllAllowed

(* A step that leaves blocks as they are and programs nothing. *)
LEMMA QuietPages ==
    ASSUME TypeOK, PageInv, UNCHANGED <<rwCtrl, owCtrl, clean, owHeap, owCounter>>,
           \A b \in Bank : AllocatesW(stk, b) => AllocatesW(stk', b),
           \/ flash' = flash
           \/ \E cs : Erased \notin cs /\ flash' = FlashWithout(cs)
    PROVE  PageInv' /\ AllAllowed
<1>1. ASSUME NEW b \in Bank, NEW l \in Lbn, NEW p \in Page
      PROVE  PageStep(b, l, p)
  <2>1. Blank(b, l, p)' => Blank(b, l, p)
    BY DEF Blank, InClean, OwBlock, PagesToCome
  <2>2. Kept(<<b, l, p>>)
    BY WithoutKept DEF Kept
  <2>3. OwProgrammed(b, l, p) => OwProgrammed(b, l, p)'
    BY DEF OwProgrammed
  <2> QED
    BY <2>1, <2>2, <2>3 DEF PageStep, PageInv, BlankErased
<1> QED
  BY <1>1, PagesStep

(* Nothing allocates a W block unless AllocRw is at the top. *)
LEMMA NoneAllocatesW ==
    ASSUME TypeOK, UseInv, stk = << >> \/ (Len(stk) > 0 /\ Top.op # "AllocRw")
    PROVE  \A b : ~ AllocatesW(stk, b)
  BY EmptyStack, UseParts, CallersOrdered

LEMMA RunningNoneW ==
    ASSUME TypeOK, UseInv, NEW op, Running(op), op # "AllocRw"
    PROVE  \A b : ~ AllocatesW(stk, b)
  BY RunningFrame, NoneAllocatesW

LEMMA HangPages == ASSUME TypeOK, PageInv, NEW why, Hang(why) PROVE PageInv' /\ AllAllowed
  BY QuietPages DEF Hang, logVars, heapVars, flashVars

LEMMA QuietLog ==
    ASSUME TypeOK, UseInv, PageInv, GetRWLpn \/ AllocRwHang \/ CheckSpace \/ GetOWLpn \/ AllocOwGc
    PROVE  PageInv' /\ AllAllowed
<1>1. CASE AllocRwHang
  BY <1>1, HangPages DEF AllocRwHang
<1>2. CASE GetRWLpn \/ CheckSpace \/ GetOWLpn
  <2>1. \A b : ~ AllocatesW(stk, b)
    BY <1>2, RunningNoneW DEF GetRWLpn, CheckSpace, GetOWLpn
  <2>2. UNCHANGED <<flashVars, rwCtrl, owCtrl, clean, owHeap>>
    BY <1>2 DEF GetRWLpn, CheckSpace, GetOWLpn, logVars, heapVars
  <2> QED
    BY <2>1, <2>2, QuietPages DEF flashVars
<1>3. CASE AllocOwGc
  <2>1. \A b : ~ AllocatesW(stk, b)
    BY <1>3, RunningNoneW DEF AllocOwGc
  <2>2. UNCHANGED <<flashVars, rwCtrl, owCtrl, clean, owHeap>>
    BY <1>3 DEF AllocOwGc, Hang, logVars, heapVars
  <2> QED
    BY <2>1, <2>2, QuietPages DEF flashVars
<1> QED
  BY <1>1, <1>2, <1>3

LEMMA QuietGc ==
    ASSUME TypeOK, UseInv, PageInv, GcStartHang \/ GcFullPage \/ GcWriteChunk \/ GcPageDone
    PROVE  PageInv' /\ AllAllowed
<1>1. CASE GcStartHang
  BY <1>1, HangPages DEF GcStartHang
<1>2. CASE GcFullPage \/ GcWriteChunk \/ GcPageDone
  <2>1. \A b : ~ AllocatesW(stk, b)
    BY <1>2, RunningNoneW DEF GcFullPage, GcWriteChunk, GcPageDone
  <2>2. UNCHANGED <<flashVars, rwCtrl, owCtrl, clean, owHeap>>
    BY <1>2 DEF GcFullPage, GcWriteChunk, GcPageDone, logVars, heapVars
  <2> QED
    BY <2>1, <2>2, QuietPages DEF flashVars
<1> QED
  BY <1>1, <1>2

LEMMA QuietWrite ==
    ASSUME TypeOK, UseInv, PageInv,
           WriteChunkInPlace \/ WriteChunk \/ WriteChunksDone \/ CleanGc \/ CleanDone
    PROVE  PageInv' /\ AllAllowed
<1>1. \A b : ~ AllocatesW(stk, b)
  BY RunningNoneW DEF WriteChunkInPlace, WriteChunk, WriteChunksDone, CleanGc, CleanDone
<1>2. UNCHANGED <<owCounter, rwCtrl, owCtrl, clean, owHeap>>
  BY DEF WriteChunkInPlace, WriteChunk, WriteChunksDone, CleanGc, CleanDone, flashVars, logVars,
     heapVars
<1>3. flash' = flash \/ \E n, i : flash' = FlashWithout({<<n, i>>})
  BY Zenon DEF WriteChunkInPlace, WriteChunk, WriteChunksDone, CleanGc, CleanDone, flashVars
<1>4. flash' = flash \/ \E cs : Erased \notin cs /\ flash' = FlashWithout(cs)
  BY <1>3, ErasedIsNoData
<1> QED
  BY <1>1, <1>2, <1>4, QuietPages

LEMMA QuietOverwrite ==
    ASSUME TypeOK, UseInv, PageInv,
           OwChunkInBuf \/ OwChunkNew \/ OwChunksDone \/ OwExhaustedChunk \/ OwExhaustedDone
    PROVE  PageInv' /\ AllAllowed
<1>1. \A b : ~ AllocatesW(stk, b)
  BY RunningNoneW DEF OwChunkInBuf, OwChunkNew, OwChunksDone, OwExhaustedChunk, OwExhaustedDone
<1>2. UNCHANGED <<owCounter, rwCtrl, owCtrl, clean, owHeap>>
  BY DEF OwChunkInBuf, OwChunkNew, OwChunksDone, OwExhaustedChunk, OwExhaustedDone, flashVars,
     logVars, heapVars
<1>3. flash' = flash \/ flash' = FlashWithout({PieceChunk})
  BY DEF OwChunkInBuf, OwChunkNew, OwChunksDone, OwExhaustedChunk, OwExhaustedDone, flashVars,
     ToOwBuf
<1> QED
  BY <1>1, <1>2, <1>3, ErasedNotOf, QuietPages

LEMMA QuietRequest ==
    ASSUME TypeOK, UseInv, PageInv, NEW lpn, NEW pieces,
           \/ TrimRequest(lpn, pieces)
           \/ WritePageRequest(lpn, pieces)
           \/ WriteChunksRequest(lpn, pieces)
           \/ OverwritePageRequest(lpn, pieces)
           \/ OverwriteExhaustedRequest(lpn, pieces)
           \/ OverwriteChunksRequest(lpn, pieces)
    PROVE  PageInv' /\ AllAllowed
<1>1. stk = << >>
  BY DEF TrimRequest, WritePageRequest, WriteChunksRequest, OverwritePageRequest,
     OverwriteExhaustedRequest, OverwriteChunksRequest, Receive
<1>2. UNCHANGED <<flashVars, rwCtrl, owCtrl, clean, owHeap>>
  BY DEF TrimRequest, WritePageRequest, WriteChunksRequest, OverwritePageRequest,
     OverwriteExhaustedRequest, OverwriteChunksRequest, logVars, heapVars
<1> QED
  BY <1>1, <1>2, NoneAllocatesW, QuietPages DEF flashVars

-----------------------------------------------------------------------------
(* Blocks that change their use. *)

LEMMA WTakenPages ==
    ASSUME TypeOK, UseInv, PageInv, NEW b \in Bank, Len(stk) > 0, Top.op = "AllocRw", Top.bank = b,
           clean[b] # << >>, rwCtrl' = FreshRw(b), clean' = Popped(b),
           UNCHANGED <<flash, owCounter, owCtrl, owHeap>>
    PROVE  PageInv' /\ AllAllowed
<1>1. /\ InClean(b, Head(clean[b]))
      /\ \A x \in Bank, y \in Lbn :
            InClean(x, y)' <=> InClean(x, y) /\ ~ (x = b /\ y = Head(clean[b]))
  BY PoppedClean
<1>2. rwCtrl'[b].lbn = Head(clean[b]) /\ \A x \in Bank : x # b => rwCtrl'[x] = rwCtrl[x]
  BY DEF FreshRw, TypeOK
<1>3. \A x : AllocatesW(stk, x) <=> x = b
  BY UseParts, CallersOrdered
<1>4. ASSUME NEW x \in Bank, NEW y \in Lbn, NEW p \in Page
      PROVE  PageStep(x, y, p)
  <2>1. x # b => PagesToCome(x)' = PagesToCome(x)
    BY <1>2 DEF PagesToCome
  <2>2. Blank(x, y, p)' => Blank(x, y, p)
    BY <1>1, <1>2, <1>3, <2>1 DEF Blank, OwBlock
  <2>3. OwProgrammed(x, y, p)' <=> OwProgrammed(x, y, p)
    BY DEF OwProgrammed
  <2> QED
    BY <2>2, <2>3 DEF PageStep, PageInv, BlankErased, Kept
<1> QED
  BY <1>4, PagesStep

LEMMA AllocRwPages == ASSUME TypeOK, UseInv, PageInv, AllocRwPop \/ AllocRwGc PROVE PageInv' /\ AllAllowed
<1>1. Running("AllocRw")
  BY DEF AllocRwPop, AllocRwGc
<1>2. Len(stk) > 0 /\ Top.op = "AllocRw" /\ Top.bank \in Bank
  BY <1>1, RunningFrame, FrameKinds DEF AllocRwFrame
<1>3. clean[Top.bank] # << >>
  BY DEF AllocRwPop, AllocRwGc, Scarce
<1>4. /\ rwCtrl' = FreshRw(Top.bank) /\ clean' = Popped(Top.bank)
      /\ UNCHANGED <<flash, owCounter, owCtrl, owHeap>>
  BY DEF AllocRwPop, AllocRwGc, flashVars, heapVars
<1> QED
  BY <1>2, <1>3, <1>4, WTakenPages

LEMMA SealOWBlkPages == ASSUME TypeOK, UseInv, PageInv, SealOWBlk PROVE PageInv' /\ AllAllowed
<1> DEFINE b == Top.bank
<1>0. Running("AllocRw")
  BY DEF SealOWBlk
<1>1. Len(stk) > 0 /\ Top.op = "AllocRw" /\ b \in Bank
  BY <1>0, RunningFrame, FrameKinds DEF AllocRwFrame
<1>2. PICK l \in Victims(owValid, owHeap, b) :
         /\ owHeap' = [owHeap EXCEPT ![b] = @ \ {l}]
         /\ owCounter' = [x \in DOMAIN owCounter |->
                             IF x[1] = b /\ x[2] = l THEN 0 ELSE owCounter[x]]
         /\ rwCtrl' = [rwCtrl EXCEPT ![b] = [lbn |-> l, page |-> 2, isOw |-> TRUE]]
  BY Zenon DEF SealOWBlk
<1>3. l \in Lbn /\ l \in owHeap[b]
  BY <1>1, VictimsExist DEF TypeOK
<1>4. /\ UNCHANGED <<flash, clean, owCtrl>>
      /\ owHeap'[b] = owHeap[b] \ {l}
      /\ rwCtrl'[b] = [lbn |-> l, page |-> 2, isOw |-> TRUE]
      /\ \A x \in Bank : x # b => owHeap'[x] = owHeap[x] /\ rwCtrl'[x] = rwCtrl[x]
  BY <1>1, <1>2 DEF SealOWBlk, TypeOK
<1>5. \A x : AllocatesW(stk, x) <=> x = b
  BY <1>1, UseParts, CallersOrdered
<1>6. \A x \in Bank, y \in Lbn, p \in Page :
         owCounter'[<<x, y, p>>] = IF x = b /\ y = l THEN 0 ELSE owCounter[<<x, y, p>>]
  BY <1>2 DEF TypeOK
<1> HIDE DEF b
<1>7. ASSUME NEW x \in Bank, x = b PROVE PagesToCome(x)' = HighPage
  <2>1. rwCtrl'[x].page = 2 /\ rwCtrl'[x].isOw
    BY <1>4, <1>7
  <2> QED
    BY <2>1, PageSets DEF PagesToCome
<1>8. ASSUME NEW x \in Bank, NEW y \in Lbn, NEW p \in Page
      PROVE  PageStep(x, y, p)
  <2>1. x # b => PagesToCome(x)' = PagesToCome(x)
    BY <1>4 DEF PagesToCome
  <2>2. Blank(x, y, p)' => Blank(x, y, p)
    BY <1>3, <1>4, <1>5, <1>7, <2>1 DEF Blank, OwBlock, InClean
  <2>3. ~ (x = b /\ y = l) => (OwProgrammed(x, y, p) => OwProgrammed(x, y, p)')
    BY <1>4 DEF OwProgrammed
  <2> QED
    BY <1>4, <1>6, <2>2, <2>3 DEF PageStep, PageInv, BlankErased, Kept
<1> QED
  BY <1>8, PagesStep

LEMMA AllocOwPopPages == ASSUME TypeOK, UseInv, PageInv, AllocOwPop PROVE PageInv' /\ AllAllowed
<1> DEFINE b == Top.bank
           h == Head(clean[b])
<1>0. Running("AllocOw")
  BY DEF AllocOwPop
<1>1. Len(stk) > 0 /\ Top.op = "AllocOw" /\ b \in Bank
  BY <1>0, RunningFrame, FrameKinds DEF AllocOwFrame
<1>2. clean[b] # << >> /\ clean' = Popped(b)
  BY DEF AllocOwPop, Scarce
<1>3. /\ InClean(b, h)
      /\ \A x \in Bank, y \in Lbn : InClean(x, y)' <=> InClean(x, y) /\ ~ (x = b /\ y = h)
  BY <1>1, <1>2, PoppedClean
<1>4. /\ UNCHANGED <<flash, owCounter, rwCtrl, owHeap>>
      /\ owCtrl'[b].lbn = h /\ \A x \in Bank : x # b => owCtrl'[x] = owCtrl[x]
  BY <1>1 DEF AllocOwPop, TypeOK, flashVars, heapVars
<1>5. \A x : ~ AllocatesW(stk, x)
  BY <1>1, NoneAllocatesW
<1>6. owCtrl[b].lbn = NoBlk /\ NoBlk \notin Lbn
  BY <1>1, UseParts, CallersOrdered
<1> HIDE DEF b, h
<1>8. ASSUME NEW x \in Bank, NEW y \in Lbn, NEW p \in Page
      PROVE  PageStep(x, y, p)
  <2>1. PagesToCome(x)' = PagesToCome(x)
    BY <1>4 DEF PagesToCome
  <2>2. Blank(x, y, p)' => Blank(x, y, p)
    BY <1>3, <1>4, <1>5, <2>1 DEF Blank, OwBlock
  <2>3. OwProgrammed(x, y, p) => OwProgrammed(x, y, p)'
    BY <1>4, <1>6 DEF OwProgrammed
  <2> QED
    BY <1>4, <2>2, <2>3 DEF PageStep, PageInv, BlankErased, Kept
<1> QED
  BY <1>8, PagesStep

LEMMA GcStartPages == ASSUME TypeOK, UseInv, PageInv, GcStart PROVE PageInv' /\ AllAllowed
<1> DEFINE b == Top.bank
<1>0. Running("Gc")
  BY DEF GcStart
<1>1. Len(stk) > 0 /\ Top.op = "Gc" /\ b \in Bank
  BY <1>0, RunningFrame, FrameKinds DEF GcFrame
<1>2. UNCHANGED <<flash, rwCtrl, owCtrl, clean>>
  BY DEF GcStart, logVars
<1>3. PICK gone \in SUBSET Lbn :
         /\ owHeap' = [owHeap EXCEPT ![b] = @ \ gone]
         /\ owCounter' = [x \in DOMAIN owCounter |->
                             IF x[1] = b /\ x[2] \in gone THEN 0 ELSE owCounter[x]]
  <2>1. CASE ChoosesOw(b)
    <3>1. PICK l \in Victims(owValid, owHeap, b) :
             /\ owHeap' = [owHeap EXCEPT ![b] = @ \ {l}]
             /\ owCounter' = [x \in DOMAIN owCounter |->
                                 IF x[1] = b /\ x[2] = l THEN 0 ELSE owCounter[x]]
      BY <2>1, Zenon DEF GcStart
    <3>2. {l} \in SUBSET Lbn
      BY <1>1, VictimsExist DEF TypeOK
    <3>3. \A y : y = l <=> y \in {l}
      OBVIOUS
    <3>4. owCounter' = [x \in DOMAIN owCounter |->
                           IF x[1] = b /\ x[2] \in {l} THEN 0 ELSE owCounter[x]]
      BY <3>1, <3>3
    <3> QED
      BY <3>1, <3>2, <3>4
  <2>2. CASE ~ ChoosesOw(b)
    <3>1. owHeap' = owHeap /\ owCounter' = owCounter
      BY <2>2, Zenon DEF GcStart
    <3>2. owHeap' = [owHeap EXCEPT ![b] = @ \ {}]
      BY <1>1, <3>1 DEF TypeOK
    <3>3. owCounter' = [x \in DOMAIN owCounter |->
                           IF x[1] = b /\ x[2] \in {} THEN 0 ELSE owCounter[x]]
      BY <3>1 DEF TypeOK
    <3>4. {} \in SUBSET Lbn
      OBVIOUS
    <3> QED
      BY <3>2, <3>3, <3>4, Zenon
  <2> QED
    BY <2>1, <2>2
<1>4. /\ owHeap'[b] = owHeap[b] \ gone
      /\ \A x \in Bank : x # b => owHeap'[x] = owHeap[x]
      /\ \A x \in Bank, y \in Lbn, p \in Page :
            owCounter'[<<x, y, p>>] = IF x = b /\ y \in gone THEN 0 ELSE owCounter[<<x, y, p>>]
  BY <1>1, <1>3 DEF TypeOK
<1>5. \A x : ~ AllocatesW(stk, x)
  BY <1>1, NoneAllocatesW
<1> HIDE DEF b
<1>6. ASSUME NEW x \in Bank, NEW y \in Lbn, NEW p \in Page
      PROVE  PageStep(x, y, p)
  <2>1. (y \in owHeap[x])' => y \in owHeap[x]
    BY <1>4
  <2>2. PagesToCome(x)' = PagesToCome(x) /\ (InClean(x, y)' <=> InClean(x, y))
    BY <1>2 DEF PagesToCome, InClean
  <2>3. Blank(x, y, p)' => Blank(x, y, p)
    BY <1>2, <1>5, <2>1, <2>2 DEF Blank, OwBlock
  <2>4. ~ (x = b /\ y \in gone) => (OwProgrammed(x, y, p) => OwProgrammed(x, y, p)')
    BY <1>2, <1>4 DEF OwProgrammed
  <2> QED
    BY <1>2, <1>4, <2>3, <2>4 DEF PageStep, PageInv, BlankErased, Kept
<1> QED
  BY <1>6, PagesStep

(* The pages of an erased block, and those of the others. *)
LEMMA ErasedFlashPages ==
    ASSUME NEW fl \in [Bank \X Lbn \X Page -> [Slot -> Content]], NEW j,
           NEW x \in Bank, NEW y \in Lbn, NEW p \in Page
    PROVE  /\ x = j.bank /\ y = j.lbn => \A s \in Slot : ErasedFlash(j, fl)[<<x, y, p>>][s] = Erased
           /\ ~ (x = j.bank /\ y = j.lbn) => ErasedFlash(j, fl)[<<x, y, p>>] = fl[<<x, y, p>>]
  BY DEF ErasedFlash

(* The victim of the top function is in no clean list and not the block of *)
(* another use.                                                            *)
LEMMA VictimPushed ==
    ASSUME TypeOK, UseInv, Len(stk) > 0, Top.job \in Job, Top.op \in {"GcScan", "GcCopy"},
           clean' = Pushed(Top.job)
    PROVE  /\ HoldsVictim(stk, Top.job.bank, Top.job.lbn)
           /\ \A x \in Bank, y \in Lbn :
                 InClean(x, y)' <=> InClean(x, y) \/ (x = Top.job.bank /\ y = Top.job.lbn)
<1>1. Top.job.bank \in Bank /\ Top.job.lbn \in Lbn
  BY DEF Job
<1>2. VictimIs(Top, Top.job.bank, Top.job.lbn)
  BY DEF VictimIs
<1>3. HoldsVictim(stk, Top.job.bank, Top.job.lbn)
  BY <1>2, UseParts, CallersOrdered
<1>4. ~ InClean(Top.job.bank, Top.job.lbn)
  BY <1>1, <1>3, OneUseOf DEF ExactlyOne
<1> QED
  BY <1>3, <1>4, PushedClean

LEMMA VictimPages ==
    ASSUME TypeOK, UseInv, PageInv, Len(stk) > 0, Top.job \in Job, Top.op = "GcScan",
           clean' = Pushed(Top.job), flash' = ErasedFlash(Top.job, flash),
           UNCHANGED <<owCounter, rwCtrl, owCtrl, owHeap>>
    PROVE  PageInv' /\ AllAllowed
<1>1. \A x : ~ AllocatesW(stk, x)
  BY NoneAllocatesW
<1>3. flash \in [Bank \X Lbn \X Page -> [Slot -> Content]]
  BY DEF TypeOK
<1>2. ASSUME NEW x \in Bank, NEW y \in Lbn, NEW p \in Page
      PROVE  PageStep(x, y, p)
  <2>1. PagesToCome(x)' = PagesToCome(x)
    BY DEF PagesToCome
  <2>2. OwProgrammed(x, y, p)' <=> OwProgrammed(x, y, p)
    BY DEF OwProgrammed
  <2>3. CASE x = Top.job.bank /\ y = Top.job.lbn
    <3>0. \A s \in Slot : ErasedFlash(Top.job, flash)[<<x, y, p>>][s] = Erased
      <4> DEFINE j == Top.job
      <4>1. x = j.bank /\ y = j.lbn
        BY <2>3
      <4> HIDE DEF j
      <4>2. \A s \in Slot : ErasedFlash(j, flash)[<<x, y, p>>][s] = Erased
        BY <1>3, <4>1 DEF ErasedFlash
      <4> QED
        BY <4>2 DEF j
    <3>1. ErasedPage(<<x, y, p>>)'
      BY <3>0, Zenon DEF ErasedPage
    <3> QED
      BY <2>2, <3>1 DEF PageStep
  <2>4. CASE ~ (x = Top.job.bank /\ y = Top.job.lbn)
    <3>1. Kept(<<x, y, p>>)
      BY <1>3, <2>4, ErasedFlashPages DEF Kept
    <3>2. InClean(x, y)' <=> InClean(x, y)
      BY <2>4, VictimPushed
    <3>3. Blank(x, y, p)' => Blank(x, y, p)
      BY <1>1, <2>1, <3>2 DEF Blank, OwBlock
    <3> QED
      BY <2>2, <3>1, <3>3 DEF PageStep, PageInv, BlankErased
  <2> QED
    BY <2>3, <2>4
<1> QED
  BY <1>2, PagesStep

LEMMA GcScanPages ==
    ASSUME TypeOK, UseInv, PageInv, GcEnd \/ GcPartialPage
    PROVE  PageInv' /\ AllAllowed
<1>1. Running("GcScan")
  BY DEF GcEnd, GcPartialPage
<1>2. Len(stk) > 0 /\ Top.op = "GcScan" /\ Top.job \in Job
  BY <1>1, RunningFrame, ScanRunning
<1>3. UNCHANGED <<owCounter, rwCtrl, owCtrl, owHeap>>
  BY DEF GcEnd, GcPartialPage, heapVars
<1>4. \/ clean' = Pushed(Top.job) /\ flash' = ErasedFlash(Top.job, flash)
      \/ UNCHANGED <<flash, clean>>
  BY Zenon DEF GcEnd, GcPartialPage
<1>5. \A x : ~ AllocatesW(stk, x)
  BY <1>2, NoneAllocatesW
<1> QED
  BY <1>2, <1>3, <1>4, <1>5, VictimPages, QuietPages

-----------------------------------------------------------------------------
(* Programs.                                                               *)

(* A page of the W block of bank d has been programmed, which was erased   *)
(* and is not programmed again.                                            *)
LEMMA WProgramPages ==
    ASSUME TypeOK, UseInv, PageInv, Len(stk) > 0, Top.op \in {"FlushW", "WritePage", "GcCopy"},
           NEW d \in Bank, rwCtrl[d].lbn # NoBlk, NEW list, NEW lists, NEW callers \in Seq(Frame),
           IncreaseRWLpn(d, list, lists, callers), UNCHANGED <<owCounter, owCtrl, owHeap>>,
           \A x \in Bank, y \in Lbn, p \in Page :
              ~ (x = d /\ y = rwCtrl[d].lbn /\ p = rwCtrl[d].page)
                 => Kept(<<x, y, p>>) \/ ErasedPage(<<x, y, p>>)',
           \A x \in Bank, y \in Lbn :
              \/ InClean(x, y)' <=> InClean(x, y)
              \/ HoldsVictim(stk, x, y) /\ \A p \in Page : ErasedPage(<<x, y, p>>)'
    PROVE  PageInv' /\ AllAllowed
<1> DEFINE l == rwCtrl[d].lbn
           q == rwCtrl[d].page
           g == [op |-> "AllocRw", bank |-> d, check |-> TRUE]
<1>1. /\ l \in Lbn /\ q \in Page /\ rwCtrl \in [Bank -> RWCtrl]
  BY DEF TypeOK, RWCtrl
<1>2. \A x : ~ AllocatesW(stk, x)
  BY NoneAllocatesW
<1>3. q \in PagesToCome(d)
  BY <1>1, Geometry DEF PagesToCome
<1>4. /\ \A x \in Bank : x # d => rwCtrl'[x] = rwCtrl[x]
      /\ \/ AllocatesW(stk', d)
         \/ /\ rwCtrl'[d].lbn = l
            /\ \A p \in Page : p \in PagesToCome(d)' => p \in PagesToCome(d) /\ p # q
  <2>1. CASE rwCtrl[d].page = LastPage
    <3>1. stk' = Append(callers, g) /\ rwCtrl' = rwCtrl
      BY <2>1, Zenon DEF IncreaseRWLpn
    <3>2. g \in Frame /\ g.op = "AllocRw" /\ g.bank = d
      BY DEF Frame, AllocRwFrame
    <3>3. AllocatesW(stk', d)
      BY <3>1, <3>2, Push
    <3> QED
      BY <3>1, <3>3
  <2>2. CASE rwCtrl[d].page # LastPage
    <3>1. rwCtrl' = [rwCtrl EXCEPT ![d].page = @ + IF rwCtrl[d].isOw THEN 2 ELSE 1]
      BY <2>2, Zenon DEF IncreaseRWLpn
    <3>2. rwCtrl'[d] = [rwCtrl[d] EXCEPT !.page = @ + IF rwCtrl[d].isOw THEN 2 ELSE 1]
          /\ \A x \in Bank : x # d => rwCtrl'[x] = rwCtrl[x]
      BY <1>1, <3>1
    <3>3. /\ rwCtrl'[d].lbn = l /\ rwCtrl'[d].isOw = rwCtrl[d].isOw
          /\ rwCtrl'[d].page = q + (IF rwCtrl[d].isOw THEN 2 ELSE 1)
      BY <1>1, <3>2 DEF RWCtrl
    <3>4. q \in Nat /\ \A p \in Page : p \in Nat
      BY <1>1, Geometry
    <3>5. \A p \in Page : p \in PagesToCome(d)' => p \in PagesToCome(d) /\ p # q
      <4>1. CASE rwCtrl[d].isOw
        <5>1. rwCtrl'[d].page = q + 2 /\ rwCtrl'[d].isOw
          BY <3>3, <4>1
        <5> HIDE DEF q
        <5>2. \A p \in Page : p >= q + 2 /\ (p - (q + 2)) % 2 = 0 => p >= q /\ (p - q) % 2 = 0 /\ p # q
          BY <3>4
        <5>3. PagesToCome(d) = {p \in Page : p >= q /\ (p - q) % 2 = 0}
          BY <4>1 DEF PagesToCome, q
        <5>4. PagesToCome(d)' = {p \in Page : p >= q + 2 /\ (p - (q + 2)) % 2 = 0}
          BY <5>1 DEF PagesToCome
        <5> QED
          BY <5>2, <5>3, <5>4
      <4>2. CASE ~ rwCtrl[d].isOw
        <5>1. rwCtrl'[d].page = q + 1 /\ ~ rwCtrl'[d].isOw
          BY <3>3, <4>2
        <5> QED
          BY <3>4, <4>2, <5>1 DEF PagesToCome
      <4> QED
        BY <4>1, <4>2
    <3> QED
      BY <3>2, <3>3, <3>5
  <2> QED
    BY <2>1, <2>2
<1> HIDE DEF l, q, g
<1>5. ASSUME NEW x \in Bank, NEW y \in Lbn, NEW p \in Page
      PROVE  PageStep(x, y, p)
  <2>1. ExactlyOne(InClean(x, y), rwCtrl[x].lbn = y /\ ~AllocatesW(stk, x), owCtrl[x].lbn = y,
                   y \in wHeap[x], y \in owHeap[x], HoldsVictim(stk, x, y))
    BY OneUseOf
  <2>2. x # d => PagesToCome(x)' = PagesToCome(x)
    BY <1>4 DEF PagesToCome
  <2>3. OwProgrammed(x, y, p)' <=> OwProgrammed(x, y, p)
    BY DEF OwProgrammed
  <2>4. OwBlock(x, y)' <=> OwBlock(x, y)
    BY DEF OwBlock
  <2>5. InClean(x, y)' => InClean(x, y) \/ (HoldsVictim(stk, x, y) /\ ErasedPage(<<x, y, p>>)')
    OBVIOUS
  <2>6. CASE x = d /\ y = l /\ p = q
    <3>1. rwCtrl[x].lbn = y /\ ~ AllocatesW(stk, x)
      BY <1>2, <2>6 DEF l
    <3>2. ~ InClean(x, y) /\ ~ HoldsVictim(stk, x, y) /\ ~ OwBlock(x, y)
      BY <2>1, <3>1 DEF ExactlyOne, OwBlock
    <3>3. ~ Blank(x, y, p)'
      BY <1>4, <2>4, <2>5, <2>6, <3>2 DEF Blank
    <3>4. Blank(x, y, p)
      BY <1>3, <2>6, <3>1 DEF Blank
    <3> QED
      BY <2>3, <3>3, <3>4 DEF PageStep, PageInv, BlankErased
  <2>7. CASE ~ (x = d /\ y = l /\ p = q)
    <3>1. Kept(<<x, y, p>>) \/ ErasedPage(<<x, y, p>>)'
      BY <2>7 DEF l, q
    <3>2. rwCtrl'[x].lbn = y /\ ~ AllocatesW(stk', x) /\ p \in PagesToCome(x)'
             => rwCtrl[x].lbn = y /\ p \in PagesToCome(x)
      BY <1>4, <2>2 DEF l
    <3>3. Blank(x, y, p)' => Blank(x, y, p) \/ ErasedPage(<<x, y, p>>)'
      BY <1>2, <2>4, <2>5, <3>2 DEF Blank
    <3> QED
      BY <2>3, <3>1, <3>3 DEF PageStep, PageInv, BlankErased
  <2> QED
    BY <2>6, <2>7
<1> QED
  BY <1>5, PagesStep

(* A page is programmed, the host's data in other pages going stale. *)
LEMMA ProgramKeeps ==
    ASSUME TypeOK, NEW b \in Bank, NEW l \in Lbn, NEW q \in Page, NEW new,
           \/ flash' = [flash EXCEPT ![<<b, l, q>>] = new]
           \/ \E cs : Erased \notin cs /\ flash' = [FlashWithout(cs) EXCEPT ![<<b, l, q>>] = new],
           NEW x \in Bank, NEW y \in Lbn, NEW p \in Page, ~ (x = b /\ y = l /\ p = q)
    PROVE  Kept(<<x, y, p>>)
<1> DEFINE z == <<x, y, p>>
<1>1. z \in Bank \X Lbn \X Page /\ z # <<b, l, q>>
  OBVIOUS
<1> HIDE DEF z
<1>2. CASE flash' = [flash EXCEPT ![<<b, l, q>>] = new]
  BY <1>1, <1>2 DEF Kept, TypeOK, z
<1>3. ASSUME NEW cs, Erased \notin cs, flash' = [FlashWithout(cs) EXCEPT ![<<b, l, q>>] = new]
      PROVE  Kept(z)
  <2>1. flash'[z] = FlashWithout(cs)[z]
    BY <1>1, <1>3 DEF FlashWithout
  <2> QED
    BY <1>1, <1>3, <2>1, WithoutKept DEF Kept
<1> QED
  BY <1>2, <1>3 DEF z

LEMMA WPagePages ==
    ASSUME TypeOK, UseInv, PageInv, FlushW \/ WritePage
    PROVE  PageInv' /\ AllAllowed
<1>1. PICK op \in {"FlushW", "WritePage"} : Running(op)
  BY DEF FlushW, WritePage
<1>2. Len(stk) > 0 /\ Top.op = op /\ Top.bank \in Bank /\ Below \in Seq(Frame)
  BY <1>1, RunningFrame, FrameKinds, StackParts DEF FlushWFrame, WritePageFrame
<1> DEFINE l == rwCtrl[Top.bank].lbn
           q == rwCtrl[Top.bank].page
<1>3. PICK list, lists : IncreaseRWLpn(Top.bank, list, lists, Below)
  BY Zenon DEF FlushW, WritePage
<1>4. rwCtrl[Top.bank].lbn # NoBlk /\ UNCHANGED <<clean, owCounter, owCtrl, owHeap>>
  BY DEF FlushW, WritePage
<1>5. l \in Lbn /\ q \in Page
  BY <1>2, <1>4 DEF TypeOK, RWCtrl
<1>6. PICK new : \/ flash' = [flash EXCEPT ![<<Top.bank, l, q>>] = new]
                 \/ \E cs : /\ Erased \notin cs
                            /\ flash' = [FlashWithout(cs) EXCEPT ![<<Top.bank, l, q>>] = new]
  <2>1. CASE FlushW
    BY <2>1, Zenon DEF FlushW
  <2>2. CASE WritePage
    <3>1. \E new : flash' = [FlashWithout({Top.lpn} \X Slot) EXCEPT ![<<Top.bank, l, q>>] = new]
      BY <2>2, Zenon DEF WritePage
    <3> QED
      BY <3>1, ErasedNotOf, Zenon
  <2> QED
    BY <2>1, <2>2
<1>7. \A x \in Bank, y \in Lbn, p \in Page :
         ~ (x = Top.bank /\ y = rwCtrl[Top.bank].lbn /\ p = rwCtrl[Top.bank].page)
            => Kept(<<x, y, p>>) \/ ErasedPage(<<x, y, p>>)'
  <2> SUFFICES ASSUME NEW x \in Bank, NEW y \in Lbn, NEW p \in Page,
                      ~ (x = Top.bank /\ y = l /\ p = q)
               PROVE  Kept(<<x, y, p>>)
    OBVIOUS
  <2>1. Top.bank \in Bank
    BY <1>2
  <2> HIDE DEF l, q
  <2> QED
    BY <1>5, <1>6, <2>1, ProgramKeeps, Zenon
<1>8. \A x \in Bank, y \in Lbn : InClean(x, y)' <=> InClean(x, y)
  BY <1>4 DEF InClean
<1> QED
  BY <1>2, <1>3, <1>4, <1>7, <1>8, WProgramPages

LEMMA GcCopyPagePages == ASSUME TypeOK, UseInv, PageInv, GcCopyPage PROVE PageInv' /\ AllAllowed
<1> DEFINE d == Top.bank
           j == Top.job
           l == rwCtrl[d].lbn
           q == rwCtrl[d].page
           copy == [flash EXCEPT ![<<d, l, q>>] = flash[<<j.bank, j.lbn, Top.page>>]]
           f == [op |-> "GcScan", page |-> Top.page + 1, found |-> Top.found, job |-> j]
<1>0. Running("GcCopy")
  BY DEF GcCopyPage
<1>1. Len(stk) > 0 /\ Top.op = "GcCopy" /\ Top \in GcCopyFrame /\ Below \in Seq(Frame)
  BY <1>0, RunningFrame, FrameKinds, StackParts
<1>2. d \in Bank /\ j \in Job /\ j.bank \in Bank /\ j.lbn \in Lbn /\ Top.page \in Page /\ Top.found \in Nat
  BY <1>1 DEF GcCopyFrame, Job
<1>3. rwCtrl[d].lbn # NoBlk /\ UNCHANGED <<owCounter, owCtrl, owHeap>>
  BY DEF GcCopyPage
<1>4. l \in Lbn /\ q \in Page
  BY <1>2, <1>3 DEF TypeOK, RWCtrl
<1>5. copy \in [Bank \X Lbn \X Page -> [Slot -> Content]]
  <2>1. flash \in [Bank \X Lbn \X Page -> [Slot -> Content]]
    BY DEF TypeOK
  <2>2. flash[<<j.bank, j.lbn, Top.page>>] \in [Slot -> Content]
    BY <1>2, <2>1
  <2> QED
    BY <1>2, <1>4, <2>1, <2>2
<1>6. ASSUME NEW x \in Bank, NEW y \in Lbn, NEW p \in Page, ~ (x = d /\ y = l /\ p = q)
      PROVE  copy[<<x, y, p>>] = flash[<<x, y, p>>]
  BY <1>2, <1>4, <1>6 DEF TypeOK
<1>7. f \in Frame
  <2>1. \A x \in Page : x + 1 \in Nat
    BY Geometry DEF Page
  <2> HIDE DEF j
  <2> QED
    BY <1>2, <2>1, ScanTyped
<1>8. \E list, lists, callers : callers \in Seq(Frame) /\ IncreaseRWLpn(d, list, lists, callers)
  <2>1. At(f) \in Seq(Frame)
    BY <1>1, <1>7, StackParts, RunningFrame, <1>0
  <2>2. \E list, lists : IncreaseRWLpn(d, list, lists, IF Top.found = j.expected THEN Below ELSE At(f))
    BY Zenon DEF GcCopyPage
  <2> QED
    BY <1>1, <2>1, <2>2
<1>9. IF Top.found = j.expected
      THEN clean' = Pushed(j) /\ flash' = ErasedFlash(j, copy)
      ELSE clean' = clean /\ flash' = copy
  BY Zenon DEF GcCopyPage
<1>10. ASSUME NEW x \in Bank, NEW y \in Lbn, NEW p \in Page
       PROVE  /\ ~ (x = d /\ y = l /\ p = q) => Kept(<<x, y, p>>) \/ ErasedPage(<<x, y, p>>)'
              /\ Top.found = j.expected /\ x = j.bank /\ y = j.lbn => ErasedPage(<<x, y, p>>)'
  <2> HIDE DEF copy, d, j, l, q
  <2>1. CASE Top.found = j.expected
    <3>1. flash' = ErasedFlash(j, copy)
      BY <1>9, <2>1
    <3>2. CASE x = j.bank /\ y = j.lbn
      BY <1>5, <3>1, <3>2 DEF ErasedFlash, ErasedPage
    <3>3. CASE ~ (x = j.bank /\ y = j.lbn)
      BY <1>5, <1>6, <3>1, <3>3 DEF ErasedFlash, Kept
    <3> QED
      BY <3>2, <3>3
  <2>2. CASE Top.found # j.expected
    BY <1>6, <1>9, <2>2 DEF Kept
  <2> QED
    BY <2>1, <2>2
<1>11. ASSUME NEW x \in Bank, NEW y \in Lbn
       PROVE  \/ InClean(x, y)' <=> InClean(x, y)
              \/ HoldsVictim(stk, x, y) /\ \A p \in Page : ErasedPage(<<x, y, p>>)'
  <2>1. CASE Top.found = j.expected
    <3>1. clean' = Pushed(Top.job)
      BY <1>9, <2>1
    <3>2. /\ HoldsVictim(stk, Top.job.bank, Top.job.lbn)
          /\ \A u \in Bank, v \in Lbn :
                InClean(u, v)' <=> InClean(u, v) \/ (u = Top.job.bank /\ v = Top.job.lbn)
      BY <1>1, <1>2, <3>1, VictimPushed
    <3> QED
      BY <1>10, <2>1, <3>2
  <2>2. CASE Top.found # j.expected
    BY <1>9, <2>2 DEF InClean
  <2> QED
    BY <2>1, <2>2
<1>12. PICK list, lists, callers : callers \in Seq(Frame) /\ IncreaseRWLpn(d, list, lists, callers)
  BY <1>8
<1>13. /\ \A x \in Bank, y \in Lbn, p \in Page :
             ~ (x = d /\ y = rwCtrl[d].lbn /\ p = rwCtrl[d].page)
                => Kept(<<x, y, p>>) \/ ErasedPage(<<x, y, p>>)'
       /\ \A x \in Bank, y \in Lbn :
             \/ InClean(x, y)' <=> InClean(x, y)
             \/ HoldsVictim(stk, x, y) /\ \A p \in Page : ErasedPage(<<x, y, p>>)'
  BY <1>10, <1>11
<1>14. d \in Bank /\ rwCtrl[d].lbn # NoBlk /\ Top.op \in {"FlushW", "WritePage", "GcCopy"}
  BY <1>1, <1>2, <1>3
<1> HIDE DEF d
<1> QED
  BY <1>1, <1>3, <1>12, <1>13, <1>14, WProgramPages

(* A low page of an OW block has been programmed, which the layer does not *)
(* take for an erased one.                                                 *)
LEMMA OwProgramPages ==
    ASSUME TypeOK, UseInv, PageInv, NEW b \in Bank, NEW l \in Lbn, NEW q \in LowPage,
           OwBlock(b, l), owCounter[<<b, l, q>>] < OwLimit, OwProgrammed(b, l, q)',
           owCounter' = [owCounter EXCEPT ![<<b, l, q>>] = @ + 1],
           UNCHANGED <<rwCtrl, clean>>, \A x : ~ AllocatesW(stk, x),
           \A x \in Bank, y \in Lbn : OwBlock(x, y)' <=> OwBlock(x, y),
           \A x \in Bank, y \in Lbn, p \in Page : OwProgrammed(x, y, p) => OwProgrammed(x, y, p)',
           \A x \in Bank, y \in Lbn, p \in Page : ~ (x = b /\ y = l /\ p = q) => Kept(<<x, y, p>>)
    PROVE  PageInv' /\ AllAllowed
<1>1. ASSUME NEW x \in Bank, NEW y \in Lbn, NEW p \in Page
      PROVE  PageStep(x, y, p)
  <2>1. Blank(x, y, p)' => Blank(x, y, p)
    BY DEF Blank, InClean, PagesToCome
  <2>2. CASE x = b /\ y = l /\ p = q
    <3>1. ExactlyOne(InClean(x, y), rwCtrl[x].lbn = y /\ ~AllocatesW(stk, x), owCtrl[x].lbn = y,
                     y \in wHeap[x], y \in owHeap[x], HoldsVictim(stk, x, y))
      BY OneUseOf
    <3>2. ~ Blank(x, y, p)
      BY <2>2, <3>1, PageSets DEF Blank, OwBlock, ExactlyOne
    <3>3. OwLow(<<x, y, p>>)
      BY <2>2 DEF OwLow, OwBlock
    <3>4. /\ owCounter \in [Bank \X Lbn \X Page -> Nat] /\ OwLimit \in Nat
          /\ <<b, l, q>> \in Bank \X Lbn \X Page
      BY <2>2, Geometry DEF TypeOK
    <3>5. owCounter'[<<x, y, p>>] <= OwLimit
      BY <2>2, <3>4
    <3> QED
      BY <2>1, <2>2, <3>2, <3>3, <3>5 DEF PageStep
  <2>3. CASE ~ (x = b /\ y = l /\ p = q)
    <3>1. owCounter'[<<x, y, p>>] = owCounter[<<x, y, p>>]
      <4> DEFINE u == <<x, y, p>>
                 v == <<b, l, q>>
      <4>1. u # v /\ u \in Bank \X Lbn \X Page
        BY <2>3
      <4> HIDE DEF u, v
      <4>2. owCounter \in [Bank \X Lbn \X Page -> Nat] /\ owCounter' = [owCounter EXCEPT ![v] = @ + 1]
        BY DEF TypeOK, v
      <4>3. owCounter'[u] = owCounter[u]
        BY <4>1, <4>2
      <4> QED
        BY <4>3 DEF u
    <3>2. Kept(<<x, y, p>>)
      BY <2>3
    <3> QED
      BY <2>1, <3>1, <3>2 DEF PageStep, PageInv, BlankErased
  <2> QED
    BY <2>2, <2>3
<1> QED
  BY <1>1, PagesStep

LEMMA OwPagePages ==
    ASSUME TypeOK, PagesInRange, UseInv, PageInv, OwPage \/ FlushOw
    PROVE  PageInv' /\ AllAllowed
<1>0. PICK b, l, q : b = Top.bank /\ l = owCtrl[b].lbn /\ q = owCtrl[b].page
  OBVIOUS
<1>1. PICK op \in {"OwPage", "FlushOw"} : Running(op)
  BY DEF OwPage, FlushOw
<1>2. Len(stk) > 0 /\ Top.op = op /\ b \in Bank
  BY <1>0, <1>1, RunningFrame, FrameKinds DEF OwPageFrame, FlushOwFrame
<1>3. PICK list : IncreaseOWLpn(b, list, Below)
  BY <1>0, Zenon DEF OwPage, FlushOw
<1>4. /\ owCtrl[b].lbn # NoBlk /\ UNCHANGED <<clean, rwCtrl>>
      /\ owCounter' = [owCounter EXCEPT ![<<b, l, q>>] = @ + 1]
  BY <1>0, Zenon DEF OwPage, FlushOw
<1>5. l \in Lbn /\ q \in LowPage /\ q \in Page /\ q \in Nat
      /\ owCtrl \in [Bank -> OWCtrl] /\ owHeap \in [Bank -> SUBSET Lbn]
  BY <1>0, <1>2, <1>4, Geometry DEF TypeOK, OWCtrl, PagesInRange
<1>6. \A x : ~ AllocatesW(stk, x)
  BY <1>2, NoneAllocatesW
<1>7. PICK new : \/ flash' = [flash EXCEPT ![<<b, l, q>>] = new]
                 \/ \E cs : /\ Erased \notin cs
                            /\ flash' = [FlashWithout(cs) EXCEPT ![<<b, l, q>>] = new]
  <2>1. CASE FlushOw
    BY <1>0, <2>1, Zenon DEF FlushOw
  <2>2. CASE OwPage
    <3>1. \E new : flash' = [FlashWithout({Top.lpn} \X Slot) EXCEPT ![<<b, l, q>>] = new]
      BY <1>0, <2>2, Zenon DEF OwPage
    <3> QED
      BY <3>1, ErasedNotOf, Zenon
  <2> QED
    BY <2>1, <2>2
<1>8. /\ \A x \in Bank : x # b => owCtrl'[x] = owCtrl[x] /\ owHeap'[x] = owHeap[x]
      /\ \/ owCtrl'[b].lbn = NoBlk /\ owHeap'[b] = owHeap[b] \cup {l}
         \/ owCtrl'[b].lbn = l /\ owCtrl'[b].page > q /\ owCtrl'[b].page \in Nat /\ owHeap'[b] = owHeap[b]
  <2>1. CASE q = LastLowPage
    <3>1. owHeap' = [owHeap EXCEPT ![b] = @ \cup {l}] /\ owCtrl' = [owCtrl EXCEPT ![b].lbn = NoBlk]
      BY <1>0, <1>3, <2>1 DEF IncreaseOWLpn
    <3> QED
      BY <1>0, <1>2, <1>5, <3>1 DEF OWCtrl
  <2>2. CASE q # LastLowPage
    <3>1. owHeap' = owHeap /\ owCtrl' = [owCtrl EXCEPT ![b].page = IF q = 0 THEN 1 ELSE q + 2]
      BY <1>0, <1>3, <2>2 DEF IncreaseOWLpn
    <3> QED
      BY <1>0, <1>2, <1>5, <3>1 DEF OWCtrl
  <2> QED
    BY <2>1, <2>2
<1>9. owCounter[<<b, l, q>>] < OwLimit
  <2>1. l \notin owHeap[b]
    BY <1>0, <1>2, <1>5, OneUseOf DEF ExactlyOne
  <2>2. ~ OwProgrammed(b, l, q)
    BY <1>0, <1>5, <2>1 DEF OwProgrammed
  <2>3. owCounter[<<b, l, q>>] \in Nat /\ ~ (owCounter[<<b, l, q>>] > 0)
    BY <1>0, <1>2, <1>5, <2>2 DEF TypeOK, PageInv, CountersInRange
  <2> QED
    BY <2>3, GeometryAssumption
<1>10. \A y \in Lbn : y # NoBlk
  BY UseParts
<1>11. b \in Bank /\ OwBlock(b, l)
  BY <1>0, <1>2 DEF OwBlock
<1>12. ASSUME NEW x \in Bank, NEW y \in Lbn
       PROVE  OwBlock(x, y)' <=> OwBlock(x, y)
  BY <1>0, <1>8, <1>10 DEF OwBlock
<1>13. ASSUME NEW x \in Bank, NEW y \in Lbn, NEW p \in Page, p \in Nat, OwProgrammed(x, y, p)
       PROVE  OwProgrammed(x, y, p)'
  BY <1>0, <1>5, <1>8, <1>10, <1>13 DEF OwProgrammed
<1>14. OwProgrammed(b, l, q)'
  BY <1>0, <1>2, <1>8 DEF OwProgrammed
<1>15. \A x \in Bank, y \in Lbn, p \in Page :
          OwProgrammed(x, y, p) => OwProgrammed(x, y, p)'
  BY <1>13, Geometry
<1>16. \A x \in Bank, y \in Lbn, p \in Page : ~ (x = b /\ y = l /\ p = q) => Kept(<<x, y, p>>)
  <2> SUFFICES ASSUME NEW x \in Bank, NEW y \in Lbn, NEW p \in Page, ~ (x = b /\ y = l /\ p = q)
               PROVE  Kept(<<x, y, p>>)
    OBVIOUS
  <2> QED
    BY <1>5, <1>7, <1>11, ProgramKeeps, Zenon
<1>17. owCounter' = [owCounter EXCEPT ![<<b, l, q>>] = @ + 1] /\ UNCHANGED <<rwCtrl, clean>>
  BY <1>0, <1>4
<1>18. b \in Bank /\ l \in Lbn /\ q \in LowPage
  BY <1>5, <1>11
<1> QED
  BY <1>6, <1>9, <1>11, <1>12, <1>14, <1>15, <1>16, <1>17, <1>18, OwProgramPages

(* A page the map leads to in the OW log is programmed again. *)
LEMMA InPlacePages ==
    ASSUME TypeOK, UseInv, PageInv, Idle \/ Running("OwChunks"),
           NEW b \in Bank, NEW l \in Lbn, NEW q \in LowPage,
           l \in owHeap[b] \/ (l = owCtrl[b].lbn /\ q < owCtrl[b].page),
           CanProgramAgain(<<b, l, q>>), owCounter' = [owCounter EXCEPT ![<<b, l, q>>] = @ + 1],
           NEW cs, Erased \notin cs, NEW new, flash' = [FlashWithout(cs) EXCEPT ![<<b, l, q>>] = new],
           UNCHANGED <<rwCtrl, owCtrl, clean, owHeap>>
    PROVE  PageInv' /\ AllAllowed
<1>1. OwBlock(b, l) /\ OwProgrammed(b, l, q)'
  BY DEF OwBlock, OwProgrammed
<1>2. \A x : ~ AllocatesW(stk, x)
  BY NoneAllocatesW, RunningNoneW DEF Idle
<1>3. q \in Page
  BY Geometry
<1>4. \A x \in Bank, y \in Lbn, p \in Page : ~ (x = b /\ y = l /\ p = q) => Kept(<<x, y, p>>)
  BY <1>3, ProgramKeeps, Zenon
<1>5. owCounter[<<b, l, q>>] < OwLimit
  BY DEF CanProgramAgain
<1>6. /\ \A x \in Bank, y \in Lbn : OwBlock(x, y)' <=> OwBlock(x, y)
      /\ \A x \in Bank, y \in Lbn, p \in Page : OwProgrammed(x, y, p) => OwProgrammed(x, y, p)'
  BY DEF OwBlock, OwProgrammed
<1> QED
  BY <1>1, <1>2, <1>4, <1>5, <1>6, OwProgramPages

(* Where the map has such a page. *)
LEMMA PlaceOf ==
    ASSUME TypeOK, OwChunksInOwBlocks, Idle \/ Running("OwChunks"),
           NEW c \in Chunk, Where(c) \in FlashOwLog
    PROVE  \E b \in Bank, l \in Lbn, q \in LowPage :
              /\ <<Where(c)[2], Where(c)[3], Where(c)[4]>> = <<b, l, q>>
              /\ l \in owHeap[b] \/ (l = owCtrl[b].lbn /\ q < owCtrl[b].page)
<1>1. Where(c)[2] \in Bank /\ Where(c)[3] \in Lbn
  BY LocationParts
<1> QED
  BY <1>1 DEF OwChunksInOwBlocks

LEMMA OverwriteInPlacePages ==
    ASSUME TypeOK, UseInv, PageInv, OwChunksInOwBlocks, NEW lpn \in Lpn,
           NEW pieces \in Seq(Piece), pieces # << >>, OverwriteInPlace(lpn, pieces)
    PROVE  PageInv' /\ AllAllowed
<1>1. PICK c : c = <<lpn, pieces[1].idx>>
  OBVIOUS
<1>2. c \in Chunk
  BY <1>1, PiecesTyped DEF Chunk
<1>3. Where(c) \in FlashOwLog /\ Idle
  BY <1>1 DEF OverwriteInPlace, InOrder, Receive, Idle
<1>4. PICK b \in Bank, l \in Lbn, q \in LowPage :
         /\ <<Where(c)[2], Where(c)[3], Where(c)[4]>> = <<b, l, q>>
         /\ l \in owHeap[b] \/ (l = owCtrl[b].lbn /\ q < owCtrl[b].page)
  BY <1>2, <1>3, PlaceOf
<1>5. PICK x : x = <<Where(c)[2], Where(c)[3], Where(c)[4]>>
  OBVIOUS
<1>6. /\ CanProgramAgain(x) /\ owCounter' = [owCounter EXCEPT ![x] = @ + 1]
      /\ flash' = [FlashWithout(ChunksOf(lpn, pieces)) EXCEPT ![x] = Reprogrammed(x, lpn, pieces)]
  BY <1>1, <1>5 DEF OverwriteInPlace
<1>7. x = <<b, l, q>>
  BY <1>4, <1>5
<1>8. UNCHANGED <<rwCtrl, owCtrl, clean, owHeap>>
  BY DEF OverwriteInPlace, logVars, heapVars
<1> QED
  BY <1>3, <1>4, <1>6, <1>7, <1>8, ErasedNotOf, InPlacePages

LEMMA OwChunkInPlacePages ==
    ASSUME TypeOK, UseInv, PageInv, OwChunksInOwBlocks, OwChunkInPlace
    PROVE  PageInv' /\ AllAllowed
<1>1. PICK c : c = PieceChunk
  OBVIOUS
<1>2. Running("OwChunks") /\ c \in Chunk
  BY <1>1, PieceTyped DEF OwChunkInPlace
<1>3. Where(c) \in FlashOwLog
  BY <1>1 DEF OwChunkInPlace
<1>4. PICK b \in Bank, l \in Lbn, q \in LowPage :
         /\ <<Where(c)[2], Where(c)[3], Where(c)[4]>> = <<b, l, q>>
         /\ l \in owHeap[b] \/ (l = owCtrl[b].lbn /\ q < owCtrl[b].page)
  BY <1>2, <1>3, PlaceOf
<1>5. PICK x : x = <<Where(c)[2], Where(c)[3], Where(c)[4]>>
  OBVIOUS
<1>6. CanProgramAgain(x) /\ owCounter' = [owCounter EXCEPT ![x] = @ + 1]
  BY <1>1, <1>5 DEF OwChunkInPlace
<1>7. x = <<b, l, q>>
  BY <1>4, <1>5
<1>8. PICK new : flash' = [FlashWithout({PieceChunk}) EXCEPT ![x] = new]
  <2>1. flash' = [FlashWithout({PieceChunk}) EXCEPT ![x][Where(c)[5]] = PieceData]
    BY <1>1, <1>5 DEF OwChunkInPlace
  <2> QED
    BY <2>1, Zenon
<1>9. UNCHANGED <<rwCtrl, owCtrl, clean, owHeap>>
  BY DEF OwChunkInPlace, logVars, heapVars
<1> QED
  BY <1>2, <1>4, <1>6, <1>7, <1>8, <1>9, ErasedNotOf, InPlacePages

-----------------------------------------------------------------------------
(* The invariant and what follows. *)

LEMMA InitPages == Init => PageInv
<1> SUFFICES ASSUME Init PROVE PageInv
  OBVIOUS
<1>1. ASSUME NEW b \in Bank, NEW l \in Lbn, NEW p \in Page
      PROVE  ErasedPage(<<b, l, p>>) /\ owCounter[<<b, l, p>>] = 0
  BY DEF Init, ErasedPage
<1>2. BlankErased
  BY <1>1 DEF BlankErased
<1>3. 0 <= OwLimit /\ ~ 0 > 0
  BY Geometry
<1>4. CountersInRange
  <2> SUFFICES ASSUME NEW b \in Bank, NEW l \in Lbn, NEW p \in Page
               PROVE  /\ owCounter[<<b, l, p>>] <= OwLimit
                      /\ owCounter[<<b, l, p>>] > 0 => OwProgrammed(b, l, p)
    BY DEF CountersInRange
  <2> QED
    BY <1>1, <1>3
<1> QED
  BY <1>2, <1>4 DEF PageInv

LEMMA PageInvStep ==
    ASSUME TypeOK, PagesInRange, UseInv, PageInv, OwChunksInOwBlocks, [Next]_vars
    PROVE  PageInv' /\ [AllAllowed]_vars
<1>1. CASE LogNext
  BY <1>1, QuietLog, AllocRwPages, SealOWBlkPages, AllocOwPopPages DEF LogNext
<1>2. CASE GcNext
  BY <1>2, QuietGc, GcStartPages, GcScanPages, GcCopyPagePages, WPagePages DEF GcNext
<1>3. CASE WriteStep
  BY <1>3, QuietWrite, WPagePages DEF WriteStep
<1>4. CASE OverwriteStep
  BY <1>4, QuietOverwrite, OwChunkInPlacePages, OwPagePages DEF OverwriteStep
<1>5. ASSUME NEW lpn \in Lpn, NEW r \in Requests,
             \/ TrimRequest(lpn, r.pieces)
             \/ WritePageRequest(lpn, r.pieces)
             \/ WriteChunksRequest(lpn, r.pieces)
             \/ OverwriteInPlace(lpn, r.pieces)
             \/ OverwritePageRequest(lpn, r.pieces)
             \/ OverwriteExhaustedRequest(lpn, r.pieces)
             \/ OverwriteChunksRequest(lpn, r.pieces)
      PROVE  PageInv' /\ AllAllowed
  <2>1. r.pieces \in Seq(Piece) /\ r.pieces # << >>
    BY RequestsAssumption DEF Request
  <2> QED
    BY <1>5, <2>1, QuietRequest, OverwriteInPlacePages
<1>6. CASE UNCHANGED vars
  <2>1. UNCHANGED <<flash, owCounter, rwCtrl, owCtrl, clean, owHeap, stk>>
    BY <1>6 DEF vars, flashVars, logVars, heapVars
  <2> QED
    BY <1>6, <2>1, QuietPages
<1> QED
  BY <1>1, <1>2, <1>3, <1>4, <1>5, <1>6 DEF Next, WriteNext, OverwriteNext

LEMMA UseInvariant == Spec => []UseInv
<1>1. Init => UseInv
  BY InitUse
<1>2. TypeOK /\ PagesInRange /\ UseInv /\ [Next]_vars => UseInv'
  BY UseStep
<1> QED
  BY <1>1, <1>2, TypesInvariant, PTL DEF Spec

(* As long as the map puts chunks in the OW log only where they are in OW  *)
(* blocks, every program of every page is one the page stands. *)
THEOREM ProgramsStayAllowed == Spec /\ []OwChunksInOwBlocks => ProgramsAllowed
<1>1. Init => PageInv
  BY InitPages
<1>2. TypeOK /\ PagesInRange /\ UseInv /\ PageInv /\ OwChunksInOwBlocks /\ [Next]_vars
         => PageInv' /\ [AllAllowed]_vars
  BY PageInvStep
<1> QED
  BY <1>1, <1>2, TypesInvariant, UseInvariant, AllAllowedIs, PTL DEF Spec

-----------------------------------------------------------------------------
(* A host that never overwrites.                                           *)

OwOps == {"AllocOw", "OwPage", "OwChunks", "OwExhausted", "FlushOw"}

NoOwFrames(s) == \A i \in DOMAIN s : s[i].op \notin OwOps

NothingOverwritten ==
    /\ \A b \in Bank : owCtrl[b].lbn = NoBlk /\ owHeap[b] = {}
    /\ \A c \in Chunk : Where(c) \notin FlashOwLog
    /\ NoOwFrames(stk)

LEMMA PushNoOw ==
    ASSUME NEW T, NEW s \in Seq(T), NEW f
    PROVE  NoOwFrames(Append(s, f)) <=> NoOwFrames(s) /\ f.op \notin OwOps
<1>1. s \in Seq(T \cup {f}) /\ f \in T \cup {f}
  OBVIOUS
<1>2. \A i \in DOMAIN Append(s, f) : i \in DOMAIN s \/ i = Len(s) + 1
  BY <1>1
<1>3. Len(s) + 1 \in DOMAIN Append(s, f) /\ Append(s, f)[Len(s) + 1] = f
      /\ \A i \in DOMAIN s : i \in DOMAIN Append(s, f) /\ Append(s, f)[i] = s[i]
  BY <1>1
<1> QED
  BY <1>2, <1>3 DEF NoOwFrames

LEMMA TopNoOw ==
    ASSUME TypeOK, NothingOverwritten, Len(stk) > 0
    PROVE  NoOwFrames(Below) /\ Top.op \notin OwOps
<1>1. Below \in Seq(Frame) /\ Top \in Frame /\ stk = Append(Below, Top)
  BY StackParts DEF TypeOK
<1> QED
  BY <1>1, PushNoOw DEF NothingOverwritten

LEMMA NoneOverwrites ==
    ASSUME TypeOK, NothingOverwritten, NEW op \in OwOps
    PROVE  ~ Running(op)
  BY TopNoOw DEF Running

(* The stack a step leaves: the top frame gone, replaced, or with another  *)
(* one on it.                                                              *)
LEMMA NoOwStack ==
    ASSUME TypeOK, NothingOverwritten, NEW op, Running(op)
    PROVE  /\ NoOwFrames(Below)
           /\ \A f : f.op \notin OwOps => NoOwFrames(At(f)) /\ NoOwFrames(Append(stk, f))
           /\ \A f, g : f.op \notin OwOps /\ g.op \notin OwOps => NoOwFrames(Append(At(f), g))
           /\ \A g : g.op \notin OwOps => NoOwFrames(Append(Below, g))
<1>1. Below \in Seq(Frame) /\ stk \in Seq(Frame) /\ NoOwFrames(Below) /\ NoOwFrames(stk)
  BY RunningFrame, StackParts, TopNoOw DEF NothingOverwritten
<1>2. ASSUME NEW f, f.op \notin OwOps
      PROVE  NoOwFrames(At(f)) /\ NoOwFrames(Append(stk, f))
  BY <1>1, <1>2, PushNoOw DEF At
<1>3. ASSUME NEW f, NEW g, f.op \notin OwOps, g.op \notin OwOps
      PROVE  NoOwFrames(Append(At(f), g))
  <2>1. At(f) \in Seq(Frame \cup {f})
    BY <1>1 DEF At
  <2> QED
    BY <1>2, <1>3, <2>1, PushNoOw
<1>4. ASSUME NEW g, g.op \notin OwOps
      PROVE  NoOwFrames(Append(Below, g))
  BY <1>1, <1>4, PushNoOw
<1> QED
  BY <1>1, <1>2, <1>3, <1>4

LEMMA NotInOwLog ==
    /\ \A b, l, q, s : <<"FlashWLog", b, l, q, s>> \notin FlashOwLog
    /\ \A b, s : <<"DRAMWLog", b, s>> \notin FlashOwLog
    /\ Invalid \notin FlashOwLog
<1>1. \A x \in FlashOwLog : x[1] = "FlashOwLog"
  BY DEF FlashOwLog
<1>2. /\ \A b, l, q, s : <<"FlashWLog", b, l, q, s>>[1] = "FlashWLog"
      /\ \A b, s : <<"DRAMWLog", b, s>>[1] = "DRAMWLog"
      /\ Invalid[1] = "Invalid"
  BY DEF Invalid
<1> QED
  BY <1>1, <1>2

(* What a step does to a chunk's place in the map without an overwrite. *)
NotToOwLog == \A c \in Chunk : chunksMap'[c] = chunksMap[c] \/ chunksMap'[c] \notin FlashOwLog

LEMMA NothingStep ==
    ASSUME NothingOverwritten, UNCHANGED <<owCtrl, owHeap>>, NotToOwLog, NoOwFrames(stk')
    PROVE  NothingOverwritten'
  BY DEF NothingOverwritten, Where, NotToOwLog

LEMMA MapKept == UNCHANGED chunksMap => NotToOwLog
  BY DEF NotToOwLog

(* increaseRWLpn may have a new W block to allocate. *)
LEMMA RWPageStack ==
    ASSUME TypeOK, NothingOverwritten, NEW op, Running(op), NEW b, NEW list, NEW lists, NEW callers,
           callers = Below \/ (\E f : f.op \notin OwOps /\ callers = At(f)),
           IncreaseRWLpn(b, list, lists, callers)
    PROVE  NoOwFrames(stk')
<1> DEFINE g == [op |-> "AllocRw", bank |-> b, check |-> TRUE]
<1>1. stk' = callers \/ stk' = Append(callers, g)
  BY DEF IncreaseRWLpn
<1>2. g.op \notin OwOps
  BY DEF OwOps
<1> HIDE DEF g
<1>3. NoOwFrames(callers) /\ NoOwFrames(Append(callers, g))
  BY <1>2, NoOwStack
<1> QED
  BY <1>1, <1>3

-----------------------------------------------------------------------------
(* The steps.                                                              *)

LEMMA HangNothing == ASSUME TypeOK, NothingOverwritten, NEW why, Hang(why) PROVE NothingOverwritten'
  BY NothingStep, MapKept DEF Hang, logVars, heapVars, NothingOverwritten

LEMMA LogNothing == ASSUME TypeOK, NothingOverwritten, LogNext PROVE NothingOverwritten'
<1>1. CASE GetRWLpn
  <2>1. \E op : Running(op)
    BY <1>1 DEF GetRWLpn
  <2>2. stk' = Append(stk, [op |-> "AllocRw", bank |-> Top.bank, check |-> FALSE])
        /\ UNCHANGED <<chunksMap, owCtrl, owHeap>>
    BY <1>1 DEF GetRWLpn, logVars, heapVars
  <2>3. NoOwFrames(stk')
    BY <2>1, <2>2, NoOwStack DEF OwOps
  <2> QED
    BY <2>2, <2>3, NothingStep, MapKept
<1>2. CASE AllocRwPop \/ CheckSpace
  <2>1. (\E op : Running(op)) /\ stk' = Below /\ UNCHANGED <<chunksMap, owCtrl, owHeap>>
    BY <1>2 DEF AllocRwPop, CheckSpace, logVars, heapVars
  <2> QED
    BY <2>1, NoOwStack, NothingStep, MapKept
<1>3. CASE SealOWBlk
  <2>1. PICK b \in Bank : \E l : l \in Victims(owValid, owHeap, b)
    <3>1. PICK b : b = Top.bank
      OBVIOUS
    <3>2. Running("AllocRw")
      BY <1>3 DEF SealOWBlk
    <3>3. b \in Bank
      BY <3>1, <3>2, RunningFrame, FrameKinds DEF AllocRwFrame
    <3> QED
      BY <1>3, <3>1, <3>3 DEF SealOWBlk
  <2>2. owHeap[b] # {}
    BY <2>1, VictimsExist DEF TypeOK
  <2> QED
    BY <2>2 DEF NothingOverwritten
<1>4. CASE AllocRwGc
  <2>1. Running("AllocRw")
        /\ stk' = Append(IF Top.check THEN At([op |-> "CheckSpace", bank |-> Top.bank]) ELSE Below,
                         [op |-> "Gc", bank |-> Top.bank])
        /\ UNCHANGED <<chunksMap, owCtrl, owHeap>>
    BY <1>4 DEF AllocRwGc, heapVars
  <2>2. \/ stk' = Append(At([op |-> "CheckSpace", bank |-> Top.bank]), [op |-> "Gc", bank |-> Top.bank])
        \/ stk' = Append(Below, [op |-> "Gc", bank |-> Top.bank])
    BY <2>1
  <2>3. [op |-> "CheckSpace", bank |-> Top.bank].op \notin OwOps
        /\ [op |-> "Gc", bank |-> Top.bank].op \notin OwOps
    BY DEF OwOps
  <2>4. NoOwFrames(stk')
    BY <2>1, <2>2, <2>3, NoOwStack
  <2> QED
    BY <2>1, <2>4, NothingStep, MapKept
<1>5. CASE AllocRwHang
  BY <1>5, HangNothing DEF AllocRwHang
<1>6. CASE GetOWLpn \/ AllocOwPop \/ AllocOwGc
  BY <1>6, NoneOverwrites DEF GetOWLpn, AllocOwPop, AllocOwGc, OwOps
<1> QED
  BY <1>1, <1>2, <1>3, <1>4, <1>5, <1>6 DEF LogNext

LEMMA GcStartNothing == ASSUME TypeOK, NothingOverwritten, GcStart PROVE NothingOverwritten'
<1>1. PICK b : b = Top.bank
  OBVIOUS
<1>2. b \in Bank /\ Running("Gc")
  BY <1>1, RunningFrame, FrameKinds DEF GcStart, GcFrame
<1>3. ~ \E l : l \in Victims(owValid, owHeap, b)
  BY <1>2, VictimsExist DEF TypeOK, NothingOverwritten
<1>4. UNCHANGED <<chunksMap, owCtrl, owHeap>>
      /\ \E j : stk' = At([op |-> "GcScan", page |-> 0, found |-> 0, job |-> j])
  BY <1>1, <1>3 DEF GcStart, logVars
<1>5. NoOwFrames(stk')
  BY <1>2, <1>4, NoOwStack DEF OwOps
<1> QED
  BY <1>4, <1>5, NothingStep, MapKept

LEMMA GcCopyPageNothing == ASSUME TypeOK, NothingOverwritten, GcCopyPage PROVE NothingOverwritten'
<1>1. Running("GcCopy") /\ UNCHANGED <<owCtrl, owHeap>>
  BY DEF GcCopyPage
<1>2. NotToOwLog
  <2>1. chunksMap' = [c \in Chunk |->
                  IF \E s \in Slot : Top.chunks[s] = c
                  THEN <<"FlashWLog", Top.bank, rwCtrl[Top.bank].lbn, rwCtrl[Top.bank].page,
                         CHOOSE s \in Slot : Top.chunks[s] = c>>
                  ELSE chunksMap[c]]
    BY DEF GcCopyPage
  <2> QED
    BY <2>1, NotInOwLog DEF NotToOwLog
<1>3. PICK callers, b, list, lists :
         /\ callers = Below \/ (\E f : f.op \notin OwOps /\ callers = At(f))
         /\ IncreaseRWLpn(b, list, lists, callers)
  <2> DEFINE f == [op |-> "GcScan", page |-> Top.page + 1, found |-> Top.found, job |-> Top.job]
             last == Top.found = Top.job.expected
  <2>1. \E b, list, lists : IncreaseRWLpn(b, list, lists, IF last THEN Below ELSE At(f))
    BY Zenon DEF GcCopyPage
  <2>2. f.op \notin OwOps
    BY DEF OwOps
  <2> HIDE DEF f, last
  <2>3. (IF last THEN Below ELSE At(f)) = Below \/ (IF last THEN Below ELSE At(f)) = At(f)
    OBVIOUS
  <2> QED
    BY <2>1, <2>2, <2>3
<1>4. NoOwFrames(stk')
  BY <1>1, <1>3, RWPageStack
<1> QED
  BY <1>1, <1>2, <1>4, NothingStep

LEMMA GcWriteChunkNothing == ASSUME TypeOK, NothingOverwritten, GcWriteChunk PROVE NothingOverwritten'
<1> DEFINE f == [Top EXCEPT !.pending = Tail(@)]
           g == [op |-> "FlushW", bank |-> NextBank]
<1>1. Running("GcChunks") /\ UNCHANGED <<owCtrl, owHeap>>
  BY DEF GcWriteChunk, logVars, heapVars
<1>2. chunksMap' = [chunksMap EXCEPT ![Head(Top.pending).chunk] = <<"DRAMWLog", NextBank, chunkPtr[NextBank]>>]
      /\ stk' = IF chunkPtr[NextBank] + 1 = ChunksPerPage THEN Append(At(f), g) ELSE At(f)
  BY DEF GcWriteChunk
<1>3. NotToOwLog
  BY <1>2, NotInOwLog DEF NotToOwLog, TypeOK
<1>4. f.op \notin OwOps /\ g.op \notin OwOps
  BY <1>1, RunningFrame, FrameKinds DEF OwOps, GcChunksFrame
<1> HIDE DEF f, g
<1>5. NoOwFrames(stk')
  BY <1>1, <1>2, <1>4, NoOwStack
<1> QED
  BY <1>1, <1>3, <1>5, NothingStep

LEMMA FlushWNothing == ASSUME TypeOK, NothingOverwritten, FlushW PROVE NothingOverwritten'
<1>1. Running("FlushW") /\ UNCHANGED <<owCtrl, owHeap>>
  BY DEF FlushW
<1>2. NotToOwLog
  <2>1. PICK b, l, q, M :
           chunksMap' = [c \in Chunk |-> IF M[c] = {} THEN chunksMap[c]
                                         ELSE <<"FlashWLog", b, l, q, Max(M[c])>>]
    <3> DEFINE b == Top.bank
               M == [c \in Chunk |-> {s \in Slot : logBuf[b][s].lpn = c[1] /\ logBuf[b][s].idx = c[2]}]
    <3>1. chunksMap' = [c \in Chunk |-> IF M[c] = {} THEN chunksMap[c]
             ELSE <<"FlashWLog", b, rwCtrl[b].lbn, rwCtrl[b].page, Max(M[c])>>]
      BY DEF FlushW
    <3> HIDE DEF M, b
    <3> QED
      BY <3>1
  <2> QED
    BY <2>1, NotInOwLog DEF NotToOwLog
<1>3. PICK b, list, lists : IncreaseRWLpn(b, list, lists, Below)
  BY Zenon DEF FlushW
<1>4. NoOwFrames(stk')
  BY <1>1, <1>3, RWPageStack
<1> QED
  BY <1>1, <1>2, <1>4, NothingStep

LEMMA GcNothing == ASSUME TypeOK, NothingOverwritten, GcNext PROVE NothingOverwritten'
<1>1. CASE GcStartHang
  BY <1>1, HangNothing DEF GcStartHang
<1>2. CASE GcEnd
  <2>1. Running("GcScan") /\ stk' = Below /\ UNCHANGED <<chunksMap, owCtrl, owHeap>>
    BY <1>2 DEF GcEnd, heapVars
  <2> QED
    BY <2>1, NoOwStack, NothingStep, MapKept
<1>3. CASE GcFullPage \/ GcPartialPage
  <2>1. Running("GcScan") /\ UNCHANGED <<chunksMap, owCtrl, owHeap>>
    BY <1>3 DEF GcFullPage, GcPartialPage, logVars, heapVars
  <2>2. \E f : f.op \notin OwOps /\ stk' = At(f)
    <3>1. CASE GcFullPage
      BY <3>1 DEF GcFullPage, OwOps
    <3>2. CASE GcPartialPage
      BY <3>2 DEF GcPartialPage, OwOps
    <3> QED
      BY <1>3, <3>1, <3>2
  <2> QED
    BY <2>1, <2>2, NoOwStack, NothingStep, MapKept
<1>4. CASE GcPageDone
  <2>1. Running("GcChunks") /\ UNCHANGED <<chunksMap, owCtrl, owHeap>>
    BY <1>4 DEF GcPageDone, logVars, heapVars
  <2>2. stk' = Below \/ \E f : f.op \notin OwOps /\ stk' = At(f)
    <3>1. [op |-> "GcScan", page |-> Top.page + 1, found |-> Top.found, job |-> Top.job].op \notin OwOps
      BY DEF OwOps
    <3> QED
      BY <1>4, <3>1 DEF GcPageDone
  <2>3. NoOwFrames(stk')
    BY <2>1, <2>2, NoOwStack
  <2> QED
    BY <2>1, <2>3, NothingStep, MapKept
<1> QED
  BY <1>1, <1>2, <1>3, <1>4, GcStartNothing, GcCopyPageNothing, GcWriteChunkNothing, FlushWNothing
     DEF GcNext

LEMMA WritePageNothing == ASSUME TypeOK, NothingOverwritten, WritePage PROVE NothingOverwritten'
<1>1. Running("WritePage") /\ UNCHANGED <<owCtrl, owHeap>>
  BY DEF WritePage
<1>2. NotToOwLog
  <2>1. chunksMap' = [c \in Chunk |-> IF c \in {Top.lpn} \X Slot
           THEN <<"FlashWLog", Top.bank, rwCtrl[Top.bank].lbn, rwCtrl[Top.bank].page, c[2]>>
           ELSE chunksMap[c]]
    BY DEF WritePage
  <2> QED
    BY <2>1, NotInOwLog DEF NotToOwLog
<1>3. PICK b, list, lists : IncreaseRWLpn(b, list, lists, Below)
  BY Zenon DEF WritePage
<1>4. NoOwFrames(stk')
  BY <1>1, <1>3, RWPageStack
<1> QED
  BY <1>1, <1>2, <1>4, NothingStep

LEMMA WriteChunkNothing ==
    ASSUME TypeOK, NothingOverwritten, WriteChunk \/ WriteChunkInPlace
    PROVE  NothingOverwritten'
<1> DEFINE f == [Top EXCEPT !.todo = Tail(@)]
           g == [op |-> "FlushW", bank |-> Top.bank]
<1>1. Running("WriteChunks") /\ UNCHANGED <<owCtrl, owHeap>>
  BY DEF WriteChunk, WriteChunkInPlace, logVars, heapVars
<1>2. stk' = At(f) \/ stk' = Append(At(f), g)
  BY DEF WriteChunk, WriteChunkInPlace
<1>3. NotToOwLog
  <2>1. CASE WriteChunkInPlace
    BY <2>1, MapKept DEF WriteChunkInPlace
  <2>2. CASE WriteChunk
    <3>1. chunksMap' = [chunksMap EXCEPT ![<<Top.lpn, Head(Top.todo).idx>>] =
                           <<"DRAMWLog", Top.bank, chunkPtr[Top.bank]>>]
      BY <2>2 DEF WriteChunk
    <3> QED
      BY <3>1, NotInOwLog DEF NotToOwLog, TypeOK
  <2> QED
    BY <2>1, <2>2
<1>4. f.op \notin OwOps /\ g.op \notin OwOps
  BY <1>1, RunningFrame, FrameKinds DEF OwOps, WriteChunksFrame
<1> HIDE DEF f, g
<1>5. NoOwFrames(stk')
  BY <1>1, <1>2, <1>4, NoOwStack
<1> QED
  BY <1>1, <1>3, <1>5, NothingStep

LEMMA WriteNothing == ASSUME TypeOK, NothingOverwritten, WriteStep PROVE NothingOverwritten'
<1>1. CASE WriteChunksDone \/ CleanDone
  <2>1. (\E op : Running(op)) /\ stk' = Below /\ UNCHANGED <<chunksMap, owCtrl, owHeap>>
    BY <1>1 DEF WriteChunksDone, CleanDone, logVars, heapVars
  <2> QED
    BY <2>1, NoOwStack, NothingStep, MapKept
<1>2. CASE CleanGc
  <2>1. Running("Clean") /\ UNCHANGED <<chunksMap, owCtrl, owHeap>>
    BY <1>2 DEF CleanGc, logVars, heapVars
  <2>2. PICK b : stk' = Append(At([Top EXCEPT !.bank = b + 1]), [op |-> "Gc", bank |-> b])
    BY <1>2 DEF CleanGc
  <2>3. [Top EXCEPT !.bank = b + 1].op \notin OwOps /\ [op |-> "Gc", bank |-> b].op \notin OwOps
    BY <2>1, RunningFrame, FrameKinds DEF OwOps, CleanFrame
  <2>4. NoOwFrames(stk')
    BY <2>1, <2>2, <2>3, NoOwStack
  <2> QED
    BY <2>1, <2>4, NothingStep, MapKept
<1> QED
  BY <1>1, <1>2, WritePageNothing, WriteChunkNothing DEF WriteStep

LEMMA RequestNothing ==
    ASSUME TypeOK, NothingOverwritten, NEW lpn, NEW pieces,
           \/ TrimRequest(lpn, pieces)
           \/ WritePageRequest(lpn, pieces)
           \/ WriteChunksRequest(lpn, pieces)
    PROVE  NothingOverwritten'
<1>1. UNCHANGED <<owCtrl, owHeap>>
  BY DEF TrimRequest, WritePageRequest, WriteChunksRequest, logVars, heapVars
<1>2. CASE TrimRequest(lpn, pieces)
  <2>1. UNCHANGED stk
        /\ \E whole : chunksMap' = [c \in Chunk |-> IF c \in whole THEN Invalid ELSE chunksMap[c]]
    BY <1>2 DEF TrimRequest
  <2>2. NotToOwLog
    BY <2>1, NotInOwLog DEF NotToOwLog
  <2> QED
    BY <1>1, <2>1, <2>2, NothingStep DEF NothingOverwritten
<1>3. CASE WritePageRequest(lpn, pieces) \/ WriteChunksRequest(lpn, pieces)
  <2>1. UNCHANGED chunksMap /\ \E f : f.op \notin OwOps /\ stk' = <<StartClean, f>>
    <3>1. CASE WritePageRequest(lpn, pieces)
      BY <3>1 DEF WritePageRequest, OwOps
    <3>2. CASE WriteChunksRequest(lpn, pieces)
      BY <3>2 DEF WriteChunksRequest, OwOps
    <3> QED
      BY <1>3, <3>1, <3>2
  <2>2. StartClean.op \notin OwOps
    BY DEF StartClean, OwOps
  <2>3. \A f : f.op \notin OwOps => NoOwFrames(<<StartClean, f>>)
    BY <2>2 DEF NoOwFrames
  <2> QED
    BY <1>1, <2>1, <2>3, NothingStep, MapKept
<1> QED
  BY <1>2, <1>3

LEMMA NothingOverwrittenStep ==
    ASSUME \A r \in Requests : r.kind # "overwrite", TypeOK, NothingOverwritten, [Next]_vars
    PROVE  NothingOverwritten'
<1>1. CASE OverwriteNext
  <2>1. OverwriteStep
    BY <1>1 DEF OverwriteNext
  <2> QED
    BY <2>1, NoneOverwrites
       DEF OverwriteStep, OwChunkInBuf, OwChunkInPlace, OwChunkNew, OwChunksDone, OwExhaustedChunk,
           OwExhaustedDone, OwPage, FlushOw, OwOps
<1>2. CASE WriteNext
  BY <1>2, WriteNothing, RequestNothing DEF WriteNext
<1>3. CASE UNCHANGED vars
  <2>1. UNCHANGED <<chunksMap, owCtrl, owHeap, stk>>
    BY <1>3 DEF vars, logVars, heapVars
  <2> QED
    BY <2>1, NothingStep, MapKept DEF NothingOverwritten
<1> QED
  BY <1>1, <1>2, <1>3, LogNothing, GcNothing DEF Next

LEMMA InitNothing == Init => NothingOverwritten
<1> SUFFICES ASSUME Init PROVE NothingOverwritten
  OBVIOUS
<1>1. \A b \in Bank : owCtrl[b].lbn = NoBlk /\ owHeap[b] = {}
  BY DEF Init
<1>2. \A c \in Chunk : Where(c) \notin FlashOwLog
  BY NotInOwLog DEF Init, Where
<1>3. NoOwFrames(stk)
  BY DEF Init, NoOwFrames
<1> QED
  BY <1>1, <1>2, <1>3 DEF NothingOverwritten

(* A host that only writes and trims never has a block opened for          *)
(* overwrites (increaseOWLpn, getOWLpn), nor, as ProgramsAllowed then says,*)
(* a page programmed twice between two erases, or its counter raised.      *)
THEOREM WritesProgramOnce ==
    ASSUME \A r \in Requests : r.kind # "overwrite"
    PROVE  Spec => []NothingOverwritten /\ ProgramsAllowed
<1>1. Init => NothingOverwritten
  BY InitNothing
<1>2. TypeOK /\ NothingOverwritten /\ [Next]_vars => NothingOverwritten'
  BY NothingOverwrittenStep
<1>3. NothingOverwritten => OwChunksInOwBlocks
  BY DEF NothingOverwritten, OwChunksInOwBlocks
<1> QED
  BY <1>1, <1>2, <1>3, TypesInvariant, ProgramsStayAllowed, PTL DEF Spec

-----------------------------------------------------------------------------
(* A host that writes whole pages.                                         *)
(*                                                                         *)
(* The chunks of a logical page then are together in one page of the       *)
(* flash, and a collection finds the pages of its victim valid as a whole, *)
(* so that nothing passes through the buffers.                             *)

(* The pieces of a request for a whole page. *)
AllPieces == [i \in 1 .. ChunksPerPage |-> [idx |-> i - 1, part |-> FALSE]]

FramesOf(s) == {s[i] : i \in DOMAIN s}

(* Where a logical page is: page q of block l of bank b, or nowhere. *)
Lies(a, b, l, q) == \A s \in Slot : chunksMap[<<a, s>>] = <<"FlashWLog", b, l, q, s>>
Nowhere(a) == \A s \in Slot : chunksMap[<<a, s>>] = Invalid

(* Its new data has been sent and not been programmed yet: the count of    *)
(* the block it lies in does not have it any more.                         *)
Coming(a) == \E f \in FramesOf(stk) : f.op = "WritePage" /\ f.lpn = a

Filling1(b, l) == rwCtrl[b].lbn = l /\ ~AllocatesW(stk, b)

(* The pages of a block that count as valid. *)
HeldPages(b, l) == {q \in Page : \E a \in Lpn : ~Coming(a) /\ Lies(a, b, l, q)}

(* The list of a block. *)
ListNow(b, l) == IF Filling1(b, l) THEN rwList[b] ELSE flashList[<<b, l, "W">>]

Together == \A a \in Lpn : Nowhere(a) \/ \E b \in Bank, l \in Lbn, q \in Page : Lies(a, b, l, q)

(* A page lies in a block that is in use, with its data and in the list. *)
PlacedAt(a, b, l, q) ==
    /\ ~InClean(b, l)
    /\ Filling1(b, l) => q < rwCtrl[b].page
    /\ \A s \in Slot : flash[<<b, l, q>>][s] = <<a, s>> /\ ListNow(b, l)[<<q, s>>] = a
Placed == \A a \in Lpn, b \in Bank, l \in Lbn, q \in Page :
    Lies(a, b, l, q) => PlacedAt(a, b, l, q)

(* How many chunks the counts have for n pages. *)
Chunks(n) == ChunksPerPage * n

Counted == \A b \in Bank, l \in Lbn :
    /\ l \in wHeap[b] => wValid[<<b, l>>] = Chunks(Cardinality(HeldPages(b, l)))
    /\ Filling1(b, l) => wValid[<<b, l>>] =
          Chunks(Cardinality(HeldPages(b, l)) + LastPage + 1 - rwCtrl[b].page)
    /\ l \notin wHeap[b] /\ ~Filling1(b, l) => wValid[<<b, l>>] = ChunksPerLogBlk
    /\ owValid[<<b, l>>] = ChunksPerOwBlk

Sent == \A a \in Lpn, s \in Slot : written[<<a, s>>] <=> Coming(a) \/ ~Nowhere(a)

NoneSealed == \A b \in Bank : ~rwCtrl[b].isOw /\ (rwCtrl[b].lbn = NoBlk => wHeap[b] = {})

(* A collection: what it has found and what is left of its victim are what *)
(* the count promised, and nothing is left behind it.                      *)
ScanOk(f) ==
    LET held == HeldPages(f.job.bank, f.job.lbn)
    IN  /\ ~f.job.ow
        /\ f.job.expected = f.found + Chunks(Cardinality(held))
        /\ \A q \in held : q >= f.page
CopyOk(f) ==
    LET held == HeldPages(f.job.bank, f.job.lbn)
    IN  /\ ~f.job.ow
        /\ f.job.expected + ChunksPerPage = f.found + Chunks(Cardinality(held))
        /\ \A q \in held : q >= f.page
        /\ \E a \in Lpn : /\ ~Coming(a)
                          /\ Lies(a, f.job.bank, f.job.lbn, f.page)
                          /\ f.chunks = [s \in Slot |-> <<a, s>>]

PageOps == {"AllocRw", "CheckSpace", "Gc", "GcScan", "GcCopy", "Clean", "WritePage"}
FrameOk(f) == /\ f.op \in PageOps
              /\ f.op = "GcScan" => ScanOk(f)
              /\ f.op = "GcCopy" => CopyOk(f)
FramesOk == \A f \in FramesOf(stk) : FrameOk(f)

(* While the host waits for its page to be programmed no collection runs:  *)
(* a bank that has no block yet takes a clean one.                         *)
NoneComing(s) == \A f \in FramesOf(s) : f.op # "WritePage"
Taking(g) == /\ g.op \in {"AllocRw", "Gc"}
             /\ wHeap[g.bank] = {}
             /\ g.op = "AllocRw" => ~g.check
OneComing == \/ NoneComing(stk)
             \/ \E s \in Seq(Frame), w \in WritePageFrame :
                   /\ NoneComing(s)
                   /\ stk = Append(s, w) \/ \E g \in Frame : Taking(g) /\ stk = Append(Append(s, w), g)

PagesInv == Together /\ Placed /\ Counted /\ Sent /\ NoneSealed /\ FramesOk /\ OneComing

-----------------------------------------------------------------------------
(* Places.                                                                 *)

LEMMA PlaceUnique ==
    /\ \A a, b, l, q, b2, l2, q2 :
          Lies(a, b, l, q) /\ Lies(a, b2, l2, q2) => b = b2 /\ l = l2 /\ q = q2
    /\ \A a, b, l, q : Lies(a, b, l, q) => ~Nowhere(a)
<1>1. 0 \in Slot
  BY Geometry
<1>2. \A b, l, q, s : <<"FlashWLog", b, l, q, s>> # Invalid
  <2>1. \A b, l, q, s : Len(<<"FlashWLog", b, l, q, s>>) = 5 /\ Len(<<"Invalid">>) = 1
    OBVIOUS
  <2> QED
    BY <2>1 DEF Invalid
<1>3. ASSUME NEW a, NEW b, NEW l, NEW q, Lies(a, b, l, q)
      PROVE  /\ chunksMap[<<a, 0>>] = <<"FlashWLog", b, l, q, 0>>
             /\ ~Nowhere(a)
  BY <1>1, <1>2, <1>3 DEF Lies, Nowhere
<1>4. ASSUME NEW a, NEW b, NEW l, NEW q, NEW b2, NEW l2, NEW q2, Lies(a, b, l, q), Lies(a, b2, l2, q2)
      PROVE  b = b2 /\ l = l2 /\ q = q2
  <2>1. <<"FlashWLog", b, l, q, 0>> = <<"FlashWLog", b2, l2, q2, 0>>
    BY <1>3, <1>4
  <2> QED
    BY <2>1
<1> QED
  BY <1>3, <1>4

LEMMA PlaceOfOne ==
    ASSUME Placed, NEW a \in Lpn, NEW c \in Lpn, NEW b \in Bank, NEW l \in Lbn, NEW q \in Page,
           Lies(a, b, l, q), Lies(c, b, l, q)
    PROVE  a = c
<1>1. 0 \in Slot
  BY Geometry
<1>2. flash[<<b, l, q>>][0] = <<a, 0>> /\ flash[<<b, l, q>>][0] = <<c, 0>>
  <2>1. PlacedAt(a, b, l, q) /\ PlacedAt(c, b, l, q)
    BY DEF Placed
  <2> QED
    BY <1>1, <2>1 DEF PlacedAt
<1>3. <<a, 0>> = <<c, 0>>
  BY <1>2
<1> QED
  BY <1>3

(* The map leads to a page as a whole. *)
LEMMA WholePlace ==
    ASSUME Together, NEW c \in Chunk, NEW b, NEW l, NEW q, NEW s,
           chunksMap[c] = <<"FlashWLog", b, l, q, s>>
    PROVE  c[2] = s /\ c[1] \in Lpn /\ c = <<c[1], s>> /\ Lies(c[1], b, l, q)
<1>1. c[1] \in Lpn /\ c[2] \in Slot /\ c = <<c[1], c[2]>>
  BY ContentParts
<1>2. ~ Nowhere(c[1])
  <2>1. Len(<<"FlashWLog", b, l, q, s>>) = 5 /\ Len(<<"Invalid">>) = 1
    OBVIOUS
  <2>2. chunksMap[c] # Invalid
    BY <2>1 DEF Invalid
  <2> QED
    BY <1>1, <2>2 DEF Nowhere
<1>3. PICK b2 \in Bank, l2 \in Lbn, q2 \in Page : Lies(c[1], b2, l2, q2)
  BY <1>1, <1>2 DEF Together
<1>4. chunksMap[c] = <<"FlashWLog", b2, l2, q2, c[2]>>
  BY <1>1, <1>3 DEF Lies
<1>5. b = b2 /\ l = l2 /\ q = q2 /\ s = c[2]
  BY <1>4
<1> QED
  BY <1>1, <1>3, <1>5

LEMMA HeldFinite ==
    /\ IsFiniteSet(Page) /\ Cardinality(Page) = LastPage + 1
    /\ \A b, l : /\ IsFiniteSet(HeldPages(b, l))
                 /\ Cardinality(HeldPages(b, l)) \in Nat
                 /\ HeldPages(b, l) \subseteq Page
<1>1. Page = 0 .. LastPage /\ LastPage \in Nat
  BY Geometry DEF Page, LastPage
<1>2. IsFiniteSet(Page) /\ Cardinality(Page) = LastPage + 1
  BY <1>1, FS_Interval
<1>3. \A b, l : HeldPages(b, l) \subseteq Page
  BY DEF HeldPages
<1> QED
  BY <1>2, <1>3, FS_Subset, FS_CardinalityType

LEMMA ChunksOfPages ==
    /\ \A n \in Nat : Chunks(n) \in Nat
    /\ \A n \in Nat : Chunks(n + 1) = Chunks(n) + ChunksPerPage
    /\ \A n \in Nat : Chunks(n) = 0 => n = 0
    /\ Chunks(0) = 0
    /\ \A n \in Nat : Chunks(n) = ChunksPerPage => n = 1
    /\ Chunks(LastPage + 1) = ChunksPerLogBlk
<1>1. ChunksPerPage \in Nat /\ ChunksPerPage > 0 /\ LowPages \in Nat
  BY Geometry
<1>2. \A n \in Nat : ChunksPerPage * n \in Nat
  BY <1>1
<1>3. \A n \in Nat : ChunksPerPage * (n + 1) = ChunksPerPage * n + ChunksPerPage
  BY <1>1
<1>4. \A n \in Nat : n > 0 => ChunksPerPage * n >= ChunksPerPage
  <2> SUFFICES ASSUME NEW n \in Nat, n > 0 PROVE ChunksPerPage * n >= ChunksPerPage
    OBVIOUS
  <2>1. n - 1 \in Nat
    OBVIOUS
  <2>2. ChunksPerPage * n = ChunksPerPage * (n - 1) + ChunksPerPage /\ ChunksPerPage * (n - 1) \in Nat
    BY <1>1, <1>2, <2>1
  <2> QED
    BY <1>1, <2>2
<1>5. ChunksPerPage * 0 = 0
  BY <1>1
<1>6. \A n \in Nat : ChunksPerPage * n = ChunksPerPage => n = 1
  <2> SUFFICES ASSUME NEW n \in Nat, ChunksPerPage * n = ChunksPerPage, n # 1 PROVE FALSE
    OBVIOUS
  <2>1. n > 1
    BY <1>1, <1>5
  <2>2. n - 1 \in Nat /\ n - 1 > 0
    BY <2>1
  <2>3. ChunksPerPage * n = ChunksPerPage * (n - 1) + ChunksPerPage
    BY <1>1
  <2> QED
    BY <1>1, <1>4, <2>2, <2>3
<1>7. ChunksPerPage * (LastPage + 1) = ChunksPerLogBlk
  BY <1>1 DEF LastPage, ChunksPerLogBlk
<1> QED
  BY <1>1, <1>2, <1>3, <1>4, <1>5, <1>6, <1>7 DEF Chunks

(* A block that is clean holds nothing, nor does any block a page beyond   *)
(* those programmed.                                                       *)
LEMMA CleanHolds ==
    ASSUME Placed, NEW b \in Bank, NEW l \in Lbn
    PROVE  /\ InClean(b, l) => HeldPages(b, l) = {}
           /\ Filling1(b, l) => \A q \in HeldPages(b, l) : q < rwCtrl[b].page
  BY DEF Placed, PlacedAt, HeldPages

(* A victim is not the block being filled, and no block is for overwrites. *)
LEMMA VictimIsNotFilled ==
    ASSUME UseInv, NEW b \in Bank, NEW l \in Lbn, HoldsVictim(stk, b, l)
    PROVE  ~Filling1(b, l) /\ ~InClean(b, l) /\ l \notin wHeap[b]
  BY OneUseOf DEF ExactlyOne, Filling1

-----------------------------------------------------------------------------
(* The stack.                                                              *)

LEMMA FramesPushed ==
    ASSUME NEW T, NEW s \in Seq(T), NEW f
    PROVE  FramesOf(Append(s, f)) = FramesOf(s) \cup {f}
<1>1. s \in Seq(T \cup {f}) /\ f \in T \cup {f}
  OBVIOUS
<1>2. \A i \in DOMAIN Append(s, f) : i \in DOMAIN s \/ i = Len(s) + 1
  BY <1>1
<1>3. Len(s) + 1 \in DOMAIN Append(s, f) /\ Append(s, f)[Len(s) + 1] = f
      /\ \A i \in DOMAIN s : i \in DOMAIN Append(s, f) /\ Append(s, f)[i] = s[i]
  BY <1>1
<1> QED
  BY <1>2, <1>3 DEF FramesOf

LEMMA FramesOfStack ==
    ASSUME TypeOK, Len(stk) > 0
    PROVE  /\ FramesOf(stk) = FramesOf(Below) \cup {Top}
           /\ \A f : FramesOf(At(f)) = FramesOf(Below) \cup {f}
           /\ \A f : FramesOf(Append(stk, f)) = FramesOf(stk) \cup {f}
           /\ \A f, g : FramesOf(Append(At(f), g)) = FramesOf(Below) \cup {f, g}
           /\ \A g : FramesOf(Append(Below, g)) = FramesOf(Below) \cup {g}
           /\ Top \in Frame /\ FramesOf(Below) \subseteq Frame
<1>1. stk \in Seq(Frame) /\ Below \in Seq(Frame) /\ Top \in Frame /\ stk = Append(Below, Top)
  BY StackParts DEF TypeOK
<1>2. \A f : FramesOf(At(f)) = FramesOf(Below) \cup {f}
  BY <1>1, FramesPushed DEF At
<1>3. ASSUME NEW f, NEW g
      PROVE  FramesOf(Append(At(f), g)) = FramesOf(Below) \cup {f, g}
  <2>1. At(f) \in Seq(Frame \cup {f})
    BY <1>1 DEF At
  <2>2. FramesOf(Append(At(f), g)) = FramesOf(At(f)) \cup {g}
    BY <2>1, FramesPushed
  <2> QED
    BY <1>2, <2>2
<1>4. FramesOf(Below) \subseteq Frame
  BY <1>1 DEF FramesOf
<1>5. /\ FramesOf(stk) = FramesOf(Below) \cup {Top}
      /\ \A f : FramesOf(Append(stk, f)) = FramesOf(stk) \cup {f}
      /\ \A g : FramesOf(Append(Below, g)) = FramesOf(Below) \cup {g}
  BY <1>1, FramesPushed
<1> QED
  BY <1>1, <1>2, <1>3, <1>4, <1>5

LEMMA SameAppend ==
    ASSUME NEW s \in Seq(Frame), NEW f \in Frame, NEW t \in Seq(Frame), NEW g \in Frame,
           Append(s, f) = Append(t, g)
    PROVE  s = t /\ f = g
<1>1. Len(s) = Len(t)
  <2>1. Len(Append(s, f)) = Len(s) + 1 /\ Len(Append(t, g)) = Len(t) + 1
    OBVIOUS
  <2> QED
    BY <2>1
<1>2. f = g
  <2>1. Append(s, f)[Len(s) + 1] = f /\ Append(t, g)[Len(t) + 1] = g
    OBVIOUS
  <2> QED
    BY <1>1, <2>1
<1>3. \A i \in 1 .. Len(s) : s[i] = t[i]
  <2>1. \A i \in 1 .. Len(s) : Append(s, f)[i] = s[i] /\ Append(t, g)[i] = t[i]
    BY <1>1
  <2> QED
    BY <2>1
<1> QED
  BY <1>1, <1>2, <1>3

(* Where the page the host waits for is on the stack. *)
LEMMA ComingParts ==
    ASSUME TypeOK, OneComing
    PROVE  /\ stk = << >> => NoneComing(stk)
           /\ Len(stk) > 0 => NoneComing(stk) \/ Top.op \in {"WritePage", "AllocRw", "Gc"}
           /\ Len(stk) > 0 /\ Top.op = "WritePage" => NoneComing(Below)
           /\ Len(stk) > 0 /\ Top.op = "AllocRw" /\ Top.check => NoneComing(stk)
           /\ Len(stk) > 0 /\ Top.op \in {"AllocRw", "Gc"} => NoneComing(stk) \/ wHeap[Top.bank] = {}
           /\ NoneComing(stk) <=> \A a : ~Coming(a)
<1>1. stk = << >> => NoneComing(stk)
  BY DEF NoneComing, FramesOf
<1>2. NoneComing(stk) => \A a : ~Coming(a)
  BY DEF NoneComing, Coming
<1>3. (\A a : ~Coming(a)) => NoneComing(stk)
  BY DEF NoneComing, Coming
<1>4. ASSUME Len(stk) > 0, ~NoneComing(stk)
      PROVE  /\ Top.op \in {"WritePage", "AllocRw", "Gc"}
             /\ Top.op = "WritePage" => NoneComing(Below)
             /\ Top.op \in {"AllocRw", "Gc"} => wHeap[Top.bank] = {}
             /\ Top.op = "AllocRw" => ~Top.check
  <2>1. Below \in Seq(Frame) /\ Top \in Frame /\ stk = Append(Below, Top)
    BY <1>4, StackParts DEF TypeOK
  <2>2. PICK s \in Seq(Frame), w \in WritePageFrame :
           /\ NoneComing(s)
           /\ stk = Append(s, w) \/ \E g \in Frame : Taking(g) /\ stk = Append(Append(s, w), g)
    BY <1>4 DEF OneComing
  <2>3. w \in Frame /\ w.op = "WritePage"
    BY DEF Frame, WritePageFrame
  <2>4. CASE stk = Append(s, w)
    <3>0. Append(Below, Top) = Append(s, w)
      BY <2>1, <2>4
    <3>1. Below = s /\ Top = w
      BY <2>1, <2>2, <2>3, <3>0, SameAppend
    <3> QED
      BY <2>2, <2>3, <3>1
  <2>5. CASE \E g \in Frame : Taking(g) /\ stk = Append(Append(s, w), g)
    <3>1. PICK g \in Frame : Taking(g) /\ stk = Append(Append(s, w), g)
      BY <2>5
    <3> DEFINE t == Append(s, w)
    <3>2. t \in Seq(Frame)
      BY <2>2, <2>3
    <3> HIDE DEF t
    <3>0. Append(Below, Top) = Append(t, g)
      BY <2>1, <3>1 DEF t
    <3>3. Top = g
      BY <2>1, <3>0, <3>1, <3>2, SameAppend
    <3> QED
      BY <3>1, <3>3 DEF Taking
  <2> QED
    BY <2>2, <2>4, <2>5
<1>5. ASSUME Len(stk) > 0, Top.op = "WritePage" PROVE NoneComing(Below)
  <2>1. Top \in FramesOf(stk)
    BY <1>5, FramesOfStack
  <2>2. ~NoneComing(stk)
    BY <1>5, <2>1 DEF NoneComing
  <2> QED
    BY <1>4, <1>5, <2>2
<1> QED
  BY <1>1, <1>2, <1>3, <1>4, <1>5

(* A step that leaves pages and blocks where they are. *)
LEMMA QuietPlaces ==
    ASSUME TypeOK, UseInv, PagesInv,
           UNCHANGED <<chunksMap, flash, flashList, rwCtrl, rwList, clean, wHeap, wValid, owValid, written>>,
           \A b \in Bank : rwCtrl[b].lbn # NoBlk => (AllocatesW(stk', b) <=> AllocatesW(stk, b)),
           \A a \in Lpn : Coming(a)' <=> Coming(a),
           \A f \in FramesOf(stk') : f \in FramesOf(stk) \/ FrameOk(f),
           OneComing'
    PROVE  PagesInv'
<1>1. \A l \in Lbn : l # NoBlk
  BY UseParts
<1>2. \A b \in Bank, l \in Lbn : Filling1(b, l)' <=> Filling1(b, l)
  BY <1>1 DEF Filling1
<1>3. /\ \A a, b, l, q : Lies(a, b, l, q)' <=> Lies(a, b, l, q)
      /\ \A a : Nowhere(a)' <=> Nowhere(a)
  BY DEF Lies, Nowhere
<1>4. \A b, l : HeldPages(b, l)' = HeldPages(b, l)
  BY <1>3 DEF HeldPages
<1>5. \A b, l : InClean(b, l)' <=> InClean(b, l)
  BY DEF InClean
<1>6. \A b \in Bank, l \in Lbn : ListNow(b, l)' = ListNow(b, l)
  BY <1>2 DEF ListNow
<1>7. ASSUME NEW f, FrameOk(f) PROVE FrameOk(f)'
  <2>1. ScanOk(f)' <=> ScanOk(f)
    BY <1>4 DEF ScanOk
  <2>2. CopyOk(f) => CopyOk(f)'
    BY <1>3, <1>4 DEF CopyOk
  <2> QED
    BY <1>7, <2>1, <2>2 DEF FrameOk
<1>8. Together'
  BY <1>3 DEF PagesInv, Together
<1>9. Placed'
  <2> SUFFICES ASSUME NEW a \in Lpn, NEW b \in Bank, NEW l \in Lbn, NEW q \in Page, Lies(a, b, l, q)'
               PROVE  PlacedAt(a, b, l, q)'
    BY DEF Placed
  <2>1. PlacedAt(a, b, l, q)
    BY <1>3 DEF PagesInv, Placed
  <2> QED
    BY <1>2, <1>5, <1>6, <2>1 DEF PlacedAt
<1>10. Counted'
  BY <1>2, <1>4 DEF PagesInv, Counted
<1>11. Sent'
  BY <1>3 DEF PagesInv, Sent
<1>12. NoneSealed'
  BY DEF PagesInv, NoneSealed
<1>13. FramesOk'
  BY <1>7 DEF PagesInv, FramesOk
<1> QED
  BY <1>8, <1>9, <1>10, <1>11, <1>12, <1>13 DEF PagesInv

-----------------------------------------------------------------------------
(* Steps that move no page.                                                *)

LEMMA NoneComingNow ==
    ASSUME NoneComing(stk)
    PROVE  \A a : ~Coming(a)
  BY DEF NoneComing, Coming

(* A step while the host waits for nothing. *)
LEMMA QuietFrames ==
    ASSUME TypeOK, UseInv, PagesInv, NoneComing(stk),
           UNCHANGED <<chunksMap, flash, flashList, rwCtrl, rwList, clean, wHeap, wValid, owValid, written>>,
           \A b \in Bank : rwCtrl[b].lbn # NoBlk => (AllocatesW(stk', b) <=> AllocatesW(stk, b)),
           \A f \in FramesOf(stk') : f \in FramesOf(stk) \/ (f.op # "WritePage" /\ FrameOk(f))
    PROVE  PagesInv'
<1>1. NoneComing(stk')
  BY DEF NoneComing
<1>2. \A a \in Lpn : Coming(a)' <=> Coming(a)
  <2>1. \A a \in Lpn : ~Coming(a)'
    BY <1>1 DEF NoneComing, Coming
  <2> QED
    BY <2>1, NoneComingNow
<1>3. OneComing'
  BY <1>1 DEF OneComing
<1>4. \A f \in FramesOf(stk') : f \in FramesOf(stk) \/ FrameOk(f)
  OBVIOUS
<1> QED
  BY <1>2, <1>3, <1>4, QuietPlaces

(* The frames without a victim or a page. *)
LEMMA PlainFrame ==
    ASSUME NEW f, f.op \in {"AllocRw", "CheckSpace", "Gc", "Clean"}
    PROVE  FrameOk(f) /\ f.op # "WritePage"
  BY DEF FrameOk, PageOps

(* The frames of the host and of a collection of whole pages are all there *)
(* is.                                                                     *)
LEMMA OnlyPageOps ==
    ASSUME TypeOK, PagesInv, NEW op, Running(op)
    PROVE  op \in PageOps /\ FrameOk(Top) /\ Top \in FramesOf(stk)
<1>1. Len(stk) > 0 /\ Top.op = op
  BY DEF Running
<1>2. Top \in FramesOf(stk)
  BY <1>1, FramesOfStack
<1> QED
  BY <1>1, <1>2 DEF PagesInv, FramesOk, FrameOk

(* Neither the data, nor the blocks, nor the stack. *)
LEMMA StutterWhole ==
    ASSUME PagesInv,
           UNCHANGED <<chunksMap, flash, flashList, rwCtrl, rwList, clean, wHeap, wValid, owValid,
                       written, stk>>
    PROVE  PagesInv'
<1>1. UNCHANGED <<chunksMap, flash, flashList, rwCtrl, rwList, clean, wHeap, wValid, owValid, written, stk>>
  OBVIOUS
<1>2. Together'
  BY <1>1 DEF PagesInv, Together, Nowhere, Lies
<1>3. Placed'
  <2>1. /\ \A a, b, l, q : Lies(a, b, l, q)' <=> Lies(a, b, l, q)
        /\ \A b, l : InClean(b, l)' <=> InClean(b, l)
        /\ \A b, l : Filling1(b, l)' <=> Filling1(b, l)
        /\ \A b, l : ListNow(b, l)' = ListNow(b, l)
    BY <1>1 DEF Lies, InClean, Filling1, AllocatesW, ListNow
  <2>2. \A a, b, l, q : PlacedAt(a, b, l, q)' <=> PlacedAt(a, b, l, q)
    BY <1>1, <2>1 DEF PlacedAt
  <2> QED
    BY <2>1, <2>2 DEF PagesInv, Placed
<1>4. \A b, l : HeldPages(b, l)' = HeldPages(b, l)
  BY <1>1 DEF HeldPages, Coming, FramesOf, Lies
<1>5. Counted'
  <2>1. \A b, l : Filling1(b, l)' <=> Filling1(b, l)
    BY <1>1 DEF Filling1, AllocatesW
  <2> QED
    BY <1>1, <1>4, <2>1 DEF PagesInv, Counted
<1>6. Sent' /\ NoneSealed'
  BY <1>1 DEF PagesInv, Sent, NoneSealed, Coming, FramesOf, Nowhere
<1>7. FramesOk'
  <2>1. \A f : ScanOk(f)' <=> ScanOk(f)
    BY <1>4 DEF ScanOk
  <2>2. /\ \A a, b, l, q : Lies(a, b, l, q)' <=> Lies(a, b, l, q)
        /\ \A a : Coming(a)' <=> Coming(a)
    BY <1>1 DEF Lies, Coming, FramesOf
  <2>3. \A f : CopyOk(f)' <=> CopyOk(f)
    BY <1>4, <2>2 DEF CopyOk
  <2> QED
    BY <1>1, <2>1, <2>3 DEF PagesInv, FramesOk, FramesOf, FrameOk
<1>8. OneComing'
  BY <1>1 DEF PagesInv, OneComing, NoneComing, FramesOf, Taking
<1> QED
  BY <1>2, <1>3, <1>5, <1>6, <1>7, <1>8 DEF PagesInv

LEMMA HangWhole == ASSUME PagesInv, NEW why, Hang(why) PROVE PagesInv'
  BY StutterWhole DEF Hang, flashVars, logVars, heapVars

LEMMA GetRWLpnWhole == ASSUME TypeOK, UseInv, PagesInv, GetRWLpn PROVE PagesInv'
<1>0. PICK g : g = [op |-> "AllocRw", bank |-> Top.bank, check |-> FALSE]
  OBVIOUS
<1>1. PICK op : op \in {"FlushW", "WritePage", "GcCopy"} /\ Running(op)
  BY DEF GetRWLpn
<1>2. op \in {"WritePage", "GcCopy"} /\ Top.op = op /\ Len(stk) > 0 /\ Top \in Frame /\ stk \in Seq(Frame)
  BY <1>1, OnlyPageOps, RunningFrame DEF PageOps
<1>3. Top.bank \in Bank
  BY <1>2, FrameKinds DEF WritePageFrame, GcCopyFrame
<1>4. rwCtrl[Top.bank].lbn = NoBlk /\ stk' = Append(stk, g)
      /\ UNCHANGED <<chunksMap, flash, flashList, rwCtrl, rwList, clean, wHeap, wValid, owValid, written>>
  BY <1>0 DEF GetRWLpn, flashVars, logVars, heapVars
<1>5. g \in Frame /\ g.op = "AllocRw" /\ g.bank = Top.bank /\ g.check = FALSE
  BY <1>0, <1>3 DEF Frame, AllocRwFrame
<1>6. \A b \in Bank : rwCtrl[b].lbn # NoBlk => (AllocatesW(stk', b) <=> AllocatesW(stk, b))
  <2>1. \A b : AllocatesW(Append(stk, g), b) <=> AllocatesW(stk, b) \/ (g.op = "AllocRw" /\ g.bank = b)
    BY <1>2, <1>5, Push
  <2> QED
    BY <1>4, <1>5, <2>1
<1>7. FramesOf(stk') = FramesOf(stk) \cup {g}
  BY <1>2, <1>4, FramesOfStack
<1>8. \A a \in Lpn : Coming(a)' <=> Coming(a)
  <2>1. \A a \in Lpn : Coming(a)' <=> \E f \in FramesOf(stk') : f.op = "WritePage" /\ f.lpn = a
    BY DEF Coming
  <2> QED
    BY <1>5, <1>7, <2>1 DEF Coming
<1>9. \A f \in FramesOf(stk') : f \in FramesOf(stk) \/ FrameOk(f)
  BY <1>5, <1>7, PlainFrame
<1>10. Taking(g)'
  <2>1. wHeap[Top.bank] = {}
    BY <1>3, <1>4 DEF PagesInv, NoneSealed
  <2> QED
    BY <1>4, <1>5, <2>1 DEF Taking
<1>11. OneComing'
  <2>1. CASE NoneComing(stk)
    <3>1. NoneComing(stk')
      BY <1>5, <1>7, <2>1 DEF NoneComing
    <3> QED
      BY <3>1 DEF OneComing
  <2>2. CASE ~NoneComing(stk)
    <3>1. PICK s \in Seq(Frame), w \in WritePageFrame :
             /\ NoneComing(s)
             /\ stk = Append(s, w) \/ \E f \in Frame : Taking(f) /\ stk = Append(Append(s, w), f)
      BY <2>2 DEF PagesInv, OneComing
    <3>2. w \in Frame
      BY DEF Frame
    <3>3. ~ \E f \in Frame : Taking(f) /\ stk = Append(Append(s, w), f)
      <4> SUFFICES ASSUME NEW f \in Frame, Taking(f), stk = Append(Append(s, w), f) PROVE FALSE
        OBVIOUS
      <4> DEFINE t == Append(s, w)
      <4>1. t \in Seq(Frame)
        BY <3>2
      <4> HIDE DEF t
      <4>2. Append(Below, Top) = Append(t, f) /\ Below \in Seq(Frame)
        BY <1>2, StackParts DEF t
      <4>3. Top = f
        BY <1>2, <4>1, <4>2, SameAppend
      <4> QED
        BY <1>2, <4>3 DEF Taking
    <3>4. stk = Append(s, w)
      BY <3>1, <3>3
    <3>5. stk' = Append(Append(s, w), g)
      BY <1>4, <3>4
    <3> QED
      BY <1>5, <1>10, <3>1, <3>5 DEF OneComing
  <2> QED
    BY <2>1, <2>2
<1> QED
  BY <1>4, <1>6, <1>8, <1>9, <1>11, QuietPlaces

(* The host waits for nothing when anything but what it waits for runs. *)
LEMMA NoneComingAt ==
    ASSUME TypeOK, PagesInv, NEW op, Running(op), op \notin {"WritePage", "AllocRw", "Gc"}
    PROVE  NoneComing(stk)
  BY ComingParts DEF Running, PagesInv

LEMMA CheckSpaceWhole == ASSUME TypeOK, UseInv, PagesInv, CheckSpace \/ CleanDone PROVE PagesInv'
<1>1. PICK op : op \in {"CheckSpace", "Clean"} /\ Running(op)
  BY DEF CheckSpace, CleanDone
<1>2. Top.op \in {"CheckSpace", "Clean"} /\ Len(stk) > 0 /\ NoneComing(stk)
  BY <1>1, NoneComingAt DEF Running
<1>3. stk' = Below
      /\ UNCHANGED <<chunksMap, flash, flashList, rwCtrl, rwList, clean, wHeap, wValid, owValid, written>>
  BY DEF CheckSpace, CleanDone, flashVars, logVars, heapVars
<1>4. \A b : ~AllocatesW(stk', b) /\ ~AllocatesW(stk, b)
  BY <1>2, <1>3, UseParts, CallersOrdered
<1>5. \A f \in FramesOf(stk') : f \in FramesOf(stk)
  BY <1>2, <1>3, FramesOfStack
<1> QED
  BY <1>2, <1>3, <1>4, <1>5, QuietFrames

LEMMA CleanGcWhole == ASSUME TypeOK, UseInv, PagesInv, CleanGc PROVE PagesInv'
<1>1. Running("Clean")
  BY DEF CleanGc
<1>2. Top.op = "Clean" /\ Len(stk) > 0 /\ NoneComing(stk) /\ Top \in Frame /\ stk \in Seq(Frame)
  BY <1>1, NoneComingAt, RunningFrame DEF Running
<1>3. Top \in CleanFrame
  BY <1>2, FrameKinds
<1>4. PICK b \in Top.bank .. NumBanks - 1 :
         stk' = Append(At([Top EXCEPT !.bank = b + 1]), [op |-> "Gc", bank |-> b])
  BY DEF CleanGc
<1> DEFINE f == [Top EXCEPT !.bank = b + 1]
           g == [op |-> "Gc", bank |-> b]
<1>5. f \in CleanFrame /\ g \in GcFrame
  <2>1. Top.bank \in 0 .. NumBanks
    BY <1>3 DEF CleanFrame
  <2>2. b \in Bank /\ b + 1 \in 0 .. NumBanks
    BY <2>1, Geometry DEF Bank
  <2> QED
    BY <1>3, <2>2 DEF CleanFrame, GcFrame
<1>6. f \in Frame /\ g \in Frame /\ f.op = "Clean" /\ g.op = "Gc"
  BY <1>5 DEF Frame, CleanFrame, GcFrame
<1>7. stk' = Append(At(f), g)
  BY <1>4
<1> HIDE DEF f, g
<1>8. UNCHANGED <<chunksMap, flash, flashList, rwCtrl, rwList, clean, wHeap, wValid, owValid, written>>
  BY DEF CleanGc, flashVars, logVars, heapVars
<1>9. \A x : ~AllocatesW(stk', x) /\ ~AllocatesW(stk, x)
  <2>1. \A x : ~AllocatesW(stk, x)
    BY <1>2, UseParts, CallersOrdered
  <2>2. Below \in Seq(Frame) /\ At(f) \in Seq(Frame) /\ At(f) = Append(Below, f) /\ \A x : ~AllocatesW(Below, x)
    BY <1>2, <1>6, UseParts, CallersOrdered, StackParts DEF At
  <2>3. \A x : AllocatesW(Append(Below, f), x) <=> AllocatesW(Below, x) \/ (f.op = "AllocRw" /\ f.bank = x)
    BY <1>6, <2>2, Push
  <2>4. \A x : AllocatesW(Append(At(f), g), x) <=> AllocatesW(At(f), x) \/ (g.op = "AllocRw" /\ g.bank = x)
    BY <1>6, <2>2, Push
  <2> QED
    BY <1>6, <1>7, <2>1, <2>2, <2>3, <2>4
<1>10. \A h \in FramesOf(stk') : h \in FramesOf(stk) \/ (h.op # "WritePage" /\ FrameOk(h))
  BY <1>2, <1>6, <1>7, FramesOfStack, PlainFrame
<1> QED
  BY <1>2, <1>8, <1>9, <1>10, QuietFrames

-----------------------------------------------------------------------------
(* A clean block becomes the W block of a bank.                            *)

LEMMA FrameKept ==
    ASSUME NEW f, FrameOk(f),
           f.op \in {"GcScan", "GcCopy"} =>
              HeldPages(f.job.bank, f.job.lbn)' = HeldPages(f.job.bank, f.job.lbn),
           f.op = "GcCopy" => \A a \in Lpn :
              ~Coming(a) /\ Lies(a, f.job.bank, f.job.lbn, f.page)
                 => ~Coming(a)' /\ Lies(a, f.job.bank, f.job.lbn, f.page)'
    PROVE  FrameOk(f)'
<1>1. CASE f.op = "GcScan"
  BY <1>1 DEF FrameOk, ScanOk
<1>2. CASE f.op = "GcCopy"
  BY <1>2 DEF FrameOk, CopyOk
<1> QED
  BY <1>1, <1>2 DEF FrameOk

LEMMA WTakenWhole ==
    ASSUME TypeOK, UseInv, PagesInv, NEW b \in Bank, clean[b] # << >>, Len(stk) > 0,
           Top.op = "AllocRw", Top.bank = b, rwCtrl' = FreshRw(b), clean' = Popped(b),
           UNCHANGED <<chunksMap, flash, flashList, rwList, wHeap, wValid, owValid, written>>,
           \A x : ~AllocatesW(stk', x),
           \A f \in FramesOf(stk') : f \in FramesOf(stk) \/ (f.op # "WritePage" /\ FrameOk(f)),
           \A f \in FramesOf(stk) : f.op = "WritePage" => f \in FramesOf(stk'),
           OneComing'
    PROVE  PagesInv'
<1>1. /\ Head(clean[b]) \in Lbn /\ InClean(b, Head(clean[b]))
      /\ \A x \in Bank, y \in Lbn :
            InClean(x, y)' <=> InClean(x, y) /\ ~ (x = b /\ y = Head(clean[b]))
  BY PoppedClean
<1>2. PICK h : h = Head(clean[b])
  OBVIOUS
<1>3. /\ rwCtrl'[b].lbn = h /\ rwCtrl'[b].page = 0 /\ rwCtrl'[b].isOw = FALSE
      /\ \A x \in Bank : x # b => rwCtrl'[x] = rwCtrl[x]
  BY <1>2 DEF FreshRw, TypeOK
<1>4. \A x : AllocatesW(stk, x) <=> x = b
  BY UseParts, CallersOrdered
<1>5. \A x \in Bank, y \in Lbn : Filling1(x, y)' <=> Filling1(x, y) \/ (x = b /\ y = h)
  BY <1>3, <1>4 DEF Filling1
<1>6. \A y : ~Filling1(b, y)
  BY <1>4 DEF Filling1
<1>7. /\ \A a, x, y, q : Lies(a, x, y, q)' <=> Lies(a, x, y, q)
      /\ \A a : Nowhere(a)' <=> Nowhere(a)
  BY DEF Lies, Nowhere
<1>8. \A a : Coming(a)' <=> Coming(a)
  <2>1. \A a : Coming(a)' <=> \E f \in FramesOf(stk') : f.op = "WritePage" /\ f.lpn = a
    BY DEF Coming
  <2> QED
    BY <2>1 DEF Coming
<1>9. \A x, y : HeldPages(x, y)' = HeldPages(x, y)
  BY <1>7, <1>8 DEF HeldPages
<1>10. Together' /\ Sent'
  BY <1>7, <1>8 DEF PagesInv, Together, Sent
<1>11. Placed'
  <2> SUFFICES ASSUME NEW a \in Lpn, NEW x \in Bank, NEW y \in Lbn, NEW q \in Page, Lies(a, x, y, q)'
               PROVE  PlacedAt(a, x, y, q)'
    BY DEF Placed
  <2>1. PlacedAt(a, x, y, q)
    BY <1>7 DEF PagesInv, Placed
  <2>2. ~InClean(x, y)' /\ ~ (x = b /\ y = h)
    BY <1>1, <1>2, <2>1 DEF PlacedAt
  <2>3. Filling1(x, y)' <=> Filling1(x, y)
    BY <1>5, <2>2
  <2>4. Filling1(x, y) => rwCtrl'[x] = rwCtrl[x]
    BY <1>3, <1>6
  <2>5. ListNow(x, y)' = ListNow(x, y)
    BY <2>3 DEF ListNow
  <2> QED
    BY <2>1, <2>2, <2>3, <2>4, <2>5 DEF PlacedAt
<1>12. Counted'
  <2> SUFFICES ASSUME NEW x \in Bank, NEW y \in Lbn
               PROVE  /\ y \in wHeap[x] => wValid[<<x, y>>] = Chunks(Cardinality(HeldPages(x, y))')
                      /\ Filling1(x, y)' => wValid[<<x, y>>] =
                            Chunks(Cardinality(HeldPages(x, y))' + LastPage + 1 - rwCtrl'[x].page)
                      /\ y \notin wHeap[x] /\ ~Filling1(x, y)' => wValid[<<x, y>>] = ChunksPerLogBlk
                      /\ owValid[<<x, y>>] = ChunksPerOwBlk
    BY DEF Counted, Chunks
  <2>0. Cardinality(HeldPages(x, y))' = Cardinality(HeldPages(x, y))
    BY <1>9
  <2>1. /\ y \in wHeap[x] => wValid[<<x, y>>] = Chunks(Cardinality(HeldPages(x, y)))
        /\ Filling1(x, y) => wValid[<<x, y>>] =
              Chunks(Cardinality(HeldPages(x, y)) + LastPage + 1 - rwCtrl[x].page)
        /\ y \notin wHeap[x] /\ ~Filling1(x, y) => wValid[<<x, y>>] = ChunksPerLogBlk
        /\ owValid[<<x, y>>] = ChunksPerOwBlk
    BY DEF PagesInv, Counted
  <2>2. CASE x = b /\ y = h
    <3>1. InClean(x, y)
      BY <1>1, <1>2, <2>2
    <3>2. HeldPages(x, y) = {}
      BY <3>1, CleanHolds DEF PagesInv
    <3>3. y \notin wHeap[x] /\ ~Filling1(x, y)
      BY <3>1, OneUseOf DEF ExactlyOne, Filling1
    <3>4. Cardinality(HeldPages(x, y)) = 0
      BY <3>2, FS_EmptySet
    <3>5. 0 + LastPage + 1 - 0 = LastPage + 1
      <4>1. LastPage \in Nat
        BY Geometry
      <4>2. \A n \in Nat : 0 + n + 1 - 0 = n + 1
        OBVIOUS
      <4> QED
        BY <4>1, <4>2, Zenon
    <3>6. Chunks(LastPage + 1) = ChunksPerLogBlk
      BY ChunksOfPages
    <3> QED
      BY <1>3, <1>5, <2>0, <2>1, <2>2, <3>3, <3>4, <3>5, <3>6
  <2>3. CASE ~ (x = b /\ y = h)
    <3>1. Filling1(x, y)' <=> Filling1(x, y)
      BY <1>5, <2>3
    <3>2. Filling1(x, y) => rwCtrl'[x].page = rwCtrl[x].page
      BY <1>3, <1>6
    <3> QED
      BY <2>0, <2>1, <3>1, <3>2
  <2> QED
    BY <2>2, <2>3
<1>13. NoneSealed'
  BY <1>1, <1>2, <1>3, UseParts DEF PagesInv, NoneSealed
<1>14. FramesOk'
  <2> SUFFICES ASSUME NEW f \in FramesOf(stk') PROVE FrameOk(f)'
    BY DEF FramesOk
  <2>1. FrameOk(f)
    BY DEF PagesInv, FramesOk
  <2> QED
    BY <1>7, <1>8, <1>9, <2>1, FrameKept
<1> QED
  BY <1>10, <1>11, <1>12, <1>13, <1>14 DEF PagesInv

(* The stack while the host waits for a block. *)
LEMMA ComingStack ==
    ASSUME TypeOK, OneComing, ~NoneComing(stk), Len(stk) > 0, Top.op = "AllocRw"
    PROVE  /\ \E s \in Seq(Frame), w \in WritePageFrame : NoneComing(s) /\ Below = Append(s, w)
           /\ ~Top.check /\ wHeap[Top.bank] = {}
<1>1. Below \in Seq(Frame) /\ Top \in Frame /\ stk = Append(Below, Top)
  BY StackParts DEF TypeOK
<1>2. PICK s \in Seq(Frame), w \in WritePageFrame :
         /\ NoneComing(s)
         /\ stk = Append(s, w) \/ \E g \in Frame : Taking(g) /\ stk = Append(Append(s, w), g)
  BY DEF OneComing
<1>3. w \in Frame /\ w.op = "WritePage"
  BY DEF Frame, WritePageFrame
<1>4. stk # Append(s, w)
  <2> SUFFICES ASSUME stk = Append(s, w) PROVE FALSE
    OBVIOUS
  <2>1. Append(Below, Top) = Append(s, w)
    BY <1>1
  <2>2. Top = w
    BY <1>1, <1>2, <1>3, <2>1, SameAppend
  <2> QED
    BY <1>3, <2>2
<1>5. PICK g \in Frame : Taking(g) /\ stk = Append(Append(s, w), g)
  BY <1>2, <1>4
<1> DEFINE t == Append(s, w)
<1>6. t \in Seq(Frame)
  BY <1>2, <1>3
<1>7. t = Append(s, w)
  OBVIOUS
<1> HIDE DEF t
<1>8. Append(Below, Top) = Append(t, g)
  BY <1>1, <1>5, <1>7
<1>9. Below = t /\ Top = g
  BY <1>1, <1>5, <1>6, <1>8, SameAppend
<1> QED
  BY <1>2, <1>5, <1>7, <1>9 DEF Taking

LEMMA AllocRwPopWhole == ASSUME TypeOK, UseInv, PagesInv, AllocRwPop PROVE PagesInv'
<1>1. PICK b : b = Top.bank
  OBVIOUS
<1>2. Running("AllocRw")
  BY DEF AllocRwPop
<1>3. Len(stk) > 0 /\ Top.op = "AllocRw" /\ b \in Bank
  BY <1>1, <1>2, RunningFrame, FrameKinds DEF AllocRwFrame
<1>4. clean[b] # << >>
  BY <1>1 DEF AllocRwPop, Scarce
<1>5. /\ rwCtrl' = FreshRw(b) /\ clean' = Popped(b) /\ stk' = Below
      /\ UNCHANGED <<chunksMap, flash, flashList, rwList, wHeap, wValid, owValid, written>>
  BY <1>1 DEF AllocRwPop, heapVars, flashVars
<1>6. \A x : ~ AllocatesW(stk', x)
  BY <1>3, <1>5, UseParts, CallersOrdered
<1>7. /\ \A f \in FramesOf(stk') : f \in FramesOf(stk)
      /\ \A f \in FramesOf(stk) : f.op = "WritePage" => f \in FramesOf(stk')
  BY <1>3, <1>5, FramesOfStack
<1>8. OneComing'
  <2>1. CASE NoneComing(stk)
    <3>1. NoneComing(stk')
      BY <1>7, <2>1 DEF NoneComing
    <3> QED
      BY <3>1 DEF OneComing
  <2>2. CASE ~NoneComing(stk)
    <3>1. PICK s \in Seq(Frame), w \in WritePageFrame : NoneComing(s) /\ Below = Append(s, w)
      BY <1>3, <2>2, ComingStack DEF PagesInv
    <3> QED
      BY <1>5, <3>1 DEF OneComing
  <2> QED
    BY <2>1, <2>2
<1> QED
  BY <1>1, <1>3, <1>4, <1>5, <1>6, <1>7, <1>8, WTakenWhole

LEMMA AllocRwGcWhole == ASSUME TypeOK, UseInv, PagesInv, AllocRwGc PROVE PagesInv'
<1>1. PICK b : b = Top.bank
  OBVIOUS
<1>2. Running("AllocRw")
  BY DEF AllocRwGc
<1>3. Len(stk) > 0 /\ Top.op = "AllocRw" /\ b \in Bank /\ Top.check \in BOOLEAN
  BY <1>1, <1>2, RunningFrame, FrameKinds DEF AllocRwFrame
<1>4. clean[b] # << >>
  BY <1>1 DEF AllocRwGc
<1>5. PICK f, g : f = [op |-> "CheckSpace", bank |-> b] /\ g = [op |-> "Gc", bank |-> b]
  OBVIOUS
<1>6. f.op = "CheckSpace" /\ g.op = "Gc" /\ g.bank = b /\ f \in Frame /\ g \in Frame
  BY <1>3, <1>5 DEF Frame, SpaceFrame, GcFrame
<1>7. /\ rwCtrl' = FreshRw(b) /\ clean' = Popped(b)
      /\ stk' = IF Top.check THEN Append(At(f), g) ELSE Append(Below, g)
      /\ UNCHANGED <<chunksMap, flash, flashList, rwList, wHeap, wValid, owValid, written>>
  BY <1>1, <1>5 DEF AllocRwGc, heapVars, flashVars
<1>8. \A x : ~ AllocatesW(stk', x)
  <2>1. Below \in Seq(Frame) /\ At(f) \in Seq(Frame) /\ At(f) = Append(Below, f) /\ \A x : ~AllocatesW(Below, x)
    BY <1>3, <1>6, UseParts, CallersOrdered, StackParts DEF At
  <2>2. \A x : AllocatesW(Append(Below, f), x) <=> AllocatesW(Below, x) \/ (f.op = "AllocRw" /\ f.bank = x)
    BY <1>6, <2>1, Push
  <2>3. \A x : AllocatesW(Append(Below, g), x) <=> AllocatesW(Below, x) \/ (g.op = "AllocRw" /\ g.bank = x)
    BY <1>6, <2>1, Push
  <2>4. \A x : AllocatesW(Append(At(f), g), x) <=> AllocatesW(At(f), x) \/ (g.op = "AllocRw" /\ g.bank = x)
    BY <1>6, <2>1, Push
  <2> QED
    BY <1>6, <1>7, <2>1, <2>2, <2>3, <2>4
<1>9. /\ \A h \in FramesOf(stk') : h \in FramesOf(stk) \/ (h.op # "WritePage" /\ FrameOk(h))
      /\ \A h \in FramesOf(stk) : h.op = "WritePage" => h \in FramesOf(stk')
  BY <1>3, <1>6, <1>7, FramesOfStack, PlainFrame
<1>10. OneComing'
  <2>1. CASE NoneComing(stk)
    <3>1. NoneComing(stk')
      BY <1>9, <2>1 DEF NoneComing
    <3> QED
      BY <3>1 DEF OneComing
  <2>2. CASE ~NoneComing(stk)
    <3>1. PICK s \in Seq(Frame), w \in WritePageFrame : NoneComing(s) /\ Below = Append(s, w)
      BY <1>3, <2>2, ComingStack DEF PagesInv
    <3>2. ~Top.check /\ wHeap[b] = {}
      BY <1>1, <1>3, <2>2, ComingStack DEF PagesInv
    <3>3. stk' = Append(Append(s, w), g)
      BY <1>7, <3>1, <3>2
    <3>4. Taking(g)'
      BY <1>6, <1>7, <3>2 DEF Taking
    <3> QED
      BY <1>6, <3>1, <3>3, <3>4 DEF OneComing
  <2> QED
    BY <2>1, <2>2
<1> QED
  BY <1>1, <1>3, <1>4, <1>7, <1>8, <1>9, <1>10, WTakenWhole

-----------------------------------------------------------------------------
(* Collections.                                                            *)

(* A block is open for writes, full, a victim, or clean: nothing else.     *)
LEMMA OneUseOfW ==
    ASSUME UseInv, NothingOverwritten, NEW b \in Bank, NEW l \in Lbn
    PROVE  /\ InClean(b, l) \/ Filling1(b, l) \/ l \in wHeap[b] \/ HoldsVictim(stk, b, l)
           /\ HoldsVictim(stk, b, l) => ~InClean(b, l) /\ ~Filling1(b, l) /\ l \notin wHeap[b]
           /\ l \in wHeap[b] => ~InClean(b, l) /\ ~Filling1(b, l)
           /\ Filling1(b, l) => ~InClean(b, l)
<1>1. \A k \in Lbn : k # NoBlk
  BY DEF Lbn, NoBlk
<1>2. owCtrl[b].lbn # l /\ l \notin owHeap[b]
  BY <1>1 DEF NothingOverwritten
<1>3. ExactlyOne(InClean(b, l), rwCtrl[b].lbn = l /\ ~AllocatesW(stk, b), owCtrl[b].lbn = l,
                 l \in wHeap[b], l \in owHeap[b], HoldsVictim(stk, b, l))
  BY OneUseOf
<1> QED
  BY <1>2, <1>3 DEF ExactlyOne, Filling1

(* A page of a victim is wholly valid, or not at all. *)
LEMMA VictimPage ==
    ASSUME TypeOK, UseInv, NothingOverwritten, PagesInv, NEW j \in Job, ~j.ow,
           HoldsVictim(stk, j.bank, j.lbn), NEW p \in Page
    PROVE  /\ \A a \in Lpn : Lies(a, j.bank, j.lbn, p) =>
                 /\ ValidSlots(j, p) = Slot
                 /\ \A s \in Slot : Owner(j, p, s) = <<a, s>>
           /\ ValidSlots(j, p) # {} => \E a \in Lpn : Lies(a, j.bank, j.lbn, p)
<1>1. PICK b \in Bank, l \in Lbn : b = j.bank /\ l = j.lbn
  BY DEF Job
<1>2. ListNow(b, l) = flashList[<<b, l, "W">>]
  BY <1>1, OneUseOfW DEF ListNow
<1>3. \A s \in Slot, c \in Chunk :
         c \in Owners(j, p, s) <=> /\ flashList[<<b, l, "W">>][<<p, s>>] = c[1]
                                   /\ chunksMap[c] = <<"FlashWLog", b, l, p, s>>
  <2> SUFFICES ASSUME NEW s \in Slot, NEW c \in Chunk
               PROVE  c \in Owners(j, p, s) <=> /\ flashList[<<b, l, "W">>][<<p, s>>] = c[1]
                                                /\ chunksMap[c] = <<"FlashWLog", b, l, p, s>>
    OBVIOUS
  <2>1. chunksMap[c] # <<"FlashOwLog", b, l, p, s>>
    BY LocationParts DEF NothingOverwritten, Where
  <2> QED
    BY <1>1, <2>1 DEF Owners, Maps
<1>4. \A s \in Slot, c \in Chunk : c \in Owners(j, p, s) =>
         c[2] = s /\ c[1] \in Lpn /\ c = <<c[1], s>> /\ Lies(c[1], b, l, p)
  BY <1>3, WholePlace DEF PagesInv
<1>5. ASSUME NEW a \in Lpn, Lies(a, b, l, p)
      PROVE  \A s \in Slot : Owners(j, p, s) = {<<a, s>>}
  <2> SUFFICES ASSUME NEW s \in Slot PROVE Owners(j, p, s) = {<<a, s>>}
    OBVIOUS
  <2>1. <<a, s>> \in Chunk /\ <<a, s>>[1] = a
    BY ContentParts
  <2>2. PlacedAt(a, b, l, p)
    BY <1>5 DEF PagesInv, Placed
  <2>3. flashList[<<b, l, "W">>][<<p, s>>] = a /\ chunksMap[<<a, s>>] = <<"FlashWLog", b, l, p, s>>
    BY <1>2, <1>5, <2>2 DEF PlacedAt, Lies
  <2>4. <<a, s>> \in Owners(j, p, s)
    BY <1>3, <2>1, <2>3
  <2>5. ASSUME NEW c \in Owners(j, p, s) PROVE c = <<a, s>>
    <3>1. c \in Chunk
      BY DEF Owners
    <3>2. c[1] \in Lpn /\ c = <<c[1], s>> /\ Lies(c[1], b, l, p)
      BY <1>4, <3>1
    <3>3. c[1] = a
      BY <1>5, <3>2, PlaceOfOne DEF PagesInv
    <3> QED
      BY <3>2, <3>3
  <2> QED
    BY <2>4, <2>5
<1>6. ASSUME NEW a \in Lpn, Lies(a, b, l, p)
      PROVE  ValidSlots(j, p) = Slot /\ \A s \in Slot : Owner(j, p, s) = <<a, s>>
  <2>1. \A s \in Slot : Owners(j, p, s) = {<<a, s>>}
    BY <1>5, <1>6
  <2>2. \A s \in Slot : Owner(j, p, s) \in Owners(j, p, s)
    BY <2>1, OwnerExists
  <2> QED
    BY <2>1, <2>2 DEF ValidSlots
<1>7. ASSUME ValidSlots(j, p) # {}
      PROVE  \E a \in Lpn : Lies(a, b, l, p)
  <2>1. PICK s \in Slot : Owners(j, p, s) # {}
    BY <1>7 DEF ValidSlots
  <2>2. PICK c \in Owners(j, p, s) : TRUE
    BY <2>1
  <2>3. c \in Chunk
    BY <2>2 DEF Owners
  <2> QED
    BY <1>4, <2>2, <2>3
<1> QED
  BY <1>1, <1>6, <1>7

(* What a collection at work knows. *)
LEMMA ScanParts ==
    ASSUME TypeOK, UseInv, PagesInv, Running("GcScan")
    PROVE  /\ Len(stk) > 0 /\ Top.op = "GcScan" /\ Top \in Frame /\ Top.job \in Job
           /\ Top.job.bank \in Bank /\ Top.job.lbn \in Lbn
           /\ Top.job.expected \in Nat /\ Top.found \in Nat /\ Top.page \in Nat
           /\ HoldsVictim(stk, Top.job.bank, Top.job.lbn)
           /\ NoneComing(stk) /\ ScanOk(Top)
<1>1. Len(stk) > 0 /\ Top.op = "GcScan" /\ NoneComing(stk)
  BY NoneComingAt DEF Running
<1>2. ScanOk(Top)
  BY <1>1, OnlyPageOps DEF FrameOk
<1>3. VictimIs(Top, Top.job.bank, Top.job.lbn)
  BY <1>1 DEF VictimIs
<1>4. HoldsVictim(stk, Top.job.bank, Top.job.lbn)
  BY <1>1, <1>3, UseParts, CallersOrdered
<1> QED
  BY <1>1, <1>2, <1>4, ScanRunning, RunningFrame

(* The pages left to a collection are those that count. *)
LEMMA PagesLeftAreHeld ==
    ASSUME TypeOK, UseInv, NothingOverwritten, PagesInv, Running("GcScan")
    PROVE  PagesLeft(Top) = HeldPages(Top.job.bank, Top.job.lbn)
<1>1. PICK f, b, l : f = Top /\ b = f.job.bank /\ l = f.job.lbn
  OBVIOUS
<1>2. f.job \in Job /\ ~f.job.ow /\ HoldsVictim(stk, b, l) /\ \A q \in HeldPages(b, l) : q >= f.page
  BY <1>1, ScanParts DEF ScanOk
<1>3. \A a : ~Coming(a)
  BY ScanParts, NoneComingNow
<1>4. \A p \in Page : ValidSlots(f.job, p) # {} <=> \E a \in Lpn : Lies(a, b, l, p)
  <2> TAKE p \in Page
  <2>1. ValidSlots(f.job, p) # {} => \E a \in Lpn : Lies(a, b, l, p)
    BY <1>1, <1>2, VictimPage
  <2>2. \A a \in Lpn : Lies(a, b, l, p) => ValidSlots(f.job, p) = Slot
    BY <1>1, <1>2, VictimPage
  <2>3. Slot # {}
    BY Geometry
  <2> QED
    BY <2>1, <2>2, <2>3
<1>5. \A p \in Page : p \in HeldPages(b, l) <=> \E a \in Lpn : Lies(a, b, l, p)
  BY <1>3 DEF HeldPages
<1>6. PagesLeft(f) = HeldPages(b, l)
  <2>1. PagesLeft(f) \subseteq HeldPages(b, l)
    BY <1>4, <1>5 DEF PagesLeft
  <2>2. HeldPages(b, l) \subseteq PagesLeft(f)
    BY <1>2, <1>4, <1>5, HeldFinite DEF PagesLeft
  <2> QED
    BY <2>1, <2>2
<1> QED
  BY <1>1, <1>6

LEMMA GcFullPageWhole ==
    ASSUME TypeOK, UseInv, NothingOverwritten, PagesInv, GcFullPage PROVE PagesInv'
<1>1. Running("GcScan") /\ PagesLeft(Top) # {}
  BY DEF GcFullPage
<1>2. PICK j, p : j = Top.job /\ p = Min(PagesLeft(Top))
  OBVIOUS
<1>3. p \in Page /\ p \in HeldPages(j.bank, j.lbn)
      /\ \A q \in HeldPages(j.bank, j.lbn) : q >= p
  <2>1. PagesLeft(Top) \in SUBSET Nat
    BY Geometry DEF PagesLeft
  <2>2. Min(PagesLeft(Top)) \in PagesLeft(Top) /\ \A q \in PagesLeft(Top) : q >= Min(PagesLeft(Top))
    BY <1>1, <2>1, MinExists
  <2> QED
    BY <1>1, <1>2, <2>2, NextPage, PagesLeftAreHeld
<1>4. PICK a \in Lpn : ~Coming(a) /\ Lies(a, j.bank, j.lbn, p)
  BY <1>3 DEF HeldPages
<1>5. j \in Job /\ ~j.ow /\ HoldsVictim(stk, j.bank, j.lbn)
  BY <1>1, <1>2, ScanParts DEF ScanOk
<1>6. \A s \in Slot : Owner(j, p, s) = <<a, s>>
  BY <1>3, <1>4, <1>5, VictimPage
<1>7. PICK f : f = [op |-> "GcCopy", bank |-> NextBank, job |-> j, page |-> p,
                    found |-> Top.found + ChunksPerPage, chunks |-> [s \in Slot |-> Owner(j, p, s)]]
  OBVIOUS
<1>8. /\ f.op = "GcCopy" /\ f.job = j /\ f.page = p /\ f.found = Top.found + ChunksPerPage
      /\ f.chunks = [s \in Slot |-> <<a, s>>] /\ f.bank = NextBank
  BY <1>6, <1>7
<1>9. CopyOk(f)
  <2>1. j.expected = Top.found + Chunks(Cardinality(HeldPages(j.bank, j.lbn)))
    BY <1>1, <1>2, ScanParts DEF ScanOk
  <2>2. /\ Top.found \in Nat /\ ChunksPerPage \in Nat
        /\ Chunks(Cardinality(HeldPages(j.bank, j.lbn))) \in Nat
    BY <1>1, ScanParts, Geometry, HeldFinite, ChunksOfPages
  <2>3. j.expected + ChunksPerPage = f.found + Chunks(Cardinality(HeldPages(j.bank, j.lbn)))
    BY <1>8, <2>1, <2>2
  <2> QED
    BY <1>3, <1>4, <1>5, <1>8, <2>3 DEF CopyOk
<1>10. FrameOk(f) /\ f.op # "WritePage"
  BY <1>8, <1>9 DEF FrameOk, PageOps
<1>11. stk' = At(f)
       /\ UNCHANGED <<chunksMap, flash, flashList, rwCtrl, rwList, clean, wHeap, wValid, owValid, written>>
  BY <1>2, <1>7 DEF GcFullPage, flashVars, logVars, heapVars
<1>12. \A b : ~AllocatesW(stk', b) /\ ~AllocatesW(stk, b)
  <2>1. Len(stk) > 0 /\ Top.op = "GcScan"
    BY <1>1, ScanParts
  <2>2. f \in Frame
    <3>1. Top.found \in Nat /\ ChunksPerPage \in Nat
      BY <1>1, ScanParts, Geometry
    <3>2. f.chunks \in [Slot -> Chunk]
      BY <1>8, ContentParts
    <3> QED
      BY <1>3, <1>5, <1>7, <1>8, <3>1, <3>2, NextBankTyped DEF Frame, GcCopyFrame
  <2>3. Below \in Seq(Frame) /\ \A b : ~AllocatesW(Below, b)
    BY <2>1, UseParts, CallersOrdered
  <2>4. \A b : AllocatesW(Append(Below, f), b) <=> AllocatesW(Below, b) \/ (f.op = "AllocRw" /\ f.bank = b)
    BY <2>2, <2>3, Push
  <2>5. \A b : ~AllocatesW(stk', b)
    BY <1>8, <1>11, <2>3, <2>4 DEF At
  <2> QED
    BY <2>1, <2>5, UseParts, CallersOrdered
<1>13. \A h \in FramesOf(stk') : h \in FramesOf(stk) \/ (h.op # "WritePage" /\ FrameOk(h))
  BY <1>1, <1>10, <1>11, ScanParts, FramesOfStack
<1>14. NoneComing(stk)
  BY <1>1, ScanParts
<1> QED
  BY <1>11, <1>12, <1>13, <1>14, QuietFrames

LEMMA NoPartialPage ==
    ASSUME TypeOK, UseInv, NothingOverwritten, PagesInv
    PROVE  ~GcPartialPage
<1> SUFFICES ASSUME GcPartialPage PROVE FALSE
  OBVIOUS
<1>1. Running("GcScan") /\ PagesLeft(Top) # {}
  BY DEF GcPartialPage
<1>2. PICK j, p : j = Top.job /\ p = Min(PagesLeft(Top))
  OBVIOUS
<1>3. p \in Page /\ p \in HeldPages(j.bank, j.lbn)
  BY <1>1, <1>2, NextPage, PagesLeftAreHeld
<1>4. PICK a \in Lpn : Lies(a, j.bank, j.lbn, p)
  BY <1>3 DEF HeldPages
<1>5. j \in Job /\ ~j.ow /\ HoldsVictim(stk, j.bank, j.lbn)
  BY <1>1, <1>2, ScanParts DEF ScanOk
<1>6. ValidSlots(j, p) = Slot
  BY <1>3, <1>4, <1>5, VictimPage
<1> QED
  BY <1>2, <1>6 DEF GcPartialPage

LEMMA GcStartWhole ==
    ASSUME TypeOK, UseInv, NothingOverwritten, PagesInv, GcStart PROVE PagesInv'
<1>1. PICK b : b = Top.bank
  OBVIOUS
<1>2. Running("Gc")
  BY DEF GcStart
<1>3. Len(stk) > 0 /\ Top.op = "Gc" /\ b \in Bank /\ Top \in Frame
  BY <1>1, <1>2, RunningFrame, FrameKinds DEF GcFrame
<1>4. ~ \E l : l \in Victims(owValid, owHeap, b)
  BY <1>3, VictimsExist DEF TypeOK, NothingOverwritten
<1>5. PICK l \in Victims(wValid, wHeap, b) :
         /\ wValid' = [wValid EXCEPT ![<<b, l>>] = ResetCount(@, ChunksPerLogBlk)]
         /\ wHeap' = [wHeap EXCEPT ![b] = @ \ {l}]
         /\ stk' = At([op |-> "GcScan", page |-> 0, found |-> 0,
                       job |-> [bank |-> b, lbn |-> l, ow |-> FALSE, expected |-> WMin(b)]])
  BY <1>1, <1>4 DEF GcStart
<1>6. l \in Lbn /\ l \in wHeap[b] /\ wValid[<<b, l>>] = WMin(b) /\ WMin(b) \in Nat
  <2>1. wValid \in [Block -> Nat] /\ wHeap \in [Bank -> SUBSET Lbn]
    BY DEF TypeOK
  <2> QED
    BY <1>3, <1>5, <2>1, VictimsExist DEF Victims, WMin
<1>7. PICK f : f = [op |-> "GcScan", page |-> 0, found |-> 0,
                    job |-> [bank |-> b, lbn |-> l, ow |-> FALSE, expected |-> WMin(b)]]
  OBVIOUS
<1>8. f \in Frame /\ f.op = "GcScan"
  BY <1>3, <1>6, <1>7 DEF Frame, GcScanFrame, Job
<1>9. stk' = At(f)
      /\ UNCHANGED <<chunksMap, flash, flashList, rwCtrl, rwList, clean, owValid, written>>
  BY <1>1, <1>4, <1>5, <1>7 DEF GcStart, logVars
<1>10. NoneComing(stk)
  BY <1>1, <1>3, <1>6, ComingParts DEF PagesInv
<1>11. \A x : ~AllocatesW(stk', x) /\ ~AllocatesW(stk, x)
  <2>1. Below \in Seq(Frame) /\ \A x : ~AllocatesW(Below, x)
    BY <1>3, UseParts, CallersOrdered
  <2>2. \A x : AllocatesW(Append(Below, f), x) <=> AllocatesW(Below, x) \/ (f.op = "AllocRw" /\ f.bank = x)
    BY <1>8, <2>1, Push
  <2>3. \A x : ~AllocatesW(stk', x)
    BY <1>8, <1>9, <2>1, <2>2 DEF At
  <2> QED
    BY <1>3, <2>3, UseParts, CallersOrdered
<1>12. FramesOf(stk') = FramesOf(Below) \cup {f} /\ FramesOf(Below) \subseteq FramesOf(stk)
  BY <1>3, <1>9, FramesOfStack
<1>13. NoneComing(stk')
  BY <1>8, <1>10, <1>12 DEF NoneComing
<1>14. \A a : ~Coming(a)' /\ ~Coming(a)
  <2>1. \A a : ~Coming(a)'
    BY <1>13 DEF NoneComing, Coming
  <2> QED
    BY <1>10, <2>1, NoneComingNow
<1>15. /\ \A a, x, y, q : Lies(a, x, y, q)' <=> Lies(a, x, y, q)
       /\ \A a : Nowhere(a)' <=> Nowhere(a)
  BY <1>9 DEF Lies, Nowhere
<1>16. \A x, y : HeldPages(x, y)' = HeldPages(x, y)
  BY <1>14, <1>15 DEF HeldPages
<1>17. /\ \A x, y : Filling1(x, y)' <=> Filling1(x, y)
       /\ \A x, y : InClean(x, y)' <=> InClean(x, y)
  BY <1>9, <1>11 DEF Filling1, InClean
<1>18. \A x, y : ListNow(x, y)' = ListNow(x, y)
  BY <1>9, <1>17 DEF ListNow
<1>19. Together'
  BY <1>15 DEF PagesInv, Together
<1>20. Sent'
  BY <1>9, <1>14, <1>15 DEF PagesInv, Sent
<1>21. Placed'
  <2> SUFFICES ASSUME NEW a \in Lpn, NEW x \in Bank, NEW y \in Lbn, NEW q \in Page, Lies(a, x, y, q)'
               PROVE  PlacedAt(a, x, y, q)'
    BY DEF Placed
  <2>1. PlacedAt(a, x, y, q)
    BY <1>15 DEF PagesInv, Placed
  <2> QED
    BY <1>9, <1>17, <1>18, <2>1 DEF PlacedAt
<1>22. Counted'
  <2> SUFFICES ASSUME NEW x \in Bank, NEW y \in Lbn
               PROVE  /\ y \in wHeap'[x] => wValid'[<<x, y>>] = Chunks(Cardinality(HeldPages(x, y))')
                      /\ Filling1(x, y)' => wValid'[<<x, y>>] =
                            Chunks(Cardinality(HeldPages(x, y))' + LastPage + 1 - rwCtrl'[x].page)
                      /\ y \notin wHeap'[x] /\ ~Filling1(x, y)' => wValid'[<<x, y>>] = ChunksPerLogBlk
                      /\ owValid'[<<x, y>>] = ChunksPerOwBlk
    BY DEF Counted, Chunks
  <2>1. /\ y \in wHeap[x] => wValid[<<x, y>>] = Chunks(Cardinality(HeldPages(x, y)))
        /\ Filling1(x, y) => wValid[<<x, y>>] =
              Chunks(Cardinality(HeldPages(x, y)) + LastPage + 1 - rwCtrl[x].page)
        /\ y \notin wHeap[x] /\ ~Filling1(x, y) => wValid[<<x, y>>] = ChunksPerLogBlk
        /\ owValid[<<x, y>>] = ChunksPerOwBlk
    BY DEF PagesInv, Counted
  <2>2. Cardinality(HeldPages(x, y))' = Cardinality(HeldPages(x, y))
    BY <1>16
  <2>3. wValid \in [Block -> Nat] /\ wHeap \in [Bank -> SUBSET Lbn] /\ <<b, l>> \in Block /\ <<x, y>> \in Block
    BY <1>3, <1>6 DEF TypeOK, Block
  <2>4. CASE x = b /\ y = l
    <3>1. y \notin wHeap'[x] /\ wValid'[<<x, y>>] = ChunksPerLogBlk
      BY <1>5, <2>3, <2>4 DEF ResetCount
    <3>2. ~Filling1(x, y)'
      BY <1>6, <1>17, <2>4, OneUseOfW
    <3> QED
      BY <1>9, <2>1, <3>1, <3>2
  <2>5. CASE ~ (x = b /\ y = l)
    <3>1. y \in wHeap'[x] <=> y \in wHeap[x]
      BY <1>3, <1>5, <2>3, <2>5
    <3>2. wValid'[<<x, y>>] = wValid[<<x, y>>]
      <4>1. <<x, y>> # <<b, l>>
        BY <2>5
      <4> QED
        BY <1>5, <2>3, <4>1
    <3> QED
      BY <1>9, <1>17, <2>1, <2>2, <3>1, <3>2
  <2> QED
    BY <2>4, <2>5
<1>23. NoneSealed'
  <2>1. \A x \in Bank : wHeap'[x] \subseteq wHeap[x]
    BY <1>3, <1>5 DEF TypeOK
  <2> QED
    BY <1>9, <2>1 DEF PagesInv, NoneSealed
<1>24. FramesOk'
  <2> SUFFICES ASSUME NEW h \in FramesOf(stk') PROVE FrameOk(h)'
    BY DEF FramesOk
  <2>1. CASE h = f
    <3>1. f.job.bank = b /\ f.job.lbn = l /\ ~f.job.ow /\ f.job.expected = WMin(b) /\ f.found = 0 /\ f.page = 0
      BY <1>7
    <3>2. WMin(b) = Chunks(Cardinality(HeldPages(b, l)))
      BY <1>3, <1>6 DEF PagesInv, Counted
    <3>3. f.job.expected = f.found + Chunks(Cardinality(HeldPages(b, l)))
      BY <1>6, <3>1, <3>2
    <3>4. \A q \in HeldPages(b, l) : q >= f.page
      <4>1. \A q \in Page : q >= 0
        BY Geometry
      <4>2. HeldPages(b, l) \subseteq Page
        BY HeldFinite
      <4> QED
        BY <3>1, <4>1, <4>2
    <3>5. ScanOk(f)
      BY <3>1, <3>3, <3>4 DEF ScanOk
    <3>6. ScanOk(f)'
      BY <1>16, <3>5 DEF ScanOk
    <3> QED
      BY <1>8, <2>1, <3>6 DEF FrameOk, PageOps
  <2>2. CASE h \in FramesOf(stk)
    <3>1. FrameOk(h)
      BY <2>2 DEF PagesInv, FramesOk
    <3> QED
      BY <1>14, <1>15, <1>16, <3>1, FrameKept
  <2> QED
    BY <1>12, <2>1, <2>2
<1>25. OneComing'
  BY <1>13 DEF OneComing
<1> QED
  BY <1>19, <1>20, <1>21, <1>22, <1>23, <1>24, <1>25 DEF PagesInv

(* The victim holds nothing any more when it is erased. *)
LEMMA GcEndWhole ==
    ASSUME TypeOK, UseInv, NothingOverwritten, PagesInv, GcEnd PROVE PagesInv'
<1>1. Running("GcScan")
  BY DEF GcEnd
<1>2. PICK j, b, l : j = Top.job /\ b = j.bank /\ l = j.lbn
  OBVIOUS
<1>3. /\ b \in Bank /\ l \in Lbn /\ j \in Job /\ HoldsVictim(stk, b, l) /\ NoneComing(stk)
      /\ Len(stk) > 0 /\ Top.op = "GcScan"
      /\ j.expected = Top.found + Chunks(Cardinality(HeldPages(b, l)))
      /\ Top.found \in Nat
  BY <1>1, <1>2, ScanParts DEF ScanOk
<1>4. HeldPages(b, l) = {}
  <2>1. CASE j.expected = 0
    <3>1. Cardinality(HeldPages(b, l)) \in Nat /\ IsFiniteSet(HeldPages(b, l))
      BY HeldFinite
    <3>2. Chunks(Cardinality(HeldPages(b, l))) \in Nat
      BY <3>1, ChunksOfPages
    <3>3. Chunks(Cardinality(HeldPages(b, l))) = 0
      BY <1>3, <2>1, <3>2
    <3>4. Cardinality(HeldPages(b, l)) = 0
      BY <3>1, <3>3, ChunksOfPages
    <3> QED
      BY <3>1, <3>4, FS_EmptySet
  <2>2. CASE PagesLeft(Top) = {}
    BY <1>1, <1>2, <2>2, PagesLeftAreHeld
  <2> QED
    BY <1>2, <2>1, <2>2 DEF GcEnd
<1>5. /\ flash' = ErasedFlash(j, flash) /\ flashList' = ErasedLists(j) /\ clean' = Pushed(j) /\ stk' = Below
      /\ UNCHANGED <<chunksMap, rwCtrl, rwList, wHeap, wValid, owValid, written>>
  BY <1>2 DEF GcEnd, heapVars
<1>6. \A x : ~AllocatesW(stk', x) /\ ~AllocatesW(stk, x)
  BY <1>3, <1>5, UseParts, CallersOrdered
<1>7. FramesOf(stk') \subseteq FramesOf(stk)
  BY <1>3, <1>5, FramesOfStack
<1>8. NoneComing(stk')
  BY <1>3, <1>7 DEF NoneComing
<1>9. \A a : ~Coming(a)' /\ ~Coming(a)
  <2>1. \A a : ~Coming(a)'
    BY <1>8 DEF NoneComing, Coming
  <2> QED
    BY <1>3, <2>1, NoneComingNow
<1>10. /\ \A a, x, y, q : Lies(a, x, y, q)' <=> Lies(a, x, y, q)
       /\ \A a : Nowhere(a)' <=> Nowhere(a)
  BY <1>5 DEF Lies, Nowhere
<1>11. \A x, y : HeldPages(x, y)' = HeldPages(x, y)
  BY <1>9, <1>10 DEF HeldPages
<1>12. /\ \A x, y : Filling1(x, y)' <=> Filling1(x, y)
       /\ \A x \in Bank, y \in Lbn : InClean(x, y)' <=> InClean(x, y) \/ (x = b /\ y = l)
  <2>1. ~InClean(b, l)
    BY <1>3, OneUseOfW
  <2>2. \A x \in Bank, y \in Lbn : InClean(x, y)' <=> InClean(x, y) \/ (x = j.bank /\ y = j.lbn)
    BY <1>2, <1>3, <1>5, <2>1, PushedClean
  <2> QED
    BY <1>2, <1>5, <1>6, <2>2 DEF Filling1
<1>13. Together' /\ Sent'
  BY <1>5, <1>9, <1>10 DEF PagesInv, Together, Sent
<1>14. Placed'
  <2> SUFFICES ASSUME NEW a \in Lpn, NEW x \in Bank, NEW y \in Lbn, NEW q \in Page, Lies(a, x, y, q)'
               PROVE  PlacedAt(a, x, y, q)'
    BY DEF Placed
  <2>1. Lies(a, x, y, q) /\ PlacedAt(a, x, y, q)
    BY <1>10 DEF PagesInv, Placed
  <2>2. ~ (x = b /\ y = l)
    BY <1>4, <1>9, <2>1 DEF HeldPages
  <2>3. flash'[<<x, y, q>>] = flash[<<x, y, q>>]
    BY <1>2, <1>5, <2>2 DEF ErasedFlash, TypeOK
  <2>4. flashList'[<<x, y, "W">>] = flashList[<<x, y, "W">>]
    BY <1>2, <1>5, <2>2 DEF ErasedLists, TypeOK
  <2>5. ListNow(x, y)' = ListNow(x, y)
    BY <1>5, <1>12, <2>4 DEF ListNow
  <2> QED
    BY <1>5, <1>12, <2>1, <2>2, <2>3, <2>5 DEF PlacedAt
<1>15. Counted'
  BY <1>5, <1>11, <1>12 DEF PagesInv, Counted
<1>16. NoneSealed'
  BY <1>5 DEF PagesInv, NoneSealed
<1>17. FramesOk'
  <2> SUFFICES ASSUME NEW f \in FramesOf(stk') PROVE FrameOk(f)'
    BY DEF FramesOk
  <2>1. FrameOk(f)
    BY <1>7 DEF PagesInv, FramesOk
  <2> QED
    BY <1>9, <1>10, <1>11, <2>1, FrameKept
<1>18. OneComing'
  BY <1>8 DEF OneComing
<1> QED
  BY <1>13, <1>14, <1>15, <1>16, <1>17, <1>18 DEF PagesInv

-----------------------------------------------------------------------------
(* Programs: a logical page moves to the next page of a W block.           *)

(* The map once page a is page q of block l of bank d. *)
MapsTo(a, d, l, q) ==
    chunksMap' = [c \in Chunk |-> IF c[1] = a THEN <<"FlashWLog", d, l, q, c[2]>> ELSE chunksMap[c]]

LEMMA PageMoves ==
    ASSUME TypeOK, PagesInv, NEW a \in Lpn, NEW d \in Bank, NEW l \in Lbn, NEW q \in Page,
           MapsTo(a, d, l, q), NoneComing(stk'), \A c : Coming(c) => c = a
    PROVE  /\ \A c : ~Coming(c)'
           /\ \A c \in Lpn : \A x, y, p : c # a => (Lies(c, x, y, p)' <=> Lies(c, x, y, p))
           /\ \A x, y, p : Lies(a, x, y, p)' <=> x = d /\ y = l /\ p = q
           /\ \A c \in Lpn : c # a => (Nowhere(c)' <=> Nowhere(c))
           /\ ~Nowhere(a)'
           /\ \A x \in Bank, y \in Lbn : HeldPages(x, y)' =
                 (HeldPages(x, y) \ {p \in Page : ~Coming(a) /\ Lies(a, x, y, p)})
                    \cup (IF x = d /\ y = l THEN {q} ELSE {})
<1>1. \A c : ~Coming(c)'
  BY DEF NoneComing, Coming
<1>2. /\ \A c \in Lpn, s \in Slot : c # a => chunksMap'[<<c, s>>] = chunksMap[<<c, s>>]
      /\ \A s \in Slot : chunksMap'[<<a, s>>] = <<"FlashWLog", d, l, q, s>>
  BY ContentParts DEF MapsTo
<1>3. /\ \A c \in Lpn : \A x, y, p : c # a => (Lies(c, x, y, p)' <=> Lies(c, x, y, p))
      /\ \A c \in Lpn : c # a => (Nowhere(c)' <=> Nowhere(c))
  BY <1>2 DEF Lies, Nowhere
<1>4. 0 \in Slot
  BY Geometry
<1>5. \A x, y, p : Lies(a, x, y, p)' <=> x = d /\ y = l /\ p = q
  <2> SUFFICES ASSUME NEW x, NEW y, NEW p PROVE Lies(a, x, y, p)' <=> x = d /\ y = l /\ p = q
    OBVIOUS
  <2>1. ASSUME Lies(a, x, y, p)' PROVE x = d /\ y = l /\ p = q
    <3>1. chunksMap'[<<a, 0>>] = <<"FlashWLog", x, y, p, 0>>
      BY <1>4, <2>1 DEF Lies
    <3>2. <<"FlashWLog", x, y, p, 0>> = <<"FlashWLog", d, l, q, 0>>
      BY <1>2, <1>4, <3>1
    <3> QED
      BY <3>2
  <2>2. ASSUME x = d /\ y = l /\ p = q PROVE Lies(a, x, y, p)'
    BY <1>2, <2>2 DEF Lies
  <2> QED
    BY <2>1, <2>2
<1>6. ~Nowhere(a)'
  <2>1. Len(<<"FlashWLog", d, l, q, 0>>) = 5 /\ Len(<<"Invalid">>) = 1
    OBVIOUS
  <2> QED
    <3>1. chunksMap'[<<a, 0>>] = <<"FlashWLog", d, l, q, 0>>
      BY <1>2, <1>4
    <3>2. chunksMap'[<<a, 0>>] # Invalid
      BY <2>1, <3>1 DEF Invalid
    <3>3. Invalid' = Invalid
      BY DEF Invalid
    <3> QED
      BY <1>4, <3>2, <3>3 DEF Nowhere
<1>7. ASSUME NEW x \in Bank, NEW y \in Lbn
      PROVE  HeldPages(x, y)' =
                 (HeldPages(x, y) \ {p \in Page : ~Coming(a) /\ Lies(a, x, y, p)})
                    \cup (IF x = d /\ y = l THEN {q} ELSE {})
  <2>1. ASSUME NEW p \in Page
        PROVE  p \in HeldPages(x, y)' <=>
                  \/ p \in HeldPages(x, y) /\ ~ (~Coming(a) /\ Lies(a, x, y, p))
                  \/ x = d /\ y = l /\ p = q
    <3>1. p \in HeldPages(x, y)' <=> \E c \in Lpn : Lies(c, x, y, p)'
      BY <1>1 DEF HeldPages
    <3>2. (\E c \in Lpn : Lies(c, x, y, p)') <=>
             \/ \E c \in Lpn : c # a /\ Lies(c, x, y, p)
             \/ x = d /\ y = l /\ p = q
      BY <1>3, <1>5
    <3>3. p \in HeldPages(x, y) <=> \E c \in Lpn : ~Coming(c) /\ Lies(c, x, y, p)
      BY DEF HeldPages
    <3>4. (\E c \in Lpn : c # a /\ Lies(c, x, y, p)) <=>
             p \in HeldPages(x, y) /\ ~ (~Coming(a) /\ Lies(a, x, y, p))
      <4>1. ASSUME NEW c \in Lpn, c # a, Lies(c, x, y, p)
            PROVE  p \in HeldPages(x, y) /\ ~Lies(a, x, y, p)
        BY <3>3, <4>1, PlaceOfOne DEF PagesInv
      <4>2. ASSUME p \in HeldPages(x, y), ~ (~Coming(a) /\ Lies(a, x, y, p))
            PROVE  \E c \in Lpn : c # a /\ Lies(c, x, y, p)
        BY <3>3, <4>2
      <4> QED
        BY <4>1, <4>2
    <3> QED
      BY <3>1, <3>2, <3>4
  <2>2. HeldPages(x, y)' \subseteq Page /\ HeldPages(x, y) \subseteq Page
    BY DEF HeldPages
  <2> QED
    BY <2>1, <2>2
<1> QED
  BY <1>1, <1>3, <1>5, <1>6, <1>7

(* The callers' victims are not concerned. *)
LEMMA CallersKept ==
    ASSUME TypeOK, UseInv, PagesInv, NEW a \in Lpn, NEW d \in Bank, NEW l \in Lbn, NEW q \in Page,
           MapsTo(a, d, l, q), NoneComing(stk'), \A c : Coming(c) => c = a,
           Len(stk) > 0, ~HoldsVictim(stk, d, l),
           \A x \in Bank, y \in Lbn, p \in Page :
              ~Coming(a) /\ Lies(a, x, y, p) => ~HoldsVictim(Below, x, y)
    PROVE  \A f \in FramesOf(Below) : FrameOk(f)'
<1> SUFFICES ASSUME NEW f \in FramesOf(Below) PROVE FrameOk(f)'
  OBVIOUS
<1>1. f \in FramesOf(stk) /\ f \in Frame
  BY FramesOfStack
<1>2. FrameOk(f)
  BY <1>1 DEF PagesInv, FramesOk
<1>3. CASE f.op \notin {"GcScan", "GcCopy"}
  BY <1>2, <1>3, FrameKept
<1>4. CASE f.op \in {"GcScan", "GcCopy"}
  <2>1. PICK x, y : x = f.job.bank /\ y = f.job.lbn
    OBVIOUS
  <2>2. x \in Bank /\ y \in Lbn
    BY <1>1, <1>4, <2>1, FrameKinds DEF GcScanFrame, GcCopyFrame, Job
  <2>3. f.op = "GcCopy" => f.page \in Page
    BY <1>1, FrameKinds DEF GcCopyFrame
  <2>4. HoldsVictim(Below, x, y)
    BY <1>4, <2>1 DEF HoldsVictim, FramesOf, VictimIs
  <2>5. HoldsVictim(stk, x, y)
    BY <2>4, UseParts, CallersOrdered
  <2>6. ~ (x = d /\ y = l)
    BY <2>5
  <2>7. \A p \in Page : ~ (~Coming(a) /\ Lies(a, x, y, p))
    BY <2>2, <2>4
  <2>8. HeldPages(x, y)' =
                 (HeldPages(x, y) \ {p \in Page : ~Coming(a) /\ Lies(a, x, y, p)})
                    \cup (IF x = d /\ y = l THEN {q} ELSE {})
    BY <2>2, PageMoves
  <2>9. HeldPages(x, y)' = HeldPages(x, y)
    BY <2>6, <2>7, <2>8
  <2>10. f.op = "GcCopy" => \A c \in Lpn :
              ~Coming(c) /\ Lies(c, x, y, f.page) => ~Coming(c)' /\ Lies(c, x, y, f.page)'
    BY <2>3, <2>7, PageMoves
  <2> QED
    BY <1>2, <2>1, <2>9, <2>10, FrameKept
<1> QED
  BY <1>3, <1>4

(* Everyone else's data and lists are where they were. *)
OthersKept(a, lists) ==
    \A c \in Lpn, x \in Bank, y \in Lbn, p \in Page : c # a /\ Lies(c, x, y, p) =>
        /\ ~InClean(x, y)'
        /\ lists[<<x, y, "W">>] = flashList[<<x, y, "W">>]
        /\ \A s \in Slot : flash'[<<x, y, p>>][s] = <<c, s>>

LEMMA PageProgrammed ==
    ASSUME TypeOK, UseInv, NothingOverwritten, PagesInv,
           NEW a \in Lpn, NEW d \in Bank, NEW l \in Lbn, NEW q \in Page,
           NEW lists \in [Bank \X Lbn \X {"W", "OW"} -> List], NEW callers \in Seq(Frame),
           Len(stk) > 0, Top.op # "AllocRw", rwCtrl[d].lbn = l, rwCtrl[d].page = q,
           \A x : ~AllocatesW(callers, x), NoneComing(callers),
           \A c : Coming(c) => c = a, Coming(a) \/ ~Nowhere(a),
           MapsTo(a, d, l, q),
           \A s \in Slot : flash'[<<d, l, q>>][s] = <<a, s>>, ~InClean(d, l)',
           OthersKept(a, lists),
           \A x \in Bank, y \in Lbn, p \in Page :
              ~Coming(a) /\ Lies(a, x, y, p) => HoldsVictim(stk, x, y),
           UNCHANGED <<wValid, owValid, written>>,
           IncreaseRWLpn(d, Noted(rwList[d], q, [s \in Slot |-> a]), lists, callers),
           \A f \in FramesOf(callers) : FrameOk(f)'
    PROVE  PagesInv'
<1>1. PICK list : list = Noted(rwList[d], q, [s \in Slot |-> a])
  OBVIOUS
<1>2. /\ \A p \in Page, s \in Slot : p # q => list[<<p, s>>] = rwList[d][<<p, s>>]
      /\ \A s \in Slot : list[<<q, s>>] = a
  <2>1. list = [x \in Page \X Slot |-> IF x[1] = q THEN a ELSE rwList[d][x]]
    BY <1>1, ContentParts DEF Noted
  <2> QED
    BY <2>1
<1>3. PICK g : g = [op |-> "AllocRw", bank |-> d, check |-> TRUE]
  OBVIOUS
<1>4. g \in Frame /\ g.op = "AllocRw" /\ g.bank = d
  BY <1>3 DEF Frame, AllocRwFrame
<1>5. /\ q \in Nat /\ LastPage \in Nat /\ q <= LastPage
      /\ ~rwCtrl[d].isOw
  BY Geometry DEF PagesInv, NoneSealed, Page, LastPage
(* The two ways increaseRWLpn ends. *)
<1>6. \/ /\ q = LastPage
         /\ flashList' = [lists EXCEPT ![<<d, l, "W">>] = list]
         /\ rwList' = [rwList EXCEPT ![d] = EmptyList]
         /\ wHeap' = [wHeap EXCEPT ![d] = @ \cup {l}]
         /\ stk' = Append(callers, g)
         /\ rwCtrl' = rwCtrl
      \/ /\ q # LastPage
         /\ flashList' = lists
         /\ rwList' = [rwList EXCEPT ![d] = list]
         /\ rwCtrl' = [rwCtrl EXCEPT ![d].page = @ + 1]
         /\ stk' = callers
         /\ wHeap' = wHeap
  BY <1>1, <1>3, <1>5 DEF IncreaseRWLpn
<1>7. /\ \A x : AllocatesW(stk', x) <=> q = LastPage /\ x = d
      /\ \A x : ~AllocatesW(stk, x)
      /\ FramesOf(stk') \subseteq FramesOf(callers) \cup {g}
  <2>1. \A x : AllocatesW(Append(callers, g), x) <=> AllocatesW(callers, x) \/ (g.op = "AllocRw" /\ g.bank = x)
    BY <1>4, Push
  <2>2. FramesOf(Append(callers, g)) = FramesOf(callers) \cup {g}
    BY FramesPushed
  <2>3. \A x : ~AllocatesW(stk, x)
    BY UseParts, CallersOrdered
  <2>4. CASE q = LastPage
    <3>1. stk' = Append(callers, g)
      BY <1>6, <2>4
    <3> QED
      BY <1>4, <2>1, <2>2, <2>3, <2>4, <3>1
  <2>5. CASE q # LastPage
    <3>1. stk' = callers
      BY <1>6, <2>5
    <3> QED
      BY <2>3, <2>5, <3>1
  <2> QED
    BY <2>4, <2>5
<1>8. NoneComing(stk')
  BY <1>4, <1>7 DEF NoneComing
<1>9. /\ \A x \in Bank : rwCtrl'[x].lbn = rwCtrl[x].lbn /\ rwCtrl'[x].isOw = rwCtrl[x].isOw
      /\ \A x \in Bank : x # d => rwCtrl'[x] = rwCtrl[x] /\ rwList'[x] = rwList[x] /\ wHeap'[x] = wHeap[x]
      /\ q # LastPage => rwCtrl'[d].page = q + 1 /\ rwList'[d] = list /\ wHeap'[d] = wHeap[d]
      /\ q = LastPage => wHeap'[d] = wHeap[d] \cup {l} /\ flashList'[<<d, l, "W">>] = list
      /\ \A x \in Bank, y \in Lbn : ~ (x = d /\ y = l) => flashList'[<<x, y, "W">>] = lists[<<x, y, "W">>]
  <2>1. rwCtrl \in [Bank -> RWCtrl] /\ rwList \in [Bank -> List] /\ wHeap \in [Bank -> SUBSET Lbn]
    BY DEF TypeOK
  <2>2. CASE q = LastPage
    <3>1. \A x \in Bank, y \in Lbn : ~ (x = d /\ y = l) => <<x, y, "W">> # <<d, l, "W">>
      OBVIOUS
    <3> QED
      BY <1>6, <2>1, <2>2, <3>1
  <2>3. CASE q # LastPage
    <3>1. rwCtrl' = [rwCtrl EXCEPT ![d].page = @ + 1]
      BY <1>6, <2>3
    <3>2. rwCtrl'[d] = [rwCtrl[d] EXCEPT !.page = q + 1] /\ \A x \in Bank : x # d => rwCtrl'[x] = rwCtrl[x]
      BY <2>1, <3>1
    <3>3. rwCtrl[d] \in RWCtrl
      BY <2>1
    <3>4. rwCtrl'[d].lbn = l /\ rwCtrl'[d].isOw = rwCtrl[d].isOw /\ rwCtrl'[d].page = q + 1
      BY <3>2, <3>3 DEF RWCtrl
    <3> QED
      BY <1>6, <2>1, <2>3, <3>2, <3>4
  <2> QED
    BY <2>2, <2>3
<1>10. /\ Filling1(d, l) /\ (Filling1(d, l)' <=> q # LastPage)
       /\ \A x \in Bank, y \in Lbn : ~ (x = d /\ y = l) => (Filling1(x, y)' <=> Filling1(x, y))
       /\ \A y : Filling1(d, y) => y = l
  BY <1>7, <1>9 DEF Filling1
<1>11. ~HoldsVictim(stk, d, l) /\ l \notin wHeap[d]
  BY <1>10, OneUseOfW
<1>12. /\ \A c : ~Coming(c)'
       /\ \A c \in Lpn : \A x, y, p : c # a => (Lies(c, x, y, p)' <=> Lies(c, x, y, p))
       /\ \A x, y, p : Lies(a, x, y, p)' <=> x = d /\ y = l /\ p = q
       /\ \A c \in Lpn : c # a => (Nowhere(c)' <=> Nowhere(c))
       /\ ~Nowhere(a)'
       /\ \A x \in Bank, y \in Lbn : HeldPages(x, y)' =
             (HeldPages(x, y) \ {p \in Page : ~Coming(a) /\ Lies(a, x, y, p)})
                \cup (IF x = d /\ y = l THEN {q} ELSE {})
  BY <1>8, PageMoves
<1>13. Together'
  <2>1. ASSUME NEW c \in Lpn
        PROVE  Nowhere(c)' \/ \E x \in Bank, y \in Lbn, p \in Page : Lies(c, x, y, p)'
    <3>1. CASE c = a
      <4>1. Lies(a, d, l, q)'
        BY <1>12
      <4> QED
        BY <3>1, <4>1
    <3>2. CASE c # a
      <4>1. Nowhere(c) \/ \E x \in Bank, y \in Lbn, p \in Page : Lies(c, x, y, p)
        BY DEF PagesInv, Together
      <4> QED
        BY <1>12, <3>2, <4>1
    <3> QED
      BY <3>1, <3>2
  <2> QED
    BY <2>1 DEF Together
<1>14. Placed'
  <2> SUFFICES ASSUME NEW c \in Lpn, NEW x \in Bank, NEW y \in Lbn, NEW p \in Page, Lies(c, x, y, p)'
               PROVE  PlacedAt(c, x, y, p)'
    BY DEF Placed
  <2>1. CASE c = a
    <3>1. x = d /\ y = l /\ p = q
      BY <1>12, <2>1
    <3>2. Filling1(x, y)' => p < rwCtrl'[x].page
      BY <1>5, <1>9, <1>10, <3>1
    <3>3. \A s \in Slot : ListNow(x, y)'[<<p, s>>] = a
      BY <1>2, <1>9, <1>10, <3>1 DEF ListNow
    <3> QED
      BY <2>1, <3>1, <3>2, <3>3 DEF PlacedAt
  <2>2. CASE c # a
    <3>1. Lies(c, x, y, p) /\ PlacedAt(c, x, y, p)
      BY <1>12, <2>2 DEF PagesInv, Placed
    <3>2. /\ ~InClean(x, y)'
          /\ lists[<<x, y, "W">>] = flashList[<<x, y, "W">>]
          /\ \A s \in Slot : flash'[<<x, y, p>>][s] = <<c, s>>
      BY <2>2, <3>1 DEF OthersKept
    <3>3. CASE x = d /\ y = l
      <4>1. p < q /\ \A s \in Slot : rwList[d][<<p, s>>] = c
        BY <1>10, <3>1, <3>3 DEF PlacedAt, ListNow
      <4>2. p \in Nat
        BY Geometry
      <4>3. Filling1(x, y)' => p < rwCtrl'[x].page
        BY <1>5, <1>9, <1>10, <3>3, <4>1, <4>2
      <4>4. p # q
        BY <1>5, <4>1, <4>2
      <4>5. \A s \in Slot : list[<<p, s>>] = c
        BY <1>2, <4>1, <4>4
      <4>6. ListNow(x, y)' = list
        BY <1>9, <1>10, <3>3 DEF ListNow
      <4> QED
        BY <3>2, <4>3, <4>5, <4>6 DEF PlacedAt
    <3>4. CASE ~ (x = d /\ y = l)
      <4>1. Filling1(x, y)' <=> Filling1(x, y)
        BY <1>10, <3>4
      <4>2. Filling1(x, y) => x # d
        BY <1>10, <3>4
      <4>3. ListNow(x, y)' = ListNow(x, y)
        BY <1>9, <3>2, <3>4, <4>1, <4>2 DEF ListNow
      <4>4. Filling1(x, y)' => p < rwCtrl'[x].page
        BY <1>9, <3>1, <4>1, <4>2 DEF PlacedAt
      <4> QED
        BY <3>1, <3>2, <4>3, <4>4 DEF PlacedAt
    <3> QED
      BY <3>3, <3>4
  <2> QED
    BY <2>1, <2>2
<1>15. Counted'
  <2> SUFFICES ASSUME NEW x \in Bank, NEW y \in Lbn
               PROVE  /\ y \in wHeap'[x] => wValid[<<x, y>>] = Chunks(Cardinality(HeldPages(x, y)'))
                      /\ Filling1(x, y)' => wValid[<<x, y>>] =
                            Chunks(Cardinality(HeldPages(x, y)') + LastPage + 1 - rwCtrl'[x].page)
                      /\ y \notin wHeap'[x] /\ ~Filling1(x, y)' => wValid[<<x, y>>] = ChunksPerLogBlk
                      /\ owValid[<<x, y>>] = ChunksPerOwBlk
    BY DEF Counted, Chunks
  <2>1. /\ y \in wHeap[x] => wValid[<<x, y>>] = Chunks(Cardinality(HeldPages(x, y)))
        /\ Filling1(x, y) => wValid[<<x, y>>] =
              Chunks(Cardinality(HeldPages(x, y)) + LastPage + 1 - rwCtrl[x].page)
        /\ y \notin wHeap[x] /\ ~Filling1(x, y) => wValid[<<x, y>>] = ChunksPerLogBlk
        /\ owValid[<<x, y>>] = ChunksPerOwBlk
    BY DEF PagesInv, Counted
  <2>2. y \in wHeap[x] \/ Filling1(x, y) =>
           HeldPages(x, y)' = HeldPages(x, y) \cup (IF x = d /\ y = l THEN {q} ELSE {})
    <3> SUFFICES ASSUME y \in wHeap[x] \/ Filling1(x, y)
                 PROVE  HeldPages(x, y)' = HeldPages(x, y) \cup (IF x = d /\ y = l THEN {q} ELSE {})
      OBVIOUS
    <3>1. ~HoldsVictim(stk, x, y)
      BY OneUseOfW
    <3>2. {p \in Page : ~Coming(a) /\ Lies(a, x, y, p)} = {}
      BY <3>1
    <3> QED
      BY <1>12, <3>2
  <2>3. CASE x = d /\ y = l
    <3>1. HeldPages(d, l)' = HeldPages(d, l) \cup {q}
      BY <1>10, <2>2, <2>3
    <3>2. q \notin HeldPages(d, l)
      <4>1. \A p \in HeldPages(d, l) : p < q
        BY <1>10, CleanHolds DEF PagesInv
      <4> QED
        BY <1>5, <4>1
    <3>3. /\ Cardinality(HeldPages(d, l)') = Cardinality(HeldPages(d, l)) + 1
          /\ Cardinality(HeldPages(d, l)) \in Nat
      BY <3>1, <3>2, HeldFinite, FS_AddElement
    <3>4. wValid[<<d, l>>] = Chunks(Cardinality(HeldPages(d, l)) + LastPage + 1 - q)
      BY <1>10, <2>1, <2>3
    <3>5. CASE q = LastPage
      <4>1. Cardinality(HeldPages(d, l)) + LastPage + 1 - q = Cardinality(HeldPages(d, l)')
        BY <1>5, <3>3, <3>5
      <4> QED
        BY <1>9, <1>10, <2>1, <2>3, <3>4, <3>5, <4>1
    <3>6. CASE q # LastPage
      <4>1. Cardinality(HeldPages(d, l)) + LastPage + 1 - q = Cardinality(HeldPages(d, l)') + LastPage + 1 - (q + 1)
        BY <1>5, <3>3
      <4> QED
        BY <1>9, <1>10, <1>11, <2>1, <2>3, <3>4, <3>6, <4>1
    <3> QED
      BY <3>5, <3>6
  <2>4. CASE ~ (x = d /\ y = l)
    <3>1. (y \in wHeap'[x] <=> y \in wHeap[x]) /\ (Filling1(x, y)' <=> Filling1(x, y))
      BY <1>9, <1>10, <2>4
    <3>2. Filling1(x, y) => rwCtrl'[x].page = rwCtrl[x].page
      BY <1>9, <1>10, <2>4
    <3>3. y \in wHeap[x] \/ Filling1(x, y) => HeldPages(x, y)' = HeldPages(x, y)
      BY <2>2, <2>4
    <3> QED
      BY <2>1, <3>1, <3>2, <3>3
  <2> QED
    BY <2>3, <2>4
<1>16. Sent'
  <2>1. ASSUME NEW c \in Lpn, NEW s \in Slot
        PROVE  written[<<c, s>>] <=> Coming(c)' \/ ~Nowhere(c)'
    <3>1. written[<<c, s>>] <=> Coming(c) \/ ~Nowhere(c)
      BY DEF PagesInv, Sent
    <3> QED
      BY <1>12, <3>1
  <2> QED
    BY <2>1 DEF Sent
<1>17. NoneSealed'
  BY <1>9, UseParts DEF PagesInv, NoneSealed
<1>18. FramesOk'
  <2>1. FrameOk(g)'
    BY <1>4 DEF FrameOk, PageOps
  <2> QED
    BY <1>7, <2>1 DEF FramesOk
<1>19. OneComing'
  BY <1>8 DEF OneComing
<1> QED
  BY <1>13, <1>14, <1>15, <1>16, <1>17, <1>18, <1>19 DEF PagesInv

LEMMA IncreaseStack ==
    ASSUME NEW callers \in Seq(Frame), NoneComing(callers), NEW d, NEW list, NEW lists,
           IncreaseRWLpn(d, list, lists, callers)
    PROVE  NoneComing(stk')
<1>1. PICK g : g = [op |-> "AllocRw", bank |-> d, check |-> TRUE]
  OBVIOUS
<1>2. stk' = callers \/ stk' = Append(callers, g)
  BY <1>1 DEF IncreaseRWLpn
<1>3. g.op # "WritePage"
  BY <1>1
<1>4. FramesOf(Append(callers, g)) = FramesOf(callers) \cup {g}
  BY FramesPushed
<1> QED
  BY <1>2, <1>3, <1>4 DEF NoneComing

LEMMA WritePageWhole ==
    ASSUME TypeOK, UseInv, NothingOverwritten, PagesInv, WritePage PROVE PagesInv'
<1> DEFINE Programs(a, d, l, q) ==
       /\ a = Top.lpn /\ d = Top.bank /\ l = rwCtrl[d].lbn /\ q = rwCtrl[d].page
       /\ rwCtrl[d].lbn # NoBlk
       /\ flash' = [FlashWithout({a} \X Slot) EXCEPT ![<<d, l, q>>] = [s \in Slot |-> <<a, s>>]]
       /\ chunksMap' = [c \in Chunk |->
              IF c \in {a} \X Slot THEN <<"FlashWLog", d, l, q, c[2]>> ELSE chunksMap[c]]
       /\ IncreaseRWLpn(d, Noted(rwList[d], q, [s \in Slot |-> a]), flashList, Below)
       /\ UNCHANGED <<clean, wValid, owValid, written>>
<1>0. Programs(Top.lpn, Top.bank, rwCtrl[Top.bank].lbn, rwCtrl[Top.bank].page)
  BY Zenon DEF WritePage
<1> HIDE DEF Programs
<1>1. PICK a, d, l, q : Programs(a, d, l, q)
  BY <1>0
<1>6. /\ a = Top.lpn /\ d = Top.bank /\ l = rwCtrl[d].lbn /\ q = rwCtrl[d].page
      /\ rwCtrl[d].lbn # NoBlk
      /\ flash' = [FlashWithout({a} \X Slot) EXCEPT ![<<d, l, q>>] = [s \in Slot |-> <<a, s>>]]
      /\ chunksMap' = [c \in Chunk |->
             IF c \in {a} \X Slot THEN <<"FlashWLog", d, l, q, c[2]>> ELSE chunksMap[c]]
      /\ IncreaseRWLpn(d, Noted(rwList[d], q, [s \in Slot |-> a]), flashList, Below)
      /\ UNCHANGED <<clean, wValid, owValid, written>>
  BY <1>1, Zenon DEF Programs
<1>2. Running("WritePage")
  BY DEF WritePage
<1>3. /\ Len(stk) > 0 /\ Top.op = "WritePage" /\ Top \in Frame /\ Below \in Seq(Frame)
      /\ NoneComing(Below) /\ FramesOf(stk) = FramesOf(Below) \cup {Top}
  BY <1>2, RunningFrame, StackParts, ComingParts, FramesOfStack DEF PagesInv
<1>4. a \in Lpn /\ d \in Bank
  BY <1>6, <1>3, FrameKinds DEF WritePageFrame
<1>5. Coming(a) /\ \A c : Coming(c) => c = a
  BY <1>6, <1>3 DEF Coming, NoneComing
<1>7. l \in Lbn /\ q \in Page
  BY <1>6, <1>4 DEF TypeOK, RWCtrl
<1>8. MapsTo(a, d, l, q)
  <2>1. \A c \in Chunk : c \in {a} \X Slot <=> c[1] = a
    BY ContentParts
  <2> QED
    BY <1>6, <2>1 DEF MapsTo
<1>9. Filling1(d, l) /\ ~HoldsVictim(stk, d, l) /\ ~InClean(d, l)
  <2>1. Filling1(d, l)
    BY <1>6, <1>3, UseParts, CallersOrdered DEF Filling1
  <2> QED
    BY <1>4, <1>7, <2>1, OneUseOfW
<1>10. \A x, y : InClean(x, y)' <=> InClean(x, y)
  BY <1>6 DEF InClean
<1>11. FlashWithout({a} \X Slot) \in [Bank \X Lbn \X Page -> [Slot -> Content]]
  <2>1. logBuf \in [Bank -> [Slot -> BufSlot]]
    BY DEF TypeOK
  <2> QED
    BY <2>1, WithoutTyped
<1>12. \A s \in Slot : flash'[<<d, l, q>>][s] = <<a, s>>
  <2>1. flash'[<<d, l, q>>] = [s \in Slot |-> <<a, s>>]
    BY <1>4, <1>6, <1>7, <1>11
  <2> QED
    BY <2>1
<1>13. OthersKept(a, flashList)
  <2> SUFFICES ASSUME NEW c \in Lpn, NEW x \in Bank, NEW y \in Lbn, NEW p \in Page, c # a, Lies(c, x, y, p)
               PROVE  ~InClean(x, y) /\ \A s \in Slot : flash'[<<x, y, p>>][s] = <<c, s>>
    BY <1>10 DEF OthersKept
  <2>1. PlacedAt(c, x, y, p)
    BY DEF PagesInv, Placed
  <2>2. ~ (x = d /\ y = l /\ p = q)
    <3>1. x = d /\ y = l => p < q
      BY <1>6, <1>9, <2>1 DEF PlacedAt
    <3>2. ~ (q < q)
      BY <1>7, Geometry
    <3> QED
      BY <3>1, <3>2
  <2>3. flash'[<<x, y, p>>] = FlashWithout({a} \X Slot)[<<x, y, p>>]
    BY <1>6, <1>11, <2>2
  <2>4. \A s \in Slot : FlashWithout({a} \X Slot)[<<x, y, p>>][s] = <<c, s>>
    <3>1. \A s \in Slot : flash[<<x, y, p>>][s] = <<c, s>> /\ <<c, s>> \notin {a} \X Slot
      BY <2>1 DEF PlacedAt
    <3>2. FlashWithout({a} \X Slot)[<<x, y, p>>] = [s \in Slot |->
             IF flash[<<x, y, p>>][s] \in {a} \X Slot THEN Stale ELSE flash[<<x, y, p>>][s]]
      BY DEF FlashWithout
    <3> QED
      BY <3>1, <3>2
  <2> QED
    BY <2>1, <2>3, <2>4 DEF PlacedAt
<1>14. NoneComing(stk')
  BY <1>3, <1>6, IncreaseStack
<1>15. \A f \in FramesOf(Below) : FrameOk(f)'
  BY <1>3, <1>4, <1>5, <1>7, <1>8, <1>9, <1>14, CallersKept
<1>16. \A x : ~AllocatesW(Below, x)
  BY <1>3, UseParts, CallersOrdered
<1>17. flashList \in [Bank \X Lbn \X {"W", "OW"} -> List] /\ ~InClean(d, l)' /\ Top.op # "AllocRw"
  BY <1>3, <1>9, <1>10 DEF TypeOK
<1>18. /\ rwCtrl[d].lbn = l /\ rwCtrl[d].page = q
       /\ \A x \in Bank, y \in Lbn, p \in Page : ~Coming(a) /\ Lies(a, x, y, p) => HoldsVictim(stk, x, y)
       /\ IncreaseRWLpn(d, Noted(rwList[d], q, [s \in Slot |-> a]), flashList, Below)
       /\ UNCHANGED <<wValid, owValid, written>>
  BY <1>5, <1>6
<1> QED
  BY <1>3, <1>4, <1>5, <1>7, <1>8, <1>12, <1>13, <1>15, <1>16, <1>17, <1>18, PageProgrammed

(* What a copy of a whole page finds. *)
LEMMA CopyParts ==
    ASSUME TypeOK, UseInv, PagesInv, Running("GcCopy")
    PROVE  /\ Len(stk) > 0 /\ Top.op = "GcCopy" /\ Below \in Seq(Frame) /\ NoneComing(stk)
           /\ Top.bank \in Bank /\ Top.job \in Job /\ Top.page \in Page /\ Top.found \in Nat
           /\ Top.job.bank \in Bank /\ Top.job.lbn \in Lbn /\ Top.job.expected \in Nat
           /\ CopyOk(Top)
           /\ HoldsVictim(stk, Top.job.bank, Top.job.lbn)
           /\ ~HoldsVictim(Below, Top.job.bank, Top.job.lbn)
<1>1. Len(stk) > 0 /\ Top.op = "GcCopy" /\ Top \in Frame /\ stk \in Seq(Frame)
  BY RunningFrame
<1>2. Top \in GcCopyFrame
  BY <1>1, FrameKinds
<1>3. /\ Top.bank \in Bank /\ Top.job \in Job /\ Top.page \in Page /\ Top.found \in Nat
      /\ Top.job.bank \in Bank /\ Top.job.lbn \in Lbn /\ Top.job.expected \in Nat
  BY <1>2 DEF GcCopyFrame, Job
<1>4. NoneComing(stk)
  BY NoneComingAt
<1>5. CopyOk(Top)
  BY <1>1, OnlyPageOps DEF FrameOk
<1>6. VictimIs(Top, Top.job.bank, Top.job.lbn)
  BY <1>1 DEF VictimIs
<1>7. HoldsVictim(stk, Top.job.bank, Top.job.lbn) /\ ~HoldsVictim(Below, Top.job.bank, Top.job.lbn)
      /\ Below \in Seq(Frame)
  BY <1>1, <1>3, <1>6, UseParts, CallersOrdered
<1> QED
  BY <1>1, <1>3, <1>4, <1>5, <1>7

LEMMA GcCopyPageWhole ==
    ASSUME TypeOK, UseInv, NothingOverwritten, PagesInv, GcCopyPage PROVE PagesInv'
<1> DEFINE Copies(d, l, q, lpns, copy, lists, callers) ==
       /\ d = Top.bank /\ l = rwCtrl[d].lbn /\ q = rwCtrl[d].page
       /\ lpns = [s \in Slot |-> Top.chunks[s][1]]
       /\ copy = [flash EXCEPT ![<<d, l, q>>] = flash[<<Top.job.bank, Top.job.lbn, Top.page>>]]
       /\ lists = IF Top.found = Top.job.expected THEN ErasedLists(Top.job) ELSE flashList
       /\ callers = IF Top.found = Top.job.expected THEN Below
                    ELSE At([op |-> "GcScan", page |-> Top.page + 1, found |-> Top.found, job |-> Top.job])
       /\ rwCtrl[d].lbn # NoBlk
       /\ chunksMap' = [c \in Chunk |->
              IF \E s \in Slot : Top.chunks[s] = c
              THEN <<"FlashWLog", d, l, q, CHOOSE s \in Slot : Top.chunks[s] = c>> ELSE chunksMap[c]]
       /\ flash' = IF Top.found = Top.job.expected THEN ErasedFlash(Top.job, copy) ELSE copy
       /\ clean' = IF Top.found = Top.job.expected THEN Pushed(Top.job) ELSE clean
       /\ IncreaseRWLpn(d, Noted(rwList[d], q, lpns), lists, callers)
       /\ UNCHANGED <<wValid, owValid, written>>
<1>0. \E d, l, q, lpns, copy, lists, callers : Copies(d, l, q, lpns, copy, lists, callers)
  <2>1. Copies(Top.bank, rwCtrl[Top.bank].lbn, rwCtrl[Top.bank].page, [s \in Slot |-> Top.chunks[s][1]],
               [flash EXCEPT ![<<Top.bank, rwCtrl[Top.bank].lbn, rwCtrl[Top.bank].page>>] =
                  flash[<<Top.job.bank, Top.job.lbn, Top.page>>]],
               IF Top.found = Top.job.expected THEN ErasedLists(Top.job) ELSE flashList,
               IF Top.found = Top.job.expected THEN Below
                    ELSE At([op |-> "GcScan", page |-> Top.page + 1, found |-> Top.found, job |-> Top.job]))
    BY Zenon DEF GcCopyPage
  <2> HIDE DEF Copies
  <2> QED
    BY <2>1
<1> HIDE DEF Copies
<1>1. PICK d, l, q, lpns, copy, lists, callers : Copies(d, l, q, lpns, copy, lists, callers)
  BY <1>0
<1>2. /\ d = Top.bank /\ l = rwCtrl[d].lbn /\ q = rwCtrl[d].page /\ rwCtrl[d].lbn # NoBlk
      /\ lpns = [s \in Slot |-> Top.chunks[s][1]]
      /\ copy = [flash EXCEPT ![<<d, l, q>>] = flash[<<Top.job.bank, Top.job.lbn, Top.page>>]]
      /\ IncreaseRWLpn(d, Noted(rwList[d], q, lpns), lists, callers)
      /\ UNCHANGED <<wValid, owValid, written>>
  BY <1>1, Zenon DEF Copies
<1>3. chunksMap' = [c \in Chunk |->
              IF \E s \in Slot : Top.chunks[s] = c
              THEN <<"FlashWLog", d, l, q, CHOOSE s \in Slot : Top.chunks[s] = c>> ELSE chunksMap[c]]
  BY <1>1, Zenon DEF Copies
<1>4. PICK j, b, k, p : j = Top.job /\ b = j.bank /\ k = j.lbn /\ p = Top.page
  OBVIOUS
<1>5. Running("GcCopy")
  BY DEF GcCopyPage
<1>6. /\ Len(stk) > 0 /\ Top.op = "GcCopy" /\ Below \in Seq(Frame) /\ NoneComing(stk)
      /\ d \in Bank /\ j \in Job /\ b \in Bank /\ k \in Lbn /\ p \in Page
      /\ Top.found \in Nat /\ j.expected \in Nat
      /\ HoldsVictim(stk, b, k) /\ ~HoldsVictim(Below, b, k)
      /\ j.expected + ChunksPerPage = Top.found + Chunks(Cardinality(HeldPages(b, k)))
      /\ \A r \in HeldPages(b, k) : r >= p
  BY <1>2, <1>4, <1>5, CopyParts DEF CopyOk
<1>7. PICK a \in Lpn : Lies(a, b, k, p) /\ Top.chunks = [s \in Slot |-> <<a, s>>]
  BY <1>4, <1>5, CopyParts DEF CopyOk
<1>8. l \in Lbn /\ q \in Page /\ \A c : ~Coming(c)
  BY <1>2, <1>6, NoneComingNow DEF TypeOK, RWCtrl
<1>9. MapsTo(a, d, l, q)
  <2>1. ASSUME NEW c \in Chunk
        PROVE  /\ (\E s \in Slot : Top.chunks[s] = c) <=> c[1] = a
               /\ c[1] = a => (CHOOSE s \in Slot : Top.chunks[s] = c) = c[2]
    <3>1. c[1] \in Lpn /\ c[2] \in Slot /\ c = <<c[1], c[2]>>
      BY ContentParts
    <3>2. \A s \in Slot : Top.chunks[s] = c <=> c[1] = a /\ s = c[2]
      <4>1. \A s \in Slot : Top.chunks[s] = <<a, s>>
        BY <1>7
      <4> QED
        BY <3>1, <4>1
    <3> QED
      BY <3>1, <3>2
  <2>2. chunksMap' = [c \in Chunk |-> IF c[1] = a THEN <<"FlashWLog", d, l, q, c[2]>> ELSE chunksMap[c]]
    BY <1>3, <2>1
  <2> QED
    BY <2>2 DEF MapsTo
<1>10. lpns = [s \in Slot |-> a]
  <2>1. \A s \in Slot : Top.chunks[s][1] = a
    BY <1>7
  <2> QED
    BY <1>2, <2>1
<1>11. Filling1(d, l) /\ ~HoldsVictim(stk, d, l) /\ ~InClean(d, l) /\ ~ (d = b /\ l = k)
  <2>1. Filling1(d, l)
    BY <1>2, <1>6, UseParts, CallersOrdered DEF Filling1
  <2> QED
    BY <1>6, <1>8, <2>1, OneUseOfW
<1>12. /\ copy \in [Bank \X Lbn \X Page -> [Slot -> Content]]
       /\ \A s \in Slot : copy[<<d, l, q>>][s] = <<a, s>>
       /\ \A x \in Bank, y \in Lbn, r \in Page :
             ~ (x = d /\ y = l /\ r = q) => copy[<<x, y, r>>] = flash[<<x, y, r>>]
  <2>1. flash \in [Bank \X Lbn \X Page -> [Slot -> Content]]
    BY DEF TypeOK
  <2>2. \A s \in Slot : flash[<<b, k, p>>][s] = <<a, s>>
    <3>1. PlacedAt(a, b, k, p)
      BY <1>6, <1>7 DEF PagesInv, Placed
    <3> QED
      BY <3>1 DEF PlacedAt
  <2>3. copy = [flash EXCEPT ![<<d, l, q>>] = flash[<<b, k, p>>]]
    BY <1>2, <1>4
  <2>4. flash[<<b, k, p>>] \in [Slot -> Content]
    BY <1>6, <2>1
  <2>5. copy \in [Bank \X Lbn \X Page -> [Slot -> Content]] /\ copy[<<d, l, q>>] = flash[<<b, k, p>>]
    BY <1>6, <1>8, <2>1, <2>3, <2>4
  <2>6. ASSUME NEW x \in Bank, NEW y \in Lbn, NEW r \in Page, ~ (x = d /\ y = l /\ r = q)
        PROVE  copy[<<x, y, r>>] = flash[<<x, y, r>>]
    <3>1. <<x, y, r>> # <<d, l, q>> /\ <<x, y, r>> \in Bank \X Lbn \X Page
      BY <2>6
    <3> QED
      BY <2>1, <2>3, <3>1
  <2> QED
    BY <2>2, <2>5, <2>6
(* The last page of the victim. *)
<1>13. HeldPages(b, k) # {} /\ p \in HeldPages(b, k)
       /\ (Top.found = j.expected => HeldPages(b, k) = {p})
  <2>1. p \in HeldPages(b, k)
    BY <1>6, <1>7, <1>8 DEF HeldPages
  <2>2. ASSUME Top.found = j.expected PROVE HeldPages(b, k) = {p}
    <3>1. IsFiniteSet(HeldPages(b, k)) /\ Cardinality(HeldPages(b, k)) \in Nat
      BY HeldFinite
    <3>2. Chunks(Cardinality(HeldPages(b, k))) \in Nat /\ ChunksPerPage \in Nat
      BY <3>1, ChunksOfPages, Geometry
    <3>3. Chunks(Cardinality(HeldPages(b, k))) = ChunksPerPage
      BY <1>6, <2>2, <3>2
    <3>4. Cardinality(HeldPages(b, k)) = 1
      BY <3>1, <3>3, ChunksOfPages
    <3>5. \E x : HeldPages(b, k) = {x}
      BY <3>1, <3>4, FS_Singleton
    <3> QED
      BY <2>1, <3>5
  <2> QED
    BY <2>1, <2>2
(* What is erased with it. *)
<1>14. /\ \A x \in Bank, y \in Lbn, r \in Page :
             ~ (Top.found = j.expected /\ x = b /\ y = k) => flash'[<<x, y, r>>] = copy[<<x, y, r>>]
       /\ \A x \in Bank, y \in Lbn :
             ~ (Top.found = j.expected /\ x = b /\ y = k) =>
                lists[<<x, y, "W">>] = flashList[<<x, y, "W">>] /\ (InClean(x, y)' <=> InClean(x, y))
       /\ lists \in [Bank \X Lbn \X {"W", "OW"} -> List]
       /\ callers = IF Top.found = j.expected THEN Below
                    ELSE At([op |-> "GcScan", page |-> p + 1, found |-> Top.found, job |-> j])
  <2>1. callers = IF Top.found = j.expected THEN Below
                    ELSE At([op |-> "GcScan", page |-> p + 1, found |-> Top.found, job |-> j])
    BY <1>1, <1>4 DEF Copies
  <2>2. CASE Top.found = j.expected
    <3>1. flash' = ErasedFlash(j, copy) /\ clean' = Pushed(j) /\ lists = ErasedLists(j)
      BY <1>1, <1>4, <2>2 DEF Copies
    <3>2. ~InClean(b, k)
      BY <1>6, OneUseOfW
    <3>3. \A x \in Bank, y \in Lbn : InClean(x, y)' <=> InClean(x, y) \/ (x = b /\ y = k)
      BY <1>4, <1>6, <3>1, <3>2, PushedClean
    <3>4. ASSUME NEW x \in Bank, NEW y \in Lbn, NEW r \in Page, ~ (x = b /\ y = k)
          PROVE  flash'[<<x, y, r>>] = copy[<<x, y, r>>]
      BY <1>4, <1>12, <3>1, <3>4 DEF ErasedFlash
    <3>5. ASSUME NEW x \in Bank, NEW y \in Lbn, ~ (x = b /\ y = k)
          PROVE  lists[<<x, y, "W">>] = flashList[<<x, y, "W">>]
      BY <1>4, <3>1, <3>5 DEF ErasedLists, TypeOK
    <3>6. lists \in [Bank \X Lbn \X {"W", "OW"} -> List]
      BY <1>6, <1>12, <3>1, ErasedTyped
    <3> QED
      BY <2>1, <2>2, <3>3, <3>4, <3>5, <3>6
  <2>3. CASE Top.found # j.expected
    <3>1. flash' = copy /\ clean' = clean /\ lists = flashList
      BY <1>1, <1>4, <2>3 DEF Copies
    <3>2. \A x, y : InClean(x, y)' <=> InClean(x, y)
      BY <3>1 DEF InClean
    <3>3. flashList \in [Bank \X Lbn \X {"W", "OW"} -> List]
      BY DEF TypeOK
    <3> QED
      BY <2>1, <3>1, <3>2, <3>3
  <2> QED
    BY <2>2, <2>3
<1>15. ~InClean(d, l)' /\ \A s \in Slot : flash'[<<d, l, q>>][s] = <<a, s>>
  BY <1>6, <1>8, <1>11, <1>12, <1>14
<1>16. OthersKept(a, lists)
  <2> SUFFICES ASSUME NEW c \in Lpn, NEW x \in Bank, NEW y \in Lbn, NEW r \in Page, c # a, Lies(c, x, y, r)
               PROVE  /\ ~InClean(x, y)'
                      /\ lists[<<x, y, "W">>] = flashList[<<x, y, "W">>]
                      /\ \A s \in Slot : flash'[<<x, y, r>>][s] = <<c, s>>
    BY DEF OthersKept
  <2>1. PlacedAt(c, x, y, r)
    BY DEF PagesInv, Placed
  <2>2. ~ (Top.found = j.expected /\ x = b /\ y = k)
    <3> SUFFICES ASSUME Top.found = j.expected, x = b, y = k PROVE FALSE
      OBVIOUS
    <3>1. r \in HeldPages(b, k)
      BY <1>8 DEF HeldPages
    <3>2. Lies(c, b, k, p)
      BY <1>13, <3>1
    <3> QED
      BY <1>6, <1>7, <3>2, PlaceOfOne DEF PagesInv
  <2>3. ~ (x = d /\ y = l /\ r = q)
    <3>1. x = d /\ y = l => r < q
      BY <1>2, <1>11, <2>1 DEF PlacedAt
    <3>2. ~ (q < q)
      BY <1>8, Geometry
    <3> QED
      BY <3>1, <3>2
  <2>4. flash'[<<x, y, r>>] = flash[<<x, y, r>>]
    BY <1>12, <1>14, <2>2, <2>3
  <2> QED
    BY <1>14, <2>1, <2>2, <2>4 DEF PlacedAt
<1>17. PICK f : f = [op |-> "GcScan", page |-> p + 1, found |-> Top.found, job |-> j]
  OBVIOUS
<1>18. f \in Frame /\ f.op = "GcScan" /\ f.page = p + 1 /\ f.found = Top.found /\ f.job = j
       /\ p \in Nat /\ p + 1 \in Nat
  <2>1. p \in Nat /\ p + 1 \in Nat
    BY <1>6, Geometry
  <2> QED
    BY <1>6, <1>17, <2>1, ScanTyped
<1>19. /\ callers \in Seq(Frame) /\ \A x : ~AllocatesW(callers, x)
       /\ NoneComing(callers)
       /\ FramesOf(callers) \subseteq FramesOf(Below) \cup {f}
       /\ Top.found = j.expected => FramesOf(callers) = FramesOf(Below)
  <2>1. \A x : ~AllocatesW(Below, x)
    BY <1>6, UseParts, CallersOrdered
  <2>2. \A x : AllocatesW(Append(Below, f), x) <=> AllocatesW(Below, x) \/ (f.op = "AllocRw" /\ f.bank = x)
    BY <1>6, <1>18, Push
  <2>3. At(f) = Append(Below, f) /\ At(f) \in Seq(Frame)
    BY <1>6, <1>18 DEF At
  <2>4. FramesOf(At(f)) = FramesOf(Below) \cup {f} /\ FramesOf(Below) \subseteq FramesOf(stk)
    BY <1>6, FramesOfStack
  <2>5. NoneComing(Below) /\ NoneComing(At(f))
    BY <1>6, <1>18, <2>4 DEF NoneComing
  <2>6. CASE Top.found = j.expected
    <3>1. callers = Below
      BY <1>14, <2>6
    <3> QED
      BY <1>6, <2>1, <2>5, <3>1
  <2>7. CASE Top.found # j.expected
    <3>1. callers = At(f)
      BY <1>14, <1>17, <2>7
    <3> QED
      BY <1>18, <2>1, <2>2, <2>3, <2>4, <2>5, <2>7, <3>1
  <2> QED
    BY <2>6, <2>7
<1>20. NoneComing(stk')
  BY <1>2, <1>19, IncreaseStack
<1>21. \A x \in Bank, y \in Lbn, r \in Page : ~Coming(a) /\ Lies(a, x, y, r) => x = b /\ y = k /\ r = p
  BY <1>7, PlaceUnique
<1>22. \A h \in FramesOf(Below) : FrameOk(h)'
  BY <1>6, <1>8, <1>9, <1>11, <1>20, <1>21, CallersKept
<1>23. Top.found # j.expected => FrameOk(f)'
  <2> SUFFICES ASSUME Top.found # j.expected PROVE FrameOk(f)'
    OBVIOUS
  <2>1. HeldPages(b, k)' = (HeldPages(b, k) \ {r \in Page : ~Coming(a) /\ Lies(a, b, k, r)})
                              \cup (IF b = d /\ k = l THEN {q} ELSE {})
    BY <1>6, <1>8, <1>9, <1>20, PageMoves
  <2>2. {r \in Page : ~Coming(a) /\ Lies(a, b, k, r)} = {p}
    BY <1>6, <1>7, <1>8, <1>21
  <2>3. HeldPages(b, k)' = HeldPages(b, k) \ {p}
    BY <1>11, <2>1, <2>2
  <2>4. IsFiniteSet(HeldPages(b, k)) /\ Cardinality(HeldPages(b, k)) \in Nat /\ HeldPages(b, k) \subseteq Page
    BY HeldFinite
  <2>5. PICK n : n = Cardinality(HeldPages(b, k) \ {p})
    OBVIOUS
  <2>6. n \in Nat /\ Cardinality(HeldPages(b, k)) = n + 1
    <3>1. IsFiniteSet(HeldPages(b, k) \ {p}) /\ Cardinality(HeldPages(b, k) \ {p}) = Cardinality(HeldPages(b, k)) - 1
      BY <1>13, <2>4, FS_RemoveElement
    <3>2. n \in Nat
      BY <2>5, <3>1, FS_CardinalityType
    <3> QED
      BY <2>4, <2>5, <3>1, <3>2
  <2>7. j.expected = Top.found + Chunks(n)
    <3>1. Chunks(n) \in Nat /\ Chunks(n + 1) = Chunks(n) + ChunksPerPage /\ ChunksPerPage \in Nat
      BY <2>6, ChunksOfPages, Geometry
    <3> QED
      BY <1>6, <2>6, <3>1
  <2>8. \A r \in HeldPages(b, k) \ {p} : r >= p + 1
    <3>1. \A r \in HeldPages(b, k) : r \in Nat
      BY <2>4, Geometry
    <3> QED
      BY <1>6, <1>18, <3>1
  <2>9. PICK held : held = HeldPages(b, k) \ {p}
    OBVIOUS
  <2>10. ScanOk(f)'
    <3>1. ~f.job.ow
      BY <1>4, <1>5, <1>18, CopyParts DEF CopyOk
    <3>2. HeldPages(f.job.bank, f.job.lbn)' = held
      BY <1>4, <1>18, <2>3, <2>9
    <3>3. f.job.expected = f.found + Chunks(Cardinality(held)) /\ \A r \in held : r >= f.page
      BY <1>18, <2>5, <2>7, <2>8, <2>9
    <3> QED
      BY <3>1, <3>2, <3>3 DEF ScanOk, Chunks
  <2> QED
    BY <1>18, <2>10 DEF FrameOk, PageOps
<1>24. \A h \in FramesOf(callers) : FrameOk(h)'
  BY <1>19, <1>22, <1>23
<1>25. /\ rwCtrl[d].lbn = l /\ rwCtrl[d].page = q /\ Top.op # "AllocRw"
       /\ \A c : Coming(c) => c = a
       /\ Coming(a) \/ ~Nowhere(a)
       /\ \A x \in Bank, y \in Lbn, r \in Page : ~Coming(a) /\ Lies(a, x, y, r) => HoldsVictim(stk, x, y)
       /\ lists \in [Bank \X Lbn \X {"W", "OW"} -> List]
       /\ UNCHANGED <<wValid, owValid, written>>
  BY <1>2, <1>6, <1>7, <1>8, <1>14, <1>21, PlaceUnique
<1>26. IncreaseRWLpn(d, Noted(rwList[d], q, [s \in Slot |-> a]), lists, callers)
  BY <1>2, <1>10
<1> QED
  BY <1>6, <1>8, <1>9, <1>15, <1>16, <1>19, <1>24, <1>25, <1>26, PageProgrammed

-----------------------------------------------------------------------------
(* Requests.                                                               *)

LEMMA PagePieces ==
    ASSUME NEW a
    PROVE  /\ ChunksOf(a, AllPieces) = {a} \X Slot
           /\ {<<a, AllPieces[i].idx>> : i \in {j \in DOMAIN AllPieces : ~AllPieces[j].part}} = {a} \X Slot
           /\ WholePage(AllPieces)
<1>1. /\ ChunksPerPage \in Nat /\ DOMAIN AllPieces = 1 .. ChunksPerPage /\ Len(AllPieces) = ChunksPerPage
      /\ \A i \in 1 .. ChunksPerPage : AllPieces[i].idx = i - 1 /\ ~AllPieces[i].part
  BY Geometry DEF AllPieces
<1>2. \A i \in 1 .. ChunksPerPage : i - 1 \in Slot
  BY <1>1 DEF Slot
<1>3. \A i \in 1 .. ChunksPerPage : <<a, AllPieces[i].idx>> \in {a} \X Slot
  BY <1>1, <1>2
<1>4. \A c \in {a} \X Slot : \E i \in 1 .. ChunksPerPage : c = <<a, AllPieces[i].idx>>
  <2> SUFFICES ASSUME NEW s \in Slot PROVE \E i \in 1 .. ChunksPerPage : <<a, s>> = <<a, AllPieces[i].idx>>
    OBVIOUS
  <2>1. PICK i : i = s + 1
    OBVIOUS
  <2>2. i \in 1 .. ChunksPerPage /\ i - 1 = s
    <3>1. s \in 0 .. ChunksPerPage - 1 /\ ChunksPerPage \in Nat
      BY <1>1 DEF Slot
    <3> QED
      BY <2>1, <3>1
  <2>3. AllPieces[i].idx = s
    BY <1>1, <2>2
  <2> QED
    BY <2>2, <2>3
<1>5. {j \in DOMAIN AllPieces : ~AllPieces[j].part} = 1 .. ChunksPerPage
  BY <1>1
<1> QED
  BY <1>1, <1>3, <1>4, <1>5 DEF ChunksOf, WholePage

(* manageOldChunkForCompletePageWrite for each chunk of a page: its block  *)
(* counts one page less.                                                   *)
LEMMA ForgottenCounts ==
    ASSUME TypeOK, Together, NEW a \in Lpn, OldCounts({a} \X Slot)
    PROVE  /\ owValid' = owValid
           /\ \A x \in Bank, y \in Lbn :
                 /\ ~ (\E q \in Page : Lies(a, x, y, q)) => wValid'[<<x, y>>] = wValid[<<x, y>>]
                 /\ (\E q \in Page : Lies(a, x, y, q)) /\ ChunksPerPage <= wValid[<<x, y>>]
                       => wValid'[<<x, y>>] = wValid[<<x, y>>] - ChunksPerPage
<1>1. PICK cs : cs = {a} \X Slot
  OBVIOUS
<1>2. /\ wValid \in [Block -> Nat] /\ owValid \in [Block -> Nat]
      /\ wValid' = Decremented(wValid, cs, "FlashWLog")
      /\ owValid' = Decremented(owValid, cs, "FlashOwLog")
  BY <1>1 DEF TypeOK, OldCounts
<1>3. \A c \in cs : \/ Where(c) = Invalid
                    \/ \E b \in Bank, l \in Lbn, q \in Page :
                          Lies(a, b, l, q) /\ Where(c) = <<"FlashWLog", b, l, q, c[2]>>
                          /\ Where(c) \in FlashWLog
  <2> SUFFICES ASSUME NEW s \in Slot
               PROVE  \/ Where(<<a, s>>) = Invalid
                      \/ \E b \in Bank, l \in Lbn, q \in Page :
                            Lies(a, b, l, q) /\ Where(<<a, s>>) = <<"FlashWLog", b, l, q, s>>
                            /\ Where(<<a, s>>) \in FlashWLog
    BY <1>1
  <2>1. CASE Nowhere(a)
    BY <2>1 DEF Nowhere, Where
  <2>2. CASE ~Nowhere(a)
    <3>1. PICK b \in Bank, l \in Lbn, q \in Page : Lies(a, b, l, q)
      BY <2>2 DEF Together
    <3>2. Where(<<a, s>>) = <<"FlashWLog", b, l, q, s>>
      BY <3>1 DEF Lies, Where
    <3> QED
      BY <3>1, <3>2, LocationParts
  <2> QED
    BY <2>1, <2>2
<1>4. Invalid \notin FlashWLog \cup FlashOwLog
  <2>1. \A x \in FlashWLog \cup FlashOwLog : x[1] \in {"FlashWLog", "FlashOwLog"}
    BY DEF FlashWLog, FlashOwLog
  <2>2. Invalid[1] = "Invalid"
    BY DEF Invalid
  <2> QED
    BY <2>1, <2>2
<1>5. Cardinality({}) = 0 /\ Cardinality(cs) = ChunksPerPage /\ ChunksPerPage \in Nat
  <2>1. IsFiniteSet(Slot) /\ Cardinality(Slot) = ChunksPerPage /\ ChunksPerPage \in Nat
    <3>1. Slot = 0 .. ChunksPerPage - 1 /\ ChunksPerPage \in Nat /\ ChunksPerPage > 0
      BY Geometry DEF Slot
    <3> QED
      BY <3>1, FS_Interval
  <2>2. IsFiniteSet({a}) /\ Cardinality({a}) = 1
    BY FS_Singleton
  <2>3. Cardinality({a} \X Slot) = 1 * ChunksPerPage
    BY <2>1, <2>2, FS_Product
  <2> QED
    BY <1>1, <2>1, <2>3, FS_EmptySet
<1>6. ASSUME NEW x \in Block PROVE Held(cs, "FlashOwLog", x) = 0
  <2>1. \A c \in cs : ~ (Where(c) \in FlashWLog \cup FlashOwLog /\ Where(c)[1] = "FlashOwLog")
    <3> SUFFICES ASSUME NEW c \in cs, Where(c) \in FlashWLog \cup FlashOwLog PROVE Where(c)[1] # "FlashOwLog"
      OBVIOUS
    <3>1. PICK b \in Bank, l \in Lbn, q \in Page : Where(c) = <<"FlashWLog", b, l, q, c[2]>>
      BY <1>3, <1>4
    <3> QED
      BY <3>1
  <2>2. {c \in cs : /\ Where(c) \in FlashWLog \cup FlashOwLog
                    /\ Where(c)[1] = "FlashOwLog"
                    /\ <<Where(c)[2], Where(c)[3]>> = x} = {}
    BY <2>1
  <2> QED
    BY <1>5, <2>2 DEF Held
<1>7. ASSUME NEW b \in Bank, NEW l \in Lbn
      PROVE  Held(cs, "FlashWLog", <<b, l>>) = IF \E q \in Page : Lies(a, b, l, q) THEN ChunksPerPage ELSE 0
  <2>1. PICK here : here = {c \in cs : /\ Where(c) \in FlashWLog \cup FlashOwLog
                                       /\ Where(c)[1] = "FlashWLog"
                                       /\ <<Where(c)[2], Where(c)[3]>> = <<b, l>>}
    OBVIOUS
  <2>2. Held(cs, "FlashWLog", <<b, l>>) = Cardinality(here)
    BY <2>1 DEF Held
  <2>3. CASE \E q \in Page : Lies(a, b, l, q)
    <3>1. PICK q \in Page : Lies(a, b, l, q)
      BY <2>3
    <3>2. ASSUME NEW s \in Slot
          PROVE  Where(<<a, s>>) = <<"FlashWLog", b, l, q, s>> /\ Where(<<a, s>>) \in FlashWLog
      BY <3>1, LocationParts DEF Lies, Where
    <3>3. \A s \in Slot : /\ Where(<<a, s>>)[1] = "FlashWLog" /\ Where(<<a, s>>)[2] = b
                          /\ Where(<<a, s>>)[3] = l
      BY <3>2
    <3>4. \A s \in Slot : <<a, s>> \in here
      BY <1>1, <2>1, <3>2, <3>3
    <3>5. here = cs
      BY <1>1, <2>1, <3>4
    <3> QED
      BY <1>5, <2>2, <2>3, <3>5
  <2>4. CASE ~ \E q \in Page : Lies(a, b, l, q)
    <3>1. here = {}
      <4> SUFFICES ASSUME NEW c \in here PROVE FALSE
        OBVIOUS
      <4>1. /\ c \in cs /\ Where(c) \in FlashWLog \cup FlashOwLog
            /\ <<Where(c)[2], Where(c)[3]>> = <<b, l>>
        BY <2>1
      <4>2. PICK b2 \in Bank, l2 \in Lbn, q \in Page :
               Lies(a, b2, l2, q) /\ Where(c) = <<"FlashWLog", b2, l2, q, c[2]>>
        BY <1>3, <1>4, <4>1
      <4>3. Where(c)[2] = b2 /\ Where(c)[3] = l2
        BY <4>2
      <4> QED
        BY <2>4, <4>1, <4>2, <4>3
    <3> QED
      BY <1>5, <2>2, <2>4, <3>1
  <2> QED
    BY <2>3, <2>4
<1>8. owValid' = owValid
  <2>1. \A x \in Block : (IF Held(cs, "FlashOwLog", x) <= owValid[x]
                          THEN owValid[x] - Held(cs, "FlashOwLog", x) ELSE 0) = owValid[x]
    <3> SUFFICES ASSUME NEW x \in Block
                 PROVE  (IF Held(cs, "FlashOwLog", x) <= owValid[x]
                         THEN owValid[x] - Held(cs, "FlashOwLog", x) ELSE 0) = owValid[x]
      OBVIOUS
    <3>1. owValid[x] \in Nat
      BY <1>2
    <3> QED
      BY <1>6, <3>1
  <2> QED
    BY <1>2, <2>1 DEF Decremented
<1>9. ASSUME NEW x \in Bank, NEW y \in Lbn
      PROVE  /\ ~ (\E q \in Page : Lies(a, x, y, q)) => wValid'[<<x, y>>] = wValid[<<x, y>>]
             /\ (\E q \in Page : Lies(a, x, y, q)) /\ ChunksPerPage <= wValid[<<x, y>>]
                   => wValid'[<<x, y>>] = wValid[<<x, y>>] - ChunksPerPage
  <2>1. <<x, y>> \in Block
    BY DEF Block
  <2>2. wValid[<<x, y>>] \in Nat
    BY <1>2, <2>1
  <2>3. wValid'[<<x, y>>] = IF Held(cs, "FlashWLog", <<x, y>>) <= wValid[<<x, y>>]
                            THEN wValid[<<x, y>>] - Held(cs, "FlashWLog", <<x, y>>) ELSE 0
    BY <1>2, <2>1 DEF Decremented
  <2>4. CASE \E q \in Page : Lies(a, x, y, q)
    BY <1>7, <2>3, <2>4
  <2>5. CASE ~ \E q \in Page : Lies(a, x, y, q)
    BY <1>7, <2>2, <2>3, <2>5
  <2> QED
    BY <2>4, <2>5
<1> QED
  BY <1>8, <1>9

(* What a request for a whole page leaves: the page does not count as       *)
(* valid any more where it lies.                                           *)
LEMMA ForgottenPage ==
    ASSUME TypeOK, UseInv, NothingOverwritten, PagesInv, stk = << >>, NEW a \in Lpn,
           OldCounts({a} \X Slot),
           UNCHANGED <<flash, flashList, rwCtrl, rwList, clean, wHeap>>,
           \A x : ~AllocatesW(stk', x),
           \A c \in Lpn : \A x, y, p : Lies(c, x, y, p)' => Lies(c, x, y, p),
           \A c \in Lpn : \A x, y, p : ~Coming(c)' /\ Lies(c, x, y, p)' <=> c # a /\ Lies(c, x, y, p),
           \A c \in Lpn : Nowhere(c)' \/ \A x, y, p : Lies(c, x, y, p) => Lies(c, x, y, p)',
           \A c \in Lpn : Nowhere(c) => Nowhere(c)',
           Sent', FramesOk', OneComing'
    PROVE  PagesInv'
<1>1. NoneComing(stk) /\ \A c : ~Coming(c)
  BY ComingParts, NoneComingNow DEF PagesInv
<1>2. (\A x : ~AllocatesW(stk, x)) /\ \A x, y : ~HoldsVictim(stk, x, y)
  BY EmptyStack
<1>3. /\ \A x, y : Filling1(x, y)' <=> Filling1(x, y)
      /\ \A x, y : InClean(x, y)' <=> InClean(x, y)
  BY <1>2 DEF Filling1, InClean
<1>4. \A x, y : ListNow(x, y)' = ListNow(x, y)
  BY <1>3 DEF ListNow
<1>5. Together'
  <2> SUFFICES ASSUME NEW c \in Lpn
               PROVE  Nowhere(c)' \/ \E x \in Bank, y \in Lbn, p \in Page : Lies(c, x, y, p)'
    BY DEF Together
  <2>1. Nowhere(c) \/ \E x \in Bank, y \in Lbn, p \in Page : Lies(c, x, y, p)
    BY DEF PagesInv, Together
  <2> QED
    BY <2>1
<1>6. Placed'
  <2> SUFFICES ASSUME NEW c \in Lpn, NEW x \in Bank, NEW y \in Lbn, NEW p \in Page, Lies(c, x, y, p)'
               PROVE  PlacedAt(c, x, y, p)'
    BY DEF Placed
  <2>1. PlacedAt(c, x, y, p)
    BY DEF PagesInv, Placed
  <2> QED
    BY <1>3, <1>4, <2>1 DEF PlacedAt
<1>7. \A x, y : HeldPages(x, y)' = HeldPages(x, y) \ {p \in Page : Lies(a, x, y, p)}
  <2> SUFFICES ASSUME NEW x, NEW y, NEW p \in Page
               PROVE  (\E c \in Lpn : ~Coming(c)' /\ Lies(c, x, y, p)') <=>
                         (\E c \in Lpn : ~Coming(c) /\ Lies(c, x, y, p)) /\ ~Lies(a, x, y, p)
    BY DEF HeldPages
  <2>1. ASSUME NEW c \in Lpn, c # a, Lies(c, x, y, p) PROVE ~Lies(a, x, y, p)
    <3> SUFFICES ASSUME Lies(a, x, y, p) PROVE FALSE
      OBVIOUS
    <3>1. PICK b \in Bank, l \in Lbn, q \in Page : Lies(a, b, l, q)
      BY PlaceUnique DEF PagesInv, Together
    <3>2. b = x /\ l = y /\ q = p
      BY <3>1, PlaceUnique
    <3> QED
      BY <2>1, <3>1, <3>2, PlaceOfOne DEF PagesInv
  <2> QED
    BY <1>1, <2>1
<1>8. Counted'
  <2> SUFFICES ASSUME NEW x \in Bank, NEW y \in Lbn
               PROVE  /\ y \in wHeap[x] => wValid'[<<x, y>>] = Chunks(Cardinality(HeldPages(x, y)'))
                      /\ Filling1(x, y)' => wValid'[<<x, y>>] =
                            Chunks(Cardinality(HeldPages(x, y)') + LastPage + 1 - rwCtrl[x].page)
                      /\ y \notin wHeap[x] /\ ~Filling1(x, y)' => wValid'[<<x, y>>] = ChunksPerLogBlk
                      /\ owValid'[<<x, y>>] = ChunksPerOwBlk
    BY DEF Counted, Chunks
  <2>1. /\ y \in wHeap[x] => wValid[<<x, y>>] = Chunks(Cardinality(HeldPages(x, y)))
        /\ Filling1(x, y) => wValid[<<x, y>>] =
              Chunks(Cardinality(HeldPages(x, y)) + LastPage + 1 - rwCtrl[x].page)
        /\ y \notin wHeap[x] /\ ~Filling1(x, y) => wValid[<<x, y>>] = ChunksPerLogBlk
        /\ owValid[<<x, y>>] = ChunksPerOwBlk
    BY DEF PagesInv, Counted
  <2>2. owValid' = owValid
    BY ForgottenCounts DEF PagesInv
  <2>3. CASE ~ \E q \in Page : Lies(a, x, y, q)
    <3>1. wValid'[<<x, y>>] = wValid[<<x, y>>]
      BY <2>3, ForgottenCounts DEF PagesInv
    <3>2. HeldPages(x, y)' = HeldPages(x, y)
      BY <1>7, <2>3
    <3> QED
      BY <1>3, <2>1, <2>2, <3>1, <3>2
  <2>4. CASE \E q \in Page : Lies(a, x, y, q)
    <3>1. PICK q \in Page : Lies(a, x, y, q)
      BY <2>4
    <3>2. HeldPages(x, y)' = HeldPages(x, y) \ {q}
      <4>1. {p \in Page : Lies(a, x, y, p)} = {q}
        BY <3>1, PlaceUnique
      <4> QED
        BY <1>7, <4>1
    <3>3. q \in HeldPages(x, y)
      BY <1>1, <3>1 DEF HeldPages
    <3>4. PICK n : n = Cardinality(HeldPages(x, y) \ {q})
      OBVIOUS
    <3>5. n \in Nat /\ Cardinality(HeldPages(x, y)) = n + 1
      <4>1. IsFiniteSet(HeldPages(x, y)) /\ Cardinality(HeldPages(x, y)) \in Nat
        BY HeldFinite
      <4>2. IsFiniteSet(HeldPages(x, y) \ {q})
            /\ Cardinality(HeldPages(x, y) \ {q}) = Cardinality(HeldPages(x, y)) - 1
        BY <3>3, <4>1, FS_RemoveElement
      <4>3. n \in Nat
        BY <3>4, <4>2, FS_CardinalityType
      <4> QED
        BY <3>4, <4>1, <4>2, <4>3
    <3>6. y \in wHeap[x] \/ Filling1(x, y)
      <4>1. ~InClean(x, y)
        BY <3>1 DEF PagesInv, Placed, PlacedAt
      <4> QED
        BY <1>2, <4>1, OneUseOfW
    <3>7. ASSUME NEW k \in Nat, wValid[<<x, y>>] = Chunks(k + 1)
          PROVE  wValid'[<<x, y>>] = Chunks(k)
      <4>1. Chunks(k) \in Nat /\ Chunks(k + 1) = Chunks(k) + ChunksPerPage /\ ChunksPerPage \in Nat
        BY ChunksOfPages, Geometry
      <4>2. ChunksPerPage <= wValid[<<x, y>>]
        BY <3>7, <4>1
      <4>3. wValid'[<<x, y>>] = wValid[<<x, y>>] - ChunksPerPage
        BY <2>4, <4>2, ForgottenCounts DEF PagesInv
      <4> QED
        BY <3>7, <4>1, <4>3
    <3>8. y \in wHeap[x] => wValid'[<<x, y>>] = Chunks(n)
      BY <2>1, <3>5, <3>7
    <3>9. Filling1(x, y) => wValid'[<<x, y>>] = Chunks(n + LastPage + 1 - rwCtrl[x].page)
      <4> SUFFICES ASSUME Filling1(x, y) PROVE wValid'[<<x, y>>] = Chunks(n + LastPage + 1 - rwCtrl[x].page)
        OBVIOUS
      <4>1. PICK k : k = n + LastPage + 1 - rwCtrl[x].page
        OBVIOUS
      <4>2. rwCtrl[x].page \in 0 .. LastPage /\ LastPage \in Nat
        BY Geometry DEF TypeOK, RWCtrl, Page, LastPage
      <4>3. k \in Nat /\ k + 1 = n + 1 + LastPage + 1 - rwCtrl[x].page
        BY <3>5, <4>1, <4>2
      <4>4. wValid[<<x, y>>] = Chunks(k + 1)
        BY <2>1, <3>5, <4>3
      <4> QED
        BY <3>7, <4>1, <4>3, <4>4
    <3> QED
      BY <1>3, <2>1, <2>2, <3>2, <3>4, <3>6, <3>8, <3>9
  <2> QED
    BY <2>3, <2>4
<1>9. NoneSealed'
  BY DEF PagesInv, NoneSealed
<1> QED
  BY <1>5, <1>6, <1>8, <1>9 DEF PagesInv

LEMMA TrimRequestWhole ==
    ASSUME TypeOK, UseInv, NothingOverwritten, PagesInv, NEW a \in Lpn, TrimRequest(a, AllPieces)
    PROVE  PagesInv'
<1>1. PICK cs : cs = {a} \X Slot
  OBVIOUS
<1>2. /\ stk = << >> /\ stk' = stk
      /\ written' = [c \in Chunk |-> IF c \in cs THEN FALSE ELSE written[c]]
      /\ OldCounts({a} \X Slot)
      /\ chunksMap' = [c \in Chunk |-> IF c \in cs THEN Invalid ELSE chunksMap[c]]
      /\ UNCHANGED <<flash, flashList, rwCtrl, rwList, clean, wHeap>>
  BY <1>1, PagePieces DEF TrimRequest, Receive, ManageOld, flashVars, logVars
<1>3. /\ \A c \in Lpn, s \in Slot : c # a => chunksMap'[<<c, s>>] = chunksMap[<<c, s>>]
                                             /\ (written'[<<c, s>>] <=> written[<<c, s>>])
      /\ \A s \in Slot : chunksMap'[<<a, s>>] = Invalid /\ ~written'[<<a, s>>]
  BY <1>1, <1>2, ContentParts
<1>4. /\ \A c \in Lpn : \A x, y, p : c # a => (Lies(c, x, y, p)' <=> Lies(c, x, y, p))
      /\ \A c \in Lpn : c # a => (Nowhere(c)' <=> Nowhere(c))
  BY <1>3 DEF Lies, Nowhere
<1>5. Nowhere(a)'
  BY <1>3 DEF Nowhere
<1>6. \A x, y, p : ~Lies(a, x, y, p)'
  <2> SUFFICES ASSUME NEW x, NEW y, NEW p, Lies(a, x, y, p)' PROVE FALSE
    OBVIOUS
  <2>1. 0 \in Slot
    BY Geometry
  <2>2. Invalid = <<"FlashWLog", x, y, p, 0>>
    BY <1>3, <2>1 DEF Lies
  <2>3. Len(<<"FlashWLog", x, y, p, 0>>) = 5 /\ Len(<<"Invalid">>) = 1
    OBVIOUS
  <2> QED
    BY <2>2, <2>3 DEF Invalid
<1>7. NoneComing(stk) /\ NoneComing(stk')
  BY <1>2, ComingParts DEF PagesInv
<1>8. \A c : ~Coming(c) /\ ~Coming(c)'
  <2>1. \A c : ~Coming(c)'
    BY <1>7 DEF NoneComing, Coming
  <2> QED
    BY <1>7, <2>1, NoneComingNow
<1>9. Sent'
  <2> SUFFICES ASSUME NEW c \in Lpn, NEW s \in Slot PROVE written'[<<c, s>>] <=> Coming(c)' \/ ~Nowhere(c)'
    BY DEF Sent
  <2>1. written[<<c, s>>] <=> Coming(c) \/ ~Nowhere(c)
    BY DEF PagesInv, Sent
  <2> QED
    BY <1>3, <1>4, <1>5, <1>8, <2>1
<1>10. FramesOk'
  BY <1>2 DEF FramesOk, FramesOf
<1>11. OneComing'
  BY <1>7 DEF OneComing
<1>12. \A x : ~AllocatesW(stk', x)
  BY <1>2, EmptyStack
<1> QED
  BY <1>2, <1>4, <1>5, <1>6, <1>8, <1>9, <1>10, <1>11, <1>12, ForgottenPage

LEMMA WritePageRequestWhole ==
    ASSUME TypeOK, UseInv, NothingOverwritten, PagesInv, NEW a \in Lpn, WritePageRequest(a, AllPieces)
    PROVE  PagesInv'
<1>1. PICK cs, w : cs = {a} \X Slot /\ w = [op |-> "WritePage", bank |-> NextBank, lpn |-> a]
  OBVIOUS
<1>2. /\ stk = << >> /\ stk' = <<StartClean, w>>
      /\ written' = [c \in Chunk |-> IF c \in cs THEN TRUE ELSE written[c]]
      /\ OldCounts({a} \X Slot)
      /\ UNCHANGED <<chunksMap, flash, flashList, rwCtrl, rwList, clean, wHeap>>
  BY <1>1, PagePieces DEF WritePageRequest, Receive, ManageOld, flashVars, logVars
<1>3. /\ w \in WritePageFrame /\ w \in Frame /\ w.op = "WritePage" /\ w.lpn = a
      /\ StartClean \in Frame /\ StartClean.op = "Clean"
  BY <1>1, NextBankTyped, StartCleanTyped DEF WritePageFrame, Frame, StartClean
<1>4. FramesOf(stk') = {StartClean, w}
  BY <1>2 DEF FramesOf
<1>5. \A c : Coming(c)' <=> c = a
  <2>1. \A c : Coming(c)' <=> \E f \in FramesOf(stk') : f.op = "WritePage" /\ f.lpn = c
    BY DEF Coming
  <2> QED
    BY <1>3, <1>4, <2>1
<1>6. \A c : ~Coming(c)
  BY <1>2, ComingParts DEF PagesInv
<1>7. /\ \A c, x, y, p : Lies(c, x, y, p)' <=> Lies(c, x, y, p)
      /\ \A c : Nowhere(c)' <=> Nowhere(c)
  BY <1>2 DEF Lies, Nowhere
<1>8. Sent'
  <2> SUFFICES ASSUME NEW c \in Lpn, NEW s \in Slot PROVE written'[<<c, s>>] <=> Coming(c)' \/ ~Nowhere(c)'
    BY DEF Sent
  <2>1. written[<<c, s>>] <=> Coming(c) \/ ~Nowhere(c)
    BY DEF PagesInv, Sent
  <2>2. <<c, s>> \in Chunk /\ (<<c, s>> \in cs <=> c = a)
    BY <1>1, ContentParts
  <2> QED
    BY <1>2, <1>5, <1>6, <1>7, <2>1, <2>2
<1>9. FramesOk'
  <2>1. FrameOk(StartClean)' /\ FrameOk(w)'
    BY <1>3 DEF FrameOk, PageOps
  <2> QED
    BY <1>4, <2>1 DEF FramesOk
<1>10. OneComing'
  <2>1. <<StartClean>> \in Seq(Frame) /\ stk' = Append(<<StartClean>>, w)
    BY <1>2, <1>3
  <2>2. NoneComing(<<StartClean>>)
    BY <1>3 DEF NoneComing, FramesOf
  <2> QED
    BY <1>3, <2>1, <2>2 DEF OneComing
<1>11. \A x : ~AllocatesW(stk', x)
  BY <1>2, <1>3 DEF AllocatesW
<1> QED
  BY <1>2, <1>5, <1>6, <1>7, <1>8, <1>9, <1>10, <1>11, ForgottenPage

-----------------------------------------------------------------------------
(* Every step.                                                             *)

LEMMA LogWhole ==
    ASSUME TypeOK, UseInv, NothingOverwritten, PagesInv, LogNext PROVE PagesInv'
<1>1. ~SealOWBlk
  <2> SUFFICES ASSUME SealOWBlk PROVE FALSE
    OBVIOUS
  <2>1. PICK b : b = Top.bank
    OBVIOUS
  <2>2. Running("AllocRw") /\ \E l : l \in Victims(owValid, owHeap, b)
    BY <2>1 DEF SealOWBlk
  <2>3. b \in Bank
    BY <2>1, <2>2, RunningFrame, FrameKinds DEF Running, AllocRwFrame
  <2> QED
    BY <2>2, <2>3, VictimsExist DEF TypeOK, NothingOverwritten
<1>2. ~ (GetOWLpn \/ AllocOwPop \/ AllocOwGc)
  BY NoneOverwrites DEF GetOWLpn, AllocOwPop, AllocOwGc, OwOps
<1>3. CASE AllocRwHang
  BY <1>3, HangWhole DEF AllocRwHang
<1> QED
  BY <1>1, <1>2, <1>3, GetRWLpnWhole, AllocRwPopWhole, AllocRwGcWhole, CheckSpaceWhole DEF LogNext

LEMMA GcWhole ==
    ASSUME TypeOK, UseInv, NothingOverwritten, PagesInv, GcNext PROVE PagesInv'
<1>1. ~ (GcWriteChunk \/ GcPageDone \/ FlushW)
  <2>1. ~Running("GcChunks") /\ ~Running("FlushW")
    BY OnlyPageOps DEF PageOps
  <2> QED
    BY <2>1 DEF GcWriteChunk, GcPageDone, FlushW
<1>2. CASE GcStartHang
  BY <1>2, HangWhole DEF GcStartHang
<1> QED
  BY <1>1, <1>2, GcStartWhole, GcEndWhole, GcFullPageWhole, GcCopyPageWhole, NoPartialPage DEF GcNext

LEMMA WriteWhole ==
    ASSUME \A r \in Requests : r.kind # "overwrite" /\ r.pieces = AllPieces,
           TypeOK, UseInv, NothingOverwritten, PagesInv, WriteNext
    PROVE  PagesInv'
<1>1. ~ (WriteChunkInPlace \/ WriteChunk \/ WriteChunksDone)
  <2>1. ~Running("WriteChunks")
    BY OnlyPageOps DEF PageOps
  <2> QED
    BY <2>1 DEF WriteChunkInPlace, WriteChunk, WriteChunksDone
<1>2. CASE WriteStep
  BY <1>1, <1>2, WritePageWhole, CleanGcWhole, CheckSpaceWhole DEF WriteStep
<1>3. CASE \E lpn \in Lpn, r \in Requests :
              \/ r.kind = "trim"  /\ TrimRequest(lpn, r.pieces)
              \/ r.kind = "write" /\ WritePageRequest(lpn, r.pieces)
              \/ r.kind = "write" /\ WriteChunksRequest(lpn, r.pieces)
  <2>1. PICK a \in Lpn : \/ TrimRequest(a, AllPieces)
                         \/ WritePageRequest(a, AllPieces)
                         \/ WriteChunksRequest(a, AllPieces)
    BY <1>3
  <2>2. ~WriteChunksRequest(a, AllPieces)
    BY PagePieces DEF WriteChunksRequest
  <2> QED
    BY <2>1, <2>2, TrimRequestWhole, WritePageRequestWhole
<1> QED
  BY <1>2, <1>3 DEF WriteNext

LEMMA WholePagesStep ==
    ASSUME \A r \in Requests : r.kind # "overwrite" /\ r.pieces = AllPieces,
           TypeOK, UseInv, NothingOverwritten, PagesInv, [Next]_vars
    PROVE  PagesInv'
<1>1. ~OverwriteNext
  <2>1. OverwriteNext => OverwriteStep
    BY DEF OverwriteNext
  <2>2. ~OverwriteStep
    BY NoneOverwrites
       DEF OverwriteStep, OwChunkInBuf, OwChunkInPlace, OwChunkNew, OwChunksDone, OwExhaustedChunk,
           OwExhaustedDone, OwPage, FlushOw, OwOps
  <2> QED
    BY <2>1, <2>2
<1>2. CASE UNCHANGED vars
  <2>1. UNCHANGED <<chunksMap, flash, flashList, rwCtrl, rwList, clean, wHeap, wValid, owValid,
                    written, stk>>
    BY <1>2 DEF vars, flashVars, logVars, heapVars
  <2> QED
    BY <2>1, StutterWhole
<1> QED
  BY <1>1, <1>2, LogWhole, GcWhole, WriteWhole DEF Next

LEMMA InitWhole == Init => PagesInv
<1> SUFFICES ASSUME Init PROVE PagesInv
  OBVIOUS
<1>1. \A a \in Lpn : Nowhere(a)
  BY ContentParts DEF Init, Nowhere
<1>2. \A a \in Lpn : \A b, l, q : ~Lies(a, b, l, q)
  BY <1>1, PlaceUnique
<1>3. \A b, l : HeldPages(b, l) = {}
  BY <1>2 DEF HeldPages
<1>4. stk = << >> /\ FramesOf(stk) = {} /\ NoneComing(stk) /\ \A a : ~Coming(a)
  BY DEF Init, FramesOf, NoneComing, Coming
<1>5. \A b \in Bank, l \in Lbn : ~Filling1(b, l)
  BY DEF Init, Filling1, Lbn, NoBlk
<1>6. Counted
  <2>1. \A b \in Bank, l \in Lbn : /\ wValid[<<b, l>>] = ChunksPerLogBlk
                                   /\ owValid[<<b, l>>] = ChunksPerOwBlk /\ l \notin wHeap[b]
    BY DEF Init, Block
  <2> QED
    BY <1>5, <2>1 DEF Counted
<1>7. Sent
  BY <1>1, <1>4, ContentParts DEF Init, Sent
<1>8. NoneSealed
  BY DEF Init, NoneSealed
<1>9. Together /\ Placed
  BY <1>1, <1>2 DEF Together, Placed
<1>10. FramesOk /\ OneComing
  BY <1>4 DEF FramesOk, OneComing
<1> QED
  BY <1>6, <1>7, <1>8, <1>9, <1>10 DEF PagesInv

-----------------------------------------------------------------------------
(* What follows.                                                           *)

(* Between requests nothing is on its way. *)
LEMMA IdleParts ==
    ASSUME TypeOK, UseInv, NothingOverwritten, PagesInv, Idle
    PROVE  /\ \A a : ~Coming(a)
           /\ \A b : ~AllocatesW(stk, b)
           /\ \A b \in Bank, l \in Lbn : Filling1(b, l) <=> rwCtrl[b].lbn = l
           /\ \A b \in Bank, l \in Lbn : InClean(b, l) \/ rwCtrl[b].lbn = l \/ l \in wHeap[b]
           /\ \A b \in Bank, l \in Lbn : l \in wHeap[b] => rwCtrl[b].lbn # l
<1>1. stk = << >>
  BY DEF Idle
<1>2. \A a : ~Coming(a)
  BY <1>1, ComingParts DEF PagesInv
<1>3. (\A b : ~AllocatesW(stk, b)) /\ \A b, l : ~HoldsVictim(stk, b, l)
  BY <1>1, EmptyStack
<1>4. \A b \in Bank, l \in Lbn : Filling1(b, l) <=> rwCtrl[b].lbn = l
  BY <1>3 DEF Filling1
<1>5. \A b \in Bank, l \in Lbn : InClean(b, l) \/ rwCtrl[b].lbn = l \/ l \in wHeap[b]
  BY <1>3, <1>4, OneUseOfW
<1>6. \A b \in Bank, l \in Lbn : l \in wHeap[b] => rwCtrl[b].lbn # l
  BY <1>4, OneUseOfW
<1> QED
  BY <1>2, <1>3, <1>4, <1>5, <1>6

(* A chunk is where its page is, in the log of the host's writes. *)
LEMMA MappedParts ==
    ASSUME TypeOK, PagesInv, NEW c \in Chunk
    PROVE  \/ Where(c) = Invalid /\ Nowhere(c[1])
           \/ \E b \in Bank, l \in Lbn, q \in Page :
                 /\ Lies(c[1], b, l, q)
                 /\ Where(c) = <<"FlashWLog", b, l, q, c[2]>>
                 /\ Where(c) \in FlashWLog
<1>1. c[1] \in Lpn /\ c[2] \in Slot /\ c = <<c[1], c[2]>>
  BY ContentParts
<1>2. CASE Nowhere(c[1])
  BY <1>1, <1>2 DEF Nowhere, Where
<1>3. CASE ~Nowhere(c[1])
  <2>1. PICK b \in Bank, l \in Lbn, q \in Page : Lies(c[1], b, l, q)
    BY <1>1, <1>3 DEF PagesInv, Together
  <2>2. Where(c) = <<"FlashWLog", b, l, q, c[2]>>
    BY <1>1, <2>1 DEF Lies, Where
  <2> QED
    BY <1>1, <2>1, <2>2, LocationParts
<1> QED
  BY <1>2, <1>3

LEMMA ContentPlaces ==
    /\ ContentAt(Invalid) = Erased
    /\ \A x \in FlashWLog : ContentAt(x) = flash[<<x[2], x[3], x[4]>>][x[5]]
    /\ Invalid \notin FlashWLog \cup FlashOwLog
<1>1. /\ \A x \in FlashWLog : x[1] = "FlashWLog"
      /\ \A x \in FlashOwLog : x[1] = "FlashOwLog"
      /\ \A x \in DRAMWLog : x[1] = "DRAMWLog"
      /\ \A x \in DRAMOwLog : x[1] = "DRAMOwLog"
      /\ Invalid[1] = "Invalid"
  BY DEF FlashWLog, FlashOwLog, DRAMWLog, DRAMOwLog, Invalid
<1>2. Invalid \notin FlashWLog \cup FlashOwLog /\ Invalid \notin DRAMWLog /\ Invalid \notin DRAMOwLog
  BY <1>1
<1>3. ContentAt(Invalid) = Erased
  BY <1>2 DEF ContentAt
<1>4. ASSUME NEW x \in FlashWLog
      PROVE  ContentAt(x) = flash[<<x[2], x[3], x[4]>>][x[5]]
  <2>1. x \notin DRAMWLog /\ x \notin DRAMOwLog
    BY <1>1
  <2> QED
    BY <2>1 DEF ContentAt
<1> QED
  BY <1>2, <1>3, <1>4

LEMMA WholeReadBack ==
    ASSUME TypeOK, UseInv, NothingOverwritten, PagesInv
    PROVE  ReadBack
<1> SUFFICES ASSUME Idle, NEW c \in Chunk
             PROVE  HostReads(c) = IF written[c] THEN c ELSE Erased
  BY DEF ReadBack
<1>1. c[1] \in Lpn /\ c[2] \in Slot /\ c = <<c[1], c[2]>>
  BY ContentParts
<1>2. written[c] <=> ~Nowhere(c[1])
  <2>1. ~Coming(c[1])
    BY IdleParts
  <2> QED
    BY <1>1, <2>1 DEF PagesInv, Sent
<1>3. CASE Where(c) = Invalid /\ Nowhere(c[1])
  BY <1>2, <1>3, ContentPlaces DEF HostReads
<1>4. CASE \E b \in Bank, l \in Lbn, q \in Page :
              /\ Lies(c[1], b, l, q)
              /\ Where(c) = <<"FlashWLog", b, l, q, c[2]>>
              /\ Where(c) \in FlashWLog
  <2>1. PICK b \in Bank, l \in Lbn, q \in Page :
              /\ Lies(c[1], b, l, q)
              /\ Where(c) = <<"FlashWLog", b, l, q, c[2]>>
              /\ Where(c) \in FlashWLog
    BY <1>4
  <2>2. flash[<<b, l, q>>][c[2]] = <<c[1], c[2]>>
    <3>1. PlacedAt(c[1], b, l, q)
      BY <1>1, <2>1 DEF PagesInv, Placed
    <3> QED
      BY <1>1, <3>1 DEF PlacedAt
  <2>3. HostReads(c) = flash[<<b, l, q>>][c[2]]
    BY <2>1, ContentPlaces DEF HostReads
  <2>4. ~Nowhere(c[1])
    BY <2>1, PlaceUnique
  <2> QED
    BY <1>1, <1>2, <2>2, <2>3, <2>4
<1> QED
  BY <1>3, <1>4, MappedParts

LEMMA WholeListsComplete ==
    ASSUME TypeOK, UseInv, NothingOverwritten, PagesInv
    PROVE  ListsComplete
<1> SUFFICES ASSUME Idle, NEW c \in Chunk, Where(c) \in FlashWLog \cup FlashOwLog
             PROVE  ListOf(Where(c)[2], Where(c)[3])[<<Where(c)[4], Where(c)[5]>>] = c[1]
  BY DEF ListsComplete
<1>1. c[1] \in Lpn /\ c[2] \in Slot
  BY ContentParts
<1>2. PICK b \in Bank, l \in Lbn, q \in Page :
           Lies(c[1], b, l, q) /\ Where(c) = <<"FlashWLog", b, l, q, c[2]>>
  BY MappedParts, ContentPlaces
<1>3. PlacedAt(c[1], b, l, q)
  BY <1>1, <1>2 DEF PagesInv, Placed
<1>4. ListNow(b, l)[<<q, c[2]>>] = c[1] /\ ~InClean(b, l)
  BY <1>1, <1>3 DEF PlacedAt
<1>5. ListOf(b, l) = ListNow(b, l)
  <2>1. owHeap[b] = {} /\ owCtrl[b].lbn = NoBlk /\ l # NoBlk
    BY UseParts DEF NothingOverwritten
  <2>2. CASE l \in wHeap[b]
    <3>1. ListNow(b, l) = flashList[<<b, l, "W">>] /\ rwCtrl[b].lbn # l
      BY <2>2, IdleParts DEF ListNow
    <3> QED
      BY <2>1, <2>2, <3>1 DEF ListOf
  <2>3. CASE rwCtrl[b].lbn = l /\ l \notin wHeap[b]
    <3>1. ListNow(b, l) = rwList[b]
      BY <2>3, IdleParts DEF ListNow
    <3> QED
      BY <2>1, <2>3, <3>1 DEF ListOf
  <2> QED
    BY <1>4, <2>2, <2>3, IdleParts
<1>6. /\ Where(c)[2] = b /\ Where(c)[3] = l /\ Where(c)[4] = q /\ Where(c)[5] = c[2]
  BY <1>2
<1> QED
  BY <1>4, <1>5, <1>6

LEMMA WholeGcFindsExpected ==
    ASSUME TypeOK, UseInv, NothingOverwritten, PagesInv
    PROVE  GcFindsExpected
<1> SUFFICES ASSUME Running("GcScan"), PagesLeft(Top) = {}
             PROVE  Top.found = Top.job.expected
  BY DEF GcFindsExpected
<1>1. HeldPages(Top.job.bank, Top.job.lbn) = {}
  BY PagesLeftAreHeld
<1>2. Top.job.expected = Top.found + Chunks(Cardinality(HeldPages(Top.job.bank, Top.job.lbn)))
  BY ScanParts DEF ScanOk
<1>3. Top.job.expected = Top.found + 0
  BY <1>1, <1>2, FS_EmptySet, ChunksOfPages
<1> QED
  BY <1>3, ScanParts

(* The chunks mapped to a block are those of the pages it holds. *)
LEMMA MappedAreHeld ==
    ASSUME TypeOK, UseInv, NothingOverwritten, PagesInv, Idle, NEW b \in Bank, NEW l \in Lbn
    PROVE  Cardinality(MappedIn(b, l)) = Chunks(Cardinality(HeldPages(b, l)))
<1> DEFINE H == HeldPages(b, l)
           M == MappedIn(b, l)
           f == [x \in H \X Slot |-> <<CHOOSE a \in Lpn : Lies(a, b, l, x[1]), x[2]>>]
<1>1. \A q \in H : \E a \in Lpn : Lies(a, b, l, q)
  BY DEF HeldPages
<1>2. \A x \in H \X Slot : \E a \in Lpn : Lies(a, b, l, x[1]) /\ f[x] = <<a, x[2]>>
  <2> SUFFICES ASSUME NEW x \in H \X Slot
               PROVE  \E a \in Lpn : Lies(a, b, l, x[1]) /\ f[x] = <<a, x[2]>>
    OBVIOUS
  <2>1. PICK a : a = CHOOSE c \in Lpn : Lies(c, b, l, x[1])
    OBVIOUS
  <2>2. a \in Lpn /\ Lies(a, b, l, x[1])
    BY <1>1, <2>1
  <2>3. f[x] = <<a, x[2]>>
    BY <2>1
  <2> QED
    BY <2>2, <2>3
<1>3. DOMAIN f = H \X Slot
  OBVIOUS
<1>4. H \subseteq Page
  BY HeldFinite
<1>5. f \in [H \X Slot -> M]
  <2> SUFFICES ASSUME NEW x \in H \X Slot PROVE f[x] \in M
    BY <1>3
  <2>1. PICK a \in Lpn : Lies(a, b, l, x[1]) /\ f[x] = <<a, x[2]>>
    BY <1>2
  <2>2. x[1] \in Page /\ x[2] \in Slot
    BY <1>4
  <2>3. Where(<<a, x[2]>>) = <<"FlashWLog", b, l, x[1], x[2]>>
    BY <2>1, <2>2 DEF Lies, Where
  <2>4. <<a, x[2]>> \in Chunk /\ Where(<<a, x[2]>>) \in FlashWLog
    BY <2>2, <2>3, ContentParts, LocationParts
  <2> QED
    BY <2>1, <2>3, <2>4 DEF MappedIn
<1> HIDE DEF f
<1>6. \A x, y \in H \X Slot : f[x] = f[y] => x = y
  <2> SUFFICES ASSUME NEW x \in H \X Slot, NEW y \in H \X Slot, f[x] = f[y] PROVE x = y
    OBVIOUS
  <2>1. PICK a \in Lpn : Lies(a, b, l, x[1]) /\ f[x] = <<a, x[2]>>
    BY <1>2
  <2>2. PICK c \in Lpn : Lies(c, b, l, y[1]) /\ f[y] = <<c, y[2]>>
    BY <1>2
  <2>3. a = c /\ x[2] = y[2]
    <3>1. <<a, x[2]>> = <<c, y[2]>>
      BY <2>1, <2>2, Zenon
    <3> QED
      BY <3>1
  <2>4. x[1] = y[1]
    BY <2>1, <2>2, <2>3, PlaceUnique
  <2> QED
    BY <2>3, <2>4
<1>7. \A c \in M : \E x \in H \X Slot : f[x] = c
  <2> SUFFICES ASSUME NEW c \in M PROVE \E x \in H \X Slot : f[x] = c
    OBVIOUS
  <2>1. c \in Chunk /\ Where(c) \in FlashWLog \cup FlashOwLog /\ Where(c)[2] = b /\ Where(c)[3] = l
    BY DEF MappedIn
  <2>2. c[1] \in Lpn /\ c[2] \in Slot /\ c = <<c[1], c[2]>>
    BY <2>1, ContentParts
  <2>3. PICK b2 \in Bank, l2 \in Lbn, q \in Page :
             Lies(c[1], b2, l2, q) /\ Where(c) = <<"FlashWLog", b2, l2, q, c[2]>>
    BY <2>1, MappedParts, ContentPlaces
  <2>4. Lies(c[1], b, l, q)
    BY <2>1, <2>3
  <2>5. q \in H
    BY <2>2, <2>4, IdleParts DEF HeldPages
  <2>6. <<q, c[2]>> \in H \X Slot
    BY <2>2, <2>5
  <2>7. PICK a \in Lpn : Lies(a, b, l, q) /\ f[<<q, c[2]>>] = <<a, c[2]>>
    BY <1>2, <2>6
  <2>8. a = c[1]
    BY <2>2, <2>4, <2>7, PlaceOfOne DEF PagesInv
  <2> QED
    BY <2>2, <2>6, <2>7, <2>8
<1>8. ExistsBijection(H \X Slot, M)
  <2>1. IsInjective(f)
    <3>1. DOMAIN f = H \X Slot
      BY <1>5
    <3> QED
      BY <1>6, <3>1 DEF IsInjective
  <2>2. f \in Bijection(H \X Slot, M)
    BY <1>5, <1>7, <2>1 DEF Bijection, Injection, Surjection
  <2> QED
    BY <2>2 DEF ExistsBijection
<1>9. IsFiniteSet(H) /\ Cardinality(H) \in Nat /\ IsFiniteSet(Slot) /\ Cardinality(Slot) = ChunksPerPage
  <2>1. ChunksPerPage \in Nat /\ ChunksPerPage > 0
    BY Geometry
  <2>2. Cardinality(0 .. ChunksPerPage - 1) = ChunksPerPage
    BY <2>1, FS_Interval
  <2> QED
    BY <2>2, HeldFinite, Geometry DEF Slot
<1>10. IsFiniteSet(H \X Slot) /\ Cardinality(H \X Slot) = Cardinality(H) * ChunksPerPage
  <2>1. IsFiniteSet(H \X Slot) /\ Cardinality(H \X Slot) = Cardinality(H) * Cardinality(Slot)
    BY <1>9, FS_Product
  <2> QED
    BY <1>9, <2>1
<1>11. Cardinality(M) = Cardinality(H \X Slot)
  BY <1>8, <1>10, FS_Bijection
<1> HIDE DEF H, M
<1>12. Cardinality(M) = Chunks(Cardinality(H))
  <2>1. ChunksPerPage \in Nat
    BY Geometry
  <2>2. Cardinality(H) * ChunksPerPage = ChunksPerPage * Cardinality(H)
    BY <1>9, <2>1
  <2> QED
    BY <1>10, <1>11, <2>2 DEF Chunks
<1> QED
  BY <1>12 DEF H, M

LEMMA WholeCountsExact ==
    ASSUME TypeOK, UseInv, NothingOverwritten, PagesInv
    PROVE  CountsExact
<1> DEFINE mapped(b, l) == Cardinality(MappedIn(b, l))
           W(b, l) == CASE l \in wHeap[b] -> mapped(b, l)
                        [] l = rwCtrl[b].lbn ->
                             mapped(b, l) + ChunksPerPage * Cardinality(PagesToCome(b))
                        [] OTHER -> ChunksPerLogBlk
<1> SUFFICES ASSUME Idle, NEW b \in Bank, NEW l \in Lbn
             PROVE  wValid[<<b, l>>] = W(b, l) /\ owValid[<<b, l>>] = ChunksPerOwBlk
  <2>1. \A b \in Bank, l \in Lbn : l \notin owHeap[b] /\ l # owCtrl[b].lbn
    BY UseParts DEF NothingOverwritten
  <2> QED
    BY <2>1 DEF CountsExact
<1>1. /\ l \in wHeap[b] => wValid[<<b, l>>] = Chunks(Cardinality(HeldPages(b, l)))
      /\ rwCtrl[b].lbn = l => wValid[<<b, l>>] =
            Chunks(Cardinality(HeldPages(b, l)) + LastPage + 1 - rwCtrl[b].page)
      /\ l \notin wHeap[b] /\ rwCtrl[b].lbn # l => wValid[<<b, l>>] = ChunksPerLogBlk
      /\ owValid[<<b, l>>] = ChunksPerOwBlk
      /\ l \in wHeap[b] => rwCtrl[b].lbn # l
  BY IdleParts DEF PagesInv, Counted
<1>2. mapped(b, l) = Chunks(Cardinality(HeldPages(b, l)))
  BY MappedAreHeld
<1>3. Cardinality(PagesToCome(b)) = LastPage + 1 - rwCtrl[b].page
      /\ Cardinality(PagesToCome(b)) \in Nat
  <2>1. PagesToCome(b) = {p \in Page : p >= rwCtrl[b].page}
    BY DEF PagesInv, NoneSealed, PagesToCome
  <2>2. rwCtrl[b].page \in 0 .. LastPage /\ LastPage \in Nat /\ Page = 0 .. LastPage
    <3>1. LastPage \in Nat /\ Page = 0 .. LastPage
      BY Geometry DEF Page, LastPage
    <3>2. rwCtrl[b].page \in Page
      BY DEF TypeOK, RWCtrl
    <3> QED
      BY <3>1, <3>2
  <2>3. PagesToCome(b) = rwCtrl[b].page .. LastPage
    BY <2>1, <2>2
  <2>4. Cardinality(rwCtrl[b].page .. LastPage) = LastPage - rwCtrl[b].page + 1
    BY <2>2, FS_Interval
  <2> QED
    BY <2>2, <2>3, <2>4
<1>4. Chunks(Cardinality(HeldPages(b, l)) + LastPage + 1 - rwCtrl[b].page)
         = mapped(b, l) + ChunksPerPage * Cardinality(PagesToCome(b))
  <2> DEFINE n == Cardinality(HeldPages(b, l))
             m == Cardinality(PagesToCome(b))
  <2>1. n \in Nat /\ m \in Nat /\ ChunksPerPage \in Nat
    BY <1>3, HeldFinite, Geometry
  <2>2. n + LastPage + 1 - rwCtrl[b].page = n + m
    <3>1. rwCtrl[b].page \in Nat /\ LastPage \in Nat
      BY Geometry DEF TypeOK, RWCtrl
    <3> QED
      BY <1>3, <2>1, <3>1
  <2> HIDE DEF n, m
  <2>3. ChunksPerPage * (n + m) = ChunksPerPage * n + ChunksPerPage * m
    BY <2>1
  <2> QED
    BY <1>2, <2>2, <2>3 DEF Chunks, n, m
<1> HIDE DEF mapped
<1>5. CASE l \in wHeap[b]
  BY <1>1, <1>2, <1>5
<1>6. CASE l = rwCtrl[b].lbn /\ l \notin wHeap[b]
  BY <1>1, <1>4, <1>6
<1>7. CASE l # rwCtrl[b].lbn /\ l \notin wHeap[b]
  BY <1>1, <1>7
<1> QED
  BY <1>5, <1>6, <1>7

(* The four properties follow from one invariant, PagesInv. *)
LEMMA WholePagesInvariant ==
    ASSUME \A r \in Requests : r.kind # "overwrite" /\ r.pieces = AllPieces
    PROVE  Spec => [](ReadBack /\ CountsExact /\ ListsComplete /\ GcFindsExpected)
<1>1. Init => NothingOverwritten /\ PagesInv
  BY InitNothing, InitWhole
<1>2. TypeOK /\ UseInv /\ NothingOverwritten /\ PagesInv /\ [Next]_vars
         => NothingOverwritten' /\ PagesInv'
  BY NothingOverwrittenStep, WholePagesStep
<1>3. TypeOK /\ UseInv /\ NothingOverwritten /\ PagesInv
         => ReadBack /\ CountsExact /\ ListsComplete /\ GcFindsExpected
  BY WholeReadBack, WholeCountsExact, WholeListsComplete, WholeGcFindsExpected
<1> QED
  BY <1>1, <1>2, <1>3, TypesInvariant, UseInvariant, PTL DEF Spec

(* A host that writes and trims whole pages reads back what it wrote last, *)
(* and erased sectors where it wrote nothing or trimmed: through every     *)
(* collection, and whichever bank a page goes to (writeCompletePage,       *)
(* trimRange, garbageCollectLog).                                          *)
THEOREM WholePagesReadBack ==
    ASSUME \A r \in Requests : r.kind # "overwrite" /\ r.pieces = AllPieces
    PROVE  Spec => []ReadBack
<1>1. Spec => [](ReadBack /\ CountsExact /\ ListsComplete /\ GcFindsExpected)
  BY WholePagesInvariant
<1> QED
  BY <1>1, PTL

(* For such a host the count of every block between requests is that of    *)
(* the chunks mapped to it and of the pages still to be written            *)
(* (decrementValidChunks, resetValidChunksAndRemove).                      *)
THEOREM WholePagesCountExactly ==
    ASSUME \A r \in Requests : r.kind # "overwrite" /\ r.pieces = AllPieces
    PROVE  Spec => []CountsExact
<1>1. Spec => [](ReadBack /\ CountsExact /\ ListsComplete /\ GcFindsExpected)
  BY WholePagesInvariant
<1> QED
  BY <1>1, PTL

(* For such a host the list a collection will go by names the owner of     *)
(* every chunk mapped to its block (chunkInLpnsList, increaseRWLpn).       *)
THEOREM WholePagesKeepLists ==
    ASSUME \A r \in Requests : r.kind # "overwrite" /\ r.pieces = AllPieces
    PROVE  Spec => []ListsComplete
<1>1. Spec => [](ReadBack /\ CountsExact /\ ListsComplete /\ GcFindsExpected)
  BY WholePagesInvariant
<1> QED
  BY <1>1, PTL

(* For such a host a collection that runs to the end of its victim has     *)
(* found as many valid chunks as the heap promised (garbageCollectLog).    *)
THEOREM WholePagesAreFound ==
    ASSUME \A r \in Requests : r.kind # "overwrite" /\ r.pieces = AllPieces
    PROVE  Spec => []GcFindsExpected
<1>1. Spec => [](ReadBack /\ CountsExact /\ ListsComplete /\ GcFindsExpected)
  BY WholePagesInvariant
<1> QED
  BY <1>1, PTL
=============================================================================
