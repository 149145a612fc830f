--------------------------- MODULE BlockMapProofs ---------------------------
(***************************************************************************)
(* Whatever the size of the drive, the lists of bad blocks, what the DRAM  *)
(* holds when power comes and the erase operations that fail: the bitmap   *)
(* has exactly the blocks that are bad, the blocks format hands out are    *)
(* good, distinct and stay distinct, none is left over where one is        *)
(* missing, a collection puts back the block its victim still has, and no  *)
(* block is lost.  All of it is about numbers and bits stored in DRAM, so  *)
(* much of the proof is about where the list, the bitmap and the tables    *)
(* are.                                                                    *)
(***************************************************************************)
EXTENDS BlockMap, NaturalsInduction, WellFoundedInduction, TLAPS

-----------------------------------------------------------------------------
(* The memory: words at different addresses do not overlap, for all that   *)
(* their real addresses drift apart by a check code for every unit.        *)

(* Division by the unit leaves a rest below it. *)
LEMMA Division ==
    ASSUME NEW a \in Nat
    PROVE  /\ a \div EccUnit \in Nat
           /\ a % EccUnit \in 0 .. EccUnit - 1
           /\ a = EccUnit * (a \div EccUnit) + (a % EccUnit)
<1> EccUnit \in Nat /\ EccUnit > 0
  BY EccUnitAssumption
<1> QED
  OBVIOUS

(* A word that is four check bytes further for every unit before it. *)
LEMMA RealIsShift ==
    ASSUME NEW a \in Nat
    PROVE  Real(a) = a + 4 * (a \div EccUnit) /\ Real(a) \in Nat
<1> DEFINE q == a \div EccUnit
           r == a % EccUnit
<1>1. /\ q \in Nat /\ r \in Nat /\ EccUnit \in Nat
      /\ a = EccUnit * q + r
  BY Division, EccUnitAssumption
<1>2. Real(a) = q * (EccUnit + 4) + r
  BY DEF Real
<1> HIDE DEF q, r
<1>3. q * (EccUnit + 4) = EccUnit * q + 4 * q
  BY <1>1
<1>4. Real(a) = a + 4 * q /\ Real(a) \in Nat
  BY <1>1, <1>2, <1>3
<1> QED
  BY <1>4 DEF q

(* The unit of an address is not before that of a smaller one. *)
LEMMA DivisionMonotone ==
    ASSUME NEW a \in Nat, NEW b \in Nat, a <= b
    PROVE  a \div EccUnit <= b \div EccUnit
<1> DEFINE q == a \div EccUnit
           p == b \div EccUnit
           r == a % EccUnit
           s == b % EccUnit
           E == EccUnit
<1>1. /\ q \in Nat /\ p \in Nat /\ E \in Nat /\ E > 0
      /\ r \in 0 .. E - 1 /\ s \in 0 .. E - 1
      /\ a = E * q + r /\ b = E * p + s
  BY Division, EccUnitAssumption
<1> HIDE DEF q, p, r, s, E
<1>2. SUFFICES ASSUME p + 1 <= q PROVE FALSE
  BY <1>1 DEF q, p
<1>3. E * (p + 1) <= E * q
  BY <1>1, <1>2
<1>4. E * (p + 1) = E * p + E
  BY <1>1
<1>5. E * p \in Nat /\ E * q \in Nat
  BY <1>1
<1> QED
  BY <1>1, <1>3, <1>4, <1>5

(* Two words do not overlap. *)
LEMMA WordsApart ==
    ASSUME NEW a \in Nat, NEW b \in Nat, a % 4 = 0, b % 4 = 0, a < b
    PROVE  Real(a) + 4 <= Real(b)
<1>1. a + 4 <= b
  OBVIOUS
<1>2. a \div EccUnit <= b \div EccUnit
  BY DivisionMonotone
<1>3. a \div EccUnit \in Nat /\ b \div EccUnit \in Nat
  BY Division
<1> QED
  BY <1>1, <1>2, <1>3, RealIsShift

(* Memories of the same size, and words that are in them. *)
IsMem(m, A)   == m = [x \in A |-> m[x]]
WordIn(a, A)  == a \in Nat /\ a % 4 = 0 /\ Real(a) .. Real(a) + 3 \subseteq A
IsWord(w)     == w = [o \in 0 .. 3 |-> w[o]]

LEMMA StoreIsMem ==
    ASSUME NEW A, NEW m, IsMem(m, A), NEW a, NEW w
    PROVE  IsMem(Store(m, a, w), A)
<1>1. DOMAIN m = A
  BY DEF IsMem
<1> QED
  BY <1>1 DEF Store, IsMem

LEMMA LoadIsWord ==
    ASSUME NEW m, NEW a
    PROVE  IsWord(Load(m, a))
BY DEF Load, IsWord

(* A word that is stored is the word that is loaded. *)
LEMMA LoadStored ==
    ASSUME NEW A, NEW m, IsMem(m, A), NEW a, WordIn(a, A), NEW w, IsWord(w)
    PROVE  Load(Store(m, a, w), a) = w
<1>1. DOMAIN m = A
  BY DEF IsMem
<1>2. Real(a) \in Nat
  BY RealIsShift DEF WordIn
<1>3. ASSUME NEW o \in 0 .. 3
      PROVE  Store(m, a, w)[Real(a) + o] = w[o]
  <2> DEFINE x == Real(a) + o
  <2>1. x \in Real(a) .. Real(a) + 3
    BY <1>2
  <2>2. x - Real(a) = o
    BY <1>2
  <2>3. x \in DOMAIN m
    BY <2>1, <1>1 DEF WordIn
  <2> HIDE DEF x
  <2>4. Store(m, a, w)[x] = w[x - Real(a)]
    BY <2>1, <2>3 DEF Store
  <2> QED
    BY <2>2, <2>4 DEF x
<1>4. Load(Store(m, a, w), a) = [o \in 0 .. 3 |-> w[o]]
  BY <1>3 DEF Load
<1> QED
  BY <1>4 DEF IsWord

(* It leaves every other word alone. *)
LEMMA LoadOther ==
    ASSUME NEW A, NEW m, IsMem(m, A), NEW a, WordIn(a, A), NEW b, WordIn(b, A),
           NEW w, a # b
    PROVE  Load(Store(m, a, w), b) = Load(m, b)
<1>1. DOMAIN m = A
  BY DEF IsMem
<1>2. Real(a) \in Nat /\ Real(b) \in Nat
  BY RealIsShift DEF WordIn
<1>3. Real(a) + 4 <= Real(b) \/ Real(b) + 4 <= Real(a)
  <2>1. a < b \/ b < a
    BY DEF WordIn
  <2> QED
    BY <2>1, WordsApart DEF WordIn
<1>4. ASSUME NEW o \in 0 .. 3
      PROVE  Store(m, a, w)[Real(b) + o] = m[Real(b) + o]
  <2>1. Real(b) + o \in Real(b) .. Real(b) + 3 /\ Real(b) + o \notin Real(a) .. Real(a) + 3
    BY <1>2, <1>3
  <2>2. Real(b) + o \in DOMAIN m
    BY <2>1, <1>1 DEF WordIn
  <2> QED
    BY <2>1, <2>2 DEF Store
<1> QED
  BY <1>4 DEF Load

-----------------------------------------------------------------------------
(* A halfword of a table: at an even address, whose word is in the memory. *)
HalfAt(a, A) == a \in Nat /\ a % 2 = 0 /\ WordIn(Aligned(a), A)

LEMMA AlignedParts ==
    ASSUME NEW a \in Nat, a % 2 = 0
    PROVE  /\ a % 4 \in {0, 2}
           /\ Aligned(a) \in Nat /\ Aligned(a) % 4 = 0
           /\ a = Aligned(a) + (a % 4)
BY DEF Aligned

LEMMA WriteIsMem ==
    ASSUME NEW A, NEW m, IsMem(m, A), NEW a, NEW v
    PROVE  IsMem(Write16(m, a, v), A)
BY StoreIsMem DEF Write16

(* A halfword that is written is the halfword that is read. *)
LEMMA ReadWritten ==
    ASSUME NEW A, NEW m, IsMem(m, A), NEW a, HalfAt(a, A), NEW v \in Nat
    PROVE  Read16(Write16(m, a, v), a) = v
<1> DEFINE o == a % 4
           w == Load(m, Aligned(a))
           x == WithHalf(w, o, v)
<1>1. o \in {0, 2}
  BY AlignedParts DEF HalfAt
<1>2. IsWord(x)
  BY DEF IsWord, WithHalf
<1>3. Load(Write16(m, a, v), Aligned(a)) = x
  BY <1>2, LoadStored DEF Write16, HalfAt
<1> HIDE DEF o, w
<1>4. x[o] = v % 256 /\ x[o + 1] = v \div 256
  BY <1>1 DEF WithHalf
<1>5. HalfIn(x, o) = (v % 256) + 256 * (v \div 256)
  BY <1>1, <1>4 DEF HalfIn
<1>6. (v % 256) + 256 * (v \div 256) = v
  OBVIOUS
<1> QED
  BY <1>3, <1>5, <1>6 DEF Read16, o, w

(* It leaves every other halfword alone. *)
LEMMA ReadOther ==
    ASSUME NEW A, NEW m, IsMem(m, A), NEW a, HalfAt(a, A), NEW b, HalfAt(b, A),
           NEW v, a # b
    PROVE  Read16(Write16(m, a, v), b) = Read16(m, b)
<1> DEFINE o == a % 4
           p == b % 4
           w == Load(m, Aligned(a))
           x == WithHalf(w, o, v)
<1>1. o \in {0, 2} /\ p \in {0, 2}
  BY AlignedParts DEF HalfAt
<1>2. IsWord(x)
  BY DEF IsWord, WithHalf
<1>3. CASE Aligned(a) = Aligned(b)
  <2>1. o # p
    BY <1>3, AlignedParts DEF HalfAt
  <2>2. Load(Write16(m, a, v), Aligned(b)) = x
    BY <1>2, <1>3, LoadStored DEF Write16, HalfAt
  <2> HIDE DEF o, p
  <2>3. x[p] = w[p] /\ x[p + 1] = w[p + 1]
    BY <1>1, <2>1 DEF WithHalf
  <2>4. HalfIn(x, p) = HalfIn(w, p)
    BY <1>1, <2>3 DEF HalfIn
  <2> QED
    BY <1>3, <2>2, <2>4 DEF Read16, p, o
<1>4. CASE Aligned(a) # Aligned(b)
  <2>1. Load(Write16(m, a, v), Aligned(b)) = Load(m, Aligned(b))
    BY <1>4, LoadOther DEF Write16, HalfAt
  <2> QED
    BY <2>1 DEF Read16
<1> QED
  BY <1>3, <1>4

LEMMA BitIsMem ==
    ASSUME NEW A, NEW m, IsMem(m, A), NEW base, NEW k
    PROVE  IsMem(SetBit(m, base, k), A)
BY StoreIsMem DEF SetBit

(* Setting a bit leaves the halfwords of other words alone. *)
LEMMA BitApart ==
    ASSUME NEW A, NEW m, IsMem(m, A), NEW base, NEW k, WordIn(BitAddr(base, k), A),
           NEW b, HalfAt(b, A), BitAddr(base, k) # Aligned(b)
    PROVE  Read16(SetBit(m, base, k), b) = Read16(m, b)
BY LoadOther DEF SetBit, Read16, HalfAt

(* Halfwords at even addresses are memory: a write (_write_dram_16) is     *)
(* seen by the reads (_read_dram_16) at its address and by no other.       *)
THEOREM HalfwordsAreMemory ==
    ASSUME NEW A, NEW m, IsMem(m, A), NEW a, HalfAt(a, A), NEW v \in Nat
    PROVE  /\ IsMem(Write16(m, a, v), A)
           /\ Read16(Write16(m, a, v), a) = v
           /\ \A b : HalfAt(b, A) /\ b # a => Read16(Write16(m, a, v), b) = Read16(m, b)
BY WriteIsMem, ReadWritten, ReadOther

-----------------------------------------------------------------------------
(* The layout of the DRAM.                                                 *)

LEMMA UnitMultiple ==
    ASSUME NEW q \in Nat
    PROVE  EccUnit * q \in Nat /\ (EccUnit * q) % 4 = 0
<1> DEFINE e == EccUnit \div 4
<1>1. e \in Nat /\ EccUnit = 4 * e
  BY EccUnitAssumption
<1> HIDE DEF e
<1>2. EccUnit * q = 4 * (e * q) /\ e * q \in Nat
  BY <1>1
<1> QED
  BY <1>2

LEMMA RoundedUp ==
    ASSUME NEW n \in Nat
    PROVE  RoundUp(n) \in Nat /\ RoundUp(n) % 4 = 0 /\ n <= RoundUp(n)
<1> DEFINE s == n + EccUnit - 1
           q == s \div EccUnit
           r == s % EccUnit
<1>1. EccUnit \in Nat /\ EccUnit > 0 /\ s \in Nat /\ s = n + EccUnit - 1
  BY EccUnitAssumption
<1>2. q \in Nat /\ r \in 0 .. EccUnit - 1 /\ s = EccUnit * q + r
  BY <1>1, Division
<1>3. RoundUp(n) = q * EccUnit
  BY DEF RoundUp
<1> HIDE DEF s, q, r
<1>4. RoundUp(n) = EccUnit * q
  BY <1>1, <1>2, <1>3
<1>5. EccUnit * q \in Nat /\ (EccUnit * q) % 4 = 0
  BY <1>2, UnitMultiple
<1>6. n <= EccUnit * q
  BY <1>1, <1>2, <1>5
<1> QED
  BY <1>4, <1>5, <1>6

(* A table of L columns: its places are in it, and no two are the same. *)
LEMMA PlaceInTable ==
    ASSUME NEW N \in Nat, NEW L \in Nat, NEW b \in 0 .. N - 1, NEW l \in 0 .. L - 1
    PROVE  b * L + l \in 0 .. N * L - 1
<1>1. b * L \in Nat /\ N * L \in Nat
  OBVIOUS
<1>2. b + 1 <= N
  OBVIOUS
<1>3. (b + 1) * L <= N * L
  BY <1>2
<1>4. (b + 1) * L = b * L + L
  OBVIOUS
<1> QED
  BY <1>1, <1>3, <1>4

LEMMA PlacesDiffer ==
    ASSUME NEW L \in Nat, NEW b \in Nat, NEW c \in Nat,
           NEW l \in 0 .. L - 1, NEW k \in 0 .. L - 1,
           b * L + l = c * L + k
    PROVE  b = c /\ l = k
<1>1. ASSUME NEW x \in Nat, NEW y \in Nat, NEW i1 \in 0 .. L - 1, NEW j1 \in 0 .. L - 1,
             x < y
      PROVE  x * L + i1 # y * L + j1
  <2>1. x * L \in Nat /\ y * L \in Nat
    OBVIOUS
  <2>2. (x + 1) * L <= y * L
    BY <1>1
  <2>3. (x + 1) * L = x * L + L
    OBVIOUS
  <2> QED
    BY <2>1, <2>2, <2>3
<1>2. b = c
  BY <1>1
<1>3. b * L \in Nat
  OBVIOUS
<1> QED
  BY <1>2, <1>3

LEMMA Layout ==
    /\ BadBlkBmp \in Nat /\ BadBlkBmp % 4 = 0
    /\ BmpBytes \in Nat /\ BmpBytes % 4 = 0
    /\ LogBmt \in Nat /\ LogBmt % 4 = 0 /\ LogBmt = BadBlkBmp + BmpBytes
    /\ BmtBytes \in Nat /\ NumBanks * LogBlks * 2 <= BmtBytes
    /\ FreeBmt \in Nat /\ FreeBmt % 4 = 0 /\ FreeBmt = LogBmt + BmtBytes
    /\ FreeBytes \in Nat /\ FreeBytes % 4 = 0 /\ NumBanks * FreeBlks * 2 <= FreeBytes
<1>1. /\ NumBanks \in Nat /\ LogBlks \in Nat /\ FreeBlks \in Nat
      /\ VBlks \in Nat /\ ScanItems \in Nat
  BY SizesAssumption
<1>2. /\ 2 * (ScanItems + 1) \in Nat
      /\ (NumBanks * VBlks) \div 8 \in Nat
      /\ NumBanks * LogBlks * 2 \in Nat
      /\ NumBanks * FreeBlks * 2 \in Nat
  <2>1. NumBanks * VBlks \in Nat /\ NumBanks * LogBlks \in Nat /\ NumBanks * FreeBlks \in Nat
    BY <1>1
  <2> QED
    BY <1>1, <2>1
<1>3. BadBlkBmp \in Nat /\ BadBlkBmp % 4 = 0
  BY <1>2, RoundedUp DEF BadBlkBmp
<1>4. BmpBytes \in Nat /\ BmpBytes % 4 = 0
  BY <1>2, RoundedUp DEF BmpBytes
<1>5. BmtBytes \in Nat /\ BmtBytes % 4 = 0 /\ NumBanks * LogBlks * 2 <= BmtBytes
  BY <1>2, RoundedUp DEF BmtBytes
<1>6. FreeBytes \in Nat /\ FreeBytes % 4 = 0 /\ NumBanks * FreeBlks * 2 <= FreeBytes
  BY <1>2, RoundedUp DEF FreeBytes
<1>7. LogBmt = BadBlkBmp + BmpBytes
  BY DEF LogBmt
<1>8. FreeBmt = LogBmt + BmtBytes
  BY DEF FreeBmt
<1> QED
  BY <1>3, <1>4, <1>5, <1>6, <1>7, <1>8

(* A halfword of the tables is in the memory, and so is its word. *)
LEMMA TablesInMemory ==
    ASSUME NEW a \in Nat, a % 2 = 0, a < FreeBmt + FreeBytes
    PROVE  HalfAt(a, Address)
<1> DEFINE top == FreeBmt + FreeBytes
           w == Aligned(a)
<1>1. top \in Nat /\ top % 4 = 0
  BY Layout
<1>2. w \in Nat /\ w % 4 = 0 /\ w <= a
  BY DEF Aligned
<1>3. w < top
  BY <1>1, <1>2
<1> HIDE DEF w
<1>4. Real(w) + 4 <= Real(top)
  BY <1>1, <1>2, <1>3, WordsApart
<1>5. Real(w) \in Nat /\ Real(top) \in Nat
  BY <1>1, <1>2, RealIsShift
<1>6. Address = 0 .. Real(top) - 1
  BY DEF Address
<1>7. Real(w) .. Real(w) + 3 \subseteq Address
  <2> HIDE DEF top
  <2> QED BY <1>4, <1>5, <1>6
<1> QED
  BY <1>2, <1>7 DEF HalfAt, WordIn, w

LEMMA LogCellPlace ==
    ASSUME NEW b \in Bank, NEW l \in Lbn
    PROVE  /\ LogCell(b, l) \in Nat
           /\ LogCell(b, l) % 2 = 0
           /\ LogBmt <= LogCell(b, l) /\ LogCell(b, l) < FreeBmt
<1> DEFINE p == b * LogBlks + l
           n == NumBanks * LogBlks
<1>1. p \in 0 .. n - 1 /\ n \in Nat
  BY SizesAssumption, PlaceInTable DEF Bank, Lbn
<1>2. LogCell(b, l) = LogBmt + p * 2
  BY DEF LogCell
<1>3. /\ LogBmt \in Nat /\ LogBmt % 4 = 0 /\ FreeBmt = LogBmt + BmtBytes
      /\ BmtBytes \in Nat /\ n * 2 <= BmtBytes
  BY Layout
<1> HIDE DEF p, n
<1> QED
  BY <1>1, <1>2, <1>3

LEMMA FreeCellPlace ==
    ASSUME NEW b \in Bank, NEW k \in 0 .. FreeBlks - 1
    PROVE  /\ FreeCell(b, k) \in Nat
           /\ FreeCell(b, k) % 2 = 0
           /\ FreeBmt <= FreeCell(b, k) /\ FreeCell(b, k) < FreeBmt + FreeBytes
<1> DEFINE p == b * FreeBlks + k
           n == NumBanks * FreeBlks
<1>1. p \in 0 .. n - 1 /\ n \in Nat
  BY SizesAssumption, PlaceInTable DEF Bank
<1>2. FreeCell(b, k) = FreeBmt + p * 2
  BY DEF FreeCell
<1>3. /\ FreeBmt \in Nat /\ FreeBmt % 4 = 0
      /\ FreeBytes \in Nat /\ n * 2 <= FreeBytes
  BY Layout
<1> HIDE DEF p, n
<1> QED
  BY <1>1, <1>2, <1>3

(* Every cell of the two tables, and what makes them cells: they are in    *)
(* memory, after the bitmap.                                               *)
AnyCell == UNION {Cells(b) : b \in Bank}

LEMMA CellPlace ==
    ASSUME NEW c \in AnyCell
    PROVE  HalfAt(c, Address) /\ LogBmt <= c
<1>1. ASSUME NEW b \in Bank, NEW l \in Lbn
      PROVE  HalfAt(LogCell(b, l), Address) /\ LogBmt <= LogCell(b, l)
  <2>1. LogCell(b, l) < FreeBmt + FreeBytes
    BY LogCellPlace, Layout
  <2> QED
    BY <2>1, LogCellPlace, TablesInMemory
<1>2. ASSUME NEW b \in Bank, NEW k \in 0 .. FreeBlks - 1
      PROVE  HalfAt(FreeCell(b, k), Address) /\ LogBmt <= FreeCell(b, k)
  <2>1. LogBmt <= FreeCell(b, k)
    BY FreeCellPlace, Layout
  <2> QED
    BY <2>1, FreeCellPlace, TablesInMemory
<1> QED
  BY <1>1, <1>2 DEF AnyCell, Cells

LEMMA CellsOf ==
    /\ \A b \in Bank : Cells(b) \subseteq AnyCell
    /\ \A b \in Bank, l \in Lbn : LogCell(b, l) \in Cells(b)
    /\ \A b \in Bank, k \in 0 .. FreeBlks - 1 : FreeCell(b, k) \in Cells(b)
BY DEF AnyCell, Cells

LEMMA LogCellsDiffer ==
    ASSUME NEW b \in Bank, NEW l \in Lbn, NEW c \in Bank, NEW k \in Lbn,
           LogCell(b, l) = LogCell(c, k)
    PROVE  b = c /\ l = k
<1> DEFINE p == b * LogBlks + l
           q == c * LogBlks + k
<1>1. p \in Nat /\ q \in Nat /\ LogBmt \in Nat
  BY SizesAssumption, Layout DEF Bank, Lbn
<1>2. LogBmt + p * 2 = LogBmt + q * 2
  BY DEF LogCell
<1> HIDE DEF p, q
<1>3. p = q
  BY <1>1, <1>2
<1> QED
  BY <1>3, PlacesDiffer, SizesAssumption DEF p, q, Bank, Lbn

LEMMA FreeCellsDiffer ==
    ASSUME NEW b \in Bank, NEW l \in 0 .. FreeBlks - 1,
           NEW c \in Bank, NEW k \in 0 .. FreeBlks - 1,
           FreeCell(b, l) = FreeCell(c, k)
    PROVE  b = c /\ l = k
<1> DEFINE p == b * FreeBlks + l
           q == c * FreeBlks + k
<1>1. p \in Nat /\ q \in Nat /\ FreeBmt \in Nat
  BY SizesAssumption, Layout DEF Bank
<1>2. FreeBmt + p * 2 = FreeBmt + q * 2
  BY DEF FreeCell
<1> HIDE DEF p, q
<1>3. p = q
  BY <1>1, <1>2
<1> QED
  BY <1>3, PlacesDiffer, SizesAssumption DEF p, q, Bank

LEMMA TablesDiffer ==
    ASSUME NEW b \in Bank, NEW l \in Lbn, NEW c \in Bank, NEW k \in 0 .. FreeBlks - 1
    PROVE  LogCell(b, l) # FreeCell(c, k)
<1>1. LogCell(b, l) < FreeBmt /\ FreeBmt <= FreeCell(c, k) /\ FreeBmt \in Nat
  BY LogCellPlace, FreeCellPlace, Layout
<1> QED
  BY <1>1, LogCellPlace, FreeCellPlace

(* A cell that is written holds the number; the other cells are as before. *)
LEMMA CellWritten ==
    ASSUME NEW m, IsMem(m, Address), NEW c \in AnyCell, NEW v \in Nat
    PROVE  /\ IsMem(Write16(m, c, v), Address)
           /\ Read16(Write16(m, c, v), c) = v
           /\ \A d \in AnyCell : d # c => Read16(Write16(m, c, v), d) = Read16(m, d)
<1>1. HalfAt(c, Address)
  BY CellPlace
<1>2. \A d \in AnyCell : HalfAt(d, Address)
  BY CellPlace
<1> QED
  BY <1>1, <1>2, HalfwordsAreMemory

(* The bit of a bad block is not in the tables. *)
LEMMA BitOutsideTables ==
    ASSUME NEW m, IsMem(m, Address), NEW b \in Bank, NEW v \in VBlk
    PROVE  /\ IsMem(SetBit(m, BmpOf(b), v), Address)
           /\ \A d \in AnyCell : Read16(SetBit(m, BmpOf(b), v), d) = Read16(m, d)
<1> DEFINE per == (VBlks \div 8) + 1
           p == b * per + (v \div 8)
           n == NumBanks * per
           a == BitAddr(BmpOf(b), v)
<1>1. per \in Nat /\ NumBanks \in Nat /\ VBlks \in Nat
  BY SizesAssumption
<1>2. v \div 8 \in 0 .. per - 1
  BY <1>1 DEF VBlk
<1>3. p \in 0 .. n - 1
  <2> HIDE DEF per
  <2> QED BY <1>1, <1>2, PlaceInTable DEF Bank
<1>4. n <= BmpBytes
  BY BitmapFits
<1>5. n \in Nat
  <2> HIDE DEF per
  <2> QED BY <1>1
<1>6. a = Aligned(BadBlkBmp + p)
  <2>1. b * per \in Nat /\ BadBlkBmp \in Nat
    <3> HIDE DEF per
    <3> QED BY <1>1, Layout DEF Bank
  <2>2. BmpOf(b) + (v \div 8) = BadBlkBmp + p
    BY <2>1, <1>2 DEF BmpOf
  <2> QED
    BY <2>2 DEF BitAddr
<1> HIDE DEF p, n, a, per
<1>7. a \in Nat /\ a % 4 = 0 /\ a <= BadBlkBmp + p
  BY <1>3, <1>5, <1>6, Layout DEF Aligned
<1>8. a < LogBmt
  BY <1>3, <1>4, <1>5, <1>7, Layout
<1>9. a < FreeBmt + FreeBytes
  BY <1>7, <1>8, Layout
<1>10. WordIn(a, Address)
  <2>1. HalfAt(a, Address)
    BY <1>7, <1>9, TablesInMemory
  <2>2. Aligned(a) = a
    BY <1>7 DEF Aligned
  <2> QED
    BY <2>1, <2>2 DEF HalfAt
<1>11. ASSUME NEW d \in AnyCell
       PROVE  Read16(SetBit(m, BmpOf(b), v), d) = Read16(m, d)
  <2>1. HalfAt(d, Address) /\ LogBmt <= d
    BY CellPlace
  <2>2. LogBmt <= Aligned(d)
    BY <2>1, Layout DEF HalfAt, Aligned
  <2>3. a # Aligned(d)
    BY <1>7, <1>8, <2>2, Layout
  <2> QED
    BY <1>10, <2>1, <2>3, BitApart DEF a
<1> QED
  BY <1>11, BitIsMem

-----------------------------------------------------------------------------
(* The invariant that carries the proof: which cells format has filled so  *)
(* far, that the numbers in them are distinct, and that the search for     *)
(* blocks has passed all of them.                                          *)

(* Format has given bank b the blocks in these cells. *)
Building == {"bank", "free", "log"}

FreeCells(b, n) == {FreeCell(b, k) : k \in 0 .. n - 1}
LogCells(b, n)  == {LogCell(b, l) : l \in 0 .. n - 1}

Handed(b) ==
    IF at = "ready" \/ (at \in Building /\ b < bank) THEN Cells(b)
    ELSE IF b = bank /\ at = "free" THEN FreeCells(b, lbn)
    ELSE IF b = bank /\ at = "log" THEN FreeCells(b, FreeBlks) \cup LogCells(b, lbn)
    ELSE {}

Numbered(m, cs) == \A c \in cs : Read16(m, c) \in Nat
Apart(m, cs)    == \A c, d \in cs : c # d /\ Read16(m, c) # NoBlk => Read16(m, c) # Read16(m, d)
UpTo(m, cs, v)  == \A c \in cs : Read16(m, c) = NoBlk \/ Read16(m, c) <= v

Types ==
    /\ IsMem(mem, Address)
    /\ at \in {"off", "read", "check", "mark", "tables", "bank", "free", "log", "ready", "overrun"}
    /\ bank \in Bank
    /\ isrFlag \in [Bank -> Int]
    /\ head \in [Bank -> 0 .. FreeBlks - 1] /\ tail \in [Bank -> 0 .. FreeBlks - 1]

Search ==
    /\ at \in {"free", "log"} => vblk \in Nat /\ vblk < VBlks /\ lbn \in Nat
    /\ at = "free" => lbn < FreeBlks /\ head[bank] = lbn
    /\ at = "log" => lbn <= LogBlks
    /\ at = "bank" => head[bank] = 0
    /\ at \in Building => \A b \in Bank : bank < b => head[b] = 0
    /\ at \in {"off", "read", "check", "mark", "tables"} => head = Zeros
    /\ at = "tables" => bank = 0
    /\ at = "ready" => head = tail

Blocks ==
    /\ \A b \in Bank : Numbered(mem, Handed(b)) /\ Apart(mem, Handed(b))
    /\ at \in {"free", "log"} => UpTo(mem, Handed(bank), vblk)

Victims ==
    /\ at # "ready" => gc = << >>
    /\ gc \in Seq([bank : Bank, lbn : Lbn, vbn : Nat])
    /\ \A j, k \in DOMAIN gc : gc[j].bank = gc[k].bank /\ gc[j].lbn = gc[k].lbn => j = k
    /\ VictimsCurrent

Inv == Types /\ Search /\ Blocks /\ Victims

LEMMA Sizes ==
    /\ NumBanks \in Nat /\ NumBanks > 0
    /\ LogBlks \in Nat /\ LogBlks > 0
    /\ FreeBlks \in Nat /\ FreeBlks > 0
    /\ VBlks \in Nat /\ FirstBlk \in Nat /\ FirstBlk < VBlks /\ VBlks < NoBlk
BY SizesAssumption

LEMMA CellSets ==
    ASSUME NEW b \in Bank
    PROVE  /\ Cells(b) = FreeCells(b, FreeBlks) \cup LogCells(b, LogBlks)
           /\ Cells(b) \subseteq AnyCell
           /\ \A n \in 0 .. FreeBlks : FreeCells(b, n) \subseteq Cells(b)
           /\ \A n \in 0 .. LogBlks : LogCells(b, n) \subseteq Cells(b)
<1>1. Cells(b) = FreeCells(b, FreeBlks) \cup LogCells(b, LogBlks)
  BY DEF Cells, FreeCells, LogCells, Lbn
<1>2. ASSUME NEW n \in 0 .. FreeBlks PROVE FreeCells(b, n) \subseteq Cells(b)
  BY Sizes DEF Cells, FreeCells
<1>3. ASSUME NEW n \in 0 .. LogBlks PROVE LogCells(b, n) \subseteq Cells(b)
  BY Sizes DEF Cells, LogCells, Lbn
<1> QED
  BY <1>1, <1>2, <1>3, CellsOf

(* The cells of two banks are different. *)
LEMMA BanksDiffer ==
    ASSUME NEW b \in Bank, NEW d \in Bank, b # d,
           NEW x \in Cells(b), NEW y \in Cells(d)
    PROVE  x # y
<1>1. /\ (\E l \in Lbn : x = LogCell(b, l)) \/ (\E k \in 0 .. FreeBlks - 1 : x = FreeCell(b, k))
      /\ (\E l \in Lbn : y = LogCell(d, l)) \/ (\E k \in 0 .. FreeBlks - 1 : y = FreeCell(d, k))
  BY DEF Cells
<1> QED
  BY <1>1, LogCellsDiffer, FreeCellsDiffer, TablesDiffer

LEMMA HandedAreCells ==
    ASSUME Search, NEW b \in Bank
    PROVE  Handed(b) \subseteq Cells(b)
<1>1. lbn \in 0 .. FreeBlks \/ at # "free"
  BY Sizes DEF Search
<1>2. lbn \in 0 .. LogBlks \/ at # "log"
  BY Sizes DEF Search
<1>3. FreeBlks \in 0 .. FreeBlks
  BY Sizes
<1> QED
  BY <1>1, <1>2, <1>3, CellSets DEF Handed

(* What does not change the cells does not change what is said of them. *)
LEMMA SameCells ==
    ASSUME NEW m, NEW n, NEW cs \in SUBSET AnyCell,
           \A d \in cs : Read16(n, d) = Read16(m, d)
    PROVE  /\ Numbered(m, cs) => Numbered(n, cs)
           /\ Apart(m, cs) => Apart(n, cs)
           /\ \A v : UpTo(m, cs, v) => UpTo(n, cs, v)
BY DEF Numbered, Apart, UpTo

(* A cell more, with a number beyond those of the others, or with none. *)
LEMMA CellAdded ==
    ASSUME NEW m, IsMem(m, Address), NEW cs \in SUBSET AnyCell, NEW c \in AnyCell,
           NEW u \in Nat, NEW w \in Nat, u <= w, NEW v \in Nat,
           v = NoBlk \/ (u < v /\ v <= w),
           Numbered(m, cs), Apart(m, cs), UpTo(m, cs, u)
    PROVE  /\ Numbered(Write16(m, c, v), cs \cup {c})
           /\ Apart(Write16(m, c, v), cs \cup {c})
           /\ UpTo(Write16(m, c, v), cs \cup {c}, w)
<1> DEFINE n == Write16(m, c, v)
<1>1. Read16(n, c) = v /\ \A d \in AnyCell : d # c => Read16(n, d) = Read16(m, d)
  BY CellWritten
<1> HIDE DEF n
<1>2. Numbered(n, cs \cup {c})
  BY <1>1 DEF Numbered
<1>3. ASSUME NEW d \in cs, d # c
      PROVE  Read16(n, d) \in Nat /\ (Read16(n, d) = NoBlk \/ Read16(n, d) <= u)
  BY <1>1, <1>3 DEF Numbered, UpTo
<1>4. Apart(n, cs \cup {c})
  <2> SUFFICES ASSUME NEW x \in cs \cup {c}, NEW y \in cs \cup {c},
                      x # y, Read16(n, x) # NoBlk
               PROVE  Read16(n, x) # Read16(n, y)
    BY DEF Apart
  <2>1. CASE x = c
    BY <2>1, <1>1, <1>3
  <2>2. CASE y = c
    BY <2>2, <1>1, <1>3
  <2>3. CASE x # c /\ y # c
    BY <2>3, <1>1 DEF Apart
  <2> QED
    BY <2>1, <2>2, <2>3
<1>5. UpTo(n, cs \cup {c}, w)
  BY <1>1, <1>3 DEF UpTo
<1> QED
  BY <1>2, <1>4, <1>5 DEF n

LEMMA FillIsMem ==
    ASSUME NEW m, IsMem(m, Address), NEW a, NEW byte, NEW n
    PROVE  IsMem(Fill(m, a, byte, n), Address)
BY DEF IsMem, Fill

LEMMA DmaIsMem ==
    ASSUME NEW m, IsMem(m, Address), NEW a, NEW words
    PROVE  IsMem(Dma(m, a, words), Address)
<1>1. DOMAIN m = Address
  BY DEF IsMem
<1> DEFINE f(x) == LET hit == {k \in DOMAIN words : x \in {Real(a + 2 * k), Real(a + 2 * k + 1)}}
                       k == Min(hit)
                   IN  IF hit = {} THEN m[x]
                       ELSE IF x = Real(a + 2 * k) THEN words[k] % 256 ELSE words[k] \div 256
<1>2. Dma(m, a, words) = [x \in Address |-> f(x)]
  BY <1>1 DEF Dma
<1> HIDE DEF f
<1> QED
  BY <1>2 DEF IsMem

LEMMA NoVictims ==
    ASSUME gc' = << >>
    PROVE  Victims'
BY DEF Victims, VictimsCurrent

(* A state in which no cell has been filled and nothing is collected. *)
Early == {"off", "read", "check", "mark", "tables", "overrun"}

LEMMA EarlyInv ==
    ASSUME Types', at' \in Early, at' = "overrun" \/ head' = Zeros, gc' = << >>,
           at' = "tables" => bank' = 0
    PROVE  Inv'
<1>1. Search'
  BY DEF Search, Early, Building
<1>2. \A b \in Bank : Handed(b)' = {}
  BY DEF Handed, Early, Building
<1>3. Blocks'
  BY <1>2 DEF Blocks, Numbered, Apart, Early
<1> QED
  BY <1>1, <1>3, NoVictims DEF Inv

LEMMA InvStart == InitFirmware => Inv
<1> SUFFICES ASSUME InitFirmware PROVE Inv
  OBVIOUS
<1>1. mem \in [Address -> Byte] /\ at = "off" /\ bank = 0 /\ gc = << >>
  BY SizesAssumption DEF InitFirmware
<1>2. isrFlag = Zeros /\ head = Zeros /\ tail = Zeros
  BY DEF InitFirmware
<1>3. Zeros \in [Bank -> 0 .. FreeBlks - 1] /\ Zeros \in [Bank -> Int] /\ 0 \in Bank
  BY Sizes DEF Zeros, Bank
<1>4. Types
  BY <1>1, <1>2, <1>3 DEF Types, IsMem
<1>5. Search
  BY <1>1, <1>2 DEF Search, Building
<1>6. Blocks
  BY <1>1 DEF Blocks, Handed, Building, Numbered, Apart
<1>7. Victims
  BY <1>1 DEF Victims, VictimsCurrent
<1> QED
  BY <1>4, <1>5, <1>6, <1>7 DEF Inv

LEMMA InvInit == Init => Inv
BY InvStart DEF Init

-----------------------------------------------------------------------------
(* One lemma for each part of the firmware.                                *)

(* build_bad_blk_list, and the ways out of format. *)
ScanStep == \/ Boot \/ ReadList \/ CheckEntry \/ EndCheck \/ MarkBlk \/ EndMark
            \/ Overrun \/ PowerCycle

LEMMA InvScan == Inv /\ ScanStep => Inv'
<1> SUFFICES ASSUME Inv, ScanStep PROVE Inv'
  OBVIOUS
<1> USE DEF Inv, Early
<1>1. CASE Boot
  <2>1. IsMem(mem', Address)
    BY <1>1, FillIsMem DEF Boot, Types
  <2>2. Types' /\ at' \in Early \ {"tables"} /\ head' = Zeros /\ gc' = << >>
    BY <1>1, <2>1, Sizes DEF Boot, Types, Search, Victims, Bank
  <2> QED BY <2>2, EarlyInv
<1>2. CASE ReadList
  <2>1. IsMem(mem', Address)
    BY <1>2, DmaIsMem DEF ReadList, Types
  <2>2. Types' /\ at' \in Early \ {"tables"} /\ head' = Zeros /\ gc' = << >>
    BY <1>2, <2>1 DEF ReadList, Types, Search, Victims
  <2> QED BY <2>2, EarlyInv
<1>3. CASE CheckEntry
  <2>1. IsMem(mem', Address)
    BY <1>3, WriteIsMem DEF CheckEntry, Types
  <2>2. Types' /\ at' \in Early \ {"tables"} /\ head' = Zeros /\ gc' = << >>
    BY <1>3, <2>1 DEF CheckEntry, Types, Search, Victims
  <2> QED BY <2>2, EarlyInv
<1>4. CASE EndCheck
  <2>1. IsMem(mem', Address)
    BY <1>4, WriteIsMem DEF EndCheck, Types
  <2>2. Types' /\ at' \in Early \ {"tables"} /\ head' = Zeros /\ gc' = << >>
    BY <1>4, <2>1 DEF EndCheck, Types, Search, Victims
  <2> QED BY <2>2, EarlyInv
<1>5. CASE MarkBlk
  <2>1. IsMem(mem', Address)
    BY <1>5, BitIsMem DEF MarkBlk, Types
  <2>2. Types' /\ at' \in Early \ {"tables"} /\ head' = Zeros /\ gc' = << >>
    BY <1>5, <2>1 DEF MarkBlk, Types, Search, Victims
  <2> QED BY <2>2, EarlyInv
<1>6. CASE EndMark
  <2>1. bank' \in Bank /\ at' \in {"read", "tables"}
    BY <1>6, Sizes DEF EndMark, Types, Bank
  <2>2. Types' /\ at' \in Early /\ head' = Zeros /\ gc' = << >> /\ (at' = "tables" => bank' = 0)
    BY <1>6, <2>1 DEF EndMark, Types, Search, Victims
  <2> QED BY <2>2, EarlyInv
<1>7. CASE Overrun
  <2>1. Types' /\ at' = "overrun" /\ gc' = << >>
    BY <1>7 DEF Overrun, locals, Types, Search, Victims
  <2> QED BY <2>1, EarlyInv
<1>8. CASE PowerCycle
  <2>1. IsMem(mem', Address)
    BY <1>8, SizesAssumption DEF PowerCycle, IsMem
  <2>2. Zeros \in [Bank -> 0 .. FreeBlks - 1] /\ Zeros \in [Bank -> Int] /\ 0 \in Bank
    BY Sizes DEF Zeros, Bank
  <2>3. Types' /\ at' = "off" /\ head' = Zeros /\ gc' = << >>
    BY <1>8, <2>1, <2>2 DEF PowerCycle, Types
  <2> QED BY <2>3, EarlyInv
<1> QED
  BY <1>1, <1>2, <1>3, <1>4, <1>5, <1>6, <1>7, <1>8 DEF ScanStep

(* format, up to the block it looks at next. *)
LEMMA FormatWrite ==
    ASSUME Inv, at \in {"free", "log"}, at' \in {"free", "log"}, bank' = bank,
           NEW c \in Cells(bank), NEW v \in Nat, mem' = Write16(mem, c, v),
           vblk' \in Nat, vblk <= vblk', v = NoBlk \/ (vblk < v /\ v <= vblk'),
           Handed(bank)' = Handed(bank) \cup {c}
    PROVE  Blocks'
<1>1. /\ IsMem(mem, Address) /\ bank \in Bank /\ vblk \in Nat
      /\ Handed(bank) \subseteq AnyCell /\ c \in AnyCell
  BY HandedAreCells, CellSets DEF Inv, Types, Search
<1>2. Numbered(mem, Handed(bank)) /\ Apart(mem, Handed(bank)) /\ UpTo(mem, Handed(bank), vblk)
  BY <1>1 DEF Inv, Blocks
<1>3. /\ Numbered(mem', Handed(bank)') /\ Apart(mem', Handed(bank)')
      /\ UpTo(mem', Handed(bank)', vblk')
  BY <1>1, <1>2, CellAdded
<1>4. ASSUME NEW b \in Bank, b # bank
      PROVE  Numbered(mem', Handed(b)') /\ Apart(mem', Handed(b)')
  <2>1. Handed(b)' = Handed(b)
    BY <1>4 DEF Handed, Building
  <2>2. Handed(b) \subseteq Cells(b) /\ Cells(b) \subseteq AnyCell
    BY HandedAreCells, CellSets DEF Inv
  <2>3. \A d \in Handed(b) : Read16(mem', d) = Read16(mem, d)
    BY <1>1, <1>4, <2>2, BanksDiffer, CellWritten
  <2> QED
    BY <2>1, <2>2, <2>3, SameCells DEF Inv, Blocks
<1> QED
  BY <1>1, <1>3, <1>4 DEF Blocks

LEMMA InvTables == Inv /\ Tables => Inv'
<1> SUFFICES ASSUME Inv, Tables PROVE Inv'
  OBVIOUS
<1> USE DEF Inv
<1>1. IsMem(mem', Address)
  BY FillIsMem DEF Tables, Types
<1>2. /\ Types' /\ at' = "bank" /\ head' = Zeros /\ bank' = 0 /\ gc' = << >>
  BY <1>1 DEF Tables, Types, Search, Victims, locals
<1>3. Search'
  BY <1>2, Sizes DEF Search, Building, Zeros, Bank
<1>4. \A b \in Bank : Handed(b)' = {}
  BY <1>2, Sizes DEF Handed, Building, Bank
<1>5. Blocks'
  BY <1>2, <1>4 DEF Blocks, Numbered, Apart
<1> QED
  BY <1>2, <1>3, <1>5, NoVictims

LEMMA InvStartBank == Inv /\ StartBank => Inv'
<1> SUFFICES ASSUME Inv, StartBank PROVE Inv'
  OBVIOUS
<1> USE DEF Inv
<1>1. /\ Types' /\ at = "bank" /\ at' = "free" /\ gc' = << >> /\ lbn' = 0
      /\ vblk' = FirstBlk /\ UNCHANGED <<mem, bank, head>> /\ bank \in Bank
  BY DEF StartBank, Types, Victims, INVALID
<1>2. Search'
  BY <1>1, Sizes DEF Search, Building
<1>3. \A b \in Bank : Handed(b)' = Handed(b)
  BY <1>1 DEF Handed, Building, FreeCells
<1>4. Handed(bank)' = {}
  BY <1>1 DEF Handed, Building, FreeCells, Bank
<1>5. UpTo(mem', Handed(bank)', vblk')
  BY <1>4 DEF UpTo
<1>6. Blocks'
  BY <1>1, <1>3, <1>5 DEF Blocks
<1> QED
  BY <1>1, <1>2, <1>6, NoVictims

LEMMA InvSkipBad == Inv /\ SkipBad => Inv'
<1> SUFFICES ASSUME Inv, SkipBad PROVE Inv'
  OBVIOUS
<1> USE DEF Inv
<1>1. /\ Types' /\ at \in {"free", "log"} /\ gc' = << >> /\ bank \in Bank
      /\ vblk \in Nat /\ vblk' = vblk + 1 /\ vblk' < VBlks
      /\ UNCHANGED <<mem, at, bank, lbn, head, tail>>
  BY DEF SkipBad, Candidate, Types, Search, Victims
<1>2. Search'
  BY <1>1 DEF Search, Building
<1>3. \A b \in Bank : Handed(b)' = Handed(b)
  BY <1>1 DEF Handed, Building
<1>4. UpTo(mem', Handed(bank)', vblk')
  BY <1>1, <1>3 DEF UpTo, Numbered, Blocks
<1>5. Blocks'
  BY <1>1, <1>3, <1>4 DEF Blocks
<1> QED
  BY <1>1, <1>2, <1>5, NoVictims

LEMMA InvEraseFails == Inv /\ EraseFails => Inv'
<1> SUFFICES ASSUME Inv, EraseFails PROVE Inv'
  OBVIOUS
<1> USE DEF Inv
<1> DEFINE flag == AfterIsr(bank, "erase", Candidate)
<1>1. /\ at \in {"free", "log"} /\ gc' = << >> /\ bank \in Bank
      /\ vblk \in Nat /\ vblk' = vblk + 1 /\ vblk' < VBlks /\ Candidate = vblk'
      /\ UNCHANGED <<at, bank, lbn, head, tail>>
  BY DEF EraseFails, Usable, Candidate, Types, Search, Victims
<1>2. flag \in [Bank -> Int] /\ flag[bank] = Candidate /\ Candidate \in VBlk
  BY <1>1, Sizes DEF AfterIsr, Types, VBlk
<1> HIDE DEF flag
<1>3. mem' = SetBit(mem, BmpOf(bank), flag[bank]) /\ isrFlag' = [flag EXCEPT ![bank] = INVALID]
  BY DEF EraseFails, flag
<1>4. IsMem(mem', Address) /\ \A d \in AnyCell : Read16(mem', d) = Read16(mem, d)
  BY <1>1, <1>2, <1>3, BitOutsideTables DEF Types
<1>5. Types'
  BY <1>1, <1>2, <1>3, <1>4 DEF Types, INVALID
<1>6. Search'
  BY <1>1 DEF Search, Building
<1>7. \A b \in Bank : Handed(b)' = Handed(b) /\ Handed(b) \subseteq AnyCell
  BY <1>1, HandedAreCells, CellSets DEF Handed, Building
<1>8. \A b \in Bank : Numbered(mem', Handed(b)') /\ Apart(mem', Handed(b)')
  BY <1>4, <1>7, SameCells DEF Blocks
<1>9. UpTo(mem', Handed(bank)', vblk')
  BY <1>1, <1>4, <1>7 DEF UpTo, Numbered, Blocks
<1>10. Blocks'
  BY <1>1, <1>8, <1>9 DEF Blocks
<1> QED
  BY <1>1, <1>5, <1>6, <1>10, NoVictims

LEMMA InvTakeFree == Inv /\ TakeFree => Inv'
<1> SUFFICES ASSUME Inv, TakeFree PROVE Inv'
  OBVIOUS
<1> USE DEF Inv
<1>1. /\ at = "free" /\ gc' = << >> /\ bank \in Bank /\ head[bank] = lbn
      /\ lbn \in 0 .. FreeBlks - 1 /\ vblk \in Nat
      /\ vblk' = vblk + 1 /\ vblk' < VBlks /\ Candidate = vblk' /\ vblk' \in Nat
      /\ UNCHANGED <<bank, isrFlag, tail>>
  BY DEF TakeFree, Usable, Candidate, Types, Search, Victims
<1> DEFINE c == FreeCell(bank, lbn)
<1>2. mem' = Write16(mem, c, vblk') /\ c \in Cells(bank)
  BY <1>1, CellsOf DEF TakeFree, Returned
<1>3. \/ lbn + 1 < FreeBlks /\ lbn' = lbn + 1 /\ at' = "free"
      \/ lbn + 1 = FreeBlks /\ lbn' = 0 /\ at' = "log"
  BY <1>1, Sizes DEF TakeFree
<1>4. head' = [head EXCEPT ![bank] = (lbn + 1) % FreeBlks]
  BY <1>1 DEF TakeFree, Advanced
<1>5. (lbn + 1) % FreeBlks \in 0 .. FreeBlks - 1
      /\ (lbn + 1 < FreeBlks => (lbn + 1) % FreeBlks = lbn + 1)
  BY <1>1, Sizes
<1>6. IsMem(mem', Address)
  BY <1>2, WriteIsMem DEF Types
<1>7. Types'
  BY <1>1, <1>3, <1>4, <1>5, <1>6 DEF Types
<1>8. Search'
  <2>1. \A b \in Bank : bank < b => head'[b] = 0
    BY <1>1, <1>4 DEF Search, Building, Types, Bank
  <2>2. at' = "free" => head'[bank] = lbn'
    BY <1>1, <1>3, <1>4, <1>5 DEF Types
  <2> QED
    BY <1>1, <1>3, <2>1, <2>2, Sizes DEF Search, Building
<1>9. Handed(bank) = FreeCells(bank, lbn)
  BY <1>1 DEF Handed, Building, Bank
<1>10. Handed(bank)' = FreeCells(bank, lbn + 1)
  BY <1>1, <1>3 DEF Handed, Building, Bank, FreeCells, LogCells
<1>11. FreeCells(bank, lbn + 1) = FreeCells(bank, lbn) \cup {c}
  BY <1>1 DEF FreeCells
<1> HIDE DEF c
<1>12. Blocks'
  BY <1>1, <1>2, <1>3, <1>9, <1>10, <1>11, FormatWrite
<1> QED
  BY <1>1, <1>7, <1>8, <1>12, NoVictims

(* A log block is given a block, or none. *)
LEMMA InvTakeLog == Inv /\ (TakeLog \/ NoneLeft) => Inv'
<1> SUFFICES ASSUME Inv, TakeLog \/ NoneLeft PROVE Inv'
  OBVIOUS
<1> USE DEF Inv
<1> DEFINE c == LogCell(bank, lbn)
<1>1. /\ at = "log" /\ at' = "log" /\ gc' = << >> /\ bank \in Bank
      /\ lbn \in Lbn /\ lbn' = lbn + 1 /\ vblk \in Nat
      /\ UNCHANGED <<bank, isrFlag, head, tail>>
  BY Sizes DEF TakeLog, NoneLeft, Types, Search, Victims, Lbn
<1>2. PICK v \in Nat : /\ mem' = Write16(mem, c, v)
                       /\ vblk' \in Nat /\ vblk <= vblk' /\ vblk' < VBlks
                       /\ v = NoBlk \/ (vblk < v /\ v <= vblk')
  <2>1. CASE TakeLog
    <3>1. /\ mem' = Write16(mem, c, vblk + 1)
          /\ vblk' = vblk + 1 /\ vblk' < VBlks /\ vblk + 1 \in Nat
      BY <1>1, <2>1 DEF TakeLog, Usable, Candidate
    <3> QED BY <1>1, <3>1
  <2>2. CASE NoneLeft
    <3>1. mem' = Write16(mem, c, NoBlk) /\ vblk' = vblk /\ NoBlk \in Nat
      BY <1>1, <2>2 DEF NoneLeft, NoBlk
    <3> QED BY <1>1, <3>1 DEF Search
  <2> QED BY <2>1, <2>2
<1>3. c \in Cells(bank)
  BY <1>1, CellsOf
<1>4. IsMem(mem', Address)
  BY <1>2, WriteIsMem DEF Types
<1>5. Types'
  BY <1>1, <1>4 DEF Types
<1>6. Search'
  BY <1>1, <1>2, Sizes DEF Search, Building, Lbn
<1>7. Handed(bank) = FreeCells(bank, FreeBlks) \cup LogCells(bank, lbn)
  BY <1>1 DEF Handed, Building, Bank
<1>8. Handed(bank)' = FreeCells(bank, FreeBlks) \cup LogCells(bank, lbn + 1)
  BY <1>1 DEF Handed, Building, Bank
<1>9. LogCells(bank, lbn + 1) = LogCells(bank, lbn) \cup {c}
  BY <1>1 DEF LogCells, Lbn
<1> HIDE DEF c
<1>10. Handed(bank)' = Handed(bank) \cup {c}
  BY <1>7, <1>8, <1>9
<1>11. Blocks'
  BY <1>1, <1>2, <1>3, <1>10, FormatWrite
<1> QED
  BY <1>1, <1>5, <1>6, <1>11, NoVictims

LEMMA InvEndBank == Inv /\ EndBank => Inv'
<1> SUFFICES ASSUME Inv, EndBank PROVE Inv'
  OBVIOUS
<1> USE DEF Inv
<1>1. /\ at = "log" /\ lbn = LogBlks /\ gc' = << >> /\ bank \in Bank
      /\ UNCHANGED <<mem, lbn, isrFlag>>
  BY DEF EndBank, Types, Victims
<1>2. Handed(bank) = Cells(bank)
  BY <1>1, CellSets DEF Handed, Building, Bank
<1>3. \A b \in Bank : b < bank => Handed(b) = Cells(b)
  BY <1>1 DEF Handed, Building
<1>4. \A b \in Bank : b <= bank => Numbered(mem, Cells(b)) /\ Apart(mem, Cells(b))
  BY <1>1, <1>2, <1>3 DEF Blocks, Bank
<1>5. CASE bank + 1 < NumBanks
  <2>1. at' = "bank" /\ bank' = bank + 1 /\ UNCHANGED <<head, tail>> /\ bank' \in Bank
    BY <1>1, <1>5, Sizes DEF EndBank, Bank
  <2>2. Types'
    BY <1>1, <2>1 DEF Types
  <2>3. Search'
    BY <1>1, <2>1 DEF Search, Building, Bank
  <2>4. \A b \in Bank : Handed(b)' = IF b <= bank THEN Cells(b) ELSE {}
    BY <1>1, <2>1 DEF Handed, Building, Bank
  <2>5. Blocks'
    BY <1>1, <2>1, <2>4, <1>4 DEF Blocks, Numbered, Apart
  <2> QED
    BY <1>1, <2>2, <2>3, <2>5, NoVictims
<1>6. CASE ~(bank + 1 < NumBanks)
  <2>1. at' = "ready" /\ bank' = bank /\ head' = Zeros /\ tail' = Zeros
    BY <1>1, <1>6 DEF EndBank
  <2>2. Zeros \in [Bank -> 0 .. FreeBlks - 1]
    BY Sizes DEF Zeros
  <2>3. Types'
    BY <1>1, <2>1, <2>2 DEF Types
  <2>4. Search'
    BY <2>1 DEF Search, Building
  <2>5. \A b \in Bank : Handed(b)' = Cells(b) /\ b <= bank
    BY <1>1, <1>6, <2>1, Sizes DEF Handed, Bank
  <2>6. Blocks'
    BY <1>1, <2>1, <2>5, <1>4 DEF Blocks
  <2> QED
    BY <1>1, <2>3, <2>4, <2>6, NoVictims
<1> QED
  BY <1>5, <1>6

-----------------------------------------------------------------------------
(* Garbage collection: two cells of a bank exchange their numbers.         *)

Victim == [bank : Bank, lbn : Lbn, vbn : Nat]

LEMMA CellsExchanged ==
    ASSUME NEW m, IsMem(m, Address), NEW x \in AnyCell, NEW y \in AnyCell, x # y,
           Read16(m, x) \in Nat, Read16(m, y) \in Nat,
           NEW n, n = Write16(Write16(m, x, Read16(m, y)), y, Read16(m, x))
    PROVE  /\ IsMem(n, Address)
           /\ Read16(n, x) = Read16(m, y) /\ Read16(n, y) = Read16(m, x)
           /\ \A d \in AnyCell : d # x /\ d # y => Read16(n, d) = Read16(m, d)
<1> DEFINE h == Write16(m, x, Read16(m, y))
<1>1. /\ IsMem(h, Address) /\ Read16(h, x) = Read16(m, y)
      /\ \A d \in AnyCell : d # x => Read16(h, d) = Read16(m, d)
  BY CellWritten
<1> HIDE DEF h
<1>2. /\ IsMem(Write16(h, y, Read16(m, x)), Address)
      /\ Read16(Write16(h, y, Read16(m, x)), y) = Read16(m, x)
      /\ \A d \in AnyCell : d # y => Read16(Write16(h, y, Read16(m, x)), d) = Read16(h, d)
  BY <1>1, CellWritten
<1> QED
  BY <1>1, <1>2 DEF h

(* What the end of a collection does to the cells. *)
EndedOn(x, y, e) ==
    /\ e \in Victim
    /\ x = LogCell(e.bank, e.lbn) /\ y = FreeCell(e.bank, tail[e.bank])
    /\ x \in Cells(e.bank) /\ y \in Cells(e.bank) /\ x # y
    /\ IsMem(mem', Address)
    /\ Read16(mem', x) = Read16(mem, y) /\ Read16(mem', y) = Read16(mem, x)
    /\ \A d \in AnyCell : d # x /\ d # y => Read16(mem', d) = Read16(mem, d)

LEMMA CollectionEnds ==
    ASSUME Inv, EndGc
    PROVE  \E x, y \in AnyCell : EndedOn(x, y, gc[Len(gc)])
<1> DEFINE e == gc[Len(gc)]
           x == LogCell(e.bank, e.lbn)
           y == FreeCell(e.bank, tail[e.bank])
<1>1. at = "ready" /\ e \in Victim /\ Len(gc) \in DOMAIN gc
  <2>1. at = "ready" /\ gc # << >> /\ gc \in Seq(Victim)
    BY DEF EndGc, Inv, Victims, Victim
  <2>2. Len(gc) \in DOMAIN gc
    BY <2>1
  <2>3. e \in Victim
    BY <2>1, <2>2
  <2> QED BY <2>1, <2>2, <2>3
<1>2. /\ e.bank \in Bank /\ e.lbn \in Lbn /\ e.vbn \in Nat
      /\ tail[e.bank] \in 0 .. FreeBlks - 1 /\ head = tail
  BY <1>1 DEF Victim, Inv, Types, Search
<1>3. e.vbn = Read16(mem, x)
  BY <1>1 DEF Inv, Victims, VictimsCurrent, GetLogVbn
<1>4. mem' = Write16(Write16(mem, x, Read16(mem, y)), y, Read16(mem, x))
  BY <1>2, <1>3 DEF EndGc, Exchanged, Returned
<1>5. x \in Cells(e.bank) /\ y \in Cells(e.bank) /\ x # y /\ Cells(e.bank) \subseteq AnyCell
  BY <1>2, CellsOf, TablesDiffer
<1>6. Handed(e.bank) = Cells(e.bank)
  BY <1>1 DEF Handed
<1>7. Read16(mem, x) \in Nat /\ Read16(mem, y) \in Nat
  BY <1>2, <1>5, <1>6 DEF Inv, Blocks, Numbered
<1>8. IsMem(mem, Address)
  BY DEF Inv, Types
<1>9. /\ IsMem(mem', Address)
      /\ Read16(mem', x) = Read16(mem, y) /\ Read16(mem', y) = Read16(mem, x)
      /\ \A d \in AnyCell : d # x /\ d # y => Read16(mem', d) = Read16(mem, d)
  <2> HIDE DEF x, y
  <2> QED BY <1>4, <1>5, <1>7, <1>8, CellsExchanged
<1>10. EndedOn(x, y, e)
  <2> HIDE DEF e
  <2> QED BY <1>1, <1>5, <1>9 DEF EndedOn
<1> QED
  <2> HIDE DEF x, y
  <2> QED BY <1>5, <1>10

LEMMA InvStartGc ==
    ASSUME Inv, NEW b \in Bank, NEW l \in Lbn, StartGc(b, l)
    PROVE  Inv'
<1> USE DEF Inv
<1> DEFINE e == [bank |-> b, lbn |-> l, vbn |-> GetLogVbn(b, l)]
<1>1. /\ at = "ready" /\ gc' = Append(gc, e) /\ ~Collected(b, l)
      /\ UNCHANGED <<mem, at, bank, vblk, lbn, isrFlag, head, tail>>
  BY DEF StartGc, locals
<1>2. LogCell(b, l) \in Handed(b)
  BY <1>1, CellsOf DEF Handed
<1>3. e \in Victim
  BY <1>2 DEF Blocks, Numbered, Victim, GetLogVbn
<1>4. Types' /\ Search'
  BY <1>1 DEF Types, Search, Building
<1>5. Blocks'
  BY <1>1 DEF Blocks, Handed, Building
<1>6. gc \in Seq(Victim)
  BY DEF Victims, Victim
<1>7. \A k \in DOMAIN gc : gc[k].bank # b \/ gc[k].lbn # l
  BY <1>1 DEF Collected
<1>8. e.bank = b /\ e.lbn = l /\ e.vbn = GetLogVbn(e.bank, e.lbn)
  OBVIOUS
<1> HIDE DEF e
<1>9. /\ gc' \in Seq(Victim)
      /\ DOMAIN gc' = DOMAIN gc \cup {Len(gc) + 1}
      /\ \A k \in DOMAIN gc : gc'[k] = gc[k]
      /\ gc'[Len(gc) + 1] = e
  BY <1>1, <1>3, <1>6
<1>10. \A j, k \in DOMAIN gc' :
           gc'[j].bank = gc'[k].bank /\ gc'[j].lbn = gc'[k].lbn => j = k
  BY <1>7, <1>8, <1>9 DEF Victims
<1>11. VictimsCurrent'
  BY <1>1, <1>8, <1>9 DEF Victims, VictimsCurrent, GetLogVbn
<1>12. Victims'
  BY <1>1, <1>9, <1>10, <1>11 DEF Victims, Victim
<1> QED
  BY <1>4, <1>5, <1>12

LEMMA InvEndGc ==
    ASSUME Inv, EndGc
    PROVE  Inv'
<1> USE DEF Inv
<1> DEFINE e == gc[Len(gc)]
<1>1. PICK x, y \in AnyCell : EndedOn(x, y, e)
  BY CollectionEnds
<1>2. /\ e.bank \in Bank /\ e.lbn \in Lbn /\ e.vbn \in Nat
      /\ x = LogCell(e.bank, e.lbn) /\ y = FreeCell(e.bank, tail[e.bank])
      /\ x \in Cells(e.bank) /\ y \in Cells(e.bank) /\ x # y
      /\ tail[e.bank] \in 0 .. FreeBlks - 1
  BY <1>1 DEF EndedOn, Victim, Types
<1>3. /\ IsMem(mem', Address)
      /\ Read16(mem', x) = Read16(mem, y) /\ Read16(mem', y) = Read16(mem, x)
      /\ \A d \in AnyCell : d # x /\ d # y => Read16(mem', d) = Read16(mem, d)
  BY <1>1 DEF EndedOn
<1>4. /\ at = "ready" /\ gc # << >> /\ gc' = SubSeq(gc, 1, Len(gc) - 1)
      /\ tail' = Advanced(tail, e.bank) /\ head' = Advanced(head, e.bank)
      /\ isrFlag' \in {isrFlag, AfterIsr(e.bank, "erase", e.vbn)}
      /\ UNCHANGED <<at, bank, vblk, lbn>>
  BY DEF EndGc, locals
<1>5. Types'
  <2>1. AfterIsr(e.bank, "erase", e.vbn) \in [Bank -> Int]
    BY <1>2 DEF AfterIsr, Types
  <2>2. \A f \in [Bank -> 0 .. FreeBlks - 1] :
            Advanced(f, e.bank) \in [Bank -> 0 .. FreeBlks - 1]
    BY <1>2, Sizes DEF Advanced
  <2> HIDE DEF e
  <2> QED
    BY <1>3, <1>4, <2>1, <2>2 DEF Types
<1>6. Search'
  BY <1>4 DEF Search, Building
<1>7. Blocks'
  <2>1. \A b \in Bank : /\ Handed(b) = Cells(b) /\ Handed(b)' = Cells(b)
                        /\ Cells(b) \subseteq AnyCell
    BY <1>4, CellsOf DEF Handed
  <2> HIDE DEF e
  <2>2. ASSUME NEW b \in Bank
        PROVE  Numbered(mem', Cells(b)) /\ Apart(mem', Cells(b))
    <3>1. Numbered(mem, Cells(b)) /\ Apart(mem, Cells(b))
      BY <2>1 DEF Blocks
    <3>2. CASE b = e.bank
      <4>1. Numbered(mem', Cells(b))
        BY <1>2, <1>3, <2>1, <3>1, <3>2 DEF Numbered
      <4>2. Apart(mem', Cells(b))
        BY <1>2, <1>3, <2>1, <3>1, <3>2 DEF Apart
      <4> QED BY <4>1, <4>2
    <3>3. CASE b # e.bank
      <4>1. \A d \in Cells(b) : d # x /\ d # y
        BY <1>2, <3>3, BanksDiffer
      <4> QED
        BY <1>3, <2>1, <3>1, <4>1, SameCells
    <3> QED BY <3>2, <3>3
  <2> QED
    BY <1>4, <2>1, <2>2 DEF Blocks
<1>8. Victims'
  <2>1. gc \in Seq(Victim) /\ Len(gc) \in Nat /\ Len(gc) > 0
    BY <1>4 DEF Victims, Victim
  <2>2. /\ gc' \in Seq(Victim)
        /\ DOMAIN gc' = 1 .. Len(gc) - 1
        /\ \A k \in 1 .. Len(gc) - 1 : gc'[k] = gc[k]
    BY <1>4, <2>1
  <2>3. \A k \in 1 .. Len(gc) - 1 : /\ k \in DOMAIN gc /\ Len(gc) \in DOMAIN gc /\ k # Len(gc)
                                    /\ gc[k].bank \in Bank /\ gc[k].lbn \in Lbn
    <3> TAKE k \in 1 .. Len(gc) - 1
    <3>1. k \in DOMAIN gc /\ Len(gc) \in DOMAIN gc /\ k # Len(gc)
      BY <2>1
    <3>2. gc[k] \in Victim
      BY <2>1, <3>1
    <3> QED
      BY <3>1, <3>2 DEF Victim
  <2>4. ASSUME NEW k \in 1 .. Len(gc) - 1
        PROVE  gc'[k].vbn = Read16(mem', LogCell(gc'[k].bank, gc'[k].lbn))
    <3> DEFINE c == LogCell(gc[k].bank, gc[k].lbn)
    <3>1. c # x
      <4>1. gc[k].bank # e.bank \/ gc[k].lbn # e.lbn
        BY <2>3 DEF Victims
      <4> HIDE DEF e
      <4> QED BY <1>2, <2>3, <4>1, LogCellsDiffer
    <3>2. c # y
      <4> HIDE DEF e
      <4> QED BY <1>2, <2>3, TablesDiffer
    <3>3. c \in AnyCell
      BY <2>3, CellsOf
    <3>4. gc[k].vbn = Read16(mem, c)
      BY <2>3 DEF Victims, VictimsCurrent, GetLogVbn
    <3> HIDE DEF c
    <3>5. gc[k].vbn = Read16(mem', c)
      BY <1>3, <3>1, <3>2, <3>3, <3>4
    <3> QED
      BY <2>2, <3>5 DEF c
  <2>5. VictimsCurrent'
    BY <2>2, <2>4 DEF VictimsCurrent, GetLogVbn
  <2>6. \A j, k \in DOMAIN gc' :
            gc'[j].bank = gc'[k].bank /\ gc'[j].lbn = gc'[k].lbn => j = k
    BY <2>2, <2>3 DEF Victims
  <2> QED
    BY <1>4, <2>2, <2>5, <2>6 DEF Victims, Victim
<1> QED
  BY <1>5, <1>6, <1>7, <1>8

LEMMA InvStutter == Inv /\ UNCHANGED vars => Inv'
<1> SUFFICES ASSUME Inv, UNCHANGED vars PROVE Inv'
  OBVIOUS
<1> USE DEF Inv, vars, locals
<1>1. Types' /\ Search'
  BY DEF Types, Search, Building
<1>2. Blocks'
  BY DEF Blocks, Handed, Building
<1>3. Victims'
  BY DEF Victims, VictimsCurrent, GetLogVbn
<1> QED
  BY <1>1, <1>2, <1>3

LEMMA InvNext == Inv /\ [Next]_vars => Inv'
<1> SUFFICES ASSUME Inv, [Next]_vars PROVE Inv'
  OBVIOUS
<1>1. CASE ScanStep
  BY <1>1, InvScan
<1>2. CASE Tables
  BY <1>2, InvTables
<1>3. CASE StartBank
  BY <1>3, InvStartBank
<1>4. CASE SkipBad
  BY <1>4, InvSkipBad
<1>5. CASE EraseFails
  BY <1>5, InvEraseFails
<1>6. CASE TakeFree
  BY <1>6, InvTakeFree
<1>7. CASE TakeLog \/ NoneLeft
  BY <1>7, InvTakeLog
<1>8. CASE EndBank
  BY <1>8, InvEndBank
<1>9. CASE \E b \in Bank, l \in Lbn : StartGc(b, l)
  BY <1>9, InvStartGc
<1>10. CASE EndGc
  BY <1>10, InvEndGc
<1>11. CASE UNCHANGED vars
  BY <1>11, InvStutter
<1> QED
  BY <1>1, <1>2, <1>3, <1>4, <1>5, <1>6, <1>7, <1>8, <1>9, <1>10, <1>11
     DEF Next, ScanStep

-----------------------------------------------------------------------------
(* The blocks of every log block and every free block of a bank are        *)
(* different, once format is done and through every collection, whatever   *)
(* lists of bad blocks it found, whatever erase operations failed and      *)
(* however collections are nested (format, set_log_vbn, ret_free_vbn).     *)
THEOREM BlocksStayDistinct == Spec => []BlocksDistinct
<1>1. Inv => BlocksDistinct
  BY DEF Inv, Blocks, Handed, Apart, BlocksDistinct
<1> QED
  BY <1>1, InvInit, InvNext, PTL DEF Spec

(* The block a collection puts back is the one its victim has at that      *)
(* time, although it was looked up before other collections ran            *)
(* (garbageCollectLog).                                                    *)
THEOREM VictimsStayCurrent == Spec => []VictimsCurrent
<1>1. Inv => VictimsCurrent
  BY DEF Inv, Victims
<1> QED
  BY <1>1, InvInit, InvNext, PTL DEF Spec

(* No collection loses a block of its bank or gains one, neither for the   *)
(* log blocks nor for the free ones (garbageCollectLog).                   *)
THEOREM BlocksStayKept == Spec => BlocksKept
<1> DEFINE Kept == at = "ready" /\ at' = "ready" => \A b \in Bank : InUse(mem', b) = InUse(mem, b)
<1>1. ASSUME Inv, [Next]_vars, at = "ready", at' = "ready", NEW b \in Bank
      PROVE  InUse(mem', b) = InUse(mem, b)
  <2>1. CASE mem' = mem
    BY <2>1 DEF InUse
  <2>2. CASE EndGc
    <3>1. PICK x, y \in AnyCell : EndedOn(x, y, gc[Len(gc)])
      BY <2>2, <1>1, CollectionEnds
    <3> DEFINE e == gc[Len(gc)]
    <3>2. /\ e.bank \in Bank /\ x \in Cells(e.bank) /\ y \in Cells(e.bank)
          /\ Read16(mem', x) = Read16(mem, y) /\ Read16(mem', y) = Read16(mem, x)
          /\ \A d \in AnyCell : d # x /\ d # y => Read16(mem', d) = Read16(mem, d)
      BY <3>1 DEF EndedOn, Victim
    <3> HIDE DEF e
    <3>3. Cells(b) \subseteq AnyCell
      BY CellsOf
    <3>4. CASE b = e.bank
      BY <3>2, <3>3, <3>4 DEF InUse
    <3>5. CASE b # e.bank
      <4>1. \A d \in Cells(b) : d # x /\ d # y
        BY <3>2, <3>5, BanksDiffer
      <4> QED BY <3>2, <3>3, <4>1 DEF InUse
    <3> QED BY <3>4, <3>5
  <2>3. mem' = mem \/ EndGc
    BY <1>1 DEF Next, vars, Boot, ReadList, CheckEntry, EndCheck, MarkBlk, EndMark,
                Tables, StartBank, SkipBad, EraseFails, TakeFree, Overrun, TakeLog,
                NoneLeft, EndBank, StartGc, PowerCycle
  <2> QED
    BY <2>1, <2>2, <2>3
<1>2. Inv /\ [Next]_vars => Kept
  BY <1>1
<1>3. Kept => [Kept]_vars
  OBVIOUS
<1> QED
  BY <1>2, InvInit, InvNext, PTL DEF Spec, BlocksKept

-----------------------------------------------------------------------------
(* The bitmap of bad blocks.                                               *)

(* The halfwords of the list in TEMP_BUF. *)
ListAt(k) == TempBuf + 2 * k

(* The list of the bank that is looked at, if it is one to be accepted:    *)
(* its entries have lost the bit of the chip as far as they are checked.   *)
ListInv ==
    /\ at = "check" /\ i < num => num <= ScanItems
    /\ at = "mark" => vblk >= 1
    /\ at \in {"check", "mark"} /\ Accepted(page[bank]) =>
         LET words == page[bank].words
         IN  /\ num = words[0]
             /\ at = "check" => result /\ i <= num
             /\ at = "mark"  => Read16(mem, ListAt(0)) = 0
             /\ \A k \in 1 .. num :
                  Read16(mem, ListAt(k)) = IF at = "check" /\ i < k THEN words[k] ELSE words[k] % 32768

(* The blocks of bank b that have been looked for in its list are below.   *)
Scanning == {"read", "check", "mark"}
MarkedTo(b) == IF at \in Scanning /\ b >= bank
               THEN IF at = "mark" /\ b = bank THEN vblk ELSE 1
               ELSE VBlks

BitmapInv ==
    /\ at \in {"off", "tables"} \cup Scanning => failed = {}
    /\ at \notin {"off", "overrun"} =>
         \A b \in Bank : \A v \in 1 .. VBlks - 1 :
            IF v < MarkedTo(b) THEN Accepted(page[b]) => (IsBad(b, v) <=> Bad(b, v))
            ELSE ~IsBad(b, v)

(* A bank format is at has all the good blocks it has passed, and goes on  *)
(* to the end when it has not enough; a bank it has finished has enough,   *)
(* or all there are.  Block FirstBlk is never among them.                  *)
Found(b)   == {Read16(mem, c) : c \in Handed(b)} \ {NoBlk}
Whole(b)   == \A c \in Handed(b) : Read16(mem, c) # NoBlk
Upto(b, n) == FirstBlk <= n /\ \A v \in FirstBlk + 1 .. n : Bad(b, v) \/ v \in Found(b)

GoodBank(b) ==
    /\ FirstBlk \notin Found(b)
    /\ \A v \in Found(b) : ~Bad(b, v)
    /\ at \in {"free", "log"} /\ b = bank => Upto(b, vblk) /\ (Whole(b) \/ vblk + 1 = VBlks)
    /\ at = "ready" \/ b < bank => Whole(b) \/ Upto(b, VBlks - 1)

GoodInv ==
    at \in Building \cup {"ready"} => \A b \in Bank : Accepted(page[b]) => GoodBank(b)

(* A set of naturals that is not empty has a least one. *)
LEMMA LeastExists ==
    ASSUME NEW S \in SUBSET Nat, S # {}
    PROVE  \E x \in S : \A y \in S : x <= y
<1> DEFINE R == {p \in Nat \X Nat : p[1] < p[2]}
<1>1. IsWellFoundedOn(R, Nat)
  BY NatLessThanWellFounded DEF OpToRel
<1>2. \A x, y \in Nat : <<y, x>> \in R <=> y < x
  OBVIOUS
<1> HIDE DEF R
<1>3. PICK x \in S : \A y \in S : <<y, x>> \notin R
  BY <1>1, WFMin
<1>4. \A y \in S : ~ (y < x)
  BY <1>2, <1>3
<1> QED
  BY <1>4

LEMMA MinIsLeast ==
    ASSUME NEW S \in SUBSET Nat, S # {}
    PROVE  Min(S) \in S /\ \A y \in S : Min(S) <= y
  BY LeastExists DEF Min

(* The ranges of C integers, as inequalities: an interval between two      *)
(* numerals is more than the provers can do with.                          *)
LEMMA Interval == \A n \in Nat : \A x : x \in 0 .. n <=> x \in Int /\ 0 <= x /\ x <= n
OBVIOUS

LEMMA ByteRange == \A x : x \in Byte <=> x \in Int /\ 0 <= x /\ x <= 255
<1> DEFINE n == 255
<1>1. Byte = 0 .. n /\ n \in Nat
  BY DEF Byte
<1>2. n = 255
  OBVIOUS
<1> HIDE DEF n
<1>3. \A x : x \in Byte <=> x \in Int /\ 0 <= x /\ x <= n
  BY <1>1
<1> QED
  BY <1>2, <1>3

LEMMA HalfIsRange == Half = 0 .. NoBlk
BY DEF Half, NoBlk

LEMMA NoBlkIsNat == NoBlk \in Nat
BY DEF NoBlk

LEMMA HalfRange == \A x : x \in Half <=> x \in Int /\ 0 <= x /\ x <= 65535
<1>1. \A x : x \in Half <=> x \in Int /\ 0 <= x /\ x <= NoBlk
  BY NoBlkIsNat, HalfIsRange, Interval
<1> QED
  BY <1>1 DEF NoBlk

(* Powers of two, as far as there are bits in a byte. *)
Powers == {1, 2, 4, 8, 16, 32, 64, 128}

LEMMA PowersOfTwo ==
    ASSUME NEW k \in 0 .. 7
    PROVE  2 ^ k \in Powers /\ \A j \in 0 .. 7 : 2 ^ j = 2 ^ k => j = k
<1>1. /\ 2 ^ 0 = 1 /\ 2 ^ 1 = 2 /\ 2 ^ 2 = 4 /\ 2 ^ 3 = 8
      /\ 2 ^ 4 = 16 /\ 2 ^ 5 = 32 /\ 2 ^ 6 = 64 /\ 2 ^ 7 = 128
  OBVIOUS
<1>2. \A j \in 0 .. 7 : j \in {0, 1, 2, 3, 4, 5, 6, 7}
  OBVIOUS
<1>3. \A j \in 0 .. 7 :
         2 ^ j = IF j = 0 THEN 1 ELSE IF j = 1 THEN 2 ELSE IF j = 2 THEN 4 ELSE IF j = 3 THEN 8
                 ELSE IF j = 4 THEN 16 ELSE IF j = 5 THEN 32 ELSE IF j = 6 THEN 64 ELSE 128
  BY <1>1, <1>2, ZenonT(60)
<1>4. 2 ^ k \in Powers
  BY <1>3 DEF Powers
<1> DEFINE f == [j \in 0 .. 7 |-> 2 ^ j]
<1>5. \A j \in 0 .. 7 :
         f[j] = IF j = 0 THEN 1 ELSE IF j = 1 THEN 2 ELSE IF j = 2 THEN 4 ELSE IF j = 3 THEN 8
                ELSE IF j = 4 THEN 16 ELSE IF j = 5 THEN 32 ELSE IF j = 6 THEN 64 ELSE 128
  BY <1>3
<1> HIDE DEF f
<1>6. \A j \in 0 .. 7 : f[j] = f[k] => j = k
  BY <1>5
<1> QED
  BY <1>4, <1>6 DEF f

(* A bit that is not set is added, the other bits stay. *)
LEMMA BitAdded ==
    ASSUME NEW p \in Powers, NEW q \in Powers, NEW x \in Byte, (x \div p) % 2 = 0
    PROVE  /\ x + p \in Byte
           /\ ((x + p) \div q) % 2 = IF q = p THEN 1 ELSE (x \div q) % 2
<1>x. x \in Nat /\ x <= 255
  BY ByteRange
<1> USE ByteRange, <1>x DEF Powers
<1>1. CASE p = 1
  BY <1>1
<1>2. CASE p = 2
  BY <1>2
<1>3. CASE p = 4
  BY <1>3
<1>4. CASE p = 8
  BY <1>4
<1>5. CASE p = 16
  BY <1>5
<1>6. CASE p = 32
  BY <1>6
<1>7. CASE p = 64
  BY <1>7
<1>8. CASE p = 128
  BY <1>8
<1> QED
  BY <1>1, <1>2, <1>3, <1>4, <1>5, <1>6, <1>7, <1>8

LEMMA BitIsBit ==
    ASSUME NEW w \in Word, NEW n \in 0 .. 31
    PROVE  Bit(w, n) \in {0, 1}
<1>1. n \div 8 \in 0 .. 3 /\ n % 8 \in 0 .. 7
  OBVIOUS
<1> DEFINE x == w[n \div 8]
           p == 2 ^ (n % 8)
<1>2. x \in Byte /\ p \in Powers
  BY <1>1, PowersOfTwo DEF Word
<1> HIDE DEF x, p
<1>3. (x \div p) % 2 \in {0, 1}
  BY <1>2, ByteRange DEF Powers
<1> QED
  BY <1>3 DEF Bit, x, p

(* A bit of a word is set, and no other bit changes. *)
LEMMA BitOfWord ==
    ASSUME NEW w \in Word, NEW n \in 0 .. 31
    PROVE  /\ WithBit(w, n) \in Word
           /\ \A k \in 0 .. 31 : Bit(WithBit(w, n), k) = IF k = n THEN 1 ELSE Bit(w, k)
<1>1. CASE Bit(w, n) = 1
  BY <1>1 DEF WithBit
<1>2. CASE Bit(w, n) # 1
  <2> DEFINE o == n \div 8
             p == 2 ^ (n % 8)
             u == WithBit(w, n)
  <2>1. o \in 0 .. 3 /\ n % 8 \in 0 .. 7 /\ n = 8 * o + (n % 8)
    OBVIOUS
  <2>2. p \in Powers
    BY <2>1, PowersOfTwo
  <2>3. u = [w EXCEPT ![o] = w[o] + p]
    BY <1>2 DEF WithBit
  <2>4. (w[o] \div p) % 2 = 0
    BY <1>2, BitIsBit DEF Bit
  <2>5. w[o] \in Byte
    BY <2>1 DEF Word
  <2> HIDE DEF o, p, u
  <2>6. \A q \in Powers : /\ w[o] + p \in Byte
                          /\ ((w[o] + p) \div q) % 2 = IF q = p THEN 1 ELSE (w[o] \div q) % 2
    BY <2>2, <2>4, <2>5, BitAdded
  <2>7. u \in Word
    BY <2>1, <2>2, <2>3, <2>6 DEF Word
  <2>8. ASSUME NEW k \in 0 .. 31
        PROVE  Bit(u, k) = IF k = n THEN 1 ELSE Bit(w, k)
    <3> DEFINE h == k \div 8
               q == 2 ^ (k % 8)
    <3>1. h \in 0 .. 3 /\ k % 8 \in 0 .. 7 /\ k = 8 * h + (k % 8)
      OBVIOUS
    <3>2. q \in Powers /\ (q = p => k % 8 = n % 8)
      BY <3>1, <2>1, PowersOfTwo DEF p
    <3>3. Bit(u, k) = (u[h] \div q) % 2 /\ Bit(w, k) = (w[h] \div q) % 2
      BY DEF Bit
    <3> HIDE DEF h, q
    <3>4. CASE h # o
      <4>1. u[h] = w[h] /\ k # n
        BY <3>1, <3>4, <2>1, <2>3 DEF Word, o, h
      <4> QED BY <4>1, <3>3
    <3>5. CASE h = o
      <4>1. u[h] = w[o] + p
        BY <3>1, <3>5, <2>3 DEF Word
      <4>2. k = n <=> q = p
        BY <3>1, <3>2, <3>5, <2>1 DEF p, q
      <4> QED BY <4>1, <4>2, <3>2, <3>3, <3>5, <2>6
    <3> QED BY <3>4, <3>5
  <2> QED
    BY <2>7, <2>8 DEF u
<1> QED
  BY <1>1, <1>2

-----------------------------------------------------------------------------
(* Memories are bytes, and stay bytes.                                     *)

LEMMA LoadIsBytes ==
    ASSUME NEW A, NEW m \in [A -> Byte], NEW a, WordIn(a, A)
    PROVE  Load(m, a) \in Word
<1>1. Real(a) \in Nat
  BY RealIsShift DEF WordIn
<1>2. \A o \in 0 .. 3 : Real(a) + o \in Real(a) .. Real(a) + 3
  BY <1>1
<1> QED
  BY <1>2 DEF Load, Word, WordIn

LEMMA StoreIsBytes ==
    ASSUME NEW A, NEW m \in [A -> Byte], NEW a \in Nat, NEW w \in Word
    PROVE  Store(m, a, w) \in [A -> Byte]
<1>1. Real(a) \in Nat
  BY RealIsShift
<1>2. \A x \in Real(a) .. Real(a) + 3 : x - Real(a) \in 0 .. 3
  BY <1>1
<1>3. \A x \in Real(a) .. Real(a) + 3 : w[x - Real(a)] \in Byte
  BY <1>2 DEF Word
<1> QED
  BY <1>3 DEF Store

LEMMA HalfParts ==
    ASSUME NEW v \in Half
    PROVE  /\ v % 256 \in Byte /\ v \div 256 \in Byte
           /\ (v % 256) + 256 * (v \div 256) = v
<1>1. v \in Nat /\ v < 65536
  BY HalfRange
<1>2. v % 256 \in Int /\ 0 <= v % 256 /\ v % 256 <= 255
  BY <1>1
<1>3. v \div 256 \in Int /\ 0 <= v \div 256 /\ v \div 256 <= 255
  BY <1>1
<1>4. (v % 256) + 256 * (v \div 256) = v
  BY <1>1
<1> QED
  BY <1>2, <1>3, <1>4, ByteRange

LEMMA ReadIsHalf ==
    ASSUME NEW A, NEW m \in [A -> Byte], NEW a, HalfAt(a, A)
    PROVE  Read16(m, a) \in Half
<1> DEFINE w == Load(m, Aligned(a))
           o == a % 4
<1>1. w \in Word
  BY LoadIsBytes DEF HalfAt
<1>2. o \in {0, 2}
  BY AlignedParts DEF HalfAt
<1> HIDE DEF w, o
<1>3. w[o] \in Byte /\ w[o + 1] \in Byte /\ o # 3
  BY <1>1, <1>2 DEF Word
<1>4. PICK x \in Byte, y \in Byte : x = w[o] /\ y = w[o + 1]
  BY <1>3
<1>5. HalfIn(w, o) = x + 256 * y
  BY <1>3, <1>4 DEF HalfIn
<1>6. x + 256 * y \in Half
  BY ByteRange, HalfRange
<1> QED
  BY <1>5, <1>6 DEF Read16, w, o

LEMMA WriteIsBytes ==
    ASSUME NEW A, NEW m \in [A -> Byte], NEW a, HalfAt(a, A), NEW v \in Half
    PROVE  Write16(m, a, v) \in [A -> Byte]
<1> DEFINE w == Load(m, Aligned(a))
           u == WithHalf(w, a % 4, v)
<1>1. w \in Word
  BY LoadIsBytes DEF HalfAt
<1> HIDE DEF w
<1>2. u \in Word
  BY <1>1, HalfParts DEF WithHalf, Word
<1>3. Aligned(a) \in Nat
  BY DEF HalfAt, WordIn
<1> HIDE DEF u
<1>4. Store(m, Aligned(a), u) \in [A -> Byte]
  BY <1>2, <1>3, StoreIsBytes
<1> QED
  BY <1>4 DEF Write16, u, w

LEMMA FillIsBytes ==
    ASSUME NEW A, NEW m \in [A -> Byte], NEW a, NEW n
    PROVE  Fill(m, a, 0, n) \in [A -> Byte]
<1>1. 0 \in Byte
  BY ByteRange
<1> QED
  BY <1>1 DEF Fill

LEMMA DmaIsBytes ==
    ASSUME NEW A, NEW m \in [A -> Byte], NEW a, NEW n \in Nat, NEW words \in [0 .. n -> Half]
    PROVE  Dma(m, a, words) \in [A -> Byte]
<1> DEFINE hit(x) == {k \in DOMAIN words : x \in {Real(a + 2 * k), Real(a + 2 * k + 1)}}
           byte(x) == IF hit(x) = {} THEN m[x]
                      ELSE IF x = Real(a + 2 * Min(hit(x))) THEN words[Min(hit(x))] % 256
                           ELSE words[Min(hit(x))] \div 256
<1>1. Dma(m, a, words) = [x \in A |-> byte(x)]
  BY DEF Dma
<1>2. ASSUME NEW x \in A
      PROVE  byte(x) \in Byte
  <2>1. hit(x) # {} => Min(hit(x)) \in hit(x)
    <3>1. hit(x) \in SUBSET Nat
      OBVIOUS
    <3> HIDE DEF hit
    <3> QED BY <3>1, MinIsLeast
  <2>2. \A k \in hit(x) : words[k] \in Half
    OBVIOUS
  <2> HIDE DEF hit
  <2>3. hit(x) # {} => words[Min(hit(x))] % 256 \in Byte /\ words[Min(hit(x))] \div 256 \in Byte
    BY <2>1, <2>2, HalfParts
  <2> QED
    BY <2>3
<1> HIDE DEF byte
<1> QED
  BY <1>1, <1>2

LEMMA SetBitIsBytes ==
    ASSUME NEW A, NEW m \in [A -> Byte], NEW base, NEW k, WordIn(BitAddr(base, k), A),
           BitIn(base, k) \in 0 .. 31
    PROVE  SetBit(m, base, k) \in [A -> Byte]
<1>1. Load(m, BitAddr(base, k)) \in Word
  BY LoadIsBytes
<1>2. WithBit(Load(m, BitAddr(base, k)), BitIn(base, k)) \in Word
  BY <1>1, BitOfWord
<1> QED
  BY <1>2, StoreIsBytes DEF SetBit, WordIn

-----------------------------------------------------------------------------
(* Where the list and the bits are.                                        *)

LEMMA BankBytes ==
    /\ (VBlks \div 8) + 1 \in Nat
    /\ \A v \in VBlk : v \div 8 \in 0 .. (VBlks \div 8)
    /\ \A b \in Bank, k \in 0 .. (VBlks \div 8) :
         b * ((VBlks \div 8) + 1) + k \in 0 .. BmpBytes - 1
<1> DEFINE per == (VBlks \div 8) + 1
<1>1. per \in Nat /\ NumBanks \in Nat /\ VBlks \in Nat
  BY SizesAssumption
<1>2. \A v \in VBlk : v \div 8 \in 0 .. (VBlks \div 8)
  BY <1>1 DEF VBlk
<1>3. 0 .. (VBlks \div 8) = 0 .. per - 1
  BY <1>1
<1> HIDE DEF per
<1>4. \A b \in Bank, k \in 0 .. per - 1 : b * per + k \in 0 .. NumBanks * per - 1
  BY <1>1, PlaceInTable DEF Bank
<1>5. NumBanks * per \in Nat /\ NumBanks * per <= BmpBytes /\ BmpBytes \in Nat
  BY <1>1, BitmapFits, Layout DEF per
<1>6. \A b \in Bank, k \in 0 .. per - 1 : b * per + k \in 0 .. BmpBytes - 1
  <2> TAKE b \in Bank, k \in 0 .. per - 1
  <2>1. b * per + k \in 0 .. NumBanks * per - 1
    BY <1>4
  <2> QED BY <2>1, <1>5
<1> QED
  BY <1>1, <1>2, <1>3, <1>6 DEF per

(* The number of a bit from the start of memory. *)
BitNo(b, v) == BmpOf(b) * 8 + v

LEMMA BitPlace ==
    ASSUME NEW b \in Bank, NEW v \in VBlk
    PROVE  LET a == BitAddr(BmpOf(b), v)
           IN  /\ a \in Nat /\ a % 4 = 0 /\ BadBlkBmp <= a /\ a < LogBmt
               /\ WordIn(a, Address)
               /\ BitIn(BmpOf(b), v) \in 0 .. 31
               /\ BitNo(b, v) = 8 * a + BitIn(BmpOf(b), v)
<1> DEFINE per == (VBlks \div 8) + 1
           k == v \div 8
           c == b * per
           a == BitAddr(BmpOf(b), v)
<1>1. /\ v \in Nat /\ k \in Nat /\ v % 8 \in 0 .. 7 /\ v = 8 * k + (v % 8)
  BY SizesAssumption DEF VBlk
<1>2. c + k \in 0 .. BmpBytes - 1 /\ c \in Nat
  <2>1. per \in Nat /\ b \in Nat
    BY BankBytes DEF Bank
  <2>2. c \in Nat
    <3> HIDE DEF per
    <3> QED BY <2>1
  <2> QED
    BY BankBytes, <2>2
<1>3. BmpOf(b) = BadBlkBmp + c
  BY DEF BmpOf
<1>4. BadBlkBmp \in Nat /\ BadBlkBmp % 4 = 0 /\ BmpBytes \in Nat /\ LogBmt = BadBlkBmp + BmpBytes
  BY Layout
<1> HIDE DEF k, c
<1>5. a = Aligned(BadBlkBmp + c + k)
  BY <1>3 DEF BitAddr, k
<1> HIDE DEF a
<1>6. a \in Nat /\ a % 4 = 0 /\ a <= BadBlkBmp + c + k /\ BadBlkBmp + c + k <= a + 3
  BY <1>1, <1>2, <1>4, <1>5 DEF Aligned
<1>7. BadBlkBmp <= a /\ a < LogBmt
  BY <1>1, <1>2, <1>4, <1>6
<1>8. WordIn(a, Address)
  <2>1. HalfAt(a, Address)
    BY <1>6, <1>7, TablesInMemory, Layout
  <2>2. Aligned(a) = a
    BY <1>6 DEF Aligned
  <2> QED
    BY <2>1, <2>2 DEF HalfAt
<1>9. BitNo(b, v) = 8 * (BadBlkBmp + c + k) + (v % 8)
  BY <1>1, <1>2, <1>3, <1>4 DEF BitNo
<1>10. BitIn(BmpOf(b), v) = BitNo(b, v) % 32
  BY DEF BitIn, BitNo
<1>11. BitNo(b, v) \in Nat /\ BitNo(b, v) - 8 * a \in 0 .. 31
  BY <1>1, <1>2, <1>4, <1>6, <1>9
<1>12. (8 * a) % 32 = 0
  BY <1>6
<1>13. BitNo(b, v) % 32 = BitNo(b, v) - 8 * a
  <2> DEFINE n == BitNo(b, v)
             e == 8 * a
  <2>1. e \in Nat /\ e % 32 = 0 /\ n \in Nat /\ n - e \in 0 .. 31
    BY <1>6, <1>11, <1>12
  <2> HIDE DEF n, e
  <2>2. n % 32 = n - e
    BY <2>1
  <2> QED BY <2>2 DEF n, e
<1>14. /\ BitIn(BmpOf(b), v) \in 0 .. 31
       /\ BitNo(b, v) = 8 * a + BitIn(BmpOf(b), v)
  BY <1>6, <1>10, <1>11, <1>13
<1> QED
  BY <1>6, <1>7, <1>8, <1>14 DEF a

(* No two blocks have the same bit. *)
LEMMA BitsDiffer ==
    ASSUME NEW b \in Bank, NEW v \in VBlk, NEW c \in Bank, NEW u \in VBlk,
           BitAddr(BmpOf(b), v) = BitAddr(BmpOf(c), u),
           BitIn(BmpOf(b), v) = BitIn(BmpOf(c), u)
    PROVE  b = c /\ v = u
<1> DEFINE per == (VBlks \div 8) + 1
           L == 8 * per
<1>1. BitNo(b, v) = BitNo(c, u)
  BY BitPlace
<1>2. per \in Nat /\ VBlks \in Nat /\ VBlks <= L
  BY SizesAssumption
<1>3. v \in 0 .. L - 1 /\ u \in 0 .. L - 1
  BY <1>2 DEF VBlk
<1>4. ASSUME NEW d \in Nat, NEW w \in Nat
      PROVE  (BadBlkBmp + d * per) * 8 + w = BadBlkBmp * 8 + (d * L + w)
  <2>1. d * L = 8 * (d * per) /\ d * per \in Nat
    <3> HIDE DEF per
    <3> QED BY <1>2
  <2> DEFINE e == d * per
             f == d * L
  <2>2. f = 8 * e /\ e \in Nat
    BY <2>1
  <2> HIDE DEF e, f
  <2>3. (BadBlkBmp + e) * 8 + w = BadBlkBmp * 8 + (f + w)
    BY <2>2, Layout
  <2> QED
    BY <2>3 DEF e, f
<1>5. b \in Nat /\ c \in Nat /\ v \in Nat /\ u \in Nat
  BY <1>2, <1>3 DEF Bank
<1>6. BitNo(b, v) = (BadBlkBmp + b * per) * 8 + v /\ BitNo(c, u) = (BadBlkBmp + c * per) * 8 + u
  BY DEF BitNo, BmpOf
<1>7. BitNo(b, v) = BadBlkBmp * 8 + (b * L + v) /\ BitNo(c, u) = BadBlkBmp * 8 + (c * L + u)
  BY <1>4, <1>5, <1>6
<1>8. L \in Nat
  BY <1>2
<1> HIDE DEF L
<1>9. b * L + v \in Nat /\ c * L + u \in Nat
  BY <1>5, <1>8
<1>10. b * L + v = c * L + u
  <2> DEFINE e == b * L + v
             f == c * L + u
  <2>1. e \in Nat /\ f \in Nat /\ BadBlkBmp * 8 + e = BadBlkBmp * 8 + f
    BY <1>1, <1>7, <1>9
  <2> HIDE DEF e, f
  <2>2. e = f
    BY <2>1, Layout
  <2> QED
    BY <2>2 DEF e, f
<1> QED
  BY <1>3, <1>5, <1>8, <1>10, PlacesDiffer

(* The list is before the bitmap. *)
LEMMA ListPlace ==
    ASSUME NEW k \in 0 .. ScanItems
    PROVE  /\ ListAt(k) \in Nat /\ ListAt(k) % 2 = 0 /\ HalfAt(ListAt(k), Address)
           /\ ListAt(k) + 1 < BadBlkBmp
<1>1. ScanItems \in Nat
  BY SizesAssumption
<1>2. 2 * (ScanItems + 1) <= BadBlkBmp
  BY <1>1, RoundedUp DEF BadBlkBmp
<1>3. ListAt(k) = 2 * k
  BY DEF ListAt, TempBuf
<1>4. ListAt(k) \in Nat /\ ListAt(k) % 2 = 0 /\ ListAt(k) + 1 < BadBlkBmp
  BY <1>1, <1>2, <1>3, Layout
<1>5. ListAt(k) < FreeBmt + FreeBytes
  BY <1>4, Layout
<1> QED
  BY <1>4, <1>5, TablesInMemory

-----------------------------------------------------------------------------
(* What the operations do to the bits and to the list.                     *)

LEMMA RealMonotone ==
    ASSUME NEW a \in Nat, NEW b \in Nat
    PROVE  /\ a < b => Real(a) < Real(b)
           /\ a <= b => Real(a) <= Real(b)
           /\ Real(a) \in Nat
<1>1. Real(a) = a + 4 * (a \div EccUnit) /\ Real(b) = b + 4 * (b \div EccUnit) /\ Real(a) \in Nat
  BY RealIsShift
<1>2. a <= b => a \div EccUnit <= b \div EccUnit
  BY DivisionMonotone
<1>3. a \div EccUnit \in Nat /\ b \div EccUnit \in Nat
  BY Division
<1> QED
  BY <1>1, <1>2, <1>3

(* A word is in one piece. *)
LEMMA RealInWord ==
    ASSUME NEW a \in Nat, a % 4 = 0, NEW o \in 0 .. 3
    PROVE  Real(a + o) = Real(a) + o
<1> DEFINE c == a + o
           q == a \div EccUnit
           p == c \div EccUnit
           r == a % EccUnit
           s == c % EccUnit
           E == EccUnit
<1>1. c \in Nat /\ c = a + o /\ a <= c
  OBVIOUS
<1>2. /\ q \in Nat /\ p \in Nat /\ E \in Nat /\ E > 0
      /\ r \in 0 .. E - 1 /\ s \in 0 .. E - 1
      /\ a = E * q + r /\ c = E * p + s
  BY <1>1, Division, EccUnitAssumption
<1>3. q <= p
  BY <1>1, DivisionMonotone
<1>4. E * q \in Nat /\ (E * q) % 4 = 0 /\ E % 4 = 0
  BY <1>2, UnitMultiple, EccUnitAssumption
<1>5. Real(c) = c + 4 * p /\ Real(a) = a + 4 * q
  BY <1>1, RealIsShift
<1> HIDE DEF c, q, p, r, s, E
<1>6. r + o < E
  <2> DEFINE f == E * q
  <2>1. f \in Nat /\ f % 4 = 0 /\ a = f + r
    BY <1>2, <1>4
  <2> HIDE DEF f
  <2>2. r % 4 = 0
    BY <2>1, <1>2
  <2> QED
    BY <2>2, <1>2, <1>4
<1>7. p = q
  <2> SUFFICES ASSUME q + 1 <= p PROVE FALSE
    BY <1>2, <1>3
  <2>1. E * (q + 1) <= E * p
    BY <1>2
  <2>2. E * (q + 1) = E * q + E /\ E * p \in Nat
    BY <1>2
  <2> QED
    BY <1>1, <1>2, <1>4, <1>6, <2>1, <2>2
<1>8. Real(c) = Real(a) + o
  BY <1>1, <1>2, <1>5, <1>7
<1> QED
  BY <1>8 DEF c

IsBit(m, b, v) == TstBit(m, BmpOf(b), v)
BitsKept(m, n) == \A b \in Bank, v \in VBlk : IsBit(n, b, v) <=> IsBit(m, b, v)
ListKept(m, n) == \A k \in 0 .. ScanItems : Read16(n, ListAt(k)) = Read16(m, ListAt(k))

LEMMA WordsKeepBits ==
    ASSUME NEW m, NEW n,
           \A a : WordIn(a, Address) /\ BadBlkBmp <= a /\ a < LogBmt => Load(n, a) = Load(m, a)
    PROVE  BitsKept(m, n)
<1> SUFFICES ASSUME NEW b \in Bank, NEW v \in VBlk
             PROVE  IsBit(n, b, v) <=> IsBit(m, b, v)
  BY DEF BitsKept
<1>1. Load(n, BitAddr(BmpOf(b), v)) = Load(m, BitAddr(BmpOf(b), v))
  BY BitPlace
<1> QED
  BY <1>1 DEF IsBit, TstBit

(* A halfword before the bitmap, or behind it. *)
LEMMA WriteKeepsBits ==
    ASSUME NEW m, IsMem(m, Address), NEW a, HalfAt(a, Address), NEW v,
           a + 1 < BadBlkBmp \/ LogBmt <= a
    PROVE  BitsKept(m, Write16(m, a, v))
<1>1. a \in Nat /\ Aligned(a) \in Nat /\ Aligned(a) <= a /\ a <= Aligned(a) + 3 /\ Aligned(a) % 4 = 0
  BY DEF HalfAt, Aligned
<1>2. Aligned(a) < BadBlkBmp \/ LogBmt <= Aligned(a)
  BY <1>1, Layout
<1>3. ASSUME NEW b, WordIn(b, Address), BadBlkBmp <= b, b < LogBmt
      PROVE  Load(Write16(m, a, v), b) = Load(m, b)
  <2>1. Aligned(a) # b
    BY <1>2, <1>3, Layout DEF WordIn
  <2> QED
    BY <1>3, <2>1, LoadOther DEF Write16, HalfAt
<1> QED
  BY <1>3, WordsKeepBits

LEMMA CellKeepsBits ==
    ASSUME NEW m, IsMem(m, Address), NEW c \in AnyCell, NEW v
    PROVE  BitsKept(m, Write16(m, c, v))
BY CellPlace, WriteKeepsBits

LEMMA EntryKeepsBits ==
    ASSUME NEW m, IsMem(m, Address), NEW k \in 0 .. ScanItems, NEW v
    PROVE  BitsKept(m, Write16(m, ListAt(k), v))
BY ListPlace, WriteKeepsBits

LEMMA FillKeepsBits ==
    ASSUME NEW m, IsMem(m, Address), NEW a \in Nat, a % 4 = 0, LogBmt <= a, NEW byte, NEW n
    PROVE  BitsKept(m, Fill(m, a, byte, n))
<1>1. DOMAIN m = Address
  BY DEF IsMem
<1>2. ASSUME NEW b, WordIn(b, Address), BadBlkBmp <= b, b < LogBmt
      PROVE  Load(Fill(m, a, byte, n), b) = Load(m, b)
  <2>1. b \in Nat /\ b % 4 = 0 /\ b < a
    BY <1>2, Layout DEF WordIn
  <2>2. Real(b) + 4 <= Real(a) /\ Real(a) \in Nat /\ Real(b) \in Nat
    BY <2>1, WordsApart, RealMonotone
  <2>3. ASSUME NEW o \in 0 .. 3
        PROVE  Fill(m, a, byte, n)[Real(b) + o] = m[Real(b) + o]
    <3>1. Real(b) + o \in Real(b) .. Real(b) + 3 /\ ~ (Real(a) <= Real(b) + o)
      BY <2>2
    <3>2. Real(b) + o \in DOMAIN m
      BY <1>1, <1>2, <3>1 DEF WordIn
    <3> QED
      BY <3>1, <3>2 DEF Fill
  <2> QED
    BY <2>3 DEF Load
<1> QED
  BY <1>2, WordsKeepBits

LEMMA FillClearsBits ==
    ASSUME NEW m, IsMem(m, Address), NEW b \in Bank, NEW v \in VBlk
    PROVE  ~ IsBit(Fill(m, BadBlkBmp, 0, BmpBytes), b, v)
<1> DEFINE n == Fill(m, BadBlkBmp, 0, BmpBytes)
           a == BitAddr(BmpOf(b), v)
           k == BitIn(BmpOf(b), v)
<1>1. DOMAIN m = Address
  BY DEF IsMem
<1>2. /\ a \in Nat /\ a % 4 = 0 /\ BadBlkBmp <= a /\ a < LogBmt
      /\ WordIn(a, Address) /\ k \in 0 .. 31
  BY BitPlace
<1>3. /\ Real(BadBlkBmp) <= Real(a) /\ Real(a) + 4 <= Real(BadBlkBmp + BmpBytes)
      /\ Real(a) \in Nat /\ Real(BadBlkBmp) \in Nat /\ Real(BadBlkBmp + BmpBytes) \in Nat
  BY <1>2, Layout, RealMonotone, WordsApart
<1> HIDE DEF a, k
<1>4. ASSUME NEW o \in 0 .. 3
      PROVE  n[Real(a) + o] = 0
  <2>1. /\ Real(a) + o \in Real(a) .. Real(a) + 3
        /\ Real(BadBlkBmp) <= Real(a) + o /\ Real(a) + o < Real(BadBlkBmp + BmpBytes)
    BY <1>3
  <2>2. Real(a) + o \in DOMAIN m
    BY <1>1, <1>2, <2>1 DEF WordIn
  <2> QED
    BY <2>1, <2>2 DEF Fill
<1> HIDE DEF n
<1>5. k \div 8 \in 0 .. 3 /\ k % 8 \in 0 .. 7
  BY <1>2
<1>6. Load(n, a)[k \div 8] = 0
  BY <1>4, <1>5 DEF Load
<1>7. \A p \in Powers : (0 \div p) % 2 = 0
  BY DEF Powers
<1>8. Bit(Load(n, a), k) = 0
  BY <1>5, <1>6, <1>7, PowersOfTwo DEF Bit
<1> QED
  BY <1>8 DEF IsBit, TstBit, a, k, n

(* set_bit sets this bit, and leaves the others and the list alone. *)
LEMMA BitMarked ==
    ASSUME NEW m \in [Address -> Byte], NEW b \in Bank, NEW v \in VBlk
    PROVE  LET n == SetBit(m, BmpOf(b), v)
           IN  /\ n \in [Address -> Byte]
               /\ \A c \in Bank, u \in VBlk : IsBit(n, c, u) <=> IsBit(m, c, u) \/ (c = b /\ u = v)
               /\ ListKept(m, n)
<1> DEFINE n == SetBit(m, BmpOf(b), v)
           a == BitAddr(BmpOf(b), v)
           k == BitIn(BmpOf(b), v)
           w == Load(m, a)
           x == WithBit(w, k)
<1>1. IsMem(m, Address)
  BY DEF IsMem
<1>2. /\ a \in Nat /\ a % 4 = 0 /\ BadBlkBmp <= a /\ a < LogBmt
      /\ WordIn(a, Address) /\ k \in 0 .. 31
  BY BitPlace
<1>3. n \in [Address -> Byte]
  BY <1>2, SetBitIsBytes
<1>4. w \in Word
  BY <1>2, LoadIsBytes
<1>5. n = Store(m, a, x)
  BY DEF SetBit
<1> HIDE DEF a, k, w, n
<1>6. x \in Word /\ \A j \in 0 .. 31 : Bit(x, j) = IF j = k THEN 1 ELSE Bit(w, j)
  BY <1>2, <1>4, BitOfWord
<1> HIDE DEF x
<1>7. IsWord(x)
  BY <1>6 DEF Word, IsWord
<1>8. Load(n, a) = x
  BY <1>1, <1>2, <1>5, <1>7, LoadStored
<1>9. ASSUME NEW c \in Bank, NEW u \in VBlk
      PROVE  IsBit(n, c, u) <=> IsBit(m, c, u) \/ (c = b /\ u = v)
  <2> DEFINE d == BitAddr(BmpOf(c), u)
             j == BitIn(BmpOf(c), u)
  <2>1. WordIn(d, Address) /\ j \in 0 .. 31
    BY BitPlace
  <2>2. d = a /\ j = k => c = b /\ u = v
    BY BitsDiffer DEF a, k
  <2>3. c = b /\ u = v => d = a /\ j = k
    BY DEF a, k
  <2>4. (IsBit(n, c, u) <=> Bit(Load(n, d), j) # 0) /\ (IsBit(m, c, u) <=> Bit(Load(m, d), j) # 0)
    BY DEF IsBit, TstBit
  <2> HIDE DEF d, j
  <2>5. CASE d # a
    <3>1. Load(n, d) = Load(m, d)
      BY <1>1, <1>2, <1>5, <1>7, <2>1, <2>5, LoadOther
    <3> QED BY <3>1, <2>3, <2>4, <2>5
  <2>6. CASE d = a
    <3>1. Load(n, d) = x /\ Load(m, d) = w
      BY <2>6, <1>8 DEF w
    <3>2. Bit(x, j) = IF j = k THEN 1 ELSE Bit(w, j)
      BY <1>6, <2>1
    <3> QED BY <3>1, <3>2, <2>2, <2>3, <2>4, <2>6
  <2> QED BY <2>5, <2>6
<1>10. ASSUME NEW j \in 0 .. ScanItems
       PROVE  Read16(n, ListAt(j)) = Read16(m, ListAt(j))
  <2>1. HalfAt(ListAt(j), Address) /\ ListAt(j) \in Nat /\ ListAt(j) + 1 < BadBlkBmp
    BY ListPlace
  <2>2. Aligned(ListAt(j)) <= ListAt(j) /\ Aligned(ListAt(j)) \in Nat
    BY <2>1 DEF HalfAt, Aligned
  <2>3. a # Aligned(ListAt(j))
    BY <1>2, <2>1, <2>2, Layout
  <2> QED
    BY <1>1, <1>2, <2>1, <2>3, BitApart DEF a, n
<1> QED
  BY <1>3, <1>9, <1>10 DEF n, ListKept

(* The list as it comes from flash. *)
LEMMA ListFromFlash ==
    ASSUME NEW m, IsMem(m, Address), NEW words \in [0 .. ScanItems -> Half]
    PROVE  LET n == Dma(m, TempBuf, words)
           IN  /\ BitsKept(m, n)
               /\ \A k \in 0 .. ScanItems : Read16(n, ListAt(k)) = words[k]
<1> DEFINE n == Dma(m, TempBuf, words)
           hit(x) == {k \in 0 .. ScanItems : x \in {Real(ListAt(k)), Real(ListAt(k) + 1)}}
<1>1. DOMAIN m = Address /\ ScanItems \in Nat /\ DOMAIN words = 0 .. ScanItems
  BY SizesAssumption DEF IsMem
<1>2. \A k \in 0 .. ScanItems : TempBuf + 2 * k = ListAt(k) /\ TempBuf + 2 * k + 1 = ListAt(k) + 1
  BY DEF ListAt
<1>3. ASSUME NEW x \in Address
      PROVE  n[x] = IF hit(x) = {} THEN m[x]
                    ELSE IF x = Real(TempBuf + 2 * Min(hit(x))) THEN words[Min(hit(x))] % 256
                         ELSE words[Min(hit(x))] \div 256
  <2>1. {k \in DOMAIN words : x \in {Real(TempBuf + 2 * k), Real(TempBuf + 2 * k + 1)}} = hit(x)
    BY <1>1, <1>2
  <2> HIDE DEF hit
  <2> QED
    BY <1>1, <2>1 DEF Dma
<1> HIDE DEF n, hit
<1>4. ASSUME NEW k \in 0 .. ScanItems, NEW j \in 0 .. ScanItems
      PROVE  /\ Real(ListAt(k)) \in Nat /\ Real(ListAt(k) + 1) = Real(ListAt(k)) + 1
             /\ k # j => /\ Real(ListAt(k)) # Real(ListAt(j))
                         /\ Real(ListAt(k)) # Real(ListAt(j) + 1)
                         /\ Real(ListAt(k) + 1) # Real(ListAt(j) + 1)
  <2> DEFINE a == ListAt(k)
             b == ListAt(j)
  <2>1. a = 2 * k /\ b = 2 * j
    BY DEF ListAt, TempBuf
  <2> HIDE DEF a, b
  <2>2. /\ a \in Nat /\ b \in Nat
        /\ k # j => a + 1 < b \/ b + 1 < a
    BY <1>1, <2>1
  <2>3. \A c, d \in {a, a + 1, b, b + 1} : Real(c) \in Nat /\ (c < d => Real(c) < Real(d))
    BY <2>2, RealMonotone
  <2>4. k # j => Real(a) # Real(b) /\ Real(a) # Real(b + 1) /\ Real(a + 1) # Real(b + 1)
    BY <2>2, <2>3
  <2>5. Real(a + 1) = Real(a) + 1
    <3>1. a % 2 = 0
      BY <2>1, <1>1
    <3>2. /\ Aligned(a) \in Nat /\ Aligned(a) % 4 = 0 /\ a % 4 \in {0, 2} /\ a = Aligned(a) + (a % 4)
      BY <2>2, <3>1, AlignedParts
    <3> DEFINE c == Aligned(a)
               o == a % 4
    <3> HIDE DEF c, o
    <3>3. Real(c + o) = Real(c) + o /\ Real(c + (o + 1)) = Real(c) + (o + 1)
      BY <3>2, RealInWord DEF c, o
    <3>4. a = c + o /\ a + 1 = c + (o + 1) /\ o \in {0, 2} /\ Real(c) \in Nat
      BY <3>2, RealMonotone DEF c, o
    <3> QED BY <3>3, <3>4
  <2> QED
    BY <2>2, <2>3, <2>4, <2>5 DEF a, b
<1>5. ASSUME NEW k \in 0 .. ScanItems
      PROVE  Read16(n, ListAt(k)) = words[k]
  <2> DEFINE a == ListAt(k)
             c == Aligned(a)
             o == a % 4
  <2>1. a \in Nat /\ a % 2 = 0 /\ HalfAt(a, Address)
    BY ListPlace
  <2>2. c \in Nat /\ c % 4 = 0 /\ o \in {0, 2} /\ a = c + o /\ WordIn(c, Address)
    BY <2>1, AlignedParts DEF HalfAt
  <2>3. Real(a) \in Nat /\ Real(a + 1) = Real(a) + 1
    BY <1>4
  <2>4. Min(hit(Real(a))) = k /\ hit(Real(a)) # {} /\ Min(hit(Real(a) + 1)) = k /\ hit(Real(a) + 1) # {}
    <3>1. hit(Real(a)) = {k} /\ hit(Real(a) + 1) = {k}
      <4>1. \A j \in 0 .. ScanItems : j \in hit(Real(a)) <=> j = k
        <5> TAKE j \in 0 .. ScanItems
        <5>1. k # j => Real(a) # Real(ListAt(j)) /\ Real(a) # Real(ListAt(j) + 1)
          BY <1>4
        <5> QED BY <5>1 DEF hit
      <4>2. \A j \in 0 .. ScanItems : j \in hit(Real(a) + 1) <=> j = k
        <5> TAKE j \in 0 .. ScanItems
        <5>1. k # j => Real(a + 1) # Real(ListAt(j)) /\ Real(a + 1) # Real(ListAt(j) + 1)
          BY <1>4
        <5> QED BY <5>1, <2>3 DEF hit
      <4> QED BY <4>1, <4>2 DEF hit
    <3>2. {k} \in SUBSET Nat
      BY <1>1
    <3> QED BY <3>1, <3>2, MinIsLeast
  <2> HIDE DEF a, c, o
  <2>5. Real(a) = Real(c) + o /\ Real(a) + 1 = Real(c) + (o + 1) /\ Real(c) \in Nat
    <3>1. o \in 0 .. 3 /\ Real(c) \in Nat
      BY <2>2, RealMonotone
    <3>2. Real(c + o) = Real(c) + o
      BY <2>2, <3>1, RealInWord
    <3> QED BY <2>2, <3>1, <3>2
  <2>6. Real(a) \in Address /\ Real(a) + 1 \in Address
    <3>1. Real(a) \in Real(c) .. Real(c) + 3 /\ Real(a) + 1 \in Real(c) .. Real(c) + 3
      BY <2>2, <2>5
    <3> QED BY <2>2, <3>1 DEF WordIn
  <2>7. words[k] \in Half
    OBVIOUS
  <2>8. n[Real(a)] = words[k] % 256
    BY <1>2, <1>3, <2>4, <2>6 DEF a
  <2>9. n[Real(a) + 1] = words[k] \div 256
    <3>1. Real(a) + 1 # Real(TempBuf + 2 * k)
      BY <1>2, <2>3 DEF a
    <3> QED BY <1>3, <2>4, <2>6, <3>1
  <2>10. Load(n, c)[o] = words[k] % 256 /\ Load(n, c)[o + 1] = words[k] \div 256
    BY <2>2, <2>5, <2>8, <2>9 DEF Load
  <2>11. HalfIn(Load(n, c), o) = (words[k] % 256) + 256 * (words[k] \div 256)
    BY <2>2, <2>10 DEF HalfIn
  <2> DEFINE v == words[k]
  <2>12. v \in Half
    BY <2>7
  <2> HIDE DEF v
  <2>13. (v % 256) + 256 * (v \div 256) = v
    BY <2>12, HalfParts
  <2> QED
    BY <2>11, <2>13 DEF Read16, a, c, o, v
<1>6. ASSUME NEW a, WordIn(a, Address), BadBlkBmp <= a, a < LogBmt
      PROVE  Load(n, a) = Load(m, a)
  <2>1. a \in Nat /\ Real(BadBlkBmp) <= Real(a) /\ Real(a) \in Nat /\ Real(BadBlkBmp) \in Nat
    BY <1>6, Layout, RealMonotone DEF WordIn
  <2>2. \A k \in 0 .. ScanItems : /\ Real(ListAt(k)) \in Nat
                                  /\ Real(ListAt(k) + 1) = Real(ListAt(k)) + 1
                                  /\ Real(ListAt(k) + 1) < Real(BadBlkBmp)
    <3> TAKE k \in 0 .. ScanItems
    <3>1. ListAt(k) \in Nat /\ ListAt(k) + 1 < BadBlkBmp /\ BadBlkBmp \in Nat
      BY ListPlace, Layout
    <3> QED BY <3>1, <1>4, RealMonotone
  <2>3. ASSUME NEW o \in 0 .. 3
        PROVE  n[Real(a) + o] = m[Real(a) + o]
    <3>1. Real(a) + o \in Address
      BY <1>6, <2>1 DEF WordIn
    <3>2. hit(Real(a) + o) = {}
      BY <2>1, <2>2 DEF hit
    <3> QED BY <1>3, <3>1, <3>2
  <2> QED
    BY <2>3 DEF Load
<1>7. BitsKept(m, n)
  BY <1>6, WordsKeepBits
<1> QED
  BY <1>5, <1>7 DEF n

(* An entry is written over, the others stay. *)
LEMMA EntryWritten ==
    ASSUME NEW m \in [Address -> Byte], NEW k \in 0 .. ScanItems, NEW v \in Half
    PROVE  LET n == Write16(m, ListAt(k), v)
           IN  /\ n \in [Address -> Byte]
               /\ BitsKept(m, n)
               /\ \A j \in 0 .. ScanItems :
                     Read16(n, ListAt(j)) = IF j = k THEN v ELSE Read16(m, ListAt(j))
<1>1. IsMem(m, Address) /\ v \in Nat
  BY HalfRange DEF IsMem
<1>2. \A j \in 0 .. ScanItems : HalfAt(ListAt(j), Address) /\ (j # k => ListAt(j) # ListAt(k))
  BY ListPlace, SizesAssumption DEF ListAt, TempBuf
<1>3. Write16(m, ListAt(k), v) \in [Address -> Byte]
  BY <1>2, WriteIsBytes
<1> QED
  BY <1>1, <1>2, <1>3, EntryKeepsBits, HalfwordsAreMemory

-----------------------------------------------------------------------------
(* Types, the list and the bitmap: one lemma for each part of the firmware. *)

Working == {"tables", "bank", "free", "log", "ready"}

MapInv == Inv /\ TypeOK /\ ListInv /\ BitmapInv

(* The bit of the chip, taken off, leaves a halfword. *)
LEMMA LowBits == \A x \in Half : x % 32768 \in Half
<1> TAKE x \in Half
<1>1. x \in Nat
  BY HalfRange
<1>2. x % 32768 \in Int /\ 0 <= x % 32768 /\ x % 32768 <= 65535
  BY <1>1
<1> QED
  BY <1>2, HalfRange

LEMMA PageParts ==
    ASSUME TypeOK, NEW b \in Bank
    PROVE  /\ page[b].words \in [0 .. ScanItems -> Half] /\ page[b].corrupt \in BOOLEAN
           /\ Accepted(page[b]) => /\ page[b].words[0] \in 0 .. ScanItems
                                   /\ \A k \in 1 .. page[b].words[0] :
                                         /\ page[b].words[k] % 32768 \in 1 .. PBlks - 1
                                         /\ page[b].words[k] \in Half
                                         /\ page[b].words[k] % 32768 \in Half
<1>1. page[b].words \in [0 .. ScanItems -> Half] /\ page[b].corrupt \in BOOLEAN
  BY DEF TypeOK, PageType
<1>2. ASSUME Accepted(page[b])
      PROVE  /\ page[b].words[0] \in 0 .. ScanItems
             /\ \A k \in 1 .. page[b].words[0] : /\ page[b].words[k] % 32768 \in 1 .. PBlks - 1
                                                 /\ page[b].words[k] \in Half
                                                 /\ page[b].words[k] % 32768 \in Half
  <2> DEFINE w == page[b].words
             n == w[0]
  <2>1. ScanItems \in Nat /\ 0 \in 0 .. ScanItems
    BY SizesAssumption
  <2>2. n \in Half /\ n <= ScanItems
    BY <1>1, <1>2, <2>1 DEF Accepted
  <2>3. \A k \in 1 .. n : w[k] % 32768 \in 1 .. PBlks - 1
    BY <1>2 DEF Accepted, Listed
  <2>4. w \in [0 .. ScanItems -> Half]
    BY <1>1
  <2> HIDE DEF w, n
  <2>5. n \in 0 .. ScanItems
    BY <2>1, <2>2, HalfRange
  <2>6. \A k \in 1 .. n : w[k] \in Half
    BY <2>1, <2>4, <2>5
  <2> QED
    BY <2>3, <2>5, <2>6, LowBits DEF w, n
<1> QED
  BY <1>1, <1>2

LEMMA MemParts ==
    ASSUME TypeOK
    PROVE  /\ mem \in [Address -> Byte] /\ IsMem(mem, Address)
           /\ \A k \in 0 .. ScanItems : Read16(mem, ListAt(k)) \in Half
           /\ \A c \in AnyCell : Read16(mem, c) \in Half
BY ReadIsHalf, ListPlace, CellPlace DEF TypeOK, IsMem

(* Once the bitmap is built, nothing but a failed erase changes it. *)
LEMMA BitmapStays ==
    ASSUME BitmapInv, at \in Working, at' \in Working, at' = "tables" => at = "tables",
           BitsKept(mem, mem'), UNCHANGED <<page, failed>>
    PROVE  BitmapInv' /\ ListInv'
<1>1. ListInv'
  BY DEF ListInv, Working
<1>2. \A b \in Bank : \A v \in 1 .. VBlks - 1 : IsBad(b, v)' <=> IsBad(b, v)
  BY Sizes DEF BitsKept, IsBit, IsBad, VBlk
<1>3. \A b \in Bank : MarkedTo(b) = VBlks /\ MarkedTo(b)' = VBlks
  BY DEF MarkedTo, Working, Scanning
<1>4. \A b, v : Accepted(page[b])' = Accepted(page[b]) /\ Bad(b, v)' = Bad(b, v)
  BY DEF Accepted, Bad, Listed
<1>5. BitmapInv'
  BY <1>2, <1>3, <1>4 DEF BitmapInv, Working, Scanning
<1> QED
  BY <1>1, <1>5

LEMMA MapBoot == MapInv /\ Boot => TypeOK' /\ ListInv' /\ BitmapInv'
<1> SUFFICES ASSUME MapInv, Boot PROVE TypeOK' /\ ListInv' /\ BitmapInv'
  OBVIOUS
<1> USE DEF MapInv
<1>1. /\ at = "off" /\ at' = "read" /\ bank' = 0
      /\ UNCHANGED <<page, i, num, result, vblk, lbn, isrFlag, head, tail, gc, failed>>
  BY DEF Boot
<1>2. mem' = Fill(mem, BadBlkBmp, 0, BmpBytes)
  BY DEF Boot
<1>3. mem' \in [Address -> Byte]
  BY <1>2, FillIsBytes DEF TypeOK
<1>4. TypeOK'
  <2>1. 0 \in Bank
    BY Sizes DEF Bank
  <2> QED BY <1>1, <1>3, <2>1 DEF TypeOK
<1>5. ListInv'
  BY <1>1 DEF ListInv
<1>6. \A b \in Bank : \A v \in 1 .. VBlks - 1 : ~ IsBad(b, v)'
  BY <1>2, FillClearsBits, MemParts, Sizes DEF IsBit, IsBad, VBlk
<1>7. \A b \in Bank : MarkedTo(b)' = 1
  BY <1>1, Sizes DEF MarkedTo, Scanning, Bank
<1>8. BitmapInv'
  BY <1>1, <1>6, <1>7, Sizes DEF BitmapInv, Scanning
<1> QED
  BY <1>4, <1>5, <1>8

(* What happens to the list does not happen to the bitmap. *)
LEMMA ScanStays ==
    ASSUME BitmapInv, at \in Scanning, at' \in Scanning, BitsKept(mem, mem'),
           UNCHANGED <<page, failed, bank>>, \A b \in Bank : MarkedTo(b)' = MarkedTo(b)
    PROVE  BitmapInv'
<1>1. \A b \in Bank : \A v \in 1 .. VBlks - 1 : IsBad(b, v)' <=> IsBad(b, v)
  BY Sizes DEF BitsKept, IsBit, IsBad, VBlk
<1>2. \A b, v : Accepted(page[b])' = Accepted(page[b]) /\ Bad(b, v)' = Bad(b, v)
  BY DEF Accepted, Bad, Listed
<1> QED
  BY <1>1, <1>2 DEF BitmapInv, Scanning

LEMMA MapReadList == MapInv /\ ReadList => TypeOK' /\ ListInv' /\ BitmapInv'
<1> SUFFICES ASSUME MapInv, ReadList PROVE TypeOK' /\ ListInv' /\ BitmapInv'
  OBVIOUS
<1> USE DEF MapInv
<1> DEFINE words == page[bank].words
<1>1. /\ at = "read" /\ at' = "check"
      /\ UNCHANGED <<page, bank, vblk, lbn, isrFlag, head, tail, gc, failed>>
  BY DEF ReadList
<1>2. mem' = Dma(mem, TempBuf, words) /\ bank \in Bank
  BY DEF ReadList, TypeOK
<1>3. words \in [0 .. ScanItems -> Half] /\ ScanItems \in Nat
  BY <1>2, PageParts, SizesAssumption
<1> HIDE DEF words
<1>4. mem' \in [Address -> Byte]
  BY <1>2, <1>3, DmaIsBytes DEF TypeOK
<1>5. BitsKept(mem, mem') /\ \A k \in 0 .. ScanItems : Read16(mem', ListAt(k)) = words[k]
  BY <1>2, <1>3, MemParts, ListFromFlash
<1>6. Read16(mem', TempBuf) = words[0] /\ words[0] \in Half
  <2>1. ListAt(0) = TempBuf /\ 0 \in 0 .. ScanItems
    BY <1>3 DEF ListAt, TempBuf
  <2> QED BY <1>3, <1>5, <2>1
<1> DEFINE n == words[0]
<1> HIDE DEF n
<1>7. \/ page[bank].corrupt /\ num' = 0 /\ result' = FALSE /\ i' = 0
      \/ ~page[bank].corrupt /\ n <= ScanItems /\ num' = n /\ result' = TRUE /\ i' = 0
      \/ ~page[bank].corrupt /\ ~ (n <= ScanItems) /\ num' = n /\ result' = FALSE /\ i' = n
  <2>1. IF page[bank].corrupt THEN num' = 0 /\ result' = FALSE
        ELSE num' = n /\ result' = (n <= ScanItems)
    BY <1>6 DEF ReadList, n
  <2>2. i' = IF result' THEN 0 ELSE num'
    BY DEF ReadList
  <2>3. CASE page[bank].corrupt
    BY <2>1, <2>2, <2>3
  <2>4. CASE ~page[bank].corrupt /\ n <= ScanItems
    <3>1. result' = TRUE
      BY <2>1, <2>4
    <3> QED BY <2>1, <2>2, <2>4, <3>1
  <2>5. CASE ~page[bank].corrupt /\ ~ (n <= ScanItems)
    <3>1. result' = (n <= ScanItems)
      BY <2>1, <2>5
    <3>2. (n <= ScanItems) = FALSE
      BY <2>5
    <3>3. result' = FALSE
      BY <3>1, <3>2
    <3> QED BY <2>1, <2>2, <2>5, <3>3
  <2> QED BY <2>3, <2>4, <2>5
<1>8. num' \in 0 .. NoBlk /\ i' \in 0 .. NoBlk /\ result' \in BOOLEAN /\ (i' < num' => num' <= ScanItems)
  <2>1. n \in Half
    BY <1>6 DEF n
  <2>2. n \in Nat
    BY <2>1, HalfRange
  <2>3. result' \in BOOLEAN
    BY <1>7
  <2>4. num' \in 0 .. NoBlk /\ i' \in 0 .. NoBlk
    <3>1. 0 \in 0 .. NoBlk /\ n \in 0 .. NoBlk
      BY <2>1, HalfIsRange, HalfRange
    <3> QED BY <1>7, <3>1
  <2>5. i' < num' => num' <= ScanItems
    BY <1>3, <1>7, <2>2
  <2> QED BY <2>3, <2>4, <2>5
<1>9. TypeOK'
  BY <1>1, <1>4, <1>8 DEF TypeOK
<1>10. Accepted(page[bank]) =>
         /\ num' = words[0] /\ result' /\ i' = 0 /\ words[0] \in 0 .. ScanItems
  <2>1. Accepted(page[bank]) => ~page[bank].corrupt /\ words[0] <= ScanItems
    BY DEF Accepted, words
  <2>2. Accepted(page[bank]) => words[0] \in 0 .. ScanItems
    BY <1>2, PageParts DEF words
  <2> QED BY <1>7, <2>1, <2>2 DEF n
<1>11. ListInv'
  <2>1. Accepted(page[bank])' => Accepted(page[bank]) /\ page'[bank'].words = words
    BY <1>1 DEF Accepted, Listed, words
  <2>2. Accepted(page[bank]) => \A k \in 1 .. words[0] : Read16(mem', ListAt(k)) = words[k] /\ 0 < k
    BY <1>3, <1>5, <1>10
  <2> QED
    BY <1>1, <1>8, <1>10, <2>1, <2>2 DEF ListInv
<1>12. \A b \in Bank : MarkedTo(b)' = MarkedTo(b)
  BY <1>1 DEF MarkedTo, Scanning
<1>13. BitmapInv'
  BY <1>1, <1>5, <1>12, ScanStays DEF Scanning
<1> QED
  BY <1>9, <1>11, <1>13

(* The next entry is in the list. *)
LEMMA NextEntry ==
    ASSUME NEW n \in 0 .. NoBlk, NEW j \in 0 .. NoBlk, j < n, n <= ScanItems
    PROVE  /\ j + 1 \in 1 .. ScanItems /\ j + 1 \in 0 .. ScanItems /\ j + 1 \in 0 .. NoBlk
           /\ TempBuf + 2 + 2 * j = ListAt(j + 1)
<1>1. ScanItems \in Nat /\ n \in Nat /\ j \in Nat /\ NoBlk \in Nat /\ n <= NoBlk
  <2>1. ScanItems \in Nat
    BY SizesAssumption
  <2>2. NoBlk \in Nat
    BY NoBlkIsNat
  <2> QED BY <2>1, <2>2
<1>2. j + 1 \in 1 .. ScanItems /\ j + 1 \in 0 .. ScanItems /\ j + 1 \in 0 .. NoBlk
  BY <1>1
<1>3. TempBuf + 2 + 2 * j = ListAt(j + 1)
  BY <1>1 DEF ListAt, TempBuf
<1> QED
  BY <1>2, <1>3

LEMMA MapCheckEntry == MapInv /\ CheckEntry => TypeOK' /\ ListInv' /\ BitmapInv'
<1> SUFFICES ASSUME MapInv, CheckEntry PROVE TypeOK' /\ ListInv' /\ BitmapInv'
  OBVIOUS
<1> USE DEF MapInv
<1> DEFINE e == Entry(mem, i)
           refused == e = 0 \/ e >= PBlks
<1>1. /\ at = "check" /\ at' = "check" /\ i < num /\ i' = i + 1
      /\ UNCHANGED <<page, bank, num, vblk, lbn, isrFlag, head, tail, gc, failed>>
  BY DEF CheckEntry
<1>2. /\ i \in 0 .. NoBlk /\ num \in 0 .. NoBlk /\ bank \in Bank /\ result \in BOOLEAN
      /\ num <= ScanItems /\ ScanItems \in Nat
  BY <1>1, SizesAssumption DEF TypeOK, ListInv
<1>3. i + 1 \in 0 .. ScanItems /\ i + 1 \in 0 .. NoBlk /\ TempBuf + 2 + 2 * i = ListAt(i + 1)
  BY <1>1, <1>2, NextEntry
<1>4. e = Read16(mem, ListAt(i + 1)) % 32768 /\ e \in Half
  <2>1. e = Read16(mem, ListAt(i + 1)) % 32768
    BY <1>3 DEF Entry
  <2>2. Read16(mem, ListAt(i + 1)) \in Half
    BY <1>3, MemParts
  <2> QED BY <2>1, <2>2, LowBits
<1>5. IF refused THEN result' = FALSE /\ mem' = mem
      ELSE mem' = Write16(mem, ListAt(i + 1), e) /\ result' = result
  BY <1>3 DEF CheckEntry
<1> HIDE DEF e, refused
<1>6. /\ mem' \in [Address -> Byte]
      /\ BitsKept(mem, mem')
      /\ ~refused => \A k \in 0 .. ScanItems :
            Read16(mem', ListAt(k)) = IF k = i + 1 THEN e ELSE Read16(mem, ListAt(k))
  <2>1. BitsKept(mem, mem)
    BY DEF BitsKept
  <2> QED BY <1>3, <1>4, <1>5, <2>1, MemParts, EntryWritten
<1>7. TypeOK'
  BY <1>1, <1>2, <1>3, <1>5, <1>6 DEF TypeOK
<1>8. ASSUME Accepted(page[bank])
      PROVE  /\ num = page[bank].words[0] /\ result' /\ i' <= num
             /\ \A k \in 1 .. num : Read16(mem', ListAt(k)) =
                   IF i' < k THEN page[bank].words[k] ELSE page[bank].words[k] % 32768
  <2> DEFINE words == page[bank].words
  <2>1. /\ num = words[0] /\ result
        /\ \A k \in 1 .. num :
              Read16(mem, ListAt(k)) = IF i < k THEN words[k] ELSE words[k] % 32768
    BY <1>1, <1>8 DEF ListInv
  <2>2. i + 1 \in 1 .. num /\ i < i + 1
    BY <1>1, <1>2
  <2>3. e = words[i + 1] % 32768
    BY <1>4, <2>1, <2>2
  <2>4. e \in 1 .. PBlks - 1 /\ PBlks \in Nat
    BY <1>2, <1>8, <2>1, <2>2, <2>3, PageParts, Sizes DEF PBlks
  <2>5. ~refused
    BY <2>4 DEF refused
  <2>6. ASSUME NEW k \in 1 .. num
        PROVE  Read16(mem', ListAt(k)) = IF i + 1 < k THEN words[k] ELSE words[k] % 32768
    <3>1. k \in 0 .. ScanItems
      BY <1>2
    <3>2. Read16(mem', ListAt(k)) = IF k = i + 1 THEN e ELSE Read16(mem, ListAt(k))
      BY <1>6, <2>5, <3>1
    <3>3. CASE k = i + 1
      <4>1. ~ (i + 1 < k)
        BY <3>3, <1>2
      <4> QED BY <2>3, <3>2, <3>3, <4>1
    <3>4. CASE k # i + 1
      <4>1. i + 1 < k <=> i < k
        BY <3>4, <1>2
      <4> QED BY <2>1, <3>2, <3>4, <4>1
    <3> QED BY <3>3, <3>4
  <2>7. i + 1 <= num
    BY <1>1, <1>2
  <2> QED
    BY <1>1, <1>5, <2>1, <2>5, <2>6, <2>7
<1>9. ListInv'
  <2>1. Accepted(page[bank])' => Accepted(page[bank])
    BY <1>1 DEF Accepted, Listed
  <2> QED BY <1>1, <1>2, <1>8, <2>1 DEF ListInv
<1>10. \A b \in Bank : MarkedTo(b)' = MarkedTo(b)
  BY <1>1 DEF MarkedTo, Scanning
<1>11. BitmapInv'
  BY <1>1, <1>6, <1>10, ScanStays DEF Scanning
<1> QED
  BY <1>7, <1>9, <1>11

LEMMA MapEndCheck == MapInv /\ EndCheck => TypeOK' /\ ListInv' /\ BitmapInv'
<1> SUFFICES ASSUME MapInv, EndCheck PROVE TypeOK' /\ ListInv' /\ BitmapInv'
  OBVIOUS
<1> USE DEF MapInv
<1>1. /\ at = "check" /\ at' = "mark" /\ i >= num /\ vblk' = 1
      /\ UNCHANGED <<page, bank, i, result, lbn, isrFlag, head, tail, gc, failed>>
  BY DEF EndCheck
<1>2. /\ i \in 0 .. NoBlk /\ num \in 0 .. NoBlk /\ bank \in Bank /\ result \in BOOLEAN
      /\ ScanItems \in Nat
  BY SizesAssumption DEF TypeOK
<1>3. 0 \in 0 .. ScanItems /\ 0 \in Half /\ TempBuf = ListAt(0)
  BY <1>2, HalfRange DEF ListAt, TempBuf
<1>4. IF result THEN mem' = Write16(mem, ListAt(0), 0) /\ num' = num
      ELSE num' = 0 /\ mem' = mem
  BY <1>3 DEF EndCheck
<1>5. /\ mem' \in [Address -> Byte]
      /\ BitsKept(mem, mem')
      /\ result => \A k \in 0 .. ScanItems :
            Read16(mem', ListAt(k)) = IF k = 0 THEN 0 ELSE Read16(mem, ListAt(k))
  <2>1. BitsKept(mem, mem)
    BY DEF BitsKept
  <2> QED BY <1>3, <1>4, <2>1, MemParts, EntryWritten
<1>6. TypeOK'
  <2>1. num' \in 0 .. NoBlk /\ vblk' \in 0 .. VBlks
    <3>1. 0 \in 0 .. NoBlk
      BY NoBlkIsNat
    <3>2. 1 \in 0 .. VBlks
      BY Sizes
    <3> QED BY <1>1, <1>2, <1>4, <3>1, <3>2
  <2> QED BY <1>1, <1>5, <2>1 DEF TypeOK
<1>7. ASSUME Accepted(page[bank])
      PROVE  /\ num' = page[bank].words[0]
             /\ Read16(mem', ListAt(0)) = 0
             /\ \A k \in 1 .. num' : Read16(mem', ListAt(k)) = page[bank].words[k] % 32768
  <2> DEFINE words == page[bank].words
  <2>1. /\ num = words[0] /\ result /\ i <= num
        /\ \A k \in 1 .. num :
              Read16(mem, ListAt(k)) = IF i < k THEN words[k] ELSE words[k] % 32768
    BY <1>1, <1>7 DEF ListInv
  <2>2. num' = num /\ num \in 0 .. ScanItems
    BY <1>2, <1>4, <1>7, <2>1, PageParts
  <2>3. Read16(mem', ListAt(0)) = 0
    BY <1>3, <1>5, <2>1
  <2>4. ASSUME NEW k \in 1 .. num
        PROVE  Read16(mem', ListAt(k)) = words[k] % 32768
    <3>1. k \in 0 .. ScanItems /\ k # 0 /\ ~ (i < k)
      BY <1>1, <1>2, <2>1, <2>2
    <3> QED BY <1>5, <2>1, <3>1
  <2> QED
    BY <2>1, <2>2, <2>3, <2>4
<1>8. ListInv'
  <2>1. Accepted(page[bank])' => Accepted(page[bank])
    BY <1>1 DEF Accepted, Listed
  <2> QED BY <1>1, <1>7, <2>1 DEF ListInv
<1>9. \A b \in Bank : MarkedTo(b)' = MarkedTo(b)
  BY <1>1 DEF MarkedTo, Scanning
<1>10. BitmapInv'
  BY <1>1, <1>5, <1>9, ScanStays DEF Scanning
<1> QED
  BY <1>6, <1>8, <1>10

(* A search of the list finds what page 0 says. *)
LEMMA ListSearched ==
    ASSUME MapInv, at = "mark", Accepted(page[bank]), NEW p \in Nat, p > 0
    PROVE  InList(p) <=> p \in Listed(page[bank])
<1> USE DEF MapInv
<1> DEFINE words == page[bank].words
           hits == {o \in 0 .. (num + 1) - 1 : Read16(mem, TempBuf + 2 * o) = p}
<1>1. /\ num = words[0] /\ Read16(mem, ListAt(0)) = 0
      /\ \A k \in 1 .. num : Read16(mem, ListAt(k)) = words[k] % 32768
  BY DEF ListInv
<1>2. num \in 0 .. NoBlk
  BY DEF TypeOK
<1>3. SearchEqu(mem, TempBuf, num + 1, p) = IF hits = {} THEN num + 1 ELSE Min(hits)
  BY <1>2 DEF SearchEqu
<1>4. \A o \in 0 .. num : TempBuf + 2 * o = ListAt(o)
  BY DEF ListAt
<1>5. \A o : o \in hits <=> o \in 1 .. num /\ words[o] % 32768 = p
  <2> TAKE o
  <2>1. o \in 0 .. (num + 1) - 1 <=> o = 0 \/ o \in 1 .. num
    BY <1>2
  <2>2. 0 \in 0 .. num /\ 1 .. num \subseteq 0 .. num
    BY <1>2
  <2> QED BY <1>1, <1>4, <2>1, <2>2
<1>6. hits # {} => Min(hits) \in hits
  <2>1. hits \in SUBSET Nat
    BY <1>2
  <2> HIDE DEF hits
  <2> QED BY <2>1, MinIsLeast
<1> HIDE DEF hits
<1>7. InList(p) <=> hits # {}
  <2>1. hits # {} => Min(hits) < num + 1
    BY <1>2, <1>5, <1>6
  <2>2. ~ (num + 1 < num + 1)
    BY <1>2
  <2> QED BY <1>3, <2>1, <2>2 DEF InList
<1>8. hits # {} <=> p \in Listed(page[bank])
  BY <1>1, <1>5 DEF Listed
<1> QED
  BY <1>7, <1>8

LEMMA MapMarkBlk == MapInv /\ MarkBlk => TypeOK' /\ ListInv' /\ BitmapInv'
<1> SUFFICES ASSUME MapInv, MarkBlk PROVE TypeOK' /\ ListInv' /\ BitmapInv'
  OBVIOUS
<1> USE DEF MapInv
<1> DEFINE listed == InList(2 * vblk) \/ InList(2 * vblk + 1)
<1>1. /\ at = "mark" /\ at' = "mark" /\ vblk < VBlks /\ vblk' = vblk + 1
      /\ UNCHANGED <<page, bank, i, num, result, lbn, isrFlag, head, tail, gc, failed>>
  BY DEF MarkBlk
<1>2. /\ vblk \in 1 .. VBlks - 1 /\ vblk \in VBlk /\ bank \in Bank /\ ScanItems \in Nat
      /\ num \in 0 .. NoBlk
  BY <1>1, SizesAssumption DEF TypeOK, ListInv, VBlk
<1>3. mem' = IF listed THEN SetBit(mem, BmpOf(bank), vblk) ELSE mem
  BY DEF MarkBlk
<1> HIDE DEF listed
<1>4. /\ mem' \in [Address -> Byte]
      /\ ListKept(mem, mem')
      /\ \A c \in Bank, u \in VBlk :
            IsBit(mem', c, u) <=> IsBit(mem, c, u) \/ (listed /\ c = bank /\ u = vblk)
  <2>1. CASE listed
    BY <1>2, <1>3, <2>1, BitMarked, MemParts
  <2>2. CASE ~listed
    BY <1>3, <2>2, MemParts DEF ListKept
  <2> QED BY <2>1, <2>2
<1>5. TypeOK'
  <2>1. vblk' \in 0 .. VBlks
    BY <1>1, <1>2, Sizes
  <2> QED BY <1>1, <1>4, <2>1 DEF TypeOK
<1>6. ListInv'
  <2>1. Accepted(page[bank])' => Accepted(page[bank])
    BY <1>1 DEF Accepted, Listed
  <2>2. vblk' >= 1
    BY <1>1, <1>2
  <2>3. Accepted(page[bank]) => num \in 0 .. ScanItems
    BY <1>1, <1>2, PageParts DEF ListInv
  <2>4. Accepted(page[bank]) =>
          /\ Read16(mem', ListAt(0)) = Read16(mem, ListAt(0))
          /\ \A k \in 1 .. num : Read16(mem', ListAt(k)) = Read16(mem, ListAt(k))
    BY <1>2, <1>4, <2>3 DEF ListKept
  <2> QED BY <1>1, <2>1, <2>2, <2>4 DEF ListInv
<1>7. failed = {} /\ failed' = {}
  BY <1>1 DEF BitmapInv, Scanning
<1>8. ASSUME NEW b \in Bank, NEW v \in 1 .. VBlks - 1
      PROVE  IF v < MarkedTo(b)' THEN Accepted(page'[b]) => (IsBad(b, v)' <=> Bad(b, v)')
             ELSE ~ IsBad(b, v)'
  <2>1. v \in VBlk
    BY Sizes DEF VBlk
  <2>2. IsBad(b, v)' <=> IsBad(b, v) \/ (listed /\ b = bank /\ v = vblk)
    BY <1>4, <2>1 DEF IsBit, IsBad
  <2>3. IF v < MarkedTo(b) THEN Accepted(page[b]) => (IsBad(b, v) <=> Bad(b, v))
        ELSE ~ IsBad(b, v)
    BY <1>1 DEF BitmapInv
  <2>4. Bad(b, v)' <=> Bad(b, v)
    BY <1>1 DEF Bad, Listed
  <2>5. Accepted(page'[b]) <=> Accepted(page[b])
    BY <1>1
  <2>6. CASE b # bank
    <3>1. MarkedTo(b)' = MarkedTo(b)
      BY <1>1, <2>6 DEF MarkedTo, Scanning
    <3> QED BY <2>2, <2>3, <2>4, <2>5, <2>6, <3>1
  <2>7. CASE b = bank
    <3>1. MarkedTo(b) = vblk /\ MarkedTo(b)' = vblk + 1
      BY <1>1, <1>2, <2>7 DEF MarkedTo, Scanning, Bank
    <3>2. CASE v # vblk
      <4>1. v < vblk + 1 <=> v < vblk
        BY <1>2, <3>2
      <4> QED BY <2>2, <2>3, <2>4, <2>5, <3>1, <3>2, <4>1
    <3>3. CASE v = vblk
      <4>1. ~ IsBad(b, v)
        BY <1>2, <2>3, <3>1, <3>3
      <4>2. IsBad(b, v)' <=> listed
        BY <2>2, <2>7, <3>3, <4>1
      <4>3. Accepted(page[b]) => (listed <=> Bad(b, v))
        <5> SUFFICES ASSUME Accepted(page[b]) PROVE listed <=> Bad(b, v)
          OBVIOUS
        <5>1. 2 * vblk \in Nat /\ 2 * vblk > 0 /\ 2 * vblk + 1 \in Nat /\ 2 * vblk + 1 > 0
          BY <1>2, Sizes
        <5>2. listed <=> 2 * vblk \in Listed(page[b]) \/ 2 * vblk + 1 \in Listed(page[b])
          BY <1>1, <2>7, <5>1, ListSearched DEF listed
        <5>3. Bad(b, v) <=> 2 * v \in Listed(page[b]) \/ 2 * v + 1 \in Listed(page[b])
          BY <1>7 DEF Bad
        <5> QED BY <3>3, <5>2, <5>3
      <4>4. v < vblk + 1
        BY <1>2, <3>3
      <4> QED BY <2>4, <2>5, <3>1, <4>2, <4>3, <4>4
    <3> QED BY <3>2, <3>3
  <2> QED BY <2>6, <2>7
<1>9. BitmapInv'
  BY <1>1, <1>7, <1>8 DEF BitmapInv, Scanning
<1> QED
  BY <1>5, <1>6, <1>9

LEMMA MapEndMark == MapInv /\ EndMark => TypeOK' /\ ListInv' /\ BitmapInv'
<1> SUFFICES ASSUME MapInv, EndMark PROVE TypeOK' /\ ListInv' /\ BitmapInv'
  OBVIOUS
<1> USE DEF MapInv
<1>1. /\ at = "mark" /\ vblk >= VBlks /\ bank \in Bank /\ vblk \in 0 .. VBlks
      /\ \/ bank + 1 < NumBanks /\ at' = "read" /\ bank' = bank + 1
         \/ ~ (bank + 1 < NumBanks) /\ at' = "tables" /\ bank' = 0
      /\ UNCHANGED <<page, mem, i, num, result, vblk, lbn, isrFlag, head, tail, gc, failed>>
  BY DEF EndMark, TypeOK
<1>2. bank' \in Bank
  BY <1>1, Sizes DEF Bank
<1>3. TypeOK'
  BY <1>1, <1>2 DEF TypeOK
<1>4. ListInv'
  BY <1>1 DEF ListInv
<1>5. failed = {}
  BY <1>1 DEF BitmapInv, Scanning
<1>6. ASSUME NEW b \in Bank, NEW v \in 1 .. VBlks - 1
      PROVE  v < MarkedTo(b)' <=> v < MarkedTo(b)
  <2>1. VBlks \in Nat /\ v < VBlks /\ vblk = VBlks /\ ~ (v < 1)
    BY <1>1, Sizes
  <2>2. MarkedTo(b) = IF b > bank THEN 1 ELSE VBlks
    BY <1>1, <2>1 DEF MarkedTo, Scanning, Bank
  <2>3. MarkedTo(b)' = IF b > bank THEN 1 ELSE VBlks
    BY <1>1, Sizes DEF MarkedTo, Scanning, Bank
  <2> QED BY <2>2, <2>3
<1>7. \A b \in Bank : \A v \in 1 .. VBlks - 1 :
         (IsBad(b, v)' <=> IsBad(b, v)) /\ (Bad(b, v)' <=> Bad(b, v))
  BY <1>1 DEF IsBad, Bad, Listed
<1>8. \A b \in Bank : Accepted(page[b])' <=> Accepted(page[b])
  BY <1>1 DEF Accepted, Listed
<1>9. BitmapInv'
  BY <1>1, <1>5, <1>6, <1>7, <1>8 DEF BitmapInv, Scanning
<1> QED
  BY <1>3, <1>4, <1>9

(* The number of a block, and the mark of none, fit in a cell. *)
LEMMA BlockNumbers == NoBlk \in Half /\ \A v \in Nat : v < VBlks => v \in Half /\ v \in VBlk /\ v # NoBlk
BY Sizes, HalfIsRange, NoBlkIsNat DEF VBlk

LEMMA CellStored ==
    ASSUME TypeOK, NEW c \in AnyCell, NEW v \in Half, mem' = Write16(mem, c, v)
    PROVE  mem' \in [Address -> Byte] /\ BitsKept(mem, mem')
<1>1. mem \in [Address -> Byte] /\ IsMem(mem, Address)
  BY MemParts
<1> QED
  BY <1>1, CellPlace, CellKeepsBits, WriteIsBytes

LEMMA MapTables == MapInv /\ Tables => TypeOK' /\ ListInv' /\ BitmapInv'
<1> SUFFICES ASSUME MapInv, Tables PROVE TypeOK' /\ ListInv' /\ BitmapInv'
  OBVIOUS
<1> USE DEF MapInv
<1> DEFINE m == Fill(mem, LogBmt, 0, BmtBytes)
<1>1. /\ at = "tables" /\ at' = "bank" /\ mem' = Fill(m, FreeBmt, 0, FreeBytes)
      /\ UNCHANGED <<page, bank, i, num, result, vblk, lbn, isrFlag, head, tail, gc, failed>>
  BY DEF Tables, locals
<1>2. /\ LogBmt \in Nat /\ LogBmt % 4 = 0 /\ FreeBmt \in Nat /\ FreeBmt % 4 = 0
      /\ LogBmt <= LogBmt /\ LogBmt <= FreeBmt
  BY Layout
<1>3. m \in [Address -> Byte] /\ IsMem(m, Address) /\ BitsKept(mem, m)
  BY <1>2, MemParts, FillIsBytes, FillIsMem, FillKeepsBits
<1> HIDE DEF m
<1>4. mem' \in [Address -> Byte] /\ BitsKept(m, mem')
  BY <1>1, <1>2, <1>3, FillIsBytes, FillKeepsBits
<1>5. BitsKept(mem, mem')
  BY <1>3, <1>4 DEF BitsKept
<1>6. TypeOK'
  BY <1>1, <1>4 DEF TypeOK
<1> QED
  BY <1>1, <1>5, <1>6, BitmapStays DEF Working

LEMMA MapStartBank == MapInv /\ StartBank => TypeOK' /\ ListInv' /\ BitmapInv'
<1> SUFFICES ASSUME MapInv, StartBank PROVE TypeOK' /\ ListInv' /\ BitmapInv'
  OBVIOUS
<1> USE DEF MapInv
<1>1. /\ at = "bank" /\ at' = "free" /\ isrFlag' \in [Bank -> Int]
      /\ vblk' \in 0 .. VBlks /\ lbn' \in 0 .. LogBlks
      /\ UNCHANGED <<page, mem, bank, i, num, result, head, tail, gc, failed>>
  BY Sizes DEF StartBank, INVALID, TypeOK
<1>2. TypeOK'
  BY <1>1 DEF TypeOK
<1>3. BitsKept(mem, mem')
  BY <1>1 DEF BitsKept
<1> QED
  BY <1>1, <1>2, <1>3, BitmapStays DEF Working

(* The steps of format that leave the memory alone. *)
LEMMA MapFormatRest ==
    MapInv /\ (SkipBad \/ EndBank) => TypeOK' /\ ListInv' /\ BitmapInv'
<1> SUFFICES ASSUME MapInv, SkipBad \/ EndBank PROVE TypeOK' /\ ListInv' /\ BitmapInv'
  OBVIOUS
<1> USE DEF MapInv
<1>1. /\ at \in Working /\ at' \in Working /\ at' # "tables"
      /\ UNCHANGED <<page, mem, i, num, result, lbn, isrFlag, gc, failed>>
  BY DEF SkipBad, EndBank, Working
<1>2. TypeOK'
  <2>1. CASE SkipBad
    <3>1. vblk' \in 0 .. VBlks
      BY <2>1, Sizes DEF SkipBad, Candidate, TypeOK
    <3> QED BY <2>1, <3>1 DEF SkipBad, TypeOK
  <2>2. CASE EndBank
    <3>1. bank' \in Bank
      <4>1. bank \in Bank /\ (bank' = bank \/ (bank + 1 < NumBanks /\ bank' = bank + 1))
        BY <2>2 DEF EndBank, TypeOK
      <4> QED BY <4>1, Sizes DEF Bank
    <3>2. Zeros \in [Bank -> 0 .. FreeBlks - 1]
      BY Sizes DEF Zeros
    <3>3. /\ at' \in {"bank", "ready"} /\ vblk' = vblk
          /\ head' \in [Bank -> 0 .. FreeBlks - 1] /\ tail' \in [Bank -> 0 .. FreeBlks - 1]
      BY <2>2, <3>2 DEF EndBank, TypeOK
    <3> QED BY <1>1, <3>1, <3>3 DEF TypeOK
  <2> QED BY <2>1, <2>2
<1>3. BitsKept(mem, mem')
  BY <1>1 DEF BitsKept
<1> QED
  BY <1>1, <1>2, <1>3, BitmapStays

(* One block more is bad. *)
LEMMA BadAdded ==
    ASSUME page' = page, NEW c, NEW w, failed' = failed \cup {<<c, w>>}
    PROVE  \A b, v : Bad(b, v)' <=> Bad(b, v) \/ (b = c /\ v = w)
<1> DEFINE L(b, v) == {2 * v, 2 * v + 1} \cap Listed(page[b]) # {}
<1>1. \A b, v : Bad(b, v) <=> <<b, v>> \in failed \/ L(b, v)
  BY DEF Bad
<1>2. \A b, v : Bad(b, v)' <=> <<b, v>> \in failed' \/ L(b, v)
  BY DEF Bad, Listed
<1> HIDE DEF L
<1> QED
  BY <1>1, <1>2

LEMMA MapEraseFails == MapInv /\ EraseFails => TypeOK' /\ ListInv' /\ BitmapInv'
<1> SUFFICES ASSUME MapInv, EraseFails PROVE TypeOK' /\ ListInv' /\ BitmapInv'
  OBVIOUS
<1> USE DEF MapInv
<1>1. /\ at \in {"free", "log"} /\ bank \in Bank
      /\ vblk \in Nat /\ vblk' = vblk + 1 /\ vblk' < VBlks /\ Candidate = vblk'
      /\ vblk' \in 0 .. VBlks /\ vblk' \in VBlk
      /\ failed' = failed \cup {<<bank, vblk'>>}
      /\ UNCHANGED <<page, at, bank, i, num, result, lbn, head, tail, gc>>
  BY Sizes DEF EraseFails, Usable, Candidate, TypeOK, Inv, Search, VBlk
<1>2. isrFlag' \in [Bank -> Int] /\ mem' = SetBit(mem, BmpOf(bank), vblk')
  <2> DEFINE flag == AfterIsr(bank, "erase", Candidate)
  <2>1. flag \in [Bank -> Int] /\ flag[bank] = vblk'
    BY <1>1 DEF AfterIsr, TypeOK
  <2>2. mem' = SetBit(mem, BmpOf(bank), flag[bank]) /\ isrFlag' = [flag EXCEPT ![bank] = INVALID]
    BY DEF EraseFails
  <2>3. INVALID \in Int
    BY DEF INVALID
  <2> HIDE DEF flag
  <2>4. isrFlag' \in [Bank -> Int]
    BY <2>1, <2>2, <2>3
  <2> QED BY <2>1, <2>2, <2>4
<1>3. /\ mem' \in [Address -> Byte]
      /\ \A c \in Bank, u \in VBlk :
            IsBit(mem', c, u) <=> IsBit(mem, c, u) \/ (c = bank /\ u = vblk')
  BY <1>1, <1>2, MemParts, BitMarked
<1>4. TypeOK'
  <2>1. failed' \subseteq Bank \X VBlk
    BY <1>1 DEF TypeOK
  <2> QED BY <1>1, <1>2, <1>3, <2>1 DEF TypeOK
<1>5. ListInv'
  BY <1>1 DEF ListInv
<1>6. ASSUME NEW b \in Bank, NEW v \in 1 .. VBlks - 1, Accepted(page[b])
      PROVE  IsBad(b, v)' <=> Bad(b, v)'
  <2>1. IsBad(b, v) <=> Bad(b, v)
    <3>1. v < MarkedTo(b)
      BY <1>1, <1>6, Sizes DEF MarkedTo, Scanning
    <3> QED BY <1>1, <1>6, <3>1 DEF BitmapInv
  <2>2. v \in VBlk
    BY Sizes DEF VBlk
  <2>3. IsBad(b, v)' <=> IsBad(b, v) \/ (b = bank /\ v = vblk')
    BY <1>3, <2>2 DEF IsBit, IsBad
  <2>4. Bad(b, v)' <=> Bad(b, v) \/ (b = bank /\ v = vblk')
    BY <1>1, BadAdded
  <2> QED BY <2>1, <2>3, <2>4
<1>7. \A b \in Bank : MarkedTo(b)' = VBlks
  BY <1>1 DEF MarkedTo, Scanning
<1>8. \A b \in Bank : \A v \in 1 .. VBlks - 1 : v < VBlks
  BY Sizes
<1>9. \A b \in Bank : Accepted(page[b])' <=> Accepted(page[b])
  BY <1>1 DEF Accepted, Listed
<1>10. BitmapInv'
  BY <1>1, <1>6, <1>7, <1>8, <1>9 DEF BitmapInv, Scanning
<1> QED
  BY <1>4, <1>5, <1>10

LEMMA MapTakeFree == MapInv /\ TakeFree => TypeOK' /\ ListInv' /\ BitmapInv'
<1> SUFFICES ASSUME MapInv, TakeFree PROVE TypeOK' /\ ListInv' /\ BitmapInv'
  OBVIOUS
<1> USE DEF MapInv
<1>1. /\ at = "free" /\ at' \in {"free", "log"} /\ bank \in Bank
      /\ lbn \in 0 .. FreeBlks - 1 /\ head[bank] = lbn /\ vblk \in Nat
      /\ vblk' = vblk + 1 /\ vblk' \in Nat /\ vblk' < VBlks /\ Candidate = vblk'
      /\ UNCHANGED <<page, bank, i, num, result, isrFlag, tail, gc, failed>>
  BY DEF TakeFree, Usable, Candidate, Inv, Types, Search
<1>2. mem' = Write16(mem, FreeCell(bank, lbn), vblk') /\ head' = Advanced(head, bank)
  BY <1>1 DEF TakeFree, Returned
<1>3. mem' \in [Address -> Byte] /\ BitsKept(mem, mem')
  BY <1>1, <1>2, CellsOf, CellStored, BlockNumbers
<1>4. Advanced(head, bank) \in [Bank -> 0 .. FreeBlks - 1]
  BY <1>1, Sizes DEF Advanced, TypeOK
<1>5. lbn' \in (0 .. LogBlks) \cup (0 .. FreeBlks - 1)
  BY <1>1, Sizes DEF TakeFree
<1>6. TypeOK'
  <2>1. vblk' \in 0 .. VBlks
    BY <1>1, Sizes
  <2> QED BY <1>1, <1>2, <1>3, <1>4, <1>5, <2>1 DEF TypeOK
<1> QED
  BY <1>1, <1>3, <1>6, BitmapStays DEF Working

LEMMA MapTakeLog == MapInv /\ (TakeLog \/ NoneLeft) => TypeOK' /\ ListInv' /\ BitmapInv'
<1> SUFFICES ASSUME MapInv, TakeLog \/ NoneLeft PROVE TypeOK' /\ ListInv' /\ BitmapInv'
  OBVIOUS
<1> USE DEF MapInv
<1>1. /\ at = "log" /\ at' = "log" /\ bank \in Bank /\ lbn \in Lbn /\ lbn' \in 0 .. LogBlks
      /\ UNCHANGED <<page, bank, i, num, result, isrFlag, head, tail, gc, failed>>
  BY Sizes DEF TakeLog, NoneLeft, Inv, Types, Search, Lbn
<1>2. PICK v \in Half : mem' = Write16(mem, LogCell(bank, lbn), v) /\ vblk' \in 0 .. VBlks
  <2>1. vblk \in Nat /\ vblk < VBlks /\ VBlks \in Nat
    BY <1>1, Sizes DEF Inv, Search
  <2>2. CASE TakeLog
    <3>1. /\ mem' = Write16(mem, LogCell(bank, lbn), vblk + 1) /\ vblk' = vblk + 1
          /\ vblk + 1 < VBlks
      BY <2>2 DEF TakeLog, Usable, Candidate
    <3> QED BY <2>1, <3>1, BlockNumbers
  <2>3. CASE NoneLeft
    BY <2>1, <2>3, BlockNumbers DEF NoneLeft
  <2> QED BY <2>2, <2>3
<1>3. mem' \in [Address -> Byte] /\ BitsKept(mem, mem')
  BY <1>1, <1>2, CellsOf, CellStored
<1>4. TypeOK'
  BY <1>1, <1>2, <1>3 DEF TypeOK
<1> QED
  BY <1>1, <1>3, <1>4, BitmapStays DEF Working

LEMMA MapOverrun == MapInv /\ Overrun => TypeOK' /\ ListInv' /\ BitmapInv'
<1> SUFFICES ASSUME MapInv, Overrun PROVE TypeOK' /\ ListInv' /\ BitmapInv'
  OBVIOUS
<1> USE DEF MapInv
<1>1. at' = "overrun" /\ TypeOK'
  BY DEF Overrun, TypeOK, locals
<1>2. ListInv' /\ BitmapInv'
  BY <1>1 DEF ListInv, BitmapInv, Scanning
<1> QED
  BY <1>1, <1>2

LEMMA MapStartGc ==
    ASSUME MapInv, NEW b \in Bank, NEW l \in Lbn, StartGc(b, l)
    PROVE  TypeOK' /\ ListInv' /\ BitmapInv'
<1> USE DEF MapInv
<1> DEFINE e == [bank |-> b, lbn |-> l, vbn |-> GetLogVbn(b, l)]
<1>1. /\ at = "ready" /\ gc' = Append(gc, e)
      /\ UNCHANGED <<page, mem, at, bank, i, num, result, vblk, lbn, isrFlag, head, tail, failed>>
  BY DEF StartGc, locals
<1>2. e \in [bank : Bank, lbn : Lbn, vbn : Half]
  BY CellsOf, MemParts DEF GetLogVbn
<1> HIDE DEF e
<1>3. gc' \in Seq([bank : Bank, lbn : Lbn, vbn : Half])
  BY <1>1, <1>2 DEF TypeOK
<1>4. TypeOK'
  BY <1>1, <1>3 DEF TypeOK
<1>5. BitsKept(mem, mem')
  BY <1>1 DEF BitsKept
<1> QED
  BY <1>1, <1>4, <1>5, BitmapStays DEF Working

LEMMA MapEndGc == MapInv /\ EndGc => TypeOK' /\ ListInv' /\ BitmapInv'
<1> SUFFICES ASSUME MapInv, EndGc PROVE TypeOK' /\ ListInv' /\ BitmapInv'
  OBVIOUS
<1> USE DEF MapInv
<1> DEFINE e == gc[Len(gc)]
           x == LogCell(e.bank, e.lbn)
           y == FreeCell(e.bank, head[e.bank])
           free == Read16(mem, FreeCell(e.bank, tail[e.bank]))
           m == Write16(mem, x, free)
<1>1. /\ at = "ready" /\ gc' = SubSeq(gc, 1, Len(gc) - 1) /\ gc # << >>
      /\ mem' = Write16(m, y, e.vbn)
      /\ tail' = Advanced(tail, e.bank) /\ head' = Advanced(head, e.bank)
      /\ isrFlag' \in {isrFlag, AfterIsr(e.bank, "erase", e.vbn)}
      /\ UNCHANGED <<page, at, bank, i, num, result, vblk, lbn, failed>>
  BY DEF EndGc, Exchanged, Returned, locals
<1>2. e.bank \in Bank /\ e.lbn \in Lbn /\ e.vbn \in Half
  <2> DEFINE R == [bank : Bank, lbn : Lbn, vbn : Half]
  <2>1. gc \in Seq(R) /\ gc # << >>
    BY <1>1 DEF TypeOK
  <2> HIDE DEF R
  <2>2. Len(gc) \in DOMAIN gc
    BY <2>1
  <2>3. e \in R
    BY <2>1, <2>2
  <2> HIDE DEF e
  <2> QED BY <2>3 DEF R
<1>3. gc' \in Seq([bank : Bank, lbn : Lbn, vbn : Half])
  <2> DEFINE R == [bank : Bank, lbn : Lbn, vbn : Half]
  <2>1. gc \in Seq(R) /\ gc' = SubSeq(gc, 1, Len(gc) - 1) /\ gc # << >>
    BY <1>1 DEF TypeOK
  <2> HIDE DEF R
  <2>2. gc' \in Seq(R)
    BY <2>1
  <2> QED BY <2>2 DEF R
<1> HIDE DEF e
<1>4. x \in AnyCell /\ y \in AnyCell /\ free \in Half
  BY <1>2, CellsOf, MemParts DEF TypeOK
<1> HIDE DEF x, y, free
<1>5. m \in [Address -> Byte] /\ IsMem(m, Address) /\ BitsKept(mem, m)
  BY <1>4, CellPlace, MemParts, WriteIsBytes, WriteIsMem, CellKeepsBits
<1> HIDE DEF m
<1>6. mem' \in [Address -> Byte] /\ BitsKept(m, mem')
  BY <1>1, <1>2, <1>4, <1>5, CellPlace, WriteIsBytes, CellKeepsBits
<1>7. BitsKept(mem, mem')
  BY <1>5, <1>6 DEF BitsKept
<1>8. TypeOK'
  <2>1. isrFlag' \in [Bank -> Int]
    <3>1. \A h \in Half : h \in Int
      BY HalfRange
    <3>2. AfterIsr(e.bank, "erase", e.vbn) \in [Bank -> Int]
      BY <1>2, <3>1 DEF AfterIsr, TypeOK
    <3>3. isrFlag \in [Bank -> Int]
      BY DEF TypeOK
    <3> QED BY <1>1, <3>2, <3>3
  <2>2. \A f \in [Bank -> 0 .. FreeBlks - 1] :
            Advanced(f, e.bank) \in [Bank -> 0 .. FreeBlks - 1]
    BY <1>2, Sizes DEF Advanced
  <2>3. head' \in [Bank -> 0 .. FreeBlks - 1] /\ tail' \in [Bank -> 0 .. FreeBlks - 1]
    BY <1>1, <2>2 DEF TypeOK
  <2> QED
    BY <1>1, <1>3, <1>6, <2>1, <2>3 DEF TypeOK
<1> QED
  BY <1>1, <1>7, <1>8, BitmapStays DEF Working

(* The variables as they are without power. *)
LEMMA PowerOffTypes ==
    /\ Zeros \in [Bank -> 0 .. FreeBlks - 1] /\ Zeros \in [Bank -> Int]
    /\ 0 \in Bank /\ 0 \in 0 .. NoBlk /\ 0 \in 0 .. VBlks /\ 0 \in 0 .. LogBlks
    /\ PowerUp \subseteq [Address -> Byte] /\ Pages \subseteq PageType
<1>1. Zeros \in [Bank -> 0 .. FreeBlks - 1] /\ Zeros \in [Bank -> Int]
  BY Sizes DEF Zeros
<1>2. 0 \in Bank /\ 0 \in 0 .. NoBlk /\ 0 \in 0 .. VBlks /\ 0 \in 0 .. LogBlks
  BY Sizes, NoBlkIsNat DEF Bank
<1> QED
  BY <1>1, <1>2, SizesAssumption

LEMMA MapStart == InitFirmware /\ page \in PageType => MapInv
<1> SUFFICES ASSUME InitFirmware, page \in PageType PROVE MapInv
  OBVIOUS
<1>1. at = "off" /\ failed = {} /\ TypeOK
  BY PowerOffTypes DEF InitFirmware, TypeOK
<1>2. ListInv /\ BitmapInv
  BY <1>1 DEF ListInv, BitmapInv, Scanning
<1> QED
  BY <1>1, <1>2, InvStart DEF MapInv

LEMMA MapInit == Init => MapInv
BY MapStart, PowerOffTypes DEF Init

LEMMA MapPowerCycle == MapInv /\ PowerCycle => TypeOK' /\ ListInv' /\ BitmapInv'
<1> SUFFICES ASSUME MapInv, PowerCycle PROVE TypeOK' /\ ListInv' /\ BitmapInv'
  OBVIOUS
<1>1. at' = "off" /\ failed' = {} /\ TypeOK'
  BY PowerOffTypes DEF PowerCycle, MapInv, TypeOK
<1> QED
  BY <1>1 DEF ListInv, BitmapInv, Scanning

LEMMA MapStutter == MapInv /\ UNCHANGED vars => TypeOK' /\ ListInv' /\ BitmapInv'
<1> SUFFICES ASSUME MapInv, UNCHANGED vars PROVE TypeOK' /\ ListInv' /\ BitmapInv'
  OBVIOUS
<1> USE DEF MapInv, vars
<1>1. TypeOK'
  BY DEF TypeOK
<1>2. ListInv'
  BY DEF ListInv
<1>3. \A b : Accepted(page[b])' = Accepted(page[b])
  BY DEF Accepted, Listed
<1>4. \A b, v : Bad(b, v)' = Bad(b, v) /\ IsBad(b, v)' = IsBad(b, v)
  BY DEF Bad, Listed, IsBad
<1>5. \A b : MarkedTo(b)' = MarkedTo(b)
  BY DEF MarkedTo
<1>6. BitmapInv'
  BY <1>3, <1>4, <1>5 DEF BitmapInv
<1> QED
  BY <1>1, <1>2, <1>6

LEMMA MapNext == MapInv /\ [Next]_vars => MapInv'
<1> SUFFICES ASSUME MapInv, [Next]_vars PROVE MapInv'
  OBVIOUS
<1>1. Inv'
  BY InvNext DEF MapInv
<1>2. TypeOK' /\ ListInv' /\ BitmapInv'
  <2>1. CASE Boot \/ ReadList \/ CheckEntry \/ EndCheck \/ MarkBlk \/ EndMark
    BY <2>1, MapBoot, MapReadList, MapCheckEntry, MapEndCheck, MapMarkBlk, MapEndMark
  <2>2. CASE Tables \/ StartBank \/ SkipBad \/ EndBank \/ EraseFails
    BY <2>2, MapTables, MapStartBank, MapFormatRest, MapEraseFails
  <2>3. CASE TakeFree \/ Overrun \/ TakeLog \/ NoneLeft
    BY <2>3, MapTakeFree, MapOverrun, MapTakeLog
  <2>4. CASE \E b \in Bank, l \in Lbn : StartGc(b, l)
    BY <2>4, MapStartGc
  <2>5. CASE EndGc \/ PowerCycle \/ UNCHANGED vars
    BY <2>5, MapEndGc, MapPowerCycle, MapStutter
  <2> QED
    BY <2>1, <2>2, <2>3, <2>4, <2>5 DEF Next
<1> QED
  BY <1>1, <1>2 DEF MapInv

(* Every variable of the block map keeps the range its C declaration and   *)
(* its loop give it, every byte of the DRAM included, whatever was in it   *)
(* when power came and whatever page 0 holds.                              *)
THEOREM BlockMapTypeCorrect == Spec => []TypeOK
<1>1. Init => MapInv
  BY MapInit
<1>2. MapInv => TypeOK
  BY DEF MapInv
<1> QED
  BY <1>1, <1>2, MapNext, PTL DEF Spec

(* The bitmap says of every block of a bank with an acceptable list whether *)
(* a plane of it is listed or its erase failed, and nothing else: the bits  *)
(* of different banks share no word's bit, the tables that follow the       *)
(* bitmap leave it alone (build_bad_blk_list, is_bad_block, set_bad_block). *)
THEOREM BitmapIsExact == Spec => []BitmapExact
<1>1. Init => MapInv
  BY MapInit
<1>2. MapInv => BitmapExact
  <2>1. ASSUME at \in {"bank", "free", "log", "ready"}
        PROVE  \A b \in Bank : MarkedTo(b) = VBlks
    BY <2>1 DEF MarkedTo, Scanning
  <2>2. \A v \in 1 .. VBlks - 1 : v < VBlks
    BY Sizes
  <2> QED BY <2>1, <2>2 DEF MapInv, BitmapInv, BitmapExact
<1> QED
  BY <1>1, <1>2, MapNext, PTL DEF Spec

-----------------------------------------------------------------------------
(* The blocks that format finds.                                           *)

(* The bit of the block the search comes to is right. *)
LEMMA CandidateJudged ==
    ASSUME MapInv, at \in {"free", "log"}, Accepted(page[bank]), Candidate < VBlks
    PROVE  /\ IsBad(bank, Candidate) <=> Bad(bank, Candidate)
           /\ vblk \in Nat /\ vblk < VBlks
<1>1. bank \in Bank /\ vblk \in Nat /\ vblk < VBlks
  BY DEF MapInv, Inv, Types, Search
<1>2. Candidate \in 1 .. VBlks - 1 /\ Candidate < MarkedTo(bank)
  BY <1>1, Sizes DEF Candidate, MarkedTo, Scanning
<1> QED
  BY <1>1, <1>2 DEF MapInv, BitmapInv

(* The search has looked at one block more, which is bad or was found. *)
LEMMA LookedFurther ==
    ASSUME NEW b, NEW n \in Nat, Upto(b, n), FirstBlk \in Nat,
           \A v : Bad(b, v) => Bad(b, v)', Found(b) \subseteq Found(b)',
           Bad(b, n + 1)' \/ n + 1 \in Found(b)'
    PROVE  \A v \in FirstBlk + 1 .. n + 1 : Bad(b, v)' \/ v \in Found(b)'
<1> TAKE v \in FirstBlk + 1 .. n + 1
<1>1. v \in FirstBlk + 1 .. n \/ v = n + 1
  OBVIOUS
<1> QED
  BY <1>1 DEF Upto

(* A bank format is not at stays as it is. *)
LEMMA BankStays ==
    ASSUME NEW b \in Bank, GoodBank(b),
           Handed(b)' = Handed(b), \A c \in Handed(b) : Read16(mem', c) = Read16(mem, c),
           \A v : Bad(b, v)' <=> Bad(b, v),
           at' \in {"free", "log"} => b # bank',
           at' = "ready" \/ b < bank' => at = "ready" \/ b < bank
    PROVE  GoodBank(b)'
<1>1. Found(b)' = Found(b) /\ (Whole(b)' <=> Whole(b))
  BY DEF Found, Whole
<1>2. \A n : Upto(b, n)' <=> Upto(b, n)
  BY <1>1 DEF Upto
<1>3. Upto(b, VBlks - 1)' <=> Upto(b, VBlks - 1)
  BY <1>1 DEF Upto
<1> QED
  BY <1>1, <1>3 DEF GoodBank

(* A cell more, with a number or with none. *)
LEMMA CellFound ==
    ASSUME IsMem(mem, Address), NEW b \in Bank, Handed(b) \subseteq AnyCell,
           NEW c \in AnyCell, c \notin Handed(b), NEW v \in Nat,
           mem' = Write16(mem, c, v), Handed(b)' = Handed(b) \cup {c}
    PROVE  /\ Found(b)' = (Found(b) \cup {v}) \ {NoBlk}
           /\ Whole(b)' <=> Whole(b) /\ v # NoBlk
<1>1. Read16(mem', c) = v /\ \A d \in Handed(b) : Read16(mem', d) = Read16(mem, d)
  BY CellWritten
<1> QED
  BY <1>1 DEF Found, Whole

(* What format does to one bank does nothing to the others. *)
LEMMA OthersStay ==
    ASSUME MapInv, GoodInv, at \in Building, at' \in Building, bank' = bank, page' = page,
           \A b \in Bank : b # bank => \A v : Bad(b, v)' <=> Bad(b, v),
           \A b \in Bank : b # bank => \A c \in Cells(b) : Read16(mem', c) = Read16(mem, c),
           Accepted(page[bank]) => GoodBank(bank)'
    PROVE  GoodInv'
<1>1. ASSUME NEW b \in Bank, Accepted(page'[b]), b # bank
      PROVE  GoodBank(b)'
  <2>1. Handed(b) \subseteq Cells(b)
    BY HandedAreCells DEF MapInv, Inv
  <2>2. Handed(b)' = Handed(b)
    BY <1>1 DEF Handed, Building
  <2>3. Accepted(page[b])
    BY <1>1
  <2>4. GoodBank(b)
    BY <2>3 DEF GoodInv
  <2> QED
    BY <1>1, <2>1, <2>2, <2>4, BankStays DEF Building
<1>2. Accepted(page[bank])' <=> Accepted(page[bank])
  BY DEF Accepted, Listed
<1>3. \A b \in Bank : Accepted(page[b])' <=> Accepted(page'[b])
  OBVIOUS
<1> QED
  BY <1>1, <1>2, <1>3 DEF GoodInv

LEMMA GoodTables == MapInv /\ GoodInv /\ Tables => GoodInv'
<1> SUFFICES ASSUME MapInv, Tables PROVE GoodInv'
  OBVIOUS
<1>1. at' = "bank" /\ bank' = 0
  BY DEF Tables, locals, MapInv, Inv, Search
<1>2. \A b \in Bank : Handed(b)' = {} /\ ~ (b < bank')
  BY <1>1, Sizes DEF Handed, Building, Bank
<1>3. \A b \in Bank : GoodBank(b)'
  BY <1>1, <1>2 DEF GoodBank, Found
<1> QED
  BY <1>3 DEF GoodInv

LEMMA GoodStartBank == MapInv /\ GoodInv /\ StartBank => GoodInv'
<1> SUFFICES ASSUME MapInv, GoodInv, StartBank PROVE GoodInv'
  OBVIOUS
<1>1. /\ at = "bank" /\ at' = "free" /\ lbn' = 0 /\ vblk' = FirstBlk
      /\ UNCHANGED <<page, mem, bank, failed>> /\ bank \in Bank
  BY DEF StartBank, MapInv, Inv, Types
<1>2. Handed(bank)' = {}
  BY <1>1 DEF Handed, Building, FreeCells, Bank
<1>3. Found(bank)' = {} /\ Whole(bank)'
  BY <1>2 DEF Found, Whole
<1>4. Upto(bank, vblk)'
  <2>1. FirstBlk <= FirstBlk /\ FirstBlk + 1 .. FirstBlk = {}
    BY Sizes
  <2> QED BY <1>1, <2>1 DEF Upto
<1>5. GoodBank(bank)'
  <2>1. bank' = bank /\ ~ (bank < bank) /\ at' # "ready"
    BY <1>1 DEF Bank
  <2> QED BY <1>3, <1>4, <2>1 DEF GoodBank
<1>6. \A b, v : Bad(b, v)' <=> Bad(b, v)
  BY <1>1 DEF Bad, Listed
<1> QED
  BY <1>1, <1>5, <1>6, OthersStay DEF Building

LEMMA GoodSkipBad == MapInv /\ GoodInv /\ SkipBad => GoodInv'
<1> SUFFICES ASSUME MapInv, GoodInv, SkipBad PROVE GoodInv'
  OBVIOUS
<1>1. /\ at \in {"free", "log"} /\ at' = at /\ vblk' = vblk + 1 /\ Candidate < VBlks
      /\ Candidate = vblk + 1 /\ IsBad(bank, Candidate)
      /\ UNCHANGED <<page, mem, bank, lbn, failed>> /\ bank \in Bank
  BY DEF SkipBad, Candidate, MapInv, Inv, Types
<1>2. \A b, v : Bad(b, v)' <=> Bad(b, v)
  BY <1>1 DEF Bad, Listed
<1>3. ASSUME Accepted(page[bank]) PROVE GoodBank(bank)'
  <2>1. Bad(bank, vblk + 1) /\ vblk \in Nat /\ vblk < VBlks
    BY <1>1, <1>3, CandidateJudged
  <2>2. GoodBank(bank)
    BY <1>1, <1>3 DEF GoodInv, Building
  <2>3. Upto(bank, vblk) /\ Whole(bank)
    <3>1. vblk + 1 # VBlks
      BY <1>1, <2>1, Sizes
    <3> QED BY <1>1, <2>2, <3>1 DEF GoodBank
  <2>4. Handed(bank)' = Handed(bank)
    BY <1>1 DEF Handed, Building
  <2>5. Found(bank)' = Found(bank) /\ Whole(bank)'
    BY <1>1, <2>3, <2>4 DEF Found, Whole
  <2>6. \A v : Bad(bank, v)' <=> Bad(bank, v)
    BY <1>1, <1>2
  <2>7. Upto(bank, vblk)'
    <3>1. \A v \in FirstBlk + 1 .. vblk + 1 : Bad(bank, v)' \/ v \in Found(bank)'
      BY <1>1, <2>1, <2>3, <2>5, <2>6, Sizes, LookedFurther
    <3>2. FirstBlk <= vblk'
      BY <1>1, <2>1, <2>3, Sizes DEF Upto
    <3> QED BY <1>1, <3>1, <3>2 DEF Upto
  <2>8. FirstBlk \notin Found(bank)' /\ \A v \in Found(bank)' : ~Bad(bank, v)'
    BY <2>2, <2>5, <2>6 DEF GoodBank
  <2>9. bank' = bank /\ ~ (bank < bank) /\ at' # "ready"
    BY <1>1 DEF Bank
  <2> QED BY <2>5, <2>7, <2>8, <2>9 DEF GoodBank
<1> QED
  BY <1>1, <1>2, <1>3, OthersStay DEF Building

(* No block that was found is beyond the last one looked at. *)
LEMMA FoundBehind ==
    ASSUME Inv, at \in {"free", "log"}
    PROVE  \A v \in Found(bank) : v <= vblk
BY DEF Inv, Types, Blocks, UpTo, Found

LEMMA GoodEraseFails == MapInv /\ GoodInv /\ EraseFails => GoodInv'
<1> SUFFICES ASSUME MapInv, GoodInv, EraseFails PROVE GoodInv'
  OBVIOUS
<1>1. /\ at \in {"free", "log"} /\ at' = at /\ bank \in Bank
      /\ vblk \in Nat /\ vblk' = vblk + 1 /\ vblk + 1 < VBlks
      /\ failed' = failed \cup {<<bank, vblk + 1>>}
      /\ UNCHANGED <<page, bank, lbn>>
  BY DEF EraseFails, Usable, Candidate, MapInv, Inv, Types, Search
<1>2. mem' = SetBit(mem, BmpOf(bank), vblk + 1)
  <2> DEFINE flag == AfterIsr(bank, "erase", Candidate)
  <2>1. flag[bank] = vblk + 1
    BY <1>1 DEF AfterIsr, Candidate, MapInv, Inv, Types
  <2>2. mem' = SetBit(mem, BmpOf(bank), flag[bank])
    BY DEF EraseFails
  <2> HIDE DEF flag
  <2> QED BY <2>1, <2>2
<1>3. \A d \in AnyCell : Read16(mem', d) = Read16(mem, d)
  <2>1. vblk + 1 \in VBlk /\ IsMem(mem, Address)
    BY <1>1, Sizes DEF VBlk, MapInv, Inv, Types
  <2> QED BY <1>1, <1>2, <2>1, BitOutsideTables
<1>4. \A b \in Bank : \A v : Bad(b, v)' <=> Bad(b, v) \/ (b = bank /\ v = vblk + 1)
  BY <1>1, BadAdded
<1>5. ASSUME Accepted(page[bank]) PROVE GoodBank(bank)'
  <2>1. GoodBank(bank)
    BY <1>1, <1>5 DEF GoodInv, Building
  <2>2. Upto(bank, vblk) /\ Whole(bank)
    <3>1. vblk + 1 # VBlks
      BY <1>1, Sizes
    <3> QED BY <1>1, <2>1, <3>1 DEF GoodBank
  <2>3. Handed(bank)' = Handed(bank) /\ Handed(bank) \subseteq AnyCell
    BY <1>1, HandedAreCells, CellSets DEF Handed, Building, MapInv, Inv
  <2>4. Found(bank)' = Found(bank) /\ Whole(bank)'
    BY <1>3, <2>2, <2>3 DEF Found, Whole
  <2>5. Upto(bank, vblk)'
    <3>1. \A v \in FirstBlk + 1 .. vblk + 1 : Bad(bank, v)' \/ v \in Found(bank)'
      BY <1>1, <1>4, <2>2, <2>4, Sizes, LookedFurther
    <3>2. FirstBlk <= vblk'
      BY <1>1, <2>2, Sizes DEF Upto
    <3> QED BY <1>1, <3>1, <3>2 DEF Upto
  <2>6. FirstBlk \notin Found(bank)' /\ \A v \in Found(bank)' : ~Bad(bank, v)'
    <3>1. \A v \in Found(bank) : v # vblk + 1
      <4>1. ~ (vblk + 1 <= vblk)
        BY <1>1
      <4> QED BY <1>1, <4>1, FoundBehind DEF MapInv
    <3> QED BY <1>1, <1>4, <2>1, <2>4, <3>1 DEF GoodBank
  <2>7. bank' = bank /\ ~ (bank < bank) /\ at' # "ready"
    BY <1>1 DEF Bank
  <2> QED BY <2>4, <2>5, <2>6, <2>7 DEF GoodBank
<1>6. \A b \in Bank : b # bank => \A c \in Cells(b) : Read16(mem', c) = Read16(mem, c)
  BY <1>3, CellsOf
<1> QED
  BY <1>1, <1>4, <1>5, <1>6, OthersStay DEF Building

(* A block is given to a cell, or the end of the bank leaves it without.   *)
LEMMA GoodGiven ==
    ASSUME MapInv, GoodInv, at \in {"free", "log"}, at' \in {"free", "log"},
           UNCHANGED <<page, bank, failed>>,
           NEW c \in Cells(bank), c \notin Handed(bank), Handed(bank)' = Handed(bank) \cup {c},
           NEW v \in Nat, mem' = Write16(mem, c, v),
           \/ Usable /\ v = vblk + 1 /\ vblk' = vblk + 1
           \/ v = NoBlk /\ Candidate >= VBlks /\ vblk' = vblk
    PROVE  GoodInv'
<1>1. /\ bank \in Bank /\ IsMem(mem, Address) /\ vblk \in Nat /\ vblk < VBlks
      /\ Handed(bank) \subseteq AnyCell /\ c \in AnyCell
  BY HandedAreCells, CellSets DEF MapInv, Inv, Types, Search
<1>2. \A b, u : Bad(b, u)' <=> Bad(b, u)
  BY DEF Bad, Listed
<1>3. /\ Found(bank)' = (Found(bank) \cup {v}) \ {NoBlk}
      /\ Whole(bank)' <=> Whole(bank) /\ v # NoBlk
  BY <1>1, CellFound
<1>4. NoBlk \notin Found(bank)
  BY DEF Found
<1>5. ASSUME Accepted(page[bank]) PROVE GoodBank(bank)'
  <2>1. GoodBank(bank)
    BY <1>1, <1>5 DEF GoodInv, Building
  <2>2. FirstBlk \notin Found(bank) /\ \A u \in Found(bank) : ~Bad(bank, u)
    BY <2>1 DEF GoodBank
  <2>3. Upto(bank, vblk) /\ (Whole(bank) \/ vblk + 1 = VBlks)
    BY <2>1 DEF GoodBank
  <2>4. bank' = bank /\ ~ (bank < bank) /\ at' # "ready"
    BY <1>1 DEF Bank
  <2>5. CASE Usable /\ v = vblk + 1 /\ vblk' = vblk + 1
    <3>1. vblk + 1 < VBlks /\ ~IsBad(bank, Candidate) /\ Candidate = vblk + 1
      BY <2>5 DEF Usable, Candidate
    <3>2. ~Bad(bank, vblk + 1)
      BY <1>5, <3>1, CandidateJudged
    <3>3. v # NoBlk /\ vblk + 1 # VBlks
      BY <1>1, <2>5, <3>1, BlockNumbers, Sizes
    <3>4. Found(bank)' = Found(bank) \cup {vblk + 1} /\ Whole(bank)'
      BY <1>3, <1>4, <2>3, <2>5, <3>3
    <3>5. \A u \in FirstBlk + 1 .. vblk + 1 : Bad(bank, u)' \/ u \in Found(bank)'
      BY <1>1, <1>2, <2>3, <3>4, Sizes, LookedFurther
    <3>6. FirstBlk < vblk + 1
      BY <1>1, <2>3, Sizes DEF Upto
    <3>7. Upto(bank, vblk)'
      BY <1>1, <2>5, <3>5, <3>6, Sizes DEF Upto
    <3>8. FirstBlk \notin Found(bank)'
      BY <2>2, <3>4, <3>6, Sizes
    <3>9. \A u \in Found(bank)' : ~Bad(bank, u)'
      BY <1>2, <2>2, <3>2, <3>4
    <3> QED BY <2>4, <3>4, <3>7, <3>8, <3>9 DEF GoodBank
  <2>6. CASE v = NoBlk /\ Candidate >= VBlks /\ vblk' = vblk
    <3>1. vblk + 1 = VBlks
      BY <1>1, <2>6, Sizes DEF Candidate
    <3>2. Found(bank)' = Found(bank)
      BY <1>3, <1>4, <2>6
    <3>3. Upto(bank, vblk)'
      BY <1>2, <2>3, <2>6, <3>2 DEF Upto
    <3>4. FirstBlk \notin Found(bank)' /\ \A u \in Found(bank)' : ~Bad(bank, u)'
      BY <1>2, <2>2, <3>2
    <3> QED BY <2>4, <2>6, <3>1, <3>3, <3>4 DEF GoodBank
  <2> QED BY <2>5, <2>6
<1>6. \A b \in Bank : b # bank => \A d \in Cells(b) : Read16(mem', d) = Read16(mem, d)
  <2> TAKE b \in Bank
  <2> HAVE b # bank
  <2> TAKE d \in Cells(b)
  <2>1. d # c
    BY <1>1, BanksDiffer
  <2>2. d \in AnyCell
    BY CellsOf
  <2> QED BY <1>1, <2>1, <2>2, CellWritten
<1> QED
  BY <1>1, <1>2, <1>5, <1>6, OthersStay DEF Building

LEMMA GoodTakeFree == MapInv /\ GoodInv /\ TakeFree => GoodInv'
<1> SUFFICES ASSUME MapInv, GoodInv, TakeFree PROVE GoodInv'
  OBVIOUS
<1> DEFINE c == FreeCell(bank, lbn)
<1>1. /\ at = "free" /\ bank \in Bank /\ head[bank] = lbn
      /\ lbn \in 0 .. FreeBlks - 1 /\ vblk \in Nat /\ vblk + 1 \in Nat
      /\ vblk' = vblk + 1 /\ Usable
      /\ UNCHANGED <<page, bank, failed>>
  BY DEF TakeFree, Candidate, MapInv, Inv, Types, Search
<1>2. mem' = Write16(mem, c, vblk + 1) /\ c \in Cells(bank)
  BY <1>1, CellsOf DEF TakeFree, Returned, Candidate
<1>3. \/ lbn + 1 < FreeBlks /\ lbn' = lbn + 1 /\ at' = "free"
      \/ lbn + 1 = FreeBlks /\ lbn' = 0 /\ at' = "log"
  BY <1>1, Sizes DEF TakeFree
<1>4. Handed(bank) = FreeCells(bank, lbn)
  BY <1>1 DEF Handed, Building, Bank
<1>5. Handed(bank)' = FreeCells(bank, lbn + 1)
  BY <1>1, <1>3 DEF Handed, Building, Bank, FreeCells, LogCells
<1>6. FreeCells(bank, lbn + 1) = FreeCells(bank, lbn) \cup {c}
  BY <1>1 DEF FreeCells
<1>7. c \notin FreeCells(bank, lbn)
  <2>1. \A k \in 0 .. lbn - 1 : k \in 0 .. FreeBlks - 1 /\ k # lbn
    BY <1>1, Sizes
  <2> QED BY <1>1, <2>1, FreeCellsDiffer DEF FreeCells
<1> HIDE DEF c
<1> QED
  BY <1>1, <1>2, <1>3, <1>4, <1>5, <1>6, <1>7, GoodGiven

LEMMA GoodTakeLog == MapInv /\ GoodInv /\ (TakeLog \/ NoneLeft) => GoodInv'
<1> SUFFICES ASSUME MapInv, GoodInv, TakeLog \/ NoneLeft PROVE GoodInv'
  OBVIOUS
<1> DEFINE c == LogCell(bank, lbn)
<1>1. /\ at = "log" /\ at' = "log" /\ bank \in Bank /\ lbn \in Lbn /\ lbn' = lbn + 1
      /\ vblk \in Nat /\ UNCHANGED <<page, bank, failed>>
  BY Sizes DEF TakeLog, NoneLeft, MapInv, Inv, Types, Search, Lbn
<1>2. PICK v \in Nat : /\ mem' = Write16(mem, c, v)
                       /\ \/ Usable /\ v = vblk + 1 /\ vblk' = vblk + 1
                          \/ v = NoBlk /\ Candidate >= VBlks /\ vblk' = vblk
  <2>1. CASE TakeLog
    BY <1>1, <2>1 DEF TakeLog, Candidate
  <2>2. CASE NoneLeft
    <3>1. NoBlk \in Nat
      BY NoBlkIsNat
    <3> QED BY <1>1, <2>2, <3>1 DEF NoneLeft
  <2> QED BY <2>1, <2>2
<1>3. c \in Cells(bank)
  BY <1>1, CellsOf
<1>4. Handed(bank) = FreeCells(bank, FreeBlks) \cup LogCells(bank, lbn)
  BY <1>1 DEF Handed, Building, Bank
<1>5. Handed(bank)' = FreeCells(bank, FreeBlks) \cup LogCells(bank, lbn + 1)
  BY <1>1 DEF Handed, Building, Bank
<1>6. LogCells(bank, lbn + 1) = LogCells(bank, lbn) \cup {c}
  BY <1>1 DEF LogCells, Lbn
<1>7. c \notin LogCells(bank, lbn) /\ c \notin FreeCells(bank, FreeBlks)
  <2>1. \A k \in 0 .. lbn - 1 : k \in Lbn /\ k # lbn
    BY <1>1, Sizes DEF Lbn
  <2> QED BY <1>1, <2>1, LogCellsDiffer, TablesDiffer DEF LogCells, FreeCells
<1> HIDE DEF c
<1> QED
  BY <1>1, <1>2, <1>3, <1>4, <1>5, <1>6, <1>7, GoodGiven

(* A bank that is finished has a block in every cell, or has no good block *)
(* left over.                                                              *)
LEMMA GoodEndBank == MapInv /\ GoodInv /\ EndBank => GoodInv'
<1> SUFFICES ASSUME MapInv, GoodInv, EndBank PROVE GoodInv'
  OBVIOUS
<1>1. /\ at = "log" /\ lbn = LogBlks /\ bank \in Bank /\ NumBanks \in Nat
      /\ UNCHANGED <<page, mem, vblk, lbn, failed>>
      /\ \/ bank + 1 < NumBanks /\ at' = "bank" /\ bank' = bank + 1
         \/ ~ (bank + 1 < NumBanks) /\ at' = "ready" /\ bank' = bank
  BY Sizes DEF EndBank, MapInv, Inv, Types
<1>2. \A b, v : Bad(b, v)' <=> Bad(b, v)
  BY <1>1 DEF Bad, Listed
<1>3. ASSUME NEW b \in Bank, b = bank
      PROVE  Handed(b) = Cells(b) /\ Handed(b)' = Cells(b)
  <2>1. Cells(b) = FreeCells(b, FreeBlks) \cup LogCells(b, LogBlks)
    BY CellSets
  <2>2. at' = "bank" => b < bank'
    BY <1>1, <1>3 DEF Bank
  <2> QED BY <1>1, <1>3, <2>1, <2>2 DEF Handed, Building, Bank
<1>4. ASSUME NEW b \in Bank, Accepted(page[b]), b = bank
      PROVE  GoodBank(b)'
  <2>1. GoodBank(b)
    BY <1>1, <1>4 DEF GoodInv, Building
  <2>2. /\ Upto(b, vblk) /\ (Whole(b) \/ vblk + 1 = VBlks)
        /\ FirstBlk \notin Found(b) /\ \A v \in Found(b) : ~Bad(b, v)
    BY <1>1, <1>4, <2>1 DEF GoodBank
  <2>3. Found(b)' = Found(b) /\ (Whole(b)' <=> Whole(b))
    <3>1. Handed(b) = Cells(b) /\ Handed(b)' = Cells(b)
      BY <1>3, <1>4
    <3> QED BY <1>1, <3>1 DEF Found, Whole
  <2>4. Whole(b) \/ Upto(b, VBlks - 1)
    <3>1. vblk + 1 = VBlks => vblk = VBlks - 1
      BY <1>1, Sizes DEF MapInv, Inv, Search
    <3> QED BY <2>2, <3>1
  <2>5. Upto(b, VBlks - 1)' <=> Upto(b, VBlks - 1)
    BY <1>2, <2>3 DEF Upto
  <2>6. at' \notin {"free", "log"}
    BY <1>1
  <2> QED BY <1>2, <2>2, <2>3, <2>4, <2>5, <2>6 DEF GoodBank
<1>5. ASSUME NEW b \in Bank, Accepted(page[b]), b # bank
      PROVE  GoodBank(b)'
  <2>1. Handed(b)' = Handed(b)
    <3>1. b < bank' <=> b < bank
      BY <1>1, <1>5 DEF Bank
    <3>2. at' = "ready" => b < bank
      BY <1>1, <1>5 DEF Bank
    <3> QED BY <1>1, <1>5, <3>1, <3>2 DEF Handed, Building
  <2>2. at' = "ready" \/ b < bank' => at = "ready" \/ b < bank
    BY <1>1, <1>5 DEF Bank
  <2>3. GoodBank(b)
    BY <1>1, <1>5 DEF GoodInv, Building
  <2> QED BY <1>1, <1>2, <2>1, <2>2, <2>3, BankStays
<1>6. \A b \in Bank : Accepted(page[b])' <=> Accepted(page[b])
  BY <1>1 DEF Accepted, Listed
<1> QED
  BY <1>4, <1>5, <1>6 DEF GoodInv

(* A collection exchanges two numbers of its bank: no block is lost, and   *)
(* none is new.                                                            *)
LEMMA GoodEndGc == MapInv /\ GoodInv /\ EndGc => GoodInv'
<1> SUFFICES ASSUME MapInv, GoodInv, EndGc PROVE GoodInv'
  OBVIOUS
<1>1. at = "ready" /\ at' = "ready" /\ UNCHANGED <<page, failed>>
  BY DEF EndGc
<1>2. \A b, v : Bad(b, v)' <=> Bad(b, v)
  BY <1>1 DEF Bad, Listed
<1>3. PICK x, y \in AnyCell : EndedOn(x, y, gc[Len(gc)])
  BY CollectionEnds DEF MapInv
<1> DEFINE e == gc[Len(gc)]
<1>4. /\ e.bank \in Bank /\ x \in Cells(e.bank) /\ y \in Cells(e.bank)
      /\ Read16(mem', x) = Read16(mem, y) /\ Read16(mem', y) = Read16(mem, x)
      /\ \A d \in AnyCell : d # x /\ d # y => Read16(mem', d) = Read16(mem, d)
  BY <1>3 DEF EndedOn, Victim
<1> HIDE DEF e
<1>5. ASSUME NEW b \in Bank, Accepted(page[b])
      PROVE  GoodBank(b)'
  <2>1. Handed(b) = Cells(b) /\ Handed(b)' = Cells(b) /\ Cells(b) \subseteq AnyCell
    BY <1>1, CellsOf DEF Handed
  <2>2. Found(b)' = Found(b) /\ (Whole(b)' <=> Whole(b))
    <3>1. CASE b = e.bank
      BY <1>4, <2>1, <3>1 DEF Found, Whole
    <3>2. CASE b # e.bank
      <4>1. \A d \in Cells(b) : d # x /\ d # y
        BY <1>4, <3>2, BanksDiffer
      <4> QED BY <1>4, <2>1, <4>1 DEF Found, Whole
    <3> QED BY <3>1, <3>2
  <2>3. GoodBank(b)
    BY <1>1, <1>5 DEF GoodInv
  <2>4. Upto(b, VBlks - 1)' <=> Upto(b, VBlks - 1)
    BY <1>2, <2>2 DEF Upto
  <2> QED BY <1>1, <1>2, <2>2, <2>3, <2>4 DEF GoodBank
<1>6. \A b \in Bank : Accepted(page[b])' <=> Accepted(page[b])
  BY <1>1 DEF Accepted, Listed
<1> QED
  BY <1>1, <1>5, <1>6 DEF GoodInv

LEMMA GoodStays ==
    ASSUME GoodInv, UNCHANGED <<page, mem, at, bank, vblk, lbn, failed>>
    PROVE  GoodInv'
<1>1. \A b, v : Bad(b, v)' <=> Bad(b, v)
  BY DEF Bad, Listed
<1>2. \A b : Handed(b)' = Handed(b)
  BY DEF Handed
<1>3. \A b : Found(b)' = Found(b) /\ (Whole(b)' <=> Whole(b))
  BY <1>2 DEF Found, Whole
<1>4. \A b : GoodBank(b)' <=> GoodBank(b)
  BY <1>1, <1>3 DEF GoodBank, Upto
<1>5. \A b : Accepted(page[b])' <=> Accepted(page[b])
  BY DEF Accepted, Listed
<1> QED
  BY <1>4, <1>5 DEF GoodInv

LEMMA GoodNext == MapInv /\ GoodInv /\ [Next]_vars => GoodInv'
<1> SUFFICES ASSUME MapInv, GoodInv, [Next]_vars PROVE GoodInv'
  OBVIOUS
<1>1. CASE Boot \/ ReadList \/ CheckEntry \/ EndCheck \/ MarkBlk \/ EndMark \/ Overrun \/ PowerCycle
  <2>1. at' \notin Building \cup {"ready"}
    BY <1>1 DEF Boot, ReadList, CheckEntry, EndCheck, MarkBlk, EndMark, Overrun, PowerCycle, Building
  <2> QED BY <2>1 DEF GoodInv
<1>2. CASE Tables \/ StartBank \/ SkipBad \/ EraseFails
  BY <1>2, GoodTables, GoodStartBank, GoodSkipBad, GoodEraseFails
<1>3. CASE TakeFree \/ TakeLog \/ NoneLeft \/ EndBank \/ EndGc
  BY <1>3, GoodTakeFree, GoodTakeLog, GoodEndBank, GoodEndGc
<1>4. CASE (\E b \in Bank, l \in Lbn : StartGc(b, l)) \/ UNCHANGED vars
  <2>1. UNCHANGED <<page, mem, at, bank, vblk, lbn, failed>>
    BY <1>4 DEF StartGc, locals, vars
  <2> QED BY <2>1, GoodStays
<1> QED
  BY <1>1, <1>2, <1>3, <1>4 DEF Next

(* No block a drive works with is known to be bad, through all that garbage *)
(* collection does, and when a log block is left without a block there was  *)
(* no good one left after FirstBlk (format, ret_free_vbn, get_free_vbn).    *)
THEOREM GoodBlocksStayUsed == Spec => []GoodBlocksUsed
<1> DEFINE I == MapInv /\ GoodInv
<1>1. Init => I
  <2>1. Init => at = "off"
    BY DEF Init, InitFirmware
  <2>2. at = "off" => GoodInv
    BY DEF GoodInv, Building
  <2> QED BY <2>1, <2>2, MapInit
<1>2. I /\ [Next]_vars => I'
  BY MapNext, GoodNext
<1>3. I => GoodBlocksUsed
  <2> SUFFICES ASSUME GoodInv, at = "ready", NEW b \in Bank, Accepted(page[b])
               PROVE  /\ \A v \in InUse(mem, b) : ~Bad(b, v)
                      /\ \/ \A c \in Cells(b) : Read16(mem, c) # NoBlk
                         \/ \A v \in FirstBlk + 1 .. VBlks - 1 : Bad(b, v) \/ v \in InUse(mem, b)
    BY DEF GoodBlocksUsed
  <2>1. Handed(b) = Cells(b)
    BY DEF Handed
  <2>2. Found(b) = InUse(mem, b)
    BY <2>1 DEF Found, InUse
  <2>3. GoodBank(b)
    BY DEF GoodInv
  <2> QED BY <2>1, <2>2, <2>3 DEF GoodBank, Whole, Upto
<1> QED
  <2> HIDE DEF I
  <2> QED BY <1>1, <1>2, <1>3, PTL DEF Spec
=============================================================================
