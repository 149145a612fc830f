-------------------------------- MODULE Dram --------------------------------
(***************************************************************************)
(* The DRAM as mem_util.c makes it look: bytes, halfwords and bits at any  *)
(* address, over a memory that is read one word at a time by the CPU and   *)
(* written one word at a time by the memory utility.  Both step over the   *)
(* check code the controller keeps after every DRAM_ECC_UNIT bytes; the    *)
(* CPU is given the real address, the memory utility works it out itself.  *)
(*                                                                         *)
(* Addresses count from DRAM_BASE, a multiple of DRAM_ECC_UNIT.  A memory  *)
(* is a function from real addresses to bytes; the check code is left out. *)
(***************************************************************************)
EXTENDS Integers, FiniteSetsExt

CONSTANT EccUnit    \* DRAM_ECC_UNIT

ASSUME EccUnitAssumption == EccUnit \in Nat /\ EccUnit > 0 /\ (EccUnit % 4) = 0

Byte == 0 .. 255
Half == 0 .. 65535
Word == [0 .. 3 -> Byte]                    \* a UINT32, least byte first

(* addr & 0xFFFFFFFC *)
Aligned(a) == a - (a % 4)

(* real_addr: the address with the check codes before it counted. *)
Real(a) == (a \div EccUnit) * (EccUnit + 4) + (a % EccUnit)

(* What the CPU reads at a word address. *)
Load(m, a) == [i \in 0 .. 3 |-> m[Real(a) + i]]

(* mem_copy of one word from SRAM. *)
Store(m, a, w) ==
    [x \in DOMAIN m |-> IF x \in Real(a) .. Real(a) + 3 THEN w[x - Real(a)] ELSE m[x]]

-----------------------------------------------------------------------------
(* A halfword at any offset of its word.  The shifts are those of a UINT32: *)
(* at offset 3 the upper byte is lost on the way in and 0 on the way out.   *)

(* A mutant: val << offset without the * 8, and the mask likewise. *)
MutHalfAtStart(w, o, v) == [w EXCEPT ![0] = v % 256, ![1] = v \div 256]

HalfIn(w, o) == w[o] + 256 * (IF o = 3 THEN 0 ELSE w[o + 1])
WithHalf(w, o, v) == [i \in 0 .. 3 |-> CASE i = o -> v % 256
                                         [] i = o + 1 -> v \div 256
                                         [] OTHER -> w[i]]

Read16(m, a) == HalfIn(Load(m, Aligned(a)), a % 4)
Write16(m, a, v) == Store(m, Aligned(a), WithHalf(Load(m, Aligned(a)), a % 4, v))

-----------------------------------------------------------------------------
(* Bit k after byte base, whatever the alignment of base. *)

(* A mutant: the bit is looked for without the alignment of base. *)
MutBitInOfByte(base, k) == k % 32

BitAddr(base, k) == Aligned(base + (k \div 8))
BitIn(base, k) == (base * 8 + k) % 32

Bit(w, n) == (w[n \div 8] \div 2 ^ (n % 8)) % 2
WithBit(w, n) == IF Bit(w, n) = 1 THEN w ELSE [w EXCEPT ![n \div 8] = @ + (2 ^ (n % 8))]

SetBit(m, base, k) ==
    Store(m, BitAddr(base, k), WithBit(Load(m, BitAddr(base, k)), BitIn(base, k)))
TstBit(m, base, k) == Bit(Load(m, BitAddr(base, k)), BitIn(base, k)) # 0

-----------------------------------------------------------------------------
(* A transfer of halfwords into the DRAM at a, done by the flash controller. *)
Dma(m, a, words) ==
    [x \in DOMAIN m |->
        LET hit == {k \in DOMAIN words : x \in {Real(a + 2 * k), Real(a + 2 * k + 1)}}
            k == Min(hit)
        IN  IF hit = {} THEN m[x]
            ELSE IF x = Real(a + 2 * k) THEN words[k] % 256 ELSE words[k] \div 256]

(* mem_set_dram: n bytes from a, both multiples of DRAM_ECC_UNIT. *)
Fill(m, a, byte, n) ==
    [x \in DOMAIN m |-> IF Real(a) <= x /\ x < Real(a + n) THEN byte ELSE m[x]]

(* mem_search_equ: the first of n halfwords that equals v, or n. *)
SearchEqu(m, a, n, v) ==
    LET hits == {i \in 0 .. n - 1 : Read16(m, a + 2 * i) = v}
    IN  IF n = 0 THEN 1 ELSE IF hits = {} THEN n ELSE Min(hits)
=============================================================================
