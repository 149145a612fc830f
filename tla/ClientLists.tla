---------------------------- MODULE ClientLists ----------------------------
(***************************************************************************)
(* What the lists of steps of FlashClients look like, whatever piece of    *)
(* the translation layer they come from: after the registers comes the     *)
(* issue, after a read its waits and its return, after a program from the  *)
(* host the step to the next write buffer; what is programmed from a       *)
(* buffer is waited for before the list fills the buffer again.  The       *)
(* properties of a list put together follow from those of its pieces, so   *)
(* each call of flash_wrapper.c, and each piece of write.c, overwrite.c,   *)
(* read.c and garbage_collection.c, is looked at once.                     *)
(***************************************************************************)
EXTENDS FlashClients, FiniteSetTheorems, SequenceTheorems, TLAPS

-----------------------------------------------------------------------------
(* The commands and the steps there are.                                   *)

Slot     == 0 .. NumWrBufs - 1
HostBufs == {WR_BUF(i) : i \in Slot}
GcBufs   == {GC_BUF(b) : b \in Banks}
Kept     == PageBufs \cup {FTL_BUF(1)}
Targeted == PageBufs \cup GcBufs \cup {FTL_BUF(0), TempBuf}
Filled   == PageBufs \cup {FTL_BUF(0), FTL_BUF(1), ReadBuf, RangeBuf}

Programs == {c \in [op : {"program"}, bank : Banks, buf : Kept \cup GcBufs \cup HostBufs] :
                c.buf \in PageBufs => c.bank = c.buf[2]}
Reads    == [op : {"read"}, bank : Banks, buf : Targeted]
Plain    == [op : {"erase", "generic", "wait"}, bank : Banks, buf : {NoBuf}]
Commands == Programs \cup Reads \cup Plain

Steps == [do : {"regs"}, cmd : Commands]
         \cup [do : {"issue", "accept", "empty", "finish", "restart", "nextId", "sync", "release"}]
         \cup [do : {"done", "idle"}, bank : Banks]
         \cup [do : {"return"}, bank : Banks, buf : Targeted]
         \cup [do : {"copy"}, src : Targeted \cup HostBufs, dst : Filled]
         \cup [do : {"advance"}, buf : PageBufs]
         \cup [do : {"chunks"}, n : 0 .. MaxChunks]
         \cup [do : {"moves"}, bank : Banks, n : 1 .. ChunksPerPage - 1]
         \cup [do : {"collect"}, bank : Banks, prev : Banks \cup {INVALID}, n : 1 .. MaxPages]

Types == /\ fcp \in Commands
         /\ wr \in Commands \cup {None}
         /\ run \in [Banks -> Commands \cup {None}]
         /\ fsm \in [Banks -> {"idle", "before", "after"}]
         /\ \A b \in Banks : /\ fsm[b] = "idle" <=> run[b] = None
                             /\ run[b] # None => run[b].bank = b
         /\ todo \in Seq(Steps)
         /\ resets \in 0 .. MaxResets
         /\ chunkPtr \in [PageBufs -> 0 .. ChunksPerPage - 1]
         /\ lastBank \in Banks \cup {INVALID}
         /\ writeId \in Slot /\ limit \in Slot /\ sata \in Slot

-----------------------------------------------------------------------------
(* What the lists of steps look like.                                      *)

Fills(s, x) == \/ s.do = "advance" /\ s.buf = x
               \/ s.do = "regs" /\ s.cmd.op = "program" /\ s.cmd.buf = x
Uses(s, x)  == \/ s.do = "copy" /\ s.dst = x
               \/ s.do \in {"advance", "return"} /\ s.buf = x
FilledBy(s) == IF s.do = "advance" THEN s.buf[2] ELSE s.cmd.bank

OfRead(t, k) ==
    t[k].cmd.op = "read" =>
        /\ k + 4 \in DOMAIN t
        /\ t[k + 2] = Step("accept")
        /\ t[k + 3] = Await("done", t[k].cmd.bank)
        /\ t[k + 4] = Return(t[k].cmd.bank, t[k].cmd.buf)

OfHostStep(t, k) ==
    OfHost(t[k].cmd) =>
        /\ k + 2 \in DOMAIN t
        /\ t[k + 2] = Step("nextId")
        /\ \A j \in 1 .. k - 1 : t[j] = Step("sync")

Registers(t) ==
    \A k \in DOMAIN t : t[k].do = "regs" =>
        /\ k + 1 \in DOMAIN t
        /\ t[k + 1] = Step("issue")
        /\ OfRead(t, k)
        /\ OfHostStep(t, k)
        /\ t[k].cmd.op = "program" /\ t[k].cmd.buf \in PageBufs => k = 1

Issues(t) ==
    /\ \A k \in DOMAIN t : k > 1 /\ t[k].do = "issue" => t[k - 1].do \in {"regs", "finish"}
    /\ \A k \in DOMAIN t : k > 1 /\ t[k].do = "finish" /\ k + 1 \in DOMAIN t /\ t[k + 1].do = "issue" =>
         /\ t[k - 1].do = "issue"
         /\ k > 2 => t[k - 2].do = "finish" \/ (t[k - 2].do = "regs" /\ t[k - 2].cmd.op = "wait")

Ends(t) ==
    \A k \in DOMAIN t :
        /\ t[k].do = "idle" /\ k > 1 => t[k - 1].do = "empty"
        /\ t[k].do \in {"sync", "restart"} => k = 1
        /\ t[k].do \in {"release", "collect", "nextId"} => k = Len(t)
        /\ t[k].do = "chunks" => k + 1 \in DOMAIN t /\ t[k + 1] = Step("release")
        /\ t[k].do = "moves" => k = Len(t) \/ (k + 1 \in DOMAIN t /\ t[k + 1].do = "collect")

Refilled(t) ==
    \A k \in DOMAIN t : \A j \in 1 .. k - 1 : \A x \in Kept :
        Fills(t[j], x) /\ Uses(t[k], x) =>
            \E i \in j + 1 .. k - 1 : t[i] = Await("idle", FilledBy(t[j]))

Shape(t) == Registers(t) /\ Issues(t) /\ Ends(t) /\ Refilled(t)

Returns(t) ==
    \A k \in DOMAIN t : t[k].do = "return" =>
        /\ k > 1 => t[k - 1] = Await("done", t[k].bank)
        /\ k > 2 => t[k - 2] = Step("accept")
        /\ k > 3 => t[k - 3] = Step("issue")
        /\ k > 4 => t[k - 4] = Regs(Cmd("read", t[k].bank, t[k].buf))

(* What code is made of: pieces that are complete in themselves, and what  *)
(* may come after one.                                                     *)
Quiet(s, x) == \A k \in DOMAIN s : ~Uses(s[k], x)

(* A buffer is waited for before it is used. *)
Guarded(t, x, b) ==
    \A k \in DOMAIN t : Uses(t[k], x) => \E i \in 1 .. k - 1 : t[i] = Await("idle", b)

NoFtl1(t)    == \A k \in DOMAIN t : t[k].do = "regs" => t[k].cmd.buf # FTL_BUF(1)
NoRelease(t) == \A k \in DOMAIN t : t[k].do # "release"

Inner(t) ==
    /\ t \in Seq(Steps)
    /\ Shape(t)
    /\ Returns(t)
    /\ \A k \in DOMAIN t :
         /\ t[k].do \notin {"sync", "restart", "nextId"}
         /\ t[k].do = "regs" /\ t[k].cmd.op = "program" => t[k].cmd.buf \notin PageBufs \cup HostBufs
    /\ t # << >> => /\ t[1].do \notin {"idle", "issue", "accept", "done", "return"}
                    /\ t[1].do = "finish" => (Len(t) > 1 => t[2].do # "issue")

Block(s) ==
    /\ Inner(s)
    /\ \A k \in DOMAIN s : s[k].do \notin {"release", "collect", "chunks", "moves"}

-----------------------------------------------------------------------------
(* Lists of steps.                                                         *)

LEMMA FirstAndRest ==
    ASSUME NEW S, NEW t \in Seq(S), t # << >>
    PROVE  /\ Len(t) \in Nat \ {0} /\ 1 \in DOMAIN t /\ DOMAIN t = 1 .. Len(t)
           /\ Head(t) = t[1] /\ t[1] \in S
           /\ Tail(t) \in Seq(S)
           /\ Len(Tail(t)) = Len(t) - 1
           /\ DOMAIN Tail(t) = 1 .. Len(t) - 1
           /\ \A k \in 1 .. Len(t) - 1 : Tail(t)[k] = t[k + 1] /\ Tail(t)[k] \in S
<1>1. Len(t) \in Nat \ {0} /\ DOMAIN t = 1 .. Len(t)
  BY EmptySeq, LenProperties
<1>2. t[1] \in S /\ Head(t) = t[1]
  BY <1>1, ElementOfSeq
<1>3. Tail(t) \in Seq(S) /\ Len(Tail(t)) = Len(t) - 1 /\ \A i \in 1 .. Len(Tail(t)) : Tail(t)[i] = t[i + 1]
  BY HeadTailProperties
<1>4. DOMAIN Tail(t) = 1 .. Len(t) - 1
  BY <1>3, LenProperties
<1>5. \A k \in 1 .. Len(t) - 1 : Tail(t)[k] \in S
  BY <1>3, <1>1, ElementOfSeq
<1> QED
  BY <1>1, <1>2, <1>3, <1>4, <1>5

LEMMA Joined ==
    ASSUME NEW S, NEW s \in Seq(S), NEW t \in Seq(S)
    PROVE  LET u == s \o t IN
           /\ u \in Seq(S)
           /\ Len(s) \in Nat /\ Len(t) \in Nat
           /\ Len(u) = Len(s) + Len(t)
           /\ DOMAIN s = 1 .. Len(s) /\ DOMAIN t = 1 .. Len(t) /\ DOMAIN u = 1 .. Len(s) + Len(t)
           /\ \A k \in 1 .. Len(s) : u[k] = s[k] /\ s[k] \in S
           /\ \A k \in 1 .. Len(t) : u[Len(s) + k] = t[k] /\ t[k] \in S
           /\ \A k \in Len(s) + 1 .. Len(s) + Len(t) : k - Len(s) \in 1 .. Len(t) /\ u[k] = t[k - Len(s)]
<1> DEFINE u == s \o t
<1>1. u \in Seq(S) /\ Len(u) = Len(s) + Len(t)
  BY ConcatProperties
<1>2. \A i \in 1 .. Len(s) + Len(t) : u[i] = IF i <= Len(s) THEN s[i] ELSE t[i - Len(s)]
  BY ConcatProperties
<1>3. Len(s) \in Nat /\ Len(t) \in Nat /\ DOMAIN s = 1 .. Len(s) /\ DOMAIN t = 1 .. Len(t)
  BY LenProperties
<1>4. DOMAIN u = 1 .. Len(s) + Len(t)
  BY <1>1, LenProperties
<1>5. (\A k \in 1 .. Len(s) : s[k] \in S) /\ (\A k \in 1 .. Len(t) : t[k] \in S)
  BY ElementOfSeq
<1> HIDE DEF u
<1>6. \A k \in 1 .. Len(s) : u[k] = s[k]
  BY <1>2, <1>3
<1>7. \A k \in 1 .. Len(t) : u[Len(s) + k] = t[k]
  BY <1>2, <1>3
<1>8. \A k \in Len(s) + 1 .. Len(s) + Len(t) : k - Len(s) \in 1 .. Len(t) /\ u[k] = t[k - Len(s)]
  BY <1>2, <1>3
<1> QED
  BY <1>1, <1>3, <1>4, <1>5, <1>6, <1>7, <1>8 DEF u

(* What is left of a list of the right shape has the right shape.          *)
LEMMA TailShape ==
    ASSUME NEW t \in Seq(Steps), t # << >>, Shape(t)
    PROVE  Shape(Tail(t))
<1> DEFINE r == Tail(t)
           n == Len(t) - 1
<1>1. /\ n \in Nat /\ n + 1 = Len(t) /\ DOMAIN t = 1 .. n + 1 /\ Len(r) = n /\ DOMAIN r = 1 .. n
      /\ \A k \in 1 .. n : r[k] = t[k + 1]
  BY FirstAndRest
<1>2. \A k \in 1 .. n : k + 1 \in 1 .. n + 1 /\ k + 1 \in DOMAIN t
  BY <1>1
<1> HIDE DEF r, n
<1>3. Registers(r)
  <2> SUFFICES ASSUME NEW k \in 1 .. n, r[k].do = "regs"
               PROVE  /\ k + 1 \in 1 .. n /\ r[k + 1] = Step("issue") /\ OfRead(r, k) /\ OfHostStep(r, k)
                      /\ r[k].cmd.op = "program" /\ r[k].cmd.buf \in PageBufs => k = 1
    BY <1>1 DEF Registers
  <2>1. r[k] = t[k + 1] /\ k + 1 \in 1 .. n + 1 /\ t[k + 1].do = "regs"
    BY <1>1, <1>2
  <2>2. /\ k + 2 \in 1 .. n + 1 /\ t[k + 2] = Step("issue") /\ OfRead(t, k + 1) /\ OfHostStep(t, k + 1)
        /\ t[k + 1].cmd.op = "program" /\ t[k + 1].cmd.buf \in PageBufs => k + 1 = 1
    BY <2>1, <1>1 DEF Shape, Registers
  <2>3. k + 1 \in 1 .. n /\ r[k + 1] = t[k + 2]
    BY <2>2, <1>1
  <2>4. OfRead(r, k)
    <3>1. CASE r[k].cmd.op = "read"
      <4>1. /\ k + 5 \in 1 .. n + 1 /\ t[k + 3] = Step("accept") /\ t[k + 4] = Await("done", t[k + 1].cmd.bank)
            /\ t[k + 5] = Return(t[k + 1].cmd.bank, t[k + 1].cmd.buf)
        BY <3>1, <2>1, <2>2, <1>1 DEF OfRead
      <4>2. k + 4 \in 1 .. n /\ r[k + 2] = t[k + 3] /\ r[k + 3] = t[k + 4] /\ r[k + 4] = t[k + 5]
        BY <4>1, <1>1
      <4> QED
        BY <4>1, <4>2, <2>1, <1>1 DEF OfRead
    <3> QED
      BY <3>1 DEF OfRead
  <2>5. OfHostStep(r, k)
    <3>1. CASE OfHost(r[k].cmd)
      <4>1. k + 3 \in 1 .. n + 1 /\ t[k + 3] = Step("nextId") /\ \A j \in 1 .. k : t[j] = Step("sync")
        BY <3>1, <2>1, <2>2, <1>1 DEF OfHostStep
      <4>2. k + 2 \in 1 .. n /\ r[k + 2] = t[k + 3]
        BY <4>1, <1>1
      <4>3. \A j \in 1 .. k - 1 : r[j] = t[j + 1] /\ j + 1 \in 1 .. k
        BY <1>1
      <4> QED
        BY <4>1, <4>2, <4>3, <2>1, <1>1 DEF OfHostStep
    <3> QED
      BY <3>1 DEF OfHostStep
  <2> QED
    BY <2>1, <2>2, <2>3, <2>4, <2>5
<1>4. Issues(r)
  <2>1. ASSUME NEW k \in 1 .. n, k > 1, r[k].do = "issue"
        PROVE  r[k - 1].do \in {"regs", "finish"}
    <3>1. r[k] = t[k + 1] /\ r[k - 1] = t[k] /\ k + 1 \in DOMAIN t /\ k + 1 > 1 /\ (k + 1) - 1 = k
      BY <2>1, <1>1
    <3> QED
      BY <3>1, <2>1 DEF Shape, Issues
  <2>2. ASSUME NEW k \in 1 .. n, k > 1, r[k].do = "finish", k + 1 \in 1 .. n, r[k + 1].do = "issue"
        PROVE  /\ r[k - 1].do = "issue"
               /\ k > 2 => r[k - 2].do = "finish" \/ (r[k - 2].do = "regs" /\ r[k - 2].cmd.op = "wait")
    <3>1. r[k] = t[k + 1] /\ r[k + 1] = t[k + 2] /\ r[k - 1] = t[k] /\ k + 1 \in 1 .. n + 1 /\ k + 2 \in 1 .. n + 1
      BY <2>2, <1>1
    <3>2. t[k].do = "issue" /\ (t[k - 1].do = "finish" \/ (t[k - 1].do = "regs" /\ t[k - 1].cmd.op = "wait"))
      <4>1. k + 1 \in DOMAIN t /\ k + 1 > 2 /\ (k + 1) - 1 = k /\ (k + 1) - 2 = k - 1 /\ (k + 1) + 1 = k + 2 /\ k + 2 \in DOMAIN t
        BY <3>1, <2>2, <1>1
      <4>2. \A m \in DOMAIN t : m > 2 /\ t[m].do = "finish" /\ m + 1 \in DOMAIN t /\ t[m + 1].do = "issue" =>
               /\ t[m - 1].do = "issue"
               /\ t[m - 2].do = "finish" \/ (t[m - 2].do = "regs" /\ t[m - 2].cmd.op = "wait")
        <5>1. \A m \in DOMAIN t : m > 2 => m > 1
          BY <1>1
        <5> QED
          BY <5>1 DEF Shape, Issues
      <4>3. t[(k + 1) + 1] = t[k + 2] /\ t[(k + 1) - 1] = t[k] /\ t[(k + 1) - 2] = t[k - 1] /\ (k + 1) + 1 \in DOMAIN t
        BY <4>1
      <4>4. t[k + 1].do = "finish" /\ t[(k + 1) + 1].do = "issue"
        BY <4>3, <3>1, <2>2
      <4>5. /\ t[(k + 1) - 1].do = "issue"
            /\ t[(k + 1) - 2].do = "finish" \/ (t[(k + 1) - 2].do = "regs" /\ t[(k + 1) - 2].cmd.op = "wait")
        BY <4>1, <4>2, <4>3, <4>4
      <4> QED
        BY <4>3, <4>5
    <3>3. k > 2 => r[k - 2] = t[k - 1]
      BY <1>1
    <3> QED
      BY <3>1, <3>2, <3>3
  <2> QED
    BY <2>1, <2>2, <1>1 DEF Issues
<1>5. Ends(r)
  <2> SUFFICES ASSUME NEW k \in 1 .. n
               PROVE  /\ r[k].do = "idle" /\ k > 1 => r[k - 1].do = "empty"
                      /\ r[k].do \in {"sync", "restart"} => k = 1
                      /\ r[k].do \in {"release", "collect", "nextId"} => k = n
                      /\ r[k].do = "chunks" => k + 1 \in 1 .. n /\ r[k + 1] = Step("release")
                      /\ r[k].do = "moves" => k = n \/ (k + 1 \in 1 .. n /\ r[k + 1].do = "collect")
    BY <1>1 DEF Ends
  <2>1. r[k] = t[k + 1] /\ k + 1 \in 1 .. n + 1 /\ (k > 1 => r[k - 1] = t[k]) /\ (k + 1 \in 1 .. n => r[k + 1] = t[k + 2])
    BY <1>1
  <2>2. /\ t[k + 1].do = "idle" => t[k].do = "empty"
        /\ t[k + 1].do \in {"sync", "restart"} => k + 1 = 1
        /\ t[k + 1].do \in {"release", "collect", "nextId"} => k + 1 = n + 1
        /\ t[k + 1].do = "chunks" => k + 2 \in 1 .. n + 1 /\ t[k + 2] = Step("release")
        /\ t[k + 1].do = "moves" => k + 1 = n + 1 \/ (k + 2 \in 1 .. n + 1 /\ t[k + 2].do = "collect")
    BY <2>1, <1>1, SMTT(30) DEF Shape, Ends
  <2> QED
    BY <2>1, <2>2, <1>1
<1>6. Refilled(r)
  <2> SUFFICES ASSUME NEW k \in 1 .. n, NEW j \in 1 .. k - 1, NEW x \in Kept, Fills(r[j], x), Uses(r[k], x)
               PROVE  \E i \in j + 1 .. k - 1 : r[i] = Await("idle", FilledBy(r[j]))
    BY <1>1 DEF Refilled
  <2>1. r[k] = t[k + 1] /\ r[j] = t[j + 1] /\ k + 1 \in DOMAIN t /\ j + 1 \in 1 .. (k + 1) - 1
    BY <1>1
  <2>2. PICK i \in j + 2 .. k : t[i] = Await("idle", FilledBy(t[j + 1]))
    BY <2>1 DEF Shape, Refilled
  <2>3. i - 1 \in j + 1 .. k - 1 /\ r[i - 1] = t[i]
    BY <1>1
  <2> QED
    BY <2>1, <2>2, <2>3
<1> QED
  BY <1>3, <1>4, <1>5, <1>6 DEF Shape, r

(* A piece and what comes after it make a list of the right shape.         *)
LEMMA Compose ==
    ASSUME NEW s, NEW t, Block(s), Inner(t),
           \A x \in Kept : \A j \in DOMAIN s : Fills(s[j], x) => Quiet(t, x)
    PROVE  Inner(s \o t) /\ (Block(t) => Block(s \o t))
<1> DEFINE u == s \o t
           m == Len(s)
           n == Len(t)
<1>1. s \in Seq(Steps) /\ t \in Seq(Steps) /\ Inner(s)
  BY DEF Block, Inner
<1>2. /\ u \in Seq(Steps) /\ m \in Nat /\ n \in Nat
      /\ DOMAIN s = 1 .. m /\ DOMAIN t = 1 .. n /\ DOMAIN u = 1 .. m + n /\ Len(u) = m + n
      /\ \A k \in 1 .. m : u[k] = s[k] /\ s[k] \in Steps
      /\ \A k \in 1 .. n : u[m + k] = t[k] /\ t[k] \in Steps
      /\ \A k \in m + 1 .. m + n : k - m \in 1 .. n /\ u[k] = t[k - m]
  BY <1>1, Joined
<1> HIDE DEF u, m, n
<1>0. m \in Nat /\ n \in Nat
  BY <1>2
<1>3. \A k \in 1 .. m + n : k \in 1 .. m \/ k \in m + 1 .. m + n
  BY <1>2
<1>4. s # << >> => m >= 1
  BY <1>1, <1>2, EmptySeq DEF m
<1>5. t # << >> => n >= 1
  BY <1>1, <1>2, EmptySeq DEF n
<1>6. m >= 1 => s # << >>
  BY <1>2, EmptySeq DEF m
<1>7. n >= 1 => t # << >>
  BY <1>2, EmptySeq DEF n
<1>8. Registers(u)
  <2> SUFFICES ASSUME NEW k \in 1 .. m + n, u[k].do = "regs"
               PROVE  /\ k + 1 \in DOMAIN u /\ u[k + 1] = Step("issue") /\ OfRead(u, k) /\ OfHostStep(u, k)
                      /\ u[k].cmd.op = "program" /\ u[k].cmd.buf \in PageBufs => k = 1
    BY <1>2 DEF Registers
  <2>1. CASE k \in 1 .. m
    <3>1. u[k] = s[k] /\ s[k].do = "regs" /\ k \in DOMAIN s
      BY <1>2, <2>1
    <3>2. k + 1 \in 1 .. m /\ s[k + 1] = Step("issue") /\ OfRead(s, k) /\ OfHostStep(s, k)
      BY <3>1, <1>1, <1>2 DEF Inner, Shape, Registers
    <3>3. s[k].cmd.op = "program" => s[k].cmd.buf \notin PageBufs \cup HostBufs
      BY <3>1, <1>1 DEF Inner
    <3>4. OfRead(u, k)
      BY <3>1, <3>2, <1>2 DEF OfRead
    <3>5. ~OfHost(s[k].cmd)
      BY <3>2, <3>1, <1>1, <1>2 DEF OfHostStep, Inner, Step
    <3> QED
      BY <3>1, <3>2, <3>3, <3>4, <3>5, <1>2 DEF OfHostStep
  <2>2. CASE k \in m + 1 .. m + n
    <3> DEFINE l == k - m
    <3>1. l \in 1 .. n /\ u[k] = t[l] /\ k = m + l /\ l \in DOMAIN t /\ t[l].do = "regs"
      BY <1>2, <2>2
    <3> HIDE DEF l
    <3>2. l + 1 \in 1 .. n /\ t[l + 1] = Step("issue") /\ OfRead(t, l) /\ OfHostStep(t, l)
      BY <3>1, <1>2 DEF Inner, Shape, Registers
    <3>3. t[l].cmd.op = "program" => t[l].cmd.buf \notin PageBufs \cup HostBufs
      BY <3>1 DEF Inner
    <3>4. OfRead(u, k)
      <4>1. CASE t[l].cmd.op = "read"
        <5>1. /\ l + 4 \in 1 .. n /\ t[l + 2] = Step("accept") /\ t[l + 3] = Await("done", t[l].cmd.bank)
              /\ t[l + 4] = Return(t[l].cmd.bank, t[l].cmd.buf)
          BY <4>1, <3>2, <1>2 DEF OfRead
        <5>2. /\ k + 4 \in 1 .. m + n /\ u[k + 2] = t[l + 2] /\ u[k + 3] = t[l + 3] /\ u[k + 4] = t[l + 4]
          <6>0. l \in 1 .. n /\ k = m + l /\ l + 4 \in 1 .. n
            BY <5>1, <3>1
          <6>1. l + 2 \in 1 .. n /\ l + 3 \in 1 .. n /\ k + 2 = m + (l + 2) /\ k + 3 = m + (l + 3) /\ k + 4 = m + (l + 4)
            BY ONLY <6>0, <1>0
          <6> QED
            BY <6>1, <5>1, <1>2
        <5> QED
          BY <5>1, <5>2, <3>1, <1>2 DEF OfRead
      <4> QED
        BY <4>1, <3>1 DEF OfRead
    <3>5. ~OfHost(t[l].cmd)
      <4>1. OfHost(t[l].cmd) => l + 2 \in DOMAIN t /\ t[l + 2] = Step("nextId")
        BY <3>2 DEF OfHostStep
      <4>2. \A h \in DOMAIN t : t[h].do # "nextId"
        BY DEF Inner
      <4> QED
        BY <4>1, <4>2 DEF Step
    <3>6. k + 1 = m + (l + 1) /\ k + 1 \in 1 .. m + n
      BY <3>1, <3>2, <1>2
    <3>7. u[k + 1] = t[l + 1]
      BY <3>6, <3>2, <1>2
    <3> QED
      BY <3>1, <3>2, <3>3, <3>4, <3>5, <3>6, <3>7, <1>2 DEF OfHostStep
  <2> QED
    BY <2>1, <2>2, <1>3
<1>9. Issues(u)
  <2>1. ASSUME NEW k \in 1 .. m + n, k > 1, u[k].do = "issue"
        PROVE  u[k - 1].do \in {"regs", "finish"}
    <3>1. CASE k \in 1 .. m
      <4>1. k \in DOMAIN s /\ s[k].do = "issue" /\ k - 1 \in 1 .. m /\ u[k - 1] = s[k - 1]
        BY <3>1, <2>1, <1>2
      <4> QED
        BY <4>1, <2>1, <1>1 DEF Inner, Shape, Issues
    <3>2. CASE k \in m + 1 .. m + n
      <4> DEFINE l == k - m
      <4>1. l \in DOMAIN t /\ l \in 1 .. n /\ t[l].do = "issue" /\ k = m + l
        BY <3>2, <2>1, <1>2
      <4> HIDE DEF l
      <4>2. l # 1
        BY <4>1, <1>7, <1>2 DEF Inner
      <4>3. l > 1 /\ l - 1 \in 1 .. n /\ k - 1 = m + (l - 1)
        BY <4>1, <4>2, <1>2
      <4>4. u[k - 1] = t[l - 1]
        BY <4>3, <1>2
      <4> QED
        BY <4>1, <4>3, <4>4 DEF Inner, Shape, Issues
    <3> QED
      BY <3>1, <3>2, <1>3
  <2>2. ASSUME NEW k \in 1 .. m + n, k > 1, u[k].do = "finish", k + 1 \in 1 .. m + n, u[k + 1].do = "issue"
        PROVE  /\ u[k - 1].do = "issue"
               /\ k > 2 => u[k - 2].do = "finish" \/ (u[k - 2].do = "regs" /\ u[k - 2].cmd.op = "wait")
    <3>1. CASE k \in 1 .. m
      <4>1. k # m
        <5>1. ASSUME k = m
              PROVE  FALSE
          <6>1. 1 \in 1 .. n /\ u[m + 1] = t[1]
            BY <5>1, <2>2, <1>2
          <6> QED
            BY <6>1, <5>1, <2>2, <1>7, <1>2 DEF Inner
        <5> QED
          BY <5>1
      <4>2. k \in DOMAIN s /\ k + 1 \in DOMAIN s /\ s[k].do = "finish" /\ s[k + 1].do = "issue"
        BY <3>1, <4>1, <2>2, <1>2
      <4>3. u[k - 1] = s[k - 1] /\ (k > 2 => u[k - 2] = s[k - 2])
        BY <3>1, <2>2, <1>2
      <4> QED
        BY <4>2, <4>3, <2>2, <1>1 DEF Inner, Shape, Issues
    <3>2. CASE k \in m + 1 .. m + n
      <4> DEFINE l == k - m
      <4>1. l \in DOMAIN t /\ l \in 1 .. n /\ t[l].do = "finish" /\ k = m + l
        BY <3>2, <2>2, <1>2
      <4> HIDE DEF l
      <4>2. l + 1 \in 1 .. n /\ l + 1 \in DOMAIN t /\ k + 1 = m + (l + 1)
        BY <4>1, <2>2, <1>2
      <4>3. t[l + 1].do = "issue"
        BY <4>2, <2>2, <1>2
      <4>4. l # 1
        <5>1. ASSUME l = 1
              PROVE  FALSE
          <6>1. t # << >> /\ t[1].do = "finish" /\ t[2].do = "issue" /\ n > 1
            BY <5>1, <4>1, <4>2, <4>3, <1>2, <1>7
          <6> QED
            BY <6>1 DEF Inner, n
        <5> QED
          BY <5>1
      <4>5. l > 1 /\ l - 1 \in 1 .. n /\ k - 1 = m + (l - 1)
        BY <4>1, <4>4, <1>2
      <4>6. /\ t[l - 1].do = "issue"
            /\ l > 2 => t[l - 2].do = "finish" \/ (t[l - 2].do = "regs" /\ t[l - 2].cmd.op = "wait")
        BY <4>1, <4>2, <4>3, <4>5 DEF Inner, Shape, Issues
      <4>7. l # 2
        BY <4>6, <1>7, <4>1, <1>2 DEF Inner
      <4>8. l > 2 /\ l - 2 \in 1 .. n /\ k - 2 = m + (l - 2)
        BY <4>5, <4>7, <4>1, <1>2
      <4>9. u[k - 1] = t[l - 1] /\ u[k - 2] = t[l - 2]
        BY <4>5, <4>8, <1>2
      <4> QED
        BY <4>6, <4>8, <4>9
    <3> QED
      BY <3>1, <3>2, <1>3
  <2> QED
    BY <2>1, <2>2, <1>2 DEF Issues
<1>10. Ends(u)
  <2> SUFFICES ASSUME NEW k \in 1 .. m + n
               PROVE  /\ u[k].do = "idle" /\ k > 1 => u[k - 1].do = "empty"
                      /\ u[k].do \in {"sync", "restart"} => k = 1
                      /\ u[k].do \in {"release", "collect", "nextId"} => k = m + n
                      /\ u[k].do = "chunks" => k + 1 \in 1 .. m + n /\ u[k + 1] = Step("release")
                      /\ u[k].do = "moves" => k = m + n \/ (k + 1 \in 1 .. m + n /\ u[k + 1].do = "collect")
    BY <1>2 DEF Ends
  <2>1. CASE k \in 1 .. m
    <3>1. /\ k \in DOMAIN s /\ u[k] = s[k]
          /\ s[k].do \notin {"sync", "restart", "release", "collect", "nextId", "chunks", "moves"}
      BY <2>1, <1>2, <1>1 DEF Block, Inner
    <3>2. k > 1 => u[k - 1] = s[k - 1]
      BY <2>1, <1>2
    <3>3. s[k].do = "idle" /\ k > 1 => s[k - 1].do = "empty"
      BY <3>1, <1>1 DEF Inner, Shape, Ends
    <3> QED
      BY <3>1, <3>2, <3>3
  <2>2. CASE k \in m + 1 .. m + n
    <3> DEFINE l == k - m
    <3>1. l \in DOMAIN t /\ l \in 1 .. n /\ u[k] = t[l] /\ k = m + l
      BY <2>2, <1>2
    <3> HIDE DEF l
    <3>2. /\ t[l].do = "idle" /\ l > 1 => t[l - 1].do = "empty"
          /\ t[l].do \notin {"sync", "restart", "nextId"}
          /\ t[l].do \in {"release", "collect", "nextId"} => l = n
          /\ t[l].do = "chunks" => l + 1 \in 1 .. n /\ t[l + 1] = Step("release")
          /\ t[l].do = "moves" => l = n \/ (l + 1 \in 1 .. n /\ t[l + 1].do = "collect")
      BY <3>1, <1>2 DEF Inner, Shape, Ends, n
    <3>3. l = 1 => t[l].do # "idle"
      BY <3>1, <1>2, <1>7 DEF Inner
    <3>4. l > 1 => u[k - 1] = t[l - 1]
      <4>1. l > 1 => l - 1 \in 1 .. n /\ k - 1 = m + (l - 1)
        BY <3>1, <1>2
      <4> QED
        BY <4>1, <1>2
    <3>5. l + 1 \in 1 .. n => k + 1 \in 1 .. m + n /\ u[k + 1] = t[l + 1]
      <4>0. l \in 1 .. n /\ k = m + l
        BY <3>1
      <4>1. l + 1 \in 1 .. n => k + 1 \in 1 .. m + n /\ k + 1 = m + (l + 1)
        BY ONLY <4>0, <1>0
      <4> QED
        BY <4>1, <1>2
    <3>6. l = n => k = m + n
      BY <3>1
    <3>7. l > 1 \/ l = 1
      BY <3>1, <1>2
    <3> QED
      BY <3>1, <3>2, <3>3, <3>4, <3>5, <3>6, <3>7
  <2> QED
    BY <2>1, <2>2, <1>3
<1>11. Refilled(u)
  <2> SUFFICES ASSUME NEW k \in 1 .. m + n, NEW j \in 1 .. k - 1, NEW x \in Kept, Fills(u[j], x), Uses(u[k], x)
               PROVE  \E i \in j + 1 .. k - 1 : u[i] = Await("idle", FilledBy(u[j]))
    BY <1>2 DEF Refilled
  <2>1. CASE k \in 1 .. m
    <3>1. j \in 1 .. m /\ u[j] = s[j] /\ u[k] = s[k] /\ k \in DOMAIN s
      BY <2>1, <1>2
    <3>2. PICK i \in j + 1 .. k - 1 : s[i] = Await("idle", FilledBy(s[j]))
      BY <3>1, <1>1 DEF Inner, Shape, Refilled
    <3>3. u[i] = s[i]
      BY <2>1, <1>2
    <3> QED
      BY <3>1, <3>2, <3>3
  <2>2. CASE k \in m + 1 .. m + n /\ j \in 1 .. m
    <3>1. k - m \in DOMAIN t /\ u[k] = t[k - m] /\ j \in DOMAIN s /\ u[j] = s[j]
      BY <2>2, <1>2
    <3>2. Quiet(t, x)
      BY <3>1
    <3> QED
      BY <3>1, <3>2 DEF Quiet
  <2>3. CASE k \in m + 1 .. m + n /\ j \in m + 1 .. m + n
    <3> DEFINE l == k - m
               h == j - m
    <3>1. l \in DOMAIN t /\ l \in 1 .. n /\ h \in 1 .. l - 1 /\ u[k] = t[l] /\ u[j] = t[h] /\ k = m + l /\ j = m + h
      BY <2>3, <1>2
    <3> HIDE DEF l, h
    <3>2. PICK i \in h + 1 .. l - 1 : t[i] = Await("idle", FilledBy(t[h]))
      BY <3>1 DEF Inner, Shape, Refilled
    <3>3. i \in 1 .. n /\ m + i \in j + 1 .. k - 1
      BY <3>1, <1>2, SMTT(30)
    <3>4. u[m + i] = t[i]
      BY <3>3, <1>2
    <3> QED
      BY <3>1, <3>2, <3>3, <3>4
  <2>4. j \in 1 .. m + n
    BY <1>2
  <2>5. k \in 1 .. m \/ k \in m + 1 .. m + n
    BY <1>3
  <2>6. j \in 1 .. m \/ j \in m + 1 .. m + n
    BY <1>3, <2>4
  <2> QED
    BY <2>1, <2>2, <2>3, <2>5, <2>6
<1>12. Returns(u)
  <2> SUFFICES ASSUME NEW k \in 1 .. m + n, u[k].do = "return"
               PROVE  /\ k > 1 => u[k - 1] = Await("done", u[k].bank)
                      /\ k > 2 => u[k - 2] = Step("accept")
                      /\ k > 3 => u[k - 3] = Step("issue")
                      /\ k > 4 => u[k - 4] = Regs(Cmd("read", u[k].bank, u[k].buf))
    BY <1>2 DEF Returns
  <2>1. CASE k \in 1 .. m
    <3>1. /\ k \in DOMAIN s /\ u[k] = s[k] /\ (k > 1 => u[k - 1] = s[k - 1]) /\ (k > 2 => u[k - 2] = s[k - 2])
          /\ (k > 3 => u[k - 3] = s[k - 3]) /\ (k > 4 => u[k - 4] = s[k - 4])
      BY <2>1, <1>2
    <3>2. s[k].do = "return"
      BY <3>1
    <3> QED
      BY <3>1, <3>2, <1>1 DEF Inner, Returns
  <2>2. CASE k \in m + 1 .. m + n
    <3> DEFINE l == k - m
    <3>1. l \in DOMAIN t /\ l \in 1 .. n /\ u[k] = t[l] /\ k = m + l
      BY <2>2, <1>2
    <3> HIDE DEF l
    <3>2. /\ l > 1 => t[l - 1] = Await("done", t[l].bank)
          /\ l > 2 => t[l - 2] = Step("accept")
          /\ l > 3 => t[l - 3] = Step("issue")
          /\ l > 4 => t[l - 4] = Regs(Cmd("read", t[l].bank, t[l].buf))
      BY <3>1 DEF Inner, Returns
    <3>3. t[1].do \notin {"issue", "accept", "done", "return"}
      BY <3>1, <1>2, <1>7 DEF Inner
    <3>7. t[l].do = "return"
      BY <3>1
    <3>8. l \in 1 .. n /\ k = m + l
      BY <3>1
    <3>4. l # 1 /\ l # 2 /\ l # 3 /\ l # 4
      <4>1. l # 1
        BY <3>7, <3>3
      <4>2. l = 2 => t[1].do = "done"
        BY <3>2 DEF Await
      <4>3. l = 3 => t[1].do = "accept"
        BY <3>2 DEF Step
      <4>4. l = 4 => t[1].do = "issue"
        BY <3>2 DEF Step
      <4> QED
        BY <4>1, <4>2, <4>3, <4>4, <3>3
    <3>5. /\ l > 4 /\ k - 1 = m + (l - 1) /\ k - 2 = m + (l - 2) /\ k - 3 = m + (l - 3) /\ k - 4 = m + (l - 4)
          /\ l - 1 \in 1 .. n /\ l - 2 \in 1 .. n /\ l - 3 \in 1 .. n /\ l - 4 \in 1 .. n
      BY ONLY <3>8, <3>4, <1>0
    <3>6. u[k - 1] = t[l - 1] /\ u[k - 2] = t[l - 2] /\ u[k - 3] = t[l - 3] /\ u[k - 4] = t[l - 4]
      BY <3>5, <1>2
    <3> QED
      BY <3>1, <3>2, <3>5, <3>6
  <2> QED
    BY <2>1, <2>2, <1>3
<1>13. ASSUME NEW k \in DOMAIN u
       PROVE  /\ u[k].do \notin {"sync", "restart", "nextId"}
              /\ u[k].do = "regs" /\ u[k].cmd.op = "program" => u[k].cmd.buf \notin PageBufs \cup HostBufs
              /\ Block(t) => u[k].do \notin {"release", "collect", "chunks", "moves"}
  <2>1. CASE k \in 1 .. m
    <3>1. k \in DOMAIN s /\ u[k] = s[k]
      BY <2>1, <1>2
    <3> QED
      BY <3>1, <1>1 DEF Block, Inner
  <2>2. CASE k \in m + 1 .. m + n
    <3>1. k - m \in DOMAIN t /\ u[k] = t[k - m]
      BY <2>2, <1>2
    <3> QED
      BY <3>1 DEF Block, Inner
  <2> QED
    BY <2>1, <2>2, <1>3, <1>2
<1>14. u # << >> => /\ u[1].do \notin {"idle", "issue", "accept", "done", "return"}
                    /\ u[1].do = "finish" => (Len(u) > 1 => u[2].do # "issue")
  <2>1. CASE s = << >>
    <3>1. u = t
      BY <2>1, <1>1, ConcatEmptySeq DEF u
    <3> QED
      BY <3>1 DEF Inner
  <2>2. CASE s # << >>
    <3>1. m >= 1 /\ u[1] = s[1]
      BY <2>2, <1>2, <1>4
    <3>2. m > 1 => u[2] = s[2]
      BY <1>2
    <3>3. m = 1 /\ Len(u) > 1 => u[2] = t[1] /\ t # << >>
      BY <1>2, <1>7
    <3>4. t # << >> => t[1].do # "issue"
      BY DEF Inner
    <3>5. m > 1 => (s[1].do = "finish" => s[2].do # "issue")
      BY <2>2, <1>1 DEF Inner, m
    <3>6. m > 1 \/ m = 1
      BY <3>1, <1>2
    <3> QED
      BY <3>1, <3>2, <3>3, <3>4, <3>5, <3>6, <2>2, <1>1 DEF Inner
  <2> QED
    BY <2>1, <2>2
<1> QED
  BY <1>2, <1>8, <1>9, <1>10, <1>11, <1>12, <1>13, <1>14 DEF Block, Inner, Shape, u

(* Copies, and one buffer that is full after them.                         *)
LEMMA CopiesBlock ==
    ASSUME NEW t \in Seq(Steps),
           \A k \in DOMAIN t : t[k].do \in {"copy", "advance"},
           \A k \in DOMAIN t : t[k].do = "advance" => k = Len(t)
    PROVE  Block(t)
<1>1. DOMAIN t = 1 .. Len(t) /\ Len(t) \in Nat
  BY LenProperties
<1>2. \A k \in DOMAIN t : t[k].do \notin {"regs", "issue", "finish", "idle", "sync", "restart", "release", "collect",
                                         "nextId", "chunks", "moves", "return", "accept", "done"}
  OBVIOUS
<1>3. Registers(t) /\ Issues(t) /\ Ends(t) /\ Returns(t)
  BY <1>2 DEF Registers, Issues, Ends, Returns
<1>4. Refilled(t)
  <2> SUFFICES ASSUME NEW k \in DOMAIN t, NEW j \in 1 .. k - 1, NEW x \in Kept, Fills(t[j], x), Uses(t[k], x)
               PROVE  FALSE
    BY DEF Refilled
  <2>1. j \in DOMAIN t /\ j # Len(t)
    <3> DEFINE n == Len(t)
    <3>1. n \in Nat /\ k \in 1 .. n
      BY <1>1
    <3>2. n \in Nat /\ DOMAIN t = 1 .. n
      BY <1>1
    <3> HIDE DEF n
    <3>3. j \in 1 .. n /\ j # n
      BY <3>1
    <3> QED
      BY <3>2, <3>3 DEF n
  <2>2. t[j].do = "advance"
    BY <2>1, <1>2 DEF Fills
  <2> QED
    BY <2>1, <2>2
<1>5. t # << >> => 1 \in DOMAIN t
  BY <1>1, EmptySeq
<1> QED
  BY <1>2, <1>3, <1>4, <1>5 DEF Block, Inner, Shape

LEMMA WaitBlock ==
    ASSUME NEW b \in Banks
    PROVE  LET t == waitBusyBank(b) IN
           /\ Block(t) /\ Len(t) = 2 /\ t[1] = Step("empty") /\ t[2] = Await("idle", b)
           /\ \A x : Quiet(t, x)
           /\ \A x : \A k \in DOMAIN t : ~Fills(t[k], x)
<1> DEFINE t == waitBusyBank(b)
<1>1. Step("empty") \in Steps /\ Await("idle", b) \in Steps
  BY DEF Step, Await, Steps
<1>2. t \in Seq(Steps) /\ Len(t) = 2 /\ DOMAIN t = 1 .. 2 /\ t[1] = Step("empty") /\ t[2] = Await("idle", b)
  BY <1>1 DEF waitBusyBank
<1>3. t[1].do = "empty" /\ t[2].do = "idle" /\ \A k \in DOMAIN t : k = 1 \/ k = 2
  BY <1>2 DEF Step, Await
<1> HIDE DEF t
<1>4. \A k \in DOMAIN t : t[k].do \in {"empty", "idle"}
  BY <1>3
<1>5. Registers(t) /\ Issues(t) /\ Returns(t)
  BY <1>4 DEF Registers, Issues, Returns
<1>6. Ends(t)
  BY <1>2, <1>3 DEF Ends
<1>7. \A x : \A k \in DOMAIN t : ~Fills(t[k], x) /\ ~Uses(t[k], x)
  BY <1>4 DEF Fills, Uses
<1>8. Refilled(t)
  BY <1>7 DEF Refilled
<1>9. Block(t)
  BY <1>2, <1>3, <1>4, <1>5, <1>6, <1>8 DEF Block, Inner, Shape
<1> QED
  BY <1>2, <1>7, <1>9 DEF Quiet, t

LEMMA ReadBlock ==
    ASSUME NEW b \in Banks, NEW x \in Targeted
    PROVE  LET t == nand_page_read(b, x) IN
           /\ Block(t) /\ Len(t) = 5
           /\ \A y : y # x => Quiet(t, y)
           /\ \A y : \A k \in DOMAIN t : ~Fills(t[k], y)
           /\ \A k \in DOMAIN t : t[k].do = "regs" => t[k].cmd.buf = x
<1> DEFINE t == nand_page_read(b, x)
           c == Cmd("read", b, x)
<1>1. /\ Regs(c) \in Steps /\ Step("issue") \in Steps /\ Step("accept") \in Steps
      /\ Await("done", b) \in Steps /\ Return(b, x) \in Steps
  <2>1. c \in Commands
    BY DEF Cmd, Commands, Reads
  <2> HIDE DEF c
  <2> QED
    BY <2>1 DEF Regs, Step, Await, Return, Steps
<1>2. c.op = "read" /\ c.bank = b /\ c.buf = x
  BY DEF Cmd
<1> HIDE DEF c
<1>3. t = << Regs(c), Step("issue") >> \o << Step("accept"), Await("done", c.bank) >> \o << Return(b, x) >>
  BY DEF nand_page_read, WhenDone, OnIssue, c, Cmd
<1> HIDE DEF t
<1>4. /\ t \in Seq(Steps) /\ Len(t) = 5 /\ DOMAIN t = 1 .. 5 /\ t[1] = Regs(c) /\ t[2] = Step("issue")
      /\ t[3] = Step("accept") /\ t[4] = Await("done", b) /\ t[5] = Return(b, x)
  BY <1>1, <1>2, <1>3
<1>5. /\ t[1].do = "regs" /\ t[2].do = "issue" /\ t[3].do = "accept" /\ t[4].do = "done" /\ t[5].do = "return"
      /\ t[1].cmd = c /\ t[5].buf = x /\ t[5].bank = b
  BY <1>4 DEF Regs, Step, Await, Return
<1>6. \A k \in DOMAIN t : k = 1 \/ k = 2 \/ k = 3 \/ k = 4 \/ k = 5
  BY <1>4
<1>7. \A k \in DOMAIN t : (t[k].do = "regs" => k = 1) /\ (t[k].do = "issue" => k = 2) /\ (t[k].do = "return" => k = 5)
                          /\ t[k].do \in {"regs", "issue", "accept", "done", "return"}
  BY <1>5, <1>6
<1>8. Registers(t)
  <2>1. OfRead(t, 1)
    BY <1>2, <1>4, <1>5 DEF OfRead
  <2>2. OfHostStep(t, 1)
    BY <1>2, <1>5 DEF OfHostStep, OfHost, Targeted, PageBufs, GcBufs, LOG_BUF, OW_LOG_BUF, FTL_BUF, GC_BUF, TempBuf
  <2> QED
    BY <2>1, <2>2, <1>2, <1>4, <1>5, <1>7 DEF Registers
<1>9. Issues(t) /\ Ends(t)
  BY <1>4, <1>5, <1>7 DEF Issues, Ends
<1>10. Returns(t)
  BY <1>2, <1>4, <1>5, <1>7 DEF Returns, c
<1>11. \A y : \A k \in DOMAIN t : ~Fills(t[k], y)
  BY <1>2, <1>5, <1>7 DEF Fills
<1>12. Refilled(t)
  <2>1. \A k \in DOMAIN t : \A j \in 1 .. k - 1 : j \in DOMAIN t
    BY <1>4
  <2> QED
    BY <2>1, <1>11 DEF Refilled
<1>13. Block(t)
  BY <1>2, <1>4, <1>5, <1>7, <1>8, <1>9, <1>10, <1>12 DEF Block, Inner, Shape
<1>14. \A y : y # x => Quiet(t, y)
  BY <1>5, <1>7 DEF Quiet, Uses
<1>15. \A k \in DOMAIN t : t[k].do = "regs" => t[k].cmd.buf = x
  BY <1>2, <1>5, <1>7
<1> QED
  BY <1>4, <1>11, <1>13, <1>14, <1>15 DEF t

(* A command that is not waited for: what has no buffer, or a program that *)
(* is neither of LOG_BUF or OW_LOG_BUF nor from the host.                  *)
LEMMA IssueBlock ==
    ASSUME NEW c \in Commands, c.op # "read", c.op = "program" => c.buf \notin PageBufs \cup HostBufs
    PROVE  LET t == OnIssue(c) IN
           /\ Block(t) /\ Len(t) = 2 /\ t[1] = Regs(c) /\ t[2] = Step("issue")
           /\ \A x : Quiet(t, x)
           /\ \A x : \A k \in DOMAIN t : Fills(t[k], x) => c.op = "program" /\ c.buf = x
           /\ \A k \in DOMAIN t : t[k].do = "regs" => t[k].cmd = c
<1> DEFINE t == OnIssue(c)
<1>1. Regs(c) \in Steps /\ Step("issue") \in Steps
  BY DEF Regs, Step, Steps
<1>2. t \in Seq(Steps) /\ Len(t) = 2 /\ DOMAIN t = 1 .. 2 /\ t[1] = Regs(c) /\ t[2] = Step("issue")
  BY <1>1 DEF OnIssue
<1>3. t[1].do = "regs" /\ t[1].cmd = c /\ t[2].do = "issue" /\ \A k \in DOMAIN t : k = 1 \/ k = 2
  BY <1>2 DEF Regs, Step
<1> HIDE DEF t
<1>4. \A k \in DOMAIN t : t[k].do \in {"regs", "issue"} /\ (t[k].do = "regs" => k = 1) /\ (t[k].do = "issue" => k = 2)
  BY <1>3
<1>5. ~OfHost(c)
  BY DEF OfHost, Commands, Programs, Reads, Plain, Kept, PageBufs, GcBufs, HostBufs, LOG_BUF, OW_LOG_BUF, FTL_BUF,
         GC_BUF, NoBuf
<1>6. Registers(t)
  BY <1>2, <1>3, <1>4, <1>5 DEF Registers, OfRead, OfHostStep
<1>7. Issues(t) /\ Returns(t) /\ Ends(t)
  BY <1>2, <1>3, <1>4 DEF Issues, Returns, Ends
<1>8. \A x : \A k \in DOMAIN t : (Fills(t[k], x) => c.op = "program" /\ c.buf = x) /\ ~Uses(t[k], x)
  BY <1>3, <1>4 DEF Fills, Uses
<1>9. Refilled(t)
  BY <1>8 DEF Refilled
<1>10. Block(t)
  BY <1>2, <1>3, <1>4, <1>6, <1>7, <1>9 DEF Block, Inner, Shape
<1>11. \A k \in DOMAIN t : t[k].do = "regs" => t[k].cmd = c
  BY <1>3, <1>4
<1> QED
  BY <1>2, <1>8, <1>10, <1>11 DEF Quiet, t

LEMMA EraseSyncBlock ==
    ASSUME NEW b \in Banks
    PROVE  LET t == nand_block_erase_sync(b) IN
           Block(t) /\ NoFtl1(t) /\ NoRelease(t) /\ \A x : Quiet(t, x)
<1> DEFINE t == nand_block_erase_sync(b)
           c == Cmd("erase", b, NoBuf)
<1>1. Regs(c) \in Steps /\ Step("issue") \in Steps /\ Step("accept") \in Steps /\ Await("done", b) \in Steps
  <2>1. c \in Commands
    BY DEF Cmd, Commands, Plain
  <2> HIDE DEF c
  <2> QED
    BY <2>1 DEF Regs, Step, Await, Steps
<1>2. c.op = "erase" /\ c.bank = b /\ c.buf = NoBuf
  BY DEF Cmd
<1> HIDE DEF c
<1>3. t = << Regs(c), Step("issue") >> \o << Step("accept"), Await("done", c.bank) >>
  BY DEF nand_block_erase_sync, WhenDone, OnIssue, c, Cmd
<1> HIDE DEF t
<1>4. /\ t \in Seq(Steps) /\ Len(t) = 4 /\ DOMAIN t = 1 .. 4 /\ t[1] = Regs(c) /\ t[2] = Step("issue")
      /\ t[3] = Step("accept") /\ t[4] = Await("done", b)
  BY <1>1, <1>2, <1>3
<1>5. /\ t[1].do = "regs" /\ t[2].do = "issue" /\ t[3].do = "accept" /\ t[4].do = "done" /\ t[1].cmd = c
      /\ \A k \in DOMAIN t : k = 1 \/ k = 2 \/ k = 3 \/ k = 4
  BY <1>4 DEF Regs, Step, Await
<1>6. \A k \in DOMAIN t : (t[k].do = "regs" => k = 1) /\ (t[k].do = "issue" => k = 2)
                          /\ t[k].do \in {"regs", "issue", "accept", "done"}
  BY <1>5
<1>7. Registers(t)
  BY <1>2, <1>4, <1>5, <1>6 DEF Registers, OfRead, OfHostStep, OfHost, NoBuf
<1>8. Issues(t) /\ Ends(t) /\ Returns(t)
  BY <1>4, <1>5, <1>6 DEF Issues, Ends, Returns
<1>9. \A x : \A k \in DOMAIN t : ~Uses(t[k], x)
  BY <1>6 DEF Uses
<1>10. Refilled(t)
  BY <1>9 DEF Refilled
<1>11. Block(t)
  BY <1>2, <1>4, <1>5, <1>6, <1>7, <1>8, <1>10 DEF Block, Inner, Shape
<1>12. NoFtl1(t) /\ NoRelease(t)
  BY <1>2, <1>5, <1>6 DEF NoFtl1, NoRelease, NoBuf, FTL_BUF
<1> QED
  BY <1>9, <1>11, <1>12 DEF Quiet, t

LEMMA JoinedSteps ==
    ASSUME NEW s \in Seq(Steps), NEW t \in Seq(Steps)
    PROVE  LET u == s \o t IN
           /\ u \in Seq(Steps)
           /\ \A x : Quiet(s, x) /\ Quiet(t, x) => Quiet(u, x)
           /\ \A x, b : (Quiet(s, x) /\ Guarded(t, x, b)) \/ (Guarded(s, x, b) /\ Quiet(t, x)) => Guarded(u, x, b)
           /\ \A b : (\E i \in DOMAIN s : s[i] = Await("idle", b)) => \A x : Guarded(s, x, b) => Guarded(u, x, b)
           /\ NoFtl1(s) /\ NoFtl1(t) => NoFtl1(u)
           /\ NoRelease(s) /\ NoRelease(t) => NoRelease(u)
<1> DEFINE u == s \o t
           m == Len(s)
           n == Len(t)
<1>1. /\ u \in Seq(Steps) /\ m \in Nat /\ n \in Nat
      /\ DOMAIN s = 1 .. m /\ DOMAIN t = 1 .. n /\ DOMAIN u = 1 .. m + n
      /\ \A k \in 1 .. m : u[k] = s[k]
      /\ \A k \in 1 .. n : u[m + k] = t[k]
      /\ \A k \in m + 1 .. m + n : k - m \in 1 .. n /\ u[k] = t[k - m]
  BY Joined
<1> HIDE DEF u, m, n
<1>2. \A k \in 1 .. m + n : k \in 1 .. m \/ k \in m + 1 .. m + n
  BY <1>1
<1>3. \A k \in DOMAIN u : (\E j \in DOMAIN s : u[k] = s[j]) \/ (\E j \in DOMAIN t : u[k] = t[j])
  BY <1>1, <1>2
<1>4. \A x : Quiet(s, x) /\ Quiet(t, x) => Quiet(u, x)
  BY <1>3 DEF Quiet
<1>5. NoFtl1(s) /\ NoFtl1(t) => NoFtl1(u)
  BY <1>3 DEF NoFtl1
<1>6. NoRelease(s) /\ NoRelease(t) => NoRelease(u)
  BY <1>3 DEF NoRelease
<1>7. ASSUME NEW x, NEW b, (Quiet(s, x) /\ Guarded(t, x, b)) \/ (Guarded(s, x, b) /\ Quiet(t, x))
      PROVE  Guarded(u, x, b)
  <2> SUFFICES ASSUME NEW k \in 1 .. m + n, Uses(u[k], x)
               PROVE  \E i \in 1 .. k - 1 : u[i] = Await("idle", b)
    BY <1>1 DEF Guarded
  <2>1. CASE k \in 1 .. m
    <3>1. Uses(s[k], x) /\ k \in DOMAIN s
      BY <2>1, <1>1
    <3>2. PICK i \in 1 .. k - 1 : s[i] = Await("idle", b)
      BY <3>1, <1>7 DEF Quiet, Guarded
    <3>3. u[i] = s[i]
      BY <2>1, <1>1
    <3> QED
      BY <3>2, <3>3
  <2>2. CASE k \in m + 1 .. m + n
    <3>1. Uses(t[k - m], x) /\ k - m \in DOMAIN t
      BY <2>2, <1>1
    <3>2. PICK i \in 1 .. (k - m) - 1 : t[i] = Await("idle", b)
      BY <3>1, <1>7 DEF Quiet, Guarded
    <3>3. i \in 1 .. n /\ m + i \in 1 .. k - 1
      BY <3>1, <1>1
    <3>4. u[m + i] = t[i]
      BY <3>3, <1>1
    <3> QED
      BY <3>2, <3>3, <3>4
  <2> QED
    BY <2>1, <2>2, <1>2
<1>8. ASSUME NEW b, NEW h \in DOMAIN s, s[h] = Await("idle", b), NEW x, Guarded(s, x, b)
      PROVE  Guarded(u, x, b)
  <2> SUFFICES ASSUME NEW k \in 1 .. m + n, Uses(u[k], x)
               PROVE  \E i \in 1 .. k - 1 : u[i] = Await("idle", b)
    BY <1>1 DEF Guarded
  <2>1. CASE k \in 1 .. m
    <3>1. Uses(s[k], x) /\ k \in DOMAIN s
      BY <2>1, <1>1
    <3>2. PICK i \in 1 .. k - 1 : s[i] = Await("idle", b)
      BY <3>1, <1>8 DEF Guarded
    <3>3. u[i] = s[i]
      BY <2>1, <1>1
    <3> QED
      BY <3>2, <3>3
  <2>2. CASE k \in m + 1 .. m + n
    <3>1. h \in 1 .. k - 1 /\ u[h] = s[h]
      BY <2>2, <1>1
    <3> QED
      BY <3>1, <1>8
  <2> QED
    BY <2>1, <2>2, <1>2
<1> QED
  BY <1>1, <1>4, <1>5, <1>6, <1>7, <1>8 DEF u

-----------------------------------------------------------------------------
(* The code of the translation layer.                                      *)

(* Code that uses none of the buffers that are looked at here.             *)
Apart(t) == Inner(t) /\ NoFtl1(t) /\ NoRelease(t) /\ \A x \in Kept : Quiet(t, x)

LEMMA ApartJoined ==
    ASSUME NEW s, NEW t, Block(s), Apart(s), Apart(t)
    PROVE  Apart(s \o t) /\ (Block(t) => Block(s \o t))
<1>1. s \in Seq(Steps) /\ t \in Seq(Steps)
  BY DEF Apart, Inner
<1>2. Inner(s \o t) /\ (Block(t) => Block(s \o t))
  BY Compose DEF Apart
<1> QED
  BY <1>1, <1>2, JoinedSteps DEF Apart

LEMMA EmptyApart == Apart(<< >>) /\ Block(<< >>)
<1>1. << >> \in Seq(Steps) /\ Len(<< >>) = 0
  BY EmptySeq
<1>2. DOMAIN << >> = {}
  BY <1>1, LenProperties
<1> DEFINE t == << >>
<1>3. t \in Seq(Steps) /\ t = << >> /\ \A k \in DOMAIN t : FALSE
  BY <1>1, <1>2
<1> HIDE DEF t
<1>4. Shape(t) /\ Returns(t)
  BY <1>3 DEF Shape, Registers, Issues, Ends, Refilled, Returns
<1>5. Block(t) /\ Apart(t)
  BY <1>3, <1>4 DEF Block, Inner, Apart, NoFtl1, NoRelease, Quiet
<1> QED
  BY <1>5, <1>3

LEMMA WaitApart ==
    ASSUME NEW b \in Banks
    PROVE  Block(waitBusyBank(b)) /\ Apart(waitBusyBank(b)) /\ waitBusyBank(b) \in Seq(Steps)
<1> DEFINE t == waitBusyBank(b)
<1>1. Block(t) /\ Len(t) = 2 /\ t[1] = Step("empty") /\ t[2] = Await("idle", b) /\ \A x : Quiet(t, x)
  BY WaitBlock
<1> HIDE DEF t
<1>2. t \in Seq(Steps) /\ DOMAIN t = 1 .. 2
  BY <1>1, LenProperties DEF Block, Inner
<1>3. \A k \in DOMAIN t : k = 1 \/ k = 2
  BY <1>2
<1>4. \A k \in DOMAIN t : t[k].do \in {"empty", "idle"}
  BY <1>1, <1>3 DEF Step, Await
<1> QED
  BY <1>1, <1>2, <1>4 DEF Apart, Block, NoFtl1, NoRelease, t

LEMMA GcReadApart ==
    ASSUME NEW b \in Banks, NEW a \in Banks
    PROVE  Block(nand_page_read(b, GC_BUF(a))) /\ Apart(nand_page_read(b, GC_BUF(a)))
<1> DEFINE x == GC_BUF(a)
           t == nand_page_read(b, x)
<1>1. x \in Targeted /\ x # FTL_BUF(1) /\ x \notin Kept
  BY DEF Targeted, GcBufs, GC_BUF, FTL_BUF, Kept, PageBufs, LOG_BUF, OW_LOG_BUF
<1> HIDE DEF x
<1>2. /\ Block(t) /\ \A y : y # x => Quiet(t, y)
      /\ \A k \in DOMAIN t : t[k].do = "regs" => t[k].cmd.buf = x
  BY <1>1, ReadBlock
<1>3. NoRelease(t)
  BY <1>2 DEF Block, NoRelease
<1> HIDE DEF t
<1> QED
  BY <1>1, <1>2, <1>3 DEF Apart, Block, NoFtl1, t, x

LEMMA IssueApart ==
    ASSUME NEW c \in Commands, c.op # "read", c.op = "program" => c.buf \in GcBufs
    PROVE  Block(OnIssue(c)) /\ Apart(OnIssue(c))
<1> DEFINE t == OnIssue(c)
<1>1. c.op = "program" => c.buf \notin PageBufs \cup HostBufs
  BY DEF GcBufs, PageBufs, HostBufs, GC_BUF, LOG_BUF, OW_LOG_BUF, WR_BUF
<1>2. Block(t) /\ (\A x : Quiet(t, x)) /\ \A k \in DOMAIN t : t[k].do = "regs" => t[k].cmd = c
  BY <1>1, IssueBlock
<1>3. c.buf # FTL_BUF(1)
  BY DEF Commands, Programs, Reads, Plain, GcBufs, GC_BUF, FTL_BUF, NoBuf
<1>4. NoRelease(t)
  BY <1>2 DEF Block, NoRelease
<1> HIDE DEF t
<1> QED
  BY <1>2, <1>3, <1>4 DEF Apart, Block, NoFtl1, t

LEMMA EraseApart ==
    ASSUME NEW b \in Banks
    PROVE  Block(nand_block_erase(b)) /\ Apart(nand_block_erase(b))
<1> DEFINE c == Cmd("erase", b, NoBuf)
<1>1. c \in Commands /\ c.op = "erase"
  BY DEF Cmd, Commands, Plain
<1> HIDE DEF c
<1>2. Block(OnIssue(c)) /\ Apart(OnIssue(c))
  BY <1>1, IssueApart
<1> QED
  BY <1>2 DEF nand_block_erase, c

LEMMA GcProgramApart ==
    ASSUME NEW b \in Banks, NEW a \in Banks
    PROVE  Block(nand_page_program(b, GC_BUF(a))) /\ Apart(nand_page_program(b, GC_BUF(a)))
<1> DEFINE c == Cmd("program", b, GC_BUF(a))
<1>1. GC_BUF(a) \in GcBufs /\ GC_BUF(a) \notin PageBufs
  BY DEF GcBufs, GC_BUF, PageBufs, LOG_BUF, OW_LOG_BUF
<1>2. c \in Commands /\ c.op = "program" /\ c.buf \in GcBufs
  BY <1>1 DEF Cmd, Commands, Programs
<1> HIDE DEF c
<1>3. Block(OnIssue(c)) /\ Apart(OnIssue(c))
  BY <1>2, IssueApart
<1> QED
  BY <1>3 DEF nand_page_program, c

(* What is left of a collection.                                           *)
LEMMA LeftApart ==
    ASSUME NEW t \in Seq(Steps),
           \A k \in DOMAIN t : \/ t[k].do = "collect" /\ k = Len(t)
                               \/ t[k].do = "moves" /\ (k = Len(t) \/ (k + 1 \in DOMAIN t /\ t[k + 1].do = "collect"))
    PROVE  Apart(t)
<1>1. \A k \in DOMAIN t : t[k].do \in {"collect", "moves"}
  OBVIOUS
<1>2. Registers(t) /\ Issues(t) /\ Refilled(t) /\ Returns(t)
  <2>1. \A k \in DOMAIN t : \A x : ~Uses(t[k], x)
    BY <1>1 DEF Uses
  <2> QED
    BY <1>1, <2>1 DEF Registers, Issues, Refilled, Returns
<1>3. Ends(t)
  BY <1>1 DEF Ends
<1>4. t # << >> => 1 \in DOMAIN t
  BY LenProperties, EmptySeq
<1>5. \A x : Quiet(t, x)
  BY <1>1 DEF Quiet, Uses
<1> QED
  BY <1>1, <1>2, <1>3, <1>4, <1>5 DEF Apart, Inner, Shape, NoFtl1, NoRelease

LEMMA LeftJoined ==
    ASSUME NEW o \in Seq(Steps), Len(o) = 1, o[1].do = "moves",
           NEW e \in Seq(Steps), \A i \in DOMAIN e : i = Len(e) /\ e[i].do = "collect"
    PROVE  Apart(o \o e)
<1> DEFINE t == o \o e
<1>1. /\ t \in Seq(Steps) /\ Len(e) \in Nat /\ Len(t) = 1 + Len(e) /\ DOMAIN t = 1 .. 1 + Len(e) /\ DOMAIN e = 1 .. Len(e)
      /\ t[1] = o[1] /\ \A i \in 2 .. 1 + Len(e) : i - 1 \in 1 .. Len(e) /\ t[i] = e[i - 1]
  <2>1. /\ t \in Seq(Steps) /\ Len(e) \in Nat /\ Len(t) = Len(o) + Len(e) /\ DOMAIN t = 1 .. Len(o) + Len(e)
        /\ DOMAIN e = 1 .. Len(e) /\ \A i \in 1 .. Len(o) : t[i] = o[i]
        /\ \A i \in Len(o) + 1 .. Len(o) + Len(e) : i - Len(o) \in 1 .. Len(e) /\ t[i] = e[i - Len(o)]
    <3>1. LET u == o \o e IN
          /\ u \in Seq(Steps)
          /\ Len(o) \in Nat /\ Len(e) \in Nat
          /\ Len(u) = Len(o) + Len(e)
          /\ DOMAIN o = 1 .. Len(o) /\ DOMAIN e = 1 .. Len(e) /\ DOMAIN u = 1 .. Len(o) + Len(e)
          /\ \A k1 \in 1 .. Len(o) : u[k1] = o[k1] /\ o[k1] \in Steps
          /\ \A k1 \in 1 .. Len(e) : u[Len(o) + k1] = e[k1] /\ e[k1] \in Steps
          /\ \A k1 \in Len(o) + 1 .. Len(o) + Len(e) : k1 - Len(o) \in 1 .. Len(e) /\ u[k1] = e[k1 - Len(o)]
      BY Joined
    <3> QED
      BY <3>1
  <2> HIDE DEF t
  <2> QED
    BY <2>1
<1> HIDE DEF t
<1>2. Len(e) <= 1
  BY <1>1
<1>3. ASSUME NEW i \in DOMAIN t
      PROVE  \/ t[i].do = "collect" /\ i = Len(t)
             \/ t[i].do = "moves" /\ (i = Len(t) \/ (i + 1 \in DOMAIN t /\ t[i + 1].do = "collect"))
  <2>1. CASE i = 1
    <3>1. CASE Len(e) = 0
      BY <3>1, <2>1, <1>1
    <3>2. CASE Len(e) = 1
      <4>1. 2 \in 2 .. 1 + Len(e) /\ 2 - 1 = 1 /\ 1 \in DOMAIN e /\ i + 1 = 2
        BY <3>2, <2>1, <1>1
      <4>2. t[2] = e[1] /\ e[1].do = "collect"
        BY <4>1, <1>1
      <4> QED
        BY <4>1, <4>2, <2>1, <1>1
    <3> QED
      BY <3>1, <3>2, <1>1, <1>2
  <2>2. CASE i # 1
    <3>1. i \in 2 .. 1 + Len(e)
      BY <2>2, <1>1
    <3>2. i - 1 \in DOMAIN e /\ t[i] = e[i - 1]
      BY <3>1, <1>1
    <3>3. i - 1 = Len(e) /\ e[i - 1].do = "collect"
      BY <3>2
    <3> QED
      BY <3>1, <3>2, <3>3, <1>1
  <2> QED
    BY <2>1, <2>2
<1> QED
  BY <1>1, <1>3, LeftApart DEF t

LEMMA CollectApart ==
    ASSUME NEW b \in Banks, NEW p \in Banks \cup {INVALID}, NEW n \in 1 .. MaxPages
    PROVE  Apart(Rest(b, p, n)) /\ \A k \in DOMAIN Rest(b, p, n) : k = Len(Rest(b, p, n)) /\ Rest(b, p, n)[k].do = "collect"
<1>1. CASE n = 1
  <2>1. Rest(b, p, n) = << >>
    BY <1>1 DEF Rest
  <2>2. DOMAIN << >> = {}
    OBVIOUS
  <2> QED
    BY <2>1, <2>2, EmptyApart
<1>2. CASE n # 1
  <2> DEFINE t == << Collect(b, p, n - 1) >>
  <2>1. n - 1 \in 1 .. MaxPages
    <3>1. MaxPages \in Nat
      BY ClientsAssumption
    <3> QED
      BY <1>2, <3>1
  <2>2. Collect(b, p, n - 1) \in Steps /\ Collect(b, p, n - 1).do = "collect"
    BY <2>1 DEF Collect, Steps
  <2>3. t \in Seq(Steps) /\ Len(t) = 1 /\ t[1].do = "collect" /\ DOMAIN t = 1 .. 1
    BY <2>2
  <2>4. Rest(b, p, n) = t
    BY <1>2 DEF Rest
  <2> HIDE DEF t
  <2>5. \A k \in DOMAIN t : t[k].do = "collect" /\ k = Len(t)
    BY <2>3
  <2>6. Apart(t)
    BY <2>3, <2>5, LeftApart
  <2> QED
    BY <2>4, <2>5, <2>6
<1> QED
  BY <1>1, <1>2

LEMMA NextPageCode ==
    ASSUME NEW b \in Banks, NEW prev \in Banks \cup {INVALID}, NEW n \in 1 .. MaxPages
    PROVE  /\ \A dst \in Banks :
                Apart(FullPage(b, prev, dst) \o Victim(b, n) \o Rest(b, dst, n) \o << >>)
           /\ \A k \in 1 .. ChunksPerPage - 1 :
                Apart(nand_page_read(b, GC_BUF(b)) \o Victim(b, n) \o << Moves(b, k) >> \o Rest(b, prev, n) \o << >>)
<1>1. Block(Victim(b, n)) /\ Apart(Victim(b, n))
  BY EraseApart, EmptyApart DEF Victim
<1>2. \A s : Block(s) => s \in Seq(Steps)
  BY DEF Block, Inner
<1>3. \A s : Apart(s) => s \in Seq(Steps)
  BY DEF Apart, Inner
<1>4. ASSUME NEW s, NEW t, Apart(s), Block(s), Apart(t), Block(t)
      PROVE  Apart(s \o t) /\ Block(s \o t)
  BY <1>4, ApartJoined
<1>5. ASSUME NEW dst \in Banks
      PROVE  Apart(FullPage(b, prev, dst) \o Victim(b, n) \o Rest(b, dst, n) \o << >>)
  <2> DEFINE w == IF prev # INVALID THEN waitBusyBank(prev) ELSE << >>
             r == nand_page_read(b, GC_BUF(b))
             p == nand_page_program(dst, GC_BUF(b))
             v == Victim(b, n)
             e == Rest(b, dst, n)
  <2>1. Block(w) /\ Apart(w)
    BY WaitApart, EmptyApart
  <2>2. Block(r) /\ Apart(r)
    BY GcReadApart
  <2>3. Block(p) /\ Apart(p)
    BY GcProgramApart
  <2>4. Apart(e)
    BY CollectApart
  <2>5. FullPage(b, prev, dst) = (w \o r) \o p
    BY DEF FullPage
  <2>6. Block(v) /\ Apart(v)
    BY <1>1
  <2> HIDE DEF w, r, p, v, e
  <2>7. Block((w \o r) \o p) /\ Apart((w \o r) \o p)
    BY <2>1, <2>2, <2>3, ApartJoined
  <2>8. Block(((w \o r) \o p) \o v) /\ Apart(((w \o r) \o p) \o v)
    BY <2>6, <2>7, ApartJoined
  <2>9. Apart((((w \o r) \o p) \o v) \o e)
    BY <2>4, <2>8, ApartJoined
  <2>10. ((((w \o r) \o p) \o v) \o e) \o << >> = (((w \o r) \o p) \o v) \o e
    BY <2>9, <1>3, ConcatEmptySeq
  <2> QED
    BY <2>5, <2>9, <2>10 DEF v, e
<1>6. ASSUME NEW k \in 1 .. ChunksPerPage - 1
      PROVE  Apart(nand_page_read(b, GC_BUF(b)) \o Victim(b, n) \o << Moves(b, k) >> \o Rest(b, prev, n) \o << >>)
  <2> DEFINE r == nand_page_read(b, GC_BUF(b))
             v == Victim(b, n)
             o == << Moves(b, k) >>
             e == Rest(b, prev, n)
  <2>1. Block(r) /\ Apart(r)
    BY GcReadApart
  <2>2. Block(v) /\ Apart(v)
    BY <1>1
  <2>3. Moves(b, k) \in Steps /\ Moves(b, k).do = "moves"
    BY DEF Moves, Steps
  <2>4. o \in Seq(Steps) /\ Len(o) = 1 /\ o[1].do = "moves"
    BY <2>3
  <2>5. Apart(e) /\ \A i \in DOMAIN e : i = Len(e) /\ e[i].do = "collect"
    BY CollectApart
  <2>6. e \in Seq(Steps)
    BY <2>5, <1>3
  <2> HIDE DEF r, v, o, e
  <2>7. Apart(o \o e)
    BY <2>4, <2>5, <2>6, LeftJoined
  <2>8. Block(r \o v) /\ Apart(r \o v)
    BY <2>1, <2>2, ApartJoined
  <2>9. Apart((r \o v) \o (o \o e))
    BY <2>7, <2>8, ApartJoined
  <2>10. (r \o v) \o (o \o e) = ((r \o v) \o o) \o e
    BY <2>4, <2>6, <2>8, <1>2, ConcatAssociative, SMTT(30)
  <2>11. (((r \o v) \o o) \o e) \o << >> = ((r \o v) \o o) \o e
    BY <2>9, <2>10, <1>3, ConcatEmptySeq
  <2> QED
    BY <2>9, <2>10, <2>11 DEF r, v, o, e
<1> QED
  BY <1>5, <1>6

(* Code that waits for a bank before it does anything else.                *)
LEMMA WaitedCode ==
    ASSUME NEW b \in Banks, NEW x \in Kept, NEW d, NEW e,
           Block(d), Inner(e), NoFtl1(d), NoFtl1(e),
           \A y \in Kept : Quiet(e, y),
           \A y \in Kept : y # x => Quiet(d, y)
    PROVE  LET t == (waitBusyBank(b) \o d) \o e IN
           /\ Inner(t) /\ NoFtl1(t)
           /\ \A y \in Kept : y # x => Quiet(t, y)
           /\ \A y : Guarded(t, y, b)
           /\ NoRelease(e) => NoRelease(t)
<1> DEFINE w == waitBusyBank(b)
<1>1. /\ Block(w) /\ Apart(w) /\ w \in Seq(Steps) /\ Len(w) = 2 /\ w[2] = Await("idle", b)
      /\ \A y : Quiet(w, y) /\ \A k \in DOMAIN w : ~Fills(w[k], y)
  BY WaitBlock, WaitApart
<1> HIDE DEF w
<1>2. d \in Seq(Steps) /\ e \in Seq(Steps) /\ Inner(d)
  BY DEF Block, Inner
<1>3. Block(w \o d)
  BY <1>1, <1>2, Compose
<1>4. w \o d \in Seq(Steps)
  BY <1>3 DEF Block, Inner
<1>5. Inner((w \o d) \o e)
  <2>1. \A y \in Kept : \A j \in DOMAIN (w \o d) : Fills((w \o d)[j], y) => Quiet(e, y)
    OBVIOUS
  <2> QED
    BY <1>3, <2>1, Compose
<1>6. /\ \A y : Quiet(w, y) /\ Quiet(d, y) => Quiet(w \o d, y)
      /\ \A a : (\E i \in DOMAIN w : w[i] = Await("idle", a)) => \A y : Guarded(w, y, a) => Guarded(w \o d, y, a)
      /\ NoFtl1(w) /\ NoFtl1(d) => NoFtl1(w \o d)
      /\ NoRelease(w) /\ NoRelease(d) => NoRelease(w \o d)
  BY <1>1, <1>2, JoinedSteps
<1>7. /\ \A y : Quiet(w \o d, y) /\ Quiet(e, y) => Quiet((w \o d) \o e, y)
      /\ \A a : (\E i \in DOMAIN (w \o d) : (w \o d)[i] = Await("idle", a)) =>
                   \A y : Guarded(w \o d, y, a) => Guarded((w \o d) \o e, y, a)
      /\ NoFtl1(w \o d) /\ NoFtl1(e) => NoFtl1((w \o d) \o e)
      /\ NoRelease(w \o d) /\ NoRelease(e) => NoRelease((w \o d) \o e)
  BY <1>4, <1>2, JoinedSteps
<1>8. NoFtl1(w) /\ NoRelease(w) /\ NoRelease(d)
  BY <1>1 DEF Apart, Block, NoRelease
<1>9. 2 \in DOMAIN w /\ 2 \in DOMAIN (w \o d) /\ (w \o d)[2] = w[2]
  <2>1. /\ Len(w) \in Nat /\ Len(d) \in Nat /\ DOMAIN w = 1 .. Len(w) /\ DOMAIN (w \o d) = 1 .. Len(w) + Len(d)
        /\ \A k \in 1 .. Len(w) : (w \o d)[k] = w[k]
    <3>1. LET u == w \o d IN
          /\ u \in Seq(Steps)
          /\ Len(w) \in Nat /\ Len(d) \in Nat
          /\ Len(u) = Len(w) + Len(d)
          /\ DOMAIN w = 1 .. Len(w) /\ DOMAIN d = 1 .. Len(d) /\ DOMAIN u = 1 .. Len(w) + Len(d)
          /\ \A k \in 1 .. Len(w) : u[k] = w[k] /\ w[k] \in Steps
          /\ \A k \in 1 .. Len(d) : u[Len(w) + k] = d[k] /\ d[k] \in Steps
          /\ \A k \in Len(w) + 1 .. Len(w) + Len(d) : k - Len(w) \in 1 .. Len(d) /\ u[k] = d[k - Len(w)]
      BY <1>1, <1>2, Joined, ZenonT(30)
    <3> QED
      BY <3>1
  <2> QED
    BY <1>1, <2>1
<1>10. \A y : Guarded(w, y, b)
  BY <1>1 DEF Guarded, Quiet
<1>11. \A y : Guarded(w \o d, y, b)
  BY <1>1, <1>6, <1>9, <1>10
<1>12. \A y : Guarded((w \o d) \o e, y, b)
  BY <1>1, <1>7, <1>9, <1>11
<1>13. \A y \in Kept : y # x => Quiet((w \o d) \o e, y)
  BY <1>1, <1>6, <1>7
<1> QED
  BY <1>5, <1>6, <1>7, <1>8, <1>12, <1>13 DEF w

(* Chunks that are copied, and the pointer that moves on.                  *)
LEMMA CopiesCode ==
    ASSUME NEW x \in PageBufs, NEW src \in Targeted \cup HostBufs, NEW old \in Targeted \cup HostBufs,
           NEW d, d \in {<< Copy(src, x) >>, << Copy(src, x), Advance(x) >>, << Copy(old, x), Copy(src, x), Advance(x) >>}
    PROVE  Block(d) /\ NoFtl1(d) /\ \A y : y # x => Quiet(d, y)
<1>1. Copy(src, x) \in Steps /\ Copy(old, x) \in Steps /\ Advance(x) \in Steps
  BY DEF Copy, Advance, Steps, Filled
<1>2. /\ Copy(src, x).do = "copy" /\ Copy(old, x).do = "copy" /\ Copy(src, x).dst = x /\ Copy(old, x).dst = x
      /\ Advance(x).do = "advance" /\ Advance(x).buf = x
  BY DEF Copy, Advance
<1>3. d \in Seq(Steps) /\ \A k \in DOMAIN d :
         /\ \/ d[k] \in {Copy(src, x), Copy(old, x)}
            \/ d[k] = Advance(x) /\ k = Len(d)
  <2>1. CASE d = << Copy(src, x) >>
    BY <1>1, <2>1
  <2>2. CASE d = << Copy(src, x), Advance(x) >>
    BY <1>1, <2>2
  <2>3. CASE d = << Copy(old, x), Copy(src, x), Advance(x) >>
    BY <1>1, <2>3
  <2> QED
    BY <2>1, <2>2, <2>3
<1>4. \A k \in DOMAIN d : d[k].do \in {"copy", "advance"} /\ (d[k].do = "advance" => k = Len(d))
  BY <1>2, <1>3
<1>5. \A y : y # x => Quiet(d, y)
  BY <1>2, <1>3 DEF Quiet, Uses
<1> QED
  BY <1>3, <1>4, <1>5, CopiesBlock DEF NoFtl1

LEMMA NextMoveCode ==
    ASSUME NEW b \in Banks, NEW dst \in Banks, NEW n \in 1 .. ChunksPerPage - 1,
           NEW r \in Seq(Steps), \A i \in DOMAIN r : i = Len(r) /\ r[i].do = "collect"
    PROVE  LET t == MoveChunk(b, dst) \o OtherMoves(b, n) \o r IN
           /\ Inner(t) /\ NoFtl1(t) /\ NoRelease(t)
           /\ \A y \in Kept : y # LOG_BUF(dst) => Quiet(t, y)
           /\ \A y : Guarded(t, y, dst)
<1> DEFINE w == waitBusyBank(dst)
           d == << Copy(GC_BUF(b), LOG_BUF(dst)), Advance(LOG_BUF(dst)) >>
           o == OtherMoves(b, n)
<1>1. MoveChunk(b, dst) = w \o d
  BY DEF MoveChunk
<1>2. LOG_BUF(dst) \in PageBufs /\ GC_BUF(b) \in Targeted /\ LOG_BUF(dst) \in Kept
  BY DEF PageBufs, Targeted, GcBufs, Kept
<1>3. Block(d) /\ NoFtl1(d) /\ \A y : y # LOG_BUF(dst) => Quiet(d, y)
  BY <1>2, CopiesCode
<1>4. o \in Seq(Steps) /\ Apart(o \o r)
  <2>1. CASE n = 1
    <3>1. o = << >>
      BY <2>1 DEF OtherMoves
    <3>2. << >> \in Seq(Steps)
      BY EmptySeq
    <3>3. << >> \o r = r
      BY ConcatEmptySeq
    <3>4. Apart(r)
      BY LeftApart
    <3> QED
      BY <3>1, <3>2, <3>3, <3>4
  <2>2. CASE n # 1
    <3>1. n - 1 \in 1 .. ChunksPerPage - 1
      <4>1. ChunksPerPage \in Nat
        BY ClientsAssumption
      <4> QED
        BY <2>2, <4>1
    <3>2. Moves(b, n - 1) \in Steps /\ Moves(b, n - 1).do = "moves"
      BY <3>1 DEF Moves, Steps
    <3>3. o = << Moves(b, n - 1) >>
      BY <2>2 DEF OtherMoves
    <3>4. o \in Seq(Steps) /\ Len(o) = 1 /\ o[1].do = "moves"
      BY <3>2, <3>3
    <3> QED
      BY <3>4, LeftJoined
  <2> QED
    BY <2>1, <2>2
<1> HIDE DEF d, o
<1>5. LET t == (w \o d) \o (o \o r) IN
      /\ Inner(t) /\ NoFtl1(t)
      /\ \A y \in Kept : y # LOG_BUF(dst) => Quiet(t, y)
      /\ \A y : Guarded(t, y, dst)
      /\ NoRelease(o \o r) => NoRelease(t)
  BY <1>2, <1>3, <1>4, WaitedCode DEF Apart
<1>6. w \o d \in Seq(Steps)
  <2>1. w \in Seq(Steps) /\ d \in Seq(Steps)
    BY <1>3, WaitApart DEF Block, Inner
  <2> QED
    BY <2>1, JoinedSteps
<1> DEFINE v == w \o d
<1> HIDE DEF v
<1>7. (v \o o) \o r = v \o (o \o r)
  <2>1. v \in Seq(Steps) /\ o \in Seq(Steps) /\ r \in Seq(Steps)
    BY <1>4, <1>6 DEF v
  <2> QED
    BY <2>1, ConcatAssociative
<1> QED
  BY <1>1, <1>4, <1>5, <1>7 DEF Apart, o, v

(* The chunks of a partial page that are left, and the end of the page.    *)
LEMMA OthersInner ==
    ASSUME NEW n \in 1 .. MaxChunks, NEW r \in Seq(Steps), Len(r) = 1, r[1] = Step("release")
    PROVE  LET e == Others(n) \o r IN Inner(e) /\ NoFtl1(e) /\ \A y : Quiet(e, y)
<1> DEFINE o == << Chunks(n - 1) >>
           e == o \o r
<1>1. n - 1 \in 0 .. MaxChunks
  <2>1. MaxChunks \in Nat
    BY ClientsAssumption
  <2> QED
    BY <2>1
<1>2. Chunks(n - 1) \in Steps /\ Chunks(n - 1).do = "chunks"
  BY <1>1 DEF Chunks, Steps
<1>3. o \in Seq(Steps) /\ Len(o) = 1 /\ o[1].do = "chunks"
  BY <1>2
<1> HIDE DEF o
<1>4. /\ e \in Seq(Steps) /\ Len(e) = 2 /\ DOMAIN e = 1 .. 2 /\ e[1] = o[1] /\ e[2] = r[1]
  <2>1. LET u == o \o r IN
        /\ u \in Seq(Steps)
        /\ Len(o) \in Nat /\ Len(r) \in Nat
        /\ Len(u) = Len(o) + Len(r)
        /\ DOMAIN o = 1 .. Len(o) /\ DOMAIN r = 1 .. Len(r) /\ DOMAIN u = 1 .. Len(o) + Len(r)
        /\ \A k \in 1 .. Len(o) : u[k] = o[k] /\ o[k] \in Steps
        /\ \A k \in 1 .. Len(r) : u[Len(o) + k] = r[k] /\ r[k] \in Steps
        /\ \A k \in Len(o) + 1 .. Len(o) + Len(r) : k - Len(o) \in 1 .. Len(r) /\ u[k] = r[k - Len(o)]
    BY <1>3, Joined, ZenonT(30)
  <2> HIDE DEF e
  <2>2. e \in Seq(Steps) /\ Len(e) = Len(o) + Len(r) /\ DOMAIN e = 1 .. Len(o) + Len(r)
    BY <2>1 DEF e
  <2>3. \A k \in 1 .. Len(o) : e[k] = o[k]
    BY <2>1 DEF e
  <2>4. \A k \in 1 .. Len(r) : e[Len(o) + k] = r[k]
    BY <2>1 DEF e
  <2> QED
    BY <1>3, <2>2, <2>3, <2>4
<1>5. e[1].do = "chunks" /\ e[2] = Step("release") /\ e[2].do = "release" /\ \A k \in DOMAIN e : k = 1 \/ k = 2
  BY <1>3, <1>4 DEF Step
<1> HIDE DEF e
<1>6. \A k \in DOMAIN e : e[k].do \in {"chunks", "release"}
  BY <1>5
<1>7. \A y : \A k \in DOMAIN e : ~Uses(e[k], y)
  BY <1>6 DEF Uses
<1>8. Registers(e) /\ Issues(e) /\ Returns(e) /\ Refilled(e)
  BY <1>6, <1>7 DEF Registers, Issues, Returns, Refilled
<1>9. Ends(e)
  BY <1>4, <1>5 DEF Ends
<1>10. Inner(e) /\ NoFtl1(e)
  BY <1>4, <1>5, <1>6, <1>8, <1>9 DEF Inner, Shape, NoFtl1
<1>11. Others(n) \o r = e
  BY DEF Others, e, o
<1> QED
  BY <1>7, <1>10, <1>11 DEF Quiet

(* FTL_BUF(1) is filled, programmed, and used no more.                     *)
LEMMA ThroughFtl1 ==
    ASSUME NEW b \in Banks, NEW src \in HostBufs, NEW e,
           Inner(e), NoFtl1(e), \A y : Quiet(e, y)
    PROVE  LET d == << Copy(src, FTL_BUF(1)) >>
               p == nand_page_program(b, FTL_BUF(1))
               t == d \o (p \o e)
           IN  /\ Block(d) /\ NoFtl1(d) /\ \A y : y # FTL_BUF(1) => Quiet(d, y)
               /\ p \in Seq(Steps) /\ Inner(p \o e) /\ \A y : Quiet(p \o e, y)
               /\ Inner(t) /\ (\A y : y # FTL_BUF(1) => Quiet(t, y))
               /\ \A k \in DOMAIN t : t[k].do = "regs" /\ t[k].cmd.buf = FTL_BUF(1) => t[k].cmd.bank = b
               /\ \A k \in DOMAIN (p \o e) : (p \o e)[k].do = "regs" /\ (p \o e)[k].cmd.buf = FTL_BUF(1) => (p \o e)[k].cmd.bank = b
<1> DEFINE x == FTL_BUF(1)
           d == << Copy(src, x) >>
           c == Cmd("program", b, x)
           p == OnIssue(c)
<1>1. x \in Kept /\ x \in Filled /\ x \notin PageBufs \cup HostBufs
  BY DEF Kept, Filled, PageBufs, HostBufs, FTL_BUF, LOG_BUF, OW_LOG_BUF, WR_BUF
<1>2. c \in Commands /\ c.op = "program" /\ c.buf = x /\ c.bank = b
  BY <1>1 DEF Cmd, Commands, Programs
<1>3. Copy(src, x) \in Steps /\ Copy(src, x).do = "copy" /\ Copy(src, x).dst = x
  BY <1>1 DEF Copy, Steps
<1>4. nand_page_program(b, x) = p
  BY DEF nand_page_program
<1> HIDE DEF x, c
<1>5. d \in Seq(Steps) /\ Len(d) = 1 /\ DOMAIN d = 1 .. 1 /\ d[1] = Copy(src, x)
  BY <1>3
<1> HIDE DEF d
<1>6. \A k \in DOMAIN d : d[k].do = "copy" /\ d[k].dst = x
  BY <1>3, <1>5
<1>7. Block(d)
  BY <1>5, <1>6, CopiesBlock
<1>8. NoFtl1(d) /\ (\A y : y # x => Quiet(d, y)) /\ \A y : \A k \in DOMAIN d : ~Fills(d[k], y)
  BY <1>6 DEF NoFtl1, Quiet, Uses, Fills
<1>9. /\ Block(p) /\ Len(p) = 2 /\ p[1] = Regs(c) /\ p[2] = Step("issue")
      /\ \A y : Quiet(p, y)
      /\ \A k \in DOMAIN p : p[k].do = "regs" => p[k].cmd = c
  BY <1>1, <1>2, IssueBlock
<1> HIDE DEF p
<1>10. p \in Seq(Steps) /\ e \in Seq(Steps)
  BY <1>9 DEF Block, Inner
<1>11. Inner(p \o e)
  BY <1>9, Compose
<1>12. \A y : Quiet(p \o e, y)
  <2>1. LET u == p \o e IN \A y : Quiet(p, y) /\ Quiet(e, y) => Quiet(u, y)
    BY <1>10, JoinedSteps
  <2> QED
    BY <2>1, <1>9
<1> DEFINE q == p \o e
<1>13. q \in Seq(Steps) /\ Inner(q) /\ (\A y : Quiet(q, y))
  BY <1>11, <1>12 DEF Inner
<1>14. \A k \in DOMAIN q : q[k].do = "regs" /\ q[k].cmd.buf = x => q[k].cmd.bank = b
  <2>1. \A k \in DOMAIN q : (\E j \in DOMAIN p : q[k] = p[j]) \/ (\E j \in DOMAIN e : q[k] = e[j])
    <3>1. LET u == p \o e IN
          /\ u \in Seq(Steps)
          /\ Len(p) \in Nat /\ Len(e) \in Nat
          /\ Len(u) = Len(p) + Len(e)
          /\ DOMAIN p = 1 .. Len(p) /\ DOMAIN e = 1 .. Len(e) /\ DOMAIN u = 1 .. Len(p) + Len(e)
          /\ \A k \in 1 .. Len(p) : u[k] = p[k] /\ p[k] \in Steps
          /\ \A k \in 1 .. Len(e) : u[Len(p) + k] = e[k] /\ e[k] \in Steps
          /\ \A k \in Len(p) + 1 .. Len(p) + Len(e) : k - Len(p) \in 1 .. Len(e) /\ u[k] = e[k - Len(p)]
      BY <1>10, Joined
    <3>2. \A k \in 1 .. Len(p) + Len(e) : k \in 1 .. Len(p) \/ k \in Len(p) + 1 .. Len(p) + Len(e)
      BY <3>1
    <3> QED
      BY <3>1, <3>2
  <2> HIDE DEF q
  <2> QED
    BY <2>1, <1>2, <1>9 DEF NoFtl1, x
<1> HIDE DEF q
<1>15. Inner(d \o q)
  BY <1>7, <1>13, Compose
<1>16. \A y : y # x => Quiet(d \o q, y)
  <2>1. LET u == d \o q IN \A y : Quiet(d, y) /\ Quiet(q, y) => Quiet(u, y)
    BY <1>5, <1>13, JoinedSteps
  <2> QED
    BY <2>1, <1>8, <1>13
<1> DEFINE t == d \o q
<1>17. \A k \in DOMAIN t : (\E j \in DOMAIN d : t[k] = d[j]) \/ (\E j \in DOMAIN q : t[k] = q[j])
    <3>1. LET u == d \o q IN
          /\ u \in Seq(Steps)
          /\ Len(d) \in Nat /\ Len(q) \in Nat
          /\ Len(u) = Len(d) + Len(q)
          /\ DOMAIN d = 1 .. Len(d) /\ DOMAIN q = 1 .. Len(q) /\ DOMAIN u = 1 .. Len(d) + Len(q)
          /\ \A k \in 1 .. Len(d) : u[k] = d[k] /\ d[k] \in Steps
          /\ \A k \in 1 .. Len(q) : u[Len(d) + k] = q[k] /\ q[k] \in Steps
          /\ \A k \in Len(d) + 1 .. Len(d) + Len(q) : k - Len(d) \in 1 .. Len(q) /\ u[k] = q[k - Len(d)]
      BY <1>5, <1>13, Joined, ZenonT(30)
    <3>2. \A k \in 1 .. Len(d) + Len(q) : k \in 1 .. Len(d) \/ k \in Len(d) + 1 .. Len(d) + Len(q)
      BY <3>1
    <3> QED
      BY <3>1, <3>2
<1> HIDE DEF t
<1>18. \A k \in DOMAIN t : t[k].do = "regs" /\ t[k].cmd.buf = x => t[k].cmd.bank = b
  BY <1>6, <1>14, <1>17
<1> QED
  BY <1>4, <1>7, <1>8, <1>10, <1>13, <1>14, <1>15, <1>16, <1>18 DEF d, q, t, x

(* One chunk of a partial page, and what is left of the page.              *)
LEMMA ChunkTail ==
    ASSUME NEW s, NEW n \in 1 .. MaxChunks, NEW r \in Seq(Steps), Len(r) = 1, r[1] = Step("release"),
           s \in Seq(Steps)
    PROVE  s \o Others(n) \o r = s \o (Others(n) \o r)
<1> DEFINE o == Others(n)
<1>1. n - 1 \in 0 .. MaxChunks
  <2>1. MaxChunks \in Nat
    BY ClientsAssumption
  <2> QED
    BY <2>1
<1>2. Chunks(n - 1) \in Steps
  BY <1>1 DEF Chunks, Steps
<1>3. o \in Seq(Steps)
  BY <1>2 DEF Others
<1> HIDE DEF o
<1> QED
  BY <1>3, ConcatAssociative DEF o

LEMMA WaitedChunk ==
    ASSUME NEW x \in PageBufs, NEW d, Block(d), NoFtl1(d), \A y : y # x => Quiet(d, y),
           NEW n \in 1 .. MaxChunks, NEW r \in Seq(Steps), Len(r) = 1, r[1] = Step("release")
    PROVE  LET t == (waitBusyBank(x[2]) \o d) \o Others(n) \o r IN
           /\ Inner(t) /\ NoFtl1(t)
           /\ \A y \in Kept : y # x => Quiet(t, y)
           /\ Guarded(t, x, x[2])
<1> DEFINE e == Others(n) \o r
           s == waitBusyBank(x[2]) \o d
<1>1. x[2] \in Banks /\ x \in Kept
  BY DEF PageBufs, Kept, LOG_BUF, OW_LOG_BUF
<1>2. Inner(e) /\ NoFtl1(e) /\ \A y : Quiet(e, y)
  BY OthersInner
<1>3. s \in Seq(Steps)
  <2>1. waitBusyBank(x[2]) \in Seq(Steps) /\ d \in Seq(Steps)
    BY <1>1, WaitApart DEF Block, Inner
  <2> QED
    BY <2>1, JoinedSteps
<1>4. s \o Others(n) \o r = s \o e
  BY <1>3, ChunkTail
<1> HIDE DEF e
<1>5. LET t == (waitBusyBank(x[2]) \o d) \o e IN
      /\ Inner(t) /\ NoFtl1(t)
      /\ \A y \in Kept : y # x => Quiet(t, y)
      /\ \A y : Guarded(t, y, x[2])
      /\ NoRelease(e) => NoRelease(t)
  BY <1>1, <1>2, WaitedCode
<1> QED
  BY <1>4, <1>5

LEMMA ChunkCodeShape ==
    ASSUME NEW code \in ChunkCode, writeId \in Slot, chunkPtr \in [PageBufs -> 0 .. ChunksPerPage - 1],
           NEW n \in 1 .. MaxChunks, NEW r \in Seq(Steps), Len(r) = 1, r[1] = Step("release")
    PROVE  LET t == code \o Others(n) \o r IN
           /\ Inner(t) /\ NoFtl1(t)
           /\ \E x \in PageBufs : /\ \A y \in Kept : y # x => Quiet(t, y)
                                  /\ Guarded(t, x, x[2]) \/ Open(x)
<1> DEFINE h == WR_BUF(writeId)
           e == Others(n) \o r
           Good(t) == /\ Inner(t) /\ NoFtl1(t)
                      /\ \E x \in PageBufs : /\ \A y \in Kept : y # x => Quiet(t, y)
                                             /\ Guarded(t, x, x[2]) \/ Open(x)
<1>1. h \in HostBufs
  BY DEF HostBufs
<1>2. \A x \in PageBufs : x \in Targeted /\ x[2] \in Banks
  BY DEF Targeted, PageBufs, LOG_BUF, OW_LOG_BUF
<1>3. \A b \in Banks : LOG_BUF(b) \in PageBufs /\ OW_LOG_BUF(b) \in PageBufs /\ LOG_BUF(b)[2] = b /\ OW_LOG_BUF(b)[2] = b
  BY DEF PageBufs, LOG_BUF, OW_LOG_BUF
<1> HIDE DEF h
<1>4. ASSUME NEW x \in PageBufs, NEW d, Block(d), NoFtl1(d), \A y : y # x => Quiet(d, y)
      PROVE  Good((waitBusyBank(x[2]) \o d) \o Others(n) \o r)
  <2>1. LET t == (waitBusyBank(x[2]) \o d) \o Others(n) \o r IN
        /\ Inner(t) /\ NoFtl1(t)
        /\ \A y \in Kept : y # x => Quiet(t, y)
        /\ Guarded(t, x, x[2])
    BY <1>4, WaitedChunk
  <2> QED
    BY <2>1
<1>5. ASSUME NEW x \in PageBufs PROVE Good(NewChunk(x) \o Others(n) \o r)
  <2> DEFINE d == << Copy(h, x), Advance(x) >>
  <2>1. Block(d) /\ NoFtl1(d) /\ \A y : y # x => Quiet(d, y)
    BY <1>1, CopiesCode
  <2>2. NewChunk(x) = waitBusyBank(x[2]) \o d
    BY DEF NewChunk, h
  <2> HIDE DEF d, Good
  <2> QED
    BY <1>4, <2>1, <2>2
<1>6. ASSUME NEW x \in PageBufs, NEW old \in Banks PROVE Good(MergedChunk(x, old) \o Others(n) \o r)
  <2> DEFINE p == nand_page_read(old, x)
             d == << Copy(h, x), Advance(x) >>
             w == waitBusyBank(x[2])
  <2>1. Block(d) /\ NoFtl1(d) /\ \A y : y # x => Quiet(d, y)
    BY <1>1, CopiesCode
  <2>2. MergedChunk(x, old) = (w \o p) \o d
    BY DEF MergedChunk, h
  <2>3. /\ Block(p) /\ \A y : y # x => Quiet(p, y)
        /\ \A y : \A k \in DOMAIN p : ~Fills(p[k], y)
        /\ \A k \in DOMAIN p : p[k].do = "regs" => p[k].cmd.buf = x
    BY <1>2, ReadBlock
  <2>4. w \in Seq(Steps)
    BY <1>2, WaitApart
  <2> HIDE DEF d, p, w
  <2>5. d \in Seq(Steps) /\ p \in Seq(Steps) /\ Inner(d)
    BY <2>1, <2>3 DEF Block, Inner
  <2>6. Block(p \o d)
    BY <2>1, <2>3, <2>5, Compose
  <2>7. NoFtl1(p)
    BY <2>3, <1>2 DEF NoFtl1, PageBufs, LOG_BUF, OW_LOG_BUF, FTL_BUF
  <2>8. NoFtl1(p \o d) /\ \A y : y # x => Quiet(p \o d, y)
    <3>1. LET u == p \o d IN
          /\ \A y : Quiet(p, y) /\ Quiet(d, y) => Quiet(u, y)
          /\ NoFtl1(p) /\ NoFtl1(d) => NoFtl1(u)
      BY <2>5, JoinedSteps
    <3> QED
      BY <3>1, <2>1, <2>3, <2>7
  <2>9. (w \o p) \o d = w \o (p \o d)
    BY <2>4, <2>5, ConcatAssociative, SMTT(30)
  <2> DEFINE q == p \o d
  <2> HIDE DEF q, Good
  <2>10. Good((w \o q) \o Others(n) \o r)
    BY <1>4, <2>6, <2>8 DEF w, q
  <2> QED
    BY <2>2, <2>9, <2>10 DEF q
<1>7. ASSUME NEW x \in PageBufs, NEW old \in PageBufs PROVE Good(MovedChunk(x, old) \o Others(n) \o r)
  <2> DEFINE d == << Copy(old, x), Copy(h, x), Advance(x) >>
  <2>1. Block(d) /\ NoFtl1(d) /\ \A y : y # x => Quiet(d, y)
    BY <1>1, <1>2, CopiesCode
  <2>2. MovedChunk(x, old) = waitBusyBank(x[2]) \o d
    BY DEF MovedChunk, h
  <2> HIDE DEF d, Good
  <2> QED
    BY <1>4, <2>1, <2>2
<1>8. ASSUME NEW x \in PageBufs PROVE Good(OldInWBuf(x) \o Others(n) \o r)
  <2> DEFINE d == << Copy(h, x) >>
  <2>1. Block(d) /\ NoFtl1(d) /\ \A y : y # x => Quiet(d, y)
    BY <1>1, CopiesCode
  <2>2. OldInWBuf(x) = waitBusyBank(x[2]) \o d
    BY DEF OldInWBuf, h
  <2> HIDE DEF d, Good
  <2> QED
    BY <1>4, <2>1, <2>2
<1>9. ASSUME NEW x \in PageBufs, Open(x) PROVE Good(OldInOwBuf(x) \o Others(n) \o r)
  <2> DEFINE d == << Copy(h, x) >>
  <2>1. Block(d) /\ NoFtl1(d) /\ \A y : y # x => Quiet(d, y)
    BY <1>1, CopiesCode
  <2>2. OldInOwBuf(x) = d
    BY DEF OldInOwBuf, h
  <2>3. Inner(e) /\ NoFtl1(e) /\ \A y : Quiet(e, y)
    BY OthersInner
  <2> HIDE DEF d
  <2>4. d \in Seq(Steps)
    BY <2>1 DEF Block, Inner
  <2>5. d \o Others(n) \o r = d \o e
    BY <2>4, ChunkTail
  <2> HIDE DEF e
  <2>6. Inner(d \o e)
    BY <2>1, <2>3, Compose
  <2>7. e \in Seq(Steps)
    BY <2>3 DEF Inner
  <2>8. NoFtl1(d \o e) /\ \A y : y # x => Quiet(d \o e, y)
    <3>1. LET u == d \o e IN
          /\ \A y : Quiet(d, y) /\ Quiet(e, y) => Quiet(u, y)
          /\ NoFtl1(d) /\ NoFtl1(e) => NoFtl1(u)
      BY <2>4, <2>7, JoinedSteps
    <3> QED
      BY <3>1, <2>1, <2>3
  <2> QED
    BY <2>2, <2>5, <2>6, <2>8, <1>9
<1> HIDE DEF Good
<1>10. Good(code \o Others(n) \o r)
  BY <1>3, <1>5, <1>6, <1>7, <1>8, <1>9 DEF ChunkCode
<1> QED
  BY <1>10 DEF Good

LEMMA OldInOwLogShape ==
    ASSUME NEW b \in Banks, writeId \in Slot, lastBank \in Banks \cup {INVALID},
           NEW n \in 1 .. MaxChunks, NEW r \in Seq(Steps), Len(r) = 1, r[1] = Step("release")
    PROVE  LET t == OldInOwLog(b) \o Others(n) \o r IN
           /\ Inner(t)
           /\ \A y \in Kept : y # FTL_BUF(1) => Quiet(t, y)
           /\ lastBank # INVALID => Guarded(t, FTL_BUF(1), lastBank)
           /\ \E k \in DOMAIN t : Uses(t[k], FTL_BUF(1))
           /\ \A k \in DOMAIN t : t[k].do = "regs" /\ t[k].cmd.buf = FTL_BUF(1) => t[k].cmd.bank = b
<1> DEFINE x == FTL_BUF(1)
           w == IF lastBank # INVALID THEN waitBusyBank(lastBank) ELSE << >>
           d == << Copy(WR_BUF(writeId), x) >>
           p == nand_page_program(b, x)
           e == Others(n) \o r
           q == p \o e
           u == d \o q
<1>1. WR_BUF(writeId) \in HostBufs
  BY DEF HostBufs
<1>2. Inner(e) /\ NoFtl1(e) /\ \A y : Quiet(e, y)
  BY OthersInner
<1>3. OldInOwLog(b) = (w \o d) \o p
  BY DEF OldInOwLog
<1>4. Block(w) /\ Apart(w) /\ w \in Seq(Steps)
  BY WaitApart, EmptyApart DEF Apart, Inner
<1>5. lastBank # INVALID => Len(w) = 2 /\ w[2] = Await("idle", lastBank)
  BY WaitBlock
<1> HIDE DEF e, w
<1>6. /\ Block(d) /\ NoFtl1(d) /\ \A y : y # x => Quiet(d, y)
      /\ p \in Seq(Steps) /\ Inner(q) /\ \A y : Quiet(q, y)
      /\ Inner(u) /\ (\A y : y # x => Quiet(u, y))
      /\ \A k \in DOMAIN u : u[k].do = "regs" /\ u[k].cmd.buf = x => u[k].cmd.bank = b
      /\ \A k \in DOMAIN q : q[k].do = "regs" /\ q[k].cmd.buf = x => q[k].cmd.bank = b
  BY <1>1, <1>2, ThroughFtl1
<1>7. d \in Seq(Steps) /\ u \in Seq(Steps) /\ e \in Seq(Steps) /\ q \in Seq(Steps)
  BY <1>2, <1>6 DEF Block, Inner
<1>8. Len(d) = 1 /\ d[1].do = "copy" /\ d[1].dst = x
  BY DEF Copy
<1> HIDE DEF d, p, x
<1>9. ((w \o d) \o p) \o Others(n) \o r = w \o u
  <2>1. w \o d \in Seq(Steps) /\ (w \o d) \o p \in Seq(Steps)
    BY <1>4, <1>6, <1>7, ConcatProperties
  <2>2. ((w \o d) \o p) \o Others(n) \o r = ((w \o d) \o p) \o e
    BY <2>1, ChunkTail DEF e
  <2>0. w \in Seq(Steps) /\ d \in Seq(Steps) /\ p \in Seq(Steps) /\ e \in Seq(Steps)
    BY <1>4, <1>6, <1>7
  <2>3. ((w \o d) \o p) \o e = (w \o d) \o q
    <3> DEFINE v == w \o d
    <3>1. v \in Seq(Steps)
      BY <2>1
    <3> HIDE DEF v
    <3>2. (v \o p) \o e = v \o (p \o e)
      BY <3>1, <2>0, ConcatAssociative, SMTT(30)
    <3> QED
      BY <3>2 DEF v
  <2>4. (w \o d) \o q = w \o (d \o q)
    <3>1. q \in Seq(Steps)
      BY <1>7
    <3> HIDE DEF q
    <3> QED
      BY <2>0, <3>1, ConcatAssociative, SMTT(30)
  <2> QED
    BY <2>2, <2>3, <2>4
<1> DEFINE t == w \o u
<1>10. /\ \A k \in 1 .. Len(w) : t[k] = w[k]
       /\ Len(w) \in Nat /\ Len(u) \in Nat /\ DOMAIN w = 1 .. Len(w) /\ DOMAIN u = 1 .. Len(u)
       /\ DOMAIN t = 1 .. Len(w) + Len(u)
       /\ \A k \in 1 .. Len(u) : t[Len(w) + k] = u[k]
       /\ \A k \in DOMAIN t : (\E j \in DOMAIN w : t[k] = w[j]) \/ (\E j \in DOMAIN u : t[k] = u[j])
  <2> HIDE DEF u
  <2>1. LET v == w \o u IN
        /\ v \in Seq(Steps)
        /\ Len(w) \in Nat /\ Len(u) \in Nat
        /\ Len(v) = Len(w) + Len(u)
        /\ DOMAIN w = 1 .. Len(w) /\ DOMAIN u = 1 .. Len(u) /\ DOMAIN v = 1 .. Len(w) + Len(u)
        /\ \A k \in 1 .. Len(w) : v[k] = w[k] /\ w[k] \in Steps
        /\ \A k \in 1 .. Len(u) : v[Len(w) + k] = u[k] /\ u[k] \in Steps
        /\ \A k \in Len(w) + 1 .. Len(w) + Len(u) : k - Len(w) \in 1 .. Len(u) /\ v[k] = u[k - Len(w)]
    BY <1>4, <1>7, Joined
  <2>2. \A k \in 1 .. Len(w) + Len(u) : k \in 1 .. Len(w) \/ k \in Len(w) + 1 .. Len(w) + Len(u)
    BY <2>1
  <2> QED
    BY <2>1, <2>2
<1>11. 1 \in 1 .. Len(u) /\ u[1] = d[1]
  <2> HIDE DEF q
  <2>1. LET v == d \o q IN
        /\ v \in Seq(Steps)
        /\ Len(d) \in Nat /\ Len(q) \in Nat
        /\ Len(v) = Len(d) + Len(q)
        /\ DOMAIN d = 1 .. Len(d) /\ DOMAIN q = 1 .. Len(q) /\ DOMAIN v = 1 .. Len(d) + Len(q)
        /\ \A k \in 1 .. Len(d) : v[k] = d[k] /\ d[k] \in Steps
        /\ \A k \in 1 .. Len(q) : v[Len(d) + k] = q[k] /\ q[k] \in Steps
        /\ \A k \in Len(d) + 1 .. Len(d) + Len(q) : k - Len(d) \in 1 .. Len(q) /\ v[k] = q[k - Len(d)]
    BY <1>7, Joined
  <2> QED
    BY <2>1, <1>8
<1> HIDE DEF q, u
<1>12. Inner(t)
  <2>1. \A y : \A j \in DOMAIN w : ~Fills(w[j], y)
    <3>1. CASE lastBank # INVALID
      <4>1. \A j \in DOMAIN w : j = 1 \/ j = 2
        BY <1>5, <1>10, <3>1
      <4>2. w[1] = Step("empty") /\ w[2] = Await("idle", lastBank)
        BY <3>1, WaitBlock DEF w
      <4> QED
        BY <4>1, <4>2 DEF Fills, Step, Await
    <3>2. CASE lastBank = INVALID
      <4>1. \A j \in DOMAIN w : FALSE
        BY <3>2 DEF w
      <4> QED
        BY <4>1
    <3> QED
      BY <3>1, <3>2
  <2> QED
    BY <2>1, <1>4, <1>6, Compose
<1>13. ASSUME NEW y \in Kept, y # x
       PROVE  Quiet(t, y)
  <2>1. Quiet(w, y) /\ Quiet(u, y)
    BY <1>4, <1>6, <1>13 DEF Apart
  <2> QED
    BY <2>1, <1>10 DEF Quiet
<1>14. ASSUME lastBank # INVALID
       PROVE  Guarded(t, x, lastBank)
  <2>1. t[2] = Await("idle", lastBank) /\ Len(w) = 2
    BY <1>5, <1>10, <1>14
  <2>2. Quiet(w, x)
    BY <1>4 DEF Apart, Kept, x
  <2>3. ASSUME NEW k \in DOMAIN t, Uses(t[k], x)
        PROVE  2 \in 1 .. k - 1
    <3>1. ~(k \in 1 .. 2)
      BY <2>1, <2>2, <2>3, <1>10 DEF Quiet
    <3> QED
      BY <3>1, <1>10
  <2> QED
    BY <2>1, <2>3 DEF Guarded
<1>15. \E k \in DOMAIN t : Uses(t[k], x)
  <2>1. Len(w) + 1 \in DOMAIN t /\ t[Len(w) + 1] = u[1]
    BY <1>10, <1>11
  <2>2. Uses(u[1], x)
    BY <1>8, <1>11 DEF Uses
  <2> QED
    BY <2>1, <2>2
<1>16. \A k \in DOMAIN t : t[k].do = "regs" /\ t[k].cmd.buf = x => t[k].cmd.bank = b
  BY <1>4, <1>6, <1>10 DEF Apart, NoFtl1, x
<1> QED
  BY <1>3, <1>9, <1>12, <1>13, <1>14, <1>15, <1>16 DEF x

-----------------------------------------------------------------------------
(* The code goes to the next write buffer after a program from it.         *)
HostEnd(t) ==
    \A k \in DOMAIN t : t[k].do = "nextId" /\ k > 1 =>
        /\ t[k - 1].do = "issue"
        /\ k > 2 => t[k - 2].do = "regs" /\ OfHost(t[k - 2].cmd)

(* What the processor starts with when nothing is left to do: i is the     *)
(* write buffer the code is at.                                            *)
Fresh(t, i) ==
    /\ t \in Seq(Steps) /\ t # << >>
    /\ Shape(t) /\ Returns(t) /\ NoFtl1(t)
    /\ \A x \in Kept : Quiet(t, x)
    /\ t[1].do \notin {"idle", "issue", "accept", "done", "return", "restart", "nextId"}
    /\ t[1].do = "finish" /\ Len(t) > 1 => t[2].do # "issue"
    /\ HostEnd(t)
    /\ \A k \in DOMAIN t : t[k].do = "regs" => /\ t[k].cmd.op = "program" => t[k].cmd.buf \notin PageBufs
                                               /\ OfHost(t[k].cmd) => t[k].cmd.buf = WR_BUF(i)
    /\ NoRelease(t) \/ t[1].do = "sync"

LEMMA InnerRegs ==
    ASSUME NEW t, Inner(t), NEW k \in DOMAIN t, t[k].do = "regs"
    PROVE  /\ t[k].cmd.op = "program" => t[k].cmd.buf \notin PageBufs
           /\ ~OfHost(t[k].cmd)
<1>1. t \in Seq(Steps) /\ DOMAIN t = 1 .. Len(t)
  BY LenProperties DEF Inner
<1>2. t[k].cmd \in Commands
  BY <1>1, ElementOfSeq DEF Steps
<1>3. t[k].cmd.op = "program" => t[k].cmd.buf \notin PageBufs \cup HostBufs
  BY DEF Inner
<1>4. OfHost(t[k].cmd) => t[k].cmd.op = "program" /\ t[k].cmd.buf \in HostBufs
  BY <1>2 DEF OfHost, Commands, Programs, Reads, Plain, Kept, Targeted, PageBufs, GcBufs, NoBuf,
              LOG_BUF, OW_LOG_BUF, FTL_BUF, GC_BUF, TempBuf
<1> QED
  BY <1>3, <1>4

LEMMA ApartFresh ==
    ASSUME NEW t, Apart(t), t # << >>, NEW i
    PROVE  Fresh(t, i)
<1>1. t \in Seq(Steps) /\ DOMAIN t = 1 .. Len(t) /\ 1 \in DOMAIN t
  BY FirstAndRest DEF Apart, Inner
<1>2. ASSUME NEW k \in DOMAIN t, t[k].do = "regs"
      PROVE  /\ t[k].cmd.op = "program" => t[k].cmd.buf \notin PageBufs
             /\ ~OfHost(t[k].cmd)
  BY <1>2, InnerRegs DEF Apart
<1>3. t[1].do \notin {"idle", "issue", "accept", "done", "return", "restart", "nextId"} /\ HostEnd(t)
  BY <1>1 DEF Apart, Inner, HostEnd
<1>4. t[1].do = "finish" /\ Len(t) > 1 => t[2].do # "issue"
  BY DEF Apart, Inner
<1>5. Shape(t) /\ Returns(t) /\ NoFtl1(t) /\ NoRelease(t) /\ \A x \in Kept : Quiet(t, x)
  BY DEF Apart, Inner
<1> QED
  BY <1>1, <1>2, <1>3, <1>4, <1>5 DEF Fresh

(* A page of the host is programmed, in place or not.                      *)
LEMMA HostPageCode ==
    ASSUME NEW b \in Banks, NEW i \in Slot
    PROVE  LET t == nand_page_ptprogram_from_host(b, i) IN
           /\ Fresh(t, i)
           /\ Fresh(<< Step("sync") >> \o t, i)
<1> DEFINE c == Cmd("program", b, <<"WR", i>>)
           p == << Regs(c), Step("issue") >> \o << Step("nextId") >>
           q == << Step("sync") >> \o p
<1>1. /\ nand_page_ptprogram_from_host(b, i) = p
      /\ << Step("sync") >> \o nand_page_ptprogram_from_host(b, i) = q
  BY DEF nand_page_ptprogram_from_host, OnIssue
<1>2. /\ c \in Commands /\ c.op = "program" /\ c.buf = WR_BUF(i) /\ c.buf \notin PageBufs
      /\ c.buf # FTL_BUF(1) /\ OfHost(c) /\ c.buf \notin Kept
  BY DEF Cmd, Commands, Programs, HostBufs, WR_BUF, FTL_BUF, PageBufs, LOG_BUF, OW_LOG_BUF, OfHost, Kept
<1> HIDE DEF c
<1>3. Regs(c) \in Steps /\ Step("issue") \in Steps /\ Step("nextId") \in Steps /\ Step("sync") \in Steps
  BY <1>2 DEF Regs, Step, Steps
<1>4. /\ p \in Seq(Steps) /\ p # << >> /\ Len(p) = 3 /\ DOMAIN p = 1 .. 3
      /\ p[1] = Regs(c) /\ p[2] = Step("issue") /\ p[3] = Step("nextId")
  BY <1>3
<1>5. /\ q \in Seq(Steps) /\ q # << >> /\ Len(q) = 4 /\ DOMAIN q = 1 .. 4
      /\ q[1] = Step("sync") /\ q[2] = Regs(c) /\ q[3] = Step("issue") /\ q[4] = Step("nextId")
  BY <1>3
<1> HIDE DEF p, q
<1>6. Regs(c).do = "regs" /\ Regs(c).cmd = c /\ \A n : Step(n).do = n
  BY DEF Regs, Step
<1>7. \A t : t \in {p, q} => \A k \in DOMAIN t : t[k].do \in {"sync", "regs", "issue", "nextId"} /\ (t[k].do = "regs" => t[k].cmd = c)
  <2>1. \A k \in DOMAIN p : k = 1 \/ k = 2 \/ k = 3
    BY <1>4
  <2>2. \A k \in DOMAIN q : k = 1 \/ k = 2 \/ k = 3 \/ k = 4
    BY <1>5
  <2> QED
    BY <2>1, <2>2, <1>4, <1>5, <1>6
<1>8. \A t : t \in {p, q} => /\ Returns(t) /\ NoFtl1(t) /\ NoRelease(t) /\ (\A x : Quiet(t, x)) /\ Refilled(t)
                             /\ \A k \in DOMAIN t : t[k].do = "regs" => /\ t[k].cmd.op = "program" => t[k].cmd.buf \notin PageBufs
                                                                        /\ OfHost(t[k].cmd) => t[k].cmd.buf = WR_BUF(i)
  BY <1>2, <1>7 DEF Returns, NoFtl1, NoRelease, Quiet, Refilled, Uses
<1>9. Registers(p) /\ Registers(q)
  <2>1. \A k \in DOMAIN p : p[k].do = "regs" => k = 1
    <3>1. \A k \in DOMAIN p : k = 1 \/ k = 2 \/ k = 3
      BY <1>4
    <3> QED
      BY <3>1, <1>4, <1>6
  <2>2. \A k \in DOMAIN q : q[k].do = "regs" => k = 2
    <3>1. \A k \in DOMAIN q : k = 1 \/ k = 2 \/ k = 3 \/ k = 4
      BY <1>5
    <3> QED
      BY <3>1, <1>5, <1>6
  <2>3. OfRead(p, 1) /\ OfRead(q, 2)
    BY <1>2, <1>4, <1>5, <1>6 DEF OfRead
  <2>4. OfHostStep(p, 1)
    <3>1. 1 + 2 \in DOMAIN p /\ p[1 + 2] = Step("nextId") /\ \A j \in 1 .. 1 - 1 : p[j] = Step("sync")
      BY <1>4
    <3> QED
      BY <3>1 DEF OfHostStep
  <2>5. OfHostStep(q, 2)
    <3>1. 2 + 2 \in DOMAIN q /\ q[2 + 2] = Step("nextId") /\ \A j \in 1 .. 2 - 1 : j = 1
      BY <1>5
    <3> QED
      BY <3>1, <1>5 DEF OfHostStep
  <2>6. 1 + 1 \in DOMAIN p /\ p[1 + 1] = Step("issue") /\ 2 + 1 \in DOMAIN q /\ q[2 + 1] = Step("issue")
    BY <1>4, <1>5
  <2> QED
    BY <2>1, <2>2, <2>3, <2>4, <2>5, <2>6, <1>2, <1>4, <1>5, <1>6 DEF Registers
<1>10. Issues(p) /\ Issues(q)
  <2>1. /\ \A k \in DOMAIN p : k > 1 /\ p[k].do = "issue" => p[k - 1].do \in {"regs", "finish"}
        /\ \A k \in DOMAIN q : k > 1 /\ q[k].do = "issue" => q[k - 1].do \in {"regs", "finish"}
    <3>1. \A k \in DOMAIN p : p[k].do = "issue" => k = 2
      <4>1. \A k \in DOMAIN p : k = 1 \/ k = 2 \/ k = 3
        BY <1>4
      <4> QED
        BY <4>1, <1>4, <1>6
    <3>2. \A k \in DOMAIN q : q[k].do = "issue" => k = 3
      <4>1. \A k \in DOMAIN q : k = 1 \/ k = 2 \/ k = 3 \/ k = 4
        BY <1>5
      <4> QED
        BY <4>1, <1>5, <1>6
    <3>3. p[2 - 1].do = "regs" /\ q[3 - 1].do = "regs"
      BY <1>4, <1>5, <1>6
    <3> QED
      BY <3>1, <3>2, <3>3
  <2> QED
    BY <2>1, <1>7 DEF Issues
<1>11. Ends(p) /\ Ends(q)
  <2>1. \A k \in DOMAIN p : (p[k].do = "nextId" => k = 3) /\ p[k].do # "sync"
    <3>1. \A k \in DOMAIN p : k = 1 \/ k = 2 \/ k = 3
      BY <1>4
    <3> QED
      BY <3>1, <1>4, <1>6
  <2>2. \A k \in DOMAIN q : (q[k].do = "nextId" => k = 4) /\ (q[k].do = "sync" => k = 1)
    <3>1. \A k \in DOMAIN q : k = 1 \/ k = 2 \/ k = 3 \/ k = 4
      BY <1>5
    <3> QED
      BY <3>1, <1>5, <1>6
  <2> QED
    BY <2>1, <2>2, <1>4, <1>5, <1>7 DEF Ends
<1>12. HostEnd(p) /\ HostEnd(q)
  <2>1. \A k \in DOMAIN p : p[k].do = "nextId" => k = 3
    <3>1. \A k \in DOMAIN p : k = 1 \/ k = 2 \/ k = 3
      BY <1>4
    <3> QED
      BY <3>1, <1>4, <1>6
  <2>2. \A k \in DOMAIN q : q[k].do = "nextId" => k = 4
    <3>1. \A k \in DOMAIN q : k = 1 \/ k = 2 \/ k = 3 \/ k = 4
      BY <1>5
    <3> QED
      BY <3>1, <1>5, <1>6
  <2>3. p[3 - 1] = p[2] /\ p[3 - 2] = p[1] /\ q[4 - 1] = q[3] /\ q[4 - 2] = q[2]
    OBVIOUS
  <2> QED
    BY <2>1, <2>2, <2>3, <1>2, <1>4, <1>5, <1>6 DEF HostEnd
<1>13. Fresh(p, i) /\ Fresh(q, i)
  BY <1>4, <1>5, <1>6, <1>8, <1>9, <1>10, <1>11, <1>12 DEF Fresh, Shape
<1> QED
  BY <1>1, <1>13

(* The write buffer is waited for, used, and given back.                   *)
LEMMA SyncedCode ==
    ASSUME NEW s \in Steps, s.do = "chunks" \/ (s.do = "copy" /\ s.dst = RangeBuf), NEW i
    PROVE  Fresh(<< Step("sync"), s, Step("release") >>, i)
<1> DEFINE t == << Step("sync"), s, Step("release") >>
<1>1. Step("sync") \in Steps /\ Step("release") \in Steps /\ \A n : Step(n).do = n
  BY DEF Step, Steps
<1>2. /\ t \in Seq(Steps) /\ t # << >> /\ Len(t) = 3 /\ DOMAIN t = 1 .. 3
      /\ t[1] = Step("sync") /\ t[2] = s /\ t[3] = Step("release")
  BY <1>1
<1> HIDE DEF t
<1>3. \A k \in DOMAIN t : k = 1 \/ k = 2 \/ k = 3
  BY <1>2
<1>4. \A k \in DOMAIN t : /\ t[k].do \in {"sync", "chunks", "copy", "release"}
                          /\ t[k].do = "sync" => k = 1
                          /\ t[k].do = "release" => k = 3
                          /\ t[k].do = "chunks" => k = 2
                          /\ t[k].do = "copy" => t[k].dst = RangeBuf
  BY <1>1, <1>2, <1>3
<1>5. RangeBuf \notin Kept
  BY DEF RangeBuf, Kept, PageBufs, LOG_BUF, OW_LOG_BUF, FTL_BUF
<1>6. \A x \in Kept : Quiet(t, x)
  BY <1>4, <1>5 DEF Quiet, Uses
<1>7. Refilled(t)
  BY <1>2, <1>4, <1>6 DEF Refilled, Quiet
<1>8. Ends(t)
  <2>1. 2 + 1 \in DOMAIN t /\ t[2 + 1] = Step("release")
    BY <1>2
  <2> QED
    BY <2>1, <1>2, <1>4 DEF Ends
<1>9. Registers(t) /\ Issues(t) /\ Returns(t) /\ NoFtl1(t)
  BY <1>4 DEF Registers, Issues, Returns, NoFtl1
<1>10. Fresh(t, i)
  <2>1. HostEnd(t)
    BY <1>4 DEF HostEnd
  <2> QED
    BY <2>1, <1>1, <1>2, <1>4, <1>6, <1>7, <1>8, <1>9 DEF Fresh, Shape
<1> QED
  BY <1>10 DEF t

LEMMA FinishBlock ==
    LET f == << Step("finish") >> IN Block(f) /\ Apart(f) /\ f \in Seq(Steps) /\ Len(f) = 1
<1> DEFINE f == << Step("finish") >>
<1>1. Step("finish") \in Steps /\ Step("finish").do = "finish"
  BY DEF Step, Steps
<1>2. f \in Seq(Steps) /\ Len(f) = 1 /\ DOMAIN f = 1 .. 1 /\ f[1] = Step("finish")
  BY <1>1
<1> HIDE DEF f
<1>3. \A k \in DOMAIN f : f[k].do = "finish" /\ k = 1
  BY <1>1, <1>2
<1>4. Registers(f) /\ Issues(f) /\ Ends(f) /\ Refilled(f) /\ Returns(f)
  BY <1>2, <1>3 DEF Registers, Issues, Ends, Refilled, Returns, Uses
<1>5. Inner(f) /\ NoFtl1(f) /\ NoRelease(f) /\ \A x : Quiet(f, x)
  BY <1>1, <1>2, <1>3, <1>4 DEF Inner, Shape, NoFtl1, NoRelease, Quiet, Uses
<1>6. Block(f) /\ Apart(f)
  BY <1>3, <1>5 DEF Block, Apart
<1> QED
  BY <1>2, <1>6 DEF f

(* A chunk of flash, or of a buffer, is brought into FTL_BUF(0).           *)
LEMMA ReadCode ==
    ASSUME NEW fetch \in FetchCode
    PROVE  Apart(Read(fetch)) /\ Read(fetch) # << >>
<1> DEFINE f == << Step("finish") >>
           l == << Copy(FTL_BUF(0), ReadBuf) >>
<1>1. /\ FTL_BUF(0) \in Targeted /\ TempBuf \in Targeted /\ FTL_BUF(0) \in Filled /\ ReadBuf \in Filled
      /\ FTL_BUF(0) \notin Kept /\ TempBuf \notin Kept /\ ReadBuf \notin Kept
      /\ FTL_BUF(1) \in Kept
  BY DEF Targeted, Filled, Kept, PageBufs, LOG_BUF, OW_LOG_BUF, FTL_BUF, TempBuf, ReadBuf
<1>2. ASSUME NEW src \in Targeted, NEW dst \in Filled \ Kept
      PROVE  Block(<< Copy(src, dst) >>) /\ Apart(<< Copy(src, dst) >>)
  <2> DEFINE t == << Copy(src, dst) >>
  <2>1. Copy(src, dst) \in Steps /\ Copy(src, dst).do = "copy" /\ Copy(src, dst).dst = dst
    BY DEF Copy, Steps
  <2>2. t \in Seq(Steps) /\ DOMAIN t = 1 .. 1 /\ t[1] = Copy(src, dst)
    BY <2>1
  <2> HIDE DEF t
  <2>3. \A k \in DOMAIN t : t[k].do = "copy" /\ t[k].dst = dst
    BY <2>1, <2>2
  <2>4. Block(t)
    BY <2>2, <2>3, CopiesBlock
  <2>5. Apart(t)
    BY <2>3, <2>4 DEF Apart, Block, NoFtl1, NoRelease, Quiet, Uses
  <2> QED
    BY <2>4, <2>5 DEF t
<1>3. ASSUME NEW b \in Banks, NEW x \in Targeted \ Kept
      PROVE  Block(nand_page_read(b, x)) /\ Apart(nand_page_read(b, x))
  <2> DEFINE t == nand_page_read(b, x)
  <2>1. /\ Block(t)
        /\ \A y : y # x => Quiet(t, y)
        /\ \A k \in DOMAIN t : t[k].do = "regs" => t[k].cmd.buf = x
    BY ReadBlock
  <2> HIDE DEF t
  <2>2. NoFtl1(t) /\ NoRelease(t) /\ \A y \in Kept : Quiet(t, y)
    BY <2>1, <1>1 DEF NoFtl1, NoRelease, Block
  <2> QED
    BY <2>1, <2>2 DEF Apart, Block, t
<1>4. Block(fetch) /\ Apart(fetch)
  <2>1. CASE fetch \in {nand_page_read(b, FTL_BUF(0)) : b \in Banks}
    BY <2>1, <1>1, <1>3
  <2>2. ASSUME NEW b \in Banks, fetch = nand_page_read(b, TempBuf) \o << Copy(TempBuf, FTL_BUF(0)) >>
        PROVE  Block(fetch) /\ Apart(fetch)
    BY <2>2, <1>1, <1>2, <1>3, ApartJoined
  <2>3. CASE fetch \in {<< Copy(x, FTL_BUF(0)) >> : x \in {y \in PageBufs : Open(y)}}
    <3>1. PageBufs \subseteq Targeted
      BY DEF Targeted
    <3> QED
      BY <2>3, <3>1, <1>1, <1>2
  <2> QED
    BY <2>1, <2>2, <2>3 DEF FetchCode
<1>5. Block(l) /\ Apart(l)
  BY <1>1, <1>2
<1>6. Block(f) /\ Apart(f) /\ Len(f) = 1
  BY FinishBlock
<1>7. Read(fetch) = (f \o fetch) \o l
  BY DEF Read, flash_finish
<1> HIDE DEF f, l
<1>8. Apart((f \o fetch) \o l)
  BY <1>4, <1>5, <1>6, ApartJoined
<1>9. (f \o fetch) \o l # << >>
  <2>1. f \in Seq(Steps) /\ fetch \in Seq(Steps) /\ l \in Seq(Steps)
    BY <1>4, <1>5, <1>6 DEF Apart, Inner
  <2>2. Len(f \o fetch) = Len(f) + Len(fetch) /\ f \o fetch \in Seq(Steps) /\ Len(fetch) \in Nat
    BY <2>1, ConcatProperties, LenProperties
  <2>3. Len((f \o fetch) \o l) = Len(f \o fetch) + Len(l) /\ (f \o fetch) \o l \in Seq(Steps) /\ Len(l) \in Nat
    BY <2>1, <2>2, ConcatProperties, LenProperties
  <2>4. Len((f \o fetch) \o l) # 0
    BY <2>2, <2>3, <1>6
  <2> QED
    BY <2>3, <2>4, EmptySeq
<1> QED
  BY <1>7, <1>8, <1>9

LEMMA BeginCode ==
    ASSUME NEW b \in Banks, NEW n \in 1 .. MaxPages, NEW fetch \in FetchCode, writeId \in Slot
    PROVE  /\ Fresh(CompletePage(b), writeId)
           /\ Fresh(InPlacePage(b), writeId)
           /\ Fresh(PartialPage, writeId)
           /\ Fresh(Trim, writeId)
           /\ Fresh(Read(fetch), writeId)
           /\ Fresh(<< Collect(b, INVALID, n) >>, writeId)
           /\ Fresh(nand_block_erase_sync(b), writeId)
<1>1. Fresh(CompletePage(b), writeId) /\ Fresh(InPlacePage(b), writeId)
  BY HostPageCode DEF CompletePage, InPlacePage
<1>2. Fresh(PartialPage, writeId)
  <2>1. MaxChunks \in Nat
    BY ClientsAssumption
  <2>2. Chunks(MaxChunks) \in Steps /\ Chunks(MaxChunks).do = "chunks"
    BY <2>1 DEF Chunks, Steps
  <2> QED
    BY <2>2, SyncedCode DEF PartialPage
<1>3. Fresh(Trim, writeId)
  <2>1. Copy(WR_BUF(writeId), RangeBuf) \in Steps
    BY DEF Copy, Steps, HostBufs, Filled
  <2>2. Copy(WR_BUF(writeId), RangeBuf).do = "copy" /\ Copy(WR_BUF(writeId), RangeBuf).dst = RangeBuf
    BY DEF Copy
  <2> QED
    BY <2>1, <2>2, SyncedCode DEF Trim
<1>4. Fresh(Read(fetch), writeId)
  BY ReadCode, ApartFresh
<1>5. Fresh(<< Collect(b, INVALID, n) >>, writeId)
  <2> DEFINE t == << Collect(b, INVALID, n) >>
  <2>1. Collect(b, INVALID, n) \in Steps /\ Collect(b, INVALID, n).do = "collect"
    BY DEF Collect, Steps
  <2>2. t \in Seq(Steps) /\ Len(t) = 1 /\ t[1].do = "collect" /\ DOMAIN t = 1 .. 1 /\ t # << >>
    BY <2>1
  <2> HIDE DEF t
  <2>3. \A k \in DOMAIN t : t[k].do = "collect" /\ k = Len(t)
    BY <2>2
  <2> QED
    BY <2>2, <2>3, LeftApart, ApartFresh DEF t
<1>6. Fresh(nand_block_erase_sync(b), writeId)
  <2> DEFINE t == nand_block_erase_sync(b)
  <2>1. Block(t) /\ NoFtl1(t) /\ NoRelease(t) /\ \A x : Quiet(t, x)
    BY EraseSyncBlock
  <2>2. t # << >>
    BY DEF nand_block_erase_sync, WhenDone, OnIssue
  <2> HIDE DEF t
  <2> QED
    BY <2>1, <2>2, ApartFresh DEF Apart, Block, t
<1> QED
  BY <1>1, <1>2, <1>3, <1>4, <1>5, <1>6

-----------------------------------------------------------------------------
(* A full buffer is programmed: what is left of the code comes after it.   *)
LEMMA AdvanceShape ==
    ASSUME NEW t \in Seq(Steps), t # << >>, Shape(t), NEW x \in PageBufs, t[1] = Advance(x)
    PROVE  LET u == nand_page_program(x[2], x) \o Tail(t)
               c == Cmd("program", x[2], x)
           IN  /\ u \in Seq(Steps) /\ Shape(u)
               /\ c \in Programs
               /\ Len(u) = Len(t) + 1 /\ DOMAIN u = 1 .. Len(t) + 1
               /\ u[1] = Regs(c) /\ u[2] = Step("issue")
               /\ \A k \in 2 .. Len(t) : u[k + 1] = t[k]
               /\ Returns(t) => Returns(u) /\ \A k \in DOMAIN u : u[k].do = "return" => k > 4
<1> DEFINE c == Cmd("program", x[2], x)
           p == << Regs(c), Step("issue") >>
           r == Tail(t)
           u == p \o r
           n == Len(t)
<1>1. nand_page_program(x[2], x) = p
  BY DEF nand_page_program, OnIssue
<1>2. x[2] \in Banks /\ x \in Kept /\ ~OfHost(c) /\ x \in PageBufs
  BY DEF PageBufs, Kept, LOG_BUF, OW_LOG_BUF, OfHost, Cmd
<1>3. c \in Programs /\ c \in Commands /\ c.op = "program" /\ c.buf = x /\ c.bank = x[2]
  BY <1>2 DEF Cmd, Commands, Programs
<1>4. Regs(c) \in Steps /\ Step("issue") \in Steps /\ Regs(c).do = "regs" /\ Regs(c).cmd = c /\ Step("issue").do = "issue"
  BY <1>3 DEF Regs, Step, Steps
<1> HIDE DEF c
<1>5. p \in Seq(Steps) /\ Len(p) = 2 /\ p[1] = Regs(c) /\ p[2] = Step("issue")
  BY <1>4
<1> HIDE DEF p
<1>6. /\ n \in Nat \ {0} /\ DOMAIN t = 1 .. n /\ r \in Seq(Steps) /\ Len(r) = n - 1
      /\ \A k \in 1 .. n - 1 : r[k] = t[k + 1]
  BY FirstAndRest
<1> HIDE DEF r, n, u
<1>7. /\ u \in Seq(Steps) /\ Len(u) = n + 1 /\ DOMAIN u = 1 .. n + 1 /\ u[1] = Regs(c) /\ u[2] = Step("issue")
      /\ \A k \in 3 .. n + 1 : k - 1 \in 2 .. n /\ u[k] = t[k - 1]
  <2>0. p \in Seq(Steps) /\ r \in Seq(Steps)
    BY <1>5, <1>6
  <2>1. LET v == p \o r IN
        /\ v \in Seq(Steps)
        /\ Len(p) \in Nat /\ Len(r) \in Nat
        /\ Len(v) = Len(p) + Len(r)
        /\ DOMAIN p = 1 .. Len(p) /\ DOMAIN r = 1 .. Len(r) /\ DOMAIN v = 1 .. Len(p) + Len(r)
        /\ \A k \in 1 .. Len(p) : v[k] = p[k] /\ p[k] \in Steps
        /\ \A k \in 1 .. Len(r) : v[Len(p) + k] = r[k] /\ r[k] \in Steps
        /\ \A k \in Len(p) + 1 .. Len(p) + Len(r) : k - Len(p) \in 1 .. Len(r) /\ v[k] = r[k - Len(p)]
    BY <2>0, Joined
  <2> DEFINE w == p \o r
  <2> HIDE DEF w
  <2>2. /\ w \in Seq(Steps) /\ Len(w) = n + 1 /\ DOMAIN w = 1 .. n + 1 /\ w[1] = p[1] /\ w[2] = p[2]
        /\ \A k \in 3 .. n + 1 : k - 2 \in 1 .. n - 1 /\ w[k] = r[k - 2]
    BY <2>1, <1>5, <1>6 DEF w
  <2>3. \A k \in 3 .. n + 1 : k - 1 \in 2 .. n /\ (k - 2) + 1 = k - 1
    BY <1>6
  <2> QED
    BY <2>2, <2>3, <1>5, <1>6 DEF w, u
<1>8. n \in Nat
  BY <1>6
<1>9. t[1].do = "advance" /\ t[1].buf = x
  BY DEF Advance
<1>10. \A k \in 2 .. n : k \in DOMAIN t /\ u[k + 1] = t[k]
  <2>1. \A k \in 2 .. n : k \in 1 .. n /\ k + 1 \in 3 .. n + 1 /\ (k + 1) - 1 = k
    BY <1>8
  <2> QED
    BY <2>1, <1>6, <1>7
(* Every step after the two is one of t, and not the first.                *)
<1>11. \A k \in 1 .. n + 1 : k = 1 \/ k = 2 \/ \E l \in 2 .. n : k = l + 1 /\ u[k] = t[l] /\ l \in DOMAIN t
  <2> SUFFICES ASSUME NEW k \in 1 .. n + 1, k # 1, k # 2
               PROVE  \E l \in 2 .. n : k = l + 1 /\ u[k] = t[l] /\ l \in DOMAIN t
    OBVIOUS
  <2>1. k - 1 \in 2 .. n /\ k = (k - 1) + 1 /\ k \in 3 .. n + 1
    BY <1>8
  <2> QED
    BY <2>1, <1>7, <1>10
<1>12. Registers(u)
  <2> SUFFICES ASSUME NEW k \in 1 .. n + 1, u[k].do = "regs"
               PROVE  /\ k + 1 \in DOMAIN u /\ u[k + 1] = Step("issue") /\ OfRead(u, k) /\ OfHostStep(u, k)
                      /\ u[k].cmd.op = "program" /\ u[k].cmd.buf \in PageBufs => k = 1
    BY <1>7 DEF Registers
  <2>1. CASE k = 1
    <3>1. 1 + 1 \in DOMAIN u /\ u[1 + 1] = Step("issue")
      <4>1. 1 + 1 = 2 /\ 2 \in 1 .. n + 1
        BY <1>6
      <4> QED
        BY <4>1, <1>7
    <3>2. OfRead(u, 1) /\ OfHostStep(u, 1)
      BY <1>2, <1>3, <1>4, <1>7 DEF OfRead, OfHostStep
    <3> QED
      BY <2>1, <3>1, <3>2
  <2>2. ASSUME NEW l \in 2 .. n, k = l + 1, u[k] = t[l], l \in DOMAIN t
        PROVE  /\ k + 1 \in DOMAIN u /\ u[k + 1] = Step("issue") /\ OfRead(u, k) /\ OfHostStep(u, k)
               /\ u[k].cmd.op = "program" /\ u[k].cmd.buf \in PageBufs => k = 1
    <3>1. /\ l + 1 \in 1 .. n /\ t[l + 1] = Step("issue") /\ OfRead(t, l) /\ OfHostStep(t, l)
          /\ t[l].cmd.op = "program" /\ t[l].cmd.buf \in PageBufs => l = 1
      BY <2>2, <1>6 DEF Shape, Registers
    <3>2. k + 1 \in DOMAIN u /\ u[k + 1] = t[l + 1]
      <4>1. l + 1 \in 2 .. n /\ k + 1 = (l + 1) + 1 /\ k + 1 \in 1 .. n + 1
        BY <2>2, <3>1, <1>8
      <4> QED
        BY <4>1, <1>7, <1>10
    <3>3. ~OfHost(t[l].cmd)
      <4>1. 1 \in 1 .. l - 1 /\ Step("sync").do = "sync"
        BY DEF Step
      <4> QED
        BY <3>1, <4>1, <1>9 DEF OfHostStep
    <3>4. OfRead(u, k)
      <4>1. CASE t[l].cmd.op = "read"
        <5>1. /\ l + 4 \in 1 .. n /\ t[l + 2] = Step("accept") /\ t[l + 3] = Await("done", t[l].cmd.bank)
              /\ t[l + 4] = Return(t[l].cmd.bank, t[l].cmd.buf)
          BY <3>1, <4>1, <1>6 DEF OfRead
        <5>2. /\ l + 2 \in 2 .. n /\ l + 3 \in 2 .. n /\ l + 4 \in 2 .. n
              /\ k + 2 = (l + 2) + 1 /\ k + 3 = (l + 3) + 1 /\ k + 4 = (l + 4) + 1 /\ k + 4 \in 1 .. n + 1
          BY <5>1, <2>2, <1>8, SMTT(30)
        <5>3. u[(l + 2) + 1] = t[l + 2] /\ u[(l + 3) + 1] = t[l + 3] /\ u[(l + 4) + 1] = t[l + 4]
          BY <5>2, <1>10
        <5>4. u[k + 2] = t[l + 2] /\ u[k + 3] = t[l + 3] /\ u[k + 4] = t[l + 4] /\ k + 4 \in DOMAIN u
          BY <5>2, <5>3, <1>7
        <5> QED
          BY <5>1, <5>4, <2>2 DEF OfRead
      <4> QED
        BY <4>1, <2>2 DEF OfRead
    <3>5. l # 1
      BY <1>8
    <3> QED
      BY <3>1, <3>2, <3>3, <3>4, <3>5, <2>2 DEF OfHostStep
  <2>3. k # 2
    BY <1>4, <1>7
  <2> QED
    BY <2>1, <2>2, <2>3, <1>11
<1>13. Issues(u)
  <2>1. ASSUME NEW k \in 1 .. n + 1, k > 1, u[k].do = "issue"
        PROVE  u[k - 1].do \in {"regs", "finish"}
    <3>1. CASE k = 2
      BY <3>1, <1>4, <1>7
    <3>2. ASSUME NEW l \in 2 .. n, k = l + 1, u[k] = t[l], l \in DOMAIN t
          PROVE  u[k - 1].do \in {"regs", "finish"}
      <4>0. t[l].do = "issue" /\ l > 1
        BY <2>1, <3>2, <1>8
      <4>1. t[l - 1].do \in {"regs", "finish"}
        BY <4>0, <3>2 DEF Shape, Issues
      <4>2. l # 2
        BY <4>1, <1>9
      <4>3. l - 1 \in 2 .. n /\ k - 1 = (l - 1) + 1
        BY <4>2, <3>2, <1>8
      <4> QED
        BY <4>1, <4>3, <1>10
    <3> QED
      BY <3>1, <3>2, <2>1, <1>11
  <2>2. ASSUME NEW k \in 1 .. n + 1, k > 1, u[k].do = "finish", k + 1 \in 1 .. n + 1, u[k + 1].do = "issue"
        PROVE  /\ u[k - 1].do = "issue"
               /\ k > 2 => u[k - 2].do = "finish" \/ (u[k - 2].do = "regs" /\ u[k - 2].cmd.op = "wait")
    <3>1. k # 2
      BY <2>2, <1>4, <1>7
    <3>2. PICK l \in 2 .. n : k = l + 1 /\ u[k] = t[l] /\ l \in DOMAIN t
      BY <2>2, <3>1, <1>11
    <3>3. l + 1 \in 2 .. n /\ k + 1 = (l + 1) + 1 /\ l + 1 \in DOMAIN t
      <4>0. l \in 2 .. n /\ k = l + 1 /\ k + 1 \in 1 .. n + 1
        BY <3>2, <2>2
      <4>1. l + 1 \in 2 .. n /\ k + 1 = (l + 1) + 1 /\ l + 1 \in 1 .. n
        BY ONLY <4>0, <1>8
      <4> QED
        BY <4>1, <1>6
    <3>4. u[k + 1] = t[l + 1]
      BY <3>3, <1>10
    <3>5. /\ t[l - 1].do = "issue"
          /\ l > 2 => t[l - 2].do = "finish" \/ (t[l - 2].do = "regs" /\ t[l - 2].cmd.op = "wait")
      <4>1. l > 1 /\ t[l].do = "finish" /\ t[l + 1].do = "issue" /\ l \in DOMAIN t /\ l + 1 \in DOMAIN t
        BY <2>2, <3>2, <3>3, <3>4, <1>8
      <4> QED
        BY <4>1 DEF Shape, Issues
    <3>6. l # 2
      BY <3>5, <1>9
    <3>7. l # 3
      <4>1. l = 3 => t[3 - 2].do = "finish" \/ t[3 - 2].do = "regs"
        BY <3>5
      <4> QED
        BY <4>1, <1>9
    <3>8. l - 1 \in 2 .. n /\ k - 1 = (l - 1) + 1 /\ l - 2 \in 2 .. n /\ k - 2 = (l - 2) + 1 /\ l > 2
      BY <3>2, <3>6, <3>7, <1>8
    <3>9. u[k - 1] = t[l - 1] /\ u[k - 2] = t[l - 2]
      BY <3>8, <1>10
    <3> QED
      BY <3>5, <3>8, <3>9
  <2> QED
    BY <2>1, <2>2, <1>7 DEF Issues
<1>14. Ends(u)
  <2> SUFFICES ASSUME NEW k \in 1 .. n + 1
               PROVE  /\ u[k].do = "idle" /\ k > 1 => u[k - 1].do = "empty"
                      /\ u[k].do \in {"sync", "restart"} => k = 1
                      /\ u[k].do \in {"release", "collect", "nextId"} => k = n + 1
                      /\ u[k].do = "chunks" => k + 1 \in 1 .. n + 1 /\ u[k + 1] = Step("release")
                      /\ u[k].do = "moves" => k = n + 1 \/ (k + 1 \in 1 .. n + 1 /\ u[k + 1].do = "collect")
    BY <1>7 DEF Ends
  <2>1. CASE k = 1 \/ k = 2
    BY <2>1, <1>4, <1>7
  <2>2. ASSUME NEW l \in 2 .. n, k = l + 1, u[k] = t[l], l \in DOMAIN t
        PROVE  /\ u[k].do = "idle" /\ k > 1 => u[k - 1].do = "empty"
               /\ u[k].do \in {"sync", "restart"} => k = 1
               /\ u[k].do \in {"release", "collect", "nextId"} => k = n + 1
               /\ u[k].do = "chunks" => k + 1 \in 1 .. n + 1 /\ u[k + 1] = Step("release")
               /\ u[k].do = "moves" => k = n + 1 \/ (k + 1 \in 1 .. n + 1 /\ u[k + 1].do = "collect")
    <3>1. /\ t[l].do = "idle" /\ l > 1 => t[l - 1].do = "empty"
          /\ t[l].do \in {"sync", "restart"} => l = 1
          /\ t[l].do \in {"release", "collect", "nextId"} => l = n
          /\ t[l].do = "chunks" => l + 1 \in 1 .. n /\ t[l + 1] = Step("release")
          /\ t[l].do = "moves" => l = n \/ (l + 1 \in 1 .. n /\ t[l + 1].do = "collect")
      BY <2>2, <1>6 DEF Shape, Ends, n
    <3>2. l \in 2 .. n /\ k = l + 1
      BY <2>2
    <3>3. l > 1 /\ l # 1 /\ (l = n => k = n + 1)
      BY ONLY <3>2, <1>8
    <3>4. l + 1 \in 1 .. n => k + 1 \in 1 .. n + 1 /\ u[k + 1] = t[l + 1]
      <4>1. l + 1 \in 1 .. n => l + 1 \in 2 .. n /\ k + 1 \in 1 .. n + 1 /\ k + 1 = (l + 1) + 1
        BY ONLY <3>2, <1>8
      <4> QED
        BY <4>1, <1>10
    <3>5. t[l].do = "idle" => u[k - 1].do = "empty"
      <4>1. l # 2 => l - 1 \in 2 .. n /\ k - 1 = (l - 1) + 1
        BY ONLY <3>2, <1>8
      <4>2. l # 2 => u[k - 1] = t[l - 1]
        BY <4>1, <1>10
      <4>3. l = 2 => t[l].do # "idle"
        <5>1. l = 2 => l - 1 = 1
          OBVIOUS
        <5> QED
          BY <5>1, <3>1, <3>3, <1>9
      <4> QED
        BY <4>2, <4>3, <3>1, <3>3
    <3> QED
      BY <3>1, <3>3, <3>4, <3>5, <2>2
  <2> QED
    BY <2>1, <2>2, <1>11
<1>15. Refilled(u)
  <2> SUFFICES ASSUME NEW k \in 1 .. n + 1, NEW j \in 1 .. k - 1, NEW y \in Kept, Fills(u[j], y), Uses(u[k], y)
               PROVE  \E i \in j + 1 .. k - 1 : u[i] = Await("idle", FilledBy(u[j]))
    BY <1>7 DEF Refilled
  <2>1. k # 1 /\ k # 2 /\ j # 2
    BY <1>4, <1>7 DEF Uses, Fills
  <2>2. PICK l \in 2 .. n : k = l + 1 /\ u[k] = t[l] /\ l \in DOMAIN t
    BY <2>1, <1>11
  <2>3. j \in 1 .. n + 1
    BY <1>8
  <2>4. CASE j = 1
    <3>1. y = x /\ FilledBy(u[j]) = x[2]
      BY <2>4, <1>3, <1>4, <1>7 DEF Fills, FilledBy
    <3>2. Fills(t[1], x) /\ FilledBy(t[1]) = x[2] /\ 1 \in 1 .. l - 1
      BY <1>9 DEF Fills, FilledBy
    <3>3. PICK i \in 1 + 1 .. l - 1 : t[i] = Await("idle", x[2])
      BY <2>2, <3>1, <3>2, <1>2 DEF Shape, Refilled
    <3>4. i \in 2 .. n /\ i + 1 \in j + 1 .. k - 1
      BY <3>3, <2>2, <2>4, <1>8
    <3> QED
      BY <3>1, <3>3, <3>4, <1>10
  <2>5. ASSUME NEW h \in 2 .. n, j = h + 1, u[j] = t[h], h \in DOMAIN t
        PROVE  \E i \in j + 1 .. k - 1 : u[i] = Await("idle", FilledBy(u[j]))
    <3>1. h \in 1 .. l - 1
      BY <2>2, <2>5, <1>8
    <3>2. PICK i \in h + 1 .. l - 1 : t[i] = Await("idle", FilledBy(t[h]))
      BY <2>2, <2>5, <3>1 DEF Shape, Refilled
    <3>3. i \in 2 .. n /\ i + 1 \in j + 1 .. k - 1
      BY <3>2, <2>2, <2>5, <1>8
    <3> QED
      BY <3>2, <3>3, <2>5, <1>10
  <2> QED
    BY <2>1, <2>3, <2>4, <2>5, <1>11
<1>16. ASSUME Returns(t)
       PROVE  Returns(u) /\ \A k \in DOMAIN u : u[k].do = "return" => k > 4
  <2> SUFFICES ASSUME NEW k \in 1 .. n + 1, u[k].do = "return"
               PROVE  /\ k > 4
                      /\ u[k - 1] = Await("done", u[k].bank)
                      /\ u[k - 2] = Step("accept")
                      /\ u[k - 3] = Step("issue")
                      /\ u[k - 4] = Regs(Cmd("read", u[k].bank, u[k].buf))
    BY <1>7 DEF Returns
  <2>1. k # 1 /\ k # 2
    BY <1>4, <1>7
  <2>2. PICK l \in 2 .. n : k = l + 1 /\ u[k] = t[l] /\ l \in DOMAIN t
    BY <2>1, <1>11
  <2>3. /\ t[l - 1] = Await("done", t[l].bank)
        /\ l > 2 => t[l - 2] = Step("accept")
        /\ l > 3 => t[l - 3] = Step("issue")
        /\ l > 4 => t[l - 4] = Regs(Cmd("read", t[l].bank, t[l].buf))
    BY <2>2, <1>16 DEF Returns
  <2>4. l # 2 /\ l # 3 /\ l # 4 /\ l # 5
    <3>1. l = 2 => t[1] = Await("done", t[l].bank)
      BY <2>3
    <3>2. l = 3 => t[1] = Step("accept")
      BY <2>3
    <3>3. l = 4 => t[1] = Step("issue")
      BY <2>3
    <3>4. l = 5 => t[1] = Regs(Cmd("read", t[l].bank, t[l].buf))
      BY <2>3
    <3> QED
      BY <3>1, <3>2, <3>3, <3>4, <1>9 DEF Await, Step, Regs
  <2>5. l \in 2 .. n /\ k = l + 1
    BY <2>2
  <2>6. /\ l - 1 \in 2 .. n /\ l - 2 \in 2 .. n /\ l - 3 \in 2 .. n /\ l - 4 \in 2 .. n /\ l > 4 /\ k > 4
        /\ k - 1 = (l - 1) + 1 /\ k - 2 = (l - 2) + 1 /\ k - 3 = (l - 3) + 1 /\ k - 4 = (l - 4) + 1
    BY ONLY <2>4, <2>5, <1>8
  <2>7. u[k - 1] = t[l - 1] /\ u[k - 2] = t[l - 2] /\ u[k - 3] = t[l - 3] /\ u[k - 4] = t[l - 4]
    BY <2>6, <1>10
  <2>8. l > 2 /\ l > 3 /\ l > 4
    BY <2>6, <1>8
  <2>9. /\ u[k - 1] = Await("done", t[l].bank) /\ u[k - 2] = Step("accept") /\ u[k - 3] = Step("issue")
        /\ u[k - 4] = Regs(Cmd("read", t[l].bank, t[l].buf))
    BY <2>3, <2>7, <2>8
  <2> QED
    BY <2>2, <2>6, <2>9
<1> QED
  BY <1>1, <1>3, <1>7, <1>10, <1>12, <1>13, <1>14, <1>15, <1>16 DEF Shape, u, r, n, c

(* A bank is reset, and the wait goes on.                                  *)
LEMMA ResetShape ==
    ASSUME NEW t \in Seq(Steps), t # << >>, Shape(t), t[1].do \in {"issue", "accept", "done"}, NEW b \in Banks
    PROVE  LET u == flash_reset_one_bank(b) \o t IN
           /\ u \in Seq(Steps) /\ Shape(u)
           /\ Len(u) = Len(t) + 6 /\ DOMAIN u = 1 .. Len(t) + 6
           /\ u[1] = Step("restart")
           /\ \A k \in 1 .. 6 : \A y : u[k].do # "idle" /\ ~Uses(u[k], y)
           /\ \A k \in 1 .. 6 : u[k].do # "release" /\ (u[k].do = "regs" => u[k].cmd.op \in {"generic", "wait"} /\ u[k].cmd.buf = NoBuf)
           /\ \A k \in 1 .. Len(t) : u[k + 6] = t[k]
<1> DEFINE g == Cmd("generic", b, NoBuf)
           w == Cmd("wait", b, NoBuf)
           p == << Step("restart") >> \o << Regs(g), Step("issue") >> \o << Regs(w), Step("issue") >> \o << Step("finish") >>
           u == p \o t
           n == Len(t)
<1>1. flash_reset_one_bank(b) = p
  BY DEF flash_reset_one_bank, Chip, Wait, OnIssue, flash_finish
<1>2. /\ g \in Plain /\ w \in Plain /\ g \in Commands /\ w \in Commands /\ g.op = "generic" /\ w.op = "wait"
      /\ g.buf = NoBuf /\ w.buf = NoBuf
  BY DEF Cmd, Plain, Commands
<1> HIDE DEF g, w
<1>3. /\ Regs(g) \in Steps /\ Regs(w) \in Steps
      /\ Step("issue") \in Steps /\ Step("restart") \in Steps /\ Step("finish") \in Steps
  BY <1>2 DEF Regs, Step, Steps
<1>4. /\ p \in Seq(Steps) /\ Len(p) = 6
      /\ p[1] = Step("restart") /\ p[2] = Regs(g) /\ p[3] = Step("issue")
      /\ p[4] = Regs(w) /\ p[5] = Step("issue") /\ p[6] = Step("finish")
  BY <1>3
<1>5. /\ \A s : Step(s).do = s
      /\ Regs(g).do = "regs" /\ Regs(w).do = "regs" /\ Regs(g).cmd = g /\ Regs(w).cmd = w
  BY DEF Step, Regs
<1> HIDE DEF p, n, u
<1>6. n \in Nat /\ n # 0 /\ DOMAIN t = 1 .. n
  BY FirstAndRest DEF n
<1>7. /\ u \in Seq(Steps) /\ Len(u) = n + 6 /\ DOMAIN u = 1 .. n + 6
      /\ \A k \in 1 .. 6 : u[k] = p[k]
      /\ \A k \in 1 .. n : u[k + 6] = t[k]
  <2>0. p \in Seq(Steps) /\ t \in Seq(Steps)
    BY <1>4
  <2>1. LET v == p \o t IN
        /\ v \in Seq(Steps)
        /\ Len(p) \in Nat /\ Len(t) \in Nat
        /\ Len(v) = Len(p) + Len(t)
        /\ DOMAIN p = 1 .. Len(p) /\ DOMAIN t = 1 .. Len(t) /\ DOMAIN v = 1 .. Len(p) + Len(t)
        /\ \A k \in 1 .. Len(p) : v[k] = p[k] /\ p[k] \in Steps
        /\ \A k \in 1 .. Len(t) : v[Len(p) + k] = t[k] /\ t[k] \in Steps
        /\ \A k \in Len(p) + 1 .. Len(p) + Len(t) : k - Len(p) \in 1 .. Len(t) /\ v[k] = t[k - Len(p)]
    BY <2>0, Joined
  <2> DEFINE v == p \o t
  <2> HIDE DEF v
  <2>2. /\ v \in Seq(Steps) /\ Len(v) = 6 + n /\ DOMAIN v = 1 .. 6 + n
        /\ \A k \in 1 .. 6 : v[k] = p[k]
        /\ \A k \in 1 .. n : v[6 + k] = t[k]
    BY <2>1, <1>4 DEF v, n
  <2>3. 6 + n = n + 6 /\ \A k \in 1 .. n : 6 + k = k + 6
    BY <1>6
  <2> QED
    BY <2>2, <2>3 DEF v, u
<1>8. /\ u[1] = Step("restart") /\ u[2] = Regs(g) /\ u[3] = Step("issue")
      /\ u[4] = Regs(w) /\ u[5] = Step("issue") /\ u[6] = Step("finish")
  BY <1>4, <1>7
<1>9. \A k \in 1 .. 6 : k = 1 \/ k = 2 \/ k = 3 \/ k = 4 \/ k = 5 \/ k = 6
  OBVIOUS
<1>10. \A k \in 1 .. 6 : /\ u[k].do \in {"restart", "regs", "issue", "finish"}
                         /\ u[k].do = "restart" => k = 1
                         /\ u[k].do = "finish" => k = 6
                         /\ u[k].do = "issue" => k = 3 \/ k = 5
                         /\ u[k].do = "regs" => (k = 2 /\ u[k].cmd = g) \/ (k = 4 /\ u[k].cmd = w)
  BY <1>5, <1>8, <1>9
<1>11. \A k \in 1 .. 6 : \A y : ~Uses(u[k], y) /\ ~Fills(u[k], y)
  BY <1>2, <1>10 DEF Uses, Fills
(* Every step after the six is one of t. *)
<1>12. \A k \in 1 .. n + 6 : k \in 1 .. 6 \/ \E l \in 1 .. n : k = l + 6 /\ u[k] = t[l] /\ l \in DOMAIN t
  <2> SUFFICES ASSUME NEW k \in 1 .. n + 6, ~(k \in 1 .. 6)
               PROVE  \E l \in 1 .. n : k = l + 6 /\ u[k] = t[l] /\ l \in DOMAIN t
    OBVIOUS
  <2>1. k - 6 \in 1 .. n /\ k = (k - 6) + 6
    BY <1>6
  <2>2. u[(k - 6) + 6] = t[k - 6]
    BY <2>1, <1>7
  <2> QED
    BY <2>1, <2>2, <1>6
<1>13. \A k \in 1 .. n : k + 6 \in DOMAIN u /\ k + 6 \in 1 .. n + 6
  BY <1>6, <1>7
<1>14. ~OfHost(g) /\ ~OfHost(w)
  BY <1>2 DEF OfHost, NoBuf
<1>15. Registers(u)
  <2> SUFFICES ASSUME NEW k \in 1 .. n + 6, u[k].do = "regs"
               PROVE  /\ k + 1 \in DOMAIN u /\ u[k + 1] = Step("issue") /\ OfRead(u, k) /\ OfHostStep(u, k)
                      /\ u[k].cmd.op = "program" /\ u[k].cmd.buf \in PageBufs => k = 1
    BY <1>7 DEF Registers
  <2>1. CASE k = 2 \/ k = 4
    <3>1. 2 + 1 = 3 /\ 4 + 1 = 5 /\ 3 \in 1 .. n + 6 /\ 5 \in 1 .. n + 6
      BY <1>6
    <3>2. k + 1 \in DOMAIN u /\ u[k + 1] = Step("issue")
      BY <2>1, <3>1, <1>7, <1>8
    <3>3. u[k].cmd \in {g, w}
      BY <2>1, <1>5, <1>8
    <3> QED
      BY <3>2, <3>3, <1>2, <1>14 DEF OfRead, OfHostStep
  <2>2. ASSUME NEW l \in 1 .. n, k = l + 6, u[k] = t[l], l \in DOMAIN t
        PROVE  /\ k + 1 \in DOMAIN u /\ u[k + 1] = Step("issue") /\ OfRead(u, k) /\ OfHostStep(u, k)
               /\ u[k].cmd.op = "program" /\ u[k].cmd.buf \in PageBufs => k = 1
    <3>1. /\ l + 1 \in 1 .. n /\ t[l + 1] = Step("issue") /\ OfRead(t, l) /\ OfHostStep(t, l)
          /\ t[l].cmd.op = "program" /\ t[l].cmd.buf \in PageBufs => l = 1
      BY <2>2, <1>6 DEF Shape, Registers
    <3>2. k + 1 \in DOMAIN u /\ u[k + 1] = t[l + 1]
      <4>1. k + 1 = (l + 1) + 1 + 5 /\ (l + 1) + 1 + 5 = (l + 1) + 6
        BY <2>2
      <4> QED
        BY <4>1, <3>1, <1>7, <1>13
    <3>3. l # 1
      BY <2>2
    <3>4. ~OfHost(t[l].cmd)
      <4>1. 1 \in 1 .. l - 1 /\ Step("sync").do = "sync"
        BY <3>3 DEF Step
      <4> QED
        BY <3>1, <4>1 DEF OfHostStep
    <3>5. OfRead(u, k)
      <4>1. CASE t[l].cmd.op = "read"
        <5>1. /\ l + 4 \in 1 .. n /\ t[l + 2] = Step("accept") /\ t[l + 3] = Await("done", t[l].cmd.bank)
              /\ t[l + 4] = Return(t[l].cmd.bank, t[l].cmd.buf)
          BY <3>1, <4>1, <1>6 DEF OfRead
        <5>2. /\ l + 2 \in 1 .. n /\ l + 3 \in 1 .. n /\ l + 4 \in 1 .. n
              /\ k + 2 = (l + 2) + 6 /\ k + 3 = (l + 3) + 6 /\ k + 4 = (l + 4) + 6
          BY <5>1, <2>2, <1>6
        <5>3. u[(l + 2) + 6] = t[l + 2] /\ u[(l + 3) + 6] = t[l + 3] /\ u[(l + 4) + 6] = t[l + 4] /\ (l + 4) + 6 \in DOMAIN u
          BY <5>2, <1>7, <1>13
        <5> QED
          BY <5>1, <5>2, <5>3, <2>2 DEF OfRead
      <4> QED
        BY <4>1, <2>2 DEF OfRead
    <3> QED
      BY <3>1, <3>2, <3>3, <3>4, <3>5, <2>2 DEF OfHostStep
  <2> QED
    BY <2>1, <2>2, <1>10, <1>12
<1>16. Issues(u)
  <2>1. ASSUME NEW k \in 1 .. n + 6, k > 1, u[k].do = "issue"
        PROVE  u[k - 1].do \in {"regs", "finish"}
    <3>1. CASE k = 3 \/ k = 5
      <4>1. 3 - 1 = 2 /\ 5 - 1 = 4
        OBVIOUS
      <4> QED
        BY <3>1, <4>1, <1>5, <1>8
    <3>2. ASSUME NEW l \in 1 .. n, k = l + 6, u[k] = t[l], l \in DOMAIN t
          PROVE  u[k - 1].do \in {"regs", "finish"}
      <4>1. CASE l = 1
        <5>1. k - 1 = 6
          BY <4>1, <3>2
        <5> QED
          BY <5>1, <1>5, <1>8
      <4>2. CASE l # 1
        <5>1. l > 1 /\ t[l].do = "issue" /\ l - 1 \in 1 .. n /\ k - 1 = (l - 1) + 6
          BY <4>2, <3>2, <2>1, <1>6
        <5>2. t[l - 1].do \in {"regs", "finish"}
          BY <5>1, <3>2 DEF Shape, Issues
        <5>3. u[(l - 1) + 6] = t[l - 1]
          BY <5>1, <1>7
        <5> QED
          BY <5>1, <5>2, <5>3
      <4> QED
        BY <4>1, <4>2
    <3> QED
      BY <3>1, <3>2, <2>1, <1>10, <1>12
  <2>2. ASSUME NEW k \in 1 .. n + 6, k > 1, u[k].do = "finish", k + 1 \in 1 .. n + 6, u[k + 1].do = "issue"
        PROVE  /\ u[k - 1].do = "issue"
               /\ k > 2 => u[k - 2].do = "finish" \/ (u[k - 2].do = "regs" /\ u[k - 2].cmd.op = "wait")
    <3>1. CASE k = 6
      <4>1. 6 - 1 = 5 /\ 6 - 2 = 4
        OBVIOUS
      <4> QED
        BY <3>1, <4>1, <1>2, <1>5, <1>8
    <3>2. ASSUME NEW l \in 1 .. n, k = l + 6, u[k] = t[l], l \in DOMAIN t
          PROVE  /\ u[k - 1].do = "issue"
                 /\ u[k - 2].do = "finish" \/ (u[k - 2].do = "regs" /\ u[k - 2].cmd.op = "wait")
      <4>0. l \in 1 .. n /\ k = l + 6 /\ k + 1 \in 1 .. n + 6
        BY <3>2, <2>2
      <4>1. l + 1 \in 1 .. n /\ k + 1 = (l + 1) + 6
        BY ONLY <4>0, <1>6
      <4>2. t[l].do = "finish" /\ t[l + 1].do = "issue" /\ l + 1 \in DOMAIN t
        <5>1. u[(l + 1) + 6] = t[l + 1]
          BY <4>1, <1>7
        <5> QED
          BY <5>1, <4>1, <3>2, <2>2, <1>6
      <4>3. l # 1
        BY <4>2
      <4>4. l > 1 /\ l - 1 \in 1 .. n /\ k - 1 = (l - 1) + 6
        BY ONLY <4>0, <4>3, <1>6
      <4>5. /\ t[l - 1].do = "issue"
            /\ l > 2 => t[l - 2].do = "finish" \/ (t[l - 2].do = "regs" /\ t[l - 2].cmd.op = "wait")
        BY <4>2, <4>4, <3>2 DEF Shape, Issues
      <4>6. u[k - 1] = t[l - 1]
        <5>1. u[(l - 1) + 6] = t[l - 1]
          BY <4>4, <1>7
        <5> QED
          BY <5>1, <4>4
      <4>7. CASE l = 2
        <5>1. k - 2 = 6
          BY <4>7, <3>2
        <5> QED
          BY <5>1, <4>5, <4>6, <1>5, <1>8
      <4>8. CASE l # 2
        <5>1. l > 2 /\ l - 2 \in 1 .. n /\ k - 2 = (l - 2) + 6
          BY ONLY <4>0, <4>3, <4>8, <1>6
        <5>2. u[(l - 2) + 6] = t[l - 2]
          BY <5>1, <1>7
        <5>3. u[k - 2] = t[l - 2]
          BY <5>1, <5>2
        <5> QED
          BY <5>1, <5>3, <4>5, <4>6
      <4> QED
        BY <4>7, <4>8
    <3> QED
      BY <3>1, <3>2, <2>2, <1>10, <1>12
  <2> QED
    BY <2>1, <2>2, <1>7 DEF Issues
<1>17. Ends(u)
  <2> SUFFICES ASSUME NEW k \in 1 .. n + 6
               PROVE  /\ u[k].do = "idle" /\ k > 1 => u[k - 1].do = "empty"
                      /\ u[k].do \in {"sync", "restart"} => k = 1
                      /\ u[k].do \in {"release", "collect", "nextId"} => k = n + 6
                      /\ u[k].do = "chunks" => k + 1 \in 1 .. n + 6 /\ u[k + 1] = Step("release")
                      /\ u[k].do = "moves" => k = n + 6 \/ (k + 1 \in 1 .. n + 6 /\ u[k + 1].do = "collect")
    BY <1>7 DEF Ends
  <2>1. CASE k \in 1 .. 6
    BY <2>1, <1>10
  <2>2. ASSUME NEW l \in 1 .. n, k = l + 6, u[k] = t[l], l \in DOMAIN t
        PROVE  /\ u[k].do = "idle" /\ k > 1 => u[k - 1].do = "empty"
               /\ u[k].do \in {"sync", "restart"} => k = 1
               /\ u[k].do \in {"release", "collect", "nextId"} => k = n + 6
               /\ u[k].do = "chunks" => k + 1 \in 1 .. n + 6 /\ u[k + 1] = Step("release")
               /\ u[k].do = "moves" => k = n + 6 \/ (k + 1 \in 1 .. n + 6 /\ u[k + 1].do = "collect")
    <3>1. /\ t[l].do = "idle" /\ l > 1 => t[l - 1].do = "empty"
          /\ t[l].do \in {"sync", "restart"} => l = 1
          /\ t[l].do \in {"release", "collect", "nextId"} => l = n
          /\ t[l].do = "chunks" => l + 1 \in 1 .. n /\ t[l + 1] = Step("release")
          /\ t[l].do = "moves" => l = n \/ (l + 1 \in 1 .. n /\ t[l + 1].do = "collect")
      BY <2>2, <1>6 DEF Shape, Ends, n
    <3>2. l \in 1 .. n /\ k = l + 6
      BY <2>2
    <3>3. l = 1 => t[l].do \notin {"idle", "sync", "restart"}
      OBVIOUS
    <3>4. l + 1 \in 1 .. n => k + 1 \in 1 .. n + 6 /\ u[k + 1] = t[l + 1]
      <4>1. l + 1 \in 1 .. n => k + 1 \in 1 .. n + 6 /\ k + 1 = (l + 1) + 6
        BY ONLY <3>2, <1>6
      <4>2. l + 1 \in 1 .. n => u[(l + 1) + 6] = t[l + 1]
        BY <1>7
      <4> QED
        BY <4>1, <4>2
    <3>5. l # 1 => l > 1 /\ u[k - 1] = t[l - 1]
      <4>1. l # 1 => l > 1 /\ l - 1 \in 1 .. n /\ k - 1 = (l - 1) + 6
        BY ONLY <3>2, <1>6
      <4>2. l # 1 => u[(l - 1) + 6] = t[l - 1]
        BY <4>1, <1>7
      <4> QED
        BY <4>1, <4>2
    <3>6. l = n => k = n + 6
      BY <3>2
    <3> QED
      BY <3>1, <3>3, <3>4, <3>5, <3>6, <2>2
  <2> QED
    BY <2>1, <2>2, <1>12
<1>18. Refilled(u)
  <2> SUFFICES ASSUME NEW k \in 1 .. n + 6, NEW j \in 1 .. k - 1, NEW y \in Kept, Fills(u[j], y), Uses(u[k], y)
               PROVE  \E i \in j + 1 .. k - 1 : u[i] = Await("idle", FilledBy(u[j]))
    BY <1>7 DEF Refilled
  <2>1. j \in 1 .. n + 6
    BY <1>6
  <2>2. PICK l \in 1 .. n : k = l + 6 /\ u[k] = t[l] /\ l \in DOMAIN t
    BY <1>11, <1>12
  <2>3. PICK h \in 1 .. n : j = h + 6 /\ u[j] = t[h] /\ h \in DOMAIN t
    BY <2>1, <1>11, <1>12
  <2>4. h \in 1 .. l - 1
    BY <2>2, <2>3, <1>6
  <2>5. PICK i \in h + 1 .. l - 1 : t[i] = Await("idle", FilledBy(t[h]))
    BY <2>2, <2>3, <2>4 DEF Shape, Refilled
  <2>6. i \in 1 .. n /\ i + 6 \in j + 1 .. k - 1
    BY <2>2, <2>3, <2>5, <1>6
  <2> QED
    BY <2>3, <2>5, <2>6, <1>7
<1>19. \A k \in 1 .. 6 : \A y : u[k].do # "idle" /\ ~Uses(u[k], y)
  BY <1>10, <1>11
<1>20. \A k \in 1 .. 6 : u[k].do # "release" /\ (u[k].do = "regs" => u[k].cmd.op \in {"generic", "wait"} /\ u[k].cmd.buf = NoBuf)
  BY <1>2, <1>10
<1> QED
  BY <1>1, <1>7, <1>8, <1>15, <1>16, <1>17, <1>18, <1>19, <1>20 DEF Shape, u, n

(* The reset the program starts with.                                      *)
LEMMA PairsBlock ==
    ASSUME NEW f \in Seq(Steps),
           \A k \in DOMAIN f : \/ f[k].do = "regs" /\ f[k].cmd.op \in {"generic", "wait"}
                                  /\ f[k].cmd.buf = NoBuf
                                  /\ k + 1 \in DOMAIN f /\ f[k + 1] = Step("issue")
                               \/ f[k].do = "issue" /\ k - 1 \in DOMAIN f /\ f[k - 1].do = "regs"
    PROVE  Block(f) /\ Apart(f) /\ \A y : \A k \in DOMAIN f : ~Fills(f[k], y)
<1>1. \A k \in DOMAIN f : f[k].do \in {"regs", "issue"}
  OBVIOUS
<1>2. \A k \in DOMAIN f : \A y : ~Uses(f[k], y) /\ ~Fills(f[k], y)
  BY DEF Uses, Fills
<1>3. Registers(f)
  <2> SUFFICES ASSUME NEW k \in DOMAIN f, f[k].do = "regs"
               PROVE  /\ k + 1 \in DOMAIN f /\ f[k + 1] = Step("issue") /\ OfRead(f, k) /\ OfHostStep(f, k)
                      /\ f[k].cmd.op = "program" /\ f[k].cmd.buf \in PageBufs => k = 1
    BY DEF Registers
  <2>1. /\ f[k].cmd.op \in {"generic", "wait"} /\ f[k].cmd.buf = NoBuf
        /\ k + 1 \in DOMAIN f /\ f[k + 1] = Step("issue")
    OBVIOUS
  <2>2. ~OfHost(f[k].cmd)
    BY <2>1 DEF OfHost, NoBuf
  <2> QED
    BY <2>1, <2>2 DEF OfRead, OfHostStep
<1>4. Issues(f) /\ Ends(f) /\ Returns(f) /\ Refilled(f)
  BY <1>1, <1>2 DEF Issues, Ends, Returns, Refilled
<1>5. DOMAIN f = 1 .. Len(f) /\ Len(f) \in Nat
  BY LenProperties
<1>6. f # << >> => f[1].do = "regs"
  <2>1. f # << >> => 1 \in DOMAIN f
    BY FirstAndRest
  <2>2. 1 - 1 \notin DOMAIN f
    BY <1>5
  <2> QED
    BY <2>1, <2>2
<1>7. NoFtl1(f) /\ NoRelease(f) /\ \A y : Quiet(f, y)
  BY <1>1, <1>2, SMTT(30) DEF NoFtl1, NoRelease, Quiet, NoBuf, FTL_BUF
<1>8. Inner(f)
  <2>1. \A k \in DOMAIN f : /\ f[k].do \notin {"sync", "restart", "nextId"}
                            /\ f[k].do = "regs" /\ f[k].cmd.op = "program" => f[k].cmd.buf \notin PageBufs \cup HostBufs
    OBVIOUS
  <2> QED
    BY <2>1, <1>3, <1>4, <1>6 DEF Inner, Shape
<1> QED
  BY <1>1, <1>2, <1>7, <1>8 DEF Block, Apart

LEMMA PerBankBlock ==
    /\ Block(PerBank(Chip)) /\ Apart(PerBank(Chip)) /\ \A y : \A k \in DOMAIN PerBank(Chip) : ~Fills(PerBank(Chip)[k], y)
    /\ Block(PerBank(Wait)) /\ Apart(PerBank(Wait)) /\ \A y : \A k \in DOMAIN PerBank(Wait) : ~Fills(PerBank(Wait)[k], y)
<1>1. NumBanks \in Nat
  BY BanksAssumption
<1>2. \A k \in 1 .. 2 * NumBanks : (k - 1) \div 2 \in Banks /\ 1 + ((k - 1) % 2) \in {1, 2}
  BY <1>1 DEF Banks
<1>3. \A k \in 1 .. 2 * NumBanks : 1 + ((k - 1) % 2) = 1 =>
         /\ k + 1 \in 1 .. 2 * NumBanks
         /\ ((k + 1) - 1) \div 2 = (k - 1) \div 2
         /\ 1 + (((k + 1) - 1) % 2) = 2
  BY <1>1
<1>4. \A k \in 1 .. 2 * NumBanks : 1 + ((k - 1) % 2) = 2 =>
         /\ k - 1 \in 1 .. 2 * NumBanks
         /\ 1 + (((k - 1) - 1) % 2) = 1
  BY <1>1
<1>5. ASSUME NEW f, NEW o \in {"generic", "wait"},
             f = [k \in 1 .. 2 * NumBanks |-> OnIssue(Cmd(o, (k - 1) \div 2, NoBuf))[1 + ((k - 1) % 2)]]
      PROVE  Block(f) /\ Apart(f) /\ \A y : \A k \in DOMAIN f : ~Fills(f[k], y)
  <2>1. \A b \in Banks : Cmd(o, b, NoBuf) \in Commands /\ Cmd(o, b, NoBuf).op \in {"generic", "wait"} /\ Cmd(o, b, NoBuf).buf = NoBuf
    BY DEF Cmd, Commands, Plain
  <2>2. \A b \in Banks : /\ Regs(Cmd(o, b, NoBuf)) \in Steps /\ Regs(Cmd(o, b, NoBuf)).do = "regs"
                         /\ Regs(Cmd(o, b, NoBuf)).cmd = Cmd(o, b, NoBuf)
    BY <2>1 DEF Regs, Steps
  <2>3. Step("issue") \in Steps /\ Step("issue").do = "issue"
    BY DEF Step, Steps
  <2>4. \A c : OnIssue(c)[1] = Regs(c) /\ OnIssue(c)[2] = Step("issue")
    BY DEF OnIssue
  <2>5. \A k \in 1 .. 2 * NumBanks :
           /\ 1 + ((k - 1) % 2) = 1 => f[k] = Regs(Cmd(o, (k - 1) \div 2, NoBuf))
           /\ 1 + ((k - 1) % 2) = 2 => f[k] = Step("issue")
    BY <1>5, <2>4
  <2>6. DOMAIN f = 1 .. 2 * NumBanks
    BY <1>5
  <2>7. \A k \in 1 .. 2 * NumBanks : f[k] \in Steps
    BY <1>2, <2>2, <2>3, <2>5
  <2>8. f \in Seq(Steps)
    <3>1. 2 * NumBanks \in Nat
      BY <1>1
    <3>2. f \in [1 .. 2 * NumBanks -> Steps]
      BY <1>5, <2>7
    <3> QED
      BY <3>1, <3>2, SeqDef
  <2>9. \A k \in DOMAIN f : \/ f[k].do = "regs" /\ f[k].cmd.op \in {"generic", "wait"}
                               /\ f[k].cmd.buf = NoBuf
                               /\ k + 1 \in DOMAIN f /\ f[k + 1] = Step("issue")
                            \/ f[k].do = "issue" /\ k - 1 \in DOMAIN f /\ f[k - 1].do = "regs"
    <3> SUFFICES ASSUME NEW k \in 1 .. 2 * NumBanks
                 PROVE  \/ f[k].do = "regs" /\ f[k].cmd.op \in {"generic", "wait"}
                           /\ f[k].cmd.buf = NoBuf
                           /\ k + 1 \in DOMAIN f /\ f[k + 1] = Step("issue")
                        \/ f[k].do = "issue" /\ k - 1 \in DOMAIN f /\ f[k - 1].do = "regs"
      BY <2>6
    <3>1. CASE 1 + ((k - 1) % 2) = 1
      <4>1. f[k] = Regs(Cmd(o, (k - 1) \div 2, NoBuf)) /\ (k - 1) \div 2 \in Banks
        BY <3>1, <2>5, <1>2
      <4>2. k + 1 \in DOMAIN f /\ f[k + 1] = Step("issue")
        BY <3>1, <1>3, <2>5, <2>6
      <4> QED
        BY <4>1, <4>2, <2>1, <2>2
    <3>2. CASE 1 + ((k - 1) % 2) = 2
      <4>1. f[k] = Step("issue")
        BY <3>2, <2>5
      <4>2. k - 1 \in 1 .. 2 * NumBanks /\ 1 + (((k - 1) - 1) % 2) = 1
        BY <3>2, <1>4
      <4>3. f[k - 1] = Regs(Cmd(o, ((k - 1) - 1) \div 2, NoBuf)) /\ ((k - 1) - 1) \div 2 \in Banks
        BY <4>2, <2>5, <1>2
      <4> QED
        BY <4>1, <4>2, <4>3, <2>2, <2>3, <2>6
    <3> QED
      BY <3>1, <3>2, <1>2
  <2> QED
    BY <2>8, <2>9, PairsBlock
<1>6. PerBank(Chip) = [k \in 1 .. 2 * NumBanks |-> OnIssue(Cmd("generic", (k - 1) \div 2, NoBuf))[1 + ((k - 1) % 2)]]
  BY DEF PerBank, Chip
<1>7. PerBank(Wait) = [k \in 1 .. 2 * NumBanks |-> OnIssue(Cmd("wait", (k - 1) \div 2, NoBuf))[1 + ((k - 1) % 2)]]
  BY DEF PerBank, Wait
<1> QED
  BY <1>5, <1>6, <1>7

LEMMA RestartShape ==
    ASSUME NEW t, Apart(t)
    PROVE  LET u == << Step("restart") >> \o t IN
           /\ u \in Seq(Steps) /\ u # << >> /\ u[1] = Step("restart")
           /\ Shape(u) /\ NoFtl1(u) /\ NoRelease(u) /\ (\A x \in Kept : Quiet(u, x))
           /\ \A k \in DOMAIN u : u[k].do = "regs" => ~OfHost(u[k].cmd)
           /\ \A k \in DOMAIN u : u[k].do # "nextId"
           /\ Returns(u) /\ \A k \in DOMAIN u : u[k].do = "return" => k > 4
<1> DEFINE p == << Step("restart") >>
           u == p \o t
           n == Len(t)
<1>1. Step("restart") \in Steps /\ Step("restart").do = "restart"
  BY DEF Step, Steps
<1>2. p \in Seq(Steps) /\ Len(p) = 1 /\ p[1] = Step("restart")
  BY <1>1
<1>3. t \in Seq(Steps) /\ Inner(t) /\ Shape(t) /\ Returns(t)
  BY DEF Apart, Inner
<1> HIDE DEF p, n, u
<1>4. n \in Nat /\ DOMAIN t = 1 .. n
  BY <1>3, LenProperties DEF n
<1>5. /\ u \in Seq(Steps) /\ Len(u) = n + 1 /\ DOMAIN u = 1 .. n + 1 /\ u[1] = Step("restart")
      /\ \A k \in 1 .. n : u[k + 1] = t[k]
  <2>0. p \in Seq(Steps) /\ t \in Seq(Steps)
    BY <1>2, <1>3
  <2>1. LET v == p \o t IN
        /\ v \in Seq(Steps)
        /\ Len(p) \in Nat /\ Len(t) \in Nat
        /\ Len(v) = Len(p) + Len(t)
        /\ DOMAIN p = 1 .. Len(p) /\ DOMAIN t = 1 .. Len(t) /\ DOMAIN v = 1 .. Len(p) + Len(t)
        /\ \A k \in 1 .. Len(p) : v[k] = p[k] /\ p[k] \in Steps
        /\ \A k \in 1 .. Len(t) : v[Len(p) + k] = t[k] /\ t[k] \in Steps
        /\ \A k \in Len(p) + 1 .. Len(p) + Len(t) : k - Len(p) \in 1 .. Len(t) /\ v[k] = t[k - Len(p)]
    BY <2>0, Joined
  <2> DEFINE v == p \o t
  <2> HIDE DEF v
  <2>2. /\ v \in Seq(Steps) /\ Len(v) = 1 + n /\ DOMAIN v = 1 .. 1 + n
        /\ v[1] = p[1]
        /\ \A k \in 1 .. n : v[1 + k] = t[k]
    BY <2>1, <1>2 DEF v, n
  <2>3. 1 + n = n + 1 /\ \A k \in 1 .. n : 1 + k = k + 1
    BY <1>4
  <2> QED
    BY <2>2, <2>3, <1>2 DEF v, u
<1>6. \A k \in 1 .. n + 1 : k = 1 \/ \E l \in 1 .. n : k = l + 1 /\ u[k] = t[l] /\ l \in DOMAIN t
  <2> SUFFICES ASSUME NEW k \in 1 .. n + 1, k # 1
               PROVE  \E l \in 1 .. n : k = l + 1 /\ u[k] = t[l] /\ l \in DOMAIN t
    OBVIOUS
  <2>1. k - 1 \in 1 .. n /\ k = (k - 1) + 1
    BY <1>4
  <2>2. u[(k - 1) + 1] = t[k - 1]
    BY <2>1, <1>5
  <2> QED
    BY <2>1, <2>2, <1>4
<1>7. \A k \in 1 .. n : k + 1 \in DOMAIN u /\ k + 1 \in 1 .. n + 1
  BY <1>4, <1>5
<1>8. \A l \in DOMAIN t : t[l].do = "regs" => /\ ~OfHost(t[l].cmd)
                                              /\ t[l].cmd.op = "program" => t[l].cmd.buf \notin PageBufs
  BY <1>3, InnerRegs
<1>9. /\ n >= 1 => t[1].do \notin {"issue", "idle", "return", "done", "accept"}
      /\ n >= 1 /\ t[1].do = "finish" => (n > 1 => t[2].do # "issue")
      /\ \A l \in DOMAIN t : t[l].do \notin {"sync", "restart", "nextId"}
  <2>1. n >= 1 => t # << >>
    BY EmptySeq DEF n
  <2> QED
    BY <2>1, <1>3 DEF Inner, n
<1>10. Registers(u)
  <2> SUFFICES ASSUME NEW k \in 1 .. n + 1, u[k].do = "regs"
               PROVE  /\ k + 1 \in DOMAIN u /\ u[k + 1] = Step("issue") /\ OfRead(u, k) /\ OfHostStep(u, k)
                      /\ u[k].cmd.op = "program" /\ u[k].cmd.buf \in PageBufs => k = 1
    BY <1>5 DEF Registers
  <2>1. PICK l \in 1 .. n : k = l + 1 /\ u[k] = t[l] /\ l \in DOMAIN t
    BY <1>1, <1>5, <1>6
  <2>2. /\ l + 1 \in 1 .. n /\ t[l + 1] = Step("issue") /\ OfRead(t, l)
        /\ ~OfHost(t[l].cmd) /\ (t[l].cmd.op = "program" => t[l].cmd.buf \notin PageBufs)
    BY <2>1, <1>3, <1>4, <1>8 DEF Shape, Registers
  <2>3. k + 1 \in DOMAIN u /\ u[k + 1] = t[l + 1]
    <3>1. u[(l + 1) + 1] = t[l + 1] /\ (l + 1) + 1 \in DOMAIN u
      BY <2>2, <1>5, <1>7
    <3> QED
      BY <3>1, <2>1
  <2>4. OfRead(u, k)
    <3>1. CASE t[l].cmd.op = "read"
      <4>1. /\ l + 4 \in 1 .. n /\ t[l + 2] = Step("accept") /\ t[l + 3] = Await("done", t[l].cmd.bank)
            /\ t[l + 4] = Return(t[l].cmd.bank, t[l].cmd.buf)
        BY <2>2, <3>1, <1>4 DEF OfRead
      <4>2. /\ l + 2 \in 1 .. n /\ l + 3 \in 1 .. n /\ l + 4 \in 1 .. n
            /\ k + 2 = (l + 2) + 1 /\ k + 3 = (l + 3) + 1 /\ k + 4 = (l + 4) + 1
        BY <4>1, <2>1, <1>4
      <4>3. u[(l + 2) + 1] = t[l + 2] /\ u[(l + 3) + 1] = t[l + 3] /\ u[(l + 4) + 1] = t[l + 4] /\ (l + 4) + 1 \in DOMAIN u
        BY <4>2, <1>5, <1>7
      <4> QED
        BY <4>1, <4>2, <4>3, <2>1 DEF OfRead
    <3> QED
      BY <3>1, <2>1 DEF OfRead
  <2> QED
    BY <2>1, <2>2, <2>3, <2>4 DEF OfHostStep
<1>11. Issues(u)
  <2>1. ASSUME NEW k \in 1 .. n + 1, k > 1, u[k].do = "issue"
        PROVE  u[k - 1].do \in {"regs", "finish"}
    <3>1. PICK l \in 1 .. n : k = l + 1 /\ u[k] = t[l] /\ l \in DOMAIN t
      BY <2>1, <1>6
    <3>2. l # 1
      BY <3>1, <2>1, <1>4, <1>9
    <3>3. l > 1 /\ l - 1 \in 1 .. n /\ k - 1 = (l - 1) + 1
      BY <3>1, <3>2, <1>4
    <3>4. t[l - 1].do \in {"regs", "finish"}
      BY <3>1, <3>3, <2>1, <1>3 DEF Shape, Issues
    <3>5. u[(l - 1) + 1] = t[l - 1]
      BY <3>3, <1>5
    <3> QED
      BY <3>3, <3>4, <3>5
  <2>2. ASSUME NEW k \in 1 .. n + 1, k > 1, u[k].do = "finish", k + 1 \in 1 .. n + 1, u[k + 1].do = "issue"
        PROVE  /\ u[k - 1].do = "issue"
               /\ k > 2 => u[k - 2].do = "finish" \/ (u[k - 2].do = "regs" /\ u[k - 2].cmd.op = "wait")
    <3>1. PICK l \in 1 .. n : k = l + 1 /\ u[k] = t[l] /\ l \in DOMAIN t
      BY <2>2, <1>6
    <3>0. l \in 1 .. n /\ k = l + 1 /\ k + 1 \in 1 .. n + 1
      BY <3>1, <2>2
    <3>2. l + 1 \in 1 .. n /\ k + 1 = (l + 1) + 1
      BY ONLY <3>0, <1>4
    <3>3. t[l].do = "finish" /\ t[l + 1].do = "issue" /\ l + 1 \in DOMAIN t
      <4>1. u[(l + 1) + 1] = t[l + 1]
        BY <3>2, <1>5
      <4> QED
        BY <4>1, <3>1, <3>2, <2>2, <1>4
    <3>4. l # 1
      <4>1. l = 1 => n >= 1 /\ n > 1 /\ l + 1 = 2
        BY <3>2, <1>4
      <4> QED
        BY <4>1, <3>3, <1>9
    <3>5. l > 1 /\ l - 1 \in 1 .. n /\ k - 1 = (l - 1) + 1
      BY ONLY <3>0, <3>4, <1>4
    <3>6. /\ t[l - 1].do = "issue"
          /\ l > 2 => t[l - 2].do = "finish" \/ (t[l - 2].do = "regs" /\ t[l - 2].cmd.op = "wait")
      BY <3>1, <3>3, <3>5, <1>3 DEF Shape, Issues
    <3>7. l # 2
      <4>1. l = 2 => l - 1 = 1 /\ n >= 1
        BY <3>1, <1>4
      <4> QED
        BY <4>1, <3>6, <1>9
    <3>8. l > 2 /\ l - 2 \in 1 .. n /\ k - 2 = (l - 2) + 1
      BY ONLY <3>0, <3>4, <3>7, <1>4
    <3>9. u[(l - 1) + 1] = t[l - 1] /\ u[(l - 2) + 1] = t[l - 2]
      BY <3>5, <3>8, <1>5
    <3>10. u[k - 1] = t[l - 1] /\ u[k - 2] = t[l - 2]
      BY <3>5, <3>8, <3>9
    <3> QED
      BY <3>6, <3>8, <3>10
  <2> QED
    BY <2>1, <2>2, <1>5 DEF Issues
<1>12. Ends(u)
  <2> SUFFICES ASSUME NEW k \in 1 .. n + 1
               PROVE  /\ u[k].do = "idle" /\ k > 1 => u[k - 1].do = "empty"
                      /\ u[k].do \in {"sync", "restart"} => k = 1
                      /\ u[k].do \in {"release", "collect", "nextId"} => k = n + 1
                      /\ u[k].do = "chunks" => k + 1 \in 1 .. n + 1 /\ u[k + 1] = Step("release")
                      /\ u[k].do = "moves" => k = n + 1 \/ (k + 1 \in 1 .. n + 1 /\ u[k + 1].do = "collect")
    BY <1>5 DEF Ends
  <2>1. CASE k = 1
    BY <2>1, <1>1, <1>5
  <2>2. ASSUME NEW l \in 1 .. n, k = l + 1, u[k] = t[l], l \in DOMAIN t
        PROVE  /\ u[k].do = "idle" /\ k > 1 => u[k - 1].do = "empty"
               /\ u[k].do \in {"sync", "restart"} => k = 1
               /\ u[k].do \in {"release", "collect", "nextId"} => k = n + 1
               /\ u[k].do = "chunks" => k + 1 \in 1 .. n + 1 /\ u[k + 1] = Step("release")
               /\ u[k].do = "moves" => k = n + 1 \/ (k + 1 \in 1 .. n + 1 /\ u[k + 1].do = "collect")
    <3>1. /\ t[l].do = "idle" /\ l > 1 => t[l - 1].do = "empty"
          /\ t[l].do \in {"release", "collect", "nextId"} => l = n
          /\ t[l].do = "chunks" => l + 1 \in 1 .. n /\ t[l + 1] = Step("release")
          /\ t[l].do = "moves" => l = n \/ (l + 1 \in 1 .. n /\ t[l + 1].do = "collect")
      BY <2>2, <1>3, <1>4 DEF Shape, Ends, n
    <3>2. l \in 1 .. n /\ k = l + 1
      BY <2>2
    <3>3. l = 1 => t[l].do # "idle"
      BY <1>9, <1>4
    <3>4. l + 1 \in 1 .. n => k + 1 \in 1 .. n + 1 /\ u[k + 1] = t[l + 1]
      <4>1. l + 1 \in 1 .. n => k + 1 \in 1 .. n + 1 /\ k + 1 = (l + 1) + 1
        BY ONLY <3>2, <1>4
      <4>2. l + 1 \in 1 .. n => u[(l + 1) + 1] = t[l + 1]
        BY <1>5
      <4> QED
        BY <4>1, <4>2
    <3>5. l # 1 => l > 1 /\ u[k - 1] = t[l - 1]
      <4>1. l # 1 => l > 1 /\ l - 1 \in 1 .. n /\ k - 1 = (l - 1) + 1
        BY ONLY <3>2, <1>4
      <4>2. l # 1 => u[(l - 1) + 1] = t[l - 1]
        BY <4>1, <1>5
      <4> QED
        BY <4>1, <4>2
    <3>6. l = n => k = n + 1
      BY <3>2
    <3>7. t[l].do \notin {"sync", "restart"}
      BY <2>2, <1>9
    <3> QED
      BY <3>1, <3>3, <3>4, <3>5, <3>6, <3>7, <2>2
  <2> QED
    BY <2>1, <2>2, <1>6
<1>13. Refilled(u)
  <2> SUFFICES ASSUME NEW k \in 1 .. n + 1, NEW j \in 1 .. k - 1, NEW y \in Kept, Fills(u[j], y), Uses(u[k], y)
               PROVE  FALSE
    BY <1>5 DEF Refilled
  <2>1. PICK l \in 1 .. n : k = l + 1 /\ u[k] = t[l] /\ l \in DOMAIN t
    BY <1>1, <1>5, <1>6 DEF Uses
  <2> QED
    BY <2>1 DEF Apart, Quiet
<1>14. Returns(u) /\ \A k \in DOMAIN u : u[k].do = "return" => k > 4
  <2> SUFFICES ASSUME NEW k \in 1 .. n + 1, u[k].do = "return"
               PROVE  /\ k > 4
                      /\ u[k - 1] = Await("done", u[k].bank)
                      /\ u[k - 2] = Step("accept")
                      /\ u[k - 3] = Step("issue")
                      /\ u[k - 4] = Regs(Cmd("read", u[k].bank, u[k].buf))
    BY <1>5 DEF Returns
  <2>1. PICK l \in 1 .. n : k = l + 1 /\ u[k] = t[l] /\ l \in DOMAIN t
    BY <1>1, <1>5, <1>6
  <2>2. n >= 1
    BY <1>4
  <2>3. /\ l > 1 => t[l - 1] = Await("done", t[l].bank)
        /\ l > 2 => t[l - 2] = Step("accept")
        /\ l > 3 => t[l - 3] = Step("issue")
        /\ l > 4 => t[l - 4] = Regs(Cmd("read", t[l].bank, t[l].buf))
    BY <2>1, <1>3 DEF Returns
  <2>4. l # 1 /\ l # 2 /\ l # 3 /\ l # 4
    <3>1. l = 2 => t[1] = Await("done", t[l].bank)
      BY <2>3
    <3>2. l = 3 => t[1] = Step("accept")
      BY <2>3
    <3>3. l = 4 => t[1] = Step("issue")
      BY <2>3
    <3> QED
      BY <3>1, <3>2, <3>3, <2>1, <2>2, <1>9 DEF Await, Step
  <2>5. l \in 1 .. n /\ k = l + 1
    BY <2>1
  <2>6. /\ l - 1 \in 1 .. n /\ l - 2 \in 1 .. n /\ l - 3 \in 1 .. n /\ l - 4 \in 1 .. n /\ l > 1 /\ l > 2 /\ l > 3 /\ l > 4 /\ k > 4
        /\ k - 1 = (l - 1) + 1 /\ k - 2 = (l - 2) + 1 /\ k - 3 = (l - 3) + 1 /\ k - 4 = (l - 4) + 1
    BY ONLY <2>4, <2>5, <1>4
  <2>7. u[k - 1] = t[l - 1] /\ u[k - 2] = t[l - 2] /\ u[k - 3] = t[l - 3] /\ u[k - 4] = t[l - 4]
    BY <2>6, <1>5
  <2>8. /\ u[k - 1] = Await("done", t[l].bank) /\ u[k - 2] = Step("accept") /\ u[k - 3] = Step("issue")
        /\ u[k - 4] = Regs(Cmd("read", t[l].bank, t[l].buf))
    BY <2>3, <2>6, <2>7
  <2> QED
    BY <2>1, <2>6, <2>8
<1>15. u # << >>
  <2>1. 1 \in DOMAIN u
    BY <1>4, <1>5
  <2> QED
    BY <2>1
<1>16. NoFtl1(u) /\ NoRelease(u) /\ \A x \in Kept : Quiet(u, x)
  <2>1. \A k \in DOMAIN u : u[k].do = "restart" \/ \E l \in DOMAIN t : u[k] = t[l]
    BY <1>1, <1>5, <1>6
  <2> QED
    BY <2>1 DEF Apart, NoFtl1, NoRelease, Quiet, Uses
<1>17. \A k \in DOMAIN u : u[k].do # "nextId" /\ (u[k].do = "regs" => ~OfHost(u[k].cmd))
  <2>1. \A k \in DOMAIN u : u[k].do = "restart" \/ \E l \in DOMAIN t : u[k] = t[l]
    BY <1>1, <1>5, <1>6
  <2> QED
    BY <2>1, <1>8, <1>9
<1> QED
  BY <1>5, <1>10, <1>11, <1>12, <1>13, <1>14, <1>15, <1>16, <1>17 DEF Shape, u, p

LEMMA ResetCode ==
    /\ flash_reset \in Seq(Steps) /\ flash_reset # << >> /\ flash_reset[1] = Step("restart")
    /\ Shape(flash_reset) /\ NoFtl1(flash_reset) /\ NoRelease(flash_reset)
    /\ \A x \in Kept : Quiet(flash_reset, x)
    /\ \A k \in DOMAIN flash_reset : flash_reset[k].do = "regs" => ~OfHost(flash_reset[k].cmd)
    /\ \A k \in DOMAIN flash_reset : flash_reset[k].do # "nextId"
    /\ Returns(flash_reset) /\ \A k \in DOMAIN flash_reset : flash_reset[k].do = "return" => k > 4
<1> DEFINE r == << Step("restart") >>
           c == PerBank(Chip)
           w == PerBank(Wait)
           f == << Step("finish") >>
<1>1. Block(c) /\ Apart(c) /\ Block(w) /\ Apart(w) /\ Block(f) /\ Apart(f)
  BY PerBankBlock, FinishBlock
<1>2. c \in Seq(Steps) /\ w \in Seq(Steps) /\ f \in Seq(Steps)
  BY <1>1 DEF Apart, Inner
<1>3. r \in Seq(Steps)
  <2>1. Step("restart") \in Steps
    BY DEF Step, Steps
  <2> QED
    BY <2>1
<1>4. flash_reset = ((r \o c) \o w) \o f
  BY DEF flash_reset, flash_finish
<1> HIDE DEF c, w, f, r
<1>5. Block(c \o w) /\ Apart(c \o w)
  BY <1>1, ApartJoined
<1>6. Apart((c \o w) \o f)
  BY <1>1, <1>5, ApartJoined
<1>7. ((r \o c) \o w) \o f = r \o ((c \o w) \o f)
  <2>1. (r \o c) \o w = r \o (c \o w)
    BY <1>2, <1>3, ConcatAssociative
  <2> DEFINE v == c \o w
  <2>2. v \in Seq(Steps)
    BY <1>5 DEF Apart, Inner
  <2> HIDE DEF v
  <2>3. (r \o v) \o f = r \o (v \o f)
    <3>1. r \in Seq(Steps) /\ v \in Seq(Steps) /\ f \in Seq(Steps)
      BY <1>2, <1>3, <2>2
    <3> QED
      BY ONLY <3>1, ConcatAssociative
  <2> QED
    BY <2>1, <2>3 DEF v
<1> DEFINE t == (c \o w) \o f
<1> HIDE DEF t
<1>8. LET u == << Step("restart") >> \o t IN
      /\ u \in Seq(Steps) /\ u # << >> /\ u[1] = Step("restart")
      /\ Shape(u) /\ NoFtl1(u) /\ NoRelease(u) /\ (\A x \in Kept : Quiet(u, x))
      /\ \A k \in DOMAIN u : u[k].do = "regs" => ~OfHost(u[k].cmd)
      /\ \A k \in DOMAIN u : u[k].do # "nextId"
      /\ Returns(u) /\ \A k \in DOMAIN u : u[k].do = "return" => k > 4
  BY <1>6, RestartShape DEF t
<1>9. flash_reset = << Step("restart") >> \o t
  BY <1>4, <1>7 DEF t, r
<1> QED
  BY <1>8, <1>9
=============================================================================
