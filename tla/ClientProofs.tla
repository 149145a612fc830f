---------------------------- MODULE ClientProofs ---------------------------
(***************************************************************************)
(* The buffers of the translation layer under any number of banks, write   *)
(* buffers and chunks, and any order of writes, overwrites, reads,         *)
(* collections and trims: no page buffer is filled before the program that *)
(* reads it has, the limit of the host stays behind the write buffers that *)
(* are still to be programmed, and a read returns with its page.           *)
(*                                                                         *)
(* BufInv is about what is still to be done: every buffer a program waits  *)
(* to be read from is waited for, in todo, before it is used again.        *)
(* RingInv is about the ring of write buffers: the programs under way are  *)
(* between the limit and the code, and those a bank is late with take up   *)
(* no more places than there are banks, so the code does not run into the  *)
(* limit from behind.  ReadInv follows a read from the registers to its    *)
(* return.                                                                 *)
(***************************************************************************)
EXTENDS ClientLists

-----------------------------------------------------------------------------
(* What is under way. *)

IssueNext == At("issue") /\ fcp.op = "program"
Pending(c) == c \in Untransferred \/ (IssueNext /\ c = fcp)

HeadOk ==
    /\ At("idle") => wr = None
    /\ At("finish") /\ Len(todo) > 1 /\ todo[2].do = "issue" => fcp.op = "wait"
    /\ At("issue") /\ Len(todo) > 2 /\ todo[2].do = "finish" /\ todo[3].do = "issue" => fcp.op = "wait"
    /\ At("issue") /\ fcp.op = "read" =>
         /\ Len(todo) >= 4
         /\ todo[2] = Step("accept")
         /\ todo[3] = Await("done", fcp.bank)
         /\ todo[4] = Return(fcp.bank, fcp.buf)
    /\ At("issue") /\ OfHost(fcp) => /\ Len(todo) > 1
                                     /\ todo[2] = Step("nextId")
                                     /\ fcp.buf[2] = writeId

(* The write buffer that is programmed is the one the code is at.          *)
HostSlot ==
    \A k \in DOMAIN todo : todo[k].do = "regs" /\ OfHost(todo[k].cmd) => todo[k].cmd.buf[2] = writeId

(* A read that is under way is waited for. *)
Reading(c) == /\ c.op = "read"
              /\ \/ c = wr
                 \/ \E b \in Banks : c = run[b]

ReadAwaited ==
    \A c \in Reads : Reading(c) =>
        /\ \E k \in DOMAIN todo :
             /\ todo[k] = Return(c.bank, c.buf)
             /\ \A i \in 1 .. k - 1 : todo[i].do # "idle"
        /\ \/ At("accept") /\ Len(todo) > 2 /\ todo[2] = Await("done", c.bank)
                           /\ todo[3] = Return(c.bank, c.buf)
           \/ At("done") /\ c # wr /\ Len(todo) > 1 /\ todo[1] = Await("done", c.bank)
                         /\ todo[2] = Return(c.bank, c.buf)
           \/ At("restart")

(* A buffer is not used before what is to be read from it has been. *)
UsesWait ==
    \A c \in Programs : Pending(c) /\ c.buf \in Kept =>
        \A k \in DOMAIN todo : Uses(todo[k], c.buf) =>
            \E i \in 1 .. k - 1 : todo[i] = Await("idle", c.bank)

OpenKept ==
    \A x \in PageBufs : chunkPtr[x] > 0 =>
        /\ \A c \in Programs : Pending(c) => c.buf # x
        /\ At("regs") => Next1.cmd.op # "program" \/ Next1.cmd.buf # x

LastKnown ==
    /\ \A c \in Programs : Pending(c) /\ c.buf = FTL_BUF(1) =>
         \/ c.bank = lastBank
         \/ \E k \in DOMAIN todo : Uses(todo[k], FTL_BUF(1))
    /\ \A k \in DOMAIN todo : todo[k].do = "regs" /\ todo[k].cmd.buf = FTL_BUF(1) => todo[k].cmd.bank = lastBank

BufInv == /\ Types /\ Shape(todo) /\ HeadOk /\ HostSlot /\ ReadAwaited
          /\ UsesWait /\ OpenKept /\ LastKnown

-----------------------------------------------------------------------------
Frontier == IF At("nextId") THEN NextId(writeId) ELSE writeId
HostUntransferred == {c \in Untransferred : OfHost(c)}

(* How far from the limit a program has read its buffer in time.           *)
Zone == NumWrBufs - NumBanks - 1

(* The buffers a program from the host has still to be read from are those *)
(* from the limit to where the code is, the last of them all; the ring is  *)
(* never used up.                                                          *)
RingInv ==
    /\ \A c \in HostUntransferred : Ahead(c.buf[2]) < Ahead(Frontier)
    /\ \A i \in Slot : Zone <= Ahead(i) /\ Ahead(i) < Ahead(Frontier) =>
         \E c \in HostUntransferred : c.buf = WR_BUF(i)
    /\ limit = Frontier \/ \E c \in HostUntransferred : c.buf = WR_BUF(limit)

(* The code goes to the next buffer after a program from the host only, or *)
(* gives a buffer back when none is under way.                             *)
HostInv ==
    /\ (\E k \in DOMAIN todo : todo[k].do = "release") /\ ~At("sync") => HostUntransferred = {}
    /\ At("restart") => HostUntransferred = {}
    /\ HostEnd(todo)
    /\ At("issue") /\ Len(todo) > 1 /\ todo[2].do = "nextId" => OfHost(fcp)
    /\ \A b \in Banks : fsm[b] = "before" /\ OfHost(wr) => run[b] # wr

(* How far the read is that nand_page_read at step k waits for.            *)
ReadOf(s) == Cmd("read", s.bank, s.buf)
Loaded(s) == loaded = <<s.bank, s.buf>>
ReadOnWay(k) ==
    LET s == todo[k]
    IN  /\ k = 1 => Loaded(s)
        /\ k = 2 => run[s.bank] = ReadOf(s) \/ Loaded(s)
        /\ k = 3 => wr = ReadOf(s) \/ run[s.bank] = ReadOf(s) \/ Loaded(s)
        /\ k = 4 => fcp = ReadOf(s)

ReadInv ==
    resets = 0 => /\ Returns(todo)
                  /\ \A k \in DOMAIN todo : todo[k].do = "return" => ReadOnWay(k)

-----------------------------------------------------------------------------
(* The first step is done and taken off the list.                          *)

LEMMA AtFirst ==
    ASSUME todo \in Seq(Steps), NEW s
    PROVE  At(s) <=> todo # << >> /\ todo[1].do = s
<1>1. todo # << >> => Head(todo) = todo[1]
  BY FirstAndRest
<1> QED
  BY <1>1 DEF At, Next1

LEMMA AtFirstNext ==
    ASSUME todo' \in Seq(Steps), NEW s
    PROVE  At(s)' <=> todo' # << >> /\ todo'[1].do = s
<1>1. todo' # << >> => Head(todo') = todo'[1]
  BY FirstAndRest
<1> QED
  BY <1>1 DEF At, Next1

(* A buffer a program has still to be read from is not used next.          *)
LEMMA NotUsedNext ==
    ASSUME BufInv, todo # << >>, NEW c \in Programs, Pending(c), c.buf \in Kept
    PROVE  ~Uses(todo[1], c.buf)
<1>1. 1 \in DOMAIN todo
  BY FirstAndRest DEF BufInv, Types
<1>2. Uses(todo[1], c.buf) => \E i \in 1 .. 1 - 1 : todo[i] = Await("idle", c.bank)
  BY <1>1 DEF BufInv, UsesWait
<1>3. 1 .. 1 - 1 = {}
  OBVIOUS
<1> QED
  BY <1>2, <1>3

LEMMA Popped ==
    ASSUME BufInv, todo # << >>, todo' = Tail(todo), lastBank' = lastBank,
           \A x \in PageBufs : chunkPtr'[x] > 0 => \/ chunkPtr[x] > 0
                                                   \/ \A c \in Programs : c.buf = x => ~Pending(c)',
           \A c \in Programs : Pending(c)' => \/ Pending(c) /\ todo[1] # Await("idle", c.bank)
                                              \/ todo[1] = Regs(c)
    PROVE  /\ todo' \in Seq(Steps) /\ Shape(todo)' /\ UsesWait' /\ OpenKept' /\ LastKnown'
<1> DEFINE n == Len(todo)
           r == todo'
<1>1. todo \in Seq(Steps) /\ Shape(todo)
  BY DEF BufInv, Types
<1>2. /\ n \in Nat \ {0} /\ DOMAIN todo = 1 .. n /\ r \in Seq(Steps) /\ DOMAIN r = 1 .. n - 1
      /\ \A k \in 1 .. n - 1 : r[k] = todo[k + 1]
  BY <1>1, FirstAndRest
<1>3. Shape(r)
  BY <1>1, TailShape
<1> HIDE DEF n
<1>4. \A k \in 1 .. n - 1 : k + 1 \in DOMAIN todo /\ k + 1 \in 1 .. n
  BY <1>2
<1>5. \A c : Regs(c).do = "regs" /\ Regs(c).cmd = c
  BY DEF Regs
<1>6. UsesWait'
  <2> SUFFICES ASSUME NEW c \in Programs, Pending(c)', c.buf \in Kept, NEW k \in 1 .. n - 1, Uses(r[k], c.buf)
               PROVE  \E i \in 1 .. k - 1 : r[i] = Await("idle", c.bank)
    BY <1>2 DEF UsesWait
  <2>1. Uses(todo[k + 1], c.buf) /\ k + 1 \in DOMAIN todo
    BY <1>2, <1>4
  <2>2. PICK i \in 2 .. k : todo[i] = Await("idle", c.bank)
    <3>1. CASE Pending(c) /\ todo[1] # Await("idle", c.bank)
      <4>1. PICK i \in 1 .. (k + 1) - 1 : todo[i] = Await("idle", c.bank)
        BY <3>1, <2>1 DEF BufInv, UsesWait
      <4>2. i # 1
        BY <3>1, <4>1
      <4>3. i \in 2 .. k
        BY <4>1, <4>2, <1>2
      <4> QED
        BY <4>1, <4>3
    <3>2. CASE todo[1] = Regs(c)
      <4>1. Fills(todo[1], c.buf) /\ FilledBy(todo[1]) = c.bank
        <5>1. c.op = "program"
          BY DEF Programs
        <5> QED
          BY <3>2, <5>1, <1>5 DEF Fills, FilledBy
      <4>2. 1 \in 1 .. (k + 1) - 1
        BY <1>2
      <4>3. PICK i \in 1 + 1 .. (k + 1) - 1 : todo[i] = Await("idle", c.bank)
        BY <4>1, <4>2, <2>1, <1>1 DEF Shape, Refilled
      <4>4. i \in 2 .. k
        BY <4>3, <1>2
      <4> QED
        BY <4>3, <4>4
    <3> QED
      BY <3>1, <3>2
  <2>3. i - 1 \in 1 .. k - 1 /\ i - 1 \in 1 .. n - 1 /\ (i - 1) + 1 = i
    BY <1>2
  <2> QED
    BY <2>2, <2>3, <1>2
<1>7. OpenKept'
  <2> SUFFICES ASSUME NEW x \in PageBufs, chunkPtr'[x] > 0
               PROVE  /\ \A c \in Programs : Pending(c)' => c.buf # x
                      /\ At("regs")' => Head(r).cmd.op # "program" \/ Head(r).cmd.buf # x
    BY DEF OpenKept, Next1
  <2>1. ASSUME NEW c \in Programs, Pending(c)', chunkPtr[x] > 0 PROVE c.buf # x
    <3>1. CASE Pending(c)
      BY <2>1, <3>1 DEF BufInv, OpenKept
    <3>2. CASE todo[1] = Regs(c)
      <4>1. At("regs") /\ Next1.cmd = c
        BY <3>2, <1>1, <1>5, AtFirst, FirstAndRest DEF Next1
      <4>2. c.op = "program"
        BY DEF Programs
      <4> QED
        BY <2>1, <4>1, <4>2 DEF BufInv, OpenKept
    <3> QED
      BY <2>1, <3>1, <3>2
  <2>2. ASSUME At("regs")', Head(r).cmd.op = "program", Head(r).cmd.buf = x
        PROVE  FALSE
    <3>1. r # << >> /\ Head(r) = r[1] /\ 1 \in 1 .. n - 1 /\ r[1].do = "regs"
      BY <2>2, <1>2, FirstAndRest DEF At, Next1
    <3>2. 1 + 1 \in DOMAIN todo /\ r[1] = todo[1 + 1]
      BY <3>1, <1>2, <1>4
    <3>3. 1 + 1 = 1
      BY <3>1, <3>2, <2>2, <1>1 DEF Shape, Registers
    <3> QED
      BY <3>3
  <2> QED
    BY <2>1, <2>2
<1>8. LastKnown'
  <2>1. ASSUME NEW c \in Programs, Pending(c)', c.buf = FTL_BUF(1)
        PROVE  \/ c.bank = lastBank
               \/ \E k \in DOMAIN r : Uses(r[k], FTL_BUF(1))
    <3>1. CASE Pending(c)
      <4>1. FTL_BUF(1) \in Kept
        BY DEF Kept
      <4>2. ~Uses(todo[1], FTL_BUF(1))
        BY <4>1, <3>1, <2>1, NotUsedNext
      <4>3. ASSUME NEW k \in DOMAIN todo, Uses(todo[k], FTL_BUF(1))
            PROVE  \E j \in DOMAIN r : Uses(r[j], FTL_BUF(1))
        <5>1. k # 1
          BY <4>2, <4>3
        <5>2. k - 1 \in 1 .. n - 1 /\ (k - 1) + 1 = k
          BY <5>1, <1>2
        <5>3. r[k - 1] = todo[k]
          BY <5>2, <1>2
        <5> QED
          BY <5>2, <5>3, <4>3, <1>2
      <4> QED
        BY <4>3, <3>1, <2>1 DEF BufInv, LastKnown
    <3>2. CASE todo[1] = Regs(c)
      <4>1. todo[1].do = "regs" /\ todo[1].cmd = c /\ 1 \in DOMAIN todo
        BY <3>2, <1>2, <1>5
      <4> QED
        BY <4>1, <2>1 DEF BufInv, LastKnown
    <3> QED
      BY <2>1, <3>1, <3>2
  <2>2. ASSUME NEW k \in DOMAIN r, r[k].do = "regs", r[k].cmd.buf = FTL_BUF(1)
        PROVE  r[k].cmd.bank = lastBank
    <3>1. k + 1 \in DOMAIN todo /\ r[k] = todo[k + 1]
      BY <1>2, <1>4
    <3> QED
      BY <3>1, <2>2 DEF BufInv, LastKnown
  <2> QED
    BY <2>1, <2>2 DEF LastKnown
<1> QED
  BY <1>2, <1>3, <1>6, <1>7, <1>8

LEMMA PoppedHead ==
    ASSUME BufInv, todo # << >>, todo' = Tail(todo),
           IF todo[1].do = "regs" THEN fcp' = todo[1].cmd ELSE fcp' = fcp,
           todo[1].do = "empty" => wr' = None,
           todo[1].do \notin {"nextId", "release"} => writeId' = writeId
    PROVE  HeadOk' /\ HostSlot'
<1> DEFINE n == Len(todo)
           r == todo'
<1>1. todo \in Seq(Steps) /\ Registers(todo) /\ Issues(todo) /\ Ends(todo)
  BY DEF BufInv, Types, Shape
<1>2. /\ n \in Nat \ {0} /\ DOMAIN todo = 1 .. n /\ r \in Seq(Steps) /\ DOMAIN r = 1 .. n - 1 /\ Len(r) = n - 1
      /\ \A k \in 1 .. n - 1 : r[k] = todo[k + 1]
  BY <1>1, FirstAndRest
<1>3. r # << >> => n > 1 /\ r[1] = todo[2] /\ 2 \in DOMAIN todo
  <2>1. r # << >> => n - 1 # 0
    BY <1>2, EmptySeq
  <2>2. n > 1 => 1 \in 1 .. n - 1 /\ 2 \in 1 .. n /\ 1 + 1 = 2
    BY <1>2
  <2> QED
    BY <2>1, <2>2, <1>2
<1>4. \A s : At(s)' <=> r # << >> /\ r[1].do = s
  BY <1>2, AtFirstNext
<1>5. \A s : At(s) <=> todo[1].do = s
  BY <1>1, AtFirst
<1> HIDE DEF n
<1>6. 2 > 1 /\ 3 > 1 /\ 3 > 2 /\ 2 + 1 = 3 /\ 2 - 1 = 1 /\ 3 - 1 = 2 /\ 3 - 2 = 1 /\ 3 + 1 = 4 /\ 1 + 1 = 2 /\ 1 + 2 = 3 /\ 1 + 3 = 4 /\ 1 + 4 = 5
  OBVIOUS
<1>7. Len(r) > 1 => r[2] = todo[3] /\ 3 \in DOMAIN todo
  <2>1. n - 1 > 1 => 2 \in 1 .. n - 1 /\ 3 \in 1 .. n
    BY <1>2
  <2> QED
    BY <2>1, <1>2, <1>6
<1>8. Len(r) > 2 => r[3] = todo[4] /\ 4 \in DOMAIN todo /\ Len(r) > 1
  <2>1. n - 1 > 2 => 3 \in 1 .. n - 1 /\ 4 \in 1 .. n /\ n - 1 > 1
    BY <1>2
  <2> QED
    BY <2>1, <1>2, <1>6
<1>9. At("idle")' => wr' = None
  <2>1. At("idle")' => todo[1].do = "empty"
    BY <1>1, <1>3, <1>4, <1>6 DEF Ends
  <2> QED
    BY <2>1
<1>10. At("finish")' /\ Len(r) > 1 /\ r[2].do = "issue" => fcp'.op = "wait"
  <2> SUFFICES ASSUME At("finish")', Len(r) > 1, r[2].do = "issue"
               PROVE  fcp'.op = "wait"
    OBVIOUS
  <2>1. todo[2].do = "finish" /\ todo[3].do = "issue" /\ 2 \in DOMAIN todo /\ 3 \in DOMAIN todo
    BY <1>3, <1>4, <1>7
  <2>2. todo[1].do = "issue"
    BY <2>1, <1>1, <1>6 DEF Issues
  <2>3. At("issue") /\ Len(todo) > 2
    <3>1. n > 2
      BY <2>1, <1>2
    <3> QED
      BY <3>1, <2>2, <1>5 DEF n
  <2> QED
    BY <2>1, <2>2, <2>3 DEF BufInv, HeadOk
<1>11. ASSUME At("issue")'
       PROVE  \/ todo[1].do = "regs"
              \/ todo[1].do = "finish" /\ fcp'.op = "wait" /\ fcp' = fcp
  <2>1. todo[2].do = "issue" /\ 2 \in DOMAIN todo
    BY <1>3, <1>4, <1>11
  <2>2. todo[1].do \in {"regs", "finish"}
    BY <2>1, <1>1, <1>6 DEF Issues
  <2>3. todo[1].do = "finish" => fcp.op = "wait"
    <3>1. Len(todo) > 1
      BY <2>1, <1>2 DEF n
    <3> QED
      BY <3>1, <2>1, <1>5 DEF BufInv, HeadOk
  <2> QED
    BY <2>2, <2>3
<1>12. At("issue")' /\ Len(r) > 2 /\ r[2].do = "finish" /\ r[3].do = "issue" => fcp'.op = "wait"
  <2> SUFFICES ASSUME At("issue")', Len(r) > 2, r[2].do = "finish", r[3].do = "issue", todo[1].do = "regs"
               PROVE  fcp'.op = "wait"
    BY <1>11
  <2>1. todo[3].do = "finish" /\ todo[4].do = "issue" /\ 3 \in DOMAIN todo /\ 4 \in DOMAIN todo
    BY <1>7, <1>8
  <2>2. todo[1].do = "finish" \/ (todo[1].do = "regs" /\ todo[1].cmd.op = "wait")
    BY <2>1, <1>1, <1>6 DEF Issues
  <2> QED
    BY <2>2
<1>13. At("issue")' /\ fcp'.op = "read" =>
         /\ Len(r) >= 4
         /\ r[2] = Step("accept")
         /\ r[3] = Await("done", fcp'.bank)
         /\ r[4] = Return(fcp'.bank, fcp'.buf)
  <2> SUFFICES ASSUME At("issue")', fcp'.op = "read", todo[1].do = "regs"
               PROVE  /\ Len(r) >= 4
                      /\ r[2] = Step("accept")
                      /\ r[3] = Await("done", fcp'.bank)
                      /\ r[4] = Return(fcp'.bank, fcp'.buf)
    BY <1>11
  <2>1. fcp' = todo[1].cmd /\ 1 \in DOMAIN todo
    BY <1>2
  <2>2. 5 \in DOMAIN todo /\ todo[3] = Step("accept") /\ todo[4] = Await("done", fcp'.bank) /\ todo[5] = Return(fcp'.bank, fcp'.buf)
    BY <2>1, <1>1, <1>6 DEF Registers, OfRead
  <2>3. n - 1 >= 4 /\ 2 \in 1 .. n - 1 /\ 3 \in 1 .. n - 1 /\ 4 \in 1 .. n - 1 /\ 4 + 1 = 5
    BY <2>2, <1>2
  <2> QED
    BY <2>2, <2>3, <1>2, <1>6
<1>14. At("issue")' /\ OfHost(fcp') => Len(r) > 1 /\ r[2] = Step("nextId") /\ fcp'.buf[2] = writeId'
  <2> SUFFICES ASSUME At("issue")', OfHost(fcp')
               PROVE  Len(r) > 1 /\ r[2] = Step("nextId") /\ fcp'.buf[2] = writeId'
    OBVIOUS
  <2>1. CASE todo[1].do = "regs"
    <3>1. fcp' = todo[1].cmd /\ 1 \in DOMAIN todo /\ writeId' = writeId
      BY <2>1, <1>2
    <3>2. 3 \in DOMAIN todo /\ todo[3] = Step("nextId")
      BY <3>1, <2>1, <1>1, <1>6 DEF Registers, OfHostStep
    <3>3. n - 1 > 1 /\ 2 \in 1 .. n - 1
      BY <3>2, <1>2
    <3>4. fcp'.buf[2] = writeId
      BY <3>1, <2>1 DEF BufInv, HostSlot
    <3> QED
      BY <3>1, <3>2, <3>3, <3>4, <1>2, <1>6
  <2>2. CASE todo[1].do = "finish" /\ fcp'.op = "wait" /\ fcp' = fcp
    <3>1. fcp \in Commands
      BY DEF BufInv, Types
    <3>2. fcp.op = "wait" => ~OfHost(fcp)
      BY <3>1 DEF Commands, Programs, Reads, Plain, OfHost, NoBuf
    <3> QED
      BY <2>2, <3>2
  <2> QED
    BY <2>1, <2>2, <1>11
<1>15. HostSlot'
  <2>1. todo[1].do \in {"nextId", "release"} => n = 1
    <3>1. 1 \in DOMAIN todo
      BY <1>2
    <3> QED
      BY <3>1, <1>1 DEF Ends, n
  <2>2. CASE n = 1
    <3>1. DOMAIN r = {}
      BY <2>2, <1>2
    <3> QED
      BY <3>1 DEF HostSlot
  <2>3. CASE n # 1
    <3>1. writeId' = writeId
      BY <2>1, <2>3
    <3>2. \A k \in DOMAIN r : k + 1 \in DOMAIN todo /\ r[k] = todo[k + 1]
      BY <1>2
    <3> QED
      BY <3>1, <3>2 DEF BufInv, HostSlot
  <2> QED
    BY <2>2, <2>3
<1> QED
  BY <1>9, <1>10, <1>12, <1>13, <1>14, <1>15 DEF HeadOk

-----------------------------------------------------------------------------
(* What is read, and what waits to be written to flash.                    *)

LEMMA RunningOf ==
    ASSUME Types, NEW c \in Untransferred
    PROVE  /\ c \in Programs
           /\ \/ c = wr /\ wr # None
              \/ /\ c.bank \in Banks /\ fsm[c.bank] = "before" /\ run[c.bank] = c
<1>1. c # None /\ c.op = "program"
  BY DEF Untransferred
<1>2. ASSUME c = wr
      PROVE  c \in Commands
  BY <1>1, <1>2 DEF Types
<1>3. ASSUME NEW b \in Banks, fsm[b] = "before", c = run[b]
      PROVE  c \in Commands /\ c.bank = b
  BY <1>1, <1>3 DEF Types
<1>4. c \in Commands /\ c.op = "program" => c \in Programs
  BY DEF Commands, Programs, Reads, Plain
<1> QED
  BY <1>1, <1>2, <1>3, <1>4 DEF Untransferred

LEMMA PendingOf ==
    ASSUME Types, NEW c, Pending(c)
    PROVE  c \in Programs
<1>1. fcp \in Commands /\ fcp.op = "program" => fcp \in Programs
  BY DEF Commands, Programs, Reads, Plain
<1> QED
  BY <1>1, RunningOf DEF Pending, IssueNext, Types

LEMMA ReadingOf ==
    ASSUME Types, NEW c \in Reads, Reading(c)
    PROVE  /\ c # None
           /\ \/ c = wr /\ wr # None
              \/ c.bank \in Banks /\ run[c.bank] = c /\ fsm[c.bank] # "idle"
<1>1. c # None /\ c.op = "read"
  BY DEF Reads, None, Cmd
<1>2. ASSUME NEW b \in Banks, c = run[b]
      PROVE  c.bank = b /\ fsm[b] # "idle"
  BY <1>1, <1>2 DEF Types
<1> QED
  BY <1>1, <1>2 DEF Reading

LEMMA NoReads ==
    ASSUME BufInv, ~At("accept"), ~At("done"), ~At("restart"), NEW c \in Reads
    PROVE  ~Reading(c)
BY DEF BufInv, ReadAwaited

LEMMA NotIssueNext ==
    ASSUME BufInv, todo # << >>, todo' = Tail(todo), fcp' = fcp, todo[1].do # "regs"
    PROVE  ~IssueNext'
<1> DEFINE n == Len(todo)
           r == todo'
<1>1. todo \in Seq(Steps) /\ Issues(todo)
  BY DEF BufInv, Types, Shape
<1>2. /\ n \in Nat \ {0} /\ DOMAIN todo = 1 .. n /\ r \in Seq(Steps) /\ Len(r) = n - 1
      /\ \A k \in 1 .. n - 1 : r[k] = todo[k + 1]
  BY <1>1, FirstAndRest
<1>3. SUFFICES ASSUME At("issue")' PROVE fcp.op # "program"
  BY DEF IssueNext
<1>4. r # << >> /\ r[1].do = "issue"
  BY <1>2, <1>3, AtFirstNext
<1>5. n - 1 # 0
  BY <1>2, <1>4, EmptySeq
<1> HIDE DEF n
<1>6. 1 \in 1 .. n - 1 /\ 1 + 1 = 2 /\ 2 \in 1 .. n /\ 2 > 1 /\ 2 - 1 = 1 /\ n > 1
  BY <1>2, <1>5
<1>7. todo[2].do = "issue" /\ 2 \in DOMAIN todo
  BY <1>2, <1>4, <1>6
<1>8. todo[1].do = "finish"
  BY <1>1, <1>6, <1>7 DEF Issues
<1>9. At("finish") /\ Len(todo) > 1
  BY <1>1, <1>6, <1>8, AtFirst DEF n
<1>10. fcp.op = "wait"
  BY <1>7, <1>9 DEF BufInv, HeadOk
<1> QED
  BY <1>10

-----------------------------------------------------------------------------
(* The actions of the processor that take the first step off the list.     *)

LEMMA RingSize == NumBanks \in Nat /\ NumWrBufs \in Nat /\ NumBanks > 0 /\ NumWrBufs > NumBanks + 1 /\ NumWrBufs > 0
<1>1. NumBanks \in Nat \ {0}
  BY BanksAssumption
<1>2. NumWrBufs \in Nat /\ NumWrBufs > NumBanks + 1
  BY ClientsAssumption
<1> QED
  BY <1>1, <1>2

LEMMA PlainPop ==
    ASSUME BufInv, todo # << >>, todo' = Tail(todo),
           UNCHANGED <<fcp, wr, run, fsm, chunkPtr, lastBank, sata>>,
           resets' = resets,
           writeId' \in Slot, limit' \in Slot,
           todo[1].do \notin {"regs", "issue", "accept", "restart"},
           todo[1].do = "empty" => wr = None,
           todo[1].do \in {"done", "idle"} => fsm[todo[1].bank] = "idle",
           todo[1].do \notin {"nextId", "release"} => writeId' = writeId
    PROVE  BufInv'
<1>1. todo \in Seq(Steps) /\ Types
  BY DEF BufInv, Types
<1>2. \A s : At(s) <=> todo[1].do = s
  BY <1>1, AtFirst
<1>3. Untransferred' = Untransferred
  BY DEF Untransferred
<1>4. \A c \in Programs : Pending(c)' => Pending(c) /\ todo[1] # Await("idle", c.bank)
  <2> SUFFICES ASSUME NEW c \in Programs, Pending(c)'
               PROVE  Pending(c) /\ todo[1] # Await("idle", c.bank)
    OBVIOUS
  <2>1. c \in Untransferred
    BY <1>3, NotIssueNext DEF Pending
  <2>2. ASSUME todo[1] = Await("idle", c.bank)
        PROVE  FALSE
    <3>1. todo[1].do = "idle" /\ todo[1].bank = c.bank
      BY <2>2 DEF Await
    <3>2. wr = None /\ fsm[c.bank] = "idle"
      BY <3>1, <1>2 DEF BufInv, HeadOk
    <3> QED
      BY <3>2, <2>1, <1>1, RunningOf
  <2> QED
    BY <2>1, <2>2 DEF Pending
<1>5. todo' \in Seq(Steps) /\ Shape(todo)' /\ UsesWait' /\ OpenKept' /\ LastKnown'
  BY <1>4, Popped
<1>6. HeadOk' /\ HostSlot'
  BY PoppedHead
<1>7. ReadAwaited'
  <2>1. ASSUME NEW c \in Reads, Reading(c)
        PROVE  FALSE
    <3>1. todo[1].do = "done" /\ c # wr /\ todo[1] = Await("done", c.bank)
      BY <2>1, <1>2 DEF BufInv, ReadAwaited
    <3>2. fsm[c.bank] = "idle"
      BY <3>1 DEF Await
    <3> QED
      BY <3>1, <3>2, <2>1, <1>1, ReadingOf
  <2> QED
    BY <2>1 DEF ReadAwaited, Reading
<1>8. Types'
  BY <1>1, <1>5 DEF Types
<1> QED
  BY <1>5, <1>6, <1>7, <1>8 DEF BufInv

LEMMA StepsPop ==
    ASSUME BufInv,
           \/ CopyStep \/ NextIdStep \/ SyncStep \/ ReleaseStep \/ LastChunk
           \/ (BankIdle \/ Finished \/ Returned) /\ UNCHANGED clients
           \/ Waited /\ At("empty") /\ UNCHANGED clients
    PROVE  BufInv'
<1>1. todo \in Seq(Steps) /\ Types
  BY DEF BufInv, Types
<1>2. \A s : At(s) <=> todo # << >> /\ todo[1].do = s
  BY <1>1, AtFirst
<1>3. todo # << >> => Next1 = todo[1]
  BY <1>1, FirstAndRest DEF Next1
<1>4. NextId(writeId) \in Slot /\ writeId \in Slot /\ limit \in Slot
  <2>1. NumWrBufs \in Nat /\ NumWrBufs > 0
    BY RingSize
  <2>2. writeId \in Nat
    BY <2>1 DEF BufInv, Types, Slot
  <2> QED
    BY <2>1, <2>2 DEF BufInv, Types, Slot, NextId
<1>5. CASE CopyStep
  BY <1>2, <1>4, <1>5, PlainPop DEF CopyStep, Pop, clients
<1>6. CASE NextIdStep
  BY <1>2, <1>4, <1>6, PlainPop DEF NextIdStep, Pop
<1>7. CASE SyncStep
  BY <1>2, <1>4, <1>7, PlainPop DEF SyncStep, Pop, clients
<1>8. CASE ReleaseStep
  BY <1>2, <1>4, <1>8, PlainPop DEF ReleaseStep, Pop
<1>9. CASE LastChunk
  BY <1>2, <1>4, <1>9, PlainPop DEF LastChunk, Pop, clients
<1>10. CASE BankIdle /\ UNCHANGED clients
  BY <1>2, <1>3, <1>4, <1>10, PlainPop DEF BankIdle, Pop, clients
<1>11. CASE Finished /\ UNCHANGED clients
  BY <1>2, <1>4, <1>11, PlainPop DEF Finished, Pop, clients
<1>12. CASE Returned /\ UNCHANGED clients
  BY <1>2, <1>4, <1>12, PlainPop DEF Returned, Pop, clients
<1>13. CASE Waited /\ At("empty") /\ UNCHANGED clients
  BY <1>2, <1>4, <1>13, PlainPop DEF Waited, Pop, clients
<1> QED
  BY <1>5, <1>6, <1>7, <1>8, <1>9, <1>10, <1>11, <1>12, <1>13

LEMMA SetRegsPop ==
    ASSUME BufInv, SetRegs, UNCHANGED clients
    PROVE  BufInv'
<1>1. todo \in Seq(Steps) /\ Types
  BY DEF BufInv, Types
<1>2. todo # << >> /\ todo[1].do = "regs" /\ Next1 = todo[1] /\ todo[1] \in Steps
  BY <1>1, AtFirst, FirstAndRest DEF SetRegs, Next1
<1>3. /\ todo' = Tail(todo) /\ fcp' = todo[1].cmd /\ UNCHANGED <<wr, run, fsm, loaded, resets>>
      /\ UNCHANGED <<chunkPtr, lastBank, writeId, limit, sata>>
  BY <1>2 DEF SetRegs, Pop, clients
<1>4. todo[1].cmd \in Commands /\ todo[1] = Regs(todo[1].cmd)
  BY <1>2 DEF Steps, Regs
<1>5. Untransferred' = Untransferred
  BY <1>3 DEF Untransferred
<1>6. \A s : At(s) <=> todo[1].do = s
  BY <1>1, <1>2, AtFirst
<1>7. \A c \in Programs : Pending(c)' => \/ Pending(c) /\ todo[1] # Await("idle", c.bank)
                                         \/ todo[1] = Regs(c)
  <2>1. \A b : Await("idle", b).do = "idle"
    BY DEF Await
  <2> QED
    BY <2>1, <1>2, <1>3, <1>4, <1>5 DEF Pending, IssueNext
<1>8. todo' \in Seq(Steps) /\ Shape(todo)' /\ UsesWait' /\ OpenKept' /\ LastKnown'
  BY <1>2, <1>3, <1>7, Popped
<1>9. HeadOk' /\ HostSlot'
  BY <1>2, <1>3, PoppedHead
<1>10. ReadAwaited'
  <2>1. \A c \in Reads : ~Reading(c)
    BY <1>2, <1>6, NoReads
  <2> QED
    BY <2>1, <1>3 DEF ReadAwaited, Reading
<1>11. Types'
  BY <1>1, <1>3, <1>4, <1>8 DEF Types
<1> QED
  BY <1>8, <1>9, <1>10, <1>11 DEF BufInv

LEMMA IssuePop ==
    ASSUME BufInv, Issue, UNCHANGED clients
    PROVE  BufInv'
<1>1. todo \in Seq(Steps) /\ Types
  BY DEF BufInv, Types
<1>2. todo # << >> /\ todo[1].do = "issue" /\ At("issue")
  BY <1>1, AtFirst DEF Issue
<1>3. /\ todo' = Tail(todo) /\ wr = None /\ wr' = fcp /\ UNCHANGED <<fcp, run, fsm, loaded, resets>>
      /\ UNCHANGED <<chunkPtr, lastBank, writeId, limit, sata>>
  BY DEF Issue, Pop, clients
<1>4. \A s : At(s) <=> todo[1].do = s
  BY <1>1, <1>2, AtFirst
<1>5. ~IssueNext'
  BY <1>2, <1>3, NotIssueNext
<1>6. \A c \in Programs : Pending(c)' => Pending(c) /\ todo[1] # Await("idle", c.bank)
  <2>1. \A b : Await("idle", b).do = "idle"
    BY DEF Await
  <2>2. ASSUME NEW c \in Untransferred'
        PROVE  c \in Untransferred \/ (c = fcp /\ fcp.op = "program")
    BY <1>3 DEF Untransferred
  <2> QED
    BY <2>1, <2>2, <1>2, <1>5 DEF Pending, IssueNext
<1>7. todo' \in Seq(Steps) /\ Shape(todo)' /\ UsesWait' /\ OpenKept' /\ LastKnown'
  BY <1>2, <1>3, <1>6, Popped
<1>8. HeadOk' /\ HostSlot'
  BY <1>2, <1>3, PoppedHead
<1>9. ReadAwaited'
  <2> SUFFICES ASSUME NEW c \in Reads, Reading(c)'
               PROVE  /\ \E k \in DOMAIN todo' :
                           /\ todo'[k] = Return(c.bank, c.buf)
                           /\ \A i \in 1 .. k - 1 : todo'[i].do # "idle"
                      /\ At("accept")' /\ Len(todo') > 2 /\ todo'[2] = Await("done", c.bank)
                                       /\ todo'[3] = Return(c.bank, c.buf)
    BY DEF ReadAwaited
  <2>1. ~Reading(c)
    BY <1>2, <1>4, NoReads
  <2>2. c = fcp /\ fcp.op = "read"
    BY <2>1, <1>3 DEF Reading
  <2>3. Len(todo) >= 4 /\ todo[2] = Step("accept") /\ todo[3] = Await("done", c.bank) /\ todo[4] = Return(c.bank, c.buf)
    BY <2>2, <1>2 DEF BufInv, HeadOk
  <2>4. /\ Len(todo) \in Nat /\ DOMAIN todo' = 1 .. Len(todo) - 1 /\ Len(todo') = Len(todo) - 1
        /\ \A k \in 1 .. Len(todo) - 1 : todo'[k] = todo[k + 1]
    BY <1>1, <1>2, <1>3, FirstAndRest
  <2>5. 1 \in 1 .. Len(todo) - 1 /\ 2 \in 1 .. Len(todo) - 1 /\ 3 \in 1 .. Len(todo) - 1 /\ 1 + 1 = 2 /\ 2 + 1 = 3 /\ 3 + 1 = 4
    BY <2>3, <2>4
  <2>6. /\ todo'[1] = Step("accept") /\ todo'[2] = Await("done", c.bank) /\ todo'[3] = Return(c.bank, c.buf)
        /\ 3 \in DOMAIN todo' /\ Len(todo') > 2
    BY <2>3, <2>4, <2>5
  <2>7. At("accept")'
    <3>1. todo' # << >>
      BY <2>6
    <3> QED
      BY <3>1, <2>6, <1>7, AtFirstNext DEF Step
  <2>8. \A i \in 1 .. 3 - 1 : todo'[i].do # "idle"
    <3>1. \A i \in 1 .. 3 - 1 : i = 1 \/ i = 2
      OBVIOUS
    <3> QED
      BY <3>1, <2>6 DEF Step, Await
  <2> QED
    BY <2>6, <2>7, <2>8
<1>10. Types'
  BY <1>1, <1>3, <1>7 DEF Types
<1> QED
  BY <1>7, <1>8, <1>9, <1>10 DEF BufInv

LEMMA WaitedPop ==
    ASSUME BufInv, Waited, UNCHANGED clients
    PROVE  BufInv'
<1>1. todo \in Seq(Steps) /\ Types
  BY DEF BufInv, Types
<1>2. CASE At("empty")
  BY <1>2, StepsPop
<1>3. CASE At("accept")
  <2>1. todo # << >> /\ todo[1].do = "accept"
    BY <1>1, <1>3, AtFirst
  <2>2. /\ todo' = Tail(todo) /\ wr = None /\ UNCHANGED <<fcp, wr, run, fsm, loaded, resets>>
        /\ UNCHANGED <<chunkPtr, lastBank, writeId, limit, sata>>
    BY DEF Waited, Pop, clients
  <2>3. \A s : At(s) <=> todo[1].do = s
    BY <1>1, <2>1, AtFirst
  <2>4. Untransferred' = Untransferred
    BY <2>2 DEF Untransferred
  <2>5. \A c \in Programs : Pending(c)' => Pending(c) /\ todo[1] # Await("idle", c.bank)
    <3>1. \A b : Await("idle", b).do = "idle"
      BY DEF Await
    <3> QED
      BY <3>1, <2>1, <2>2, <2>4, NotIssueNext DEF Pending
  <2>6. todo' \in Seq(Steps) /\ Shape(todo)' /\ UsesWait' /\ OpenKept' /\ LastKnown'
    BY <2>1, <2>2, <2>5, Popped
  <2>7. HeadOk' /\ HostSlot'
    BY <2>1, <2>2, PoppedHead
  <2>8. ReadAwaited'
    <3> SUFFICES ASSUME NEW c \in Reads, Reading(c)'
                 PROVE  /\ \E k \in DOMAIN todo' :
                             /\ todo'[k] = Return(c.bank, c.buf)
                             /\ \A i \in 1 .. k - 1 : todo'[i].do # "idle"
                        /\ At("done")' /\ c # wr' /\ Len(todo') > 1 /\ todo'[1] = Await("done", c.bank)
                                       /\ todo'[2] = Return(c.bank, c.buf)
      BY DEF ReadAwaited
    <3>1. Reading(c)
      BY <2>2 DEF Reading
    <3>2. Len(todo) > 2 /\ todo[2] = Await("done", c.bank) /\ todo[3] = Return(c.bank, c.buf)
      BY <3>1, <2>1, <2>3 DEF BufInv, ReadAwaited
    <3>3. c # wr'
      BY <2>2 DEF Reads, None, Cmd
    <3>4. /\ Len(todo) \in Nat /\ DOMAIN todo' = 1 .. Len(todo) - 1 /\ Len(todo') = Len(todo) - 1
          /\ \A k \in 1 .. Len(todo) - 1 : todo'[k] = todo[k + 1]
      BY <1>1, <2>1, <2>2, FirstAndRest
    <3>5. 1 \in 1 .. Len(todo) - 1 /\ 2 \in 1 .. Len(todo) - 1 /\ 1 + 1 = 2 /\ 2 + 1 = 3
      BY <3>2, <3>4
    <3>6. todo'[1] = Await("done", c.bank) /\ todo'[2] = Return(c.bank, c.buf) /\ 2 \in DOMAIN todo' /\ Len(todo') > 1
      BY <3>2, <3>4, <3>5
    <3>7. At("done")'
      <4>1. todo' # << >>
        BY <3>6
      <4> QED
        BY <4>1, <3>6, <2>6, AtFirstNext DEF Await
    <3>8. \A i \in 1 .. 2 - 1 : todo'[i].do # "idle"
      <4>1. \A i \in 1 .. 2 - 1 : i = 1
        OBVIOUS
      <4> QED
        BY <4>1, <3>6 DEF Await
    <3> QED
      BY <3>3, <3>6, <3>7, <3>8
  <2>9. Types'
    BY <1>1, <2>2, <2>6 DEF Types
  <2> QED
    BY <2>6, <2>7, <2>8, <2>9 DEF BufInv
<1> QED
  BY <1>2, <1>3 DEF Waited

LEMMA RestartPop ==
    ASSUME BufInv, Restart, UNCHANGED clients
    PROVE  BufInv'
<1>1. todo \in Seq(Steps) /\ Types
  BY DEF BufInv, Types
<1>2. todo # << >> /\ todo[1].do = "restart"
  BY <1>1, AtFirst DEF Restart
<1>3. /\ todo' = Tail(todo) /\ wr' = None /\ run' = [b \in Banks |-> None] /\ fsm' = [b \in Banks |-> "idle"]
      /\ UNCHANGED <<fcp, loaded, resets>>
      /\ UNCHANGED <<chunkPtr, lastBank, writeId, limit, sata>>
  BY DEF Restart, Pop, clients
<1>4. Untransferred' = {}
  BY <1>3 DEF Untransferred
<1>5. \A c \in Programs : ~Pending(c)'
  BY <1>2, <1>3, <1>4, NotIssueNext DEF Pending
<1>6. todo' \in Seq(Steps) /\ Shape(todo)' /\ UsesWait' /\ OpenKept' /\ LastKnown'
  BY <1>2, <1>3, <1>5, Popped
<1>7. HeadOk' /\ HostSlot'
  BY <1>2, <1>3, PoppedHead
<1>8. ReadAwaited'
  <2>1. \A c \in Reads : c # None
    BY DEF Reads, None, Cmd
  <2> QED
    BY <2>1, <1>3 DEF ReadAwaited, Reading
<1>9. Types'
  BY <1>1, <1>3, <1>6 DEF Types
<1> QED
  BY <1>6, <1>7, <1>8, <1>9 DEF BufInv

-----------------------------------------------------------------------------
(* The steps that put code on the list.                                    *)

(* A buffer that is full is programmed: the code goes on after that.       *)
LEMMA AdvanceKeeps ==
    ASSUME BufInv, AdvanceStep
    PROVE  BufInv'
<1> DEFINE x == todo[1].buf
           n == Len(todo)
<1>1. todo \in Seq(Steps) /\ Types /\ Shape(todo)
  BY DEF BufInv, Types
<1>2. todo # << >> /\ todo[1].do = "advance" /\ Next1 = todo[1] /\ todo[1] \in Steps
  BY <1>1, AtFirst, FirstAndRest DEF AdvanceStep, Next1
<1>3. x \in PageBufs /\ todo[1] = Advance(x) /\ x \in Kept
  BY <1>2 DEF Steps, Advance, Kept
<1>4. /\ chunkPtr' = [chunkPtr EXCEPT ![x] = (@ + 1) % ChunksPerPage]
      /\ todo' = (IF chunkPtr'[x] = 0 THEN nand_page_program(x[2], x) ELSE << >>) \o Tail(todo)
      /\ UNCHANGED <<fcp, wr, run, fsm, loaded, resets, lastBank, writeId, limit, sata>>
  BY <1>2 DEF AdvanceStep
<1>5. /\ chunkPtr' \in [PageBufs -> 0 .. ChunksPerPage - 1]
      /\ \A y \in PageBufs : y # x => chunkPtr'[y] = chunkPtr[y]
  <2>1. ChunksPerPage \in Nat \ {0}
    BY ClientsAssumption
  <2>2. chunkPtr \in [PageBufs -> 0 .. ChunksPerPage - 1]
    BY <1>1 DEF Types
  <2>3. (chunkPtr[x] + 1) % ChunksPerPage \in 0 .. ChunksPerPage - 1
    BY <2>1, <2>2, <1>3
  <2> QED
    BY <2>2, <2>3, <1>3, <1>4
<1>6. \A c \in Programs : Pending(c) => c.buf # x
  <2>1. Uses(todo[1], x)
    BY <1>3 DEF Uses, Advance
  <2> QED
    BY <2>1, <1>2, <1>3, NotUsedNext
<1>7. Untransferred' = Untransferred
  BY <1>4 DEF Untransferred
<1>8. \A s : At(s) <=> todo[1].do = s
  BY <1>1, <1>2, AtFirst
<1>9. ReadAwaited'
  <2>1. \A c \in Reads : ~Reading(c)
    BY <1>2, <1>8, NoReads
  <2> QED
    BY <2>1, <1>4 DEF ReadAwaited, Reading
<1> HIDE DEF x
<1>10. CASE chunkPtr'[x] # 0
  <2>1. todo' = Tail(todo)
    <3>1. Tail(todo) \in Seq(Steps)
      BY <1>1, <1>2, FirstAndRest
    <3>2. todo' = << >> \o Tail(todo)
      BY <1>4, <1>10
    <3> QED
      BY <3>1, <3>2, ConcatEmptySeq
  <2>2. \A c \in Programs : Pending(c)' => Pending(c) /\ todo[1] # Await("idle", c.bank)
    <3>1. \A b : Await("idle", b).do = "idle"
      BY DEF Await
    <3> QED
      BY <3>1, <2>1, <1>2, <1>4, <1>7, NotIssueNext DEF Pending
  <2>3. todo' \in Seq(Steps) /\ Shape(todo)' /\ UsesWait' /\ OpenKept' /\ LastKnown'
    <3>1. \A y \in PageBufs : chunkPtr'[y] > 0 => \/ chunkPtr[y] > 0
                                                  \/ \A c \in Programs : c.buf = y => ~Pending(c)'
      BY <2>2, <1>5, <1>6
    <3> QED
      BY <3>1, <2>1, <2>2, <1>2, <1>4, Popped
  <2>4. HeadOk' /\ HostSlot'
    BY <2>1, <1>2, <1>4, PoppedHead
  <2>5. Types'
    BY <2>3, <1>1, <1>4, <1>5 DEF Types
  <2> QED
    BY <2>3, <2>4, <2>5, <1>9 DEF BufInv
<1>11. CASE chunkPtr'[x] = 0
  <2> DEFINE u == todo'
             p == Cmd("program", x[2], x)
  <2>1. u = nand_page_program(x[2], x) \o Tail(todo)
    BY <1>4, <1>11
  <2>2. /\ u \in Seq(Steps) /\ Shape(u)
        /\ p \in Programs
        /\ Len(u) = n + 1 /\ DOMAIN u = 1 .. n + 1
        /\ u[1] = Regs(p) /\ u[2] = Step("issue")
        /\ \A k \in 2 .. n : u[k + 1] = todo[k]
    BY <2>1, <1>1, <1>2, <1>3, AdvanceShape
  <2>3. p.buf = x
    BY DEF Cmd
  <2> HIDE DEF u, p
  <2>4. n \in Nat /\ DOMAIN todo = 1 .. n
    BY <1>1, <1>2, FirstAndRest
  <2> HIDE DEF n
  <2>5. Regs(p).do = "regs" /\ Regs(p).cmd = p /\ Step("issue").do = "issue"
    BY DEF Regs, Step
  <2>6. \A k \in DOMAIN u : k = 1 \/ k = 2 \/ \E l \in 2 .. n : k = l + 1 /\ u[k] = todo[l] /\ l \in DOMAIN todo
    <3> SUFFICES ASSUME NEW k \in 1 .. n + 1, k # 1, k # 2
                 PROVE  \E l \in 2 .. n : k = l + 1 /\ u[k] = todo[l] /\ l \in DOMAIN todo
      BY <2>2
    <3>1. k - 1 \in 2 .. n /\ k = (k - 1) + 1
      BY <2>4
    <3>2. u[(k - 1) + 1] = todo[k - 1]
      BY <3>1, <2>2
    <3> QED
      BY <3>1, <3>2, <2>4
  <2>7. u # << >> /\ Head(u) = Regs(p) /\ \A s : At(s)' <=> s = "regs"
    <3>1. u # << >>
      BY <2>2, <2>4, EmptySeq
    <3> QED
      BY <3>1, <2>2, <2>5, FirstAndRest, AtFirstNext DEF u
  <2>8. \A c \in Programs : Pending(c)' => c \in Untransferred /\ Pending(c)
    BY <2>7, <1>7 DEF Pending, IssueNext
  <2>9. UsesWait'
    <3> SUFFICES ASSUME NEW c \in Programs, Pending(c)', c.buf \in Kept, NEW k \in DOMAIN u, Uses(u[k], c.buf)
                 PROVE  \E i \in 1 .. k - 1 : u[i] = Await("idle", c.bank)
      BY DEF UsesWait, u
    <3>1. PICK l \in 2 .. n : k = l + 1 /\ u[k] = todo[l] /\ l \in DOMAIN todo
      BY <2>2, <2>5, <2>6 DEF Uses
    <3>2. PICK i \in 1 .. l - 1 : todo[i] = Await("idle", c.bank)
      BY <3>1, <2>8 DEF BufInv, UsesWait
    <3>3. i # 1
      BY <3>2, <1>2 DEF Await
    <3>4. i \in 2 .. n /\ i + 1 \in 1 .. k - 1
      BY <3>1, <3>2, <3>3, <2>4
    <3> QED
      BY <3>2, <3>4, <2>2
  <2>10. OpenKept'
    <3> SUFFICES ASSUME NEW y \in PageBufs, chunkPtr'[y] > 0
                 PROVE  /\ \A c \in Programs : Pending(c)' => c.buf # y
                        /\ At("regs")' => Head(u).cmd.op # "program" \/ Head(u).cmd.buf # y
      BY DEF OpenKept, Next1, u
    <3>1. y # x /\ chunkPtr[y] > 0
      BY <1>5, <1>11
    <3>2. \A c \in Programs : Pending(c)' => c.buf # y
      BY <3>1, <2>8 DEF BufInv, OpenKept
    <3> QED
      BY <3>1, <3>2, <2>3, <2>5, <2>7
  <2>11. LastKnown'
    <3>1. FTL_BUF(1) \in Kept /\ FTL_BUF(1) # x
      BY <1>3 DEF Kept, PageBufs, LOG_BUF, OW_LOG_BUF, FTL_BUF
    <3>2. ASSUME NEW c \in Programs, Pending(c)', c.buf = FTL_BUF(1)
          PROVE  \/ c.bank = lastBank
                 \/ \E k \in DOMAIN u : Uses(u[k], FTL_BUF(1))
      <4>1. ASSUME NEW k \in DOMAIN todo, Uses(todo[k], FTL_BUF(1))
            PROVE  \E j \in DOMAIN u : Uses(u[j], FTL_BUF(1))
        <5>1. k # 1
          BY <4>1, <3>1, <3>2, <2>8, <1>2, NotUsedNext
        <5>2. k \in 2 .. n /\ k + 1 \in 1 .. n + 1
          BY <5>1, <2>4
        <5> QED
          BY <5>2, <4>1, <2>2
      <4> QED
        BY <4>1, <3>2, <2>8 DEF BufInv, LastKnown
    <3>3. ASSUME NEW k \in DOMAIN u, u[k].do = "regs", u[k].cmd.buf = FTL_BUF(1)
          PROVE  u[k].cmd.bank = lastBank
      <4>1. PICK l \in 2 .. n : k = l + 1 /\ u[k] = todo[l] /\ l \in DOMAIN todo
        BY <3>1, <3>3, <2>2, <2>3, <2>5, <2>6
      <4> QED
        BY <4>1, <3>3 DEF BufInv, LastKnown
    <3> QED
      BY <3>2, <3>3, <1>4 DEF LastKnown, u
  <2>12. HeadOk'
    BY <2>7 DEF HeadOk
  <2>13. HostSlot'
    <3>1. ~OfHost(p)
      BY <2>3, <1>3 DEF OfHost, PageBufs, LOG_BUF, OW_LOG_BUF
    <3>2. ASSUME NEW k \in DOMAIN u, u[k].do = "regs", OfHost(u[k].cmd)
          PROVE  u[k].cmd.buf[2] = writeId
      <4>1. PICK l \in 2 .. n : k = l + 1 /\ u[k] = todo[l] /\ l \in DOMAIN todo
        BY <3>1, <3>2, <2>2, <2>5, <2>6
      <4> QED
        BY <4>1, <3>2 DEF BufInv, HostSlot
    <3> QED
      BY <3>2, <1>4 DEF HostSlot, u
  <2>14. Types'
    BY <2>2, <1>1, <1>4, <1>5 DEF Types, u
  <2> QED
    BY <2>2, <2>9, <2>10, <2>11, <2>12, <2>13, <2>14, <1>9 DEF BufInv, u
<1> QED
  BY <1>10, <1>11

(* What is done with no read under way, and nothing issued next.           *)
LEMMA CodeKeeps ==
    ASSUME BufInv,
           UNCHANGED <<fcp, wr, run, fsm, resets, chunkPtr, writeId, limit, sata>>,
           lastBank' \in Banks \cup {INVALID},
           \A c \in Reads : ~Reading(c),
           todo' \in Seq(Steps), Shape(todo)',
           todo' # << >> => /\ todo'[1].do \notin {"idle", "issue", "accept", "done", "return", "restart"}
                            /\ todo'[1].do = "finish" /\ Len(todo') > 1 => todo'[2].do # "issue",
           \A k \in DOMAIN todo' : todo'[k].do = "regs" =>
               /\ todo'[k].cmd.op = "program" => todo'[k].cmd.buf \notin PageBufs
               /\ OfHost(todo'[k].cmd) => todo'[k].cmd.buf[2] = writeId
               /\ todo'[k].cmd.buf = FTL_BUF(1) => todo'[k].cmd.bank = lastBank',
           \A c \in Programs : Pending(c) /\ c.buf \in Kept => Quiet(todo', c.buf) \/ Guarded(todo', c.buf, c.bank),
           \A c \in Programs : Pending(c) /\ c.buf = FTL_BUF(1) =>
               c.bank = lastBank' \/ \E k \in DOMAIN todo' : Uses(todo'[k], FTL_BUF(1))
    PROVE  BufInv'
<1> DEFINE u == todo'
<1>1. u # << >> => Head(u) = u[1] /\ 1 \in DOMAIN u
  BY FirstAndRest
<1>2. \A s : At(s)' <=> u # << >> /\ u[1].do = s
  BY AtFirstNext
<1>3. Untransferred' = Untransferred
  BY DEF Untransferred
<1>4. \A c \in Programs : Pending(c)' => Pending(c)
  BY <1>2, <1>3 DEF Pending, IssueNext
<1>5. ReadAwaited'
  BY DEF ReadAwaited, Reading
<1>6. UsesWait'
  BY <1>4 DEF UsesWait, Quiet, Guarded
<1>7. OpenKept'
  <2>1. \A x \in PageBufs : chunkPtr'[x] > 0 => \A c \in Programs : Pending(c)' => c.buf # x
    BY <1>4 DEF BufInv, OpenKept
  <2>2. At("regs")' /\ u[1].cmd.op = "program" => u[1].cmd.buf \notin PageBufs
    BY <1>1, <1>2
  <2> QED
    BY <2>1, <2>2, <1>1 DEF OpenKept, Next1
<1>8. LastKnown'
  BY <1>4 DEF LastKnown
<1>9. HeadOk'
  <2>1. ~At("idle")' /\ ~At("issue")' /\ (At("finish")' => ~(Len(u) > 1 /\ u[2].do = "issue"))
    BY <1>2
  <2> QED
    BY <2>1 DEF HeadOk
<1>10. HostSlot'
  BY DEF HostSlot
<1>11. Types'
  BY DEF BufInv, Types
<1> QED
  BY <1>5, <1>6, <1>7, <1>8, <1>9, <1>10, <1>11 DEF BufInv

(* What is left when code is to be put in place of the first step.         *)
LEMMA Unfolding ==
    ASSUME BufInv, todo # << >>, todo[1].do \in {"chunks", "moves", "collect"}
    PROVE  /\ Tail(todo) \in Seq(Steps)
           /\ todo[1].do = "chunks" => Len(Tail(todo)) = 1 /\ Tail(todo)[1] = Step("release")
           /\ todo[1].do = "moves" => \A i \in DOMAIN Tail(todo) : i = Len(Tail(todo)) /\ Tail(todo)[i].do = "collect"
           /\ todo[1].do = "collect" => Tail(todo) = << >>
           /\ \A k \in DOMAIN todo : \A x : ~Uses(todo[k], x)
           /\ \A c \in Reads : ~Reading(c)
           /\ ~IssueNext
<1> DEFINE n == Len(todo)
           r == Tail(todo)
<1>1. todo \in Seq(Steps) /\ Ends(todo)
  BY DEF BufInv, Types, Shape
<1>2. /\ n \in Nat \ {0} /\ DOMAIN todo = 1 .. n /\ r \in Seq(Steps) /\ DOMAIN r = 1 .. n - 1 /\ Len(r) = n - 1
      /\ \A k \in 1 .. n - 1 : r[k] = todo[k + 1]
  BY <1>1, FirstAndRest
<1> HIDE DEF n, r
<1>3. \A s : At(s) <=> todo[1].do = s
  BY <1>1, AtFirst
<1>4. (\A c \in Reads : ~Reading(c)) /\ ~IssueNext
  BY <1>3, NoReads DEF IssueNext
<1>5. 1 \in DOMAIN todo /\ 1 + 1 = 2
  BY <1>2
<1>6. CASE todo[1].do = "chunks"
  <2>1. 2 \in DOMAIN todo /\ todo[2] = Step("release")
    BY <1>1, <1>5, <1>6 DEF Ends
  <2>2. n = 2
    <3>1. todo[2].do = "release"
      BY <2>1 DEF Step
    <3> QED
      BY <3>1, <2>1, <1>1 DEF Ends, n
  <2>3. Len(r) = 1 /\ r[1] = Step("release") /\ \A k \in DOMAIN todo : k = 1 \/ k = 2
    BY <2>1, <2>2, <1>2
  <2>4. \A k \in DOMAIN todo : todo[k].do \in {"chunks", "release"}
    BY <2>1, <2>3, <1>6 DEF Step
  <2>5. \A k \in DOMAIN todo : \A x : ~Uses(todo[k], x)
    BY <2>4 DEF Uses
  <2> QED
    BY <1>2, <1>4, <1>6, <2>3, <2>5 DEF r
<1>7. CASE todo[1].do = "moves"
  <2>1. \/ n = 1
        \/ n = 2 /\ todo[2].do = "collect"
    <3>1. 1 = n \/ (2 \in DOMAIN todo /\ todo[2].do = "collect")
      BY <1>1, <1>5, <1>7 DEF Ends, n
    <3>2. 2 \in DOMAIN todo /\ todo[2].do = "collect" => n = 2
      BY <1>1 DEF Ends, n
    <3> QED
      BY <3>1, <3>2
  <2>2. \A k \in DOMAIN todo : todo[k].do \in {"moves", "collect"}
    <3>1. \A k \in DOMAIN todo : k = 1 \/ (k = 2 /\ n = 2)
      BY <2>1, <1>2
    <3> QED
      BY <3>1, <2>1, <1>7
  <2>3. \A i \in DOMAIN r : i = Len(r) /\ r[i].do = "collect"
    <3> SUFFICES ASSUME NEW i \in 1 .. n - 1 PROVE i = Len(r) /\ r[i].do = "collect"
      BY <1>2
    <3>1. i = 1 /\ n = 2 /\ i + 1 = 2
      BY <2>1
    <3> QED
      BY <3>1, <2>1, <1>2
  <2>4. \A k \in DOMAIN todo : \A x : ~Uses(todo[k], x)
    BY <2>2 DEF Uses
  <2> QED
    BY <1>2, <1>4, <1>7, <2>3, <2>4 DEF r
<1>8. CASE todo[1].do = "collect"
  <2>1. n = 1
    BY <1>1, <1>5, <1>8 DEF Ends, n
  <2>2. r = << >>
    BY <2>1, <1>2, EmptySeq
  <2>3. \A k \in DOMAIN todo : \A x : ~Uses(todo[k], x)
    <3>1. \A k \in DOMAIN todo : k = 1
      BY <2>1, <1>2
    <3> QED
      BY <3>1, <1>8 DEF Uses
  <2> QED
    BY <1>2, <1>4, <1>8, <2>2, <2>3 DEF r
<1> QED
  BY <1>6, <1>7, <1>8

LEMMA BeginKeeps ==
    ASSUME BufInv, Begin
    PROVE  BufInv' /\ Fresh(todo', writeId)
<1>1. todo = << >> /\ UNCHANGED <<fcp, wr, run, fsm, loaded, resets, chunkPtr, lastBank, writeId, limit, sata>>
  BY DEF Begin, clients
<1>2. Fresh(todo', writeId)
  <2>1. writeId \in Slot
    BY DEF BufInv, Types
  <2>2. PICK job \in Jobs :
          \/ job = "page" /\ \E b \in Banks : todo' = CompletePage(b)
          \/ job = "in place" /\ \E b \in Banks : todo' = InPlacePage(b)
          \/ job = "partial" /\ Arrived(writeId) /\ todo' = PartialPage
          \/ job = "trim" /\ Arrived(writeId) /\ todo' = Trim
          \/ job = "read" /\ \E fetch \in FetchCode : todo' = Read(fetch)
          \/ job = "collect" /\ \E b \in Banks, n \in 1 .. MaxPages : todo' = << Collect(b, INVALID, n) >>
          \/ job = "erase" /\ \E b \in Banks : todo' = nand_block_erase_sync(b)
    BY DEF Begin
  <2>3. 0 \in Banks /\ 1 \in 1 .. MaxPages
    <3>1. MaxPages \in Nat \ {0}
      BY ClientsAssumption
    <3> QED
      BY <3>1, RingSize DEF Banks
  <2>4. nand_page_read(0, FTL_BUF(0)) \in FetchCode
    BY <2>3 DEF FetchCode
  <2> QED
    BY <2>1, <2>2, <2>3, <2>4, BeginCode
<1>3. todo' \in Seq(Steps) /\ todo' # << >> /\ 1 \in DOMAIN todo'
  BY <1>2, FirstAndRest DEF Fresh
<1>4. \A s : ~At(s)
  BY <1>1 DEF At
<1>5. \A c \in Reads : ~Reading(c)
  BY <1>4, NoReads
<1>6. \A c \in Programs : Pending(c) /\ c.buf = FTL_BUF(1) => c.bank = lastBank
  <2>1. DOMAIN todo = {}
    BY <1>1
  <2> QED
    BY <2>1 DEF BufInv, LastKnown
<1>7. \A k \in DOMAIN todo' : todo'[k].do = "regs" =>
          /\ todo'[k].cmd.op = "program" => todo'[k].cmd.buf \notin PageBufs
          /\ OfHost(todo'[k].cmd) => todo'[k].cmd.buf[2] = writeId
          /\ todo'[k].cmd.buf # FTL_BUF(1)
  BY <1>2 DEF Fresh, NoFtl1, WR_BUF
<1>8. lastBank \in Banks \cup {INVALID}
  BY DEF BufInv, Types
<1>9. /\ Shape(todo)'
      /\ \A x \in Kept : Quiet(todo', x)
      /\ todo'[1].do \notin {"idle", "issue", "accept", "done", "return", "restart"}
      /\ todo'[1].do = "finish" /\ Len(todo') > 1 => todo'[2].do # "issue"
  BY <1>2 DEF Fresh
<1>10. BufInv'
  BY <1>1, <1>3, <1>5, <1>6, <1>7, <1>8, <1>9, CodeKeeps
<1> QED
  BY <1>2, <1>10

LEMMA NextPageKeeps ==
    ASSUME BufInv, NextPage
    PROVE  BufInv' /\ Apart(todo')
<1> DEFINE b == todo[1].bank
           prev == todo[1].prev
           n == todo[1].n
<1>1. todo \in Seq(Steps)
  BY DEF BufInv, Types
<1>2. todo # << >> /\ todo[1].do = "collect" /\ Next1 = todo[1] /\ todo[1] \in Steps
  BY <1>1, AtFirst, FirstAndRest DEF NextPage, Next1
<1>3. b \in Banks /\ prev \in Banks \cup {INVALID} /\ n \in 1 .. MaxPages
  BY <1>2 DEF Steps
<1>4. /\ Tail(todo) = << >>
      /\ \A k \in DOMAIN todo : \A x : ~Uses(todo[k], x)
      /\ \A c \in Reads : ~Reading(c)
  BY <1>2, Unfolding
<1>5. UNCHANGED <<fcp, wr, run, fsm, loaded, resets, chunkPtr, lastBank, writeId, limit, sata>>
  BY DEF NextPage, clients
<1>6. Apart(todo')
  <2>1. \/ \E dst \in Banks :
             todo' = FullPage(b, prev, dst) \o Victim(b, n) \o Rest(b, dst, n) \o << >>
        \/ \E k \in 1 .. ChunksPerPage - 1 :
             todo' = nand_page_read(b, GC_BUF(b)) \o Victim(b, n) \o << Moves(b, k) >>
                     \o Rest(b, prev, n) \o << >>
    BY <1>2, <1>4 DEF NextPage
  <2> QED
    BY <2>1, <1>3, NextPageCode
<1>7. \A k \in DOMAIN todo' : todo'[k].do = "regs" =>
          /\ todo'[k].cmd.op = "program" => todo'[k].cmd.buf \notin PageBufs
          /\ ~OfHost(todo'[k].cmd)
  BY <1>6, InnerRegs DEF Apart
<1>8. todo' \in Seq(Steps)
  BY <1>6 DEF Apart, Inner
<1>9. \A c \in Programs : Pending(c) /\ c.buf = FTL_BUF(1) => c.bank = lastBank
  BY <1>4 DEF BufInv, LastKnown
<1>10. \A k \in DOMAIN todo' : todo'[k].do = "regs" =>
          /\ todo'[k].cmd.op = "program" => todo'[k].cmd.buf \notin PageBufs
          /\ ~OfHost(todo'[k].cmd)
          /\ todo'[k].cmd.buf # FTL_BUF(1)
  BY <1>6, <1>7 DEF Apart, NoFtl1
<1>11. lastBank \in Banks \cup {INVALID}
  BY DEF BufInv, Types
<1>12. /\ Shape(todo)'
       /\ \A x \in Kept : Quiet(todo', x)
       /\ todo' # << >> => /\ todo'[1].do \notin {"idle", "issue", "accept", "done", "return", "restart"}
                           /\ todo'[1].do = "finish" /\ Len(todo') > 1 => todo'[2].do # "issue"
  BY <1>6 DEF Apart, Inner
<1>13. BufInv'
  <2>1. \A c \in Reads : ~Reading(c)
    BY <1>4
  <2>2. \A c \in Programs : Pending(c) /\ c.buf \in Kept => Quiet(todo', c.buf) \/ Guarded(todo', c.buf, c.bank)
    BY <1>12
  <2>3. Shape(todo)'
    BY <1>12
  <2>4. todo' # << >> => /\ todo'[1].do \notin {"idle", "issue", "accept", "done", "return", "restart"}
                         /\ todo'[1].do = "finish" /\ Len(todo') > 1 => todo'[2].do # "issue"
    BY <1>12
  <2> QED
    BY <2>1, <2>2, <2>3, <2>4, <1>5, <1>8, <1>9, <1>10, <1>11, CodeKeeps
<1> QED
  BY <1>6, <1>13

LEMMA NextMoveKeeps ==
    ASSUME BufInv, NextMove
    PROVE  BufInv' /\ Inner(todo') /\ NoRelease(todo')
<1> DEFINE b == todo[1].bank
           n == todo[1].n
           r == Tail(todo)
<1>1. todo \in Seq(Steps)
  BY DEF BufInv, Types
<1>2. todo # << >> /\ todo[1].do = "moves" /\ Next1 = todo[1] /\ todo[1] \in Steps
  BY <1>1, AtFirst, FirstAndRest DEF NextMove, Next1
<1>3. b \in Banks /\ n \in 1 .. ChunksPerPage - 1
  BY <1>2 DEF Steps
<1>4. /\ r \in Seq(Steps) /\ \A i \in DOMAIN r : i = Len(r) /\ r[i].do = "collect"
      /\ \A k \in DOMAIN todo : \A x : ~Uses(todo[k], x)
      /\ \A c \in Reads : ~Reading(c)
  BY <1>2, Unfolding
<1>5. UNCHANGED <<fcp, wr, run, fsm, loaded, resets, chunkPtr, lastBank, writeId, limit, sata>>
  BY DEF NextMove, clients
<1>6. PICK dst \in Banks : todo' = MoveChunk(b, dst) \o OtherMoves(b, n) \o r
  BY <1>2 DEF NextMove
<1> HIDE DEF r, b, n
<1>7. /\ Inner(todo') /\ NoFtl1(todo') /\ NoRelease(todo')
      /\ \A y \in Kept : y # LOG_BUF(dst) => Quiet(todo', y)
      /\ \A y : Guarded(todo', y, dst)
  <2>1. LET t == MoveChunk(b, dst) \o OtherMoves(b, n) \o r IN
        /\ Inner(t) /\ NoFtl1(t) /\ NoRelease(t)
        /\ \A y \in Kept : y # LOG_BUF(dst) => Quiet(t, y)
        /\ \A y : Guarded(t, y, dst)
    BY <1>3, <1>4, NextMoveCode
  <2> QED
    BY <2>1, <1>6
<1>9. todo' \in Seq(Steps) /\ Shape(todo)'
  BY <1>7 DEF Inner
<1>10. \A c \in Programs : Pending(c) /\ c.buf = FTL_BUF(1) => c.bank = lastBank
  BY <1>4 DEF BufInv, LastKnown
<1>11. \A k \in DOMAIN todo' : todo'[k].do = "regs" =>
          /\ todo'[k].cmd.op = "program" => todo'[k].cmd.buf \notin PageBufs
          /\ ~OfHost(todo'[k].cmd)
          /\ todo'[k].cmd.buf # FTL_BUF(1)
  BY <1>7, InnerRegs DEF NoFtl1
<1>12. lastBank \in Banks \cup {INVALID}
  BY DEF BufInv, Types
<1>13. todo' # << >> => /\ todo'[1].do \notin {"idle", "issue", "accept", "done", "return", "restart"}
                        /\ todo'[1].do = "finish" /\ Len(todo') > 1 => todo'[2].do # "issue"
  BY <1>7 DEF Inner
<1>14. ASSUME NEW c \in Programs, c.buf \in Kept
       PROVE  Quiet(todo', c.buf) \/ Guarded(todo', c.buf, c.bank)
  <2>1. CASE c.buf = LOG_BUF(dst)
    <3>1. c.bank = dst
      BY <2>1 DEF Programs, PageBufs, LOG_BUF
    <3> QED
      BY <3>1, <1>7
  <2>2. CASE c.buf # LOG_BUF(dst)
    BY <2>2, <1>7, <1>14
  <2> QED
    BY <2>1, <2>2
<1>15. BufInv'
  BY <1>4, <1>5, <1>9, <1>10, <1>11, <1>12, <1>13, <1>14, CodeKeeps
<1> QED
  BY <1>7, <1>15

LEMMA NextChunkKeeps ==
    ASSUME BufInv, NextChunk
    PROVE  /\ BufInv' /\ Inner(todo')
           /\ \E k \in DOMAIN todo : todo[k].do = "release"
<1> DEFINE n == todo[1].n
           r == Tail(todo)
<1>1. todo \in Seq(Steps)
  BY DEF BufInv, Types
<1>2. todo # << >> /\ todo[1].do = "chunks" /\ Next1 = todo[1] /\ todo[1] \in Steps
  BY <1>1, AtFirst, FirstAndRest DEF NextChunk, Next1
<1>3. n \in 1 .. MaxChunks
  <2>1. MaxChunks \in Nat
    BY ClientsAssumption
  <2>2. n \in 0 .. MaxChunks
    BY <1>2 DEF Steps
  <2>3. n > 0
    BY <1>2 DEF NextChunk
  <2> QED
    BY <2>1, <2>2, <2>3
<1>4. /\ r \in Seq(Steps) /\ Len(r) = 1 /\ r[1] = Step("release")
      /\ \A k \in DOMAIN todo : \A x : ~Uses(todo[k], x)
  BY <1>2, Unfolding
<1>5. \A c \in Reads : ~Reading(c)
  BY <1>2, Unfolding
<1>6. UNCHANGED <<fcp, wr, run, fsm, loaded, resets, chunkPtr, writeId, limit, sata>>
  BY DEF NextChunk
<1>7. writeId \in Slot /\ chunkPtr \in [PageBufs -> 0 .. ChunksPerPage - 1] /\ lastBank \in Banks \cup {INVALID}
  BY DEF BufInv, Types
<1>8. \A c \in Programs : Pending(c) /\ c.buf = FTL_BUF(1) => c.bank = lastBank
  BY <1>4 DEF BufInv, LastKnown
<1>9. \E k \in DOMAIN todo : todo[k].do = "release"
  <2>1. 1 \in 1 .. Len(todo) - 1 /\ 1 + 1 \in DOMAIN todo /\ r[1] = todo[1 + 1]
    BY <1>1, <1>2, <1>4, FirstAndRest, SMTT(30)
  <2> QED
    BY <2>1, <1>4 DEF Step
<1>10. ASSUME Inner(todo')
       PROVE  /\ todo' \in Seq(Steps) /\ Shape(todo)'
              /\ todo' # << >> => /\ todo'[1].do \notin {"idle", "issue", "accept", "done", "return", "restart"}
                                  /\ todo'[1].do = "finish" /\ Len(todo') > 1 => todo'[2].do # "issue"
              /\ \A k \in DOMAIN todo' : todo'[k].do = "regs" =>
                    /\ todo'[k].cmd.op = "program" => todo'[k].cmd.buf \notin PageBufs
                    /\ ~OfHost(todo'[k].cmd)
  <2>1. \A k \in DOMAIN todo' : todo'[k].do = "regs" =>
                    /\ todo'[k].cmd.op = "program" => todo'[k].cmd.buf \notin PageBufs
                    /\ ~OfHost(todo'[k].cmd)
    BY <1>10, InnerRegs
  <2> QED
    BY <2>1, <1>10 DEF Inner
<1> HIDE DEF n, r
<1>11. CASE /\ \E code \in ChunkCode : todo' = code \o Others(n) \o r
            /\ UNCHANGED lastBank
  <2>1. PICK code \in ChunkCode : todo' = code \o Others(n) \o r
    BY <1>11
  <2>2. /\ Inner(todo') /\ NoFtl1(todo')
        /\ \E x \in PageBufs : /\ \A y \in Kept : y # x => Quiet(todo', y)
                               /\ Guarded(todo', x, x[2]) \/ Open(x)
    <3>1. LET t == code \o Others(n) \o r IN
          /\ Inner(t) /\ NoFtl1(t)
          /\ \E x \in PageBufs : /\ \A y \in Kept : y # x => Quiet(t, y)
                                 /\ Guarded(t, x, x[2]) \/ Open(x)
      BY <1>3, <1>4, <1>7, ChunkCodeShape
    <3> QED
      BY <3>1, <2>1
  <2>4. PICK x \in PageBufs : /\ \A y \in Kept : y # x => Quiet(todo', y)
                              /\ Guarded(todo', x, x[2]) \/ Open(x)
    BY <2>2
  <2>5. ASSUME NEW c \in Programs, Pending(c), c.buf \in Kept
        PROVE  Quiet(todo', c.buf) \/ Guarded(todo', c.buf, c.bank)
    <3>1. CASE c.buf # x
      BY <2>4, <2>5, <3>1
    <3>2. CASE c.buf = x
      <4>1. c.bank = x[2]
        BY <3>2 DEF Programs
      <4>2. ~Open(x)
        BY <3>2, <2>5 DEF BufInv, OpenKept, Open
      <4> QED
        BY <4>1, <4>2, <3>2, <2>4
    <3> QED
      BY <3>1, <3>2
  <2>6. \A k \in DOMAIN todo' : todo'[k].do = "regs" =>
          /\ todo'[k].cmd.op = "program" => todo'[k].cmd.buf \notin PageBufs
          /\ ~OfHost(todo'[k].cmd)
          /\ todo'[k].cmd.buf # FTL_BUF(1)
    BY <2>2, <1>10 DEF NoFtl1
  <2>7. BufInv'
    BY <2>2, <2>5, <2>6, <1>5, <1>6, <1>7, <1>8, <1>10, <1>11, CodeKeeps
  <2> QED
    BY <2>2, <2>7, <1>9
<1>12. ASSUME NEW b \in Banks, todo' = OldInOwLog(b) \o Others(n) \o r, lastBank' = b
       PROVE  BufInv' /\ Inner(todo')
  <2>1. /\ Inner(todo')
        /\ \A y \in Kept : y # FTL_BUF(1) => Quiet(todo', y)
        /\ lastBank # INVALID => Guarded(todo', FTL_BUF(1), lastBank)
        /\ \E k \in DOMAIN todo' : Uses(todo'[k], FTL_BUF(1))
        /\ \A k \in DOMAIN todo' : todo'[k].do = "regs" /\ todo'[k].cmd.buf = FTL_BUF(1) => todo'[k].cmd.bank = b
    <3>1. LET t == OldInOwLog(b) \o Others(n) \o r IN
          /\ Inner(t)
          /\ \A y \in Kept : y # FTL_BUF(1) => Quiet(t, y)
          /\ lastBank # INVALID => Guarded(t, FTL_BUF(1), lastBank)
          /\ \E k \in DOMAIN t : Uses(t[k], FTL_BUF(1))
          /\ \A k \in DOMAIN t : t[k].do = "regs" /\ t[k].cmd.buf = FTL_BUF(1) => t[k].cmd.bank = b
      BY <1>3, <1>4, <1>7, OldInOwLogShape
    <3> QED
      BY <3>1, <1>12
  <2>3. ASSUME NEW c \in Programs, Pending(c), c.buf \in Kept
        PROVE  Quiet(todo', c.buf) \/ Guarded(todo', c.buf, c.bank)
    <3>1. CASE c.buf # FTL_BUF(1)
      BY <2>1, <2>3, <3>1
    <3>2. CASE c.buf = FTL_BUF(1)
      <4>1. c.bank = lastBank /\ c.bank \in Banks
        BY <2>3, <3>2, <1>8 DEF Programs
      <4>2. lastBank # INVALID
        BY <4>1, RingSize DEF INVALID, Banks
      <4> QED
        BY <4>1, <4>2, <3>2, <2>1
    <3> QED
      BY <3>1, <3>2
  <2>4. \A k \in DOMAIN todo' : todo'[k].do = "regs" =>
          /\ todo'[k].cmd.op = "program" => todo'[k].cmd.buf \notin PageBufs
          /\ ~OfHost(todo'[k].cmd)
    BY <2>1, <1>10
  <2>5. BufInv'
    BY <2>1, <2>3, <2>4, <1>5, <1>6, <1>10, <1>12, CodeKeeps
  <2> QED
    BY <2>1, <2>5
<1> QED
  <2>1. \/ /\ \E code \in ChunkCode : todo' = code \o Others(n) \o r
           /\ UNCHANGED lastBank
        \/ \E b \in Banks : todo' = OldInOwLog(b) \o Others(n) \o r /\ lastBank' = b
    BY <1>2 DEF NextChunk, n, r
  <2> QED
    BY <2>1, <1>9, <1>11, <1>12

-----------------------------------------------------------------------------
(* The controller and the host.                                            *)

LEMMA Still ==
    ASSUME BufInv, Types',
           UNCHANGED <<todo, fcp, chunkPtr, lastBank, writeId>>,
           Untransferred' \subseteq Untransferred,
           wr' \in {wr, None},
           \A c \in Reads : Reading(c)' => Reading(c)
    PROVE  BufInv'
<1>1. \A s : At(s)' <=> At(s)
  BY DEF At, Next1
<1>2. \A c : Pending(c)' => Pending(c)
  BY <1>1 DEF Pending, IssueNext
<1>3. HeadOk'
  BY <1>1 DEF BufInv, HeadOk
<1>4. HostSlot' /\ Shape(todo)'
  BY DEF BufInv, HostSlot
<1>5. ReadAwaited'
  <2>1. \A c \in Reads : c # None
    BY DEF Reads, None, Cmd
  <2> QED
    BY <2>1, <1>1 DEF BufInv, ReadAwaited
<1>6. UsesWait'
  BY <1>2 DEF BufInv, UsesWait
<1>7. OpenKept'
  BY <1>1, <1>2 DEF BufInv, OpenKept, Next1
<1>8. LastKnown'
  BY <1>2 DEF BufInv, LastKnown
<1> QED
  BY <1>3, <1>4, <1>5, <1>6, <1>7, <1>8 DEF BufInv

LEMMA AcceptKeeps ==
    ASSUME BufInv, Accept, UNCHANGED clients
    PROVE  BufInv' /\ Untransferred' = Untransferred
<1>1. /\ wr # None /\ fsm[wr.bank] = "idle"
      /\ run' = [run EXCEPT ![wr.bank] = wr]
      /\ fsm' = [fsm EXCEPT ![wr.bank] = "before"]
      /\ wr' = None
      /\ UNCHANGED <<fcp, todo, loaded, resets>>
      /\ UNCHANGED <<chunkPtr, lastBank, writeId, limit, sata>>
  BY DEF Accept, clients
<1>2. Types
  BY DEF BufInv
<1>3. wr \in Commands /\ wr.bank \in Banks
  BY <1>1, <1>2 DEF Types, Commands, Programs, Reads, Plain
<1>4. /\ run'[wr.bank] = wr /\ fsm'[wr.bank] = "before"
      /\ \A b \in Banks : b # wr.bank => run'[b] = run[b] /\ fsm'[b] = fsm[b]
  BY <1>1, <1>2, <1>3 DEF Types
<1>5. Types'
  BY <1>1, <1>2, <1>3, <1>4 DEF Types
<1>6. Untransferred' = Untransferred
  <2>1. ASSUME NEW c \in Untransferred PROVE c \in Untransferred'
    <3>1. c # None /\ c.op = "program"
      BY DEF Untransferred
    <3>2. c = wr \/ \E b \in Banks : fsm[b] = "before" /\ c = run[b]
      BY DEF Untransferred
    <3>3. \E b \in Banks : fsm'[b] = "before" /\ c = run'[b]
      BY <3>2, <1>1, <1>3, <1>4
    <3> QED
      BY <3>1, <3>3 DEF Untransferred
  <2>2. ASSUME NEW c \in Untransferred' PROVE c \in Untransferred
    <3>1. c # None /\ c.op = "program"
      BY <2>2 DEF Untransferred
    <3>2. \E b \in Banks : fsm'[b] = "before" /\ c = run'[b]
      BY <2>2, <3>1, <1>1 DEF Untransferred
    <3>3. c = wr \/ \E b \in Banks : fsm[b] = "before" /\ c = run[b]
      BY <3>2, <1>4
    <3> QED
      BY <3>1, <3>3 DEF Untransferred
  <2> QED
    BY <2>1, <2>2
<1>7. \A c \in Reads : Reading(c)' => Reading(c)
  <2>1. \A c \in Reads : c # None
    BY DEF Reads, None, Cmd
  <2> QED
    BY <2>1, <1>1, <1>4 DEF Reading
<1> QED
  BY <1>1, <1>5, <1>6, <1>7, Still

LEMMA EndKeeps ==
    ASSUME BufInv, NEW b \in Banks, End(b), UNCHANGED clients
    PROVE  BufInv' /\ Untransferred' = Untransferred
<1>1. /\ fsm[b] = "after"
      /\ fsm' = [fsm EXCEPT ![b] = "idle"]
      /\ run' = [run EXCEPT ![b] = None]
      /\ UNCHANGED <<fcp, wr, todo, resets>>
      /\ UNCHANGED <<chunkPtr, lastBank, writeId, limit, sata>>
  BY DEF End, clients
<1>2. Types
  BY DEF BufInv
<1>3. /\ run'[b] = None /\ fsm'[b] = "idle"
      /\ \A a \in Banks : a # b => run'[a] = run[a] /\ fsm'[a] = fsm[a]
  BY <1>1, <1>2 DEF Types
<1>4. Types'
  BY <1>1, <1>2, <1>3 DEF Types
<1>5. Untransferred' = Untransferred
  <2>1. {a \in Banks : fsm'[a] = "before"} = {a \in Banks : fsm[a] = "before"}
    BY <1>1, <1>3
  <2>2. \A a \in Banks : fsm[a] = "before" => run'[a] = run[a]
    BY <1>1, <1>3
  <2> QED
    BY <2>1, <2>2, <1>1 DEF Untransferred
<1>6. \A c \in Reads : Reading(c)' => Reading(c)
  <2>1. \A c \in Reads : c # None
    BY DEF Reads, None, Cmd
  <2> QED
    BY <2>1, <1>1, <1>3 DEF Reading
<1> QED
  BY <1>1, <1>4, <1>5, <1>6, Still

LEMMA TransferKeeps ==
    ASSUME BufInv, NEW b \in Banks, Transfer(b),
           UNCHANGED <<chunkPtr, lastBank, writeId, sata>>, limit' \in Slot
    PROVE  BufInv' /\ Untransferred' \subseteq Untransferred
<1>1. /\ fsm[b] = "before"
      /\ fsm' = [fsm EXCEPT ![b] = "after"]
      /\ UNCHANGED <<fcp, wr, run, todo, loaded, resets>>
  BY DEF Transfer
<1>2. Types
  BY DEF BufInv
<1>3. /\ fsm'[b] = "after"
      /\ \A a \in Banks : a # b => fsm'[a] = fsm[a]
  BY <1>1, <1>2 DEF Types
<1>4. Types'
  BY <1>1, <1>2, <1>3 DEF Types
<1>5. Untransferred' \subseteq Untransferred
  <2>1. \A a \in Banks : fsm'[a] = "before" => fsm[a] = "before"
    BY <1>3
  <2> QED
    BY <2>1, <1>1 DEF Untransferred
<1>6. \A c \in Reads : Reading(c)' => Reading(c)
  BY <1>1 DEF Reading
<1> QED
  BY <1>1, <1>4, <1>5, <1>6, Still

LEMMA SlotNext ==
    ASSUME NEW i \in Slot
    PROVE  NextId(i) \in Slot
<1>1. (i + 1) % NumWrBufs \in 0 .. NumWrBufs - 1
  BY RingSize DEF Slot
<1> QED
  BY <1>1 DEF Slot, NextId

LEMMA HostDataKeeps ==
    ASSUME BufInv, HostData
    PROVE  BufInv' /\ Untransferred' = Untransferred
<1>1. /\ sata' = NextId(sata)
      /\ UNCHANGED <<fcp, wr, run, fsm, todo, loaded, resets, chunkPtr, lastBank, writeId, limit>>
  BY DEF HostData, driver
<1>2. Types'
  BY <1>1, SlotNext DEF BufInv, Types
<1>3. Untransferred' = Untransferred
  BY <1>1 DEF Untransferred
<1>4. \A c \in Reads : Reading(c)' => Reading(c)
  BY <1>1 DEF Reading
<1> QED
  BY <1>1, <1>2, <1>3, <1>4, Still

(* A command is given up.                                                  *)
LEMMA GiveUpKeeps ==
    ASSUME BufInv, NEW b \in Banks, GiveUp(b), UNCHANGED clients
    PROVE  /\ BufInv' /\ Untransferred' = Untransferred
           /\ todo' # << >> /\ todo'[1].do = "restart"
           /\ \A k \in DOMAIN todo' : todo'[k].do \in {"release", "nextId"} =>
                 \E j \in DOMAIN todo : todo[j].do = todo'[k].do
<1> DEFINE u == todo'
           n == Len(todo)
<1>1. todo \in Seq(Steps) /\ Types /\ Shape(todo)
  BY DEF BufInv, Types
<1>2. /\ resets < MaxResets /\ resets' = resets + 1
      /\ u = flash_reset_one_bank(b) \o todo
      /\ UNCHANGED <<fcp, wr, run, fsm, loaded>>
      /\ UNCHANGED <<chunkPtr, lastBank, writeId, limit, sata>>
  BY DEF GiveUp, clients
<1>3. todo # << >> /\ todo[1].do \in {"issue", "accept", "done"}
  <2>1. At("issue") \/ At("accept") \/ At("done")
    BY DEF GiveUp
  <2> QED
    BY <2>1, <1>1, AtFirst
<1>4. /\ u \in Seq(Steps) /\ Shape(u)
      /\ Len(u) = n + 6 /\ DOMAIN u = 1 .. n + 6
      /\ u[1] = Step("restart")
      /\ \A k \in 1 .. 6 : \A y : u[k].do # "idle" /\ ~Uses(u[k], y)
      /\ \A k \in 1 .. 6 : u[k].do # "release" /\ (u[k].do = "regs" => u[k].cmd.op \in {"generic", "wait"} /\ u[k].cmd.buf = NoBuf)
      /\ \A k \in 1 .. n : u[k + 6] = todo[k]
  BY <1>1, <1>2, <1>3, ResetShape
<1> HIDE DEF u
<1>5. n \in Nat /\ DOMAIN todo = 1 .. n
  BY <1>1, LenProperties
<1> HIDE DEF n
<1>6. \A k \in DOMAIN u : k \in 1 .. 6 \/ \E l \in 1 .. n : k = l + 6 /\ u[k] = todo[l]
  <2> SUFFICES ASSUME NEW k \in 1 .. n + 6, k \notin 1 .. 6
               PROVE  \E l \in 1 .. n : k = l + 6 /\ u[k] = todo[l]
    BY <1>4
  <2>1. k - 6 \in 1 .. n /\ k = (k - 6) + 6
    BY <1>5
  <2>2. u[(k - 6) + 6] = todo[k - 6]
    BY <2>1, <1>4
  <2> QED
    BY <2>1, <2>2
<1>7. \A l \in 1 .. n : l + 6 \in DOMAIN u /\ u[l + 6] = todo[l]
  BY <1>4, <1>5
<1>8. u # << >> /\ u[1].do = "restart" /\ \A s : At(s)' <=> s = "restart"
  <2>1. u # << >>
    BY <1>4, <1>5, EmptySeq
  <2>2. u[1].do = "restart"
    BY <1>4 DEF Step
  <2> QED
    BY <2>1, <2>2, <1>4, AtFirstNext DEF u
<1>9. Untransferred' = Untransferred
  BY <1>2 DEF Untransferred
<1>10. \A c : Pending(c)' => Pending(c)
  BY <1>8, <1>9 DEF Pending, IssueNext
<1>11. UsesWait'
  <2> SUFFICES ASSUME NEW c \in Programs, Pending(c)', c.buf \in Kept, NEW k \in DOMAIN u, Uses(u[k], c.buf)
               PROVE  \E i \in 1 .. k - 1 : u[i] = Await("idle", c.bank)
    BY DEF UsesWait, u
  <2>1. PICK l \in 1 .. n : k = l + 6 /\ u[k] = todo[l]
    BY <1>4, <1>6
  <2>2. PICK i \in 1 .. l - 1 : todo[i] = Await("idle", c.bank)
    BY <2>1, <1>5, <1>10 DEF BufInv, UsesWait
  <2>3. i \in 1 .. n /\ i + 6 \in 1 .. k - 1
    BY <2>1, <2>2, <1>5
  <2> QED
    BY <2>2, <2>3, <1>7
<1>12. OpenKept'
  BY <1>2, <1>8, <1>10 DEF BufInv, OpenKept
<1>13. LastKnown'
  <2>1. NoBuf # FTL_BUF(1)
    BY DEF NoBuf, FTL_BUF
  <2>2. ASSUME NEW c \in Programs, Pending(c)', c.buf = FTL_BUF(1)
        PROVE  c.bank = lastBank \/ \E k \in DOMAIN u : Uses(u[k], FTL_BUF(1))
    BY <2>2, <1>5, <1>7, <1>10 DEF BufInv, LastKnown
  <2>3. ASSUME NEW k \in DOMAIN u, u[k].do = "regs", u[k].cmd.buf = FTL_BUF(1)
        PROVE  u[k].cmd.bank = lastBank
    <3>1. PICK l \in 1 .. n : k = l + 6 /\ u[k] = todo[l]
      BY <2>1, <2>3, <1>4, <1>6
    <3> QED
      BY <3>1, <2>3, <1>5 DEF BufInv, LastKnown
  <2> QED
    BY <2>2, <2>3, <1>2 DEF LastKnown, u
<1>14. HeadOk'
  BY <1>8 DEF HeadOk
<1>15. HostSlot'
  <2> SUFFICES ASSUME NEW k \in DOMAIN u, u[k].do = "regs", OfHost(u[k].cmd)
               PROVE  u[k].cmd.buf[2] = writeId
    BY <1>2 DEF HostSlot, u
  <2>1. NoBuf[1] # "WR"
    BY DEF NoBuf
  <2>2. PICK l \in 1 .. n : k = l + 6 /\ u[k] = todo[l]
    BY <2>1, <1>4, <1>6 DEF OfHost
  <2> QED
    BY <2>2, <1>5 DEF BufInv, HostSlot
<1>16. ReadAwaited'
  <2> SUFFICES ASSUME NEW c \in Reads, Reading(c)
               PROVE  \E k \in DOMAIN u : /\ u[k] = Return(c.bank, c.buf)
                                          /\ \A i \in 1 .. k - 1 : u[i].do # "idle"
    BY <1>2, <1>8 DEF ReadAwaited, Reading, u
  <2>1. PICK k \in DOMAIN todo : /\ todo[k] = Return(c.bank, c.buf)
                                 /\ \A i \in 1 .. k - 1 : todo[i].do # "idle"
    BY DEF BufInv, ReadAwaited
  <2>2. k + 6 \in DOMAIN u /\ u[k + 6] = Return(c.bank, c.buf)
    BY <2>1, <1>5, <1>7
  <2>3. ASSUME NEW i \in 1 .. (k + 6) - 1 PROVE u[i].do # "idle"
    <3>1. CASE i \in 1 .. 6
      BY <3>1, <1>4
    <3>2. CASE i \notin 1 .. 6
      <4>1. i \in DOMAIN u
        BY <2>1, <1>4, <1>5
      <4>2. PICK l \in 1 .. n : i = l + 6 /\ u[i] = todo[l]
        BY <4>1, <3>2, <1>6
      <4>3. l \in 1 .. k - 1
        BY <4>2, <2>1, <1>5
      <4> QED
        BY <4>2, <4>3, <2>1
    <3> QED
      BY <3>1, <3>2
  <2> QED
    BY <2>2, <2>3
<1>17. Types'
  <2>1. resets + 1 \in 0 .. MaxResets
    <3>1. MaxResets \in Nat /\ resets \in 0 .. MaxResets
      BY <1>1, BanksAssumption DEF Types
    <3> QED
      BY <3>1, <1>2
  <2> QED
    BY <2>1, <1>1, <1>2, <1>4 DEF Types, u
<1>18. ASSUME NEW k \in DOMAIN u, u[k].do \in {"release", "nextId"}
       PROVE  \E j \in DOMAIN todo : todo[j].do = u[k].do
  <2>1. k = Len(u) /\ n > 0
    <3>1. k = Len(u)
      BY <1>4, <1>18 DEF Shape, Ends
    <3>2. n # 0
      BY <1>1, <1>3, EmptySeq DEF n
    <3> QED
      BY <3>1, <3>2, <1>5
  <2>2. k \notin 1 .. 6
    BY <2>1, <1>4, <1>5
  <2> QED
    BY <2>2, <1>5, <1>6
<1>19. BufInv'
  BY <1>4, <1>11, <1>12, <1>13, <1>14, <1>15, <1>16, <1>17 DEF BufInv, u
<1> QED
  BY <1>8, <1>9, <1>18, <1>19 DEF u

(* A set of naturals that has an element has a least one.                  *)
LEMMA LeastOf ==
    ASSUME NEW S \in SUBSET Nat, S # {}
    PROVE  \E x \in S : \A y \in S : x <= y
<1> DEFINE R == {p \in Nat \X Nat : p[1] < p[2]}
<1>1. IsWellFoundedOn(R, Nat)
  BY NatLessThanWellFounded DEF OpToRel
<1>2. \A x, y \in Nat : <<y, x>> \in R <=> y < x
  OBVIOUS
<1> HIDE DEF R
<1>3. PICK x \in S : \A y \in S : <<y, x>> \notin R
  BY <1>1, WFMin
<1>4. \A y \in S : ~ (y < x)
  BY <1>2, <1>3
<1> QED
  BY <1>4

LEMMA HostProgram ==
    ASSUME Types, NEW c \in Untransferred, OfHost(c)
    PROVE  c \in Programs /\ c.buf = WR_BUF(c.buf[2]) /\ c.buf[2] \in Slot /\ c.bank \in Banks
<1>1. c \in Programs
  BY RunningOf
<1>2. c.buf \in HostBufs
  BY <1>1 DEF Programs, OfHost, Kept, PageBufs, GcBufs, LOG_BUF, OW_LOG_BUF, FTL_BUF, GC_BUF
<1> QED
  BY <1>1, <1>2 DEF HostBufs, WR_BUF, Programs

LEMMA AheadIn ==
    ASSUME NEW i \in Slot, limit \in Slot
    PROVE  Ahead(i) \in Slot
<1>1. (i + NumWrBufs - limit) % NumWrBufs \in 0 .. NumWrBufs - 1
  BY RingSize DEF Slot
<1> QED
  BY <1>1 DEF Ahead, Slot

(* The limit passes the buffers that have been read: it stops at the first *)
(* of those that have not, or where the code is.                           *)
LEMMA LimitMoves ==
    ASSUME Types, NEW b \in Banks, TransferHost(b)
    PROVE  LET left == {c.buf[2] : c \in {x \in Untransferred \ {run[b]} : OfHost(x)}} IN
           /\ limit' \in Slot
           /\ left = {} => limit' = Frontier
           /\ left # {} => limit' \in left /\ \A j \in left : Ahead(limit') <= Ahead(j)
<1> DEFINE left == {c.buf[2] : c \in {x \in Untransferred \ {run[b]} : OfHost(x)}}
<1>1. limit' = IF left = {} THEN Frontier ELSE CHOOSE i \in left : \A j \in left : Ahead(i) <= Ahead(j)
  BY DEF TransferHost, Frontier
<1>2. left \subseteq Slot
  BY HostProgram
<1>3. Frontier \in Slot
  BY SlotNext DEF Types, Frontier
<1> HIDE DEF left
<1>4. ASSUME left # {}
      PROVE  limit' \in left /\ \A j \in left : Ahead(limit') <= Ahead(j)
  <2> DEFINE S == {Ahead(i) : i \in left}
  <2>1. \A i \in left : Ahead(i) \in Nat
    <3>1. \A i \in left : Ahead(i) \in Slot
      BY <1>2, AheadIn DEF Types
    <3> QED
      BY <3>1 DEF Slot
  <2>2. S \subseteq Nat /\ S # {}
    BY <2>1, <1>4
  <2>3. PICK x \in S : \A y \in S : x <= y
    BY <2>2, LeastOf
  <2>4. \E i \in left : \A j \in left : Ahead(i) <= Ahead(j)
    BY <2>3
  <2> QED
    BY <2>4, <1>1, <1>4
<1>5. left = {} => limit' = Frontier
  BY <1>1
<1>6. limit' \in Slot
  BY <1>2, <1>3, <1>4, <1>5
<1> QED
  BY <1>4, <1>5, <1>6 DEF left

-----------------------------------------------------------------------------
(* The invariant, from the start on.                                       *)

LEMMA BufStart == Init => BufInv
<1> SUFFICES ASSUME Init PROVE BufInv
  OBVIOUS
<1>1. /\ fcp = Cmd("wait", 0, NoBuf) /\ wr = None
      /\ run = [b \in Banks |-> None] /\ fsm = [b \in Banks |-> "idle"]
      /\ todo = flash_reset /\ resets = 0
      /\ chunkPtr = [x \in PageBufs |-> 0] /\ lastBank = INVALID
      /\ writeId = 0 /\ limit = 0 /\ sata = 0
  BY DEF Init, InitDriver
<1>2. /\ todo \in Seq(Steps) /\ todo # << >> /\ todo[1] = Step("restart")
      /\ Shape(todo) /\ NoFtl1(todo)
      /\ \A k \in DOMAIN todo : todo[k].do = "regs" => ~OfHost(todo[k].cmd)
  BY <1>1, ResetCode
<1>3. \A s : At(s) <=> s = "restart"
  BY <1>2, AtFirst DEF Step
<1>4. Untransferred = {}
  BY <1>1 DEF Untransferred
<1>5. \A c : ~Pending(c)
  BY <1>3, <1>4 DEF Pending, IssueNext
<1>6. HeadOk
  BY <1>3 DEF HeadOk
<1>7. HostSlot
  BY <1>2 DEF HostSlot
<1>8. ReadAwaited
  <2>1. \A c \in Reads : c # None
    BY DEF Reads, None, Cmd
  <2> QED
    BY <2>1, <1>1 DEF ReadAwaited, Reading
<1>9. UsesWait
  BY <1>5 DEF UsesWait
<1>10. OpenKept
  BY <1>1 DEF OpenKept
<1>11. LastKnown
  BY <1>2, <1>5 DEF LastKnown, NoFtl1
<1>12. Types
  <2>1. 0 \in Banks /\ 0 \in Slot /\ MaxResets \in Nat /\ ChunksPerPage \in Nat \ {0}
    <3>1. 0 \in Banks /\ 0 \in Slot
      BY RingSize DEF Banks, Slot
    <3>2. MaxResets \in Nat
      BY BanksAssumption
    <3>3. ChunksPerPage \in Nat \ {0}
      BY ClientsAssumption
    <3> QED
      BY <3>1, <3>2, <3>3
  <2>2. Cmd("wait", 0, NoBuf) \in Commands
    BY <2>1 DEF Cmd, Commands, Plain
  <2>3. chunkPtr \in [PageBufs -> 0 .. ChunksPerPage - 1] /\ resets \in 0 .. MaxResets
    BY <2>1, <1>1
  <2> QED
    BY <2>1, <2>2, <2>3, <1>1, <1>2 DEF Types
<1> QED
  BY <1>2, <1>6, <1>7, <1>8, <1>9, <1>10, <1>11, <1>12 DEF BufInv

LEMMA BufStep ==
    ASSUME BufInv, [Next]_vars
    PROVE  BufInv'
<1>1. CASE Processor
  <2>1. CASE (SetRegs \/ Issue \/ Waited \/ BankIdle \/ Finished \/ Returned \/ Restart) /\ UNCHANGED clients
    BY <2>1, SetRegsPop, IssuePop, WaitedPop, StepsPop, RestartPop
  <2>2. CASE CopyStep \/ NextIdStep \/ SyncStep \/ ReleaseStep \/ LastChunk
    BY <2>2, StepsPop
  <2>3. CASE AdvanceStep
    BY <2>3, AdvanceKeeps
  <2>4. CASE NextChunk
    BY <2>4, NextChunkKeeps
  <2>5. CASE NextPage
    BY <2>5, NextPageKeeps
  <2>6. CASE NextMove
    BY <2>6, NextMoveKeeps
  <2> QED
    BY <2>1, <2>2, <2>3, <2>4, <2>5, <2>6, <1>1 DEF Processor
<1>2. CASE Begin
  BY <1>2, BeginKeeps
<1>3. CASE Controller /\ UNCHANGED clients
  BY <1>3, AcceptKeeps, EndKeeps DEF Controller
<1>4. ASSUME NEW b \in Banks, GiveUp(b) /\ NoneOfHost /\ UNCHANGED clients
      PROVE  BufInv'
  BY <1>4, GiveUpKeeps
<1>5. CASE HostData
  BY <1>5, HostDataKeeps
<1>6. ASSUME NEW b \in Banks, TransferHost(b)
      PROVE  BufInv'
  <2>1. limit' \in Slot
    BY <1>6, LimitMoves DEF BufInv
  <2>2. Transfer(b) /\ UNCHANGED <<chunkPtr, lastBank, writeId, sata>>
    BY <1>6 DEF TransferHost
  <2> QED
    BY <2>1, <2>2, TransferKeeps
<1>7. ASSUME NEW b \in Banks, TransferOther(b)
      PROVE  BufInv'
  <2>1. Transfer(b) /\ UNCHANGED <<chunkPtr, lastBank, writeId, sata>> /\ limit' = limit
    BY <1>7 DEF TransferOther, clients
  <2>2. limit' \in Slot
    BY <2>1 DEF BufInv, Types
  <2> QED
    BY <2>1, <2>2, TransferKeeps
<1>8. CASE UNCHANGED vars
  <2>1. UNCHANGED <<fcp, wr, run, fsm, todo, loaded, resets, chunkPtr, lastBank, writeId, limit, sata>>
    BY <1>8 DEF vars, driver, clients
  <2>2. Types'
    BY <2>1 DEF BufInv, Types
  <2>3. Untransferred' = Untransferred
    BY <2>1 DEF Untransferred
  <2>4. \A c \in Reads : Reading(c)' => Reading(c)
    BY <2>1 DEF Reading
  <2> QED
    BY <2>1, <2>2, <2>3, <2>4, Still
<1> QED
  BY <1>1, <1>2, <1>3, <1>4, <1>5, <1>6, <1>7, <1>8 DEF Next

LEMMA BufAlways == Spec => []BufInv
  BY BufStart, BufStep, PTL DEF Spec

-----------------------------------------------------------------------------
(* Every variable holds what the code can write into it, in every state:   *)
(* the registers and the Waiting Room hold commands of the wrapper, a bank *)
(* is at a command of its own exactly when BSP_FSM is not idle, and the    *)
(* buffers' numbers stay in the ring.                                      *)
THEOREM ClientsTypeCorrect == Spec => []TypeOK
<1>1. BufInv => TypeOK
  <2> SUFFICES ASSUME Types PROVE TypeOK
    BY DEF BufInv
  <2>1. fcp.op \in {"read", "program", "erase", "generic", "wait"}
    BY DEF Types, Commands, Programs, Reads, Plain
  <2>2. \A b \in Banks : (fsm[b] = "idle") = (run[b] = None)
    BY DEF Types
  <2>3. wr = None \/ wr.bank \in Banks
    BY DEF Types, Commands, Programs, Reads, Plain
  <2>4. {writeId, limit, sata} \subseteq 0 .. NumWrBufs - 1
    BY DEF Types, Slot
  <2> QED
    BY <2>1, <2>2, <2>3, <2>4 DEF Types, TypeOK
<1> QED
  BY <1>1, BufAlways, PTL

LEMMA KeptOf ==
    ASSUME NEW c \in Programs, c.buf[1] \in {"LOG", "OW", "FTL", "TEMP"}
    PROVE  c.buf \in Kept
  BY DEF Programs, GcBufs, HostBufs, GC_BUF, WR_BUF

(* The buffers of the translation layer are not disturbed: whatever mix of *)
(* writes, overwrites, reads, trims, collections and erases is asked for,  *)
(* and whichever bank is slow, LOG_BUF, OW_LOG_BUF and FTL_BUF are never   *)
(* filled, by the processor or by a read, while a program has still to be  *)
(* read from them, and never copied from while a read fills them.  The     *)
(* waits of write.c, overwrite.c and read.c are enough: waitBusyBank of    *)
(* the bank a buffer belongs to, lastBankUsingFtlBuf1, flash_finish.       *)
THEOREM BuffersStayKept == Spec => []BuffersKept
<1>1. ASSUME BufInv PROVE BuffersKept
  <2> DEFINE k == {"LOG", "OW", "FTL", "TEMP"}
  <2>1. Types /\ todo \in Seq(Steps)
    BY <1>1 DEF BufInv, Types
  <2>2. ASSUME NEW x, x \in Sources, x[1] \in k
        PROVE  \E c \in Programs : c \in Untransferred /\ c.buf = x /\ x \in Kept /\ Pending(c)
    <3>1. PICK c \in Untransferred : c.buf = x
      BY <2>2 DEF Sources
    <3>2. c \in Programs
      BY <2>1, RunningOf
    <3> QED
      BY <3>1, <3>2, <2>2, KeptOf DEF Pending
  <2>3. ASSUME NEW x, x \in Targets
        PROVE  \E c \in Reads : Reading(c) /\ c.buf = x
    <3>1. PICK b \in Banks : fsm[b] # "idle" /\ run[b].op = "read" /\ run[b].buf = x
      BY <2>3 DEF Targets
    <3>2. run[b] \in Commands
      BY <2>1, <3>1 DEF Types
    <3>3. run[b] \in Reads
      BY <3>1, <3>2 DEF Commands, Programs, Plain
    <3> QED
      BY <3>1, <3>3 DEF Reading
  <2>4. ASSUME NEW x, x \in Sources, x[1] \in k, x \in Targets
        PROVE  FALSE
    <3>1. PICK c \in Programs : c.buf = x /\ x \in Kept /\ Pending(c)
      BY <2>2, <2>4
    <3>2. PICK d \in Reads : Reading(d) /\ d.buf = x
      BY <2>3, <2>4
    <3>3. PICK j \in DOMAIN todo : /\ todo[j] = Return(d.bank, d.buf)
                                   /\ \A i \in 1 .. j - 1 : todo[i].do # "idle"
      BY <3>2, <1>1 DEF BufInv, ReadAwaited
    <3>4. Uses(todo[j], c.buf)
      BY <3>1, <3>2, <3>3 DEF Uses, Return
    <3>5. PICK i \in 1 .. j - 1 : todo[i] = Await("idle", c.bank)
      BY <3>1, <3>4, <1>1 DEF BufInv, UsesWait
    <3> QED
      BY <3>3, <3>5 DEF Await
  <2>5. ASSUME At("copy")
        PROVE  /\ ~(Next1.dst \in Sources /\ Next1.dst[1] \in k)
               /\ Targets = {}
    <3>1. todo # << >> /\ todo[1].do = "copy" /\ Next1 = todo[1]
      BY <2>1, <2>5, AtFirst, FirstAndRest DEF Next1
    <3>2. ~At("accept") /\ ~At("done") /\ ~At("restart")
      BY <2>5 DEF At
    <3>3. Targets = {}
      BY <3>2, <2>3, <1>1, NoReads
    <3>4. ASSUME Next1.dst \in Sources, Next1.dst[1] \in k
          PROVE  FALSE
      <4>1. PICK c \in Programs : c.buf = Next1.dst /\ c.buf \in Kept /\ Pending(c)
        BY <3>4, <2>2
      <4>2. Uses(todo[1], c.buf)
        BY <4>1, <3>1 DEF Uses
      <4> QED
        BY <4>1, <4>2, <3>1, <1>1, NotUsedNext
    <3> QED
      BY <3>3, <3>4
  <2> QED
    BY <2>4, <2>5 DEF BuffersKept, Undisturbed
<1> QED
  BY <1>1, BufAlways, PTL

-----------------------------------------------------------------------------
(* The ring of the write buffers.                                          *)

LEMMA ModOnce ==
    ASSUME NEW n \in Nat, n > 0, NEW x \in 0 .. n + n - 1
    PROVE  x % n = IF x < n THEN x ELSE x - n
<1>1. x = n * (x \div n) + (x % n) /\ x % n \in 0 .. n - 1 /\ x \div n \in Int
  OBVIOUS
<1> DEFINE q == x \div n
           r == x % n
<1>2. x = n * q + r /\ r \in 0 .. n - 1 /\ q \in Int
  BY <1>1
<1> HIDE DEF q, r
<1>3. q >= 0
  <2>1. q <= -1 => n * q <= -n
    BY <1>2
  <2> QED
    BY <2>1, <1>2
<1>4. q <= 1
  <2>1. q >= 2 => n * q >= n + n
    BY <1>2
  <2> QED
    BY <2>1, <1>2
<1>5. q = 0 \/ q = 1
  BY <1>2, <1>3, <1>4
<1>6. (q = 0 => n * q = 0) /\ (q = 1 => n * q = n)
  BY <1>2
<1>7. r = IF x < n THEN x ELSE x - n
  BY <1>2, <1>5, <1>6
<1> QED
  BY <1>7 DEF r

(* How far it is from l to i.                                              *)
Dist(i, l) == IF i >= l THEN i - l ELSE i + NumWrBufs - l

LEMMA DistIs ==
    ASSUME NEW i \in Slot, NEW l \in Slot
    PROVE  (i + NumWrBufs - l) % NumWrBufs = Dist(i, l) /\ Dist(i, l) \in Slot
<1>1. i + NumWrBufs - l \in 0 .. NumWrBufs + NumWrBufs - 1 /\ (i + NumWrBufs - l < NumWrBufs <=> i < l)
  BY RingSize DEF Slot
<1>2. (i + NumWrBufs - l) % NumWrBufs = IF i + NumWrBufs - l < NumWrBufs THEN i + NumWrBufs - l
                                        ELSE (i + NumWrBufs - l) - NumWrBufs
  <2> DEFINE x == i + NumWrBufs - l
  <2>1. x \in 0 .. NumWrBufs + NumWrBufs - 1
    BY <1>1
  <2> HIDE DEF x
  <2>2. x % NumWrBufs = IF x < NumWrBufs THEN x ELSE x - NumWrBufs
    BY <2>1, RingSize, ModOnce
  <2> QED
    BY <2>2 DEF x
<1>3. Dist(i, l) \in Slot
  BY RingSize DEF Slot, Dist
<1> QED
  BY <1>1, <1>2, <1>3, RingSize DEF Dist, Slot

LEMMA NextIs ==
    ASSUME NEW i \in Slot
    PROVE  NextId(i) = IF i = NumWrBufs - 1 THEN 0 ELSE i + 1
<1>1. i + 1 \in 0 .. NumWrBufs + NumWrBufs - 1
  BY RingSize DEF Slot
<1>2. (i + 1) % NumWrBufs = IF i + 1 < NumWrBufs THEN i + 1 ELSE (i + 1) - NumWrBufs
  <2> DEFINE x == i + 1
  <2>1. x \in 0 .. NumWrBufs + NumWrBufs - 1
    BY <1>1
  <2> HIDE DEF x
  <2>2. x % NumWrBufs = IF x < NumWrBufs THEN x ELSE x - NumWrBufs
    BY <2>1, RingSize, ModOnce
  <2> QED
    BY <2>2 DEF x
<1> QED
  BY <1>2, RingSize DEF Slot, NextId

LEMMA DistZero ==
    ASSUME NEW l \in Slot
    PROVE  Dist(l, l) = 0
BY RingSize DEF Slot, Dist

LEMMA AheadDist ==
    ASSUME Types
    PROVE  /\ \A i \in Slot : Ahead(i) = Dist(i, limit) /\ Dist(i, limit) \in Slot
           /\ Frontier \in Slot /\ limit \in Slot /\ writeId \in Slot
<1>1. limit \in Slot /\ writeId \in Slot
  BY DEF Types
<1> QED
  BY <1>1, DistIs, SlotNext DEF Ahead, Frontier

LEMMA AheadDistNext ==
    ASSUME Types'
    PROVE  \A i \in Slot : (Ahead(i))' = Dist(i, limit')
<1>1. limit' \in Slot
  BY DEF Types
<1> QED
  BY <1>1, DistIs DEF Ahead

(* Buffers seen from d further on.                                         *)
LEMMA DistMoves ==
    ASSUME NEW l \in Slot, NEW m \in Slot, NEW i \in Slot
    PROVE  Dist(i, m) = IF Dist(i, l) >= Dist(m, l) THEN Dist(i, l) - Dist(m, l)
                        ELSE Dist(i, l) + NumWrBufs - Dist(m, l)
BY RingSize DEF Slot, Dist

LEMMA DistNext ==
    ASSUME NEW l \in Slot, NEW i \in Slot
    PROVE  Dist(NextId(i), l) = IF Dist(i, l) = NumWrBufs - 1 THEN 0 ELSE Dist(i, l) + 1
BY NextIs, RingSize DEF Slot, Dist

LEMMA DistSame ==
    ASSUME NEW l \in Slot, NEW i \in Slot, NEW j \in Slot, Dist(i, l) = Dist(j, l)
    PROVE  i = j
BY RingSize DEF Slot, Dist

(* Every distance is that of a buffer.                                     *)
LEMMA DistOf ==
    ASSUME NEW l \in Slot, NEW d \in Slot
    PROVE  \E i \in Slot : Dist(i, l) = d
<1>1. CASE l + d < NumWrBufs
  <2>1. l + d \in Slot /\ Dist(l + d, l) = d
    BY <1>1, RingSize DEF Slot, Dist
  <2> QED
    BY <2>1
<1>2. CASE l + d >= NumWrBufs
  <2>1. l + d - NumWrBufs \in Slot /\ Dist(l + d - NumWrBufs, l) = d
    BY <1>2, RingSize DEF Slot, Dist
  <2> QED
    BY <2>1
<1> QED
  BY <1>1, <1>2, RingSize DEF Slot

(* With the Waiting Room empty, not every buffer up to the one before the  *)
(* limit is taken: there are not as many banks.                            *)
LEMMA RingNotFull ==
    ASSUME Types, RingInv, wr = None
    PROVE  Ahead(Frontier) # NumWrBufs - 1
<1> SUFFICES ASSUME Ahead(Frontier) = NumWrBufs - 1 PROVE FALSE
  OBVIOUS
<1> DEFINE P == (Zone .. NumWrBufs - 2) \cup {0}
           Taken(p) == \E c \in HostUntransferred : Ahead(c.buf[2]) = p
           Bank(p) == CHOOSE b \in Banks : fsm[b] = "before" /\ OfHost(run[b]) /\ Ahead(run[b].buf[2]) = p
<1>1. Zone \in Nat /\ Zone > 0 /\ NumWrBufs - 2 \in Nat /\ Zone <= NumWrBufs - 2 /\ NumWrBufs - 2 - Zone + 1 = NumBanks
  BY RingSize DEF Zone
<1>2. IsFiniteSet(P) /\ Cardinality(P) = NumBanks + 1
  <2>1. IsFiniteSet(Zone .. NumWrBufs - 2) /\ Cardinality(Zone .. NumWrBufs - 2) = NumBanks
    BY <1>1, FS_Interval
  <2>2. 0 \notin Zone .. NumWrBufs - 2
    BY <1>1
  <2> QED
    BY <2>1, <2>2, FS_AddElement
<1>3. IsFiniteSet(Banks) /\ Cardinality(Banks) = NumBanks
  <2>1. 0 \in Int /\ NumBanks - 1 \in Int /\ ~(0 > NumBanks - 1) /\ NumBanks - 1 - 0 + 1 = NumBanks
    BY RingSize
  <2> QED
    BY <2>1, FS_Interval DEF Banks
<1>4. ASSUME NEW p \in P PROVE Taken(p)
  <2>1. limit \in Slot /\ Frontier \in Slot
    BY AheadDist
  <2>2. limit # Frontier
    <3>1. Ahead(limit) = 0
      BY <2>1, AheadDist, RingSize DEF Dist, Slot
    <3> QED
      BY <3>1, RingSize
  <2>3. CASE p = 0
    <3>1. PICK c \in HostUntransferred : c.buf = WR_BUF(limit)
      BY <2>2 DEF RingInv
    <3>2. Ahead(c.buf[2]) = 0
      BY <3>1, <2>1, AheadDist, RingSize DEF Dist, Slot, WR_BUF
    <3> QED
      BY <3>2, <2>3
  <2>4. CASE p \in Zone .. NumWrBufs - 2
    <3>1. p \in Slot
      BY <2>4, <1>1, RingSize DEF Slot
    <3>2. PICK i \in Slot : Dist(i, limit) = p
      BY <3>1, <2>1, DistOf
    <3>3. Ahead(i) = p
      BY <3>2, AheadDist
    <3>4. Zone <= Ahead(i) /\ Ahead(i) < Ahead(Frontier)
      BY <3>3, <2>4, <1>1, RingSize
    <3>5. PICK c \in HostUntransferred : c.buf = WR_BUF(i)
      BY <3>4 DEF RingInv
    <3>6. c.buf[2] = i
      BY <3>5 DEF WR_BUF
    <3> QED
      BY <3>3, <3>6
  <2> QED
    BY <2>3, <2>4
<1>5. ASSUME NEW p \in P
      PROVE  Bank(p) \in Banks /\ Ahead(run[Bank(p)].buf[2]) = p
  <2>1. PICK c \in HostUntransferred : Ahead(c.buf[2]) = p
    BY <1>4
  <2>2. c \in Untransferred /\ OfHost(c)
    BY DEF HostUntransferred
  <2>3. c.bank \in Banks /\ fsm[c.bank] = "before" /\ run[c.bank] = c
    BY <2>2, RunningOf
  <2>4. \E b \in Banks : fsm[b] = "before" /\ OfHost(run[b]) /\ Ahead(run[b].buf[2]) = p
    BY <2>1, <2>2, <2>3
  <2> QED
    BY <2>4
<1> DEFINE f == [p \in P |-> Bank(p)]
<1> HIDE DEF Bank, P
<1>6. f \in [P -> Banks]
  BY <1>5
<1>7. Cardinality(Banks) < Cardinality(P)
  BY <1>2, <1>3, RingSize
<1> HIDE DEF f
<1>8. PICK x, y \in P : x # y /\ f[x] = f[y]
  BY <1>2, <1>3, <1>6, <1>7, FS_PigeonHole
<1>9. Bank(x) = Bank(y)
  BY <1>8 DEF f
<1> QED
  BY <1>5, <1>8, <1>9

LEMMA RingSame ==
    ASSUME RingInv, HostUntransferred' = HostUntransferred, limit' = limit, Frontier' = Frontier
    PROVE  RingInv'
BY DEF RingInv, Ahead

(* Where the step to the next buffer can be.                               *)
LEMMA NextIdWhere ==
    ASSUME BufInv, HostInv, todo # << >>, NEW k \in DOMAIN todo, todo[k].do = "nextId"
    PROVE  \/ k = 1
           \/ k = 2 /\ todo[1].do = "issue" /\ OfHost(fcp)
           \/ k = 3 /\ todo[1].do = "regs" /\ OfHost(todo[1].cmd)
           \/ k > 3 /\ todo[1].do = "sync"
<1>1. todo \in Seq(Steps) /\ Registers(todo)
  BY DEF BufInv, Types, Shape
<1>2. DOMAIN todo = 1 .. Len(todo) /\ Len(todo) \in Nat
  BY <1>1, LenProperties
<1>3. CASE k = 2
  <2>1. todo[2 - 1].do = "issue"
    BY <1>3 DEF HostInv, HostEnd
  <2>2. At("issue") /\ Len(todo) > 1
    BY <2>1, <1>1, <1>2, <1>3, AtFirst
  <2> QED
    BY <2>1, <2>2, <1>3 DEF HostInv
<1>4. CASE k > 2
  <2>1. todo[k - 2].do = "regs" /\ OfHost(todo[k - 2].cmd) /\ k - 2 \in DOMAIN todo
    BY <1>2, <1>4 DEF HostInv, HostEnd
  <2>2. CASE k = 3
    <3>1. k - 2 = 1
      BY <2>2
    <3> QED
      BY <2>1, <2>2, <3>1
  <2>3. CASE k > 3
    <3>1. \A j \in 1 .. (k - 2) - 1 : todo[j] = Step("sync")
      BY <2>1, <1>1 DEF Registers, OfHostStep
    <3>2. 1 \in 1 .. (k - 2) - 1
      BY <2>3, <1>2
    <3> QED
      BY <3>1, <3>2, <2>3 DEF Step
  <2> QED
    BY <2>2, <2>3, <1>2, <1>4
<1> QED
  BY <1>2, <1>3, <1>4

(* A step of the code that does not issue a program of the host, and does  *)
(* not leave the buffer the code is at.                                    *)
LEMMA HostPop ==
    ASSUME BufInv, HostInv, todo # << >>, todo' = Tail(todo),
           IF todo[1].do = "regs" THEN fcp' = todo[1].cmd ELSE fcp' = fcp,
           \/ \A k \in DOMAIN todo : todo[k].do # "release"
           \/ todo[1].do # "sync" /\ HostUntransferred' \subseteq HostUntransferred
           \/ HostUntransferred' = {},
           \A b \in Banks : fsm'[b] = "before" /\ OfHost(wr') => run'[b] # wr'
    PROVE  /\ HostInv'
           /\ At("nextId")' => todo[1].do = "issue" /\ OfHost(fcp)
<1> DEFINE n == Len(todo)
           r == todo'
<1>1. todo \in Seq(Steps) /\ Registers(todo) /\ Issues(todo) /\ Ends(todo)
  BY DEF BufInv, Types, Shape
<1>2. /\ n \in Nat \ {0} /\ DOMAIN todo = 1 .. n /\ r \in Seq(Steps) /\ DOMAIN r = 1 .. n - 1 /\ Len(r) = n - 1
      /\ \A k \in 1 .. n - 1 : r[k] = todo[k + 1]
  BY <1>1, FirstAndRest
<1>3. r # << >> => n > 1 /\ r[1] = todo[2] /\ 2 \in DOMAIN todo
  <2>1. r # << >> => n - 1 # 0
    BY <1>2, EmptySeq
  <2>2. n > 1 => 1 \in 1 .. n - 1 /\ 2 \in 1 .. n /\ 1 + 1 = 2
    BY <1>2
  <2> QED
    BY <2>1, <2>2, <1>2
<1>4. \A s : At(s)' <=> r # << >> /\ r[1].do = s
  BY <1>2, AtFirstNext
<1>5. \A s : At(s) <=> todo[1].do = s
  BY <1>1, AtFirst
<1> HIDE DEF n, r
<1>6. \A k \in 1 .. n - 1 : k + 1 \in DOMAIN todo /\ r[k] = todo[k + 1]
  BY <1>2
<1>7. (\E k \in DOMAIN r : r[k].do = "release") => HostUntransferred' = {}
  BY <1>2, <1>5, <1>6 DEF HostInv
<1>8. ~At("restart")'
  <2>1. 2 \in DOMAIN todo /\ todo[2].do = "restart" => 2 = 1
    BY <1>1 DEF Ends
  <2> QED
    BY <2>1, <1>3, <1>4
<1>9. HostEnd(r)
  <2> SUFFICES ASSUME NEW k \in 1 .. n - 1, r[k].do = "nextId", k > 1
               PROVE  /\ r[k - 1].do = "issue"
                      /\ k > 2 => r[k - 2].do = "regs" /\ OfHost(r[k - 2].cmd)
    BY <1>2 DEF HostEnd
  <2>1. /\ k + 1 \in DOMAIN todo /\ todo[k + 1].do = "nextId" /\ k + 1 > 2 /\ k + 1 > 1
        /\ (k + 1) - 1 = k /\ (k + 1) - 2 = k - 1
    BY <1>2, <1>6
  <2>2. todo[k].do = "issue" /\ todo[k - 1].do = "regs" /\ OfHost(todo[k - 1].cmd)
    <3>1. todo[(k + 1) - 1].do = "issue" /\ todo[(k + 1) - 2].do = "regs" /\ OfHost(todo[(k + 1) - 2].cmd)
      BY <2>1 DEF HostInv, HostEnd
    <3> QED
      BY <3>1, <2>1
  <2>3. k - 1 \in 1 .. n - 1 /\ (k - 1) + 1 = k
    BY <1>2
  <2>4. r[k - 1] = todo[k]
    BY <2>3, <1>6
  <2>5. k > 2 => r[k - 2] = todo[k - 1]
    <3>1. k > 2 => k - 2 \in 1 .. n - 1 /\ (k - 2) + 1 = k - 1
      BY <1>2
    <3> QED
      BY <3>1, <1>6
  <2> QED
    BY <2>2, <2>4, <2>5
<1>10. ASSUME At("issue")', Len(r) > 1, r[2].do = "nextId"
       PROVE  OfHost(fcp')
  <2>1. 2 \in 1 .. n - 1 /\ 2 + 1 = 3 /\ 2 \in DOMAIN todo
    BY <1>2, <1>3, <1>4, <1>10
  <2>2. 3 \in DOMAIN todo /\ todo[3].do = "nextId" /\ todo[2].do = "issue"
    BY <2>1, <1>3, <1>4, <1>6, <1>10
  <2>3. (todo[1].do = "regs" /\ OfHost(todo[1].cmd)) \/ todo[1].do = "sync"
    BY <2>2, NextIdWhere
  <2>4. todo[1].do \in {"regs", "finish"}
    <3>1. 2 > 1 /\ 2 - 1 = 1
      OBVIOUS
    <3>2. todo[2 - 1].do \in {"regs", "finish"}
      BY <3>1, <2>1, <2>2, <1>1 DEF Issues
    <3> QED
      BY <3>1, <3>2
  <2> QED
    BY <2>3, <2>4
<1>11. ASSUME At("nextId")'
       PROVE  todo[1].do = "issue" /\ OfHost(fcp)
  <2>1. 2 \in DOMAIN todo /\ todo[2].do = "nextId"
    BY <1>3, <1>4, <1>11
  <2> QED
    BY <2>1, NextIdWhere
<1>12. HostInv'
  BY <1>7, <1>8, <1>9, <1>10 DEF HostInv, r
<1> QED
  BY <1>11, <1>12

(* The code is at a buffer whose turn it is when it need not be waited     *)
(* for: no program is under way from one.                                  *)
LEMMA HostSynced ==
    ASSUME BufInv, RingInv, At("sync"), writeId = limit
    PROVE  HostUntransferred = {}
<1>1. Types /\ Frontier = writeId
  <2>1. ~At("nextId")
    BY DEF At
  <2> QED
    BY <2>1 DEF BufInv, Frontier
<1>2. limit \in Slot /\ Ahead(limit) = 0
  <2>1. limit \in Slot /\ Ahead(limit) = Dist(limit, limit)
    BY <1>1, AheadDist
  <2> QED
    BY <2>1, RingSize DEF Dist, Slot
<1>3. ASSUME NEW c \in HostUntransferred PROVE FALSE
  <2>1. c \in Untransferred /\ OfHost(c)
    BY DEF HostUntransferred
  <2>2. c.buf[2] \in Slot
    BY <2>1, <1>1, HostProgram
  <2>3. Ahead(c.buf[2]) \in Nat
    BY <2>2, <1>1, AheadDist DEF Slot
  <2> QED
    BY <2>3, <1>1, <1>2 DEF RingInv
<1> QED
  BY <1>3

LEMMA HostPlainPop ==
    ASSUME BufInv, HostInv, RingInv, todo # << >>, todo' = Tail(todo),
           IF todo[1].do = "regs" THEN fcp' = todo[1].cmd ELSE fcp' = fcp,
           todo[1].do \notin {"nextId", "release"},
           ~(todo[1].do = "issue" /\ OfHost(fcp)),
           todo[1].do = "sync" => writeId = limit,
           HostUntransferred' = HostUntransferred, limit' = limit, writeId' = writeId,
           \A b \in Banks : fsm'[b] = "before" /\ OfHost(wr') => run'[b] # wr'
    PROVE  HostInv' /\ RingInv'
<1>1. \A s : At(s) <=> todo[1].do = s
  BY AtFirst DEF BufInv, Types
<1>2. todo[1].do = "sync" => HostUntransferred' = {}
  BY <1>1, HostSynced
<1>3. HostInv' /\ ~At("nextId")'
  BY <1>2, HostPop
<1>4. Frontier' = Frontier
  BY <1>1, <1>3 DEF Frontier
<1> QED
  BY <1>3, <1>4, RingSame

LEMMA HostSteps ==
    ASSUME BufInv, HostInv, RingInv,
           \/ CopyStep \/ SyncStep \/ LastChunk
           \/ (SetRegs \/ Waited \/ BankIdle \/ Finished \/ Returned) /\ UNCHANGED clients
    PROVE  HostInv' /\ RingInv'
<1>1. todo \in Seq(Steps)
  BY DEF BufInv, Types
<1>2. \A s : At(s) <=> todo # << >> /\ todo[1].do = s
  BY <1>1, AtFirst
<1>3. todo # << >> => Head(todo) = todo[1]
  BY <1>1, FirstAndRest
<1>4. UNCHANGED <<wr, run, fsm, writeId, limit>> /\ todo' = Tail(todo)
  BY DEF CopyStep, SyncStep, LastChunk, SetRegs, Waited, BankIdle, Finished, Returned, Pop, clients
<1>5. HostUntransferred' = HostUntransferred
  BY <1>4 DEF HostUntransferred, Untransferred
<1>6. todo # << >> /\ todo[1].do \notin {"nextId", "release", "issue"}
  BY <1>2 DEF CopyStep, SyncStep, LastChunk, SetRegs, Waited, BankIdle, Finished, Returned
<1>7. todo[1].do = "sync" => writeId = limit
  BY <1>2, <1>6 DEF CopyStep, SyncStep, LastChunk, SetRegs, Waited, BankIdle, Finished, Returned
<1>8. IF todo[1].do = "regs" THEN fcp' = todo[1].cmd ELSE fcp' = fcp
  BY <1>2, <1>3, <1>6 DEF CopyStep, SyncStep, LastChunk, SetRegs, Waited, BankIdle, Finished, Returned, Next1
<1>9. \A b \in Banks : fsm'[b] = "before" /\ OfHost(wr') => run'[b] # wr'
  BY <1>4 DEF HostInv
<1> QED
  BY <1>4, <1>5, <1>6, <1>7, <1>8, <1>9, HostPlainPop

(* A command is issued. *)
LEMMA HostIssue ==
    ASSUME BufInv, HostInv, RingInv, Issue, UNCHANGED clients
    PROVE  HostInv' /\ RingInv'
<1>1. todo \in Seq(Steps) /\ Types /\ Ends(todo)
  BY DEF BufInv, Types, Shape
<1>2. \A s : At(s) <=> todo # << >> /\ todo[1].do = s
  BY <1>1, AtFirst
<1>3. /\ todo # << >> /\ todo[1].do = "issue" /\ At("issue") /\ wr = None /\ wr' = fcp /\ todo' = Tail(todo)
      /\ UNCHANGED <<fcp, run, fsm, limit, writeId>>
  BY <1>2 DEF Issue, Pop, clients
<1>4. fcp \in Commands
  BY <1>1 DEF Types
<1>5. /\ HostUntransferred \subseteq HostUntransferred'
      /\ \A c \in HostUntransferred' : c \in HostUntransferred \/ (c = fcp /\ OfHost(fcp))
  BY <1>3 DEF HostUntransferred, Untransferred
<1>6. CASE ~OfHost(fcp)
  <2>1. HostUntransferred' = HostUntransferred
    BY <1>5, <1>6
  <2> QED
    BY <2>1, <1>3, <1>6, HostPlainPop
<1>7. CASE OfHost(fcp)
  <2>1. /\ Len(todo) > 1 /\ todo[2] = Step("nextId") /\ fcp.buf[2] = writeId
    BY <1>3, <1>7 DEF BufInv, HeadOk
  <2>2. fcp \in Programs
    BY <1>4, <1>7 DEF Commands, Reads, Plain, OfHost, Targeted, PageBufs, GcBufs, LOG_BUF, OW_LOG_BUF, GC_BUF,
                      FTL_BUF, TempBuf, NoBuf
  <2>3. fcp.buf = WR_BUF(writeId)
    <3>1. fcp.buf \in HostBufs
      BY <2>2, <1>7 DEF Programs, OfHost, Kept, PageBufs, GcBufs, LOG_BUF, OW_LOG_BUF, FTL_BUF, GC_BUF
    <3> QED
      BY <3>1, <2>1 DEF HostBufs, WR_BUF
  <2>4. /\ Len(todo) = 2 /\ DOMAIN todo = 1 .. 2 /\ \A k \in DOMAIN todo : todo[k].do # "release"
    <3>1. DOMAIN todo = 1 .. Len(todo) /\ Len(todo) \in Nat
      BY <1>1, LenProperties
    <3>2. 2 \in DOMAIN todo /\ todo[2].do = "nextId"
      BY <3>1, <2>1 DEF Step
    <3>3. Len(todo) = 2
      BY <3>2, <1>1 DEF Ends
    <3>4. \A k \in DOMAIN todo : k = 1 \/ k = 2
      BY <3>1, <3>3
    <3> QED
      BY <3>1, <3>2, <3>3, <3>4, <1>3
  <2>5. At("nextId")'
    <3>1. todo' \in Seq(Steps) /\ Len(todo') = 1 /\ todo'[1] = todo[2]
      <4>1. Len(todo') = Len(todo) - 1 /\ 1 \in 1 .. Len(todo) - 1 /\ todo' \in Seq(Steps)
        BY <1>1, <1>3, <2>4, FirstAndRest
      <4>2. todo'[1] = todo[1 + 1]
        BY <4>1, <1>1, <1>3, FirstAndRest
      <4> QED
        BY <4>1, <4>2, <2>4
    <3>2. todo' # << >>
      BY <3>1, EmptySeq
    <3> QED
      BY <3>1, <3>2, <2>1, AtFirstNext DEF Step
  <2>6. /\ limit \in Slot /\ writeId \in Slot /\ Frontier = writeId
        /\ \A i \in Slot : Ahead(i) = Dist(i, limit) /\ Dist(i, limit) \in Slot
    BY <1>1, <1>2, <1>3, AheadDist DEF Frontier
  <2> DEFINE d == Dist(writeId, limit)
  <2>7. d \in Slot /\ Ahead(writeId) = d /\ d # NumWrBufs - 1
    BY <2>6, <1>1, <1>3, RingNotFull
  <2>8. NextId(writeId) \in Slot /\ Dist(NextId(writeId), limit) = d + 1
    BY <2>6, <2>7, SlotNext, DistNext
  <2>9. (Ahead(Frontier))' = d + 1
    <3>1. Frontier' = NextId(writeId)
      BY <2>5, <1>3 DEF Frontier, NextId
    <3>2. Ahead(NextId(writeId)) = d + 1
      BY <2>6, <2>8
    <3> QED
      BY <3>1, <3>2, <1>3 DEF Ahead
  <2>10. \A i : (Ahead(i))' = Ahead(i)
    BY <1>3 DEF Ahead
  <2>11. fcp \in HostUntransferred'
    <3>1. fcp # None /\ fcp.op = "program"
      BY <2>2 DEF Programs, None, Cmd
    <3> QED
      BY <3>1, <1>3, <1>7 DEF HostUntransferred, Untransferred
  <2> HIDE DEF d
  <2>12. ASSUME NEW c \in HostUntransferred
         PROVE  Ahead(c.buf[2]) \in Nat /\ Ahead(c.buf[2]) < d
    <3>1. c.buf[2] \in Slot
      BY <1>1, HostProgram DEF HostUntransferred
    <3> QED
      BY <3>1, <2>6, <2>7 DEF RingInv, Slot
  <2>13. RingInv'
    <3>1. ASSUME NEW c \in HostUntransferred' PROVE (Ahead(c.buf[2]))' < (Ahead(Frontier))'
      <4>1. (Ahead(c.buf[2]))' = Ahead(c.buf[2])
        BY <2>10
      <4>2. CASE c \in HostUntransferred
        BY <4>1, <4>2, <2>7, <2>9, <2>12 DEF Slot
      <4>3. CASE c = fcp
        BY <4>1, <4>3, <2>1, <2>7, <2>9 DEF Slot
      <4> QED
        BY <4>2, <4>3, <1>5
    <3>2. ASSUME NEW i \in Slot, Zone <= (Ahead(i))', (Ahead(i))' < (Ahead(Frontier))'
          PROVE  \E c \in HostUntransferred' : c.buf = WR_BUF(i)
      <4>1. Ahead(i) = Dist(i, limit) /\ Dist(i, limit) \in Nat /\ Zone <= Ahead(i) /\ Ahead(i) < d + 1
        BY <3>2, <2>6, <2>9, <2>10 DEF Slot
      <4>2. CASE Ahead(i) < d
        <5>1. \E c \in HostUntransferred : c.buf = WR_BUF(i)
          BY <4>1, <4>2, <2>6, <2>7 DEF RingInv
        <5> QED
          BY <5>1, <1>5
      <4>3. CASE Ahead(i) = d
        <5>1. i = writeId
          BY <4>1, <4>3, <2>6, DistSame DEF d
        <5> QED
          BY <5>1, <2>3, <2>11
      <4> QED
        BY <4>1, <4>2, <4>3, <2>7 DEF Slot
    <3>3. \E c \in HostUntransferred' : c.buf = WR_BUF(limit)
      <4>1. CASE limit = writeId
        BY <4>1, <2>3, <2>11
      <4>2. CASE limit # writeId
        <5>1. \E c \in HostUntransferred : c.buf = WR_BUF(limit)
          BY <4>2, <2>6 DEF RingInv
        <5> QED
          BY <5>1, <1>5
      <4> QED
        BY <4>1, <4>2
    <3> QED
      BY <3>1, <3>2, <3>3, <1>3 DEF RingInv
  <2>14. HostInv'
    <3>1. ASSUME NEW b \in Banks, fsm'[b] = "before", OfHost(wr')
          PROVE  run'[b] # wr'
      <4>1. CASE run[b] \in HostUntransferred
        BY <4>1, <2>1, <2>7, <2>12, <1>3 DEF Slot
      <4>2. CASE run[b] \notin HostUntransferred
        <5>1. fcp # None /\ fcp.op = "program"
          BY <2>2 DEF Programs, None, Cmd
        <5> QED
          BY <5>1, <4>2, <3>1, <1>3 DEF HostUntransferred, Untransferred
      <4> QED
        BY <4>1, <4>2
    <3> QED
      BY <3>1, <2>4, <1>3, HostPop
  <2> QED
    BY <2>13, <2>14
<1> QED
  BY <1>6, <1>7

LEMMA HostRestart ==
    ASSUME BufInv, HostInv, RingInv, Restart, UNCHANGED clients
    PROVE  HostInv' /\ RingInv'
<1>1. todo # << >> /\ todo[1].do = "restart"
  BY AtFirst DEF BufInv, Types, Restart
<1>2. /\ todo' = Tail(todo) /\ wr' = None /\ fsm' = [b \in Banks |-> "idle"] /\ UNCHANGED <<fcp, limit, writeId>>
  BY DEF Restart, Pop, clients
<1>3. HostUntransferred = {}
  BY DEF Restart, HostInv
<1>4. HostUntransferred' = {}
  BY <1>2 DEF HostUntransferred, Untransferred
<1>5. \A b \in Banks : fsm'[b] = "before" /\ OfHost(wr') => run'[b] # wr'
  BY <1>2
<1> QED
  BY <1>1, <1>2, <1>3, <1>4, <1>5, HostPlainPop

LEMMA HostNextId ==
    ASSUME BufInv, HostInv, RingInv, NextIdStep
    PROVE  HostInv' /\ RingInv'
<1>1. todo \in Seq(Steps) /\ Ends(todo)
  BY DEF BufInv, Types, Shape
<1>2. todo # << >> /\ todo[1].do = "nextId" /\ At("nextId")
  BY <1>1, AtFirst DEF NextIdStep
<1>3. writeId' = NextId(writeId) /\ todo' = Tail(todo) /\ UNCHANGED <<fcp, wr, run, fsm, limit>>
  BY DEF NextIdStep, Pop
<1>4. todo' = << >>
  <2>1. 1 = Len(todo)
    BY <1>1, <1>2, FirstAndRest DEF Ends
  <2>2. todo' \in Seq(Steps) /\ Len(todo') = Len(todo) - 1
    BY <1>1, <1>2, <1>3, FirstAndRest
  <2> QED
    BY <2>1, <2>2, EmptySeq
<1>5. \A s : ~At(s)'
  BY <1>4 DEF At
<1>6. Frontier' = Frontier /\ HostUntransferred' = HostUntransferred
  BY <1>2, <1>3, <1>5 DEF Frontier, HostUntransferred, Untransferred
<1>7. HostInv'
  <2>1. DOMAIN todo' = {}
    BY <1>4
  <2> QED
    BY <2>1, <1>3, <1>5 DEF HostInv, HostEnd
<1> QED
  BY <1>3, <1>6, <1>7, RingSame

(* Nothing is under way, and the limit is where the code is. *)
LEMMA RingEmpty ==
    ASSUME limit' \in Slot, HostUntransferred' = {}, Frontier' = limit'
    PROVE  RingInv'
<1>1. (Ahead(Frontier))' = 0
  <2>1. (limit' + NumWrBufs - limit') % NumWrBufs = Dist(limit', limit')
    BY DistIs
  <2>2. (Ahead(limit))' = 0
    BY <2>1, DistZero DEF Ahead
  <2> QED
    BY <2>2 DEF Ahead
<1>2. ASSUME NEW i \in Slot PROVE ~((Ahead(i))' < (Ahead(Frontier))')
  <2>1. (Ahead(i))' \in Nat
    <3>1. (i + NumWrBufs - limit') % NumWrBufs \in Slot
      BY DistIs
    <3> QED
      BY <3>1 DEF Ahead, Slot
  <2> QED
    BY <2>1, <1>1
<1> QED
  BY <1>2 DEF RingInv

LEMMA HostRelease ==
    ASSUME BufInv, BufInv', HostInv, RingInv, ReleaseStep
    PROVE  HostInv' /\ RingInv'
<1>1. todo \in Seq(Steps) /\ Ends(todo)
  BY DEF BufInv, Types, Shape
<1>2. todo # << >> /\ todo[1].do = "release" /\ 1 \in DOMAIN todo
  BY <1>1, AtFirst, FirstAndRest DEF ReleaseStep
<1>3. limit' = writeId' /\ todo' = Tail(todo) /\ UNCHANGED <<fcp, wr, run, fsm>>
  BY DEF ReleaseStep, Pop
<1>4. todo' = << >>
  <2>1. 1 = Len(todo)
    BY <1>1, <1>2 DEF Ends
  <2>2. todo' \in Seq(Steps) /\ Len(todo') = Len(todo) - 1
    BY <1>1, <1>2, <1>3, FirstAndRest
  <2> QED
    BY <2>1, <2>2, EmptySeq
<1>5. \A s : ~At(s)'
  BY <1>4 DEF At
<1>6. HostUntransferred = {}
  <2>1. ~At("sync")
    BY DEF ReleaseStep, At
  <2> QED
    BY <2>1, <1>2 DEF HostInv
<1>7. HostUntransferred' = {} /\ Frontier' = limit'
  <2>1. HostUntransferred' = HostUntransferred
    BY <1>3 DEF HostUntransferred, Untransferred
  <2> QED
    BY <2>1, <1>3, <1>5, <1>6 DEF Frontier
<1>8. HostInv'
  <2>1. DOMAIN todo' = {}
    BY <1>4
  <2> QED
    BY <2>1, <1>3, <1>5, <1>7 DEF HostInv, HostEnd
<1>9. limit' \in Slot
  BY DEF BufInv, Types
<1> QED
  BY <1>7, <1>8, <1>9, RingEmpty

(* Code is put in place of the first step, or begins. *)
LEMMA HostCode ==
    ASSUME HostInv, RingInv, ~At("nextId"), todo' \in Seq(Steps),
           UNCHANGED <<fcp, wr, run, fsm, writeId, limit>>,
           HostEnd(todo'),
           todo' # << >> => todo'[1].do \notin {"nextId", "restart", "issue"},
           (\E k \in DOMAIN todo' : todo'[k].do = "release") => HostUntransferred = {} \/ (todo' # << >> /\ todo'[1].do = "sync")
    PROVE  HostInv' /\ RingInv'
<1>1. \A s : At(s)' <=> todo' # << >> /\ todo'[1].do = s
  BY AtFirstNext
<1>2. HostUntransferred' = HostUntransferred
  BY DEF HostUntransferred, Untransferred
<1>3. ~At("nextId")' /\ ~At("restart")' /\ ~At("issue")'
  BY <1>1
<1>4. (\E k \in DOMAIN todo' : todo'[k].do = "release") /\ ~At("sync")' => HostUntransferred' = {}
  BY <1>1, <1>2
<1>5. HostInv'
  BY <1>3, <1>4 DEF HostInv
<1>6. Frontier' = Frontier
  BY <1>3 DEF Frontier
<1> QED
  BY <1>2, <1>5, <1>6, RingSame

LEMMA HostBegins ==
    ASSUME BufInv, HostInv, RingInv, Begin
    PROVE  HostInv' /\ RingInv'
<1>1. Fresh(todo', writeId)
  BY BeginKeeps
<1>2. UNCHANGED <<fcp, wr, run, fsm, writeId, limit>>
  BY DEF Begin, clients
<1>3. ~At("nextId")
  BY DEF Begin, At
<1>4. /\ todo' \in Seq(Steps) /\ todo' # << >> /\ HostEnd(todo') /\ todo'[1].do \notin {"nextId", "restart", "issue"}
      /\ (\E k \in DOMAIN todo' : todo'[k].do = "release") => todo'[1].do = "sync"
  BY <1>1 DEF Fresh, NoRelease
<1> QED
  BY <1>2, <1>3, <1>4, HostCode

LEMMA InnerHost ==
    ASSUME NEW t, Inner(t)
    PROVE  t \in Seq(Steps) /\ HostEnd(t) /\ (t # << >> => t[1].do \notin {"nextId", "restart", "issue"})
<1>1. t \in Seq(Steps) /\ \A k \in DOMAIN t : t[k].do \notin {"restart", "nextId"}
  BY DEF Inner
<1>2. t # << >> => 1 \in DOMAIN t
  BY <1>1, FirstAndRest
<1> QED
  BY <1>1, <1>2 DEF HostEnd, Inner

LEMMA HostCodeNext ==
    ASSUME BufInv, HostInv, RingInv, NextChunk \/ NextPage \/ NextMove
    PROVE  HostInv' /\ RingInv'
<1>1. UNCHANGED <<fcp, wr, run, fsm, writeId, limit>>
  BY DEF NextChunk, NextPage, NextMove, clients
<1>2. ~At("nextId")
  BY DEF NextChunk, NextPage, NextMove, At
<1>3. Inner(todo')
  BY NextChunkKeeps, NextPageKeeps, NextMoveKeeps DEF Apart
<1>4. (\E k \in DOMAIN todo' : todo'[k].do = "release") => HostUntransferred = {}
  <2>1. CASE NextChunk
    <3>1. \E k \in DOMAIN todo : todo[k].do = "release"
      BY <2>1, NextChunkKeeps
    <3>2. ~At("sync")
      BY <2>1 DEF NextChunk, At
    <3> QED
      BY <3>1, <3>2 DEF HostInv
  <2>2. CASE NextPage
    BY <2>2, NextPageKeeps DEF Apart, NoRelease
  <2>3. CASE NextMove
    BY <2>3, NextMoveKeeps DEF NoRelease
  <2> QED
    BY <2>1, <2>2, <2>3
<1>5. todo' \in Seq(Steps) /\ HostEnd(todo') /\ (todo' # << >> => todo'[1].do \notin {"nextId", "restart", "issue"})
  BY <1>3, InnerHost
<1> QED
  BY <1>1, <1>2, <1>4, <1>5, HostCode

LEMMA HostAdvance ==
    ASSUME BufInv, HostInv, RingInv, AdvanceStep
    PROVE  HostInv' /\ RingInv'
<1> DEFINE x == todo[1].buf
           n == Len(todo)
<1>1. todo \in Seq(Steps) /\ Types /\ Shape(todo)
  BY DEF BufInv, Types
<1>2. todo # << >> /\ todo[1].do = "advance" /\ Next1 = todo[1] /\ todo[1] \in Steps
  BY <1>1, AtFirst, FirstAndRest DEF AdvanceStep, Next1
<1>3. x \in PageBufs /\ todo[1] = Advance(x)
  BY <1>2 DEF Steps, Advance
<1>4. /\ todo' = (IF chunkPtr'[x] = 0 THEN nand_page_program(x[2], x) ELSE << >>) \o Tail(todo)
      /\ UNCHANGED <<fcp, wr, run, fsm, writeId, limit>>
  BY <1>2 DEF AdvanceStep
<1>5. ~At("nextId") /\ ~At("sync")
  BY DEF AdvanceStep, At
<1>6. \A b \in Banks : fsm'[b] = "before" /\ OfHost(wr') => run'[b] # wr'
  BY <1>4 DEF HostInv
<1>7. HostUntransferred' = HostUntransferred
  BY <1>4 DEF HostUntransferred, Untransferred
<1> HIDE DEF x
<1>8. CASE chunkPtr'[x] # 0
  <2>1. todo' = Tail(todo)
    <3>1. Tail(todo) \in Seq(Steps)
      BY <1>1, <1>2, FirstAndRest
    <3>2. todo' = << >> \o Tail(todo)
      BY <1>4, <1>8
    <3> QED
      BY <3>1, <3>2, ConcatEmptySeq
  <2> QED
    BY <2>1, <1>2, <1>4, <1>6, <1>7, HostPlainPop
<1>9. CASE chunkPtr'[x] = 0
  <2> DEFINE u == todo'
             p == Cmd("program", x[2], x)
  <2>1. u = nand_page_program(x[2], x) \o Tail(todo)
    BY <1>4, <1>9
  <2>2. /\ u \in Seq(Steps)
        /\ DOMAIN u = 1 .. n + 1
        /\ u[1] = Regs(p) /\ u[2] = Step("issue")
        /\ \A k \in 2 .. n : u[k + 1] = todo[k]
    BY <2>1, <1>1, <1>2, <1>3, AdvanceShape
  <2> HIDE DEF u, p
  <2>3. n \in Nat /\ DOMAIN todo = 1 .. n
    BY <1>1, <1>2, FirstAndRest
  <2> HIDE DEF n
  <2>4. Regs(p).do = "regs" /\ Step("issue").do = "issue"
    BY DEF Regs, Step
  <2>5. \A k \in DOMAIN u : k = 1 \/ k = 2 \/ \E l \in 2 .. n : k = l + 1 /\ u[k] = todo[l] /\ l \in DOMAIN todo
    <3> SUFFICES ASSUME NEW k \in 1 .. n + 1, k # 1, k # 2
                 PROVE  \E l \in 2 .. n : k = l + 1 /\ u[k] = todo[l] /\ l \in DOMAIN todo
      BY <2>2
    <3>1. k - 1 \in 2 .. n /\ k = (k - 1) + 1
      BY <2>3
    <3>2. u[(k - 1) + 1] = todo[k - 1]
      BY <3>1, <2>2
    <3> QED
      BY <3>1, <3>2, <2>3
  <2>6. ASSUME NEW k \in DOMAIN u, u[k].do = "nextId" PROVE FALSE
    <3>1. PICK l \in 2 .. n : u[k] = todo[l] /\ l \in DOMAIN todo
      BY <2>2, <2>4, <2>5, <2>6
    <3>2. l # 1
      BY <3>1
    <3> QED
      BY <3>1, <3>2, <2>6, <1>2, NextIdWhere
  <2>7. ASSUME NEW k \in DOMAIN u, u[k].do = "release" PROVE HostUntransferred = {}
    <3>1. PICK l \in 2 .. n : u[k] = todo[l] /\ l \in DOMAIN todo
      BY <2>2, <2>4, <2>5, <2>7
    <3> QED
      BY <3>1, <2>7, <1>5 DEF HostInv
  <2>8. HostEnd(u)
    BY <2>6 DEF HostEnd
  <2>9. u[1].do \notin {"nextId", "restart", "issue"}
    BY <2>2, <2>4
  <2> QED
    BY <2>2, <2>7, <2>8, <2>9, <1>4, <1>5, HostCode DEF u
<1> QED
  BY <1>8, <1>9

LEMMA HostGiveUp ==
    ASSUME BufInv, HostInv, RingInv, NEW b \in Banks, GiveUp(b), NoneOfHost, UNCHANGED clients
    PROVE  HostInv' /\ RingInv'
<1>1. todo \in Seq(Steps) /\ Types
  BY DEF BufInv, Types
<1>2. UNCHANGED <<fcp, wr, run, fsm, writeId, limit>>
  BY DEF GiveUp, clients
<1>3. At("issue") \/ At("accept") \/ At("done")
  BY DEF GiveUp
<1>4. todo # << >> /\ todo[1].do \in {"issue", "accept", "done"} /\ ~At("nextId") /\ ~At("sync")
  BY <1>1, <1>3, AtFirst
<1>5. HostUntransferred = {}
  <2> SUFFICES ASSUME NEW c \in Untransferred, OfHost(c) PROVE FALSE
    BY DEF HostUntransferred
  <2>1. c = wr \/ (c.bank \in Banks /\ c = run[c.bank])
    BY <1>1, RunningOf
  <2> QED
    BY <2>1 DEF NoneOfHost
<1>6. todo[1].do = "issue" => ~OfHost(fcp)
  <2>1. todo[1].do = "issue" => At("issue")
    BY <1>1, <1>4, AtFirst
  <2> QED
    BY <2>1 DEF NoneOfHost
<1>7. /\ todo' # << >> /\ todo'[1].do = "restart" /\ todo' \in Seq(Steps)
      /\ \A k \in DOMAIN todo' : todo'[k].do \in {"release", "nextId"} =>
            \E j \in DOMAIN todo : todo[j].do = todo'[k].do
  BY GiveUpKeeps DEF BufInv, Types
<1>8. \A k \in DOMAIN todo' : todo'[k].do # "nextId"
  <2>1. \A j \in DOMAIN todo : todo[j].do # "nextId"
    BY <1>4, <1>6, NextIdWhere
  <2> QED
    BY <2>1, <1>7
<1>9. \A s : At(s)' <=> s = "restart"
  BY <1>7, AtFirstNext
<1>10. HostUntransferred' = HostUntransferred
  BY <1>2 DEF HostUntransferred, Untransferred
<1>11. HostInv'
  BY <1>2, <1>5, <1>8, <1>9, <1>10 DEF HostInv, HostEnd
<1>12. Frontier' = Frontier
  BY <1>2, <1>4, <1>9 DEF Frontier
<1> QED
  BY <1>2, <1>10, <1>11, <1>12, RingSame

(* The controller and the host.                                            *)
LEMMA HostStill ==
    ASSUME HostInv, RingInv, UNCHANGED <<todo, fcp, writeId, limit>>,
           HostUntransferred' = HostUntransferred,
           \A b \in Banks : fsm'[b] = "before" /\ OfHost(wr') => run'[b] # wr'
    PROVE  HostInv' /\ RingInv'
<1>1. \A s : At(s)' <=> At(s)
  BY DEF At, Next1
<1>2. HostInv'
  BY <1>1 DEF HostInv
<1>3. Frontier' = Frontier
  BY <1>1 DEF Frontier, NextId
<1> QED
  BY <1>2, <1>3, RingSame

LEMMA HostController ==
    ASSUME BufInv, HostInv, RingInv,
           \/ Controller /\ UNCHANGED clients
           \/ HostData
           \/ UNCHANGED vars
    PROVE  HostInv' /\ RingInv'
<1>1. UNCHANGED <<todo, fcp, writeId, limit>>
  BY DEF Controller, Accept, End, HostData, vars, driver, clients
<1>2. Types
  BY DEF BufInv
<1>3. ~OfHost(None)
  BY DEF OfHost, None, Cmd, NoBuf
<1>4. CASE Accept /\ UNCHANGED clients
  <2>1. Untransferred' = Untransferred
    BY <1>4, AcceptKeeps
  <2>2. HostUntransferred' = HostUntransferred
    BY <2>1 DEF HostUntransferred
  <2>3. wr' = None
    BY <1>4 DEF Accept
  <2> QED
    BY <2>2, <2>3, <1>1, <1>3, HostStill
<1>5. ASSUME NEW b \in Banks, End(b), UNCHANGED clients
      PROVE  HostInv' /\ RingInv'
  <2>1. Untransferred' = Untransferred
    BY <1>5, EndKeeps
  <2>2. HostUntransferred' = HostUntransferred
    BY <2>1 DEF HostUntransferred
  <2>3. ASSUME NEW a \in Banks, fsm'[a] = "before", OfHost(wr') PROVE run'[a] # wr'
    <3>1. a # b /\ run'[a] = run[a] /\ fsm'[a] = fsm[a] /\ wr' = wr
      BY <2>3, <1>2, <1>5 DEF End, Types
    <3> QED
      BY <3>1, <2>3 DEF HostInv
  <2> QED
    BY <2>2, <2>3, <1>1, HostStill
<1>6. CASE HostData \/ UNCHANGED vars
  <2>1. UNCHANGED <<wr, run, fsm>>
    BY <1>6 DEF HostData, vars, driver
  <2>2. HostUntransferred' = HostUntransferred
    BY <2>1 DEF HostUntransferred, Untransferred
  <2>3. \A a \in Banks : fsm'[a] = "before" /\ OfHost(wr') => run'[a] # wr'
    BY <2>1 DEF HostInv
  <2> QED
    BY <2>2, <2>3, <1>1, HostStill
<1> QED
  BY <1>4, <1>5, <1>6 DEF Controller

(* A bank has read the buffer of a program from the host: the limit moves. *)
LEMMA HostTransfers ==
    ASSUME BufInv, HostInv, NEW b \in Banks, TransferHost(b)
    PROVE  /\ UNCHANGED <<todo, fcp, wr, run, writeId>>
           /\ \A a \in Banks : fsm'[a] = "before" => fsm[a] = "before"
           /\ run[b] \in HostUntransferred
           /\ HostUntransferred' = HostUntransferred \ {run[b]}
<1>1. Types
  BY DEF BufInv
<1>2. /\ fsm[b] = "before" /\ OfHost(run[b]) /\ fsm' = [fsm EXCEPT ![b] = "after"]
      /\ UNCHANGED <<fcp, wr, run, todo, writeId>>
  BY DEF TransferHost, Transfer
<1>3. fsm'[b] = "after" /\ \A a \in Banks : a # b => fsm'[a] = fsm[a]
  BY <1>1, <1>2 DEF Types
<1>4. run[b] # None /\ run[b].op = "program"
  <2>1. ~OfHost(None)
    BY DEF OfHost, None, Cmd, NoBuf
  <2>2. run[b] \in Commands
    BY <2>1, <1>1, <1>2 DEF Types
  <2>3. run[b] \in Programs
    BY <2>2, <1>2 DEF Commands, Reads, Plain, OfHost, Targeted, PageBufs, GcBufs, LOG_BUF, OW_LOG_BUF, GC_BUF,
                      FTL_BUF, TempBuf, NoBuf
  <2> QED
    BY <2>1, <2>3, <1>2 DEF Programs
<1>5. run[b] \in HostUntransferred
  BY <1>2, <1>4 DEF HostUntransferred, Untransferred
<1>6. wr # run[b]
  BY <1>2 DEF HostInv
<1>7. ASSUME NEW a \in Banks, a # b, fsm[a] = "before"
      PROVE  run[a] # run[b]
  <2>1. run[b].bank = b
    BY <1>1, <1>4 DEF Types
  <2>2. run[a] # None => run[a].bank = a
    BY <1>1 DEF Types
  <2> QED
    BY <2>1, <2>2, <1>4, <1>7
<1>8. HostUntransferred' \subseteq HostUntransferred \ {run[b]}
  BY <1>2, <1>3, <1>6, <1>7 DEF HostUntransferred, Untransferred
<1>9. HostUntransferred \ {run[b]} \subseteq HostUntransferred'
  BY <1>2, <1>3 DEF HostUntransferred, Untransferred
<1> QED
  BY <1>2, <1>3, <1>5, <1>8, <1>9

LEMMA HostTransfer ==
    ASSUME BufInv, BufInv', HostInv, RingInv, NEW b \in Banks, TransferHost(b)
    PROVE  HostInv' /\ RingInv'
<1> DEFINE c0 == run[b]
           left == {c.buf[2] : c \in HostUntransferred'}
           l == limit
           m == limit'
           D == Dist(m, l)
           F == Dist(Frontier, l)
<1>1. Types /\ Types'
  BY DEF BufInv
<1>2. /\ UNCHANGED <<todo, fcp, wr, run, writeId>>
      /\ \A a \in Banks : fsm'[a] = "before" => fsm[a] = "before"
      /\ c0 \in HostUntransferred
      /\ HostUntransferred' = HostUntransferred \ {c0}
  BY HostTransfers
<1>3. \A s : At(s)' <=> At(s)
  BY <1>2 DEF At, Next1
<1>4. HostInv'
  BY <1>2, <1>3 DEF HostInv
<1>5. Frontier' = Frontier
  BY <1>2, <1>3 DEF Frontier, NextId
<1>6. /\ m \in Slot
      /\ left = {} => m = Frontier
      /\ left # {} => m \in left /\ \A j \in left : Ahead(m) <= Ahead(j)
  <2>1. left = {c.buf[2] : c \in {x \in Untransferred \ {run[b]} : OfHost(x)}}
    BY <1>2 DEF HostUntransferred
  <2> QED
    BY <2>1, <1>1, LimitMoves
<1>7. /\ l \in Slot /\ Frontier \in Slot /\ \A i \in Slot : Ahead(i) = Dist(i, l) /\ Dist(i, l) \in Nat
  BY <1>1, AheadDist DEF Slot
<1>8. \A i \in Slot : (Ahead(i))' = Dist(i, m)
  BY <1>1, AheadDistNext
<1>9. Ahead(c0.buf[2]) < Zone
  <2>1. InTime(c0.buf[2])
    BY DEF TransferHost
  <2>2. c0.buf[2] \in Slot
    BY <1>1, <1>2, HostProgram DEF HostUntransferred
  <2>3. Ahead(c0.buf[2]) \in Nat
    BY <2>2, <1>7
  <2> QED
    BY <2>1, <2>3, RingSize DEF InTime, Zone
<1> HIDE DEF left
<1>10. CASE left = {}
  <2>1. HostUntransferred' = {}
    BY <1>10 DEF left
  <2> QED
    BY <2>1, <1>4, <1>5, <1>6, <1>10, RingEmpty
<1>11. CASE left # {}
  <2>1. PICK w \in HostUntransferred' : w.buf[2] = m
    BY <1>6, <1>11 DEF left
  <2>2. ASSUME NEW c \in HostUntransferred'
        PROVE  /\ c \in HostUntransferred /\ c.buf = WR_BUF(c.buf[2]) /\ c.buf[2] \in Slot
               /\ D <= Dist(c.buf[2], l) /\ Dist(c.buf[2], l) < F
    <3>1. c \in HostUntransferred /\ c.buf[2] \in left
      BY <1>2 DEF left
    <3>2. c.buf = WR_BUF(c.buf[2]) /\ c.buf[2] \in Slot
      BY <3>1, <1>1, HostProgram DEF HostUntransferred
    <3>3. Ahead(c.buf[2]) < Ahead(Frontier)
      BY <3>1 DEF RingInv
    <3> QED
      BY <3>1, <3>2, <3>3, <1>6, <1>7, <1>11
  <2>3. D \in Nat /\ F \in Nat /\ D < F /\ F < NumWrBufs /\ Zone \in Nat
    <3>1. D < F
      BY <2>1, <2>2
    <3>2. Dist(Frontier, l) \in Slot
      BY <1>7, DistIs
    <3> QED
      BY <3>1, <3>2, <1>6, <1>7, RingSize DEF Slot, Zone
  <2>4. \A i \in Slot : Dist(i, m) = IF Dist(i, l) >= D THEN Dist(i, l) - D ELSE Dist(i, l) + NumWrBufs - D
    BY <1>6, <1>7, DistMoves
  <2>5. (Ahead(Frontier))' = F - D
    <3>1. (Ahead(Frontier))' = Dist(Frontier, m)
      BY <1>5, <1>7, <1>8 DEF Ahead
    <3> QED
      BY <3>1, <2>3, <2>4, <1>7
  <2> HIDE DEF D, F, l, m
  <2>6. ASSUME NEW c \in HostUntransferred' PROVE (Ahead(c.buf[2]))' < (Ahead(Frontier))'
    <3>1. (Ahead(c.buf[2]))' = Dist(c.buf[2], m)
      <4>1. c.buf[2] \in Slot
        BY <2>2
      <4> QED
        BY <4>1, <1>8
    <3>2. Dist(c.buf[2], m) = Dist(c.buf[2], l) - D
      BY <2>2, <2>4
    <3>3. Dist(c.buf[2], l) \in Nat /\ Dist(c.buf[2], l) < F
      BY <2>2, <1>7
    <3> QED
      BY <3>1, <3>2, <3>3, <2>3, <2>5
  <2>7. ASSUME NEW i \in Slot, Zone <= (Ahead(i))', (Ahead(i))' < (Ahead(Frontier))'
        PROVE  \E c \in HostUntransferred' : c.buf = WR_BUF(i)
    <3>1. Zone <= Dist(i, m) /\ Dist(i, m) < F - D
      BY <2>5, <2>7, <1>8
    <3>2. Dist(i, l) \in Nat
      BY <1>7
    <3>3. Dist(i, l) >= D
      BY <3>1, <3>2, <2>3, <2>4, RingSize
    <3>4. Dist(i, l) < F /\ Zone <= Dist(i, l)
      <4>1. Dist(i, m) = Dist(i, l) - D
        BY <3>3, <2>4
      <4> QED
        BY <4>1, <3>1, <3>2, <2>3
    <3>5. Zone <= Ahead(i) /\ Ahead(i) < Ahead(Frontier)
      BY <3>4, <1>7 DEF F, l
    <3>6. PICK c \in HostUntransferred : c.buf = WR_BUF(i)
      BY <3>5 DEF RingInv
    <3>7. c # c0
      <4>1. c.buf[2] = i
        BY <3>6 DEF WR_BUF
      <4> QED
        BY <4>1, <3>2, <3>5, <2>3, <1>7, <1>9
    <3> QED
      BY <3>6, <3>7, <1>2
  <2>8. \E c \in HostUntransferred' : c.buf = WR_BUF(limit')
    BY <2>1, <2>2 DEF m
  <2> QED
    BY <2>6, <2>7, <2>8, <1>4 DEF RingInv
<1> QED
  BY <1>10, <1>11

LEMMA HostOther ==
    ASSUME BufInv, HostInv, RingInv, NEW b \in Banks, TransferOther(b)
    PROVE  HostInv' /\ RingInv'
<1>1. /\ ~OfHost(run[b]) /\ fsm' = [fsm EXCEPT ![b] = "after"] /\ fsm[b] = "before"
      /\ UNCHANGED <<fcp, wr, run, todo, writeId, limit>>
  BY DEF TransferOther, Transfer, clients
<1>2. fsm'[b] = "after" /\ \A a \in Banks : a # b => fsm'[a] = fsm[a]
  BY <1>1 DEF BufInv, Types
<1>3. HostUntransferred' = HostUntransferred
  BY <1>1, <1>2 DEF HostUntransferred, Untransferred
<1>4. \A a \in Banks : fsm'[a] = "before" /\ OfHost(wr') => run'[a] # wr'
  BY <1>1, <1>2 DEF HostInv
<1> QED
  BY <1>1, <1>3, <1>4, HostStill

LEMMA HostStart == Init => HostInv /\ RingInv
<1> SUFFICES ASSUME Init PROVE HostInv /\ RingInv
  OBVIOUS
<1>1. /\ wr = None /\ fsm = [b \in Banks |-> "idle"] /\ todo = flash_reset /\ writeId = 0 /\ limit = 0
  BY DEF Init, InitDriver
<1>2. /\ todo \in Seq(Steps) /\ todo # << >> /\ todo[1] = Step("restart") /\ NoRelease(todo)
      /\ \A k \in DOMAIN todo : todo[k].do # "nextId"
  BY <1>1, ResetCode
<1>3. \A s : At(s) <=> s = "restart"
  BY <1>2, AtFirst DEF Step
<1>4. HostUntransferred = {}
  BY <1>1 DEF HostUntransferred, Untransferred
<1>5. ~OfHost(wr)
  BY <1>1 DEF OfHost, None, Cmd, NoBuf
<1>6. HostInv
  BY <1>2, <1>3, <1>4, <1>5 DEF HostInv, HostEnd, NoRelease
<1>7. Frontier = 0 /\ 0 \in Slot
  BY <1>1, <1>3, RingSize DEF Frontier, Slot
<1>8. ASSUME NEW i \in Slot PROVE ~(Ahead(i) < Ahead(Frontier))
  <2>1. (0 + NumWrBufs - 0) % NumWrBufs = 0 /\ (i + NumWrBufs - 0) % NumWrBufs \in Nat
    BY <1>7, DistIs, DistZero DEF Slot
  <2> QED
    BY <2>1, <1>1, <1>7 DEF Ahead
<1> QED
  BY <1>1, <1>4, <1>6, <1>7, <1>8 DEF RingInv

LEMMA HostStep ==
    ASSUME BufInv, BufInv', HostInv, RingInv, [Next]_vars
    PROVE  HostInv' /\ RingInv'
<1>1. CASE Processor
  <2>1. CASE (SetRegs \/ Waited \/ BankIdle \/ Finished \/ Returned) /\ UNCHANGED clients
    BY <2>1, HostSteps
  <2>2. CASE Issue /\ UNCHANGED clients
    BY <2>2, HostIssue
  <2>3. CASE Restart /\ UNCHANGED clients
    BY <2>3, HostRestart
  <2>4. CASE CopyStep \/ SyncStep \/ LastChunk
    BY <2>4, HostSteps
  <2>5. CASE AdvanceStep
    BY <2>5, HostAdvance
  <2>6. CASE NextIdStep
    BY <2>6, HostNextId
  <2>7. CASE ReleaseStep
    BY <2>7, HostRelease
  <2>8. CASE NextChunk \/ NextPage \/ NextMove
    BY <2>8, HostCodeNext
  <2> QED
    BY <2>1, <2>2, <2>3, <2>4, <2>5, <2>6, <2>7, <2>8, <1>1 DEF Processor
<1>2. CASE Begin
  BY <1>2, HostBegins
<1>3. CASE (Controller /\ UNCHANGED clients) \/ HostData \/ UNCHANGED vars
  BY <1>3, HostController
<1>4. ASSUME NEW b \in Banks, GiveUp(b) /\ NoneOfHost /\ UNCHANGED clients
      PROVE  HostInv' /\ RingInv'
  BY <1>4, HostGiveUp
<1>5. ASSUME NEW b \in Banks, TransferHost(b)
      PROVE  HostInv' /\ RingInv'
  BY <1>5, HostTransfer
<1>6. ASSUME NEW b \in Banks, TransferOther(b)
      PROVE  HostInv' /\ RingInv'
  BY <1>6, HostOther
<1> QED
  BY <1>1, <1>2, <1>3, <1>4, <1>5, <1>6 DEF Next

LEMMA RingAlways == Spec => [](BufInv /\ HostInv /\ RingInv)
<1>1. Init => BufInv /\ HostInv /\ RingInv
  BY BufStart, HostStart
<1>2. BufInv /\ HostInv /\ RingInv /\ [Next]_vars => (BufInv /\ HostInv /\ RingInv)'
  BY BufStep, HostStep
<1> QED
  BY <1>1, <1>2, PTL DEF Spec

(* The limit up to which the host may fill the write buffers never passes  *)
(* a buffer a program has still to be read from: in each state the buffers *)
(* of such programs lie between the limit and the buffer the code is at.   *)
(* syncWithWriteLimit lets the code give a buffer back itself only when    *)
(* there is no such program, and the hardware stops the limit at the first *)
(* one that is left.                                                       *)
THEOREM WriteBuffersStayKept == Spec => []WriteBuffersKept
<1>1. BufInv /\ RingInv => WriteBuffersKept
  <2> SUFFICES ASSUME BufInv, RingInv, NEW c \in Untransferred, OfHost(c)
               PROVE  Ahead(c.buf[2]) <= Ahead(writeId)
    BY DEF WriteBuffersKept
  <2>1. /\ writeId \in Slot /\ limit \in Slot /\ Frontier \in Slot
        /\ \A i \in Slot : Ahead(i) = Dist(i, limit) /\ Dist(i, limit) \in Slot
    BY AheadDist DEF BufInv
  <2>2. c.buf[2] \in Slot
    BY HostProgram DEF BufInv
  <2>3. Ahead(c.buf[2]) < Ahead(Frontier)
    BY DEF RingInv, HostUntransferred
  <2>4. CASE ~At("nextId")
    <3>1. Frontier = writeId
      BY <2>4 DEF Frontier
    <3> QED
      BY <3>1, <2>1, <2>2, <2>3 DEF Slot
  <2>5. CASE At("nextId")
    <3>1. Frontier = NextId(writeId)
      BY <2>5 DEF Frontier
    <3>2. Dist(Frontier, limit) = IF Dist(writeId, limit) = NumWrBufs - 1 THEN 0 ELSE Dist(writeId, limit) + 1
      BY <3>1, <2>1, DistNext
    <3>3. /\ Ahead(c.buf[2]) \in Nat /\ Ahead(writeId) \in Nat
          /\ Ahead(Frontier) = Dist(Frontier, limit) /\ Ahead(writeId) = Dist(writeId, limit)
      BY <2>1, <2>2 DEF Slot
    <3> QED
      BY <3>2, <3>3, <2>3
  <2> QED
    BY <2>4, <2>5
<1> QED
  BY <1>1, RingAlways, PTL

-----------------------------------------------------------------------------
(* What nand_page_read returns.                                            *)

LEMMA TailReturns ==
    ASSUME NEW t \in Seq(Steps), t # << >>, Returns(t)
    PROVE  Returns(Tail(t))
<1> DEFINE r == Tail(t)
           n == Len(t)
<1>1. n \in Nat \ {0} /\ DOMAIN t = 1 .. n /\ DOMAIN r = 1 .. n - 1 /\ \A k \in 1 .. n - 1 : r[k] = t[k + 1]
  BY FirstAndRest
<1> HIDE DEF r, n
<1> SUFFICES ASSUME NEW k \in 1 .. n - 1, r[k].do = "return"
             PROVE  /\ k > 1 => r[k - 1] = Await("done", r[k].bank)
                    /\ k > 2 => r[k - 2] = Step("accept")
                    /\ k > 3 => r[k - 3] = Step("issue")
                    /\ k > 4 => r[k - 4] = Regs(Cmd("read", r[k].bank, r[k].buf))
  BY <1>1 DEF Returns, r
<1>2. k + 1 \in DOMAIN t /\ r[k] = t[k + 1]
  BY <1>1
<1>3. /\ k + 1 > 1 => t[(k + 1) - 1] = Await("done", r[k].bank)
      /\ k + 1 > 2 => t[(k + 1) - 2] = Step("accept")
      /\ k + 1 > 3 => t[(k + 1) - 3] = Step("issue")
      /\ k + 1 > 4 => t[(k + 1) - 4] = Regs(Cmd("read", r[k].bank, r[k].buf))
  BY <1>2 DEF Returns
<1>4. ASSUME NEW j \in 1 .. 4, k > j
      PROVE  r[k - j] = t[(k + 1) - j]
  <2>1. k - j \in 1 .. n - 1 /\ (k - j) + 1 = (k + 1) - j
    BY <1>1, <1>4
  <2> QED
    BY <2>1, <1>1
<1>5. 1 \in 1 .. 4 /\ 2 \in 1 .. 4 /\ 3 \in 1 .. 4 /\ 4 \in 1 .. 4
  OBVIOUS
<1>6. /\ k > 1 => r[k - 1] = t[(k + 1) - 1] /\ k + 1 > 1
      /\ k > 2 => r[k - 2] = t[(k + 1) - 2] /\ k + 1 > 2
      /\ k > 3 => r[k - 3] = t[(k + 1) - 3] /\ k + 1 > 3
      /\ k > 4 => r[k - 4] = t[(k + 1) - 4] /\ k + 1 > 4
  BY <1>4, <1>5
<1> QED
  BY <1>3, <1>6

(* The step before the return of a read says how far it is.                *)
LEMMA ReturnWhere ==
    ASSUME todo \in Seq(Steps), Returns(todo), NEW k \in DOMAIN todo, todo[k].do = "return"
    PROVE  /\ k = 1 => todo[1].do = "return"
           /\ k = 2 => todo[1] = Await("done", todo[k].bank)
           /\ k = 3 => todo[1] = Step("accept")
           /\ k = 4 => todo[1] = Step("issue")
           /\ k = 5 => todo[1] = Regs(ReadOf(todo[k]))
<1>1. /\ k > 1 => todo[k - 1] = Await("done", todo[k].bank)
      /\ k > 2 => todo[k - 2] = Step("accept")
      /\ k > 3 => todo[k - 3] = Step("issue")
      /\ k > 4 => todo[k - 4] = Regs(ReadOf(todo[k]))
  BY DEF Returns, ReadOf
<1>2. (k = 2 => k - 1 = 1) /\ (k = 3 => k - 2 = 1) /\ (k = 4 => k - 3 = 1) /\ (k = 5 => k - 4 = 1)
  OBVIOUS
<1> QED
  BY <1>1, <1>2

LEMMA ReadPop ==
    ASSUME BufInv, ReadInv, todo # << >>, todo' = Tail(todo), resets' = resets,
           todo[1].do = "regs" => fcp' = todo[1].cmd,
           todo[1].do = "issue" => wr' = fcp,
           todo[1].do = "accept" => wr = None /\ run' = run /\ loaded' = loaded,
           todo[1].do = "done" => run[todo[1].bank] = None /\ loaded' = loaded
    PROVE  ReadInv'
<1> SUFFICES ASSUME resets = 0 PROVE (/\ Returns(todo) /\ \A k \in DOMAIN todo : todo[k].do = "return" => ReadOnWay(k))'
  BY DEF ReadInv
<1>1. todo \in Seq(Steps) /\ Returns(todo) /\ \A k \in DOMAIN todo : todo[k].do = "return" => ReadOnWay(k)
  BY DEF BufInv, Types, ReadInv
<1>2. Returns(todo')
  BY <1>1, TailReturns
<1>3. ASSUME NEW k \in DOMAIN todo', todo'[k].do = "return"
      PROVE  ReadOnWay(k)'
  <2> DEFINE s == todo'[k]
  <2>1. k \in Nat /\ k >= 1 /\ k + 1 \in DOMAIN todo /\ s = todo[k + 1]
    BY <1>1, FirstAndRest
  <2> HIDE DEF s
  <2>2. s.do = "return"
    BY <1>3 DEF s
  <2>3. /\ k + 1 = 2 => todo[1] = Await("done", s.bank)
        /\ k + 1 = 3 => todo[1] = Step("accept")
        /\ k + 1 = 4 => todo[1] = Step("issue")
        /\ k + 1 = 5 => todo[1] = Regs(ReadOf(s))
    BY <2>1, <2>2, <1>1, ReturnWhere
  <2>4. /\ k + 1 = 2 => run[s.bank] = ReadOf(s) \/ Loaded(s)
        /\ k + 1 = 3 => wr = ReadOf(s) \/ run[s.bank] = ReadOf(s) \/ Loaded(s)
        /\ k + 1 = 4 => fcp = ReadOf(s)
    BY <2>1, <2>2, <1>1 DEF ReadOnWay
  <2>5. ReadOf(s) # None
    BY DEF ReadOf, None, Cmd
  <2>6. CASE k = 1
    <3>1. Loaded(s) /\ loaded' = loaded
      BY <2>3, <2>4, <2>5, <2>6 DEF Await
    <3> QED
      BY <3>1, <2>6 DEF ReadOnWay, Loaded, s
  <2>7. CASE k = 2
    <3>1. (run[s.bank] = ReadOf(s) \/ Loaded(s)) /\ run' = run /\ loaded' = loaded
      BY <2>3, <2>4, <2>5, <2>7 DEF Step
    <3> QED
      BY <3>1, <2>7 DEF ReadOnWay, Loaded, s
  <2>8. CASE k = 3
    <3>1. wr' = ReadOf(s)
      BY <2>3, <2>4, <2>8 DEF Step
    <3> QED
      BY <3>1, <2>8 DEF ReadOnWay, s
  <2>9. CASE k = 4
    <3>1. fcp' = ReadOf(s)
      BY <2>3, <2>9 DEF Regs
    <3> QED
      BY <3>1, <2>9 DEF ReadOnWay, s
  <2> QED
    BY <2>6, <2>7, <2>8, <2>9 DEF ReadOnWay
<1> QED
  BY <1>2, <1>3

(* Code in which no read is on its way yet. *)
LEMMA ReadCodeBegun ==
    ASSUME todo' \in Seq(Steps), Returns(todo'),
           todo' # << >> => todo'[1].do \notin {"return", "done", "accept", "issue"}
    PROVE  ReadInv'
<1> SUFFICES ASSUME NEW k \in DOMAIN todo', todo'[k].do = "return" PROVE ReadOnWay(k)'
  BY DEF ReadInv
<1>1. todo' # << >>
  OBVIOUS
<1>2. /\ k > 1 => todo'[k - 1] = Await("done", todo'[k].bank)
      /\ k > 2 => todo'[k - 2] = Step("accept")
      /\ k > 3 => todo'[k - 3] = Step("issue")
  BY DEF Returns
<1>3. (k = 2 => k > 1 /\ k - 1 = 1) /\ (k = 3 => k > 2 /\ k - 2 = 1) /\ (k = 4 => k > 3 /\ k - 3 = 1)
  OBVIOUS
<1>4. k # 1 /\ k # 2 /\ k # 3 /\ k # 4
  BY <1>1, <1>2, <1>3 DEF Await, Step
<1> QED
  BY <1>4 DEF ReadOnWay

(* The controller goes on: at most the one read that is waited for ends.   *)
LEMMA ReadGoesOn ==
    ASSUME BufInv, ReadInv, UNCHANGED <<todo, fcp, resets>>,
           \A c \in Reads : wr = c => wr' = c \/ run'[c.bank] = c,
           \A c \in Reads : c.bank \in Banks /\ run[c.bank] = c =>
               run'[c.bank] = c \/ loaded' = <<c.bank, c.buf>>,
           \/ loaded' = loaded
           \/ \E b \in Banks : run[b].op = "read" /\ loaded' = <<b, run[b].buf>>
    PROVE  ReadInv'
<1> SUFFICES ASSUME resets = 0 PROVE (\A k \in DOMAIN todo : todo[k].do = "return" => ReadOnWay(k))'
  BY DEF ReadInv
<1>1. Types /\ todo \in Seq(Steps) /\ Returns(todo) /\ \A k \in DOMAIN todo : todo[k].do = "return" => ReadOnWay(k)
  BY DEF BufInv, Types, ReadInv
<1>2. ASSUME NEW k \in DOMAIN todo, todo[k].do = "return"
      PROVE  ReadOnWay(k)'
  <2>0. k \in Nat /\ todo[k] \in Steps /\ DOMAIN todo = 1 .. Len(todo) /\ Len(todo) \in Nat
    BY <1>1, LenProperties, ElementOfSeq
  <2>1. PICK s \in Steps : s = todo[k]
    BY <2>0
  <2> DEFINE c == ReadOf(s)
  <2>2. c \in Reads /\ c.bank = s.bank /\ c.buf = s.buf /\ c.bank \in Banks
    BY <2>1, <1>2 DEF Steps, Reads, ReadOf, Cmd
  <2>3. /\ k = 1 => Loaded(s)
        /\ k = 2 => run[s.bank] = c \/ Loaded(s)
        /\ k = 3 => wr = c \/ run[s.bank] = c \/ Loaded(s)
        /\ k = 4 => fcp = c
    BY <2>1, <1>1, <1>2 DEF ReadOnWay
  <2>4. ASSUME k \in 1 .. 3, NEW b \in Banks, run[b].op = "read", loaded' = <<b, run[b].buf>>
        PROVE  Loaded(s)'
    <3> DEFINE d == run[b]
    <3>1. d \in Commands /\ d.bank = b
      <4>1. run[b] # None
        BY <2>4 DEF None, Cmd
      <4> QED
        BY <4>1, <1>1 DEF Types
    <3>2. d \in Reads /\ Reading(d)
      BY <3>1, <2>4 DEF Commands, Programs, Plain, Reading
    <3>3. \/ At("accept") /\ Len(todo) > 2 /\ todo[3] = Return(d.bank, d.buf)
          \/ At("done") /\ Len(todo) > 1 /\ todo[2] = Return(d.bank, d.buf)
          \/ At("restart")
      BY <3>2 DEF BufInv, ReadAwaited
    <3>4. /\ k = 1 => todo[1].do = "return"
          /\ k = 2 => todo[1].do = "done"
          /\ k = 3 => todo[1].do = "accept"
      <4>1. /\ k = 1 => todo[1].do = "return"
            /\ k = 2 => todo[1] = Await("done", todo[k].bank)
            /\ k = 3 => todo[1] = Step("accept")
        BY <1>1, <1>2, ReturnWhere
      <4> QED
        BY <4>1 DEF Await, Step
    <3>5. \A x : At(x) <=> todo[1].do = x
      <4>1. todo # << >>
        BY <1>2
      <4> QED
        BY <4>1, <1>1, AtFirst
    <3>6. \/ k = 3 /\ todo[3] = Return(d.bank, d.buf)
          \/ k = 2 /\ todo[2] = Return(d.bank, d.buf)
      BY <3>3, <3>4, <3>5, <2>4
    <3>7. s = Return(d.bank, d.buf)
      BY <3>6, <2>1
    <3> QED
      BY <3>1, <3>7, <2>4 DEF Return, Loaded
  <2>5. loaded' = loaded => (Loaded(s) <=> Loaded(s)')
    BY DEF Loaded
  <2>6. loaded' = <<c.bank, c.buf>> => Loaded(s)'
    BY <2>2 DEF Loaded
  <2> HIDE DEF c
  <2>7. todo'[k] = s /\ ReadOf(s) = c
    BY <2>1 DEF c
  <2>8. /\ k = 1 => Loaded(s)'
        /\ k = 2 => run'[s.bank] = c \/ Loaded(s)'
        /\ k = 3 => wr' = c \/ run'[s.bank] = c \/ Loaded(s)'
        /\ k = 4 => fcp' = c
    <3>1. Loaded(s) => Loaded(s)' \/ ~(k \in 1 .. 3)
      BY <2>4, <2>5
    <3>2. run[s.bank] = c => run'[s.bank] = c \/ Loaded(s)'
      BY <2>2, <2>6
    <3>3. wr = c => wr' = c \/ run'[s.bank] = c
      BY <2>2
    <3> QED
      BY <2>0, <2>3, <3>1, <3>2, <3>3
  <2> QED
    BY <2>7, <2>8 DEF ReadOnWay, Loaded
<1> QED
  BY <1>2

LEMMA ReadStart == Init => ReadInv
<1> SUFFICES ASSUME Init PROVE ReadInv
  OBVIOUS
<1>1. Returns(todo) /\ \A k \in DOMAIN todo : todo[k].do = "return" => k > 4
  BY ResetCode DEF Init, InitDriver
<1>2. ASSUME NEW k \in DOMAIN todo, todo[k].do = "return" PROVE ReadOnWay(k)
  BY <1>1, <1>2 DEF ReadOnWay
<1> QED
  BY <1>1, <1>2 DEF ReadInv

LEMMA ReadProcessor ==
    ASSUME BufInv, ReadInv, Processor
    PROVE  ReadInv'
<1>1. todo \in Seq(Steps) /\ Types /\ Shape(todo)
  BY DEF BufInv, Types
<1>2. \A s : At(s) <=> todo # << >> /\ todo[1].do = s
  BY <1>1, AtFirst
<1>3. todo # << >> => Head(todo) = todo[1]
  BY <1>1, FirstAndRest
<1>4. CASE (SetRegs \/ Issue \/ Waited \/ BankIdle \/ Finished \/ Returned \/ Restart) /\ UNCHANGED clients
  <2>1. todo # << >> /\ todo' = Tail(todo) /\ resets' = resets
    BY <1>2, <1>4 DEF SetRegs, Issue, Waited, BankIdle, Finished, Returned, Restart, Pop
  <2>2. todo[1].do = "regs" => fcp' = todo[1].cmd
    BY <1>2, <1>3, <1>4 DEF SetRegs, Issue, Waited, BankIdle, Finished, Returned, Restart, Next1
  <2>3. todo[1].do = "issue" => wr' = fcp
    BY <1>2, <1>4 DEF SetRegs, Issue, Waited, BankIdle, Finished, Returned, Restart
  <2>4. todo[1].do = "accept" => wr = None /\ run' = run /\ loaded' = loaded
    BY <1>2, <1>4 DEF SetRegs, Issue, Waited, BankIdle, Finished, Returned, Restart
  <2>5. todo[1].do = "done" => run[todo[1].bank] = None /\ loaded' = loaded
    <3> SUFFICES ASSUME todo[1].do = "done" PROVE run[todo[1].bank] = None /\ loaded' = loaded
      OBVIOUS
    <3>1. fsm[todo[1].bank] = "idle" /\ loaded' = loaded
      BY <1>2, <1>3, <1>4 DEF SetRegs, Issue, Waited, BankIdle, Finished, Returned, Restart, Next1
    <3>2. todo[1] \in Steps
      BY <1>1, <2>1, FirstAndRest
    <3>3. todo[1].bank \in Banks
      BY <3>2 DEF Steps
    <3> QED
      BY <3>1, <3>3, <1>1 DEF Types
  <2> QED
    BY <2>1, <2>2, <2>3, <2>4, <2>5, ReadPop
<1>5. CASE CopyStep \/ SyncStep \/ NextIdStep \/ ReleaseStep \/ LastChunk
  <2>1. todo # << >> /\ todo' = Tail(todo) /\ resets' = resets /\ todo[1].do \notin {"regs", "issue", "accept", "done"}
    BY <1>2, <1>5 DEF CopyStep, SyncStep, NextIdStep, ReleaseStep, LastChunk, Pop
  <2> QED
    BY <2>1, ReadPop
<1>6. CASE NextChunk \/ NextPage \/ NextMove
  <2>1. Inner(todo')
    BY <1>6, NextChunkKeeps, NextPageKeeps, NextMoveKeeps DEF Apart
  <2> QED
    BY <2>1, ReadCodeBegun DEF Inner
<1>7. CASE AdvanceStep
  <2> DEFINE x == todo[1].buf
  <2>1. todo # << >> /\ todo[1].do = "advance" /\ Next1 = todo[1] /\ todo[1] \in Steps
    BY <1>1, <1>7, AtFirst, FirstAndRest DEF AdvanceStep, Next1
  <2>2. x \in PageBufs /\ todo[1] = Advance(x)
    BY <2>1 DEF Steps, Advance
  <2>3. /\ todo' = (IF chunkPtr'[x] = 0 THEN nand_page_program(x[2], x) ELSE << >>) \o Tail(todo)
        /\ resets' = resets
    BY <2>1, <1>7 DEF AdvanceStep
  <2> HIDE DEF x
  <2>4. CASE chunkPtr'[x] # 0
    <3>1. todo' = Tail(todo)
      <4>1. Tail(todo) \in Seq(Steps) /\ todo' = << >> \o Tail(todo)
        BY <1>1, <2>1, <2>3, <2>4, FirstAndRest
      <4> QED
        BY <4>1, ConcatEmptySeq
    <3> QED
      BY <3>1, <2>1, <2>3, ReadPop
  <2>5. CASE chunkPtr'[x] = 0
    <3> SUFFICES ASSUME resets = 0 PROVE ReadInv'
      BY <2>3 DEF ReadInv
    <3>1. Returns(todo)
      BY DEF ReadInv
    <3>2. todo' = nand_page_program(x[2], x) \o Tail(todo)
      BY <2>3, <2>5
    <3>3. todo' \in Seq(Steps) /\ todo'[1] = Regs(Cmd("program", x[2], x)) /\ Returns(todo')
      BY <3>1, <3>2, <1>1, <2>1, <2>2, AdvanceShape
    <3> QED
      BY <3>3, ReadCodeBegun DEF Regs
  <2> QED
    BY <2>4, <2>5
<1> QED
  BY <1>4, <1>5, <1>6, <1>7 DEF Processor

LEMMA ReadController ==
    ASSUME BufInv, ReadInv,
           \/ Controller /\ UNCHANGED clients
           \/ \E b \in Banks : TransferHost(b) \/ TransferOther(b)
           \/ HostData
           \/ UNCHANGED vars
    PROVE  ReadInv'
<1>1. Types /\ \A c \in Reads : c # None
  BY DEF BufInv, Reads, None, Cmd
<1>2. CASE Accept
  <2>1. /\ run' = [run EXCEPT ![wr.bank] = wr] /\ wr # None /\ fsm[wr.bank] = "idle"
        /\ UNCHANGED <<todo, fcp, resets, loaded>>
    BY <1>2 DEF Accept
  <2>2. wr.bank \in Banks
    BY <2>1, <1>1 DEF Types, Commands, Programs, Reads, Plain
  <2>3. run[wr.bank] = None
    BY <2>1, <2>2, <1>1 DEF Types
  <2>4. run'[wr.bank] = wr /\ \A a \in Banks : a # wr.bank => run'[a] = run[a]
    BY <2>1, <2>2, <1>1 DEF Types
  <2>5. \A c \in Reads : wr = c => wr' = c \/ run'[c.bank] = c
    BY <2>4
  <2>6. \A c \in Reads : c.bank \in Banks /\ run[c.bank] = c => run'[c.bank] = c
    BY <2>3, <2>4, <1>1
  <2> QED
    BY <2>1, <2>5, <2>6, ReadGoesOn
<1>3. ASSUME NEW b \in Banks, End(b)
      PROVE  ReadInv'
  <2>1. /\ run' = [run EXCEPT ![b] = None] /\ UNCHANGED <<todo, fcp, wr, resets>>
        /\ loaded' = IF run[b].op = "read" THEN <<b, run[b].buf>> ELSE loaded
    BY <1>3 DEF End
  <2>2. \A a \in Banks : a # b => run'[a] = run[a]
    BY <2>1, <1>1 DEF Types
  <2>3. ASSUME NEW c \in Reads, c.bank \in Banks, run[c.bank] = c
        PROVE  run'[c.bank] = c \/ loaded' = <<c.bank, c.buf>>
    <3>1. c.op = "read"
      BY DEF Reads
    <3> QED
      BY <3>1, <2>1, <2>2, <2>3
  <2> QED
    BY <2>1, <2>3, ReadGoesOn
<1>4. CASE (\E b \in Banks : TransferHost(b) \/ TransferOther(b)) \/ HostData \/ UNCHANGED vars
  <2>1. UNCHANGED <<todo, fcp, wr, run, resets, loaded>>
    BY <1>4 DEF TransferHost, TransferOther, Transfer, HostData, vars, driver
  <2> QED
    BY <2>1, ReadGoesOn
<1> QED
  BY <1>2, <1>3, <1>4 DEF Controller

LEMMA ReadStep ==
    ASSUME BufInv, ReadInv, [Next]_vars
    PROVE  ReadInv'
<1>1. CASE Begin
  <2>1. Fresh(todo', writeId)
    BY <1>1, BeginKeeps
  <2> QED
    BY <2>1, ReadCodeBegun DEF Fresh
<1>2. ASSUME NEW b \in Banks, GiveUp(b)
      PROVE  ReadInv'
  <2>1. resets' = resets + 1 /\ resets \in Nat
    BY <1>2, BanksAssumption DEF GiveUp, BufInv, Types
  <2> QED
    BY <2>1 DEF ReadInv
<1> QED
  BY <1>1, <1>2, ReadProcessor, ReadController DEF Next

(* As long as no command has been given up, nand_page_read returns with    *)
(* the page in the buffer it was asked for: of the reads the controller    *)
(* has finished, the last is this one.  The wait until the Waiting Room is *)
(* empty, before the wait for the bank, is what makes it so.               *)
THEOREM ReadsAlwaysDeliver == Spec => [](resets = 0 => ReadsDeliver)
<1>1. Init => BufInv /\ ReadInv
  BY BufStart, ReadStart
<1>2. BufInv /\ ReadInv /\ [Next]_vars => (BufInv /\ ReadInv)'
  BY BufStep, ReadStep
<1>3. BufInv /\ ReadInv => (resets = 0 => ReadsDeliver)
  <2> SUFFICES ASSUME BufInv, ReadInv, resets = 0, At("return")
               PROVE  loaded = <<Next1.bank, Next1.buf>>
    BY DEF ReadsDeliver
  <2>1. todo \in Seq(Steps)
    BY DEF BufInv, Types
  <2>2. todo # << >> /\ todo[1].do = "return" /\ Next1 = todo[1] /\ 1 \in DOMAIN todo
    BY <2>1, AtFirst, FirstAndRest DEF Next1
  <2> QED
    BY <2>2 DEF ReadInv, ReadOnWay, Loaded
<1> QED
  BY <1>1, <1>2, <1>3, PTL DEF Spec
=============================================================================
