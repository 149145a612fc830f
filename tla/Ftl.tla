-------------------------------- MODULE Ftl ---------------------------------
(***************************************************************************)
(* The flash translation layer: one thread that takes the host's requests  *)
(* one after another.                                                      *)
(***************************************************************************)
EXTENDS FtlOverwrite

Next == LogNext \/ GcNext \/ WriteNext \/ OverwriteNext

Spec == Init /\ [][Next]_vars

(* The thread goes on with a request it has taken; when the host sends one *)
(* is its own affair.                                                      *)
Step == LogNext \/ GcNext \/ WriteStep \/ OverwriteStep
FairSpec == Spec /\ WF_vars(Step)

-----------------------------------------------------------------------------
Frame == AllocRwFrame \cup SpaceFrame \cup AllocOwFrame \cup GcFrame
         \cup GcScanFrame \cup GcCopyFrame \cup GcChunksFrame \cup FlushWFrame
         \cup CleanFrame \cup WritePageFrame \cup WriteChunksFrame
         \cup OwPageFrame \cup OwChunksFrame \cup OwExhaustedFrame \cup FlushOwFrame

(* Every variable holds a value of its type. *)
TypeOK ==
    /\ chunksMap \in [Chunk -> Location]
    /\ flash \in [Bank \X Lbn \X Page -> [Slot -> Content]]
    /\ flashList \in [Bank \X Lbn \X {"W", "OW"} -> List]
    /\ owCounter \in [Bank \X Lbn \X Page -> Nat]
    /\ rwCtrl \in [Bank -> RWCtrl]
    /\ owCtrl \in [Bank -> OWCtrl]
    /\ rwList \in [Bank -> List]
    /\ owList \in [Bank -> List]
    /\ clean \in [Bank -> Seq(Lbn)]
    /\ wValid \in [Block -> Nat]
    /\ owValid \in [Block -> Nat]
    /\ wHeap \in [Bank -> SUBSET Lbn]
    /\ owHeap \in [Bank -> SUBSET Lbn]
    /\ logBuf \in [Bank -> [Slot -> BufSlot]]
    /\ owBuf \in [Bank -> [Slot -> BufSlot]]
    /\ chunkPtr \in [Bank -> Slot]
    /\ owChunkPtr \in [Bank -> Slot]
    /\ gcNest \in [Bank -> Int]
    /\ refBank \in Bank
    /\ stk \in Seq(Frame)
    /\ err \in {"none", "out of space", "valid chunks below 0", "pop of an empty clean list",
               "no OW block to seal", "OW block below its free chunks", "nothing to collect",
               "garbage collection nested too deep", "no block after 10 garbage collections"}
    /\ written \in [Chunk -> BOOLEAN]

Idle == err = "none" /\ stk = << >>

(* Between requests the host reads what it wrote last, and erased sectors  *)
(* where it wrote nothing or trimmed.                                      *)
ReadBack == Idle => \A c \in Chunk : HostReads(c) = IF written[c] THEN c ELSE Erased

(* The chunks mapped to a block, whatever log they are said to be in. *)
MappedIn(b, l) == {c \in Chunk : /\ Where(c) \in FlashWLog \cup FlashOwLog
                                 /\ Where(c)[2] = b /\ Where(c)[3] = l}

(* The chunks the pages yet to be written will take. *)
PagesToCome(b) ==
    IF rwCtrl[b].isOw THEN {p \in Page : p >= rwCtrl[b].page /\ (p - rwCtrl[b].page) % 2 = 0}
                      ELSE {p \in Page : p >= rwCtrl[b].page}
OwPagesToCome(b) == {p \in LowPage : p >= owCtrl[b].page}

(* Between requests the valid chunks counted for a block are the chunks    *)
(* mapped to it, and those of its unwritten pages.                         *)
CountsExact ==
    Idle => \A b \in Bank, l \in Lbn :
        LET mapped == Cardinality(MappedIn(b, l))
        IN  /\ wValid[<<b, l>>] = CASE l \in wHeap[b] -> mapped
                                [] l = rwCtrl[b].lbn ->
                                     mapped + ChunksPerPage * Cardinality(PagesToCome(b))
                                [] OTHER -> ChunksPerLogBlk
            /\ owValid[<<b, l>>] = CASE l \in owHeap[b] -> mapped + HighChunks
                                 [] l = owCtrl[b].lbn ->
                                      mapped + HighChunks + ChunksPerPage * Cardinality(OwPagesToCome(b))
                                 [] OTHER -> ChunksPerOwBlk

(* The victim of a collection that has not been erased yet. *)
Collecting(b, l) == \E i \in DOMAIN stk :
    /\ \/ stk[i].op \in {"GcScan", "GcCopy"}
       \/ stk[i].op = "GcChunks" /\ stk[i].found # stk[i].job.expected
    /\ stk[i].job.bank = b /\ stk[i].job.lbn = l

(* The W block of a bank is being filled unless AllocRw, the end of         *)
(* increaseRWLpn, is under way: then it is full and rwCtrl is not up to date. *)
Filling(b, l) == /\ rwCtrl[b].lbn = l
                 /\ ~ \E i \in DOMAIN stk : stk[i].op = "AllocRw" /\ stk[i].bank = b

(* Every use of a block there is: each of its places in the clean list,    *)
(* open for writes or for overwrites, full and in one of the heaps, or     *)
(* being collected.                                                        *)
Uses(b, l) ==
    {<<"clean", i>> : i \in {i \in DOMAIN clean[b] : clean[b][i] = l}}
    \cup (IF Filling(b, l) THEN {<<"W">>} ELSE {})
    \cup (IF owCtrl[b].lbn = l THEN {<<"OW">>} ELSE {})
    \cup (IF l \in wHeap[b] THEN {<<"WHeap">>} ELSE {})
    \cup (IF l \in owHeap[b] THEN {<<"OwHeap">>} ELSE {})
    \cup (IF Collecting(b, l) THEN {<<"victim">>} ELSE {})

(* No block is lost or has two uses.                                       *)
OneUse == \A b \in Bank, l \in Lbn : Cardinality(Uses(b, l)) = 1

(* The list of a block, which collection and sealing go by. *)
ListOf(b, l) == CASE l \in wHeap[b]     -> flashList[<<b, l, "W">>]
                  [] l \in owHeap[b]    -> flashList[<<b, l, "OW">>]
                  [] l = owCtrl[b].lbn  -> owList[b]
                  [] l = rwCtrl[b].lbn  -> rwList[b]
                  [] OTHER              -> EmptyList

(* Between requests the list of a block names the owner of every chunk     *)
(* mapped to it, so a collection will find it.                             *)
ListsComplete ==
    Idle => \A c \in Chunk : Where(c) \in FlashWLog \cup FlashOwLog =>
        ListOf(Where(c)[2], Where(c)[3])[<<Where(c)[4], Where(c)[5]>>] = c[1]

(* A collection that runs to the end of its victim has found as many valid *)
(* chunks as the heap promised.                                            *)
GcFindsExpected ==
    Running("GcScan") /\ Top.job.expected > 0 /\ PagesLeft(Top) = {}
        => Top.found = Top.job.expected

(* When the firmware stops, it is for want of blocks, and the bank that    *)
(* wants one shows it: it has its last clean block still, and none that is *)
(* full.  It never stops because a count contradicts the map (heap.c), with *)
(* the last clean block taken and none come back (log.c:279), after ten    *)
(* collections in vain (log.c:474) or because they nested too deep.        *)
StopsForWantOfBlocks ==
    err # "none" =>
        LET b == Top.bank
        IN  /\ err \in {"nothing to collect", "no OW block to seal"}
            /\ Len(clean[b]) = 1
            /\ wHeap[b] = {} /\ owHeap[b] = {}

(* Flash pages are programmed once between two erases; only the low pages  *)
(* of an OW block are programmed again, at most OwLimit times, and only    *)
(* while the block is an OW block.  (Data that goes stale is not a         *)
(* program.)                                                               *)
ProgramsAllowed ==
    [][\A x \in Bank \X Lbn \X Page :
          LET ofOwBlock == x[3] \in LowPage /\ (x[2] = owCtrl[x[1]].lbn \/ x[2] \in owHeap[x[1]])
          IN  /\ \/ \A s \in Slot : flash'[x][s] \in {flash[x][s], Stale}
                 \/ \A s \in Slot : flash[x][s] = Erased
                 \/ \A s \in Slot : flash'[x][s] = Erased
                 \/ ofOwBlock
              /\ owCounter'[x] > owCounter[x] => ofOwBlock /\ owCounter'[x] <= OwLimit]_vars

(* An overwrite in place programs the page the map leads to: whenever the  *)
(* host can ask for one, the chunks the map puts in the OW log lie in      *)
(* programmed low pages of blocks that are OW blocks still, and not of     *)
(* blocks that were sealed or collected since.                             *)
OwChunksInOwBlocks ==
    Idle \/ Running("OwChunks") =>
        \A c \in {c \in Chunk : Where(c) \in FlashOwLog} :
            LET b == Where(c)[2]
                l == Where(c)[3]
            IN  /\ Where(c)[4] \in LowPage
                /\ l \in owHeap[b] \/ (l = owCtrl[b].lbn /\ Where(c)[4] < owCtrl[b].page)

(* Every request is done with, one day: none makes the firmware stop in a  *)
(* while(1), or collect for ever.                                          *)
RequestsComplete == stk # << >> ~> stk = << >>
=============================================================================
