------------------------------- MODULE MCFtl --------------------------------
(* Small instances of Ftl for TLC. *)
EXTENDS Ftl, TLC

Page2 == <<[idx |-> 0, part |-> FALSE], [idx |-> 1, part |-> FALSE]>>
One(i, part) == <<[idx |-> i, part |-> part]>>
Req(kind, pieces) == [kind |-> kind, pieces |-> pieces]

Symmetry == Permutations(Lpn)

(* The alphabets of requests, for pages of two chunks. *)
Writes         == {Req("write", Page2), Req("write", One(0, FALSE)), Req("write", One(1, TRUE)),
                   Req("trim", Page2)}
PageOverwrites == {Req("overwrite", Page2)}
MixedPages     == {Req("write", Page2), Req("overwrite", Page2)}
ChunkOverwrites == {Req("overwrite", One(0, FALSE)), Req("overwrite", One(1, TRUE))}
AllChunks      == Writes \cup ChunkOverwrites
(* Once chunks have been overwritten, no bank has yet had to collect       *)
(* garbage for space: what such a collection goes wrong with is the run of *)
(* its own, MCFtlExhausted.                                                *)
OverwritesAmple ==
    \A b \in Bank : (\/ owCtrl[b].lbn # NoBlk
                     \/ owHeap[b] # {}
                     \/ \E s \in Slot : owBuf[b][s].lpn # NoLpn) => Len(clean[b]) >= 2

(* A collection nests through other banks, but not to a third level, at    *)
(* which the firmware stops (garbage_collection.c:31).                     *)
NestsTwiceAtMost == err # "garbage collection nested too deep"

(* What a state can still lead to, and nothing else: data nobody can read  *)
(* any more, buffer slots that are written before they are read and list   *)
(* entries that name no owner are left out.                                *)
Unflushed(buf, ptr, op, b) ==
    [s \in {s \in Slot : s < ptr[b] \/ \E i \in DOMAIN stk : stk[i].op = op /\ stk[i].bank = b} |->
        IF buf[b][s].lpn = NoLpn THEN NoLpn ELSE buf[b][s]]
Named(c) ==
    IF Where(c) \in FlashWLog \cup FlashOwLog
    THEN LET b == Where(c)[2]
             l == Where(c)[3]
             x == <<Where(c)[4], Where(c)[5]>>
         IN  <<flashList[<<b, l, "W">>][x] = c[1], flashList[<<b, l, "OW">>][x] = c[1],
               rwCtrl[b].lbn = l /\ rwList[b][x] = c[1], owCtrl[b].lbn = l /\ owList[b][x] = c[1]>>
    ELSE << >>

(* Blocks of a bank differ in what they are used for, not in their number: *)
(* the view numbers them by use, the clean ones in the order of the list.  *)
Key(b, l) == 100 * (CASE l = rwCtrl[b].lbn -> 0 [] l = owCtrl[b].lbn -> 1 [] l \in wHeap[b] -> 2
                      [] l \in owHeap[b] -> 3 [] OTHER -> 4) + wValid[<<b, l>>] + 10 * owValid[<<b, l>>]
Before(b, k, l) == Key(b, k) < Key(b, l) \/ (Key(b, k) = Key(b, l) /\ k < l)
Number == [b \in Bank |->
    LET cleanOnes == {clean[b][i] : i \in DOMAIN clean[b]}
    IN  [l \in Lbn \cup {NoBlk} |->
            IF l = NoBlk THEN NoBlk
            ELSE IF l \in cleanOnes THEN CHOOSE i \in DOMAIN clean[b] : clean[b][i] = l
            ELSE 100 + Cardinality({k \in Lbn \ cleanOnes : Before(b, k, l)})]]
Renumbered(f, n) ==
    IF "job" \in DOMAIN f THEN [f EXCEPT !.job.lbn = n[f.job.bank][@]]
    ELSE IF "lbn" \in DOMAIN f THEN [f EXCEPT !.lbn = n[f.bank][@]] ELSE f

Left == vars
View ==
    LET n == CHOOSE m \in {Number} : TRUE
    IN  <<Left = Left,
          [c \in Chunk |-> <<IF Where(c) \in FlashWLog \cup FlashOwLog
                             THEN [Where(c) EXCEPT ![3] = n[Where(c)[2]][@]] ELSE Where(c),
                             HostReads(c), Named(c), written[c]>>],
          [b \in Bank |-> <<Unflushed(logBuf, chunkPtr, "FlushW", b),
                            Unflushed(owBuf, owChunkPtr, "FlushOw", b),
                            [rwCtrl[b] EXCEPT !.lbn = n[b][@]], [owCtrl[b] EXCEPT !.lbn = n[b][@]],
                            {<<n[b][l], wValid[<<b, l>>], owValid[<<b, l>>], l \in wHeap[b], l \in owHeap[b],
                               {<<p, owCounter[<<b, l, p>>], flash[<<b, l, p>>] = [s \in Slot |-> Erased]>> : p \in Page}>>
                                  : l \in Lbn}>>],
          chunkPtr, owChunkPtr, gcNest, refBank, [i \in DOMAIN stk |-> Renumbered(stk[i], n)], err>>
=============================================================================
