--------------------------- MODULE MCFlashClients ---------------------------
(* Two banks.  States that differ only in how far round the ring of write  *)
(* buffers everybody is, or in FCP registers that will be set before they  *)
(* are issued, are taken to be the same.                                   *)
EXTENDS FlashClients

Place(x)   == IF x[1] = "WR" THEN <<"WR", Ahead(x[2])>> ELSE x
Of(c)      == [c EXCEPT !.buf = Place(@)]
StepAt(s)  == CASE s.do = "copy" -> [s EXCEPT !.src = Place(@)]
                [] s.do = "regs" -> [s EXCEPT !.cmd = Of(@)]
                [] OTHER -> s

View == <<IF At("issue") THEN Of(fcp) ELSE None, Of(wr), [b \in Banks |-> Of(run[b])], fsm,
          [i \in DOMAIN todo |-> StepAt(todo[i])], loaded, resets, chunkPtr, lastBank,
          Ahead(writeId), Ahead(sata)>>
=============================================================================
