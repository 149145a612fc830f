----------------------------- MODULE MCBlockMap -----------------------------
(* A small instance of BlockMap for TLC: the pages of the two banks are     *)
(* taken from those an installation, or a damaged page, may leave.         *)
EXTENDS BlockMap, TLC

Words(s) == [k \in 0 .. ScanItems |-> IF k < Len(s) THEN s[k + 1] ELSE 65535]
OfList(s) == [corrupt |-> FALSE, words |-> Words(<<Len(s)>> \o s)]

GoodPages == {OfList(<< >>), OfList(<<7>>), OfList(<<7 + 32768, 14, 10>>)}
BadPages  == {OfList(<<8, PBlks, 0>>),
              [corrupt |-> FALSE, words |-> Words(<< >>)],
              [corrupt |-> TRUE, words |-> Words(<<6, 9>>)]}

MCPowerUp == {[x \in Address |-> 255]}

(* The last bank has any page; its bits and cells are the unaligned ones. *)
MCPages == {p \in [Bank -> GoodPages \cup BadPages] :
               \A b \in Bank : b # NumBanks - 1 => p[b] = OfList(<<7>>)}

(* Nothing reads g_bsp_isr_flag once format is done. *)
View == <<page, mem, at, locals, IF at = "ready" THEN Zeros ELSE isrFlag, head, tail, gc, failed>>
=============================================================================
