---------------------------- MODULE MCCommission ----------------------------
(* A small instance of Commission for TLC: the factory marked one block of *)
(* bank 0 and one of bank 1, that one on both chips, and in bank 0 half of *)
(* block FirstBlk, which format erases.                                    *)
EXTENDS Commission, TLC

MCFactory == {<<0, 5, "low">>, <<0, 3, "high">>, <<1, 8, "high">>, <<1, 8, "low">>}

MCPowerUp == {[x \in Address |-> 255]}

(* Once the user was warned, or files did not give back all lists, nothing *)
(* is claimed, and such states are not followed any further.               *)
Claimed == ~warned /\ ~partial

(* Nothing reads g_bsp_isr_flag once format is done. *)
View == <<page, marks, others, IF at = "ready" THEN 0 ELSE isrFlag,
          mem, at, bank, i, num, result, vblk, lbn, head, tail, gc, failed>>
=============================================================================
