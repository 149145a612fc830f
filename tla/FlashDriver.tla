---------------------------- MODULE FlashDriver -----------------------------
(***************************************************************************)
(* The flash driver (flash.c, flash_wrapper.c): how the processor hands    *)
(* commands to the flash controller and waits for them.                    *)
(*                                                                         *)
(* The processor writes a command into the FCP registers and issues it:    *)
(* the controller copies the registers into the one place of its Waiting   *)
(* Room, from which the bank of the command takes it when it is idle.      *)
(* Banks work concurrently with each other and with the processor, and     *)
(* read and write the DRAM buffers while they do.  The controller is not   *)
(* part of the repository: it is modelled as flash.h and flash.c describe  *)
(* it.                                                                     *)
(*                                                                         *)
(* Code runs as a list of steps, todo, the first of which is executed      *)
(* next; a function of the driver is the list of its steps.  What buffers  *)
(* contain is left out: the properties are about who is at which buffer.   *)
(***************************************************************************)
EXTENDS Integers, Sequences

CONSTANTS NumBanks,   \* NUM_BANKS
          MaxResets   \* bound: times a command is given up

ASSUME BanksAssumption == NumBanks \in Nat \ {0} /\ MaxResets \in Nat

Banks == 0 .. NumBanks - 1

VARIABLES fcp,      \* the FCP registers
          wr,       \* the command in the Waiting Room, or None
          run,      \* the command each bank is at, or None
          fsm,      \* BSP_FSM of each bank: idle, at the command before
                    \* its data are transferred, or after
          todo,     \* what the processor has still to do
          loaded,   \* history: the read the controller finished last
          resets    \* history: commands given up so far

driver == <<fcp, wr, run, fsm, todo, loaded, resets>>

(* A command.  Buffers are named by kind and number. *)
Cmd(op, b, x) == [op |-> op, bank |-> b, buf |-> x]
NoBuf         == <<"none", 0>>
None          == Cmd("none", 0, NoBuf)

-----------------------------------------------------------------------------
(* flash_issue_cmd, and what callers of it wait for.                       *)

Regs(c)     == [do |-> "regs", cmd |-> c]
Step(name)  == [do |-> name]
Await(name, b) == [do |-> name, bank |-> b]

(* Its second argument: RETURN_ON_ISSUE or RETURN_WHEN_DONE. *)
OnIssue(c)  == << Regs(c), Step("issue") >>

(* A mutant: without the wait until the Waiting Room is empty again, the   *)
(* bank can be idle because it has not taken the command yet.              *)
MutNoAccept(c) == OnIssue(c) \o << Await("done", c.bank) >>

WhenDone(c) == OnIssue(c) \o << Step("accept"), Await("done", c.bank) >>

waitBusyBank(b) == << Step("empty"), Await("idle", b) >>
flash_finish    == << Step("finish") >>

Return(b, x) == [do |-> "return", bank |-> b, buf |-> x]

(* The calls of flash_wrapper.c. *)
nand_page_read(b, x)          == WhenDone(Cmd("read", b, x)) \o << Return(b, x) >>
nand_page_program(b, x)       == OnIssue(Cmd("program", b, x))
nand_page_ptprogram_from_host(b, slot) ==
    OnIssue(Cmd("program", b, <<"WR", slot>>)) \o << Step("nextId") >>
nand_block_erase(b)           == OnIssue(Cmd("erase", b, NoBuf))
nand_block_erase_sync(b)      == WhenDone(Cmd("erase", b, NoBuf))

(* The reset command of the chips, and the wait for its end. *)
Chip(b) == OnIssue(Cmd("generic", b, NoBuf))
Wait(b) == OnIssue(Cmd("wait", b, NoBuf))

(* One call, of two steps, for each bank in turn. *)
PerBank(Call(_)) == [k \in 1 .. 2 * NumBanks |-> Call((k - 1) \div 2)[1 + ((k - 1) % 2)]]

flash_reset == << Step("restart") >> \o PerBank(Chip) \o PerBank(Wait) \o flash_finish

flash_reset_one_bank(b) == << Step("restart") >> \o Chip(b) \o Wait(b) \o flash_finish

InitDriver == /\ fcp = Cmd("wait", 0, NoBuf)
              /\ wr = None
              /\ run = [b \in Banks |-> None]
              /\ fsm = [b \in Banks |-> "idle"]
              /\ todo = flash_reset
              /\ loaded = << >>
              /\ resets = 0

-----------------------------------------------------------------------------
(* The processor: one step of the driver at a time.                        *)

Next1    == Head(todo)
At(name) == todo # << >> /\ Next1.do = name
Pop      == todo' = Tail(todo)

(* SETREG of FCP_CMD, FCP_BANK, FCP_DMA_ADDR and the others. *)
SetRegs == /\ At("regs")
           /\ fcp' = Next1.cmd
           /\ Pop
           /\ UNCHANGED <<wr, run, fsm, loaded, resets>>

(* WR_STAT says the Waiting Room is empty: SETREG of FCP_ISSUE. *)
Issue == /\ At("issue")
         /\ wr = None
         /\ wr' = fcp
         /\ Pop
         /\ UNCHANGED <<fcp, run, fsm, loaded, resets>>

Waited == /\ At("accept") \/ At("empty")
          /\ wr = None
          /\ Pop
          /\ UNCHANGED <<fcp, wr, run, fsm, loaded, resets>>

(* The bank, only, is looked at. *)
BankIdle == /\ At("done") \/ At("idle")
            /\ fsm[Next1.bank] = "idle"
            /\ Pop
            /\ UNCHANGED <<fcp, wr, run, fsm, loaded, resets>>

(* MON_CHABANKIDLE. *)
Finished == /\ At("finish")
            /\ wr = None
            /\ \A b \in Banks : fsm[b] = "idle"
            /\ Pop
            /\ UNCHANGED <<fcp, wr, run, fsm, loaded, resets>>

(* The read has returned to its caller. *)
Returned == /\ At("return")
            /\ Pop
            /\ loaded' = << >>
            /\ UNCHANGED <<fcp, wr, run, fsm, resets>>

(* PMU_ResetCon resets the whole controller, and WR_STAT is cleared. *)
Restart == /\ At("restart")
           /\ wr' = None
           /\ run' = [b \in Banks |-> None]
           /\ fsm' = [b \in Banks |-> "idle"]
           /\ Pop
           /\ UNCHANGED <<fcp, loaded, resets>>

(* flash_issue_cmd has polled 1000000 times: it resets a bank that is in   *)
(* BANK_TAKE, which can be any that is at a command, or its own when it is *)
(* the one waited for, and goes on waiting.                                *)
GiveUp(b) == /\ resets < MaxResets
             /\ fsm[b] # "idle"
             /\ \/ (At("issue") \/ At("accept")) /\ wr # None
                \/ At("done") /\ b = Next1.bank
             /\ resets' = resets + 1
             /\ todo' = flash_reset_one_bank(b) \o todo
             /\ UNCHANGED <<fcp, wr, run, fsm, loaded>>

-----------------------------------------------------------------------------
(* The controller.                                                         *)

(* An idle bank takes its command out of the Waiting Room. *)
Accept == /\ wr # None
          /\ fsm[wr.bank] = "idle"
          /\ run' = [run EXCEPT ![wr.bank] = wr]
          /\ fsm' = [fsm EXCEPT ![wr.bank] = "before"]
          /\ wr' = None
          /\ UNCHANGED <<fcp, todo, loaded, resets>>

(* [DRAM -> flash], or the command itself when it has no data to write.    *)
Transfer(b) == /\ fsm[b] = "before"
               /\ fsm' = [fsm EXCEPT ![b] = "after"]
               /\ UNCHANGED <<fcp, wr, run, todo, loaded, resets>>

(* The command ends, a read with [flash -> DRAM]. *)
End(b) == /\ fsm[b] = "after"
          /\ fsm' = [fsm EXCEPT ![b] = "idle"]
          /\ run' = [run EXCEPT ![b] = None]
          /\ loaded' = IF run[b].op = "read" THEN <<b, run[b].buf>> ELSE loaded
          /\ UNCHANGED <<fcp, wr, todo, resets>>

Controller == Accept \/ \E b \in Banks : End(b)

-----------------------------------------------------------------------------
(* Which buffers the controller is at.                                     *)

(* Programs whose data are still in DRAM. *)
Untransferred == {c \in {wr} \cup {run[b] : b \in {x \in Banks : fsm[x] = "before"}} :
                     c # None /\ c.op = "program"}
Sources       == {c.buf : c \in Untransferred}

(* Buffers a bank is reading into. *)
Targets == {run[b].buf : b \in {x \in Banks : fsm[x] # "idle" /\ run[x].op = "read"}}
=============================================================================
