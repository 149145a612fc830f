----------------------------- MODULE SataQueue ------------------------------
(***************************************************************************)
(* How the commands of the host reach the translation layer: the FIQ       *)
(* handler (sata_isr.c) puts reads, writes and trims into the event queue  *)
(* of the SATA hardware and records any other, "slow", command in one      *)
(* variable; the Main loop (sata_main.c) serves the queue, and the slow    *)
(* command when it has found the queue empty.  The handler can run between *)
(* any two steps of Main except inside eventq_get, which disables it.      *)
(*                                                                         *)
(* The host sends a command when the one before has been answered (there   *)
(* is no NCQ), a soft reset (SRST) at any time, and the link can go down.  *)
(* The hardware is modelled by what the code relies on: it transfers data  *)
(* once a transfer is started (SATA_CTRL_2) and then answers the host.     *)
(***************************************************************************)
EXTENDS Naturals, Sequences

CONSTANTS SlowCmds,   \* commands without data for the translation layer
          EqFullAt,   \* entries at which SATA_EQ_STATUS says full
          MaxQueue,   \* bound: entries at which the host pauses
          MaxResets   \* bound: resets and lost links

ASSUME QueueAssumption == EqFullAt \in 1 .. MaxQueue /\ MaxResets \in Nat

DataCmds == {"read", "write"}
Queued   == DataCmds \cup {"trim"}
None     == "none"

ASSUME SlowAssumption == SlowCmds \cap (Queued \cup {"idle", "link", "SRST", "none"}) = {}

VARIABLES host,      \* the command the host waits for, "idle", or "link"
          eq,        \* the event queue
          eqFull,    \* g_sata_context.eq_full
          held,      \* g_sata_action_flags: the transfer put off by eq_full
          transfer,  \* the transfer the hardware is at
          fetched,   \* the data of the read has reached the read buffer
          slow,      \* g_sata_context.slow_cmd
          srst,      \* g_sata_context.srst
          pc,        \* where Main is
          cmd,       \* its local: the event or the function it executes
          resets     \* history: resets and lost links so far

vars == <<host, eq, eqFull, held, transfer, fetched, slow, srst, pc, cmd, resets>>

(* sata_reset: nothing happens before the link is up. *)
Init == /\ host = "link"
        /\ eq = << >>
        /\ eqFull = FALSE
        /\ held = None
        /\ transfer = None
        /\ fetched = FALSE
        /\ slow = [status |-> "NONE", code |-> None]
        /\ srst = FALSE
        /\ pc = "poll"
        /\ cmd = None
        /\ resets = 0

-----------------------------------------------------------------------------
(* The FIQ handler, with the event it answers to.                          *)

Record(c) == slow' = [status |-> "PENDING", code |-> c]

(* fiq_handler, PHY_ONLINE: regarded as an SRST. *)
PhyOnline == /\ host = "link"
             /\ host' = "SRST"
             /\ Record("SRST")
             /\ UNCHANGED <<eq, eqFull, held, transfer, fetched, srst, pc, cmd, resets>>

(* The link is lost (never, here, while SRST is raised). *)
LinkDown == /\ host # "link"
            /\ ~srst
            /\ resets < MaxResets
            /\ resets' = resets + 1
            /\ host' = "link"
            /\ transfer' = None
            /\ UNCHANGED <<eq, eqFull, held, fetched, slow, srst, pc, cmd>>

(* handle_srst: the bit is raised, and lowered again. *)
SrstRaised == /\ host # "link"
              /\ ~srst
              /\ resets < MaxResets
              /\ resets' = resets + 1
              /\ srst' = TRUE
              /\ host' = "SRST"
              /\ UNCHANGED <<eq, eqFull, held, transfer, fetched, slow, pc, cmd>>

SrstLowered == /\ srst
               /\ srst' = FALSE
               /\ transfer' = None
               /\ Record("SRST")
               /\ UNCHANGED <<host, eq, eqFull, held, fetched, pc, cmd, resets>>

(* SATA_EQ_STATUS, the entry having been inserted. *)
Full(q) == Len(q) >= EqFullAt

(* handle_got_cfis, a read or a write: into the queue, and the transfer    *)
(* starts unless the queue is full now.                                    *)
HostData(c) == /\ host = "idle"
               /\ Len(eq) < MaxQueue
               /\ host' = c
               /\ eq' = Append(eq, c)
               /\ fetched' = IF c = "read" THEN FALSE ELSE fetched
               /\ IF Full(eq')
                  THEN eqFull' = TRUE /\ held' = c /\ UNCHANGED transfer
                  ELSE transfer' = c /\ UNCHANGED <<eqFull, held>>
               /\ UNCHANGED <<slow, srst, pc, cmd, resets>>

(* handle_got_cfis, a trim: its transfer starts at once. *)
HostTrim == /\ host = "idle"
            /\ Len(eq) < MaxQueue
            /\ host' = "trim"
            /\ eq' = Append(eq, "trim")
            /\ transfer' = "trim"
            /\ UNCHANGED <<eqFull, held, fetched, slow, srst, pc, cmd, resets>>

(* handle_got_cfis, any other command. *)
HostSlow(c) == /\ host = "idle"
               /\ host' = c
               /\ Record(c)
               /\ UNCHANGED <<eq, eqFull, held, transfer, fetched, srst, pc, cmd, resets>>

(* The hardware: a transfer ends, that of a read when there is data.       *)
TransferEnds == /\ transfer # None
                /\ transfer = "read" => fetched
                /\ transfer' = None
                /\ host' = IF host = transfer THEN "idle" ELSE host
                /\ UNCHANGED <<eq, eqFull, held, fetched, slow, srst, pc, cmd, resets>>

-----------------------------------------------------------------------------
(* Main.                                                                   *)

(* A mutant: the transfer put off is forgotten. *)
MutNotReleased == transfer

(* A mutant: the mark of a transfer put off outlives its start. *)
MutStaysFull == eqFull

FullAfterTake == FALSE

(* eventq_get starts the transfer put off, if the link is up. *)
Released == IF eqFull /\ host # "link" THEN held ELSE transfer

(* eventq_get_count and eventq_get *)
Take == /\ pc = "poll"
        /\ eq # << >>
        /\ cmd' = Head(eq)
        /\ eq' = Tail(eq)
        /\ transfer' = Released
        /\ eqFull' = FullAfterTake
        /\ pc' = "ftl"
        /\ UNCHANGED <<host, held, fetched, slow, srst, resets>>

(* ftl_read, ftl_write, ftl_trim *)
FtlDone == /\ pc = "ftl"
           /\ fetched' = (fetched \/ cmd = "read")
           /\ pc' = "poll"
           /\ UNCHANGED <<host, eq, eqFull, held, transfer, slow, srst, cmd, resets>>

QueueEmpty == /\ pc = "poll"
              /\ eq = << >>
              /\ pc' = "slow"
              /\ UNCHANGED <<host, eq, eqFull, held, transfer, fetched, slow, srst, cmd, resets>>

LookForSlow == /\ pc = "slow"
               /\ pc' = IF slow.status = "PENDING" THEN "pending" ELSE "poll"
               /\ UNCHANGED <<host, eq, eqFull, held, transfer, fetched, slow, srst, cmd, resets>>

SlowBusy == /\ pc = "pending"
            /\ slow' = [slow EXCEPT !.status = "BUSY"]
            /\ pc' = "busy"
            /\ UNCHANGED <<host, eq, eqFull, held, transfer, fetched, srst, cmd, resets>>

(* A mutant: what was looked up last is executed. *)
MutSlowLookup == /\ pc = "busy"
                 /\ pc' = "run"
                 /\ UNCHANGED <<host, eq, eqFull, held, transfer, fetched, slow, srst, cmd, resets>>

(* search_ata_function *)
SlowLookup == /\ pc = "busy"
              /\ cmd' = slow.code
              /\ pc' = "run"
              /\ UNCHANGED <<host, eq, eqFull, held, transfer, fetched, slow, srst, resets>>

(* The function ends by sending the host its status, if the link is up.    *)
(* (A host that is raising SRST takes no answer.)                          *)
SlowRun == /\ pc = "run"
           /\ host' = IF host = "link" \/ srst THEN host ELSE "idle"
           /\ pc' = "ran"
           /\ UNCHANGED <<eq, eqFull, held, transfer, fetched, slow, srst, cmd, resets>>

SlowDone == /\ pc = "ran"
            /\ slow' = [slow EXCEPT !.status = "NONE"]
            /\ pc' = "poll"
            /\ UNCHANGED <<host, eq, eqFull, held, transfer, fetched, srst, cmd, resets>>

Main == Take \/ FtlDone \/ QueueEmpty \/ LookForSlow \/ SlowBusy \/ SlowLookup \/ SlowRun \/ SlowDone

Next == \/ PhyOnline \/ LinkDown \/ SrstRaised \/ SrstLowered
        \/ \E c \in DataCmds : HostData(c)
        \/ HostTrim
        \/ \E c \in SlowCmds : HostSlow(c)
        \/ TransferEnds
        \/ Main

(* Main never waits for the host, and the hardware ends what it starts. *)
Spec == Init /\ [][Next]_vars /\ WF_vars(Main) /\ WF_vars(TransferEnds)

-----------------------------------------------------------------------------
(* A read or a write is answered, however full the queue was when it came, *)
(* unless the host gives it up with a reset.                               *)
DataServed == \A c \in DataCmds : host = c ~> host # c

(* A transfer is put off only while there is an event whose removal from   *)
(* the queue will start it.                                                *)
HeldIsReleasable == eqFull => eq # << >>

(* The hardware is at one transfer at a time while no reset has come in    *)
(* between: Main releases none while the handler's is still under way.     *)
OneTransfer == [][transfer' # transfer /\ resets = 0 => None \in {transfer, transfer'}]_vars

(* A soft reset is executed, whatever Main was doing when it was recorded  *)
(* and however full the queue was, unless a slow command is just returning *)
(* (see SrstExecuted).                                                     *)
SrstServed ==
    slow = [status |-> "PENDING", code |-> "SRST"] /\ pc \notin {"run", "ran"}
        ~> \/ pc = "run" /\ cmd = "SRST"
           \/ slow.code # "SRST"

(* "SRST request is regarded as if it were an ATA command": once recorded  *)
(* it is executed, not dropped.                                            *)
SrstExecuted == [][slow.status = "PENDING" /\ slow.code = "SRST" => slow'.status # "NONE"]_vars
=============================================================================
