-------------------------- MODULE SataQueueProofs ---------------------------
(***************************************************************************)
(* Proofs about the intake of commands, for a queue of any length and any  *)
(* set of slow commands.  Before the first reset the host waits for one    *)
(* command at a time; what Main and the handler are at follows from which: *)
(* a slow command is recorded or executed only while the host waits for    *)
(* one, and a transfer is under way, or put off, only while it waits for   *)
(* that transfer.                                                          *)
(***************************************************************************)
EXTENDS SataQueue, TLAPS

Slow == SlowCmds \cup {"SRST"}

(* A transfer that is put off has an event left in the queue. *)
Queue == /\ eq \in Seq(Queued)
         /\ eqFull \in BOOLEAN
         /\ eqFull => eq # << >>

OneAtATime ==
    /\ srst = FALSE
    /\ slow.status = "PENDING" => host \in Slow
    /\ pc \in {"pending", "busy", "run"} => host \in Slow
    /\ pc \in {"busy", "run"} => slow.status = "BUSY"
    /\ transfer # None => host = transfer /\ transfer \in Queued
    /\ eqFull => host \in DataCmds /\ held = host /\ transfer = None

SlowType == [status : {"NONE", "PENDING", "BUSY"}, code : Slow \cup {None}]

Inv == /\ Queue
       /\ resets \in Nat
       /\ slow \in SlowType
       /\ resets = 0 => OneAtATime

LEMMA QueueFacts ==
    /\ EqFullAt \in Nat /\ EqFullAt > 0
    /\ Slow \cap (Queued \cup {"idle", "link", "none"}) = {}
<1>1. EqFullAt \in Nat /\ EqFullAt > 0
  BY QueueAssumption
<1>2. Slow \cap (Queued \cup {"idle", "link", "none"}) = {}
  BY SlowAssumption DEF Slow, Queued, DataCmds
<1> QED
  BY <1>1, <1>2

LEMMA InvInit == Init => Inv
<1> SUFFICES ASSUME Init PROVE Inv
  OBVIOUS
<1>1. Queue /\ resets \in Nat
  <2>1. eq = << >> /\ eqFull = FALSE /\ resets = 0
    BY DEF Init
  <2>2. eq \in Seq(Queued)
    BY <2>1
  <2> QED BY <2>1, <2>2 DEF Queue
<1>2. slow \in SlowType
  BY DEF Init, SlowType
<1>3. OneAtATime
  BY DEF Init, OneAtATime
<1> QED
  BY <1>1, <1>2, <1>3 DEF Inv

(* What is in the queue, and whether a transfer is put off. *)
LEMMA QueueNext == Inv /\ [Next]_vars => Queue'
<1> SUFFICES ASSUME Inv, [Next]_vars PROVE Queue'
  OBVIOUS
<1> USE DEF Inv, Queue
<1>1. ASSUME NEW c \in DataCmds, HostData(c)
      PROVE  Queue'
  <2>1. eq' = Append(eq, c) /\ c \in Queued /\ eqFull' \in BOOLEAN
    BY <1>1 DEF HostData, Queued
  <2>2. eq' \in Seq(Queued) /\ eq' # << >>
    BY <2>1
  <2> QED BY <2>1, <2>2
<1>2. CASE HostTrim
  <2>1. eq' = Append(eq, "trim") /\ "trim" \in Queued /\ eqFull' = eqFull
    BY <1>2 DEF HostTrim, Queued
  <2>2. eq' \in Seq(Queued) /\ eq' # << >>
    BY <2>1
  <2> QED BY <2>1, <2>2
<1>3. CASE Take
  <2>1. eq # << >> /\ eq' = Tail(eq) /\ eqFull' = FALSE
    BY <1>3 DEF Take, FullAfterTake
  <2>2. eq' \in Seq(Queued)
    BY <2>1
  <2> QED BY <2>1, <2>2
<1>4. CASE UNCHANGED <<eq, eqFull>>
  BY <1>4
<1> QED
  BY <1>1, <1>2, <1>3, <1>4
     DEF Next, Main, vars, PhyOnline, LinkDown, SrstRaised, SrstLowered, HostSlow,
         TransferEnds, FtlDone, QueueEmpty, LookForSlow, SlowBusy, SlowLookup, SlowRun, SlowDone

LEMMA CountNext ==
    Inv /\ [Next]_vars => resets' \in Nat /\ (resets' = 0 => resets = 0) /\ slow' \in SlowType
<1> SUFFICES ASSUME Inv, [Next]_vars
             PROVE  resets' \in Nat /\ (resets' = 0 => resets = 0) /\ slow' \in SlowType
  OBVIOUS
<1>1. resets' = resets \/ resets' = resets + 1
  BY DEF Next, Main, vars, PhyOnline, LinkDown, SrstRaised, SrstLowered, HostData, HostTrim,
         HostSlow, TransferEnds, Take, FtlDone, QueueEmpty, LookForSlow, SlowBusy, SlowLookup,
         SlowRun, SlowDone
<1>2. \/ slow' = slow
      \/ \E c \in Slow : slow' = [status |-> "PENDING", code |-> c]
      \/ \E s \in {"NONE", "BUSY"} : slow' = [slow EXCEPT !.status = s]
  BY DEF Next, Main, vars, PhyOnline, LinkDown, SrstRaised, SrstLowered, HostData, HostTrim,
         HostSlow, TransferEnds, Take, FtlDone, QueueEmpty, LookForSlow, SlowBusy, SlowLookup,
         SlowRun, SlowDone, Record, Slow
<1>3. slow' \in SlowType
  BY <1>2 DEF Inv, SlowType
<1> QED
  BY <1>1, <1>3 DEF Inv

LEMMA OneAtATimeNext == Inv /\ [Next]_vars /\ resets' = 0 => OneAtATime'
<1> SUFFICES ASSUME Inv, [Next]_vars, resets' = 0 PROVE OneAtATime'
  OBVIOUS
<1>1. resets = 0 /\ OneAtATime /\ slow \in SlowType /\ eqFull \in BOOLEAN /\ resets \in Nat
  BY CountNext DEF Inv, Queue
<1> USE <1>1, QueueFacts DEF OneAtATime
<1>2. CASE PhyOnline
  BY <1>2 DEF PhyOnline, Record, Slow, DataCmds, Queued
<1>3. CASE LinkDown \/ SrstRaised
  BY <1>3 DEF LinkDown, SrstRaised
<1>4. CASE SrstLowered
  BY <1>4 DEF SrstLowered
<1>5. ASSUME NEW c \in DataCmds, HostData(c)
      PROVE  OneAtATime'
  BY <1>5 DEF HostData, DataCmds, Queued
<1>6. CASE HostTrim
  BY <1>6 DEF HostTrim, Queued, DataCmds
<1>7. ASSUME NEW c \in SlowCmds, HostSlow(c)
      PROVE  OneAtATime'
  BY <1>7 DEF HostSlow, Record, Slow, Queued, DataCmds
<1>8. CASE TransferEnds
  BY <1>8 DEF TransferEnds, None
<1>9. CASE Take
  BY <1>9 DEF Take, Released, FullAfterTake, Queued, DataCmds
<1>10. CASE FtlDone
  BY <1>10 DEF FtlDone
<1>11. CASE QueueEmpty
  BY <1>11 DEF QueueEmpty
<1>12. CASE LookForSlow
  BY <1>12 DEF LookForSlow
<1>13. CASE SlowBusy
  BY <1>13 DEF SlowBusy, SlowType
<1>14. CASE SlowLookup
  BY <1>14 DEF SlowLookup
<1>15. CASE SlowRun
  BY <1>15 DEF SlowRun, Queued, DataCmds
<1>16. CASE SlowDone
  BY <1>16 DEF SlowDone, SlowType
<1>17. CASE UNCHANGED vars
  BY <1>17 DEF vars
<1> QED
  BY <1>2, <1>3, <1>4, <1>5, <1>6, <1>7, <1>8, <1>9, <1>10, <1>11, <1>12, <1>13, <1>14,
     <1>15, <1>16, <1>17 DEF Next, Main

LEMMA InvNext == Inv /\ [Next]_vars => Inv'
BY QueueNext, CountNext, OneAtATimeNext DEF Inv

-----------------------------------------------------------------------------
(* A transfer that is put off when the queue is full (handle_got_cfis) has *)
(* an event whose removal starts it (eventq_get), whatever else happens.   *)
THEOREM HeldStaysReleasable == Spec => []HeldIsReleasable
<1>1. Inv => HeldIsReleasable
  BY DEF Inv, Queue, HeldIsReleasable
<1> QED
  BY <1>1, InvInit, InvNext, PTL DEF Spec

(* Until the first reset or lost link, neither Main nor the handler starts *)
(* a transfer while the hardware is at another one.                        *)
THEOREM TransfersDoNotMeet == Spec => OneTransfer
<1> DEFINE One == transfer' # transfer /\ resets = 0 => None \in {transfer, transfer'}
<1>1. ASSUME Inv, [Next]_vars, transfer' # transfer, resets = 0
      PROVE  None \in {transfer, transfer'}
  <2>1. OneAtATime
    BY <1>1 DEF Inv
  <2>2. CASE Take
    BY <1>1, <2>1, <2>2 DEF OneAtATime, Take, Released
  <2>3. ASSUME NEW c \in DataCmds, HostData(c)
        PROVE  transfer = None
    BY <2>1, <2>3 DEF OneAtATime, HostData, Queued, DataCmds
  <2>4. CASE HostTrim
    BY <2>1, <2>4 DEF OneAtATime, HostTrim, Queued, DataCmds
  <2>5. CASE LinkDown \/ SrstLowered \/ TransferEnds
    BY <2>5 DEF LinkDown, SrstLowered, TransferEnds
  <2> QED
    BY <1>1, <2>2, <2>3, <2>4, <2>5
       DEF Next, Main, vars, PhyOnline, SrstRaised, HostSlow, FtlDone, QueueEmpty,
           LookForSlow, SlowBusy, SlowLookup, SlowRun, SlowDone
<1>2. Inv /\ [Next]_vars => One
  BY <1>1
<1> QED
  BY <1>2, InvInit, InvNext, PTL DEF Spec, OneTransfer
=============================================================================
