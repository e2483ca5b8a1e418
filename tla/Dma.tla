-------------------------------- MODULE Dma --------------------------------
(***************************************************************************)
(* The DMA controller: src/src/dma.c, src/src/channel.c and the register   *)
(* accesses of src/src/interconnect.c.                                     *)
(*                                                                         *)
(* A transfer runs to its end inside the store that starts it (do_dma),    *)
(* then dma_finish clears the channel's start bits, sets the channel's     *)
(* flag if its interrupt is enabled and looks for a rising edge of the     *)
(* interrupt condition.  An edge is delivered to I_STAT by dma_step, when  *)
(* the current quantum of the CPU ends; the program can access the         *)
(* registers in between.                                                   *)
(*                                                                         *)
(* The words a transfer moves are left to modules DmaList and the devices. *)
(***************************************************************************)
EXTENDS Integers

CONSTANTS
  Ports,     \* the DMA channels
  Controls   \* the channel control values the program writes

Syncs == {"manual", "request", "linked_list"}

(* The bits of CHCR that control the transfer.                             *)
Channel == [enable : BOOLEAN, trigger : BOOLEAN, sync : Syncs]

ASSUME ControlsAssumption == Controls \subseteq Channel

VARIABLES
  channels,     \* the channels' control registers
  dicr,         \* DICR: force_irq, irq_en, channel_irq_en, channel_irq_flags
  irq_line,     \* the interrupt condition when last looked at
  irq_pending,  \* an edge not yet delivered
  istat,        \* the DMA bit of I_STAT
  owed          \* history: a rising edge that I_STAT has not shown

vars == <<channels, dicr, irq_line, irq_pending, istat, owed>>

Dicr == [force : BOOLEAN, en : BOOLEAN, chan_en : SUBSET Ports, flags : SUBSET Ports]
-----------------------------------------------------------------------------
Idle == [enable |-> FALSE, trigger |-> FALSE, sync |-> "manual"]

(* channel_active and channel_done.                                        *)
Active(c) == c.enable /\ (c.sync = "manual" => c.trigger)

Done(c)   == [c EXCEPT !.enable = FALSE, !.trigger = FALSE]

(* dma_irq: bit 31 of DICR.                                                *)
Irq(d) == d.force \/ (d.en /\ d.flags \cap d.chan_en # {})

(* dma_mark_channel_done: the flag is set only if both enables are.        *)
MarkDone(d, p) ==
  IF d.en /\ p \in d.chan_en THEN [d EXCEPT !.flags = @ \cup {p}] ELSE d

(* Mutant: dma_update_irq forgets an undelivered edge when the condition   *)
(* falls again.                                                            *)
UpdateIrqDrops(d) ==
  /\ dicr' = d
  /\ irq_pending' = (Irq(d) /\ (irq_pending \/ ~irq_line))
  /\ irq_line' = Irq(d)
  /\ owed' = (owed \/ (Irq(d) /\ ~Irq(dicr)))

(* DICR becomes d, followed by dma_update_irq.                             *)
UpdateIrq(d) ==
  /\ dicr' = d
  /\ irq_pending' = (irq_pending \/ (Irq(d) /\ ~irq_line))
  /\ irq_line' = Irq(d)
  /\ owed' = (owed \/ (Irq(d) /\ ~Irq(dicr)))
-----------------------------------------------------------------------------
(* A store to a channel's CHCR (a new c), MADR or BCR (c unchanged): if it *)
(* leaves the channel active the transfer runs at once, to its end.        *)
WriteChannel(p, c) ==
  /\ \/ /\ Active(c)
        /\ channels' = [channels EXCEPT ![p] = Done(c)]
        /\ UpdateIrq(MarkDone(dicr, p))
     \/ /\ ~Active(c)
        /\ channels' = [channels EXCEPT ![p] = c]
        /\ UNCHANGED <<dicr, irq_line, irq_pending, owed>>
  /\ UNCHANGED istat

(* dma_set_interrupt: ones in the flag bits acknowledge flags.             *)
SetInterrupt(v) ==
  UpdateIrq([force |-> v.force, en |-> v.en, chan_en |-> v.chan_en,
             flags |-> dicr.flags \ v.flags])

WriteDicr(v) == SetInterrupt(v) /\ UNCHANGED <<channels, istat>>

(* An 8- or 16-bit store reads the register, replaces a part of it and     *)
(* writes all of it back: outside the flag byte the flags that are set are *)
(* written back as acknowledgements.                                       *)
WriteDicrForce(b) ==
  SetInterrupt([dicr EXCEPT !.force = b]) /\ UNCHANGED <<channels, istat>>
WriteDicrEnables(b, s) ==
  SetInterrupt([dicr EXCEPT !.en = b, !.chan_en = s]) /\ UNCHANGED <<channels, istat>>
WriteDicrFlags(s) ==
  SetInterrupt([dicr EXCEPT !.flags = s]) /\ UNCHANGED <<channels, istat>>

(* The program acknowledges the DMA bit of I_STAT.                         *)
AckIStat == /\ istat' = FALSE
            /\ UNCHANGED <<channels, dicr, irq_line, irq_pending, owed>>

(* Mutant: dma_step delivers only while the condition still holds.         *)
StepLevel ==
  /\ irq_pending /\ irq_line
  /\ irq_pending' = FALSE
  /\ istat' = TRUE
  /\ owed' = FALSE
  /\ UNCHANGED <<channels, dicr, irq_line>>

(* dma_step, at the start of advance_system_cycles.                        *)
Step ==
  /\ irq_pending
  /\ irq_pending' = FALSE
  /\ istat' = TRUE
  /\ owed' = FALSE
  /\ UNCHANGED <<channels, dicr, irq_line>>

Init ==
  /\ channels = [p \in Ports |-> Idle]
  /\ dicr = [force |-> FALSE, en |-> FALSE, chan_en |-> {}, flags |-> {}]
  /\ irq_line = FALSE /\ irq_pending = FALSE
  /\ istat = FALSE /\ owed = FALSE

Program ==
  \/ \E p \in Ports : \E c \in Controls \cup {channels[p]} : WriteChannel(p, c)
  \/ \E v \in Dicr : WriteDicr(v)
  \/ \E b \in BOOLEAN : WriteDicrForce(b)
  \/ \E b \in BOOLEAN, s \in SUBSET Ports : WriteDicrEnables(b, s)
  \/ \E s \in SUBSET Ports : WriteDicrFlags(s)
  \/ AckIStat

Next == Program \/ Step

Spec == Init /\ [][Next]_vars

(* Quanta end: the CPU always makes progress.                              *)
FairSpec == Spec /\ WF_vars(Step)
-----------------------------------------------------------------------------
TypeOK ==
  /\ channels \in [Ports -> Channel]
  /\ dicr \in Dicr
  /\ irq_line \in BOOLEAN /\ irq_pending \in BOOLEAN
  /\ istat \in BOOLEAN /\ owed \in BOOLEAN

(* The remembered interrupt condition is the one DICR bit 31 shows, after  *)
(* every store and every transfer: no path changes DICR without looking    *)
(* for an edge.  (dma_update_irq, dma_finish, dma_reg_write)               *)
LineFollowsDicr == irq_line = Irq(dicr)

(* An interrupt is pending exactly for the rising edges of DICR bit 31     *)
(* that I_STAT has not shown: none is lost when the program acknowledges   *)
(* DICR before the quantum ends, none is delivered twice.                  *)
EdgesOwed == irq_pending = owed

(* Every transfer is complete when the store that starts it returns: the   *)
(* program never reads a start bit set, and no later store to the address  *)
(* or size register starts a transfer again.  (do_dma, channel_done)       *)
NoTransferInFlight == \A p \in Ports : ~Active(channels[p])

(* Every rising edge reaches I_STAT.                                       *)
EdgesDelivered == owed ~> istat
=============================================================================
