--------------------------- MODULE MCRootCounter ---------------------------
(* Counters of four values.  The modes vary how the counter counts, or     *)
(* when it interrupts.                                                     *)
EXTENDS RootCounter
CountingModes == {m \in Mode : ~m.irq_target /\ ~m.irq_overflow /\ ~m.repeat /\ ~m.toggle}
IrqModes      == {m \in Mode : ~m.sync /\ m.sync_mode = 0 /\ ~m.ext}
MCModes       == CountingModes \cup IrqModes
=============================================================================
