---------------------------- MODULE RootCounter ----------------------------
(***************************************************************************)
(* One of the three root counters of src/src/timer.c: its registers, the   *)
(* tick loop with its pending reset, the synchronisation with HBlank       *)
(* (counter 0) or VBlank (counter 1), the clock divider of counter 2, and  *)
(* its interrupt in one-shot, repeat, pulse and toggle mode.               *)
(*                                                                         *)
(* timers_step is called once per slice of system time.  The slice's ticks *)
(* are counted one per step of the model, then the blank edge at its end   *)
(* is applied; the program runs between slices.                            *)
(***************************************************************************)
EXTENDS Integers

CONSTANTS
  Units,      \* which of the counters 0, 1, 2
  COUNTS,     \* values of the counter (2^16)
  DIVIDER,    \* the system clock divider of counter 2 (8)
  Modes,      \* mode values the program writes
  Values,     \* values it writes to the counter and to the target
  Slices,     \* lengths of a slice in cycles
  Ticks,      \* ticks of the external clock (dots, lines) in a slice
  MAX_IRQS    \* bound of the interrupt history

(* The mode bits a program writes; ext is the clock source bit that        *)
(* selects the dot clock, the HBlank clock, or the divided system clock.   *)
Mode == [sync : BOOLEAN, sync_mode : 0 .. 3, reset : BOOLEAN, irq_target : BOOLEAN,
         irq_overflow : BOOLEAN, repeat : BOOLEAN, toggle : BOOLEAN, ext : BOOLEAN]

ASSUME CounterAssumption ==
  /\ Units \subseteq 0 .. 2
  /\ COUNTS \in Nat \ {0, 1} /\ DIVIDER \in Nat \ {0}
  /\ Modes \subseteq Mode
  /\ Values \subseteq 0 .. COUNTS - 1
  /\ Slices \subseteq Nat \ {0} /\ Ticks \subseteq Nat
  /\ MAX_IRQS \in Nat

VARIABLES
  unit,           \* which counter this is
  value, target, mode,
  status,         \* TMODE_IRQ_STATUS (high: no interrupt)
  reached, overflowed,  \* the sticky bits
  frac_rem, fired, sync_started, reset_pending,
  istat,          \* the counter's bit of I_STAT
  blank,          \* the beam is in HBlank (counter 0), VBlank (counter 1)
  ticks, edge,    \* of the slice under way: ticks left, a blank starts at its end
  busy,           \* a slice is under way
  ideal,          \* history: a counter that returns to 0 after its target
  touched,        \* history: the program has interfered with the target
  irqs            \* history: interrupts since the mode was written

regs == <<unit, target, mode>>
vars == <<regs, value, status, reached, overflowed, frac_rem, fired, sync_started,
          reset_pending, istat, blank, ticks, edge, busy, ideal, touched, irqs>>
-----------------------------------------------------------------------------
(* timer_ticks: ticks of a slice of c cycles in which the external clock   *)
(* ticks x times.                                                          *)
RawTicks(c, x) == IF ~mode.ext THEN c
                  ELSE IF unit = 2 THEN (frac_rem + c) \div DIVIDER ELSE x

(* The remainder of the divided clock after the slice.                     *)
FracAfter(c)   == IF unit = 2 /\ mode.ext THEN (frac_rem + c) % DIVIDER
                  ELSE IF mode.ext THEN frac_rem ELSE 0

(* The next value of a counter that counts up to its target and returns to *)
(* 0, or runs through all its values.                                      *)
IdealTick == IF mode.reset /\ ideal = target THEN 0 ELSE (ideal + 1) % COUNTS

(* apply_sync_period: does the counter count in this slice?                *)
Counts ==
  ~mode.sync \/ CASE unit = 2 -> mode.sync_mode \in {1, 2}
                  [] mode.sync_mode = 0 -> ~blank
                  [] mode.sync_mode = 1 -> TRUE
                  [] mode.sync_mode = 2 -> blank
                  [] OTHER -> sync_started

(* fire_irq, as a function of the interrupt state <<status, fired, raised>>*)
(* where raised counts the interrupts.                                     *)
Idle(s)  == ~mode.repeat /\ s.fired
Toggled(s) == [status |-> ~s.status, fired |-> s.fired \/ s.status,
               raised |-> s.raised + (IF s.status THEN 1 ELSE 0)]
Pulsed(s)  == [status |-> TRUE, fired |-> TRUE, raised |-> s.raised + 1]

(* Mutant: one-shot is not respected.                                      *)
FireAlways(s) == IF mode.toggle THEN Toggled(s) ELSE Pulsed(s)

Fire(s) == IF Idle(s) THEN s ELSE IF mode.toggle THEN Toggled(s) ELSE Pulsed(s)
-----------------------------------------------------------------------------
(* The program, between slices.                                            *)
WriteMode(m) ==
  /\ ~busy
  /\ mode' = m
  /\ value' = 0 /\ frac_rem' = 0 /\ fired' = FALSE
  /\ sync_started' = FALSE /\ reset_pending' = FALSE
  /\ status' = TRUE /\ reached' = FALSE /\ overflowed' = FALSE
  /\ ideal' = 0 /\ irqs' = 0 /\ touched' = (target = 0)
  /\ UNCHANGED <<unit, target, istat, blank, ticks, edge, busy>>

(* A pending reset is not cancelled: the next tick discards the value.     *)
WriteValue(v) ==
  /\ ~busy
  /\ value' = v /\ frac_rem' = 0
  /\ ideal' = v
  /\ touched' = (touched \/ reset_pending \/ v = target)
  /\ UNCHANGED <<regs, status, reached, overflowed, fired, sync_started,
                 reset_pending, istat, blank, ticks, edge, busy, irqs>>

WriteTarget(v) ==
  /\ ~busy
  /\ target' = v
  /\ touched' = (touched \/ reset_pending \/ v \in {0, value})
  /\ UNCHANGED <<unit, mode, value, status, reached, overflowed, frac_rem, fired,
                 sync_started, reset_pending, istat, blank, ticks, edge, busy,
                 ideal, irqs>>

ReadMode ==
  /\ ~busy
  /\ reached' = FALSE /\ overflowed' = FALSE
  /\ UNCHANGED <<regs, value, status, frac_rem, fired, sync_started, reset_pending,
                 istat, blank, ticks, edge, busy, ideal, touched, irqs>>

AckIStat ==
  /\ ~busy
  /\ istat' = FALSE
  /\ UNCHANGED <<regs, value, status, reached, overflowed, frac_rem, fired,
                 sync_started, reset_pending, blank, ticks, edge, busy, ideal, touched, irqs>>
-----------------------------------------------------------------------------
(* timers_step.                                                            *)

(* A slice starts, in or out of a blank; a blank may start at its end.     *)
StartSlice(c, x, e) ==
  /\ ~busy
  /\ e => ~blank
  /\ frac_rem' = FracAfter(c)
  /\ ticks' = IF Counts THEN RawTicks(c, x) ELSE 0
  /\ edge' = e
  /\ busy' = TRUE
  /\ UNCHANGED <<regs, value, status, reached, overflowed, fired, sync_started,
                 reset_pending, istat, blank, ideal, touched, irqs>>

(* timer_advance: a tick that carries out the pending reset.               *)
ResetTick ==
  /\ busy /\ ticks > 0
  /\ reset_pending
  /\ value' = 0
  /\ reset_pending' = FALSE
  /\ ticks' = ticks - 1
  /\ ideal' = IdealTick
  /\ UNCHANGED <<regs, status, reached, overflowed, frac_rem, fired, sync_started,
                 istat, blank, edge, busy, touched, irqs>>

(* timer_advance: a tick that counts.                                      *)
CountTick ==
  LET up     == (value + 1) % COUNTS
      hit    == up = target
      wraps  == value = COUNTS - 1
      before == [status |-> status, fired |-> fired, raised |-> 0]
      first  == IF hit /\ mode.irq_target THEN Fire(before) ELSE before
      after  == IF wraps /\ mode.irq_overflow THEN Fire(first) ELSE first
  IN
  /\ busy /\ ticks > 0
  /\ ~reset_pending
  /\ value' = up
  /\ reached' = (reached \/ hit)
  /\ overflowed' = (overflowed \/ wraps)
  /\ reset_pending' = (hit /\ mode.reset)
  /\ status' = after.status /\ fired' = after.fired
  /\ istat' = (istat \/ after.raised > 0)
  /\ irqs' = IF irqs + after.raised > MAX_IRQS THEN MAX_IRQS ELSE irqs + after.raised
  /\ ticks' = ticks - 1
  /\ ideal' = IdealTick
  /\ UNCHANGED <<regs, frac_rem, sync_started, blank, edge, busy, touched>>

(* Mutant: a pending reset survives the reset at the blank.                *)
EndSliceKeepsReset ==
  LET zero == edge /\ mode.sync /\ unit # 2 /\ mode.sync_mode \in {1, 2} IN
  /\ busy /\ ticks = 0
  /\ busy' = FALSE /\ edge' = FALSE
  /\ \E b \in BOOLEAN : (edge => b) /\ (~edge /\ ~blank => ~b) /\ blank' = b
  /\ value' = IF zero THEN 0 ELSE value
  /\ ideal' = IF zero THEN 0 ELSE ideal
  /\ UNCHANGED reset_pending
  /\ sync_started' = (sync_started \/ (edge /\ mode.sync /\ unit # 2 /\ mode.sync_mode = 3))
  /\ UNCHANGED <<regs, status, reached, overflowed, frac_rem, fired, istat, ticks,
                 touched, irqs>>

(* apply_sync_edge; the blank then lasts until the end of some slice.      *)
EndSlice ==
  LET zero == edge /\ mode.sync /\ unit # 2 /\ mode.sync_mode \in {1, 2} IN
  /\ busy /\ ticks = 0
  /\ busy' = FALSE /\ edge' = FALSE
  /\ \E b \in BOOLEAN : (edge => b) /\ (~edge /\ ~blank => ~b) /\ blank' = b
  /\ value' = IF zero THEN 0 ELSE value
  /\ ideal' = IF zero THEN 0 ELSE ideal
  /\ reset_pending' = (reset_pending /\ ~zero)
  /\ sync_started' = (sync_started \/ (edge /\ mode.sync /\ unit # 2 /\ mode.sync_mode = 3))
  /\ UNCHANGED <<regs, status, reached, overflowed, frac_rem, fired, istat, ticks,
                 touched, irqs>>

(* timers_init; a mode of all zeros.                                       *)
Init ==
  /\ unit \in Units
  /\ value = 0 /\ target = 0
  /\ mode = [sync |-> FALSE, sync_mode |-> 0, reset |-> FALSE, irq_target |-> FALSE,
             irq_overflow |-> FALSE, repeat |-> FALSE, toggle |-> FALSE, ext |-> FALSE]
  /\ status = FALSE /\ reached = FALSE /\ overflowed = FALSE
  /\ frac_rem = 0 /\ fired = FALSE /\ sync_started = FALSE /\ reset_pending = FALSE
  /\ istat = FALSE /\ blank = FALSE
  /\ ticks = 0 /\ edge = FALSE /\ busy = FALSE
  /\ ideal = 0 /\ touched = TRUE /\ irqs = 0

Program ==
  \/ \E m \in Modes : WriteMode(m)
  \/ \E v \in Values : WriteValue(v) \/ WriteTarget(v)
  \/ ReadMode
  \/ AckIStat

Step ==
  \/ \E c \in Slices, x \in Ticks, e \in BOOLEAN : StartSlice(c, x, e)
  \/ ResetTick \/ CountTick \/ EndSlice

Next == Program \/ Step

Spec == Init /\ [][Next]_vars
-----------------------------------------------------------------------------
(* The counter with its pending reset counts like one that returns from    *)
(* its target to 0 in one tick: a period of target + 1 ticks, across slice *)
(* ends, blanks that zero it and pauses, for every synchronisation mode.   *)
(* A program that moves counter and target onto each other, writes the     *)
(* counter while the reset is pending, or sets the target 0 is outside of  *)
(* this (touched) until it writes the mode.  (timer_advance,               *)
(* apply_sync_edge, timers_store32)                                        *)
IdealCounter == ~touched => value = ideal

(* A one-shot counter raises one interrupt per write of its mode, from     *)
(* target and overflow together, in pulse and in toggle mode.  (fire_irq)  *)
OneShotOnce == ~mode.repeat => irqs <= 1
=============================================================================
