---------------------------- MODULE SystemClock ----------------------------
(***************************************************************************)
(* How emulated time passes: the quantum loop of main() and                *)
(* advance_system_cycles (src/src/main.c), the event scheduler             *)
(* (src/src/scheduler.c), the beam of gpu_step (src/src/gpu.c) and the     *)
(* countdown of the serial port (sio_step, src/src/sio.c).                 *)
(*                                                                         *)
(* The CPU runs instructions until a quantum of cycles is due.  The        *)
(* quantum is then cut in slices, none of which runs past a scheduler      *)
(* event, an edge of the beam (HBlank or line end) or the serial           *)
(* countdown, so that every device sees each edge at its cycle.  The loop  *)
(* of gpu_step is modelled one iteration per step.                         *)
(*                                                                         *)
(* Time is relative: due[e] is fire_at - current_cycle.  Rendering, sound, *)
(* the pad script and the root counters do not feed back into this loop    *)
(* and are left out; dma_step, which delivers the DMA interrupt when a     *)
(* quantum starts, is in module Dma.                                       *)
(***************************************************************************)
EXTENDS Integers

CONSTANTS
  Modes,         \* video modes (VMODE_NTSC, VMODE_PAL)
  PowerOn,       \* the mode gpu_init and GP1(00h) select (VMODE_NTSC)
  LINES,         \* lines per frame of each mode (263, 314)
  FRAME_CYCLES,  \* CPU cycles per frame of each mode (564480, 677376)
  HBLANK_PHASE,  \* line phase at which HBlank starts (gpu_hblank_phase)
  VBLANK_LINE,   \* first line of the vertical blank (240)
  PHASE_SPACE,   \* number of values of line_phase (2^64)
  QUANTUM,       \* CPU_CYCLE_QUANTUM (100)
  Costs,         \* cycles an instruction can take
  Events,        \* scheduler slots in use (EVENT_CDROM_IRQ)
  Delays,        \* delays they are scheduled with
  SioDelays      \* times of a serial byte

ASSUME ModesAssumption ==
  /\ PowerOn \in Modes
  /\ LINES \in [Modes -> Nat \ {0}]
  /\ FRAME_CYCLES \in [Modes -> Nat]
  /\ HBLANK_PHASE \in [Modes -> Nat]
  /\ VBLANK_LINE \in Nat \ {0}
  /\ PHASE_SPACE \in Nat
  /\ \A m \in Modes : /\ LINES[m] < HBLANK_PHASE[m]
                      /\ LINES[m] < FRAME_CYCLES[m] - HBLANK_PHASE[m]
                      /\ VBLANK_LINE < LINES[m]
                      /\ FRAME_CYCLES[m] < PHASE_SPACE

ASSUME TimesAssumption ==
  /\ QUANTUM \in Nat \ {0}
  /\ Costs \subseteq Nat \ {0}
  /\ Delays \subseteq Nat \ {0}
  /\ SioDelays \subseteq Nat \ {0}

VARIABLES
  pc,         \* where advance_system_cycles stands
  quantum,    \* cpu_quantum_cycles
  remaining,  \* cycles of the quantum still to pass
  slice,      \* the slice being passed
  advance,    \* phase_advance of gpu_step
  seen,       \* GpuTimingEvents of the slice: edges crossed, VBlank, frame end
  due,        \* cycles until each scheduler event fires, or Off
  fired,      \* events the slice has fired
  sio_left,   \* irq_cycles_remaining
  sio_irq,    \* irq_pending of the serial port
  istat,      \* VBLANK and SIO bits of I_STAT
  vmode, hblank, line_phase, scanline,
  vblanked    \* history: VBlanks since the last frame end

beam == <<hblank, line_phase, scanline, vblanked>>
vars == <<pc, quantum, remaining, slice, advance, seen, due, fired, sio_left,
          sio_irq, istat, vmode, beam>>

Off    == -1
Unseen == [edges |-> 0, vblank |-> FALSE, frame |-> FALSE]
-----------------------------------------------------------------------------
(* The edge the beam is heading for.                                       *)
Target == IF hblank THEN FRAME_CYCLES[vmode] ELSE HBLANK_PHASE[vmode]

(* Mutant: only the line end bounds a slice.                               *)
UntilBoundaryLineEnd ==
  IF line_phase >= FRAME_CYCLES[vmode] THEN 1
  ELSE (FRAME_CYCLES[vmode] - line_phase + LINES[vmode] - 1) \div LINES[vmode]

(* gpu_cycles_until_timing_boundary, rounded up to whole cycles.           *)
UntilBoundary ==
  IF line_phase >= Target THEN 1
  ELSE (Target - line_phase + LINES[vmode] - 1) \div LINES[vmode]

(* Mutant: the slice does not stop at the scheduler's next event.          *)
SliceBoundsNoEvent ==
  {remaining, UntilBoundary} \cup (IF sio_left > 0 THEN {sio_left} ELSE {})

(* What bounds the next slice; a slot that is not active and an idle       *)
(* serial port do not (they yield UINT32_MAX).                             *)
SliceBounds ==
  {remaining, UntilBoundary}
    \cup {due[e] : e \in {x \in Events : due[x] # Off}}
    \cup (IF sio_left > 0 THEN {sio_left} ELSE {})
-----------------------------------------------------------------------------
(* The CPU.  Every instruction takes time and may access one device.       *)
TimeFrame  == UNCHANGED <<slice, advance, seen, fired, hblank, line_phase,
                          scanline, vblanked>>
NoAccess   == UNCHANGED <<due, sio_left, sio_irq, istat, vmode>>

(* GP1(08h) and GP1(00h) change the video mode and leave the beam alone,   *)
(* which may then be past the edge of a shorter line.                      *)
SetMode == /\ \E m \in Modes : vmode' = m
           /\ UNCHANGED <<due, sio_left, sio_irq, istat>>

(* scheduler_schedule and scheduler_cancel.                                *)
Schedule == /\ \E e \in Events, d \in Delays \cup {Off} : due' = [due EXCEPT ![e] = d]
            /\ UNCHANGED <<sio_left, sio_irq, istat, vmode>>

(* schedule_ack_irq, and CTRL_RESET, which stops the countdown.            *)
StartSio == /\ sio_left' \in SioDelays
            /\ UNCHANGED <<due, sio_irq, istat, vmode>>
ResetSio == /\ sio_left' = 0 /\ sio_irq' = FALSE
            /\ UNCHANGED <<due, istat, vmode>>

AckIStat == /\ \E b \in istat : istat' = istat \ {b}
            /\ UNCHANGED <<due, sio_left, sio_irq, vmode>>

Instruction(n) ==
  /\ pc = "cpu"
  /\ quantum' = quantum + n
  /\ pc' = IF quantum + n >= QUANTUM THEN "slice" ELSE "cpu"
  /\ remaining' = IF quantum + n >= QUANTUM THEN QUANTUM ELSE 0
  /\ NoAccess \/ SetMode \/ Schedule \/ StartSio \/ ResetSio \/ AckIStat
  /\ TimeFrame
-----------------------------------------------------------------------------
(* advance_system_cycles.                                                  *)

(* Choose the slice and step the scheduler by it.                          *)
Slice ==
  /\ pc = "slice"
  /\ \E s \in SliceBounds : (\A b \in SliceBounds : s <= b) /\ slice' = s
  /\ fired' = {e \in Events : due[e] # Off /\ due[e] <= slice'}
  /\ due' = [e \in Events |-> IF due[e] = Off \/ e \in fired' THEN Off
                              ELSE due[e] - slice']
  /\ advance' = slice' * LINES[vmode]
  /\ seen' = Unseen
  /\ pc' = IF slice' > 0 THEN "gpu" ELSE "events"
  /\ UNCHANGED <<quantum, remaining, sio_left, sio_irq, istat, vmode, beam>>

(* What is left of the way to the edge, in 64 unsigned bits.               *)
PhaseLeft == (Target - line_phase) % PHASE_SPACE

(* Mutant: the way travelled in a slice that stops short is forgotten.     *)
BeamRunsStill ==
  /\ pc = "gpu" /\ advance > 0
  /\ advance < PhaseLeft
  /\ advance' = 0
  /\ UNCHANGED <<pc, quantum, remaining, slice, seen, due, fired, sio_left,
                 sio_irq, istat, vmode, beam>>

(* gpu_step, an iteration that stops short of the edge.                    *)
BeamRuns ==
  /\ pc = "gpu" /\ advance > 0
  /\ advance < PhaseLeft
  /\ line_phase' = (line_phase + advance) % PHASE_SPACE
  /\ advance' = 0
  /\ UNCHANGED <<pc, quantum, remaining, slice, seen, due, fired, sio_left,
                 sio_irq, istat, vmode, hblank, scanline, vblanked>>

BeamEntersHBlank ==
  /\ pc = "gpu" /\ advance > 0
  /\ advance >= PhaseLeft /\ ~hblank
  /\ line_phase' = Target
  /\ advance' = advance - PhaseLeft
  /\ hblank' = TRUE
  /\ seen' = [seen EXCEPT !.edges = @ + 1]
  /\ UNCHANGED <<pc, quantum, remaining, slice, due, fired, sio_left, sio_irq,
                 istat, vmode, scanline, vblanked>>

(* Mutant: every line of the vertical blank starts a VBlank.               *)
BeamEndsLineEvery ==
  /\ pc = "gpu" /\ advance > 0
  /\ advance >= PhaseLeft /\ hblank
  /\ line_phase' = 0
  /\ advance' = advance - PhaseLeft
  /\ hblank' = FALSE
  /\ LET last  == scanline + 1 >= LINES[vmode]
         blank == scanline + 1 >= VBLANK_LINE IN
     /\ scanline' = IF last THEN 0 ELSE scanline + 1
     /\ seen' = [edges |-> seen.edges + 1, vblank |-> seen.vblank \/ blank,
                 frame |-> seen.frame \/ last]
     /\ vblanked' = IF last THEN 0 ELSE vblanked + (IF blank THEN 1 ELSE 0)
  /\ UNCHANGED <<pc, quantum, remaining, slice, due, fired, sio_left, sio_irq,
                 istat, vmode>>

BeamEndsLine ==
  /\ pc = "gpu" /\ advance > 0
  /\ advance >= PhaseLeft /\ hblank
  /\ line_phase' = 0
  /\ advance' = advance - PhaseLeft
  /\ hblank' = FALSE
  /\ LET last  == scanline + 1 >= LINES[vmode]
         blank == scanline + 1 = VBLANK_LINE IN
     /\ scanline' = IF last THEN 0 ELSE scanline + 1
     /\ seen' = [edges |-> seen.edges + 1, vblank |-> seen.vblank \/ blank,
                 frame |-> seen.frame \/ last]
     /\ vblanked' = IF last THEN 0 ELSE vblanked + (IF blank THEN 1 ELSE 0)
  /\ UNCHANGED <<pc, quantum, remaining, slice, due, fired, sio_left, sio_irq,
                 istat, vmode>>

(* After gpu_step: sio_step counts down and raises SIO while its interrupt *)
(* is pending, a VBlank that has started raises VBLANK.                    *)
Devices ==
  /\ pc = "gpu" /\ advance = 0
  /\ sio_left' = IF slice >= sio_left THEN 0 ELSE sio_left - slice
  /\ sio_irq' = (sio_irq \/ (sio_left > 0 /\ slice >= sio_left))
  /\ istat' = istat \cup (IF sio_irq' THEN {"SIO"} ELSE {})
                    \cup (IF seen.vblank THEN {"VBLANK"} ELSE {})
  /\ remaining' = remaining - slice
  /\ pc' = "events"
  /\ UNCHANGED <<quantum, slice, advance, seen, due, fired, vmode, beam>>

(* The handler of a fired event may schedule it again.  Then the next      *)
(* slice, the next quantum, or the next instruction.                       *)
Handlers ==
  /\ pc = "events"
  /\ \E again \in [fired -> Delays \cup {Off}] :
        due' = [e \in Events |-> IF e \in fired THEN again[e] ELSE due[e]]
  /\ fired' = {}
  /\ IF remaining > 0
       THEN pc' = "slice" /\ UNCHANGED <<quantum, remaining>>
       ELSE /\ quantum' = quantum - QUANTUM
            /\ pc' = IF quantum' >= QUANTUM THEN "slice" ELSE "cpu"
            /\ remaining' = IF quantum' >= QUANTUM THEN QUANTUM ELSE 0
  /\ UNCHANGED <<slice, advance, seen, sio_left, sio_irq, istat, vmode, beam>>

Init ==
  /\ pc = "cpu" /\ quantum = 0 /\ remaining = 0 /\ slice = 0 /\ advance = 0
  /\ seen = Unseen
  /\ due = [e \in Events |-> Off] /\ fired = {}
  /\ sio_left = 0 /\ sio_irq = FALSE /\ istat = {}
  /\ vmode = PowerOn /\ hblank = FALSE /\ line_phase = 0 /\ scanline = 0
  /\ vblanked = 0

Emulator == Slice \/ BeamRuns \/ BeamEntersHBlank \/ BeamEndsLine \/ Devices \/ Handlers

Next == (\E n \in Costs : Instruction(n)) \/ Emulator

Spec == Init /\ [][Next]_vars

(* The loops of main() and advance_system_cycles run for ever.             *)
FairSpec == Spec /\ WF_vars(Next)
-----------------------------------------------------------------------------
TypeOK ==
  /\ pc \in {"cpu", "slice", "gpu", "events"}
  /\ quantum \in Nat /\ remaining \in 0 .. QUANTUM /\ slice \in 0 .. QUANTUM
  /\ advance \in Nat
  /\ seen \in [edges : Nat, vblank : BOOLEAN, frame : BOOLEAN]
  /\ due \in [Events -> Nat \cup {Off}] /\ fired \subseteq Events
  /\ sio_left \in Nat /\ sio_irq \in BOOLEAN /\ istat \subseteq {"VBLANK", "SIO"}
  /\ vmode \in Modes /\ hblank \in BOOLEAN
  /\ line_phase \in Nat /\ scanline \in Nat /\ vblanked \in Nat

(* A scheduler event fires at its cycle: no slice runs past it, so an      *)
(* event in a slot is always still to come.  (advance_system_cycles,       *)
(* scheduler_cycles_until_next_event, scheduler_step)                      *)
EventsOnTime ==
  [][Slice => \A e \in fired' : due[e] = slice']_vars

(* The serial interrupt is raised at its cycle too.  (sio_step)            *)
SioOnTime ==
  [][Devices => sio_left = 0 \/ slice <= sio_left]_vars

(* A slice crosses at most one edge of the beam, whatever the program does *)
(* to the video mode: the HBlank and VBlank state sampled before the       *)
(* slice, by which the root counters gate their ticks, holds up to its     *)
(* last cycle, and no edge is counted twice.                               *)
(* (gpu_cycles_until_timing_boundary, gpu_step, timers_step)               *)
OneEdgePerSlice == seen.edges <= 1

(* Each frame has exactly one VBlank interrupt, raised when line 240 is    *)
(* reached, whatever changes of video mode fall into it.  (gpu_step)       *)
OneVBlankPerFrame == vblanked = IF scanline >= VBLANK_LINE THEN 1 ELSE 0

(* The beam is before the edge it is heading for, so what is left of the   *)
(* way does not wrap around.                                               *)
BeforeEdge == line_phase < Target

(* Only the program brings the beam past its edge, by a change to a video  *)
(* mode whose edge is nearer: no step of gpu_step overshoots.  (gpu_step,  *)
(* gpu_gp1)                                                                *)
OnlySwitchOvershoots ==
  [][BeforeEdge => BeforeEdge' \/ (UNCHANGED beam /\ Target' < Target)]_vars

(* While the beam is past its edge it crosses none: no HBlank, no line and *)
(* no VBlank, until line_phase has wrapped around or the mode is changed   *)
(* again.  (gpu_step)                                                      *)
NoEdgePastTarget ==
  [][line_phase > Target => UNCHANGED <<hblank, scanline, vblanked>>]_vars

(* The loop of main() that waits for the next frame ends, again and again, *)
(* whatever the changes of video mode, unless they bring the beam past its *)
(* edge again and again.                                                   *)
FramesKeepComing == []<>(seen.frame) \/ []<>(line_phase > Target)
=============================================================================
