------------------------- MODULE SystemClockProofs -------------------------
(***************************************************************************)
(* Proofs about the system clock, for every length of frame, line and      *)
(* quantum, every set of delays and every program.                         *)
(***************************************************************************)
EXTENDS SystemClock, TLAPS

(* Where the loops stand: the quantum is due while it is being passed, and *)
(* the slice fits in what remains of it and in the serial countdown.       *)
LoopInv ==
  /\ pc # "gpu" => advance = 0
  /\ pc # "cpu" => quantum >= QUANTUM
  /\ pc = "slice" => remaining > 0
  /\ pc = "gpu" => slice <= remaining /\ (sio_left = 0 \/ slice <= sio_left)

(* A slice that starts before the edge overshoots it by less than a cycle; *)
(* once the edge is crossed, what is left does not reach the next one.  A  *)
(* slice that starts past the edge is one cycle long and reaches none.     *)
Approaching ==
  seen.edges = 0 /\ BeforeEdge /\ advance < Target - line_phase + LINES[vmode]
Past    == seen.edges = 0 /\ ~BeforeEdge /\ advance <= LINES[vmode]
Crossed == seen.edges = 1 /\ BeforeEdge /\ advance < Target - line_phase

EdgeInv ==
  /\ line_phase < PHASE_SPACE
  /\ pc = "gpu" => Approaching \/ Past \/ Crossed
  /\ seen.edges <= 1
-----------------------------------------------------------------------------
(* Rounding up to whole cycles overshoots by less than a cycle.            *)
LEMMA RoundUp ==
  ASSUME NEW a \in Nat \ {0}, NEW L \in Nat \ {0}, NEW s \in Nat,
         s <= (a + L - 1) \div L
  PROVE  s * L < a + L
<1>1. L * ((a + L - 1) \div L) <= a + L - 1
  OBVIOUS
<1>2. ((a + L - 1) \div L) \in Nat
  OBVIOUS
<1>. QED
  BY <1>1, <1>2

LEMMA RoundUpPositive ==
  ASSUME NEW a \in Nat \ {0}, NEW L \in Nat \ {0}
  PROVE  (a + L - 1) \div L \in Nat \ {0}
<1>1. a + L - 1 < L * ((a + L - 1) \div L) + L
  OBVIOUS
<1>2. (a + L - 1) \div L \in Nat
  OBVIOUS
<1>. QED
  BY <1>1, <1>2

(* What is below the bound of the type does not wrap around.               *)
LEMMA NoWrap ==
  ASSUME NEW a \in Nat, NEW P \in Nat, a < P
  PROVE  a % P = a
OBVIOUS

(* A difference below 0 wraps around once.                                 *)
LEMMA WrapsUnder ==
  ASSUME NEW a \in Int, NEW P \in Nat, -P < a, a < 0
  PROVE  a % P = a + P
OBVIOUS

(* The constants of the mode in force.                                     *)
LEMMA ModeFacts ==
  ASSUME TypeOK
  PROVE  /\ LINES[vmode] \in Nat \ {0}
         /\ FRAME_CYCLES[vmode] \in Nat /\ HBLANK_PHASE[vmode] \in Nat
         /\ LINES[vmode] < HBLANK_PHASE[vmode]
         /\ LINES[vmode] < FRAME_CYCLES[vmode] - HBLANK_PHASE[vmode]
         /\ FRAME_CYCLES[vmode] < PHASE_SPACE
         /\ VBLANK_LINE < LINES[vmode]
         /\ Target \in Nat
BY ModesAssumption DEF TypeOK, Target
-----------------------------------------------------------------------------
(* Types and loop positions.                                               *)
LEMMA TypeInit == Init => TypeOK /\ LoopInv
<1>. SUFFICES ASSUME Init PROVE TypeOK /\ LoopInv
  OBVIOUS
<1>1. /\ due \in [Events -> Nat \cup {Off}]
      /\ seen \in [edges : Nat, vblank : BOOLEAN, frame : BOOLEAN]
  BY DEF Init, Unseen
<1>. QED
  <2>1. LoopInv
    BY TimesAssumption DEF Init, LoopInv
  <2>2. /\ pc \in {"cpu", "slice", "gpu", "events"}
        /\ quantum \in Nat /\ remaining \in 0 .. QUANTUM /\ slice \in 0 .. QUANTUM
        /\ advance \in Nat /\ fired \subseteq Events /\ sio_left \in Nat
        /\ istat \subseteq {"VBLANK", "SIO"} /\ vmode \in Modes
        /\ line_phase \in Nat /\ scanline \in Nat /\ vblanked \in Nat
    BY ModesAssumption, TimesAssumption DEF Init
  <2>3. sio_irq \in BOOLEAN /\ hblank \in BOOLEAN
    BY DEF Init
  <2>. QED
    BY <1>1, <2>1, <2>2, <2>3 DEF TypeOK

LEMMA SliceFacts ==
  ASSUME TypeOK, LoopInv, Slice
  PROVE  /\ slice' \in Nat /\ slice' <= remaining
         /\ slice' <= UntilBoundary
         /\ \A e \in Events : due[e] # Off => slice' <= due[e]
         /\ sio_left = 0 \/ slice' <= sio_left
         /\ slice' \in SliceBounds
<1>. PICK s \in SliceBounds : (\A b \in SliceBounds : s <= b) /\ slice' = s
  BY DEF Slice
<1>1. UntilBoundary \in Nat
  <2>1. CASE line_phase >= Target
    BY <2>1 DEF UntilBoundary
  <2>2. CASE ~(line_phase >= Target)
    <3>1. Target - line_phase \in Nat \ {0}
      BY <2>2, ModeFacts DEF TypeOK
    <3>2. (Target - line_phase + LINES[vmode] - 1) \div LINES[vmode] \in Nat
      BY <3>1, ModeFacts, RoundUpPositive
    <3>. QED
      BY <2>2, <3>2 DEF UntilBoundary
  <2>. QED
    BY <2>1, <2>2
<1>2. s \in Nat
  BY <1>1, TimesAssumption DEF SliceBounds, TypeOK
<1>. QED
  BY <1>1, <1>2 DEF SliceBounds, TypeOK

LEMMA TypeStep ==
  ASSUME TypeOK, LoopInv, [Next]_vars
  PROVE  TypeOK' /\ LoopInv'
<1>. USE DEF TypeOK, LoopInv
<1>1. ASSUME NEW n \in Costs, Instruction(n) PROVE TypeOK' /\ LoopInv'
  <2>1. /\ quantum' \in Nat /\ remaining' \in 0 .. QUANTUM
        /\ pc' \in {"cpu", "slice"}
        /\ pc' = "slice" => quantum' >= QUANTUM /\ remaining' > 0
    BY <1>1, TimesAssumption DEF Instruction
  <2>2. /\ UNCHANGED <<slice, advance, seen, fired, hblank, line_phase, scanline, vblanked>>
        /\ advance = 0
    BY <1>1 DEF Instruction, TimeFrame
  <2>3. /\ due' \in [Events -> Nat \cup {Off}] /\ sio_left' \in Nat
        /\ istat' \subseteq {"VBLANK", "SIO"}
    BY <1>1, TimesAssumption
    DEF Instruction, NoAccess, SetMode, Schedule, StartSio, ResetSio, AckIStat, Off
  <2>4. /\ sio_irq' \in BOOLEAN /\ vmode' \in Modes
    BY <1>1 DEF Instruction, NoAccess, SetMode, Schedule, StartSio, ResetSio, AckIStat
  <2>. QED
    BY <2>1, <2>2, <2>3, <2>4
<1>2. ASSUME Slice PROVE TypeOK' /\ LoopInv'
  <2>1. /\ slice' \in Nat /\ slice' <= remaining
        /\ sio_left = 0 \/ slice' <= sio_left
        /\ \A e \in Events : due[e] # Off => slice' <= due[e]
    BY <1>2, SliceFacts
  <2>2. slice' * LINES[vmode] \in Nat
    BY <2>1, ModeFacts
  <2>3. due' \in [Events -> Nat \cup {Off}]
    BY <1>2, <2>1 DEF Slice, Off
  <2>4. /\ pc' \in {"gpu", "events"} /\ seen' = Unseen /\ fired' \subseteq Events
        /\ advance' = slice' * LINES[vmode] /\ pc = "slice"
        /\ UNCHANGED <<quantum, remaining, sio_left, sio_irq, istat, vmode,
                       hblank, line_phase, scanline, vblanked>>
    BY <1>2 DEF Slice, beam
  <2>5. pc' # "gpu" => advance' = 0
    <3>1. pc' # "gpu" => slice' = 0
      BY <1>2, <2>1 DEF Slice
    <3>2. 0 * LINES[vmode] = 0
      BY ModeFacts
    <3>. QED
      BY <2>4, <3>1, <3>2
  <2>. QED
    BY <2>1, <2>2, <2>3, <2>4, <2>5, TimesAssumption DEF Unseen
<1>3. ASSUME BeamRuns PROVE TypeOK' /\ LoopInv'
  <2>1. (line_phase + advance) % PHASE_SPACE \in Nat
    BY ModeFacts, ModesAssumption
  <2>. QED
    BY <1>3, <2>1 DEF BeamRuns
<1>4. PhaseLeft \in Nat
  BY ModeFacts, ModesAssumption DEF PhaseLeft
<1>5. ASSUME BeamEntersHBlank PROVE TypeOK' /\ LoopInv'
  BY <1>4, <1>5, ModeFacts DEF BeamEntersHBlank
<1>6. ASSUME BeamEndsLine PROVE TypeOK' /\ LoopInv'
  <2>1. /\ advance' \in Nat /\ line_phase' = 0 /\ hblank' = FALSE
        /\ scanline' \in Nat /\ vblanked' \in Nat
    BY <1>4, <1>6 DEF BeamEndsLine
  <2>2. seen' \in [edges : Nat, vblank : BOOLEAN, frame : BOOLEAN]
    BY <1>6 DEF BeamEndsLine
  <2>3. /\ pc = "gpu"
        /\ UNCHANGED <<pc, quantum, remaining, slice, due, fired, sio_left, sio_irq,
                       istat, vmode>>
    BY <1>6 DEF BeamEndsLine
  <2>. QED
    BY <2>1, <2>2, <2>3
<1>7. ASSUME Devices PROVE TypeOK' /\ LoopInv'
  <2>1. /\ sio_left' \in Nat /\ remaining' \in 0 .. QUANTUM
        /\ istat' \subseteq {"VBLANK", "SIO"} /\ pc = "gpu" /\ pc' = "events"
        /\ advance = 0
    BY <1>7, TimesAssumption DEF Devices
  <2>2. sio_irq' \in BOOLEAN
    BY <1>7 DEF Devices
  <2>3. UNCHANGED <<quantum, slice, advance, seen, due, fired, vmode,
                    hblank, line_phase, scanline, vblanked>>
    BY <1>7 DEF Devices, beam
  <2>. QED
    BY <2>1, <2>2, <2>3
<1>8. ASSUME Handlers PROVE TypeOK' /\ LoopInv'
  <2>1. due' \in [Events -> Nat \cup {Off}]
    BY <1>8, TimesAssumption DEF Handlers
  <2>2. /\ quantum' \in Nat /\ remaining' \in 0 .. QUANTUM
        /\ pc' \in {"cpu", "slice"} /\ fired' = {}
        /\ pc' = "slice" => quantum' >= QUANTUM /\ remaining' > 0
        /\ advance = 0
    BY <1>8, TimesAssumption DEF Handlers
  <2>3. UNCHANGED <<slice, advance, seen, sio_left, sio_irq, istat, vmode,
                    hblank, line_phase, scanline, vblanked>>
    BY <1>8 DEF Handlers, beam
  <2>. QED
    BY <2>1, <2>2, <2>3
<1>9. ASSUME UNCHANGED vars PROVE TypeOK' /\ LoopInv'
  BY <1>9 DEF vars, beam
<1>. QED
  BY <1>1, <1>2, <1>3, <1>5, <1>6, <1>7, <1>8, <1>9 DEF Next, Emulator

(* Every counter of the loops stays in range: the slice never exceeds what *)
(* remains of the quantum and remaining never wraps below 0.               *)
THEOREM TypeCorrect == Spec => []TypeOK
<1>1. Spec => [](TypeOK /\ LoopInv)
  BY TypeInit, TypeStep, PTL DEF Spec
<1>. QED
  BY <1>1, PTL
-----------------------------------------------------------------------------
(* The beam.                                                               *)

(* What is left of the way to the edge.                                    *)
LEMMA WayLeft ==
  ASSUME TypeOK, line_phase < PHASE_SPACE
  PROVE  /\ line_phase <= Target => PhaseLeft = Target - line_phase
         /\ line_phase > Target => PhaseLeft > LINES[vmode]
<1>0. /\ Target \in Nat /\ line_phase \in Nat /\ PHASE_SPACE \in Nat
      /\ LINES[vmode] \in Nat /\ LINES[vmode] < Target /\ Target < PHASE_SPACE
  BY ModeFacts, ModesAssumption DEF TypeOK, Target
<1>1. CASE line_phase <= Target
  <2>1. Target - line_phase \in Nat /\ Target - line_phase < PHASE_SPACE
    BY <1>0, <1>1
  <2>. QED
    BY <1>0, <1>1, <2>1, NoWrap DEF PhaseLeft
<1>2. CASE line_phase > Target
  <2>1. Target - line_phase \in Int /\ Target - line_phase < 0
        /\ -PHASE_SPACE < Target - line_phase
    BY <1>0, <1>2
  <2>2. PhaseLeft = Target - line_phase + PHASE_SPACE
    BY <1>0, <2>1, WrapsUnder DEF PhaseLeft
  <2>. QED
    BY <1>0, <1>2, <2>2
<1>. QED
  BY <1>0, <1>1, <1>2

(* An edge is crossed at most once in a slice, and never from beyond it.   *)
LEMMA Crossing ==
  ASSUME TypeOK, EdgeInv, pc = "gpu", advance > 0, advance >= PhaseLeft
  PROVE  /\ seen.edges = 0 /\ line_phase <= Target
         /\ advance - PhaseLeft \in Nat
         /\ advance - PhaseLeft <= LINES[vmode]
<1>0. /\ Target \in Nat /\ line_phase \in Nat /\ LINES[vmode] \in Nat
      /\ advance \in Nat /\ seen.edges \in Nat /\ line_phase < PHASE_SPACE
  BY ModeFacts DEF TypeOK, EdgeInv
<1>1. CASE Approaching
  BY <1>0, <1>1, WayLeft DEF Approaching, BeforeEdge
<1>2. CASE Past
  <2>1. line_phase >= Target /\ advance <= LINES[vmode] /\ seen.edges = 0
    BY <1>0, <1>2 DEF Past, BeforeEdge
  <2>2. ~(line_phase > Target)
    <3>. SUFFICES ASSUME line_phase > Target PROVE FALSE
      OBVIOUS
    <3>1. PhaseLeft = (Target - line_phase) % PHASE_SPACE /\ PhaseLeft > LINES[vmode]
      BY <1>0, WayLeft DEF PhaseLeft
    <3>2. PhaseLeft \in Int
      BY <1>0, <3>1, ModesAssumption
    <3>. QED
      BY <1>0, <2>1, <3>1, <3>2
  <2>3. line_phase = Target
    BY <1>0, <2>1, <2>2
  <2>4. PhaseLeft = 0
    BY <1>0, <2>3, WayLeft
  <2>. QED
    BY <1>0, <2>1, <2>3, <2>4
<1>3. CASE Crossed
  BY <1>0, <1>3, WayLeft DEF Crossed, BeforeEdge
<1>. QED
  BY <1>1, <1>2, <1>3 DEF EdgeInv

LEMMA EdgeStep ==
  ASSUME TypeOK, LoopInv, EdgeInv, [Next]_vars
  PROVE  EdgeInv'
<1>. DEFINE H == HBLANK_PHASE[vmode]
            F == FRAME_CYCLES[vmode]
            L == LINES[vmode]
<1>0. /\ H \in Nat /\ F \in Nat /\ L \in Nat \ {0} /\ PHASE_SPACE \in Nat
      /\ L < H /\ L < F - H /\ F < PHASE_SPACE
      /\ line_phase \in Nat /\ advance \in Nat /\ Target \in Nat
      /\ Target = IF hblank THEN F ELSE H
      /\ line_phase < PHASE_SPACE /\ seen.edges \in Nat /\ seen.edges <= 1
  BY ModeFacts, ModesAssumption DEF TypeOK, EdgeInv, Target
<1>1. L < Target /\ Target < PHASE_SPACE
  BY <1>0
<1>2. ASSUME NEW n \in Costs, Instruction(n) PROVE EdgeInv'
  <2>1. UNCHANGED <<seen, line_phase>> /\ pc' # "gpu"
    BY <1>2 DEF Instruction, TimeFrame
  <2>. QED
    BY <1>0, <2>1 DEF EdgeInv
<1>3. ASSUME Slice PROVE EdgeInv'
  <2>1. /\ slice' \in Nat /\ slice' <= UntilBoundary
    BY <1>3, SliceFacts
  <2>2. UNCHANGED <<vmode, hblank, line_phase>> /\ advance' = slice' * L
        /\ seen'.edges = 0
    BY <1>3 DEF Slice, beam, Unseen
  <2>3. Target' = Target
    BY <2>2 DEF Target
  <2>4. CASE BeforeEdge
    <3>1. UntilBoundary = (Target - line_phase + L - 1) \div L
      BY <1>0, <2>4 DEF UntilBoundary, BeforeEdge
    <3>2. Target - line_phase \in Nat \ {0}
      BY <1>0, <2>4 DEF BeforeEdge
    <3>3. slice' * L < Target - line_phase + L
      BY <1>0, <2>1, <3>1, <3>2, RoundUp
    <3>4. Approaching'
      BY <2>2, <2>3, <2>4, <3>3 DEF Approaching, BeforeEdge
    <3>. QED
      BY <1>0, <2>2, <3>4 DEF EdgeInv
  <2>5. CASE ~BeforeEdge
    <3>1. slice' <= 1
      BY <1>0, <2>1, <2>5 DEF UntilBoundary, BeforeEdge
    <3>2. slice' = 0 \/ slice' = 1
      BY <2>1, <3>1
    <3>3. advance' <= L
      BY <1>0, <2>2, <3>2
    <3>4. Past'
      BY <2>2, <2>3, <2>5, <3>3 DEF Past, BeforeEdge
    <3>. QED
      BY <1>0, <2>2, <3>4 DEF EdgeInv
  <2>. QED
    BY <2>4, <2>5
<1>4. ASSUME BeamRuns PROVE EdgeInv'
  <2>1. /\ pc = "gpu" /\ advance < PhaseLeft /\ advance' = 0
        /\ line_phase' = (line_phase + advance) % PHASE_SPACE
        /\ UNCHANGED <<pc, seen, vmode, hblank>>
    BY <1>4 DEF BeamRuns
  <2>2. Target' = Target
    BY <2>1 DEF Target
  <2>3. CASE BeforeEdge
    <3>1. line_phase + advance < Target
      BY <1>0, <2>1, <2>3, WayLeft DEF BeforeEdge
    <3>2. line_phase' = line_phase + advance
      <4>1. line_phase + advance \in Nat /\ line_phase + advance < PHASE_SPACE
        BY <1>0, <1>1, <3>1
      <4>2. (line_phase + advance) % PHASE_SPACE = line_phase + advance
        BY <1>0, <4>1, NoWrap
      <4>. QED
        BY <2>1, <4>2
    <3>3. BeforeEdge' /\ line_phase' < PHASE_SPACE
      BY <1>0, <1>1, <2>2, <3>1, <3>2 DEF BeforeEdge
    <3>4. 0 < Target' - line_phase' /\ 0 < Target' - line_phase' + LINES[vmode']
      BY <1>0, <2>1, <2>2, <3>1, <3>2
    <3>5. seen'.edges = 0 \/ seen'.edges = 1
      <4>1. seen.edges = 0 \/ seen.edges = 1
        BY <1>0
      <4>2. seen' = seen
        BY <2>1
      <4>. QED
        BY <4>1, <4>2
    <3>6. Approaching' \/ Crossed'
      BY <2>1, <3>3, <3>4, <3>5 DEF Approaching, Crossed
    <3>. QED
      BY <1>0, <2>1, <3>3, <3>6 DEF EdgeInv
  <2>4. CASE ~BeforeEdge
    <3>1. seen.edges = 0
      BY <2>1, <2>4 DEF EdgeInv, Approaching, Past, Crossed
    <3>2. line_phase' \in 0 .. PHASE_SPACE - 1
      <4>1. line_phase + advance \in Nat /\ PHASE_SPACE \in Nat \ {0}
        BY <1>0, <1>1
      <4>2. (line_phase + advance) % PHASE_SPACE \in 0 .. PHASE_SPACE - 1
        BY <4>1
      <4>. QED
        BY <2>1, <4>2
    <3>3. LINES[vmode'] = L /\ Target' \in Nat
      BY <1>0, <2>1, <2>2
    <3>4. BeforeEdge' => Approaching'
      BY <1>0, <2>1, <3>1, <3>2, <3>3 DEF Approaching, BeforeEdge
    <3>5. ~BeforeEdge' => Past'
      BY <1>0, <2>1, <3>1, <3>3 DEF Past
    <3>. QED
      BY <2>1, <3>1, <3>2, <3>4, <3>5, <1>0 DEF EdgeInv
  <2>. QED
    BY <2>3, <2>4
<1>5. ASSUME BeamEntersHBlank PROVE EdgeInv'
  <2>1. /\ pc = "gpu" /\ ~hblank /\ hblank' = TRUE /\ line_phase' = H
        /\ advance' = advance - PhaseLeft
        /\ vmode' = vmode /\ seen' = [seen EXCEPT !.edges = @ + 1]
    BY <1>0, <1>5 DEF BeamEntersHBlank
  <2>2. /\ seen.edges = 0 /\ advance' \in Nat /\ advance' <= L
    BY <1>5, <2>1, Crossing DEF BeamEntersHBlank
  <2>3. seen'.edges = 1
    BY <2>1, <2>2 DEF TypeOK
  <2>4. Target' = F
    BY <2>1 DEF Target
  <2>5. Crossed' /\ line_phase' < PHASE_SPACE
    BY <1>0, <2>1, <2>2, <2>3, <2>4 DEF Crossed, BeforeEdge
  <2>. QED
    BY <2>3, <2>5 DEF EdgeInv
<1>6. ASSUME BeamEndsLine PROVE EdgeInv'
  <2>1. /\ pc = "gpu" /\ hblank' = FALSE /\ line_phase' = 0
        /\ advance' = advance - PhaseLeft
        /\ vmode' = vmode /\ seen'.edges = seen.edges + 1
    BY <1>6 DEF BeamEndsLine
  <2>2. /\ seen.edges = 0 /\ advance' \in Nat /\ advance' <= L
    BY <1>6, <2>1, Crossing DEF BeamEndsLine
  <2>3. Target' = H
    BY <2>1 DEF Target
  <2>4. Crossed' /\ line_phase' < PHASE_SPACE
    BY <1>0, <2>1, <2>2, <2>3 DEF Crossed, BeforeEdge
  <2>. QED
    BY <2>1, <2>2, <2>4 DEF EdgeInv
<1>7. ASSUME Devices \/ Handlers \/ UNCHANGED vars PROVE EdgeInv'
  <2>1. UNCHANGED <<seen, vmode, hblank, line_phase, advance>>
    BY <1>7 DEF Devices, Handlers, vars, beam
  <2>2. pc' = "gpu" => pc = "gpu"
    BY <1>7 DEF Devices, Handlers, vars
  <2>3. UNCHANGED Target
    BY <2>1 DEF Target
  <2>4. UNCHANGED <<Approaching, Past, Crossed>>
    BY <2>1, <2>3 DEF Approaching, Past, Crossed, BeforeEdge
  <2>. QED
    BY <2>1, <2>2, <2>4 DEF EdgeInv
<1>. QED
  BY <1>2, <1>3, <1>4, <1>5, <1>6, <1>7 DEF Next, Emulator

LEMMA EdgeInitially == Init => EdgeInv
BY ModesAssumption DEF Init, EdgeInv, Unseen

LEMMA EdgeInvariance == Spec => [](TypeOK /\ LoopInv /\ EdgeInv)
BY TypeInit, TypeStep, EdgeInitially, EdgeStep, PTL DEF Spec

(* A slice crosses at most one edge of the beam, for every program,        *)
(* whatever changes of video mode it makes and when: what the root         *)
(* counters sample before a slice holds up to its last cycle.              *)
THEOREM SlicesAreUniform == Spec => []OneEdgePerSlice
<1>1. EdgeInv => OneEdgePerSlice
  BY DEF EdgeInv, OneEdgePerSlice
<1>. QED
  BY <1>1, EdgeInvariance, PTL

(* What an iteration of gpu_step does to a beam that is before its edge.   *)
LEMMA StaysBefore ==
  ASSUME TypeOK, LoopInv, EdgeInv, Next, BeforeEdge
  PROVE  BeforeEdge' \/ (UNCHANGED beam /\ Target' < Target)
<1>0. /\ HBLANK_PHASE[vmode] \in Nat /\ FRAME_CYCLES[vmode] \in Nat
      /\ LINES[vmode] \in Nat /\ PHASE_SPACE \in Nat
      /\ 0 < HBLANK_PHASE[vmode] /\ HBLANK_PHASE[vmode] < FRAME_CYCLES[vmode]
      /\ Target \in Nat /\ Target < PHASE_SPACE
      /\ line_phase \in Nat /\ advance \in Nat /\ line_phase < PHASE_SPACE
  BY ModeFacts, ModesAssumption DEF TypeOK, EdgeInv, Target
<1>1. CASE \E n \in Costs : Instruction(n)
  <2>1. UNCHANGED beam /\ vmode' \in Modes
    BY <1>1 DEF Instruction, TimeFrame, beam, TypeOK, NoAccess, SetMode, Schedule, StartSio,
                ResetSio, AckIStat
  <2>2. UNCHANGED <<hblank, line_phase>>
    BY <2>1 DEF beam
  <2>3. Target' \in Nat
    BY <2>1, <2>2, ModesAssumption DEF Target, TypeOK
  <2>. QED
    BY <1>0, <2>1, <2>2, <2>3 DEF BeforeEdge
<1>2. CASE BeamRuns
  <2>1. line_phase + advance < Target
    <3>1. advance < PhaseLeft /\ line_phase <= Target
      BY <1>0, <1>2 DEF BeforeEdge, BeamRuns
    <3>2. PhaseLeft = Target - line_phase
      BY <1>0, <3>1, WayLeft
    <3>. QED
      BY <1>0, <3>1, <3>2
  <2>2. line_phase' = line_phase + advance
    <3>1. line_phase + advance \in Nat /\ line_phase + advance < PHASE_SPACE
      BY <1>0, <2>1
    <3>2. (line_phase + advance) % PHASE_SPACE = line_phase + advance
      BY <1>0, <3>1, NoWrap
    <3>. QED
      BY <1>2, <3>2 DEF BeamRuns
  <2>3. Target' = Target
    BY <1>2 DEF BeamRuns, Target
  <2>. QED
    BY <2>1, <2>2, <2>3 DEF BeforeEdge
<1>3. CASE BeamEntersHBlank
  BY <1>0, <1>3 DEF BeamEntersHBlank, BeforeEdge, Target
<1>4. CASE BeamEndsLine
  BY <1>0, <1>4 DEF BeamEndsLine, BeforeEdge, Target
<1>5. CASE Slice \/ Devices \/ Handlers
  BY <1>5 DEF Slice, Devices, Handlers, beam, BeforeEdge, Target
<1>. QED
  BY <1>1, <1>2, <1>3, <1>4, <1>5 DEF Next, Emulator

(* The beam gets past the edge it is heading for only when the program     *)
(* changes to a mode whose edge is nearer; gpu_step never takes it there.  *)
THEOREM BeamOvershoots == Spec => OnlySwitchOvershoots
<1>1. TypeOK /\ LoopInv /\ EdgeInv /\ [Next]_vars =>
        [BeforeEdge => BeforeEdge' \/ (UNCHANGED beam /\ Target' < Target)]_vars
  BY StaysBefore
<1>. QED
  BY <1>1, EdgeInvariance, PTL DEF Spec, OnlySwitchOvershoots

(* From there it crosses no edge: HBlank and VBlank stop, and a frame ends *)
(* only after the phase has wrapped around.                                *)
THEOREM BeamPastEdgeStalls == Spec => NoEdgePastTarget
<1>1. ASSUME TypeOK, EdgeInv, Next, line_phase > Target
      PROVE  UNCHANGED <<hblank, scanline, vblanked>>
  <2>1. ~BeamEntersHBlank /\ ~BeamEndsLine
    <3>1. line_phase \in Nat /\ Target \in Nat
      BY <1>1, ModeFacts DEF TypeOK
    <3>2. ~(line_phase <= Target)
      BY <1>1, <3>1
    <3>. QED
      BY <1>1, <3>2, Crossing DEF BeamEntersHBlank, BeamEndsLine
  <2>. QED
    BY <1>1, <2>1
    DEF Next, Emulator, Instruction, TimeFrame, Slice, BeamRuns, Devices, Handlers, beam
<1>2. TypeOK /\ LoopInv /\ EdgeInv /\ [Next]_vars =>
        [line_phase > Target => UNCHANGED <<hblank, scanline, vblanked>>]_vars
  BY <1>1
<1>. QED
  BY <1>2, EdgeInvariance, PTL DEF Spec, NoEdgePastTarget
-----------------------------------------------------------------------------
LEMMA VBlankStep ==
  ASSUME TypeOK, OneVBlankPerFrame, [Next]_vars
  PROVE  OneVBlankPerFrame'
<1>1. CASE BeamEndsLine
  BY <1>1, ModeFacts, ModesAssumption DEF BeamEndsLine, TypeOK, OneVBlankPerFrame
<1>2. CASE UNCHANGED <<scanline, vblanked>>
  BY <1>2 DEF OneVBlankPerFrame
<1>3. BeamEndsLine \/ UNCHANGED <<scanline, vblanked>>
  BY DEF Next, Emulator, Instruction, TimeFrame, Slice, BeamRuns, BeamEntersHBlank,
         Devices, Handlers, vars, beam
<1>. QED
  BY <1>1, <1>2, <1>3

(* Each frame has exactly one VBlank, across every change of video mode.   *)
THEOREM VBlankOncePerFrame == Spec => []OneVBlankPerFrame
<1>1. Init => OneVBlankPerFrame
  BY ModesAssumption DEF Init, OneVBlankPerFrame
<1>. QED
  BY <1>1, TypeCorrect, VBlankStep, PTL DEF Spec

(* Scheduler events fire at their cycle, for every program.                *)
THEOREM EventsAreOnTime == Spec => EventsOnTime
<1>1. ASSUME TypeOK, LoopInv, [Next]_vars
      PROVE  [Slice => \A e \in fired' : due[e] = slice']_vars
  <2>. SUFFICES ASSUME Slice PROVE \A e \in fired' : due[e] = slice'
    BY Zenon
  <2>1. \A e \in Events : due[e] # Off => slice' <= due[e] /\ due[e] \in Nat
    BY <1>1, SliceFacts DEF TypeOK
  <2>2. \A e \in fired' : e \in Events /\ due[e] # Off /\ due[e] <= slice'
    BY DEF Slice
  <2>3. slice' \in Nat
    BY <1>1, SliceFacts
  <2>. QED
    BY <2>1, <2>2, <2>3
<1>2. Spec => [](TypeOK /\ LoopInv)
  BY TypeInit, TypeStep, PTL DEF Spec
<1>. QED
  BY <1>1, <1>2, PTL DEF Spec, EventsOnTime

(* The serial interrupt is raised at its cycle, for every program.         *)
THEOREM SioIsOnTime == Spec => SioOnTime
<1>1. ASSUME TypeOK, LoopInv, [Next]_vars
      PROVE  [Devices => sio_left = 0 \/ slice <= sio_left]_vars
  BY <1>1 DEF LoopInv, Devices
<1>2. Spec => [](TypeOK /\ LoopInv)
  BY TypeInit, TypeStep, PTL DEF Spec
<1>. QED
  BY <1>1, <1>2, PTL DEF Spec, SioOnTime
=============================================================================
