------------------------- MODULE RootCounterProofs -------------------------
(***************************************************************************)
(* Proofs about a root counter, for every width of the counter, every set  *)
(* of modes, and slices of any length.                                     *)
(***************************************************************************)
EXTENDS RootCounter, TLAPS

(* The pending reset is the fact that an untouched counter stands on its   *)
(* target.                                                                 *)
PendingOnTarget ==
  ~touched => /\ value = ideal
              /\ target # 0
              /\ reset_pending = (mode.reset /\ value = target)

Bits == /\ reset_pending \in BOOLEAN /\ touched \in BOOLEAN /\ mode \in Mode
        /\ target \in 0 .. COUNTS - 1 /\ value \in 0 .. COUNTS - 1

LEMMA BitsStep == ASSUME Bits, [Next]_vars PROVE Bits'
<1>. USE CounterAssumption
<1>1. ASSUME NEW m \in Modes, WriteMode(m) PROVE Bits'
  <2>1. touched' \in BOOLEAN /\ reset_pending' \in BOOLEAN
    BY <1>1 DEF WriteMode
  <2>2. mode' \in Mode /\ target' = target /\ value' \in 0 .. COUNTS - 1
    BY <1>1 DEF WriteMode
  <2>. QED
    BY <2>1, <2>2 DEF Bits
<1>2. ASSUME NEW v \in Values, WriteValue(v) PROVE Bits'
  <2>1. touched' \in BOOLEAN /\ UNCHANGED <<reset_pending, mode, target>>
    BY <1>2 DEF Bits, WriteValue, regs
  <2>2. value' \in 0 .. COUNTS - 1
    BY <1>2 DEF WriteValue
  <2>. QED
    BY <2>1, <2>2 DEF Bits
<1>3. ASSUME NEW v \in Values, WriteTarget(v) PROVE Bits'
  <2>1. touched' \in BOOLEAN /\ UNCHANGED <<reset_pending, mode, value>>
    BY <1>3 DEF Bits, WriteTarget
  <2>2. target' \in 0 .. COUNTS - 1
    BY <1>3 DEF WriteTarget
  <2>. QED
    BY <2>1, <2>2 DEF Bits
<1>4. ASSUME ResetTick PROVE Bits'
  <2>1. reset_pending' \in BOOLEAN /\ UNCHANGED <<touched, mode, target>>
    BY <1>4 DEF ResetTick, regs
  <2>2. value' \in 0 .. COUNTS - 1
    BY <1>4 DEF ResetTick
  <2>. QED
    BY <2>1, <2>2 DEF Bits
<1>5. ASSUME CountTick PROVE Bits'
  <2>1. reset_pending' \in BOOLEAN /\ UNCHANGED <<touched, mode, target>>
    BY <1>5 DEF Bits, CountTick, regs
  <2>2. value' \in 0 .. COUNTS - 1
    BY <1>5 DEF CountTick, Bits
  <2>. QED
    BY <2>1, <2>2 DEF Bits
<1>6. ASSUME EndSlice PROVE Bits'
  <2>1. reset_pending' \in BOOLEAN /\ UNCHANGED <<touched, mode, target>>
    BY <1>6 DEF Bits, EndSlice, regs
  <2>2. value' \in 0 .. COUNTS - 1
    BY <1>6 DEF EndSlice, Bits
  <2>. QED
    BY <2>1, <2>2 DEF Bits
<1>7. CASE UNCHANGED <<reset_pending, touched, mode, target, value>>
  BY <1>7 DEF Bits
<1>. QED
  BY <1>1, <1>2, <1>3, <1>4, <1>5, <1>6, <1>7
  DEF Next, Program, Step, ReadMode, AckIStat, StartSlice, vars, regs

LEMMA PendingStep ==
  ASSUME Bits, PendingOnTarget, [Next]_vars
  PROVE  PendingOnTarget'
<1>. USE CounterAssumption
<1>1. ASSUME NEW m \in Modes, WriteMode(m) PROVE PendingOnTarget'
  BY <1>1 DEF Bits, PendingOnTarget, WriteMode
<1>2. ASSUME NEW v \in Values, WriteValue(v) PROVE PendingOnTarget'
  BY <1>2 DEF Bits, PendingOnTarget, WriteValue, regs
<1>3. ASSUME NEW v \in Values, WriteTarget(v) PROVE PendingOnTarget'
  BY <1>3 DEF Bits, PendingOnTarget, WriteTarget
<1>4. ASSUME ResetTick PROVE PendingOnTarget'
  BY <1>4 DEF Bits, PendingOnTarget, ResetTick, IdealTick, regs
<1>5. ASSUME CountTick PROVE PendingOnTarget'
  <2>. SUFFICES ASSUME ~touched' PROVE PendingOnTarget'
    BY DEF PendingOnTarget
  <2>1. /\ UNCHANGED <<touched, mode, target>>
        /\ ~reset_pending
        /\ value' = (value + 1) % COUNTS
        /\ ideal' = IdealTick
        /\ reset_pending' = ((value + 1) % COUNTS = target /\ mode.reset)
    BY <1>5 DEF CountTick, regs
  <2>2. value = ideal /\ target # 0 /\ ~(mode.reset /\ value = target)
    BY <2>1 DEF PendingOnTarget
  <2>3. ideal' = (value + 1) % COUNTS
    BY <2>1, <2>2 DEF IdealTick
  <2>. QED
    BY <2>1, <2>2, <2>3 DEF PendingOnTarget
<1>6. ASSUME EndSlice PROVE PendingOnTarget'
  <2>. DEFINE zero == edge /\ mode.sync /\ unit # 2 /\ mode.sync_mode \in {1, 2}
  <2>1. /\ UNCHANGED <<touched, mode, target>>
        /\ value' = IF zero THEN 0 ELSE value
        /\ ideal' = IF zero THEN 0 ELSE ideal
        /\ reset_pending' = (reset_pending /\ ~zero)
    BY <1>6 DEF EndSlice, regs
  <2>. HIDE DEF zero
  <2>2. CASE zero
    BY <2>1, <2>2 DEF PendingOnTarget
  <2>3. CASE ~zero
    BY <2>1, <2>3 DEF Bits, PendingOnTarget
  <2>. QED
    BY <2>2, <2>3
<1>7. CASE UNCHANGED <<reset_pending, touched, mode, target, value, ideal>>
  BY <1>7 DEF PendingOnTarget
<1>. QED
  BY <1>1, <1>2, <1>3, <1>4, <1>5, <1>6, <1>7
  DEF Next, Program, Step, ReadMode, AckIStat, StartSlice, vars, regs

(* An untouched counter counts like the ideal one.                         *)
THEOREM CountsLikeIdeal == Spec => []IdealCounter
<1>1. Init => Bits /\ PendingOnTarget
  <2>. SUFFICES ASSUME Init PROVE Bits /\ PendingOnTarget
    OBVIOUS
  <2>1. mode \in Mode
    BY DEF Init, Mode
  <2>2. reset_pending \in BOOLEAN /\ touched \in BOOLEAN
    BY DEF Init
  <2>3. target \in 0 .. COUNTS - 1 /\ value \in 0 .. COUNTS - 1
    BY CounterAssumption DEF Init
  <2>. QED
    BY <2>1, <2>2, <2>3 DEF Init, Bits, PendingOnTarget
<1>2. PendingOnTarget => IdealCounter
  BY DEF PendingOnTarget, IdealCounter
<1>. QED
  BY <1>1, <1>2, BitsStep, PendingStep, PTL DEF Spec
-----------------------------------------------------------------------------
(* A one-shot counter has interrupted once when it is spent, else never.   *)
SpentOnce ==
  /\ fired \in BOOLEAN /\ status \in BOOLEAN /\ mode \in Mode /\ irqs \in Nat
  /\ ~mode.repeat => irqs = IF fired THEN 1 ELSE 0

(* In one-shot mode fire_irq keeps the sum of old and new interrupts at    *)
(* one when spent, zero when not.                                          *)
LEMMA FireSpends ==
  ASSUME NEW n \in Nat, ~mode.repeat, mode \in Mode,
         NEW s \in [status : BOOLEAN, fired : BOOLEAN, raised : Nat],
         n + s.raised = IF s.fired THEN 1 ELSE 0
  PROVE  n + Fire(s).raised = IF Fire(s).fired THEN 1 ELSE 0
<1>1. CASE s.fired
  BY <1>1 DEF Fire, Idle
<1>2. CASE ~s.fired /\ mode.toggle
  <2>1. Fire(s) = Toggled(s)
    BY <1>2 DEF Fire, Idle
  <2>2. Toggled(s).fired = s.status
    BY <1>2 DEF Toggled
  <2>3. Toggled(s).raised = s.raised + (IF s.status THEN 1 ELSE 0)
    BY DEF Toggled
  <2>. QED
    BY <1>2, <2>1, <2>2, <2>3
<1>3. CASE ~s.fired /\ ~mode.toggle
  BY <1>3 DEF Fire, Idle, Pulsed
<1>. QED
  BY <1>1, <1>2, <1>3

LEMMA FireType ==
  ASSUME NEW s \in [status : BOOLEAN, fired : BOOLEAN, raised : Nat]
  PROVE  Fire(s) \in [status : BOOLEAN, fired : BOOLEAN, raised : Nat]
<1>1. Toggled(s) \in [status : BOOLEAN, fired : BOOLEAN, raised : Nat]
  BY DEF Toggled
<1>2. Pulsed(s) \in [status : BOOLEAN, fired : BOOLEAN, raised : Nat]
  BY DEF Pulsed
<1>. QED
  BY <1>1, <1>2 DEF Fire

LEMMA SpentStep ==
  ASSUME MAX_IRQS > 0, SpentOnce, [Next]_vars
  PROVE  SpentOnce'
<1>. USE CounterAssumption
<1>1. ASSUME NEW m \in Modes, WriteMode(m) PROVE SpentOnce'
  BY <1>1 DEF SpentOnce, WriteMode
<1>2. ASSUME CountTick PROVE SpentOnce'
  <2>. DEFINE T == [status : BOOLEAN, fired : BOOLEAN, raised : Nat]
              hit    == (value + 1) % COUNTS = target
              wraps  == value = COUNTS - 1
              before == [status |-> status, fired |-> fired, raised |-> 0]
              first  == IF hit /\ mode.irq_target THEN Fire(before) ELSE before
              after  == IF wraps /\ mode.irq_overflow THEN Fire(first) ELSE first
  <2>1. before \in T
    BY DEF SpentOnce
  <2>2. first \in T
    BY <2>1, FireType
  <2>3. after \in T
    BY <2>2, FireType
  <2>4. ASSUME ~mode.repeat
        PROVE  irqs + after.raised = IF after.fired THEN 1 ELSE 0
    <3>1. irqs + before.raised = IF before.fired THEN 1 ELSE 0
      BY <2>4 DEF SpentOnce
    <3>2. irqs + first.raised = IF first.fired THEN 1 ELSE 0
      BY <2>1, <2>4, <3>1, FireSpends DEF SpentOnce
    <3>. QED
      BY <2>2, <2>4, <3>2, FireSpends DEF SpentOnce
  <2>5. /\ mode' = mode /\ status' = after.status /\ fired' = after.fired
        /\ irqs' = IF irqs + after.raised > MAX_IRQS THEN MAX_IRQS ELSE irqs + after.raised
    BY <1>2 DEF CountTick, regs
  <2>. HIDE DEF after
  <2>6. irqs' \in Nat /\ (~mode.repeat => irqs' = IF after.fired THEN 1 ELSE 0)
    BY <2>3, <2>4, <2>5 DEF SpentOnce
  <2>. QED
    BY <2>3, <2>5, <2>6 DEF SpentOnce
<1>3. CASE UNCHANGED <<fired, status, mode, irqs>>
  BY <1>3 DEF SpentOnce
<1>. QED
  BY <1>1, <1>2, <1>3
  DEF Next, Program, Step, WriteValue, WriteTarget, ReadMode, AckIStat, StartSlice,
      ResetTick, EndSlice, vars, regs

(* One interrupt per write of the mode in one-shot mode.                   *)
THEOREM OneShotIsOnce ==
  ASSUME MAX_IRQS > 0
  PROVE  Spec => []OneShotOnce
<1>1. Init => SpentOnce
  <2>. SUFFICES ASSUME Init PROVE SpentOnce
    OBVIOUS
  <2>1. mode \in Mode
    BY DEF Init, Mode
  <2>2. fired \in BOOLEAN /\ status \in BOOLEAN
    BY DEF Init
  <2>. QED
    BY <2>1, <2>2 DEF Init, SpentOnce
<1>2. SpentOnce => OneShotOnce
  BY DEF SpentOnce, OneShotOnce
<1>3. SpentOnce /\ [Next]_vars => SpentOnce'
  BY SpentStep
<1>. QED
  BY <1>1, <1>2, <1>3, PTL DEF Spec
=============================================================================
