------------------------------ MODULE CpuProofs ------------------------------
(* Theorems about Cpu, for every program, handler, address map and number of *)
(* cache lines.  The strengthening is Pipeline: how pc, next_pc, branch and  *)
(* delay_slot hang together between two calls of cpu_run_next_instruction.   *)
(* The second half shows that Cpu implements CpuProgram: RefinementInv says  *)
(* where the machine stands in the program's own state, and each action is   *)
(* an instruction of the program, a jump with its delay slot, or a stutter.  *)
EXTENDS Cpu, TLAPS

\* The inductive invariant behind JumpsKept: without a taken branch pc and
\* next_pc are in sequence, and a misaligned pc with a branch in flight can
\* only follow a branch in a delay slot.
Pipeline ==
    /\ ~branch => next_pc = Wrap(pc + 4)
    /\ branch => pc % 4 = 0 \/ delay_slot

USE DEF NoLoad, HALF, RA, V0

\* Wrapping keeps an address within the address space.
LEMMA WrapType == \A a \in Int : Wrap(a) \in 0 .. SPACE - 1
BY MapAssumption DEF Wrap

LEMMA FourTimes == \A x \in Int : (4 * x) % 4 = 0
OBVIOUS

\* A factor of four can be taken out of a product.
LEMMA FourOut == \A a \in Int, b \in Int : a * b \in Int /\ (4 * a) * b = 4 * (a * b)
<1> SUFFICES ASSUME NEW a \in Int, NEW b \in Int PROVE a * b \in Int /\ (4 * a) * b = 4 * (a * b)  OBVIOUS
<1>1. a * b \in Int  OBVIOUS
<1>2. (4 * a) * b = 4 * (a * b)  OBVIOUS
<1> QED  BY <1>1, <1>2, Zenon

\* Wrapping keeps an aligned address aligned.
LEMMA WrapAligned == ASSUME NEW a \in Int, a % 4 = 0 PROVE Wrap(a) % 4 = 0
<1> SPACE \in Nat /\ SPACE > 0 /\ SPACE % 4 = 0  BY MapAssumption, CpuAssumption
<1> DEFINE q == SPACE \div 4
           r == a \div 4
           k == a \div SPACE
<1>1. q \in Int /\ SPACE = 4 * q  OBVIOUS
<1>2. r \in Int /\ a = 4 * r  OBVIOUS
<1>3. k \in Int /\ a = SPACE * k + Wrap(a) /\ Wrap(a) \in Int  BY DEF Wrap
<1> HIDE DEF q, r, k
<1> DEFINE y == SPACE * k
<1> DEFINE p == q * k
<1>4. p \in Int /\ y = 4 * p /\ y \in Int
  <2>1. p \in Int /\ (4 * q) * k = 4 * (q * k)  BY <1>1, <1>3, FourOut, Zenon
  <2> QED  BY <1>1, <1>3, <2>1
<1>5. a = y + Wrap(a)  BY <1>3
<1> HIDE DEF p, y
<1>6. PICK x \in Int : x = r - p  BY <1>2, <1>4
<1>7. Wrap(a) = 4 * x
  <2>1. PICK w \in Int, u \in Int, v \in Int : w = Wrap(a) /\ u = r /\ v = p
    BY <1>2, <1>3, <1>4, Zenon
  <2>2. 4 * u = 4 * v + w /\ x = u - v  BY <1>2, <1>4, <1>5, <1>6, <2>1, Zenon
  <2>3. w = 4 * x  BY ONLY <2>2, w \in Int, u \in Int, v \in Int, x \in Int
  <2> QED  BY <2>1, <2>3, Zenon
<1> QED  BY <1>7, FourTimes, Zenon

\* A decoded instruction has register numbers and an integer immediate.
LEMMA DecodeType ==
    ASSUME NEW w
    PROVE  IsInstruction(Decode(w))
BY IsaAssumption DEF Decode, Illegal, IsInstruction

\* Writing a register keeps the register file, and register 0 zero.
LEMMA SetRegType ==
    ASSUME NEW r \in [RegSet -> Int], NEW idx \in RegSet, NEW v \in Int
    PROVE  SetReg(r, idx, v) \in [RegSet -> Int] /\ SetReg(r, idx, v)[0] = 0
BY IsaAssumption DEF SetReg

\* Memory words are integers.
LEMMA WordType ==
    ASSUME NEW m, m \in [DOMAIN m -> Int], NEW a \in Int
    PROVE  Word(m, a) \in Int
BY DEF Word

\* The registers after any instruction are a register file with a zero.
LEMMA RegsAfterType ==
    ASSUME NEW i, IsInstruction(i), NEW r \in [RegSet -> Int], NEW out \in [RegSet -> Int], out[0] = 0,
           NEW l \in Int, NEW link \in Int
    PROVE  RegsAfter(i, r, out, l, link) \in [RegSet -> Int] /\ RegsAfter(i, r, out, l, link)[0] = 0
<1>1. i.op \in AluOps => Alu(i, r) \in Int
  BY DEF AluOps, Alu, OrBit, XorBit, IsInstruction
<1>2. Linked(i, out, link) \in [RegSet -> Int] /\ Linked(i, out, link)[0] = 0
  <2>1. RA \in RegSet /\ i.t \in RegSet  BY IsaAssumption DEF IsInstruction
  <2>2. CASE i.op \in {"jal", "bltzal"}  BY <2>1, <2>2, SetRegType DEF Linked
  <2>3. CASE i.op = "jalr"  BY <2>1, <2>3, SetRegType DEF Linked
  <2>4. CASE i.op \notin {"jal", "jalr", "bltzal"}  BY <2>4 DEF Linked
  <2> QED  BY <2>2, <2>3, <2>4
<1>3. i.t \in RegSet  BY DEF IsInstruction
<1>4. CASE i.op \in AluOps  BY <1>1, <1>3, <1>4, SetRegType DEF RegsAfter, AluOps, JumpOps
<1>5. CASE i.op = "mflo"  BY <1>3, <1>5, SetRegType DEF RegsAfter, AluOps, JumpOps
<1>6. CASE i.op \in JumpOps  BY <1>2, <1>6 DEF RegsAfter, AluOps, JumpOps
<1>7. CASE i.op = "syscall"
  <2>1. V0 \in RegSet /\ 0 \in Int  BY IsaAssumption
  <2>2. RegsAfter(i, r, out, l, link) = SetReg(out, V0, 0)  BY <1>7 DEF RegsAfter, AluOps, JumpOps
  <2>3. SetReg(out, V0, 0) \in [RegSet -> Int] /\ SetReg(out, V0, 0)[0] = 0  BY <2>1, SetRegType
  <2> QED  BY <2>2, <2>3, Zenon
<1>8. CASE i.op \notin AluOps \cup JumpOps \cup {"mflo", "syscall"}  BY <1>8 DEF RegsAfter
<1> QED  BY <1>4, <1>5, <1>6, <1>7, <1>8

\* What a load puts in flight is a register number and an integer.
LEMMA LoadAfterType ==
    ASSUME NEW i, IsInstruction(i), NEW out \in [RegSet -> Int], NEW m, m \in [DOMAIN m -> Int], NEW g \in Int
    PROVE  LoadAfter(i, out, m, g) \in [reg : RegSet, val : Int]
<1>1. Word(m, i.imm) \in Int /\ out[i.t] \in Int  BY WordType DEF IsInstruction
<1>2. i.op \in LoadOps => LoadValue(i, out, m, g) \in Int
  BY <1>1 DEF LoadOps, LoadValue
<1> QED  BY <1>2, IsaAssumption DEF LoadAfter, IsInstruction

\* What a store writes is an integer.
LEMMA StoreValueType ==
    ASSUME NEW i, IsInstruction(i), i.op \in StoreOps, NEW r \in [RegSet -> Int], NEW m, m \in [DOMAIN m -> Int]
    PROVE  StoreValue(i, r, m) \in Int
<1>1. Word(m, i.imm) \in Int /\ r[i.t] \in Int  BY WordType DEF IsInstruction
<1> QED  BY <1>1 DEF StoreOps, StoreValue

\* Jump targets lie in the address space.
LEMMA TargetType ==
    ASSUME NEW i, IsInstruction(i), NEW r \in [RegSet -> Int], NEW p \in Int
    PROVE  Target(i, r, p) \in 0 .. SPACE - 1
<1>1. r[i.s] \in Int /\ i.imm \in Int /\ p + i.imm \in Int  BY DEF IsInstruction
<1> QED  BY <1>1, WrapType DEF Target

-----------------------------------------------------------------------------
\* An exception enters the handler in sequence and records typed COP0 values.
LEMMA ExceptionType ==
    ASSUME TypeOK, NEW code \in Int, NEW slot \in BOOLEAN, cpu_exception(code, slot)
    PROVE  /\ sr' \in Int /\ cause' \in Int /\ epc' \in 0 .. SPACE - 1
           /\ pc' \in 0 .. SPACE - 1 /\ next_pc' \in 0 .. SPACE - 1
           /\ next_pc' = Wrap(pc' + 4)
<1>1. sr' \in Int  BY DEF cpu_exception, TypeOK, Mode
<1>2. SoftwareBit \in Int /\ External \in Int  BY DEF SoftwareBit, External, IM_SW, IM_EXT
<1>3. cause' \in Int  BY <1>2 DEF cpu_exception, BD
<1>4. pc - 4 \in Int /\ pc \in Int  BY MapAssumption DEF TypeOK
<1>5. epc' \in 0 .. SPACE - 1
  <2>1. epc' = IF slot THEN Wrap(pc - 4) ELSE Wrap(pc)  BY DEF cpu_exception
  <2> QED  BY <2>1, <1>4, WrapType
<1>6. pc' \in 0 .. SPACE - 1 /\ pc' + 4 \in Int  BY MapAssumption, CpuAssumption DEF cpu_exception
<1>7. next_pc' = Wrap(pc' + 4)  BY DEF cpu_exception
<1> QED  BY <1>1, <1>3, <1>5, <1>6, <1>7, WrapType

\* Going on after an instruction: in sequence unless a branch was taken.
LEMMA ContinueType ==
    ASSUME TypeOK, NEW i, IsInstruction(i), Continue(i)
    PROVE  /\ pc' \in 0 .. SPACE - 1 /\ next_pc' \in 0 .. SPACE - 1
           /\ branch' \in BOOLEAN
           /\ ~branch' => next_pc' = Wrap(pc' + 4)
           /\ pc' = next_pc
<1>1. pc' = next_pc /\ next_pc \in 0 .. SPACE - 1 /\ next_pc \in Int /\ next_pc + 4 \in Int
  BY MapAssumption DEF Continue, TypeOK
<1>2. Taken(i, regs) \in BOOLEAN  BY DEF Taken
<1>3. Target(i, regs, next_pc) \in 0 .. SPACE - 1  BY <1>1, TargetType DEF TypeOK
<1>4. Wrap(next_pc + 4) \in 0 .. SPACE - 1  BY <1>1, WrapType
<1> QED  BY <1>1, <1>2, <1>3, <1>4 DEF Continue

\* The interlock counters stay natural numbers, and the multiplier's counter
\* covers what the multiplication still needs.
LEMMA FinishType ==
    ASSUME TypeOK, NEW i, cpu_finish_instruction_cycles(i)
    PROVE  /\ gte_busy' \in Nat /\ muldiv_busy' \in Nat /\ owed' \in Nat
           /\ owed <= muldiv_busy => owed' <= muldiv_busy'
<1>1. \A n \in Int : Clipped(n) \in Nat /\ (n <= 0 => Clipped(n) = 0)  BY DEF Clipped
<1>2. GTE_CYCLES \in Nat /\ MUL_CYCLES \in Nat  BY CpuAssumption
<1>3. Stall(i) \in Nat /\ (i.op = "mflo" => Stall(i) >= muldiv_busy)  BY DEF Stall, TypeOK, GteOps
<1>4. Elapsed(i) \in Nat /\ (i.op = "mflo" => Elapsed(i) >= muldiv_busy)
  BY <1>3 DEF Elapsed, TypeOK
<1>5. gte_busy' \in Nat  BY <1>1, <1>2, <1>4 DEF cpu_finish_instruction_cycles, TypeOK
<1>6. muldiv_busy' \in Nat /\ owed' \in Nat  BY <1>1, <1>2, <1>4 DEF cpu_finish_instruction_cycles, TypeOK
<1>7. ASSUME owed <= muldiv_busy PROVE owed' <= muldiv_busy'
  <2>1. CASE i.op = "mult"
    <3>1. owed' = muldiv_busy'  BY <2>1 DEF cpu_finish_instruction_cycles
    <3> QED  BY <3>1, <1>6
  <2>2. CASE i.op = "mflo"
    <3>1. owed - Elapsed(i) \in Int /\ owed - Elapsed(i) <= 0  BY <2>2, <1>4, <1>7 DEF TypeOK
    <3>2. owed' = 0  BY <2>2, <3>1, <1>1 DEF cpu_finish_instruction_cycles
    <3> QED  BY <3>2, <1>6
  <2>3. CASE i.op # "mult" /\ i.op # "mflo"
    BY <2>3, <1>4, <1>7 DEF cpu_finish_instruction_cycles, TypeOK, Clipped
  <2> QED  BY <2>1, <2>2, <2>3
<1> QED  BY <1>5, <1>6, <1>7

\* The registers with the load in flight in place.
LEMMA OutType == TypeOK => Out \in [RegSet -> Int] /\ Out[0] = 0
BY SetRegType DEF TypeOK, Out

\* The instruction at pc is a decoded instruction.
LEMMA CurrentType == IsInstruction(I)
BY DecodeType DEF I

-----------------------------------------------------------------------------
\* The machine keeps its types, its pipeline and its interlock in every step.
Inv == TypeOK /\ Pipeline /\ ResultsWaited

\* The initial state satisfies the invariant.
LEMMA InitInv == Init => Inv
<1> SUFFICES ASSUME Init PROVE Inv  OBVIOUS
<1>1. START + 4 \in Int /\ START \in 0 .. SPACE - 1  BY MapAssumption, CpuAssumption
<1>2. pc \in 0 .. SPACE - 1 /\ next_pc \in 0 .. SPACE - 1  BY <1>1, WrapType DEF Init
<1>3. regs \in [RegSet -> Int] /\ regs[0] = 0  BY IsaAssumption, CpuAssumption DEF Init
<1>4. load \in [reg : RegSet, val : Int]  BY IsaAssumption DEF Init
<1>5. mem \in [DOMAIN mem -> Int]  BY CpuAssumption DEF Init
<1>6. epc \in 0 .. SPACE - 1  BY MapAssumption DEF Init
<1>7. TypeOK  BY <1>2, <1>3, <1>4, <1>5, <1>6, CpuAssumption DEF Init, TypeOK
<1>8. Pipeline /\ ResultsWaited  BY DEF Init, Pipeline, ResultsWaited
<1> QED  BY <1>7, <1>8 DEF Inv

\* What every instruction that completes has in common.
LEMMA CompletedStep ==
    ASSUME Inv, Executes, Continue(I), cpu_finish_instruction_cycles(I), delay_slot' = branch,
           regs' \in [RegSet -> Int], regs'[0] = 0, load' \in [reg : RegSet, val : Int],
           sr' \in Int, cause' \in Int, epc' = epc, lo' \in Int, gte' \in Int, mem' \in [DOMAIN mem' -> Int]
    PROVE  Inv'
<1>1. /\ pc' \in 0 .. SPACE - 1 /\ next_pc' \in 0 .. SPACE - 1
      /\ branch' \in BOOLEAN
      /\ ~branch' => next_pc' = Wrap(pc' + 4)
      /\ pc' = next_pc
  BY ContinueType, CurrentType DEF Inv
<1>2. /\ gte_busy' \in Nat /\ muldiv_busy' \in Nat /\ owed' \in Nat
      /\ owed' <= muldiv_busy'
  BY FinishType DEF Inv, ResultsWaited
<1>3. TypeOK'  BY <1>1, <1>2 DEF Inv, TypeOK
<1>4. ~branch => pc' % 4 = 0
  <2>1. SUFFICES ASSUME ~branch PROVE pc' % 4 = 0  OBVIOUS
  <2>2. pc + 4 \in Int /\ (pc + 4) % 4 = 0  BY MapAssumption DEF Inv, TypeOK, Executes
  <2>3. pc' = Wrap(pc + 4)  BY <1>1, <2>1 DEF Inv, Pipeline
  <2> QED  BY <2>2, <2>3, WrapAligned
<1>5. Pipeline'  BY <1>1, <1>4 DEF Pipeline
<1> QED  BY <1>2, <1>3, <1>5 DEF Inv, ResultsWaited

\* Every step, action by action, preserves the invariant.
LEMMA NextInv == Inv /\ [Next]_vars => Inv'
<1> SUFFICES ASSUME Inv, [Next]_vars PROVE Inv'  OBVIOUS
<1> TypeOK /\ Pipeline /\ ResultsWaited  BY DEF Inv
<1>0. Out \in [RegSet -> Int] /\ Out[0] = 0 /\ IsInstruction(I) /\ NoLoad \in [reg : RegSet, val : Int]
  BY OutType, CurrentType, IsaAssumption
<1>a. \A n \in Int : Clipped(n) \in Nat  BY DEF Clipped
<1>b. Clipped(owed - 2) \in Nat /\ Clipped(owed - 2) <= muldiv_busy
      /\ Clipped(owed - 2) <= Clipped(muldiv_busy - 2) /\ Clipped(muldiv_busy - 2) \in Nat
      /\ Clipped(gte_busy - 2) \in Nat
  BY DEF Clipped, TypeOK, ResultsWaited
<1>1. CASE TakeInterrupt
  <2>0. EXC_INTERRUPT \in Int  BY DEF EXC_INTERRUPT
  <2>1. cpu_exception(EXC_INTERRUPT, FALSE)  BY <1>1 DEF TakeInterrupt
  <2>2. /\ sr' \in Int /\ cause' \in Int /\ epc' \in 0 .. SPACE - 1
        /\ pc' \in 0 .. SPACE - 1 /\ next_pc' \in 0 .. SPACE - 1 /\ next_pc' = Wrap(pc' + 4)
    BY <2>0, <2>1, ExceptionType
  <2> QED  BY <1>1, <1>b, <2>2 DEF TakeInterrupt, Inv, TypeOK, Pipeline, ResultsWaited
<1>2. CASE MisalignedPc
  <2>1. cpu_exception(EXC_LOAD_ADDRESS_ERROR, delay_slot) /\ EXC_LOAD_ADDRESS_ERROR \in Int
        /\ delay_slot \in BOOLEAN
    BY <1>2 DEF MisalignedPc, EXC_LOAD_ADDRESS_ERROR, TypeOK
  <2>2. /\ sr' \in Int /\ cause' \in Int /\ epc' \in 0 .. SPACE - 1
        /\ pc' \in 0 .. SPACE - 1 /\ next_pc' \in 0 .. SPACE - 1 /\ next_pc' = Wrap(pc' + 4)
    BY <2>1, ExceptionType
  <2>3. branch => delay_slot  BY <1>2 DEF MisalignedPc, Pipeline
  <2> QED  BY <1>2, <1>b, <2>2, <2>3 DEF MisalignedPc, Inv, TypeOK, Pipeline, ResultsWaited
<1>3. CASE HleCall
  <2>1. regs[RA] \in Int /\ regs[RA] + 4 \in Int  BY IsaAssumption DEF TypeOK
  <2>2. regs' \in [RegSet -> Int] /\ regs'[0] = 0
    <3>1. regs' = SetReg(Out, V0, 0) /\ V0 \in RegSet  BY <1>3, IsaAssumption DEF HleCall, Out
    <3> QED  BY <3>1, <1>0, SetRegType
  <2>3. pc' \in 0 .. SPACE - 1 /\ pc' + 4 \in Int  BY <1>3, <2>1, WrapType, MapAssumption DEF HleCall
  <2>4. next_pc' = Wrap(pc' + 4) /\ next_pc' \in 0 .. SPACE - 1  BY <1>3, <2>3, WrapType DEF HleCall
  <2> QED  BY <1>0, <1>3, <1>b, <2>2, <2>3, <2>4 DEF HleCall, cop0, Inv, TypeOK, Pipeline, ResultsWaited
<1>4. CASE Faulting
  <2>1. cpu_exception(Fault(I), branch) /\ Fault(I) \in Int /\ branch \in BOOLEAN
    BY <1>4 DEF Faulting, TypeOK, Fault, EXC_COPROCESSOR_ERROR, EXC_LOAD_ADDRESS_ERROR, EXC_STORE_ADDRESS_ERROR,
                EXC_OVERFLOW, EXC_SYSCALL, EXC_BREAK, EXC_ILLEGAL_INSTRUCTION, NoFault
  <2>2. /\ sr' \in Int /\ cause' \in Int /\ epc' \in 0 .. SPACE - 1
        /\ pc' \in 0 .. SPACE - 1 /\ next_pc' \in 0 .. SPACE - 1 /\ next_pc' = Wrap(pc' + 4)
    BY <2>1, ExceptionType
  <2> QED  BY <1>0, <1>4, <1>b, <2>2 DEF Faulting, Advance, Inv, TypeOK, Pipeline, ResultsWaited
<1>5. CASE Compute
  <2>1. Executes /\ Continue(I) /\ cpu_finish_instruction_cycles(I) /\ delay_slot' = branch
    BY <1>5 DEF Compute, Advance
  <2>2. Wrap(next_pc + 4) \in Int  BY WrapType, MapAssumption DEF TypeOK
  <2>3. regs' \in [RegSet -> Int] /\ regs'[0] = 0
    <3>1. regs' = RegsAfter(I, regs, Out, lo, Wrap(next_pc + 4))  BY <1>5 DEF Compute
    <3>2. regs \in [RegSet -> Int] /\ lo \in Int  BY DEF TypeOK
    <3> QED  BY <1>0, <2>2, <3>1, <3>2, RegsAfterType
  <2>4. load' \in [reg : RegSet, val : Int]  BY <1>0, <1>5, LoadAfterType DEF Compute, TypeOK
  <2>5. lo' \in Int /\ gte' \in Int
    BY <1>0, <1>5 DEF Compute, TypeOK, LoAfter, GteAfter, IsInstruction
  <2> QED  BY <1>5, <2>1, <2>3, <2>4, <2>5, CompletedStep DEF Compute, cop0, TypeOK
<1>6. CASE HleSyscall
  <2>1. regs' \in [RegSet -> Int] /\ regs'[0] = 0
    <3>1. regs' = RegsAfter(I, regs, Out, lo, Wrap(next_pc + 4))  BY <1>6 DEF HleSyscall
    <3>2. regs \in [RegSet -> Int] /\ lo \in Int /\ Wrap(next_pc + 4) \in Int
      BY WrapType, MapAssumption DEF TypeOK
    <3> QED  BY <1>0, <3>1, <3>2, RegsAfterType
  <2> QED  BY <1>0, <1>6, <2>1, CompletedStep DEF HleSyscall, Advance, cop0, TypeOK
<1>7. CASE StoreWord
  <2>1. StoreValue(I, regs, mem) \in Int  BY <1>0, <1>7, StoreValueType DEF StoreWord, TypeOK
  <2>2. mem' \in [DOMAIN mem' -> Int]  BY <1>7, <2>1 DEF StoreWord, TypeOK
  <2> QED  BY <1>0, <1>7, <2>2, CompletedStep DEF StoreWord, Advance, cop0, TypeOK
<1>8. CASE MoveToSr
  <2>1. sr' \in Int  BY <1>0, <1>8 DEF MoveToSr, TypeOK, IsInstruction
  <2> QED  BY <1>0, <1>8, <2>1, CompletedStep DEF MoveToSr, TypeOK
<1>9. CASE MoveToCause
  <2>1. SoftwareBit \in Int /\ IM_SW \in Int /\ cause \in Int  BY DEF TypeOK, SoftwareBit, IM_SW
  <2>2. cause' \in Int
    <3>1. cause' = (cause - SoftwareBit) + (IF Bit(regs[I.t], IM_SW) THEN IM_SW ELSE 0)
      BY <1>9, Zenon DEF MoveToCause
    <3> QED  BY <2>1, <3>1
  <2> QED  BY <1>0, <1>9, <2>2, CompletedStep DEF MoveToCause, Advance, TypeOK
<1>10. CASE MoveFromCop0
  <2>1. load' \in [reg : RegSet, val : Int]
    <3>1. sr \in Int /\ epc \in Int /\ I.t \in RegSet  BY <1>0, MapAssumption DEF TypeOK, IsInstruction
    <3> QED  BY <1>10, <3>1 DEF MoveFromCop0
  <2> QED  BY <1>0, <1>10, <2>1, CompletedStep DEF MoveFromCop0, Advance, cop0, TypeOK
<1>11. CASE ReturnFromException
  <2>1. sr' \in Int  BY <1>11 DEF ReturnFromException, TypeOK, Mode
  <2> QED  BY <1>0, <1>11, <2>1, CompletedStep DEF ReturnFromException, Advance, TypeOK
<1>12. CASE irq_assert \/ UNCHANGED vars
  BY <1>12 DEF irq_assert, vars, pipeline, cop0, units, Inv, TypeOK, Pipeline, ResultsWaited
<1> QED  BY <1>1, <1>2, <1>3, <1>4, <1>5, <1>6, <1>7, <1>8, <1>9, <1>10, <1>11, <1>12 DEF Next, Step, Exception

-----------------------------------------------------------------------------
\* Every variable of the CPU keeps its type and register 0 stays zero, for
\* every program (cpu_set_reg).
THEOREM TypeCorrect == Spec => []TypeOK
<1>1. Inv => TypeOK  BY DEF Inv
<1> QED  BY <1>1, InitInv, NextInv, PTL DEF Spec

\* mflo never reads a product early: muldiv_busy_cycles covers the cycles the
\* multiplication still needs, for every program and every interrupt.
THEOREM ProductsWaitedFor == Spec => []ResultsWaited
<1>1. Inv => ResultsWaited  BY DEF Inv
<1> QED  BY <1>1, InitInv, NextInv, PTL DEF Spec

\* No exception loses a jump: where EPC is the interrupted instruction itself
\* the program went on in sequence there, for every program and handler.
THEOREM NoJumpIsLost == Spec => JumpsKept
<1> DEFINE Kept == Exception /\ epc' = pc => next_pc = Wrap(pc + 4)
<1>1. ASSUME Inv, [Next]_vars PROVE [Kept]_vars
  <2> SUFFICES ASSUME Exception, epc' = pc PROVE next_pc = Wrap(pc + 4)  OBVIOUS
  <2>1. TypeOK /\ Pipeline  BY <1>1 DEF Inv
  <2>2. pc \in 0 .. SPACE - 1 /\ SPACE \in Nat /\ SPACE > 4  BY <2>1, MapAssumption, CpuAssumption DEF TypeOK
  <2>3. Wrap(pc - 4) # pc
    <3>1. CASE pc >= 4
      <4>1. pc - 4 \in 0 .. SPACE - 1  BY <2>2, <3>1
      <4>2. (pc - 4) % SPACE = pc - 4  BY <2>2, <4>1
      <4> QED  BY <2>2, <4>2 DEF Wrap
    <3>2. CASE pc < 4
      <4>1. pc - 4 + SPACE \in 0 .. SPACE - 1  BY <2>2, <3>2
      <4>2. (pc - 4) % SPACE = pc - 4 + SPACE  BY <2>2, <4>1
      <4> QED  BY <2>2, <4>2 DEF Wrap
    <3> QED  BY <2>2, <3>1, <3>2
  <2>4. CASE TakeInterrupt  BY <2>1, <2>4 DEF TakeInterrupt, Pipeline
  <2>5. CASE MisalignedPc
    <3>1. ~delay_slot  BY <2>3, <2>5 DEF MisalignedPc, cpu_exception
    <3> QED  BY <2>1, <2>5, <3>1 DEF MisalignedPc, Pipeline
  <2>6. CASE Faulting
    <3>1. ~branch  BY <2>3, <2>6 DEF Faulting, cpu_exception
    <3> QED  BY <2>1, <3>1 DEF Pipeline
  <2> QED  BY <2>4, <2>5, <2>6 DEF Exception
<1> QED  BY <1>1, InitInv, NextInv, PTL DEF Spec, JumpsKept

\* The shape of the cache: one line per index.
CacheShape == DOMAIN icache = 0 .. LINES - 1

\* The invariant behind CacheFresh, which is inductive once the cache's shape
\* is known.
LEMMA CacheKept == Spec => [](CacheShape /\ CacheFresh)
<1> DEFINE J == CacheShape /\ CacheFresh
<1> USE DEF CacheShape
<1>0. \A a \in Int : LineOf(a) \in 0 .. LINES - 1  BY MapAssumption DEF LineOf, Physical
<1>1. Init => J
  BY DEF Init, cpu_icache_init, NoLine, CacheFresh
<1>2. ASSUME Inv, J, [Next]_vars PROVE J'
  <2>1. pc \in Int  BY <1>2, MapAssumption DEF Inv, TypeOK
  <2>2. ASSUME icache' = CacheAfter(icache, mem, pc), mem' = mem, unflushed' = unflushed
        PROVE  J'
    <3>1. CASE icache' = icache  BY <1>2, <2>2, <3>1 DEF CacheFresh
    <3>2. CASE icache' = cpu_icache_fill(icache, mem, pc)
      BY <1>0, <1>2, <2>1, <2>2, <3>2 DEF CacheFresh, cpu_icache_fill
    <3> QED  BY <2>2, <3>1, <3>2 DEF CacheAfter
  <2>3. CASE icache' = icache /\ mem' = mem /\ unflushed' = unflushed  BY <1>2, <2>3 DEF CacheFresh
  <2>4. CASE StoreWord
    <3> DEFINE a0 == Physical(I.imm)
               filled == CacheAfter(icache, mem, pc)
    <3>1. icache' = filled  BY <2>4 DEF StoreWord, Advance
    <3>2. /\ DOMAIN filled = 0 .. LINES - 1
          /\ \A n \in DOMAIN filled : filled[n].valid =>
                \A k \in 0 .. 3 : LET a == filled[n].tag + 4 * k
                                 IN  filled[n].words[k] = Word(mem, a) \/ Physical(a) \in unflushed
      BY <1>0, <1>2, <2>1 DEF CacheFresh, CacheAfter, cpu_icache_fill
    <3>3. /\ unflushed \subseteq unflushed'
          /\ \A a : Word(mem', a) = Word(mem, a) \/ Physical(a) \in unflushed'
      BY <2>4 DEF StoreWord, Word
    <3> HIDE DEF filled, a0
    <3> QED  BY <3>1, <3>2, <3>3 DEF CacheFresh
  <2>5. CASE MoveToSr
    <3>1. CASE icache' = cpu_icache_init  BY <3>1 DEF CacheFresh, cpu_icache_init, NoLine
    <3>2. CASE icache' # cpu_icache_init  BY <2>2, <2>5, <3>2 DEF MoveToSr
    <3> QED  BY <3>1, <3>2
  <2>6. CASE Faulting \/ Compute \/ HleSyscall \/ MoveToCause \/ MoveFromCop0 \/ ReturnFromException
    BY <2>2, <2>6 DEF Faulting, Compute, HleSyscall, MoveToCause, MoveFromCop0, ReturnFromException, Advance
  <2>7. CASE TakeInterrupt \/ MisalignedPc \/ HleCall \/ irq_assert \/ UNCHANGED vars
    BY <2>3, <2>7 DEF TakeInterrupt, MisalignedPc, HleCall, irq_assert, vars
  <2> QED  BY <1>2, <2>4, <2>5, <2>6, <2>7 DEF Next, Step, Exception
<1> HIDE DEF J
<1>3. Spec => []J  BY <1>1, <1>2, InitInv, NextInv, PTL DEF Spec
<1> QED  BY <1>3 DEF J

\* The cache serves stale words only where memory was written after it was
\* last emptied, for every program, memory and number of lines.
THEOREM CacheStaysFresh == Spec => []CacheFresh
BY CacheKept, PTL

-----------------------------------------------------------------------------
(* CpuProgram reads instructions as Cpu does: both extend Isa.                *)
LEMMA SameAddresses ==
    ASSUME NEW a
    PROVE  Program!Wrap(a) = Wrap(a) /\ Program!Physical(a) = Physical(a)
           /\ Program!cpu_icache_is_cacheable(a) = cpu_icache_is_cacheable(a)
BY DEF Program!Wrap, Wrap, Program!Physical, Physical, Program!cpu_icache_is_cacheable, cpu_icache_is_cacheable

LEMMA SameWord == ASSUME NEW m, NEW a PROVE Program!Word(m, a) = Word(m, a)
BY SameAddresses DEF Program!Word, Word

LEMMA SameDecode == ASSUME NEW w PROVE Program!Decode(w) = Decode(w)
BY DEF Program!Decode, Decode, Program!Illegal, Illegal

LEMMA SameSetReg == ASSUME NEW r, NEW idx, NEW v PROVE Program!SetReg(r, idx, v) = SetReg(r, idx, v)
BY DEF Program!SetReg, SetReg

LEMMA SameOps ==
    /\ Program!NoLoad = NoLoad /\ Program!RA = RA /\ Program!V0 = V0 /\ Program!ISOLATE = ISOLATE
    /\ Program!AluOps = AluOps /\ Program!LoadOps = LoadOps /\ Program!StoreOps = StoreOps
    /\ Program!JumpOps = JumpOps
BY DEF Program!NoLoad, Program!RA, Program!V0, Program!ISOLATE, ISOLATE, Program!AluOps, AluOps,
       Program!LoadOps, LoadOps, Program!StoreOps, StoreOps, Program!JumpOps, JumpOps

LEMMA SameBits == ASSUME NEW w, NEW b PROVE Program!Bit(w, b) = Bit(w, b) /\ Program!OrBit(w, b) = OrBit(w, b)
                                            /\ Program!XorBit(w, b) = XorBit(w, b)
BY DEF Program!Bit, Bit, Program!OrBit, OrBit, Program!XorBit, XorBit

LEMMA SameAlu == ASSUME NEW i, NEW r PROVE Program!Alu(i, r) = Alu(i, r)
BY SameBits DEF Program!Alu, Alu

LEMMA SameRegs ==
    ASSUME NEW i, NEW r, NEW out, NEW l, NEW link
    PROVE  Program!RegsAfter(i, r, out, l, link) = RegsAfter(i, r, out, l, link)
BY SameOps, SameAlu, SameSetReg DEF Program!RegsAfter, RegsAfter, Program!Linked, Linked

LEMMA SameLoad ==
    ASSUME NEW i, NEW out, NEW m, NEW g
    PROVE  Program!LoadAfter(i, out, m, g) = LoadAfter(i, out, m, g)
BY SameOps, SameWord DEF Program!LoadAfter, LoadAfter, Program!LoadValue, LoadValue, Program!HALF

LEMMA SameStore ==
    ASSUME NEW i, NEW r, NEW m PROVE Program!StoreValue(i, r, m) = StoreValue(i, r, m)
BY SameWord DEF Program!StoreValue, StoreValue, Program!HALF

LEMMA SameUnits ==
    ASSUME NEW i, NEW r, NEW l, NEW g
    PROVE  Program!LoAfter(i, r, l) = LoAfter(i, r, l) /\ Program!GteAfter(i, g) = GteAfter(i, g)
BY DEF Program!LoAfter, LoAfter, Program!GteAfter, GteAfter, Program!HALF

LEMMA SameJump ==
    ASSUME NEW i, NEW r, NEW p
    PROVE  Program!Taken(i, r) = Taken(i, r) /\ Program!Target(i, r, p) = Target(i, r, p)
BY SameAddresses DEF Program!Taken, Taken, Program!Target, Target

-----------------------------------------------------------------------------
(* The program sees only its own registers, and its instructions read and     *)
(* write no others.                                                           *)
LEMMA UserRegsFacts == {0, V0, A0, RA} \subseteq UserRegs /\ UserRegs \subseteq RegSet
BY CpuAssumption

LEMMA UserPartType == ASSUME NEW r \in [RegSet -> Int] PROVE UserPart(r) \in [UserRegs -> Int]
BY UserRegsFacts DEF UserPart

LEMMA UserPartAt == ASSUME NEW r, NEW k \in UserRegs PROVE UserPart(r)[k] = r[k]
BY DEF UserPart

LEMMA SetRegIn ==
    ASSUME NEW r \in [RegSet -> Int], NEW idx \in UserRegs, NEW v
    PROVE  UserPart(SetReg(r, idx, v)) = SetReg(UserPart(r), idx, v)
BY UserRegsFacts DEF UserPart, SetReg

LEMMA SetRegOut ==
    ASSUME NEW r \in [RegSet -> Int], r[0] = 0, NEW idx \in RegSet, idx \notin UserRegs \ {0}, NEW v
    PROVE  UserPart(SetReg(r, idx, v)) = UserPart(r)
BY UserRegsFacts DEF UserPart, SetReg

\* Writing register 0 changes nothing.
LEMMA SetRegZero ==
    ASSUME NEW S, 0 \in S, NEW r \in [S -> Int], r[0] = 0, NEW v
    PROVE  SetReg(r, 0, v) = r
BY DEF SetReg

LEMMA UserRegsAfter ==
    ASSUME NEW i, {i.s, i.t} \subseteq UserRegs, NEW r \in [RegSet -> Int], NEW out \in [RegSet -> Int],
           NEW l, NEW link
    PROVE  UserPart(RegsAfter(i, r, out, l, link)) = RegsAfter(i, UserPart(r), UserPart(out), l, link)
<1>1. RA \in UserRegs /\ V0 \in UserRegs /\ i.t \in UserRegs /\ i.s \in UserRegs  BY UserRegsFacts
<1>2. UserPart(r)[i.s] = r[i.s]  BY <1>1, UserPartAt
<1>3. Alu(i, UserPart(r)) = Alu(i, r)  BY <1>2 DEF Alu
<1>4. UserPart(Linked(i, out, link)) = Linked(i, UserPart(out), link)
  <2>1. CASE i.op \in {"jal", "bltzal"}  BY <1>1, <2>1, SetRegIn DEF Linked
  <2>2. CASE i.op = "jalr"  BY <1>1, <2>2, SetRegIn DEF Linked
  <2>3. CASE i.op \notin {"jal", "jalr", "bltzal"}  BY <2>3 DEF Linked
  <2> QED  BY <2>1, <2>2, <2>3
<1>5. CASE i.op \in AluOps
  <2>1. RegsAfter(i, r, out, l, link) = SetReg(out, i.t, Alu(i, r))
        /\ RegsAfter(i, UserPart(r), UserPart(out), l, link) = SetReg(UserPart(out), i.t, Alu(i, UserPart(r)))
    BY <1>5 DEF RegsAfter, AluOps, JumpOps
  <2> QED  BY <1>1, <1>3, <2>1, SetRegIn
<1>6. CASE i.op = "mflo"
  <2>1. RegsAfter(i, r, out, l, link) = SetReg(out, i.t, l)
        /\ RegsAfter(i, UserPart(r), UserPart(out), l, link) = SetReg(UserPart(out), i.t, l)
    BY <1>6 DEF RegsAfter, AluOps, JumpOps
  <2> QED  BY <1>1, <2>1, SetRegIn
<1>7. CASE i.op \in JumpOps
  <2>1. RegsAfter(i, r, out, l, link) = Linked(i, out, link)
        /\ RegsAfter(i, UserPart(r), UserPart(out), l, link) = Linked(i, UserPart(out), link)
    BY <1>7 DEF RegsAfter, AluOps, JumpOps
  <2> QED  BY <1>4, <2>1
<1>8. CASE i.op = "syscall"
  <2>1. RegsAfter(i, r, out, l, link) = SetReg(out, V0, 0)
        /\ RegsAfter(i, UserPart(r), UserPart(out), l, link) = SetReg(UserPart(out), V0, 0)
    BY <1>8 DEF RegsAfter, AluOps, JumpOps
  <2> QED  BY <1>1, <2>1, SetRegIn
<1>9. CASE i.op \notin AluOps \cup JumpOps \cup {"mflo", "syscall"}
  BY <1>9 DEF RegsAfter
<1> QED  BY <1>5, <1>6, <1>7, <1>8, <1>9

LEMMA UserReads ==
    ASSUME NEW i, {i.s, i.t} \subseteq UserRegs, NEW r \in [RegSet -> Int], NEW m, NEW g, NEW l, NEW p
    PROVE  /\ LoadAfter(i, UserPart(r), m, g) = LoadAfter(i, r, m, g)
           /\ LoAfter(i, UserPart(r), l) = LoAfter(i, r, l)
           /\ StoreValue(i, UserPart(r), m) = StoreValue(i, r, m)
           /\ Taken(i, UserPart(r)) = Taken(i, r) /\ Target(i, UserPart(r), p) = Target(i, r, p)
           /\ UserPart(r)[i.t] = r[i.t]
<1>1. UserPart(r)[i.s] = r[i.s] /\ UserPart(r)[i.t] = r[i.t]  BY UserPartAt
<1> QED  BY <1>1 DEF LoadAfter, LoadValue, LoAfter, StoreValue, Taken, Target

-----------------------------------------------------------------------------
(* What an instruction that completes does, whichever it is.                  *)
Completes == \/ Compute \/ HleSyscall \/ StoreWord
             \/ MoveToSr \/ MoveToCause \/ MoveFromCop0 \/ ReturnFromException

Stored(i, r, m, blocked) ==
    IF i.op \in StoreOps /\ Physical(i.imm) \in DOMAIN m /\ ~blocked
    THEN [m EXCEPT ![Physical(i.imm)] = StoreValue(i, r, m)] ELSE m

LEMMA HighBits ==
    ASSUME NEW k \in Int, NEW d \in Int, 0 <= d, d < 64, NEW w \in Int, w = 64 * k + d
    PROVE  w \div 65536 = k \div 1024 /\ w - (w % 64) = 64 * k
OBVIOUS

\* The mode stack is not the isolation bit.
LEMMA ModeApart ==
    ASSUME NEW w \in Int, NEW m \in Int, 0 <= m, m < 64
    PROVE  Bit((w - (w % 64)) + m, ISOLATE) = Bit(w, ISOLATE)
<1>1. PICK k \in Int, d \in Int : w = 64 * k + d /\ 0 <= d /\ d < 64
  <2>1. w = 64 * (w \div 64) + (w % 64) /\ w \div 64 \in Int /\ w % 64 \in Int /\ 0 <= w % 64 /\ w % 64 < 64  OBVIOUS
  <2> QED  BY <2>1
<1>2. PICK n \in Int : n = (w - (w % 64)) + m  OBVIOUS
<1>3. w \div 65536 = k \div 1024 /\ w - (w % 64) = 64 * k  BY <1>1, HighBits
<1>4. n = 64 * k + m  BY <1>2, <1>3
<1>5. n \div 65536 = k \div 1024  BY <1>4, HighBits
<1> QED  BY <1>2, <1>3, <1>5 DEF Bit, ISOLATE

LEMMA Completed ==
    ASSUME Inv, Completes
    PROVE  /\ Executes /\ Continue(I) /\ Retire
           /\ regs' = RegsAfter(I, regs, Out, lo, Wrap(next_pc + 4))
           /\ I.op \notin {"mfc0 sr", "mfc0 epc"} => load' = LoadAfter(I, Out, mem, gte)
           /\ I.op \in {"mfc0 sr", "mfc0 epc"} => load'.reg = I.t /\ load'.val \in Int
           /\ lo' = LoAfter(I, regs, lo) /\ gte' = GteAfter(I, gte)
           /\ mem' = Stored(I, regs, mem, Blocked(I.imm)) /\ hle' = hle
           /\ Isolated' = IF I.op = "mtc0 sr" THEN Bit(regs[I.t], ISOLATE) ELSE Isolated
           /\ I.op = "mtc0 sr" => sr' = regs[I.t]
           /\ I.op \notin {"mtc0 sr", "rfe"} => sr' = sr
           /\ epc' = epc /\ Fault(I) = NoFault
<1> USE DEF AluOps, LoadOps, JumpOps, StoreOps, Inv
<1>1. CASE Compute
  BY <1>1 DEF Compute, Stored, Isolated, cop0
<1>2. CASE HleSyscall
  BY <1>2 DEF HleSyscall, LoadAfter, LoAfter, GteAfter, Stored, Isolated, cop0
<1>3. CASE StoreWord
  <2>1. regs' = Out /\ load' = NoLoad /\ I.op \in StoreOps /\ UNCHANGED <<cop0, lo, gte, hle>>
        /\ Executes /\ Continue(I) /\ Retire /\ Fault(I) = NoFault
        /\ mem' = Stored(I, regs, mem, Blocked(I.imm))
    BY <1>3 DEF StoreWord, Stored
  <2> QED  BY <2>1 DEF RegsAfter, LoadAfter, LoAfter, GteAfter, Isolated, cop0
<1>4. CASE MoveToSr
  BY <1>4 DEF MoveToSr, RegsAfter, LoadAfter, LoAfter, GteAfter, Stored, Isolated, Fault, GteOps
<1>5. CASE MoveToCause
  BY <1>5 DEF MoveToCause, RegsAfter, LoadAfter, LoAfter, GteAfter, Stored, Isolated, Fault, GteOps
<1>6. CASE MoveFromCop0
  <2>1. sr \in Int /\ epc \in Int  BY MapAssumption DEF TypeOK
  <2> QED  BY <1>6, <2>1 DEF MoveFromCop0, RegsAfter, LoAfter, GteAfter, Stored, Isolated, cop0, Fault, GteOps
<1>7. CASE ReturnFromException
  <2>1. Isolated' = Isolated
    <3>1. sr \in Int /\ (sr % 64) \div 4 \in Int /\ 0 <= (sr % 64) \div 4 /\ (sr % 64) \div 4 < 64  BY DEF TypeOK
    <3>2. sr' = (sr - (sr % 64)) + ((sr % 64) \div 4)  BY <1>7 DEF ReturnFromException, Mode
    <3> QED  BY <3>1, <3>2, ModeApart DEF Isolated
  <2> QED
    BY <1>7, <2>1 DEF ReturnFromException, RegsAfter, LoadAfter, LoAfter, GteAfter, Stored, Fault, GteOps
<1> QED  BY <1>1, <1>2, <1>3, <1>4, <1>5, <1>6, <1>7 DEF Completes

-----------------------------------------------------------------------------
\* An exception disables interrupts and leaves the isolation bit alone.
LEMMA ExceptionSr ==
    ASSUME sr \in Int, NEW code, NEW slot, cpu_exception(code, slot)
    PROVE  ~Bit(sr', IE) /\ Isolated' = Isolated
<1>1. PICK m \in Int : m = (Mode * 4) % 64 /\ 0 <= m /\ m < 64 /\ m % 2 = 0  BY DEF Mode
<1>2. sr' = (sr - (sr % 64)) + m  BY <1>1 DEF cpu_exception, Mode
<1>3. Bit(sr', ISOLATE) = Bit(sr, ISOLATE)  BY <1>1, <1>2, ModeApart
<1>4. PICK k \in Int : sr - (sr % 64) = 64 * k
  <2>1. sr = 64 * (sr \div 64) + (sr % 64) /\ sr \div 64 \in Int /\ sr % 64 \in Int  OBVIOUS
  <2> QED  BY <2>1
<1>5. PICK n \in Int : n = sr' /\ ~(n % 2 = 1)  BY <1>1, <1>2, <1>4
<1>6. ~Bit(sr', IE)
  <2>1. ~(n % 2 = 1)  BY <1>5, Zenon
  <2>2. n \div 1 = n  OBVIOUS
  <2>3. ~Bit(n, IE)  BY <2>1, <2>2, Zenon DEF Bit, IE
  <2> QED  BY <1>5, <2>3
<1> QED  BY <1>3, <1>6 DEF Isolated

\* A word of a cache line is cached for the address it came from.
LEMMA WordInLine ==
    ASSUME NEW a \in Nat, a % 4 = 0
    PROVE  /\ (a \div 4) % 4 \in 0 .. 3
           /\ Tag(a) + 4 * ((a \div 4) % 4) = Physical(a)
           /\ Physical(Physical(a)) = Physical(a)
<1>1. SEGMENT \in Nat /\ SEGMENT > 0 /\ SEGMENT % 16 = 0  BY MapAssumption, CpuAssumption
<1>2. PICK s \in Int : SEGMENT = 16 * s
  <2>1. SEGMENT = 16 * (SEGMENT \div 16) + (SEGMENT % 16) /\ SEGMENT \div 16 \in Int  BY <1>1
  <2> QED  BY <1>1, <2>1
<1>3. PICK p \in Int, x \in Int : p = a % SEGMENT /\ 0 <= p /\ p < SEGMENT /\ a = SEGMENT * x + p
  <2>1. /\ a % SEGMENT \in Int /\ 0 <= a % SEGMENT /\ a % SEGMENT < SEGMENT /\ a \div SEGMENT \in Int
        /\ a = SEGMENT * (a \div SEGMENT) + (a % SEGMENT)
    BY <1>1
  <2> QED  BY <2>1
<1>4. PICK y \in Int : a = 16 * y + p
  <2>1. s * x \in Int /\ (16 * s) * x = 16 * (s * x)  OBVIOUS
  <2> QED  BY <1>2, <1>3, <2>1
<1>5. PICK u \in Int, v \in Int : p = 16 * u + v /\ 0 <= v /\ v < 16 /\ p % 16 = v
  <2>1. p = 16 * (p \div 16) + (p % 16) /\ p \div 16 \in Int /\ p % 16 \in Int /\ 0 <= p % 16 /\ p % 16 < 16  OBVIOUS
  <2> QED  BY <2>1
<1>6. a = 16 * (y + u) + v  BY <1>4, <1>5
<1>7. (a \div 4) % 4 = v \div 4 /\ v % 4 = 0  BY <1>5, <1>6
<1>8. PICK h \in 0 .. 3 : h = v \div 4 /\ 4 * h = v  BY <1>5, <1>7
<1>9. p % SEGMENT = p  BY <1>1, <1>3
<1>10. Physical(a) = p /\ Tag(a) = p - v  BY <1>3, <1>5 DEF Tag, Physical
<1>11. Physical(p) = p  BY <1>9 DEF Physical
<1>12. (a \div 4) % 4 = h  BY <1>7, <1>8
<1>13. (p - v) + 4 * h = p  BY <1>8
<1> QED  BY <1>10, <1>11, <1>12, <1>13

\* What the cache serves where nothing was written since it was emptied.
LEMMA FetchFresh ==
    ASSUME DOMAIN icache = 0 .. LINES - 1, CacheFresh, pc \in Nat, pc % 4 = 0, Physical(pc) \notin unflushed
    PROVE  Fetch = Word(mem, pc)
<1> SUFFICES ASSUME Hit(icache, pc) PROVE icache[LineOf(pc)].words[(pc \div 4) % 4] = Word(mem, pc)
  BY DEF Fetch, Fetched
<1>1. LineOf(pc) \in 0 .. LINES - 1  BY MapAssumption DEF LineOf, Physical
<1>2. icache[LineOf(pc)].valid /\ icache[LineOf(pc)].tag = Tag(pc)  BY DEF Hit
<1>3. /\ (pc \div 4) % 4 \in 0 .. 3
      /\ Tag(pc) + 4 * ((pc \div 4) % 4) = Physical(pc)
      /\ Physical(Physical(pc)) = Physical(pc)
  BY WordInLine
<1>4. \/ icache[LineOf(pc)].words[(pc \div 4) % 4] = Word(mem, Physical(pc))
      \/ Physical(Physical(pc)) \in unflushed
  BY <1>1, <1>2, <1>3 DEF CacheFresh
<1> QED  BY <1>3, <1>4 DEF Word

-----------------------------------------------------------------------------
(* Where the machine stands in the program that CpuProgram runs: before an    *)
(* instruction of it, in the delay slot of a jump of it, or in the handler.   *)
ArchOut == SetReg(arch.regs, arch.load.reg, arch.load.val)
ArchI == Decode(Word(arch.mem, arch.pc))
Before(early) == IF early THEN ArchOut ELSE arch.regs
ArchAtVector == arch.hle /\ arch.pc \in Vectors

\* The registers once the jump at arch.pc has linked.
Jumped == Linked(ArchI, ArchOut, Wrap(arch.pc + 8))

JumpAhead == ~ArchAtVector /\ ArchI.op \in JumpOps /\ UserCode(ArchI) /\ Restartable(ArchI)

\* Registers that the program can go on with: its own, the load in flight
\* being in, or those a jump left that is to be restarted.
Resumable(r) == r = ArchOut \/ (JumpAhead /\ r = Jumped)

\* The rest of the program's state is the machine's.
Shares(a) ==
    a = [pc |-> a.pc, regs |-> a.regs, load |-> a.load, lo |-> lo, gte |-> gte,
         mem |-> mem, hle |-> hle, isolated |-> Isolated]

ArchOK ==
    /\ arch.pc \in 0 .. SPACE - 1 /\ arch.pc \notin HandlerCode
    /\ arch.regs \in [UserRegs -> Int] /\ arch.regs[0] = 0
    /\ arch.load \in [reg : UserRegs, val : Int]
    /\ Shares(arch)

AtInstruction ==
    /\ pc = arch.pc
    /\ \/ UserPart(regs) = arch.regs /\ load = arch.load
       \/ UserPart(Out) = UserPart(regs) /\ Resumable(UserPart(regs))

InSlot ==
    /\ JumpAhead /\ pc = Wrap(arch.pc + 4)
    /\ load = NoLoad /\ UserPart(regs) = Jumped
    /\ \E early \in BOOLEAN : Taken(ArchI, Before(early)) /\ next_pc = Target(ArchI, Before(early), pc)

InHandler == Resumable(UserPart(Out)) /\ epc = arch.pc /\ ~Bit(sr, IE)

\* A program that jumped to a misaligned address faults there for ever.
OffTrack == IF pc \in HandlerCode THEN epc % 4 # 0 /\ ~Bit(sr, IE) ELSE pc % 4 # 0 /\ ~branch

OnTrack ==
    /\ ArchOK
    /\ IF pc \in HandlerCode THEN InHandler ELSE IF branch THEN InSlot ELSE AtInstruction

RefinementInv == IF arch.pc % 4 # 0 THEN OffTrack ELSE OnTrack

-----------------------------------------------------------------------------
\* One instruction of CpuProgram, by the definitions of Isa.
After(a, i, r, out) ==
    [pc |-> Wrap(a.pc + 4), regs |-> RegsAfter(i, r, out, a.lo, Wrap(a.pc + 8)),
     load |-> LoadAfter(i, out, a.mem, a.gte), lo |-> LoAfter(i, r, a.lo), gte |-> GteAfter(i, a.gte),
     mem |-> Stored(i, r, a.mem, a.isolated /\ cpu_icache_is_cacheable(i.imm)), hle |-> a.hle,
     isolated |-> IF i.op = "mtc0 sr" THEN Bit(r[i.t], ISOLATE) ELSE a.isolated]

LEMMA RanIsAfter ==
    ASSUME NEW a, Shares(a), NEW early \in BOOLEAN
    PROVE  LET out == SetReg(a.regs, a.load.reg, a.load.val)
           IN  Program!Ran(a, early)
                 = After(a, Decode(Word(a.mem, a.pc)), IF early THEN out ELSE a.regs, out)
<1> DEFINE i == Decode(Word(a.mem, a.pc))
           out == SetReg(a.regs, a.load.reg, a.load.val)
           r == IF early THEN out ELSE a.regs
<1>1. Program!Reaches(i, a) = (/\ i.op \in StoreOps /\ Physical(i.imm) \in DOMAIN a.mem
                               /\ ~(a.isolated /\ cpu_icache_is_cacheable(i.imm)))
  BY SameOps, SameAddresses DEF Program!Reaches
<1>2. Program!Ran(a, early) =
        [a EXCEPT !.regs = RegsAfter(i, r, out, a.lo, Wrap(a.pc + 8)),
                  !.load = LoadAfter(i, out, a.mem, a.gte),
                  !.lo   = LoAfter(i, r, a.lo),
                  !.gte  = GteAfter(i, a.gte),
                  !.pc   = Wrap(a.pc + 4),
                  !.isolated = IF i.op = "mtc0 sr" THEN Bit(r[i.t], ISOLATE) ELSE a.isolated,
                  !.mem  = IF Program!Reaches(i, a)
                           THEN [a.mem EXCEPT ![Physical(i.imm)] = StoreValue(i, r, a.mem)] ELSE a.mem]
  <2>0. Program!Decode(Program!Word(a.mem, a.pc)) = Decode(Word(a.mem, a.pc))
        /\ Program!SetReg(a.regs, a.load.reg, a.load.val) = SetReg(a.regs, a.load.reg, a.load.val)
    BY SameWord, SameDecode, SameSetReg
  <2>1. Program!Decode(Program!Word(a.mem, a.pc)) = i
        /\ Program!SetReg(a.regs, a.load.reg, a.load.val) = out
    BY ONLY <2>0, Zenon DEF i, out
  <2>2. Program!Ran(a, early) =
          [a EXCEPT !.regs = Program!RegsAfter(i, r, out, a.lo, Program!Wrap(a.pc + 8)),
                    !.load = Program!LoadAfter(i, out, a.mem, a.gte),
                    !.lo   = Program!LoAfter(i, r, a.lo),
                    !.gte  = Program!GteAfter(i, a.gte),
                    !.pc   = Program!Wrap(a.pc + 4),
                    !.isolated = IF i.op = "mtc0 sr" THEN Program!Bit(r[i.t], Program!ISOLATE) ELSE a.isolated,
                    !.mem  = IF Program!Reaches(i, a)
                             THEN [a.mem EXCEPT ![Program!Physical(i.imm)] = Program!StoreValue(i, r, a.mem)]
                             ELSE a.mem]
    BY <2>1, Zenon DEF Program!Ran
  <2>. HIDE DEF i, out, r
  <2>3. /\ Program!RegsAfter(i, r, out, a.lo, Program!Wrap(a.pc + 8)) = RegsAfter(i, r, out, a.lo, Wrap(a.pc + 8))
        /\ Program!LoadAfter(i, out, a.mem, a.gte) = LoadAfter(i, out, a.mem, a.gte)
        /\ Program!LoAfter(i, r, a.lo) = LoAfter(i, r, a.lo)
        /\ Program!GteAfter(i, a.gte) = GteAfter(i, a.gte)
        /\ Program!Wrap(a.pc + 4) = Wrap(a.pc + 4)
        /\ Program!Bit(r[i.t], Program!ISOLATE) = Bit(r[i.t], ISOLATE)
        /\ Program!Physical(i.imm) = Physical(i.imm)
        /\ Program!StoreValue(i, r, a.mem) = StoreValue(i, r, a.mem)
    BY SameRegs, SameLoad, SameUnits, SameAddresses, SameBits, SameStore, SameOps
  <2>. QED  BY <2>2, <2>3, Zenon
<1>3. (IF Program!Reaches(i, a) THEN [a.mem EXCEPT ![Physical(i.imm)] = StoreValue(i, r, a.mem)] ELSE a.mem)
        = Stored(i, r, a.mem, a.isolated /\ cpu_icache_is_cacheable(i.imm))
  BY <1>1 DEF Stored
<1> HIDE DEF i, out, r
<1>4. Program!Ran(a, early) = After(a, i, r, out)  BY <1>2, <1>3 DEF Shares, After
<1> QED  BY <1>4 DEF i, out, r

\* Only jumps link.
LEMMA LinkOnlyJumps ==
    ASSUME NEW i, i.op \notin JumpOps, NEW r, NEW out, NEW l, NEW k1, NEW k2
    PROVE  RegsAfter(i, r, out, l, k1) = RegsAfter(i, r, out, l, k2)
BY DEF RegsAfter

Snapshot == [pc |-> pc, regs |-> UserPart(regs), load |-> load, lo |-> lo, gte |-> gte,
             mem |-> mem, hle |-> hle, isolated |-> Isolated]

\* The machine does to the program's state what CpuProgram does to it.
LEMMA UserStep ==
    ASSUME Inv, Completes, UserCode(I), NEW a, Shares(a),
           I.op \in JumpOps => Wrap(next_pc + 4) = Wrap(a.pc + 8)
    PROVE  Snapshot' = [After(a, I, UserPart(regs), UserPart(Out)) EXCEPT !.pc = pc']
<1>1. /\ regs' = RegsAfter(I, regs, Out, lo, Wrap(next_pc + 4))
      /\ load' = LoadAfter(I, Out, mem, gte)
      /\ lo' = LoAfter(I, regs, lo) /\ gte' = GteAfter(I, gte)
      /\ mem' = Stored(I, regs, mem, Blocked(I.imm)) /\ hle' = hle
      /\ Isolated' = IF I.op = "mtc0 sr" THEN Bit(regs[I.t], ISOLATE) ELSE Isolated
  BY Completed DEF UserCode
<1>2. regs \in [RegSet -> Int] /\ Out \in [RegSet -> Int]  BY OutType DEF Inv, TypeOK
<1>3. {I.s, I.t} \subseteq UserRegs  BY DEF UserCode
<1>4. regs' = RegsAfter(I, regs, Out, lo, Wrap(a.pc + 8))  BY <1>1, LinkOnlyJumps
<1>5. UserPart(regs') = RegsAfter(I, UserPart(regs), UserPart(Out), lo, Wrap(a.pc + 8))
  BY <1>2, <1>3, <1>4, UserRegsAfter
<1>6. /\ load' = LoadAfter(I, UserPart(Out), mem, gte)
      /\ lo' = LoAfter(I, UserPart(regs), lo)
      /\ StoreValue(I, UserPart(regs), mem) = StoreValue(I, regs, mem)
      /\ UserPart(regs)[I.t] = regs[I.t]
  BY <1>1, <1>2, <1>3, UserReads
<1>7. mem' = Stored(I, UserPart(regs), mem, Blocked(I.imm))  BY <1>1, <1>6 DEF Stored
<1>8. Isolated' = IF I.op = "mtc0 sr" THEN Bit(UserPart(regs)[I.t], ISOLATE) ELSE Isolated
  BY <1>1, <1>6
<1>9. /\ a.lo = lo /\ a.gte = gte /\ a.mem = mem /\ a.hle = hle /\ a.isolated = Isolated
  BY DEF Shares
<1>10. Blocked(I.imm) = (a.isolated /\ cpu_icache_is_cacheable(I.imm))  BY <1>9 DEF Blocked
<1>11. Snapshot' = [pc |-> pc', regs |-> UserPart(regs'), load |-> load', lo |-> lo', gte |-> gte',
                    mem |-> mem', hle |-> hle', isolated |-> Isolated']
  BY DEF Snapshot, UserPart
<1>12. After(a, I, UserPart(regs), UserPart(Out))
         = [pc |-> Wrap(a.pc + 4), regs |-> UserPart(regs'), load |-> load', lo |-> lo', gte |-> gte',
            mem |-> mem', hle |-> hle', isolated |-> Isolated']
  BY <1>1, <1>5, <1>6, <1>7, <1>8, <1>9, <1>10, Zenon DEF After
<1> QED  BY <1>11, <1>12

-----------------------------------------------------------------------------
\* Stepping an address forth and back.
LEMMA AddressSteps ==
    ASSUME NEW a \in 0 .. SPACE - 1
    PROVE  /\ Wrap(a) = a /\ Wrap(a + 4) \in 0 .. SPACE - 1
           /\ Wrap(Wrap(a + 4) + 4) = Wrap(a + 8) /\ Wrap(Wrap(a + 4) - 4) = a
           /\ a % 4 # 0 => Wrap(a - 4) % 4 # 0
<1>1. SPACE \in Nat /\ SPACE > 4 /\ SPACE % 4 = 0 /\ SPACE >= 8  BY MapAssumption, CpuAssumption
<1>2. \A x \in Int : 0 <= x /\ x < SPACE => x % SPACE = x  BY <1>1
<1>3. ASSUME NEW x \in Int, SPACE <= x, x < 2 * SPACE PROVE x % SPACE = x - SPACE  BY <1>1, <1>3
<1>4. ASSUME NEW x \in Int, 0 - SPACE <= x, x < 0 PROVE x % SPACE = x + SPACE  BY <1>1, <1>4
<1>5. a \in Int /\ 0 <= a /\ a < SPACE  BY <1>1
<1>6. Wrap(a) = a  BY <1>2, <1>5 DEF Wrap
<1>7. CASE a + 4 < SPACE
  <2>1. Wrap(a + 4) = a + 4  BY <1>1, <1>2, <1>5, <1>7 DEF Wrap
  <2>2. Wrap((a + 4) + 4) = Wrap(a + 8) /\ Wrap((a + 4) - 4) = Wrap(a)
    <3>1. (a + 4) + 4 = a + 8 /\ (a + 4) - 4 = a  BY <1>5
    <3> QED  BY <3>1
  <2>3. a % 4 # 0 => Wrap(a - 4) % 4 # 0
    <3>1. CASE a >= 4
      <4>0. a - 4 \in Int /\ 0 <= a - 4 /\ a - 4 < SPACE  BY <1>1, <1>5, <3>1
      <4>1. Wrap(a - 4) = a - 4  BY <1>2, <4>0 DEF Wrap
      <4> QED  BY <1>5, <4>1
    <3>2. CASE a < 4
      <4>1. Wrap(a - 4) = (a - 4) + SPACE  BY <1>1, <1>4, <1>5, <3>2 DEF Wrap
      <4> QED  BY <1>1, <1>5, <4>1
    <3> QED  BY <1>5, <3>1, <3>2
  <2> QED  BY <1>1, <1>5, <1>6, <1>7, <2>1, <2>2, <2>3
<1>8. CASE a + 4 >= SPACE
  <2>1. Wrap(a + 4) = (a + 4) - SPACE  BY <1>1, <1>3, <1>5, <1>8 DEF Wrap
  <2>2. Wrap(a + 8) = (a + 8) - SPACE  BY <1>1, <1>3, <1>5, <1>8 DEF Wrap
  <2>3. Wrap(((a + 4) - SPACE) + 4) = (a + 8) - SPACE  BY <1>1, <1>2, <1>5, <1>8 DEF Wrap
  <2>4. Wrap(((a + 4) - SPACE) - 4) = a  BY <1>1, <1>4, <1>5, <1>8 DEF Wrap
  <2>5. Wrap(a - 4) = a - 4
    <3>1. a - 4 \in Int /\ 0 <= a - 4 /\ a - 4 < SPACE  BY <1>1, <1>5, <1>8
    <3> QED  BY <1>2, <3>1 DEF Wrap
  <2>6. a % 4 # 0 => (a - 4) % 4 # 0  BY <1>5
  <2> QED  BY <1>1, <1>5, <1>6, <1>8, <2>1, <2>2, <2>3, <2>4, <2>5, <2>6
<1> QED  BY <1>1, <1>5, <1>7, <1>8

LEMMA ArchRegs ==
    ASSUME ArchOK
    PROVE  /\ ArchOut \in [UserRegs -> Int] /\ ArchOut[0] = 0
           /\ arch.lo = lo /\ arch.gte = gte /\ arch.mem = mem /\ arch.hle = hle /\ arch.isolated = Isolated
<1>1. 0 \in UserRegs  BY UserRegsFacts
<1>2. arch.regs \in [UserRegs -> Int] /\ arch.load.reg \in UserRegs /\ arch.load.val \in Int  BY DEF ArchOK
<1>3. ArchOut \in [UserRegs -> Int] /\ ArchOut[0] = 0  BY <1>1, <1>2 DEF ArchOut, SetReg
<1> QED  BY <1>3 DEF ArchOK, Shares

\* A jump restarted with its own link in place does the same again.
LEMMA Restarting ==
    ASSUME ArchOK, JumpAhead
    PROVE  /\ Taken(ArchI, Jumped) = Taken(ArchI, ArchOut)
           /\ \A p : Target(ArchI, Jumped, p) = Target(ArchI, ArchOut, p)
           /\ Linked(ArchI, Jumped, Wrap(arch.pc + 8)) = Jumped
<1>1. /\ ArchOut \in [UserRegs -> Int] /\ ArchOut[0] = 0
      /\ ArchI.s \in UserRegs /\ ArchI.t \in UserRegs /\ RA \in UserRegs /\ 0 \in UserRegs
      /\ ArchI.op \in JumpOps /\ Restartable(ArchI)
  BY ArchRegs, UserRegsFacts DEF JumpAhead, UserCode
<1> DEFINE link == Wrap(arch.pc + 8)
<1>2. CASE ArchI.op \notin {"jal", "jalr", "bltzal"}
  <2>1. Jumped = ArchOut  BY <1>2 DEF Jumped, Linked
  <2>2. Linked(ArchI, ArchOut, link) = ArchOut  BY <1>2 DEF Linked
  <2> QED  BY <2>1, <2>2
<1>3. CASE ArchI.op \in {"jal", "bltzal"}
  <2>1. Jumped = SetReg(ArchOut, RA, link)  BY <1>3 DEF Jumped, Linked
  <2>2. Linked(ArchI, Jumped, link) = SetReg(Jumped, RA, link)  BY <1>3 DEF Linked
  <2>3. SetReg(Jumped, RA, link) = Jumped  BY <1>1, <2>1 DEF SetReg
  <2>4. ArchI.op = "bltzal" => Jumped[ArchI.s] = ArchOut[ArchI.s]
    BY <1>1, <2>1 DEF SetReg, Restartable
  <2>5. Taken(ArchI, Jumped) = Taken(ArchI, ArchOut)  BY <1>3, <2>4 DEF Taken
  <2>6. \A p : Target(ArchI, Jumped, p) = Target(ArchI, ArchOut, p)  BY <1>3 DEF Target
  <2> QED  BY <2>2, <2>3, <2>5, <2>6
<1>4. CASE ArchI.op = "jalr"
  <2>1. Jumped = SetReg(ArchOut, ArchI.t, link)  BY <1>4 DEF Jumped, Linked
  <2>2. Linked(ArchI, Jumped, link) = SetReg(Jumped, ArchI.t, link)  BY <1>4 DEF Linked
  <2>3. SetReg(Jumped, ArchI.t, link) = Jumped  BY <1>1, <2>1 DEF SetReg
  <2>4. Jumped[ArchI.s] = ArchOut[ArchI.s]
    BY <1>1, <1>4, <2>1 DEF SetReg, Restartable
  <2>5. Taken(ArchI, Jumped) = Taken(ArchI, ArchOut)  BY <1>4 DEF Taken
  <2>6. \A p : Target(ArchI, Jumped, p) = Target(ArchI, ArchOut, p)  BY <1>4, <2>4 DEF Target
  <2> QED  BY <2>2, <2>3, <2>5, <2>6
<1> QED  BY <1>2, <1>3, <1>4

\* What is left of the registers with the load in flight in.
LEMMA OutParts ==
    ASSUME TypeOK
    PROVE  /\ load.reg = 0 => Out = regs
           /\ load.reg \in UserRegs => UserPart(Out) = SetReg(UserPart(regs), load.reg, load.val)
           /\ load.reg \notin UserRegs \ {0} => UserPart(Out) = UserPart(regs)
<1>1. regs \in [RegSet -> Int] /\ regs[0] = 0 /\ load.reg \in RegSet /\ 0 \in RegSet
  BY IsaAssumption DEF TypeOK
<1>2. load.reg = 0 => Out = regs  BY <1>1, SetRegZero DEF Out
<1> QED  BY <1>1, <1>2, SetRegIn, SetRegOut DEF Out

-----------------------------------------------------------------------------
\* The machine is before an instruction that the program goes on with.
LEMMA Resumes ==
    Inv /\ arch = Snapshot /\ ~branch /\ pc \notin HandlerCode /\ load.reg \in UserRegs => RefinementInv
<1> SUFFICES ASSUME Inv, arch = Snapshot, ~branch, pc \notin HandlerCode, load.reg \in UserRegs
             PROVE  RefinementInv
  OBVIOUS
<1>1. /\ arch.pc = pc /\ arch.regs = UserPart(regs) /\ arch.load = load
      /\ arch.lo = lo /\ arch.gte = gte /\ arch.mem = mem /\ arch.hle = hle /\ arch.isolated = Isolated
  BY DEF Snapshot
<1>2. Shares(arch)  BY <1>1 DEF Shares, Snapshot
<1>3. regs \in [RegSet -> Int] /\ regs[0] = 0 /\ load \in [reg : RegSet, val : Int] /\ pc \in 0 .. SPACE - 1
  BY DEF Inv, TypeOK
<1>4. load \in [reg : UserRegs, val : Int]  BY <1>3
<1>5. UserPart(regs) \in [UserRegs -> Int] /\ UserPart(regs)[0] = 0
  BY <1>3, UserPartType, UserPartAt, UserRegsFacts
<1>6. ArchOK  BY <1>1, <1>2, <1>3, <1>4, <1>5 DEF ArchOK
<1>7. AtInstruction  BY <1>1 DEF AtInstruction
<1> QED  BY <1>1, <1>6, <1>7 DEF RefinementInv, OnTrack, OffTrack

LEMMA Resumed ==
    ASSUME Inv', arch' = Snapshot', ~branch', pc' \notin HandlerCode, load'.reg \in UserRegs
    PROVE  RefinementInv'
<1>1. (arch = Snapshot)' /\ (pc \notin HandlerCode)' /\ (load.reg \in UserRegs)'  OBVIOUS
<1> QED  BY <1>1, Resumes, PTL

\* While the program's state stays, so does what is said of it.
LEMMA ArchKept ==
    ASSUME arch' = arch
    PROVE  /\ ArchOut' = ArchOut /\ ArchI' = ArchI /\ Jumped' = Jumped /\ JumpAhead' = JumpAhead
           /\ \A early : Before(early)' = Before(early)
           /\ \A r : Resumable(r)' = Resumable(r)
BY DEF ArchOut, ArchI, Jumped, JumpAhead, ArchAtVector, Before, Resumable

\* An exception of the program enters the handler.
LEMMA Trapped ==
    ASSUME arch.pc % 4 = 0, ArchOK, Resumable(UserPart(Out)), UNCHANGED <<arch, lo, gte, mem, hle>>,
           Isolated' = Isolated, UserPart(Out)' = UserPart(Out),
           pc' \in HandlerCode, epc' = arch.pc, ~Bit(sr', IE)
    PROVE  RefinementInv'
<1>1. ArchOK'  BY DEF ArchOK, Shares
<1>2. Resumable(UserPart(Out))'  BY ArchKept DEF Resumable
<1>3. InHandler'  BY <1>2 DEF InHandler
<1> QED  BY <1>1, <1>3 DEF RefinementInv, OnTrack

-----------------------------------------------------------------------------
\* Before an instruction, some choice of when the load in flight arrives makes
\* CpuProgram read what the machine reads.
LEMMA Matches ==
    ASSUME TypeOK, ArchOK, arch.pc % 4 = 0, AtInstruction, ~AtVector, I = ArchI, UserCode(I), Restartable(I)
    PROVE  \E early \in BOOLEAN :
             /\ Taken(I, UserPart(regs)) = Taken(ArchI, Before(early))
             /\ \A p : Target(I, UserPart(regs), p) = Target(ArchI, Before(early), p)
             /\ After(arch, I, UserPart(regs), UserPart(Out)) = After(arch, ArchI, Before(early), ArchOut)
<1>1. CASE UserPart(regs) = arch.regs /\ load = arch.load
  <2>1. load.reg \in UserRegs  BY <1>1 DEF ArchOK
  <2>2. UserPart(Out) = ArchOut  BY <1>1, <2>1, OutParts DEF ArchOut
  <2>3. Before(FALSE) = arch.regs  BY DEF Before
  <2> WITNESS FALSE \in BOOLEAN
  <2> QED  BY <1>1, <2>2, <2>3
<1>2. CASE UserPart(Out) = UserPart(regs) /\ UserPart(regs) = ArchOut
  <2>1. Before(TRUE) = ArchOut  BY DEF Before
  <2> WITNESS TRUE \in BOOLEAN
  <2> QED  BY <1>2, <2>1
<1>3. CASE UserPart(Out) = UserPart(regs) /\ JumpAhead /\ UserPart(regs) = Jumped
  <2>1. Before(TRUE) = ArchOut  BY DEF Before
  <2>2. /\ Taken(ArchI, Jumped) = Taken(ArchI, ArchOut)
        /\ \A p : Target(ArchI, Jumped, p) = Target(ArchI, ArchOut, p)
        /\ Linked(ArchI, Jumped, Wrap(arch.pc + 8)) = Jumped
    BY <1>3, Restarting
  <2>3. ArchI.op \in JumpOps  BY <1>3 DEF JumpAhead
  <2>4. RegsAfter(ArchI, Jumped, Jumped, arch.lo, Wrap(arch.pc + 8))
          = RegsAfter(ArchI, ArchOut, ArchOut, arch.lo, Wrap(arch.pc + 8))
    BY <2>2, <2>3 DEF RegsAfter, Jumped, AluOps, JumpOps
  <2>5. /\ LoadAfter(ArchI, Jumped, arch.mem, arch.gte) = LoadAfter(ArchI, ArchOut, arch.mem, arch.gte)
        /\ LoAfter(ArchI, Jumped, arch.lo) = LoAfter(ArchI, ArchOut, arch.lo)
        /\ \A b : Stored(ArchI, Jumped, arch.mem, b) = Stored(ArchI, ArchOut, arch.mem, b)
        /\ ArchI.op # "mtc0 sr"
    BY <2>3 DEF LoadAfter, LoAfter, Stored, JumpOps, LoadOps, StoreOps
  <2>6. After(arch, ArchI, Jumped, Jumped) = After(arch, ArchI, ArchOut, ArchOut)
    BY <2>4, <2>5 DEF After
  <2> WITNESS TRUE \in BOOLEAN
  <2> QED  BY <1>3, <2>1, <2>2, <2>6
<1> QED  BY <1>1, <1>2, <1>3 DEF AtInstruction, Resumable

\* An instruction of the program that completes: CpuProgram executes it, or it
\* is a taken jump and CpuProgram waits for its delay slot.
LEMMA InstructionStep ==
    ASSUME Inv, Inv', CacheShape, CacheFresh, Contract, arch.pc % 4 = 0, ArchOK, AtInstruction,
           pc \notin HandlerCode, ~branch, Completes
    PROVE  RefinementInv' /\ [Program!ArchNext]_arch
<1> USE DEF Inv
<1>1. /\ Executes /\ Continue(I) /\ Retire
      /\ regs' = RegsAfter(I, regs, Out, lo, Wrap(next_pc + 4))
      /\ load' = LoadAfter(I, Out, mem, gte) /\ lo' = LoAfter(I, regs, lo) /\ gte' = GteAfter(I, gte)
      /\ mem' = Stored(I, regs, mem, Blocked(I.imm)) /\ hle' = hle
      /\ Isolated' = IF I.op = "mtc0 sr" THEN Bit(regs[I.t], ISOLATE) ELSE Isolated
      /\ UserCode(I) /\ Restartable(I) /\ Physical(pc) \notin unflushed /\ next_pc \notin HandlerCode
  <2>1. Executes  BY Completed
  <2>2. UserCode(I) /\ Restartable(I) /\ Physical(pc) \notin unflushed /\ next_pc \notin HandlerCode
    BY <2>1 DEF Contract, ProgramContract
  <2> QED  BY <2>2, Completed DEF UserCode
<1>2. pc = arch.pc /\ pc \in Nat /\ pc \in 0 .. SPACE - 1 /\ pc % 4 = 0 /\ ~AtVector
  <2>1. pc % 4 = 0 /\ ~AtVector  BY <1>1 DEF Executes
  <2>2. pc \in 0 .. SPACE - 1 /\ pc \in Nat  BY MapAssumption DEF TypeOK
  <2> QED  BY <2>1, <2>2 DEF AtInstruction
<1>3. /\ arch.lo = lo /\ arch.gte = gte /\ arch.mem = mem /\ arch.hle = hle /\ arch.isolated = Isolated
      /\ Shares(arch)
  BY ArchRegs DEF ArchOK
<1>4. I = ArchI /\ Fetch = Word(mem, pc)
  <2>1. Fetch = Word(mem, pc)  BY <1>1, <1>2, FetchFresh DEF CacheShape
  <2> QED  BY <1>2, <1>3, <2>1 DEF I, ArchI
<1>5. ~ArchAtVector  BY <1>2, <1>3 DEF ArchAtVector, AtVector
<1>6. PICK early \in BOOLEAN :
        /\ Taken(I, UserPart(regs)) = Taken(ArchI, Before(early))
        /\ \A p : Target(I, UserPart(regs), p) = Target(ArchI, Before(early), p)
        /\ After(arch, I, UserPart(regs), UserPart(Out)) = After(arch, ArchI, Before(early), ArchOut)
  BY <1>1, <1>2, <1>4, Matches
<1>7. next_pc = Wrap(arch.pc + 4) /\ Wrap(next_pc + 4) = Wrap(arch.pc + 8)
  BY <1>2, AddressSteps DEF Pipeline
<1>8. Snapshot' = [After(arch, ArchI, Before(early), ArchOut) EXCEPT !.pc = pc']
  BY <1>1, <1>3, <1>6, <1>7, UserStep
<1>9. Program!Ran(arch, early) = After(arch, ArchI, Before(early), ArchOut)
  BY <1>3, RanIsAfter DEF ArchOut, ArchI, Before
<1>10. Taken(I, regs) = Taken(ArchI, Before(early))
       /\ \A p : Target(I, regs, p) = Target(ArchI, Before(early), p)
  BY <1>1, <1>6, UserReads DEF UserCode, TypeOK
<1>11. /\ ~Program!AtVector
       /\ Program!Jumps(arch, early) = Taken(ArchI, Before(early))
  <2>1. ~Program!AtVector  BY <1>5 DEF Program!AtVector, ArchAtVector
  <2>2. Program!Decode(Program!Word(arch.mem, arch.pc)) = ArchI
        /\ Program!SetReg(arch.regs, arch.load.reg, arch.load.val) = ArchOut
    BY SameWord, SameDecode, SameSetReg DEF ArchI, ArchOut
  <2>3. Program!Jumps(arch, early) = Program!Taken(ArchI, Before(early))
    BY <2>2, Zenon DEF Program!Jumps, Before
  <2> QED  BY <2>1, <2>3, SameJump
<1>12. pc' = next_pc /\ pc' \notin HandlerCode  BY <1>1 DEF Continue
<1>13. load'.reg \in UserRegs
  BY <1>1, UserRegsFacts DEF LoadAfter, UserCode
<1>14. CASE ~Taken(I, regs)
  <2>1. ~branch'  BY <1>1, <1>14 DEF Continue
  <2>2. arch' = Snapshot'
    BY <1>1, <2>1 DEF Retire, Snapshot, Isolated, UserPart
  <2>3. RefinementInv'  BY <1>12, <1>13, <2>1, <2>2, Resumed
  <2>4. After(arch, ArchI, Before(early), ArchOut).pc = pc'
    BY <1>7, <1>12 DEF After
  <2>5. arch' = Program!Ran(arch, early)
    BY <1>8, <1>9, <2>2, <2>4 DEF After
  <2>6. Program!Instruction(early)
    BY <1>10, <1>11, <1>14, <2>5 DEF Program!Instruction
  <2>7. Program!ArchNext  BY <2>6 DEF Program!ArchNext
  <2> QED  BY <2>3, <2>7
<1>15. CASE Taken(I, regs)
  <2>1. branch' /\ next_pc' = Target(I, regs, next_pc)  BY <1>1, <1>15 DEF Continue
  <2>2. arch' = arch  BY <1>1, <2>1 DEF Retire
  <2>3. I.op \in JumpOps  BY <1>15 DEF Taken, JumpOps
  <2>4. load' = NoLoad /\ lo' = lo /\ gte' = gte /\ mem' = mem /\ Isolated' = Isolated
    BY <1>1, <2>3 DEF LoadAfter, LoAfter, GteAfter, Stored, JumpOps, LoadOps, StoreOps
  <2>5. ArchOK'  BY <1>1, <2>2, <2>4 DEF ArchOK, Shares
  <2>6. JumpAhead  BY <1>1, <1>4, <1>5, <2>3 DEF JumpAhead
  <2>7. UserPart(regs)' = Jumped
    <3>1. UserPart(regs)' = Snapshot'.regs  BY DEF Snapshot, UserPart
    <3>2. Snapshot'.regs = After(arch, ArchI, Before(early), ArchOut).regs  BY <1>8 DEF After
    <3>3. After(arch, ArchI, Before(early), ArchOut).regs
            = RegsAfter(ArchI, Before(early), ArchOut, arch.lo, Wrap(arch.pc + 8))
      BY DEF After
    <3>4. RegsAfter(ArchI, Before(early), ArchOut, arch.lo, Wrap(arch.pc + 8)) = Jumped
      BY <1>4, <2>3 DEF RegsAfter, Jumped, AluOps, JumpOps
    <3> QED  BY <3>1, <3>2, <3>3, <3>4
  <2>8. pc' = Wrap(arch.pc + 4)  BY <1>7, <1>12
  <2>9. Taken(ArchI, Before(early)) /\ next_pc' = Target(ArchI, Before(early), pc')
    BY <1>10, <1>12, <1>15, <2>1
  <2>10. InSlot'
    <3>1. JumpAhead' /\ Jumped' = Jumped /\ ArchI' = ArchI /\ Before(early)' = Before(early)
      BY <2>2, <2>6, ArchKept
    <3>2. \E e \in BOOLEAN : Taken(ArchI', Before(e)') /\ next_pc' = Target(ArchI', Before(e)', pc')
      BY <2>9, <3>1
    <3> QED  BY <2>2, <2>4, <2>7, <2>8, <3>1, <3>2 DEF InSlot, Before
  <2>11. RefinementInv'
    BY <1>12, <2>1, <2>2, <2>5, <2>10 DEF RefinementInv, OnTrack
  <2> QED  BY <2>2, <2>11
<1> QED  BY <1>14, <1>15

\* The program's state with another pc, registers and load.
Moved(a, x, r, l) == [a EXCEPT !.pc = x, !.regs = r, !.load = l]
Sharing(x, r, l) == [pc |-> x, regs |-> r, load |-> l, lo |-> lo, gte |-> gte,
                     mem |-> mem, hle |-> hle, isolated |-> Isolated]

LEMMA SharesExcept ==
    ASSUME NEW a, Shares(a), NEW x, NEW r, NEW l
    PROVE  Moved(a, x, r, l) = Sharing(x, r, l)
<1>1. PICK c, d, e, f, g : c = lo /\ d = gte /\ e = mem /\ f = hle /\ g = Isolated  OBVIOUS
<1>2. PICK p, q, o : p = a.pc /\ q = a.regs /\ o = a.load  OBVIOUS
<1>3. a = [pc |-> p, regs |-> q, load |-> o, lo |-> c, gte |-> d, mem |-> e, hle |-> f, isolated |-> g]
  BY <1>1, <1>2, Zenon DEF Shares
<1>4. [[pc |-> p, regs |-> q, load |-> o, lo |-> c, gte |-> d, mem |-> e, hle |-> f, isolated |-> g]
         EXCEPT !.pc = x, !.regs = r, !.load = l]
        = [pc |-> x, regs |-> r, load |-> l, lo |-> c, gte |-> d, mem |-> e, hle |-> f, isolated |-> g]
  <2>1. [[pc |-> p, regs |-> q, load |-> o, lo |-> c, gte |-> d, mem |-> e, hle |-> f, isolated |-> g]
            EXCEPT !.pc = x]
          = [pc |-> x, regs |-> q, load |-> o, lo |-> c, gte |-> d, mem |-> e, hle |-> f, isolated |-> g]
    OBVIOUS
  <2>2. [[pc |-> x, regs |-> q, load |-> o, lo |-> c, gte |-> d, mem |-> e, hle |-> f, isolated |-> g]
            EXCEPT !.regs = r]
          = [pc |-> x, regs |-> r, load |-> o, lo |-> c, gte |-> d, mem |-> e, hle |-> f, isolated |-> g]
    OBVIOUS
  <2>3. [[pc |-> x, regs |-> r, load |-> o, lo |-> c, gte |-> d, mem |-> e, hle |-> f, isolated |-> g]
            EXCEPT !.load = l]
          = [pc |-> x, regs |-> r, load |-> l, lo |-> c, gte |-> d, mem |-> e, hle |-> f, isolated |-> g]
    OBVIOUS
  <2>4. \A z : [z EXCEPT !.pc = x, !.regs = r, !.load = l]
                = [[[z EXCEPT !.pc = x] EXCEPT !.regs = r] EXCEPT !.load = l]
    OBVIOUS
  <2> QED  BY <2>1, <2>2, <2>3, <2>4, Zenon
<1>5. [a EXCEPT !.pc = x, !.regs = r, !.load = l]
        = [pc |-> x, regs |-> r, load |-> l, lo |-> lo, gte |-> gte, mem |-> mem, hle |-> hle,
           isolated |-> Isolated]
  BY <1>1, <1>3, <1>4, Zenon
<1> QED  BY ONLY <1>5, Zenon DEF Moved, Sharing

\* A BIOS call that the emulator serves.
LEMMA HleStep ==
    ASSUME Inv, Inv', Contract, arch.pc % 4 = 0, ArchOK, AtInstruction, pc \notin HandlerCode, HleCall
    PROVE  RefinementInv' /\ [Program!ArchNext]_arch
<1>1. /\ AtVector /\ hle' = hle
      /\ regs' = SetReg(Out, V0, 0) /\ load' = NoLoad /\ branch' = FALSE
      /\ pc' = Wrap(regs[RA])
      /\ arch' = [arch EXCEPT !.pc = pc', !.regs = UserPart(regs'), !.load = load']
      /\ UNCHANGED <<sr, lo, gte, mem>>
  BY DEF HleCall, Out, cop0
<1>2. pc' \notin HandlerCode  BY <1>1 DEF Contract, ProgramContract
<1>3. /\ arch.lo = lo /\ arch.gte = gte /\ arch.mem = mem /\ arch.hle = hle /\ arch.isolated = Isolated
      /\ Shares(arch) /\ pc = arch.pc
  BY ArchRegs DEF ArchOK, AtInstruction
<1>4. ArchAtVector /\ Program!AtVector
  BY <1>1, <1>3 DEF ArchAtVector, AtVector, Program!AtVector
<1>5. PICK early \in BOOLEAN : UserPart(regs) = Before(early) /\ UserPart(Out) = ArchOut
  <2>1. CASE UserPart(regs) = arch.regs /\ load = arch.load
    <3>1. load.reg \in UserRegs  BY <2>1 DEF ArchOK
    <3>2. UserPart(Out) = ArchOut  BY <2>1, <3>1, OutParts DEF ArchOut, Inv
    <3>3. Before(FALSE) = arch.regs  BY DEF Before
    <3> QED  BY <2>1, <3>2, <3>3
  <2>2. CASE UserPart(Out) = UserPart(regs) /\ Resumable(UserPart(regs))
    <3>1. UserPart(regs) = ArchOut  BY <1>4, <2>2 DEF Resumable, JumpAhead
    <3>2. Before(TRUE) = ArchOut  BY DEF Before
    <3> QED  BY <2>2, <3>1, <3>2
  <2> QED  BY <2>1, <2>2 DEF AtInstruction
<1>6. Out \in [RegSet -> Int] /\ RA \in UserRegs /\ V0 \in UserRegs /\ 0 \in UserRegs
  BY OutType, UserRegsFacts DEF Inv
<1>7. UserPart(regs') = SetReg(ArchOut, V0, 0)  BY <1>1, <1>5, <1>6, SetRegIn
<1>8. regs[RA] = Before(early)[RA]  BY <1>5, <1>6, UserPartAt
<1>9. arch' = Snapshot'
  <2>1. Snapshot' = [pc |-> pc', regs |-> UserPart(regs'), load |-> load', lo |-> lo, gte |-> gte,
                     mem |-> mem, hle |-> hle, isolated |-> Isolated]
    BY <1>1 DEF Snapshot, UserPart, Isolated
  <2>2. arch' = [pc |-> pc', regs |-> UserPart(regs'), load |-> load', lo |-> lo, gte |-> gte,
                 mem |-> mem, hle |-> hle, isolated |-> Isolated]
    <3>1. arch' = [arch EXCEPT !.pc = pc', !.regs = UserPart(regs'), !.load = load']  BY <1>1
    <3>2. arch' = Moved(arch, pc', UserPart(regs'), load')  BY ONLY <3>1, Zenon DEF Moved
    <3>3. Shares(arch)  BY <1>3
    <3>4. arch' = Sharing(pc', UserPart(regs'), load')  BY ONLY <3>2, <3>3, SharesExcept, Zenon
    <3> QED  BY ONLY <3>4, Zenon DEF Sharing
  <2> QED  BY <2>1, <2>2, Zenon
<1>10. RefinementInv'
  <2>1. load'.reg \in UserRegs  BY <1>1, <1>6
  <2> QED  BY <1>1, <1>2, <1>9, <2>1, Resumed
<1>11. Program!BiosCall(early)
  <2>1. Program!SetReg(arch.regs, arch.load.reg, arch.load.val) = ArchOut  BY SameSetReg DEF ArchOut
  <2>2. Program!BiosCall(early) =
          (/\ Program!AtVector
           /\ arch' = [arch EXCEPT !.regs = Program!SetReg(ArchOut, Program!V0, 0), !.load = Program!NoLoad,
                                   !.pc = Program!Wrap(Before(early)[Program!RA])])
    BY <2>1, Zenon DEF Program!BiosCall, Before
  <2>3. /\ Program!SetReg(ArchOut, Program!V0, 0) = UserPart(regs')
        /\ Program!NoLoad = load'
        /\ Program!Wrap(Before(early)[Program!RA]) = pc'
    BY <1>1, <1>7, <1>8, SameSetReg, SameOps, SameAddresses
  <2>4. arch' = [arch EXCEPT !.regs = UserPart(regs'), !.load = load', !.pc = pc']
    BY <1>1, <1>3 DEF Shares
  <2> QED  BY <1>4, <2>2, <2>3, <2>4
<1>12. Program!ArchNext  BY <1>11 DEF Program!ArchNext
<1> QED  BY <1>10, <1>12

\* The delay slot of a taken jump: CpuProgram executes both.
LEMMA SlotStep ==
    ASSUME Inv, Inv', CacheShape, CacheFresh, Contract, arch.pc % 4 = 0, ArchOK, InSlot,
           pc \notin HandlerCode, branch, Completes
    PROVE  RefinementInv' /\ [Program!ArchNext]_arch
<1> USE DEF Inv
<1>1. /\ Executes /\ Continue(I) /\ Retire
      /\ load' = LoadAfter(I, Out, mem, gte) /\ hle' = hle
      /\ UserCode(I) /\ Physical(pc) \notin unflushed /\ next_pc \notin HandlerCode /\ I.op \notin JumpOps
  <2>1. Executes  BY Completed
  <2>2. UserCode(I) /\ Physical(pc) \notin unflushed /\ next_pc \notin HandlerCode /\ I.op \notin JumpOps
    BY <2>1 DEF Contract, ProgramContract
  <2> QED  BY <2>2, Completed DEF UserCode
<1>2. pc = Wrap(arch.pc + 4) /\ pc \in Nat /\ pc % 4 = 0
  <2>1. pc % 4 = 0  BY <1>1 DEF Executes
  <2> QED  BY <2>1, MapAssumption DEF InSlot, TypeOK
<1>3. /\ arch.lo = lo /\ arch.gte = gte /\ arch.mem = mem /\ arch.hle = hle /\ arch.isolated = Isolated
      /\ Shares(arch)
  BY ArchRegs DEF ArchOK
<1>4. I = Decode(Word(mem, pc))
  <2>1. Fetch = Word(mem, pc)  BY <1>1, <1>2, FetchFresh DEF CacheShape
  <2> QED  BY <2>1 DEF I
<1>5. PICK early \in BOOLEAN : Taken(ArchI, Before(early)) /\ next_pc = Target(ArchI, Before(early), pc)
  BY DEF InSlot
<1>6. /\ JumpAhead /\ load = NoLoad /\ UserPart(regs) = Jumped /\ UserPart(Out) = Jumped
      /\ ArchI.op \in JumpOps
  <2>1. UserPart(Out) = UserPart(regs)  BY OutParts DEF InSlot
  <2> QED  BY <2>1 DEF InSlot, JumpAhead
<1> DEFINE a == After(arch, ArchI, Before(early), ArchOut)
<1>7. Program!Ran(arch, early) = a
  BY <1>3, RanIsAfter DEF ArchOut, ArchI, Before
<1>8. a.pc = pc /\ a.regs = Jumped /\ a.load = NoLoad /\ Shares(a)
      /\ a.mem = mem
  <2>1. RegsAfter(ArchI, Before(early), ArchOut, arch.lo, Wrap(arch.pc + 8)) = Jumped
    BY <1>6 DEF RegsAfter, Jumped, AluOps, JumpOps
  <2>2. /\ LoadAfter(ArchI, ArchOut, arch.mem, arch.gte) = NoLoad
        /\ LoAfter(ArchI, Before(early), arch.lo) = lo /\ GteAfter(ArchI, arch.gte) = gte
        /\ \A b : Stored(ArchI, Before(early), arch.mem, b) = mem
        /\ ArchI.op # "mtc0 sr"
    BY <1>3, <1>6 DEF LoadAfter, LoAfter, GteAfter, Stored, JumpOps, LoadOps, StoreOps
  <2>3. a = [pc |-> pc, regs |-> Jumped, load |-> NoLoad, lo |-> lo, gte |-> gte, mem |-> mem,
             hle |-> hle, isolated |-> Isolated]
    BY <1>2, <1>3, <2>1, <2>2 DEF After
  <2> HIDE DEF a
  <2> QED  BY <2>3 DEF Shares
<1>9. Snapshot' = [After(a, I, Jumped, Jumped) EXCEPT !.pc = pc']
  <2> HIDE DEF a
  <2>1. Snapshot' = [After(a, I, UserPart(regs), UserPart(Out)) EXCEPT !.pc = pc']
    BY <1>1, <1>8, UserStep
  <2> QED  BY <1>6, <2>1
<1>10. Program!Ran(a, FALSE) = After(a, I, Jumped, Jumped)
  <2> HIDE DEF a
  <2>1. Jumped \in [UserRegs -> Int] /\ Jumped[0] = 0 /\ 0 \in UserRegs
    <3>1. regs \in [RegSet -> Int] /\ regs[0] = 0  BY DEF TypeOK
    <3> QED  BY <1>6, <3>1, UserPartType, UserPartAt, UserRegsFacts
  <2>2. SetReg(a.regs, a.load.reg, a.load.val) = Jumped
    BY <1>8, <2>1, SetRegZero
  <2>3. Decode(Word(a.mem, a.pc)) = I  BY <1>4, <1>8
  <2>4. Program!Ran(a, FALSE)
          = After(a, Decode(Word(a.mem, a.pc)), a.regs, SetReg(a.regs, a.load.reg, a.load.val))
    BY <1>8, RanIsAfter
  <2> QED  BY <1>8, <2>2, <2>3, <2>4
<1>11. /\ ~Program!AtVector
       /\ Program!Jumps(arch, early) /\ Program!JumpTarget(arch, early) = next_pc
  <2>1. ~Program!AtVector  BY <1>6 DEF Program!AtVector, ArchAtVector, JumpAhead
  <2>2. Program!Decode(Program!Word(arch.mem, arch.pc)) = ArchI
        /\ Program!SetReg(arch.regs, arch.load.reg, arch.load.val) = ArchOut
    BY SameWord, SameDecode, SameSetReg DEF ArchI, ArchOut
  <2>3. Program!Jumps(arch, early) = Program!Taken(ArchI, Before(early))
    BY <2>2, Zenon DEF Program!Jumps, Before
  <2>4. Program!JumpTarget(arch, early) = Program!Target(ArchI, Before(early), Program!Wrap(arch.pc + 4))
    BY <2>2, Zenon DEF Program!JumpTarget, Before
  <2>5. Program!Wrap(arch.pc + 4) = pc  BY <1>2, SameAddresses
  <2> QED  BY <1>5, <2>1, <2>3, <2>4, <2>5, SameJump
<1>12. pc' = next_pc /\ ~branch'
  <2>1. ~Taken(I, regs)  BY <1>1 DEF Taken, JumpOps
  <2> QED  BY <1>1, <2>1 DEF Continue
<1>13. arch' = Snapshot'
  BY <1>1, <1>12 DEF Retire, Snapshot, Isolated, UserPart
<1>14. load'.reg \in UserRegs
  BY <1>1, UserRegsFacts DEF LoadAfter, UserCode
<1>15. RefinementInv'  BY <1>1, <1>12, <1>13, <1>14, Resumed
<1>16. Program!BranchAndSlot(early)
  <2> HIDE DEF a
  <2>1. arch' = [Program!Ran(Program!Ran(arch, early), FALSE) EXCEPT !.pc = Program!JumpTarget(arch, early)]
    BY <1>7, <1>9, <1>10, <1>11, <1>12, <1>13
  <2> QED  BY <1>11, <2>1 DEF Program!BranchAndSlot
<1>17. Program!ArchNext  BY <1>16 DEF Program!ArchNext
<1> QED  BY <1>15, <1>17

-----------------------------------------------------------------------------
\* The handler keeps interrupts disabled until it goes back to EPC.
LEMMA HandlerControl ==
    ASSUME Inv, Contract, pc \in HandlerCode, Completes, ~Bit(sr, IE)
    PROVE  /\ arch' = arch /\ epc' = epc
           /\ \/ pc' \in HandlerCode /\ ~Bit(sr', IE)
              \/ pc' \notin HandlerCode /\ pc' = epc /\ ~branch'
<1>1. /\ Continue(I) /\ Retire /\ epc' = epc
      /\ I.op = "mtc0 sr" => sr' = regs[I.t]
      /\ I.op \notin {"mtc0 sr", "rfe"} => sr' = sr
  BY Completed
<1>2. /\ I.op = "mtc0 sr" => ~Bit(regs[I.t], IE)
      /\ I.op = "rfe" => next_pc \notin HandlerCode
      /\ next_pc \in HandlerCode \/ (branch /\ next_pc = epc)
      /\ branch => I.op \notin JumpOps
  BY DEF Contract, HandlerContract
<1>3. arch' = arch /\ pc' = next_pc  BY <1>1 DEF Retire, Continue
<1>4. CASE next_pc \in HandlerCode
  <2>1. ~Bit(sr', IE)  BY <1>1, <1>2, <1>4
  <2> QED  BY <1>1, <1>3, <1>4, <2>1
<1>5. CASE next_pc \notin HandlerCode
  <2>1. ~Taken(I, regs)  BY <1>2, <1>5 DEF Taken, JumpOps
  <2> QED  BY <1>1, <1>2, <1>3, <1>5, <2>1 DEF Continue
<1> QED  BY <1>4, <1>5

\* The handler leaves what the program can see alone.
LEMMA HandlerData ==
    ASSUME Inv, Contract, pc \in HandlerCode, Completes
    PROVE  /\ UserPart(regs') = UserPart(Out)
           /\ load'.reg \notin UserRegs \ {0}
           /\ lo' = lo /\ gte' = gte /\ mem' = mem /\ hle' = hle /\ Isolated' = Isolated
<1>1. /\ regs' = RegsAfter(I, regs, Out, lo, Wrap(next_pc + 4))
      /\ I.op \notin {"mfc0 sr", "mfc0 epc"} => load' = LoadAfter(I, Out, mem, gte)
      /\ I.op \in {"mfc0 sr", "mfc0 epc"} => load'.reg = I.t /\ load'.val \in Int
      /\ lo' = LoAfter(I, regs, lo) /\ gte' = GteAfter(I, gte)
      /\ mem' = Stored(I, regs, mem, Blocked(I.imm)) /\ hle' = hle
      /\ Isolated' = IF I.op = "mtc0 sr" THEN Bit(regs[I.t], ISOLATE) ELSE Isolated
  BY Completed
<1>2. /\ I.op \in AluOps \cup LoadOps \cup {"mflo", "mfc0 sr", "mfc0 epc"} => I.t \notin UserRegs \ {0}
      /\ I.op \in StoreOps => Physical(I.imm) \notin DOMAIN mem
      /\ I.op \notin {"mult", "cop2", "syscall", "jal", "jalr", "bltzal"}
      /\ I.op = "mtc0 sr" => Bit(regs[I.t], ISOLATE) = Isolated
  BY DEF Contract, HandlerContract
<1>3. Out \in [RegSet -> Int] /\ Out[0] = 0 /\ I.t \in RegSet
  BY OutType, CurrentType DEF Inv, IsInstruction
<1>4. UserPart(regs') = UserPart(Out)
  <2>1. CASE I.op \in AluOps \cup {"mflo"}
    <3>1. PICK v : regs' = SetReg(Out, I.t, v)
      BY <1>1, <2>1 DEF RegsAfter, AluOps, JumpOps
    <3> QED  BY <1>2, <1>3, <2>1, <3>1, SetRegOut
  <2>2. CASE I.op \notin AluOps \cup {"mflo"}
    <3>1. regs' = Out  BY <1>1, <1>2, <2>2 DEF RegsAfter, Linked
    <3> QED  BY <3>1
  <2> QED  BY <2>1, <2>2
<1>5. load'.reg \notin UserRegs \ {0}
  <2>1. CASE I.op \in {"mfc0 sr", "mfc0 epc"}  BY <1>1, <1>2, <2>1
  <2>2. CASE I.op \in LoadOps /\ I.op \notin {"mfc0 sr", "mfc0 epc"}
    <3>0. load' = LoadAfter(I, Out, mem, gte)  BY <1>1, <2>2
    <3>1. load'.reg = I.t  BY <2>2, <3>0 DEF LoadAfter
    <3> QED  BY <1>2, <2>2, <3>1
  <2>3. CASE I.op \notin LoadOps \cup {"mfc0 sr", "mfc0 epc"}
    <3>1. load' = [reg |-> 0, val |-> 0]  BY <1>1, <2>3 DEF LoadAfter
    <3> QED  BY <3>1
  <2> QED  BY <2>1, <2>2, <2>3
<1>6. lo' = lo /\ gte' = gte /\ mem' = mem /\ Isolated' = Isolated
  BY <1>1, <1>2 DEF LoAfter, GteAfter, Stored
<1> QED  BY <1>1, <1>4, <1>5, <1>6

\* A load that is not of the program, in its delay slot, is not seen by it.
LEMMA NoUserLoad ==
    TypeOK /\ load.reg \notin UserRegs \ {0} => UserPart(Out) = UserPart(regs)
BY OutParts

LEMMA HandlerStep ==
    ASSUME Inv, Inv', Contract, arch.pc % 4 = 0, ArchOK, InHandler, pc \in HandlerCode, Completes
    PROVE  RefinementInv' /\ arch' = arch
<1>1. /\ arch' = arch /\ epc' = epc
      /\ \/ pc' \in HandlerCode /\ ~Bit(sr', IE)
         \/ pc' \notin HandlerCode /\ pc' = epc /\ ~branch'
  BY HandlerControl DEF InHandler
<1>2. /\ UserPart(regs') = UserPart(Out) /\ load'.reg \notin UserRegs \ {0}
      /\ lo' = lo /\ gte' = gte /\ mem' = mem /\ hle' = hle /\ Isolated' = Isolated
  BY HandlerData
<1>3. (UserPart(Out) = UserPart(regs))'
  <2>1. (TypeOK)' /\ (load.reg \notin UserRegs \ {0})'  BY <1>2 DEF Inv
  <2> QED  BY <2>1, NoUserLoad, PTL
<1>4. UserPart(regs)' = UserPart(Out)  BY <1>2 DEF UserPart
<1>5. ArchOK'  BY <1>1, <1>2 DEF ArchOK, Shares
<1>6. Resumable(UserPart(Out))  BY DEF InHandler
<1>7. arch'.pc % 4 = 0 /\ epc' = arch'.pc  BY <1>1 DEF InHandler
<1>8. CASE pc' \in HandlerCode /\ ~Bit(sr', IE)
  <2>1. Resumable(UserPart(Out))'  BY <1>1, <1>3, <1>4, <1>6, ArchKept DEF Resumable
  <2>2. InHandler'  BY <1>7, <1>8, <2>1 DEF InHandler
  <2> QED  BY <1>1, <1>5, <1>7, <1>8, <2>2 DEF RefinementInv, OnTrack
<1>9. CASE pc' \notin HandlerCode /\ pc' = epc /\ ~branch'
  <2>1. Resumable(UserPart(regs))'  BY <1>1, <1>4, <1>6, ArchKept DEF Resumable
  <2>2. AtInstruction'  BY <1>1, <1>3, <1>7, <1>9, <2>1 DEF AtInstruction
  <2> QED  BY <1>1, <1>5, <1>7, <1>9, <2>2 DEF RefinementInv, OnTrack
<1> QED  BY <1>1, <1>8, <1>9

\* In the handler, nothing but its own instructions happens.
LEMMA HandlerOnly ==
    ASSUME Contract, pc \in HandlerCode, ~Bit(sr, IE), Step
    PROVE  Completes
<1>1. pc % 4 = 0 /\ ~AtVector /\ Fault(I) = NoFault  BY DEF Contract, HandlerContract
<1>2. ~TakeInterrupt  BY DEF TakeInterrupt, cpu_irq_enabled
<1>3. ~MisalignedPc /\ ~HleCall /\ ~Faulting  BY <1>1 DEF MisalignedPc, HleCall, Faulting
<1> QED  BY <1>2, <1>3 DEF Step, Exception, Completes

-----------------------------------------------------------------------------
\* What exceptions share: the handler is entered with interrupts disabled.
LEMMA Excepted ==
    ASSUME Inv, Exception
    PROVE  /\ pc' \in HandlerCode /\ ~Bit(sr', IE) /\ Isolated' = Isolated
           /\ UNCHANGED <<arch, lo, gte, mem, hle>>
           /\ UserPart(Out)' = UserPart(Out)
           /\ \/ TakeInterrupt /\ epc' = pc
              \/ MisalignedPc /\ epc' = (IF delay_slot THEN Wrap(pc - 4) ELSE pc)
              \/ Faulting /\ epc' = (IF branch THEN Wrap(pc - 4) ELSE pc)
<1>1. sr \in Int /\ pc \in 0 .. SPACE - 1 /\ TypeOK  BY DEF Inv, TypeOK
<1>2. Wrap(pc) = pc  BY <1>1, AddressSteps
<1>3. {HANDLER, BEV_HANDLER} \subseteq HandlerCode  BY CpuAssumption
<1>4. ASSUME NEW code, NEW slot, cpu_exception(code, slot)
      PROVE  /\ pc' \in HandlerCode /\ ~Bit(sr', IE) /\ Isolated' = Isolated
             /\ epc' = IF slot THEN Wrap(pc - 4) ELSE pc
  <2>1. ~Bit(sr', IE) /\ Isolated' = Isolated  BY <1>1, <1>4, ExceptionSr
  <2> QED  BY <1>2, <1>3, <1>4, <2>1 DEF cpu_exception
<1>5. CASE TakeInterrupt
  <2>1. cpu_exception(EXC_INTERRUPT, FALSE)  BY <1>5 DEF TakeInterrupt
  <2>2. UNCHANGED <<arch, lo, gte, mem, hle, regs, load>>  BY <1>5 DEF TakeInterrupt
  <2>3. UserPart(Out)' = UserPart(Out)  BY <2>2 DEF Out, UserPart
  <2> QED  BY <1>4, <1>5, <2>1, <2>2, <2>3
<1>6. CASE MisalignedPc
  <2>1. cpu_exception(EXC_LOAD_ADDRESS_ERROR, delay_slot)  BY <1>6 DEF MisalignedPc
  <2>2. UNCHANGED <<arch, lo, gte, mem, hle, regs, load>>  BY <1>6 DEF MisalignedPc
  <2>3. UserPart(Out)' = UserPart(Out)  BY <2>2 DEF Out, UserPart
  <2> QED  BY <1>4, <1>6, <2>1, <2>2, <2>3
<1>7. CASE Faulting
  <2>1. cpu_exception(Fault(I), branch)  BY <1>7 DEF Faulting
  <2>2. UNCHANGED <<arch, lo, gte, mem, hle>> /\ regs' = Out /\ load' = NoLoad  BY <1>7 DEF Faulting
  <2>3. SetReg(Out, 0, 0) = Out
    <3>1. Out \in [RegSet -> Int] /\ Out[0] = 0 /\ 0 \in RegSet  BY <1>1, OutType, IsaAssumption
    <3> QED  BY <3>1, SetRegZero
  <2>4. Out' = Out
    <3>1. Out' = SetReg(regs', load'.reg, load'.val)  BY DEF Out, SetReg
    <3> QED  BY <2>2, <2>3, <3>1
  <2>5. UserPart(Out)' = UserPart(Out)  BY <2>4 DEF UserPart
  <2> QED  BY <1>4, <1>7, <2>1, <2>2, <2>5
<1> QED  BY <1>5, <1>6, <1>7 DEF Exception

\* An interrupt or a fault before an instruction of the program.
LEMMA ExceptionAtInstruction ==
    ASSUME Inv, arch.pc % 4 = 0, ArchOK, AtInstruction, ~branch, Exception
    PROVE  RefinementInv' /\ arch' = arch
<1>1. /\ pc' \in HandlerCode /\ ~Bit(sr', IE) /\ Isolated' = Isolated
      /\ UNCHANGED <<arch, lo, gte, mem, hle>>
      /\ UserPart(Out)' = UserPart(Out)
      /\ \/ TakeInterrupt /\ epc' = pc
         \/ MisalignedPc /\ epc' = (IF delay_slot THEN Wrap(pc - 4) ELSE pc)
         \/ Faulting /\ epc' = (IF branch THEN Wrap(pc - 4) ELSE pc)
  BY Excepted
<1>2. pc = arch.pc /\ ~MisalignedPc  BY DEF AtInstruction, MisalignedPc
<1>3. Resumable(UserPart(Out))
  <2>1. CASE UserPart(regs) = arch.regs /\ load = arch.load
    <3>1. load.reg \in UserRegs  BY <2>1 DEF ArchOK
    <3>2. UserPart(Out) = ArchOut  BY <2>1, <3>1, OutParts DEF ArchOut, Inv
    <3> QED  BY <3>2 DEF Resumable
  <2>2. CASE UserPart(Out) = UserPart(regs) /\ Resumable(UserPart(regs))  BY <2>2
  <2> QED  BY <2>1, <2>2 DEF AtInstruction
<1>4. epc' = arch.pc  BY <1>1, <1>2
<1> QED  BY <1>1, <1>3, <1>4, Trapped

\* A fault in the delay slot restarts the jump.
LEMMA ExceptionInSlot ==
    ASSUME Inv, arch.pc % 4 = 0, ArchOK, InSlot, branch, Exception
    PROVE  RefinementInv' /\ arch' = arch
<1>1. /\ pc' \in HandlerCode /\ ~Bit(sr', IE) /\ Isolated' = Isolated
      /\ UNCHANGED <<arch, lo, gte, mem, hle>>
      /\ UserPart(Out)' = UserPart(Out)
      /\ \/ TakeInterrupt /\ epc' = pc
         \/ MisalignedPc /\ epc' = (IF delay_slot THEN Wrap(pc - 4) ELSE pc)
         \/ Faulting /\ epc' = (IF branch THEN Wrap(pc - 4) ELSE pc)
  BY Excepted
<1>2. arch.pc \in 0 .. SPACE - 1 /\ arch.pc \in Int /\ arch.pc + 4 \in Int /\ (arch.pc + 4) % 4 = 0
  BY MapAssumption DEF ArchOK
<1>3. pc = Wrap(arch.pc + 4) /\ pc % 4 = 0 /\ Wrap(pc - 4) = arch.pc
  BY <1>2, AddressSteps, WrapAligned DEF InSlot
<1>4. ~TakeInterrupt /\ ~MisalignedPc  BY <1>3 DEF TakeInterrupt, MisalignedPc
<1>5. epc' = arch.pc  BY <1>1, <1>3, <1>4
<1>6. Resumable(UserPart(Out))
  <2>1. UserPart(Out) = UserPart(regs)  BY OutParts DEF InSlot, Inv
  <2> QED  BY <2>1 DEF Resumable, InSlot
<1> QED  BY <1>1, <1>5, <1>6, Trapped

\* A program that jumped to a misaligned address stays there.
LEMMA OffTrackStep ==
    ASSUME Inv, Contract, arch.pc % 4 # 0, OffTrack, Step
    PROVE  RefinementInv' /\ arch' = arch
<1>1. CASE pc \in HandlerCode
  <2>1. ~Bit(sr, IE) /\ epc % 4 # 0  BY <1>1 DEF OffTrack
  <2>2. Completes  BY <1>1, <2>1, HandlerOnly
  <2>3. /\ arch' = arch /\ epc' = epc
        /\ \/ pc' \in HandlerCode /\ ~Bit(sr', IE)
           \/ pc' \notin HandlerCode /\ pc' = epc /\ ~branch'
    BY <1>1, <2>1, <2>2, HandlerControl
  <2> QED  BY <2>1, <2>3 DEF RefinementInv, OffTrack
<1>2. CASE pc \notin HandlerCode
  <2>1. pc % 4 # 0 /\ ~branch  BY <1>2 DEF OffTrack
  <2>2. Exception
    BY <2>1 DEF Step, HleCall, Compute, HleSyscall, StoreWord, MoveToSr, MoveToCause, MoveFromCop0,
                ReturnFromException, Executes
  <2>3. /\ pc' \in HandlerCode /\ ~Bit(sr', IE) /\ arch' = arch
        /\ epc' = pc \/ epc' = Wrap(pc - 4)
    BY <2>2, Excepted
  <2>4. Wrap(pc - 4) % 4 # 0  BY <2>1, AddressSteps DEF Inv, TypeOK
  <2> QED  BY <2>1, <2>3, <2>4 DEF RefinementInv, OffTrack
<1> QED  BY <1>1, <1>2

-----------------------------------------------------------------------------
\* Nothing that RefinementInv speaks of changes.
LEMMA Undisturbed ==
    RefinementInv /\ UNCHANGED <<pc, next_pc, regs, load, branch, sr, epc, lo, gte, mem, hle, arch>>
      => RefinementInv'
<1> SUFFICES ASSUME RefinementInv,
                    UNCHANGED <<pc, next_pc, regs, load, branch, sr, epc, lo, gte, mem, hle, arch>>
             PROVE  RefinementInv'
  OBVIOUS
<1>1. /\ UserPart(Out)' = UserPart(Out) /\ UserPart(regs)' = UserPart(regs) /\ Isolated' = Isolated
  BY DEF Out, UserPart, Isolated
<1>2. /\ JumpAhead' = JumpAhead /\ Jumped' = Jumped /\ ArchI' = ArchI
      /\ \A early : Before(early)' = Before(early)
  BY ArchKept
<1>3. Resumable(UserPart(regs))' = Resumable(UserPart(regs)) /\ Resumable(UserPart(Out))' = Resumable(UserPart(Out))
  BY <1>1, ArchKept DEF Resumable
<1>4. ArchOK' = ArchOK  BY <1>1 DEF ArchOK, Shares
<1>5. InHandler' = InHandler  BY <1>3 DEF InHandler
<1>6. AtInstruction' = AtInstruction  BY <1>1, <1>3 DEF AtInstruction
<1>7. InSlot => InSlot'  BY <1>1, <1>2 DEF InSlot
<1>8. OffTrack' = OffTrack  BY DEF OffTrack
<1> QED  BY <1>4, <1>5, <1>6, <1>7, <1>8 DEF RefinementInv, OnTrack

\* Every step of the machine is one of CpuProgram, or none.
LEMMA StepRefines ==
    Inv /\ Inv' /\ CacheShape /\ CacheFresh /\ RefinementInv /\ Contract /\ [Next]_vars
      => RefinementInv' /\ [Program!ArchNext]_arch
<1> SUFFICES ASSUME Inv, Inv', CacheShape, CacheFresh, RefinementInv, Contract, [Next]_vars
             PROVE  RefinementInv' /\ [Program!ArchNext]_arch
  OBVIOUS
<1>1. CASE irq_assert \/ UNCHANGED vars
  <2>1. UNCHANGED <<pc, next_pc, regs, load, branch, sr, epc, lo, gte, mem, hle, arch>>
    BY <1>1 DEF irq_assert, vars, pipeline, cop0, units
  <2> QED  BY <2>1, Undisturbed
<1>2. CASE Step /\ arch.pc % 4 # 0
  <2>1. OffTrack  BY <1>2 DEF RefinementInv
  <2> QED  BY <1>2, <2>1, OffTrackStep
<1>3. CASE Step /\ arch.pc % 4 = 0
  <2>1. ArchOK /\ IF pc \in HandlerCode THEN InHandler ELSE IF branch THEN InSlot ELSE AtInstruction
    BY <1>3 DEF RefinementInv, OnTrack
  <2>2. CASE pc \in HandlerCode
    <3>1. InHandler  BY <2>1, <2>2
    <3>2. Completes  BY <1>3, <2>2, <3>1, HandlerOnly DEF InHandler
    <3> QED  BY <1>3, <2>1, <2>2, <3>1, <3>2, HandlerStep
  <2>3. CASE pc \notin HandlerCode /\ branch
    <3>1. InSlot  BY <2>1, <2>3
    <3>2. ~HleCall  BY <2>3 DEF HleCall, Contract, ProgramContract
    <3>3. CASE Exception  BY <1>3, <2>1, <2>3, <3>1, <3>3, ExceptionInSlot
    <3>4. CASE Completes  BY <1>3, <2>1, <2>3, <3>1, <3>4, SlotStep
    <3> QED  BY <1>3, <3>2, <3>3, <3>4 DEF Step, Completes
  <2>4. CASE pc \notin HandlerCode /\ ~branch
    <3>1. AtInstruction  BY <2>1, <2>4
    <3>2. CASE HleCall  BY <1>3, <2>1, <2>4, <3>1, <3>2, HleStep
    <3>3. CASE Exception  BY <1>3, <2>1, <2>4, <3>1, <3>3, ExceptionAtInstruction
    <3>4. CASE Completes  BY <1>3, <2>1, <2>4, <3>1, <3>4, InstructionStep
    <3> QED  BY <1>3, <3>2, <3>3, <3>4 DEF Step, Completes
  <2> QED  BY <2>2, <2>3, <2>4
<1>4. arch.pc % 4 = 0 \/ arch.pc % 4 # 0  OBVIOUS
<1> QED  BY <1>1, <1>2, <1>3, <1>4 DEF Next

\* The program starts where the machine does.
LEMMA InitRefines == Init => RefinementInv /\ Program!ArchInit
<1> SUFFICES ASSUME Init PROVE RefinementInv /\ Program!ArchInit  OBVIOUS
<1>1. Inv  BY InitInv
<1>2. PICK im \in Images : mem = im.mem /\ hle = im.hle  BY DEF Init
<1>3. ~Isolated
  <2>1. ~Bit(0, ISOLATE)  BY DEF Bit, ISOLATE
  <2> QED  BY <2>1 DEF Init, Isolated
<1>4. UserPart(regs) = [r \in UserRegs |-> IF r = 0 THEN 0 ELSE JUNK]
  BY UserRegsFacts DEF Init, UserPart
<1>5. arch = [pc |-> START, regs |-> [r \in UserRegs |-> IF r = 0 THEN 0 ELSE JUNK],
              load |-> NoLoad, lo |-> JUNK, gte |-> 0, mem |-> mem, hle |-> hle, isolated |-> FALSE]
  BY DEF Init
<1>6. Snapshot = [pc |-> START, regs |-> [r \in UserRegs |-> IF r = 0 THEN 0 ELSE JUNK],
                  load |-> NoLoad, lo |-> JUNK, gte |-> 0, mem |-> mem, hle |-> hle, isolated |-> FALSE]
  <2>1. pc = START /\ load = NoLoad /\ lo = JUNK /\ gte = 0 /\ Isolated = FALSE  BY <1>3 DEF Init, Isolated, Bit
  <2> QED  BY <1>4, <2>1 DEF Snapshot
<1>7. RefinementInv
  <2>1. ~branch /\ pc \notin HandlerCode /\ load.reg \in UserRegs  BY UserRegsFacts, CpuAssumption DEF Init
  <2> QED  BY <1>1, <1>5, <1>6, <2>1, Resumes
<1>8. Program!ArchInit
  BY <1>2, <1>5, SameOps DEF Program!ArchInit
<1> QED  BY <1>7, <1>8

\* Interrupts, faults with their restarts, the handler and the instruction
\* cache are invisible to a program that keeps to its contract: whatever the
\* program and the handler, the CPU runs it as CpuProgram says
\* (cpu_run_next_instruction, cpu_exception_with_ce, cpu_fetch32, op_rfe).
THEOREM ProgramsRunAsWritten == Spec /\ []Contract => ImplementsProgram
<1> DEFINE J == CacheShape /\ CacheFresh
<1>1. Spec => []J  BY CacheKept
<1>2. Inv /\ Inv' /\ J /\ RefinementInv /\ Contract /\ [Next]_vars
        => RefinementInv' /\ [Program!ArchNext]_arch
  BY StepRefines
<1> HIDE DEF J
<1> QED  BY <1>1, <1>2, InitInv, NextInv, InitRefines, PTL DEF Spec, ImplementsProgram, Program!ArchSpec
=============================================================================
