-------------------------------- MODULE Cpu --------------------------------
(* cpu_run_next_instruction of cpu.c with branch and load delay slots,       *)
(* exceptions, interrupt sampling, the instruction cache and the multiply    *)
(* and GTE interlocks, and the interrupt controller (irq.c) it samples.  One *)
(* Step is one call.  The program, its exception handler included, is data:  *)
(* memory holds instruction words, and Images are the programs considered.   *)
(* out_regs equals regs between calls, so it is local to a step.             *)
EXTENDS Isa

CONSTANTS Vectors, Images, START, JUNK,
          UserRegs,      \* registers of the program (not of its handler)
          HandlerCode,   \* addresses of the exception handler
          HANDLER,       \* 0x80000080
          BEV_HANDLER,   \* 0xBFC00180
          ISTAT, IMASK,  \* I_STAT and I_MASK
          GTE_CYCLES,    \* gte_command_cycles of the GTE command used
          MUL_CYCLES     \* cpu_multiply_cycles_* of the multiplication used

ASSUME CpuAssumption ==
    /\ \A im \in Images : im.mem \in [DOMAIN im.mem -> Int]
    /\ JUNK \in Int /\ START \in Nat /\ HANDLER \in Nat /\ BEV_HANDLER \in Nat
    /\ SPACE % 4 = 0 /\ SPACE > 4 /\ HANDLER < SPACE /\ BEV_HANDLER < SPACE /\ START < SPACE
    /\ GTE_CYCLES \in Nat /\ MUL_CYCLES \in Nat
    /\ ISTAT \in Nat /\ IMASK \in Nat /\ ISTAT # IMASK
    /\ SEGMENT % 16 = 0
    /\ {0, V0, A0, RA} \subseteq UserRegs /\ UserRegs \subseteq RegSet
    /\ HandlerCode \subseteq Nat /\ \A a \in HandlerCode : a % 4 = 0
    /\ {HANDLER, BEV_HANDLER} \subseteq HandlerCode /\ START \notin HandlerCode /\ START % 4 = 0

VARIABLES
    pc, next_pc, regs, load, branch, delay_slot,
    sr, cause, epc, lo, gte,
    gte_busy, muldiv_busy,
    icache, mem, hle,
    irq_status, irq_mask,
    arch,        \* history: the program's state where it would be resumed
    unflushed,   \* history: addresses written since the cache was emptied
    owed         \* history: cycles the last multiplication still needs

pipeline == <<pc, next_pc, regs, load, branch, delay_slot>>
cop0 == <<sr, cause, epc>>
units == <<lo, gte, gte_busy, muldiv_busy, owed>>
irqs == <<irq_status, irq_mask>>
vars == <<pipeline, cop0, units, icache, mem, hle, irqs, arch, unflushed>>

(* Bits of SR and CAUSE.  BD is bit 31 in the code, beyond TLC's integers.   *)
IE == 1
IM_SW == 256
IM_EXT == 1024
BEV == 4194304
CU2 == 1073741824
BD == 134217728

EXC_INTERRUPT == 0
EXC_LOAD_ADDRESS_ERROR == 4
EXC_STORE_ADDRESS_ERROR == 5
EXC_SYSCALL == 8
EXC_BREAK == 9
EXC_ILLEGAL_INSTRUCTION == 10
EXC_COPROCESSOR_ERROR == 11
EXC_OVERFLOW == 12
NoFault == -1

irq_pending == irq_status = 1 /\ irq_mask = 1

External == IF irq_pending THEN IM_EXT ELSE 0

SoftwareBit == IF Bit(cause, IM_SW) THEN IM_SW ELSE 0

\* cpu_irq_enabled: IEc, and a pending bit that SR does not mask.
cpu_irq_enabled ==
    /\ Bit(sr, IE)
    /\ \/ Bit(sr, IM_EXT) /\ irq_pending
       \/ Bit(sr, IM_SW) /\ Bit(cause, IM_SW)

Mode == sr % 64

Isolated == Bit(sr, ISOLATE)

Init ==
    /\ \E im \in Images : mem = im.mem /\ hle = im.hle
    /\ pc = START /\ next_pc = Wrap(START + 4)
    /\ regs = [r \in RegSet |-> IF r = 0 THEN 0 ELSE JUNK]
    /\ load = NoLoad /\ branch = FALSE /\ delay_slot = FALSE
    /\ sr = 0 /\ cause = 0 /\ epc = 0
    /\ lo = JUNK /\ gte = 0 /\ gte_busy = 0 /\ muldiv_busy = 0
    /\ icache = cpu_icache_init
    /\ irq_status = 0 /\ irq_mask = 0
    /\ arch = [pc |-> START, regs |-> [r \in UserRegs |-> IF r = 0 THEN 0 ELSE JUNK],
               load |-> NoLoad, lo |-> JUNK, gte |-> 0, mem |-> mem, hle |-> hle,
               isolated |-> FALSE]
    /\ unflushed = {} /\ owed = 0

-----------------------------------------------------------------------------
\* cpu_exception_with_ce: SR's mode stack is pushed, EPC names the restart point.
cpu_exception(code, slot) ==
    LET handler == IF Bit(sr, BEV) THEN BEV_HANDLER ELSE HANDLER IN
    /\ sr' = (sr - Mode) + ((Mode * 4) % 64)
    /\ cause' = SoftwareBit + code * 4 + External + (IF slot THEN BD ELSE 0)
                + (IF code = EXC_COPROCESSOR_ERROR THEN 2 * 268435456 ELSE 0)
    /\ epc' = Wrap(IF slot THEN pc - 4 ELSE pc)
    /\ pc' = handler
    /\ next_pc' = Wrap(handler + 4)

Clipped(n) == IF n > 0 THEN n ELSE 0

\* Mutant: the interrupt is sampled in the delay slot of a taken branch as well.
TakeInterruptAnywhere ==
    /\ cpu_irq_enabled
    /\ delay_slot' = FALSE /\ branch' = FALSE
    /\ cpu_exception(EXC_INTERRUPT, FALSE)
    /\ owed' = Clipped(owed - 2)
    /\ UNCHANGED <<regs, load, lo, gte, gte_busy, muldiv_busy, icache, mem, hle, irqs, arch, unflushed>>

\* Mutant: taking an interrupt drops the load that is in flight.
TakeInterruptDropsLoad ==
    /\ ~branch /\ cpu_irq_enabled
    /\ delay_slot' = FALSE /\ branch' = FALSE
    /\ cpu_exception(EXC_INTERRUPT, FALSE)
    /\ load' = NoLoad
    /\ owed' = Clipped(owed - 2)
    /\ UNCHANGED <<regs, lo, gte, gte_busy, muldiv_busy, icache, mem, hle, irqs, arch, unflushed>>

\* Sampled between instructions, not between a taken branch and its delay slot.
TakeInterrupt ==
    /\ ~branch /\ cpu_irq_enabled
    /\ delay_slot' = FALSE /\ branch' = FALSE
    /\ cpu_exception(EXC_INTERRUPT, FALSE)
    /\ owed' = Clipped(owed - 2)
    /\ UNCHANGED <<regs, load, lo, gte, gte_busy, muldiv_busy, icache, mem, hle, irqs, arch, unflushed>>

Proceeds == branch \/ ~cpu_irq_enabled

\* delay_slot and branch are still those of the previous instruction here.
MisalignedPc ==
    /\ Proceeds
    /\ pc % 4 # 0
    /\ cpu_exception(EXC_LOAD_ADDRESS_ERROR, delay_slot)
    /\ owed' = Clipped(owed - 2)
    /\ UNCHANGED <<regs, load, branch, delay_slot, lo, gte, gte_busy, muldiv_busy, icache, mem, hle, irqs,
                   arch, unflushed>>

AtVector == hle /\ pc \in Vectors

UserPart(r) == [k \in UserRegs |-> r[k]]

\* A BIOS call served by the emulator: returns to RA as it was before a load in flight.
HleCall ==
    /\ Proceeds
    /\ pc % 4 = 0 /\ AtVector
    /\ regs' = SetReg(SetReg(regs, load.reg, load.val), V0, 0)
    /\ load' = NoLoad
    /\ pc' = Wrap(regs[RA]) /\ next_pc' = Wrap(Wrap(regs[RA]) + 4)
    /\ delay_slot' = FALSE /\ branch' = FALSE
    /\ owed' = Clipped(owed - 2)
    /\ arch' = [arch EXCEPT !.pc = pc', !.regs = UserPart(regs'), !.load = load']
    /\ UNCHANGED <<cop0, lo, gte, gte_busy, muldiv_busy, icache, mem, hle, irqs, unflushed>>

-----------------------------------------------------------------------------
Fetch == Fetched(icache, mem, pc)
I == Decode(Fetch)
Out == SetReg(regs, load.reg, load.val)

Executes == Proceeds /\ pc % 4 = 0 /\ ~AtVector

\* The exception an instruction raises instead of its effect, in the code's order.
Fault(i) ==
    CASE i.op \in GteOps /\ ~Bit(sr, CU2)                -> EXC_COPROCESSOR_ERROR
      [] i.op = "lw" /\ i.imm % 4 # 0                    -> EXC_LOAD_ADDRESS_ERROR
      [] i.op = "sw" /\ i.imm % 4 # 0                    -> EXC_STORE_ADDRESS_ERROR
      [] i.op = "addi" /\ regs[i.s] + i.imm > INT_MAX    -> EXC_OVERFLOW
      [] i.op = "syscall" /\ ~(hle /\ regs[A0] \in {1, 2}) -> EXC_SYSCALL
      [] i.op = "break"                                  -> EXC_BREAK
      [] i.op = "illegal"                                -> EXC_ILLEGAL_INSTRUCTION
      [] OTHER                                           -> NoFault

\* What every executed instruction does first: fetch, advance, let the load in.
Advance ==
    /\ icache' = CacheAfter(icache, mem, pc)
    /\ delay_slot' = branch

\* Interlocks: how long this instruction waits, and what is left of each unit.
Stall(i) ==
    (IF i.op \in GteOps THEN gte_busy ELSE 0) + (IF i.op = "mflo" THEN muldiv_busy ELSE 0)

Elapsed(i) == 2 + Stall(i)

\* Mutant: the time an instruction took is charged to the multiplier twice.
FinishTwice(i) ==
    /\ gte_busy' = Clipped((CASE i.op = "cop2" -> GTE_CYCLES
                              [] i.op = "mfc2" -> 0
                              [] OTHER -> gte_busy) - Elapsed(i))
    /\ muldiv_busy' = Clipped((CASE i.op = "mult" -> MUL_CYCLES
                                 [] i.op = "mflo" -> 0
                                 [] OTHER -> muldiv_busy) - 2 * Elapsed(i))
    /\ owed' = Clipped((IF i.op = "mult" THEN MUL_CYCLES ELSE owed) - Elapsed(i))

cpu_finish_instruction_cycles(i) ==
    /\ gte_busy' = Clipped((CASE i.op = "cop2" -> GTE_CYCLES
                              [] i.op = "mfc2" -> 0
                              [] OTHER -> gte_busy) - Elapsed(i))
    /\ muldiv_busy' = Clipped((CASE i.op = "mult" -> MUL_CYCLES
                                 [] i.op = "mflo" -> 0
                                 [] OTHER -> muldiv_busy) - Elapsed(i))
    /\ owed' = Clipped((IF i.op = "mult" THEN MUL_CYCLES ELSE owed) - Elapsed(i))

Faulting ==
    LET i == I IN
    /\ Executes
    /\ Fault(i) # NoFault
    /\ Advance
    /\ cpu_exception(Fault(i), branch)
    /\ branch' = FALSE
    /\ regs' = Out /\ load' = NoLoad
    /\ gte_busy' = Clipped(gte_busy - 2) /\ muldiv_busy' = Clipped(muldiv_busy - 2)
    /\ owed' = Clipped(owed - 2)
    /\ UNCHANGED <<lo, gte, mem, hle, irqs, arch, unflushed>>

\* The program's own state moves on when the next instruction can be resumed at.
Retire ==
    arch' = IF pc \in HandlerCode \/ branch' THEN arch
            ELSE [pc |-> pc', regs |-> UserPart(regs'), load |-> load', lo |-> lo', gte |-> gte',
                  mem |-> mem', hle |-> hle, isolated |-> Bit(sr', ISOLATE)]

Continue(i) ==
    /\ pc' = next_pc
    /\ branch' = Taken(i, regs)
    /\ next_pc' = IF Taken(i, regs) THEN Target(i, regs, next_pc) ELSE Wrap(next_pc + 4)

\* Arithmetic, moves, loads, branches, multiplication and GTE.
Compute ==
    LET i == I IN
    /\ Executes
    /\ Fault(i) = NoFault
    /\ i.op \in AluOps \cup LoadOps \cup JumpOps \cup {"mult", "mflo", "cop2"}
    /\ Advance
    /\ Continue(i)
    /\ regs' = RegsAfter(i, regs, Out, lo, Wrap(next_pc + 4))
    /\ load' = LoadAfter(i, Out, mem, gte)
    /\ lo' = LoAfter(i, regs, lo)
    /\ gte' = GteAfter(i, gte)
    /\ cpu_finish_instruction_cycles(i)
    /\ UNCHANGED <<cop0, mem, hle, irqs, unflushed>>
    /\ Retire

\* HLE mode serves syscalls 1 and 2 (critical sections) without an exception.
HleSyscall ==
    LET i == I IN
    /\ Executes
    /\ i.op = "syscall" /\ Fault(i) = NoFault
    /\ Advance
    /\ Continue(i)
    /\ regs' = RegsAfter(i, regs, Out, lo, Wrap(next_pc + 4)) /\ load' = NoLoad
    /\ cpu_finish_instruction_cycles(i)
    /\ UNCHANGED <<cop0, lo, gte, mem, hle, irqs, unflushed>>
    /\ Retire

\* cpu_store32: blocked towards cacheable addresses while the cache is isolated.
Blocked(a) == Isolated /\ cpu_icache_is_cacheable(a)

StoreWord ==
    LET i == I
        a == Physical(i.imm)
        v == StoreValue(i, regs, mem)
    IN
    /\ Executes
    /\ Fault(i) = NoFault /\ i.op \in StoreOps
    /\ Advance
    /\ Continue(i)
    /\ regs' = Out /\ load' = NoLoad
    /\ mem' = IF a \in DOMAIN mem /\ ~Blocked(i.imm) THEN [mem EXCEPT ![a] = v] ELSE mem
    /\ unflushed' = IF a \in DOMAIN mem /\ ~Blocked(i.imm) THEN unflushed \cup {a} ELSE unflushed
    /\ irq_status' = IF i.imm = ISTAT /\ v % 2 = 0 THEN 0 ELSE irq_status
    /\ irq_mask' = IF i.imm = IMASK THEN v % 2 ELSE irq_mask
    /\ cpu_finish_instruction_cycles(i)
    /\ UNCHANGED <<cop0, lo, gte, hle>>
    /\ Retire

\* op_cop0: moves to and from SR, CAUSE and EPC, and the return from exception.
\* Mutant: isolating the cache does not empty it.
MoveToSrKeepsCache ==
    LET i == I
        v == regs[i.t]
    IN
    /\ Executes
    /\ i.op = "mtc0 sr"
    /\ delay_slot' = branch
    /\ Continue(i)
    /\ regs' = Out /\ load' = NoLoad
    /\ sr' = v
    /\ icache' = CacheAfter(icache, mem, pc)
    /\ unflushed' = IF ~Isolated /\ Bit(v, ISOLATE) THEN {} ELSE unflushed
    /\ cpu_finish_instruction_cycles(i)
    /\ UNCHANGED <<cause, epc, lo, gte, mem, hle, irqs>>
    /\ Retire

MoveToSr ==
    LET i == I
        v == regs[i.t]
        entering == ~Isolated /\ Bit(v, ISOLATE)
    IN
    /\ Executes
    /\ i.op = "mtc0 sr"
    /\ delay_slot' = branch
    /\ Continue(i)
    /\ regs' = Out /\ load' = NoLoad
    /\ sr' = v
    /\ icache' = IF entering THEN cpu_icache_init ELSE CacheAfter(icache, mem, pc)
    /\ unflushed' = IF entering THEN {} ELSE unflushed
    /\ cpu_finish_instruction_cycles(i)
    /\ UNCHANGED <<cause, epc, lo, gte, mem, hle, irqs>>
    /\ Retire

MoveToCause ==
    LET i == I IN
    /\ Executes
    /\ i.op = "mtc0 cause"
    /\ Advance
    /\ Continue(i)
    /\ regs' = Out /\ load' = NoLoad
    /\ cause' = (cause - SoftwareBit) + (IF Bit(regs[i.t], IM_SW) THEN IM_SW ELSE 0)
    /\ cpu_finish_instruction_cycles(i)
    /\ UNCHANGED <<sr, epc, lo, gte, mem, hle, irqs, unflushed>>
    /\ Retire

MoveFromCop0 ==
    LET i == I IN
    /\ Executes
    /\ i.op \in {"mfc0 sr", "mfc0 epc"}
    /\ Advance
    /\ Continue(i)
    /\ regs' = Out
    /\ load' = [reg |-> i.t, val |-> IF i.op = "mfc0 sr" THEN sr ELSE epc]
    /\ cpu_finish_instruction_cycles(i)
    /\ UNCHANGED <<cop0, lo, gte, mem, hle, irqs, unflushed>>
    /\ Retire

\* Mutant: the return leaves SR's mode stack as it is.
ReturnWithoutPop ==
    LET i == I IN
    /\ Executes
    /\ i.op = "rfe"
    /\ Advance
    /\ Continue(i)
    /\ regs' = Out /\ load' = NoLoad
    /\ cpu_finish_instruction_cycles(i)
    /\ UNCHANGED <<cop0, lo, gte, mem, hle, irqs, unflushed>>
    /\ Retire

ReturnFromException ==
    LET i == I IN
    /\ Executes
    /\ i.op = "rfe"
    /\ Advance
    /\ Continue(i)
    /\ regs' = Out /\ load' = NoLoad
    /\ sr' = (sr - Mode) + (Mode \div 4)
    /\ cpu_finish_instruction_cycles(i)
    /\ UNCHANGED <<cause, epc, lo, gte, mem, hle, irqs, unflushed>>
    /\ Retire

Exception == TakeInterrupt \/ MisalignedPc \/ Faulting

Step == \/ Exception \/ HleCall \/ Compute \/ HleSyscall
        \/ StoreWord \/ MoveToSr \/ MoveToCause \/ MoveFromCop0 \/ ReturnFromException

\* A device asserts its interrupt, between any two instructions.
irq_assert ==
    /\ irq_status = 0
    /\ irq_status' = 1
    /\ UNCHANGED <<pipeline, cop0, units, icache, mem, hle, irq_mask, arch, unflushed>>

Next == Step \/ irq_assert

\* The main loop calls cpu_run_next_instruction for ever.
Spec == Init /\ [][Next]_vars /\ WF_vars(Step)

-----------------------------------------------------------------------------
\* Every variable keeps its type; register 0 stays zero through loads, links
\* and merges into it.
TypeOK ==
    /\ pc \in 0 .. SPACE - 1 /\ next_pc \in 0 .. SPACE - 1
    /\ regs \in [RegSet -> Int] /\ regs[0] = 0
    /\ load \in [reg : RegSet, val : Int]
    /\ branch \in BOOLEAN /\ delay_slot \in BOOLEAN
    /\ sr \in Int /\ cause \in Int /\ epc \in 0 .. SPACE - 1
    /\ lo \in Int /\ gte \in Int
    /\ gte_busy \in Nat /\ muldiv_busy \in Nat /\ owed \in Nat
    /\ mem \in [DOMAIN mem -> Int]

\* An exception that records pc itself as the place to resume at loses no jump:
\* execution was about to go on in sequence there (cpu_run_next_instruction).
JumpsKept ==
    [][Exception /\ epc' = pc => next_pc = Wrap(pc + 4)]_vars

\* Interrupts, faults in delay slots with their restart, the handler and the
\* instruction cache are invisible to the program: it runs as CpuProgram says,
\* also when it rewrites its own code and empties the cache by isolating it
\* (cpu_run_next_instruction, cpu_exception_with_ce, cpu_fetch32).
Program == INSTANCE CpuProgram

ImplementsProgram == Program!ArchSpec

\* The cache serves a word that differs from memory only where memory was
\* written after the cache was last emptied (op_mtc0, cpu_icache_init).
CacheFresh ==
    \A n \in DOMAIN icache : icache[n].valid =>
        \A k \in 0 .. 3 :
            LET a == icache[n].tag + 4 * k
            IN  icache[n].words[k] = Word(mem, a) \/ Physical(a) \in unflushed

\* mflo waits for at least what the multiplication still needs, whatever
\* instructions and interrupts came in between (consume_busy_cycles).
ResultsWaited == owed <= muldiv_busy

\* A device's interrupt is acknowledged by the handler sooner or later, whatever
\* the program is doing when it arrives, and however often it faults
\* (cpu_irq_enabled, cpu_exception, op_rfe, irq_store32).
IrqServed == irq_status = 1 ~> irq_status = 0

-----------------------------------------------------------------------------
\* What the emulated program must keep to for its own part: its code uses its
\* own registers, a jump has no jump in its delay slot and does not read the
\* register it links, and rewritten code runs only once the cache is emptied.
UserCode(i) == {i.s, i.t} \subseteq UserRegs /\ i.op \notin {"mfc0 sr", "mfc0 epc", "rfe"}

Restartable(i) ==
    /\ i.op = "jalr" => i.s # i.t
    /\ i.op = "bltzal" => i.s # RA

ProgramContract ==
    /\ Executes =>
        /\ UserCode(I) /\ Restartable(I)
        /\ Physical(pc) \notin unflushed
        /\ next_pc \notin HandlerCode
    /\ AtVector => ~branch /\ Wrap(regs[RA]) \notin HandlerCode

\* And its exception handler: it leaves the program's registers, memory and
\* units alone, does not fault, keeps interrupts disabled and returns to EPC.
HandlerContract ==
    /\ pc % 4 = 0 /\ ~AtVector /\ Fault(I) = NoFault
    /\ I.op \in AluOps \cup LoadOps \cup {"mflo", "mfc0 sr", "mfc0 epc"} => I.t \notin UserRegs \ {0}
    /\ I.op \in StoreOps => Physical(I.imm) \notin DOMAIN mem
    /\ I.op \notin {"mult", "cop2", "syscall", "jal", "jalr", "bltzal"}
    /\ I.op = "mtc0 sr" => ~Bit(regs[I.t], IE) /\ Bit(regs[I.t], ISOLATE) = Isolated
    /\ I.op = "rfe" => next_pc \notin HandlerCode
    /\ next_pc \in HandlerCode \/ (branch /\ next_pc = epc)

Contract ==
    /\ branch => I.op \notin JumpOps
    /\ IF pc \in HandlerCode THEN HandlerContract ELSE ProgramContract
=============================================================================
