----------------------------- MODULE CpuProgram -----------------------------
(* What a program may rely on: instructions take effect one after another,   *)
(* a taken branch together with its delay slot, from memory as it was last   *)
(* written.  Nothing here is interrupted, restarted or cached.  A load is    *)
(* visible to the instruction after its delay slot; whether the delay slot   *)
(* itself already sees it is left open, because an interrupt may fall there. *)
EXTENDS Isa

CONSTANTS Vectors,   \* BIOS call addresses served by the emulator
          Images,    \* initial memories
          START,     \* reset address
          UserRegs,  \* the program's registers
          JUNK       \* what cpu_init fills them with

VARIABLE arch        \* [pc, regs, load, lo, gte, mem, hle, isolated]

ArchInit ==
    \E im \in Images :
        arch = [pc |-> START, regs |-> [r \in UserRegs |-> IF r = 0 THEN 0 ELSE JUNK],
                load |-> NoLoad, lo |-> JUNK, gte |-> 0, mem |-> im.mem, hle |-> im.hle,
                isolated |-> FALSE]

\* A store changes memory unless it is directed at the isolated cache.
Reaches(i, a) ==
    /\ i.op \in StoreOps
    /\ Physical(i.imm) \in DOMAIN a.mem
    /\ ~(a.isolated /\ cpu_icache_is_cacheable(i.imm))

\* One instruction at a.pc; early says that the pending load is already in.
Ran(a, early) ==
    LET i    == Decode(Word(a.mem, a.pc))
        out  == SetReg(a.regs, a.load.reg, a.load.val)
        regs == IF early THEN out ELSE a.regs
    IN  [a EXCEPT !.regs = RegsAfter(i, regs, out, a.lo, Wrap(a.pc + 8)),
                  !.load = LoadAfter(i, out, a.mem, a.gte),
                  !.lo   = LoAfter(i, regs, a.lo),
                  !.gte  = GteAfter(i, a.gte),
                  !.pc   = Wrap(a.pc + 4),
                  !.isolated = IF i.op = "mtc0 sr" THEN Bit(regs[i.t], ISOLATE) ELSE a.isolated,
                  !.mem  = IF Reaches(i, a) THEN [a.mem EXCEPT ![Physical(i.imm)] = StoreValue(i, regs, a.mem)]
                                            ELSE a.mem]

Jumps(a, early) ==
    LET i == Decode(Word(a.mem, a.pc))
    IN  Taken(i, IF early THEN SetReg(a.regs, a.load.reg, a.load.val) ELSE a.regs)

JumpTarget(a, early) ==
    LET i == Decode(Word(a.mem, a.pc))
    IN  Target(i, IF early THEN SetReg(a.regs, a.load.reg, a.load.val) ELSE a.regs, Wrap(a.pc + 4))

AtVector == arch.hle /\ arch.pc \in Vectors

Instruction(early) ==
    /\ ~AtVector
    /\ ~Jumps(arch, early)
    /\ arch' = Ran(arch, early)

BranchAndSlot(early) ==
    /\ ~AtVector
    /\ Jumps(arch, early)
    /\ arch' = [Ran(Ran(arch, early), FALSE) EXCEPT !.pc = JumpTarget(arch, early)]

BiosCall(early) ==
    LET out == SetReg(arch.regs, arch.load.reg, arch.load.val) IN
    /\ AtVector
    /\ arch' = [arch EXCEPT !.regs = SetReg(out, V0, 0), !.load = NoLoad,
                            !.pc = Wrap((IF early THEN out ELSE arch.regs)[RA])]

\* A program that jumps to a misaligned address has no further guarantees.
Derailed == arch.pc % 4 # 0

ArchNext ==
    \/ \E early \in BOOLEAN : Instruction(early) \/ BranchAndSlot(early) \/ BiosCall(early)
    \/ Derailed

ArchSpec == ArchInit /\ [][ArchNext]_arch
=============================================================================
