------------------------------- MODULE Cdrom -------------------------------
(***************************************************************************)
(* The CD-ROM controller of src/src/cdrom.c as the CPU and the event       *)
(* scheduler see it: the command port with its deferred command, the       *)
(* parameter, response and data FIFOs, the interrupt flag, the CDROM bit   *)
(* of I_STAT, the queue of pending events and the one scheduler slot       *)
(* (EVENT_CDROM_IRQ) that drains it.                                       *)
(*                                                                         *)
(* The emulator is single threaded.  What interleaves is the program it    *)
(* runs (register accesses) and the scheduler (cdrom_on_scheduler_event).  *)
(* Delays are about 34 000 cycles or more and an access takes a few, so    *)
(* any number of accesses fits between two events: an event may fire at    *)
(* any moment at which one is armed.                                       *)
(*                                                                         *)
(* An access is modelled together with the store to the index register     *)
(* that selects it.  Bytes are abstracted to whose answer they are and     *)
(* how many are left.  The audio path (XA filter, mute, volumes) does not  *)
(* touch any of this state and is left out.                                *)
(***************************************************************************)
EXTENDS Integers, Sequences, FiniteSets

CONSTANTS
  QUEUE_SIZE,       \* slots of the event queue (CDROM_QUEUE_SIZE, 4)
  PARAM_FIFO_SIZE,  \* bytes of the parameter FIFO (CDROM_PARAM_FIFO_SIZE, 16)
  DATA_SIZE,        \* user data bytes of a sector (DISC_DATA_SIZE, 2048)
  RAW_SIZE,         \* bytes delivered per sector in raw mode (2340)
  LBA_SPACE,        \* number of values of an LBA (2^32)
  Cmds,             \* the commands the program uses
  ParamVals,        \* the parameter bytes the program writes
  AckMasks,         \* the bit masks it writes to the interrupt flag register
  EnableMasks       \* the masks it writes to the interrupt enable register

(* Commands of execute_command; ReadN and ReadS share cmd_read, SeekL and  *)
(* SeekP share cmd_seek, Mute and Demute share cmd_audio_mute.             *)
Commands == {"Getstat", "GetlocL", "GetlocP", "Setloc", "Play", "Read", "Stop",
             "Pause", "Init", "Mute", "Setfilter", "Setmode", "GetTN", "GetTD",
             "Seek", "Test", "GetID", "ReadTOC", "Unknown"}

ASSUME SizesAssumption ==
  /\ QUEUE_SIZE \in Nat \ {0}
  /\ PARAM_FIFO_SIZE \in Nat
  /\ DATA_SIZE \in Nat
  /\ RAW_SIZE \in Nat
  /\ LBA_SPACE \in Nat \ {0}

ASSUME ProgramAssumption ==
  /\ Cmds \subseteq Commands
  /\ ParamVals \subseteq 0 .. 255
  /\ AckMasks \subseteq SUBSET (0 .. 4)
  /\ EnableMasks \subseteq SUBSET (0 .. 4)

VARIABLES
  param,       \* param_fifo[0 .. param_len-1]
  resp,        \* response FIFO: whose answer it holds, bytes left unread
  data_left,   \* data_len - data_pos
  irq_flag,    \* set bits of irq_flag
  irq_en,      \* set bits of irq_en
  line,        \* the CDROM bit of I_STAT
  evq,         \* pending events, front first
  armed,       \* delay EVENT_CDROM_IRQ is armed with, or Off
  pending,     \* deferred command, or "None" (pending_cmd_valid, pending_cmd)
  pending_param,
  state, playing_cdda, mode,
  seek_target, seek_pending, seek_lba, read_seek, cur_lba,
  disc,        \* a disc is in the drive (fixed when the emulator starts)
  dropped      \* history: queue_event has discarded an event

drive == <<state, playing_cdda, mode, seek_target, seek_pending, seek_lba,
           read_seek, cur_lba>>
vars  == <<param, resp, data_left, irq_flag, irq_en, line, evq, armed, pending,
           pending_param, drive, disc, dropped>>
-----------------------------------------------------------------------------
(* Interrupt types as the bits of the flag register.                       *)
INT1 == {0}
INT2 == {1}
INT3 == {0, 1}
INT5 == {0, 2}

(* A delay is what it is computed from: a base time and whether a seek     *)
(* time is added to it.                                                    *)
Bases   == {"none", "ack", "cmd", "toc", "1x", "2x"}
Delay   == Bases \X BOOLEAN
Off     == <<"off", FALSE>>
AckDelay == <<"ack", FALSE>>
CmdDelay == <<"cmd", FALSE>>

(* First responses that announce a second one, and the second ones.        *)
TwoPart    == {"INIT", "SEEK", "GETID", "READTOC", "PAUSE"}
AckPhase   == [INIT |-> "INIT_ACK", SEEK |-> "SEEK_ACK", GETID |-> "GETID_ACK",
               READTOC |-> "READTOC_ACK", PAUSE |-> "PAUSE_ACK"]
DonePhase  == [INIT |-> "INIT_DONE", SEEK |-> "SEEK_DONE", GETID |-> "GETID_DONE",
               READTOC |-> "READTOC_DONE", PAUSE |-> "PAUSE_DONE"]
AckPhases  == {AckPhase[k] : k \in TwoPart}
DonePhases == {DonePhase[k] : k \in TwoPart}
Phases     == {"ACK", "READ_DATA", "SECTOR"} \cup AckPhases \cup DonePhases

(* An event of the queue; cmd is history: the command it answers.          *)
Event == [int : {INT1, INT2, INT3, INT5}, phase : Phases, delay : Delay,
          cmd : Commands]

EmptyResp   == [of |-> "None", left |-> 0]
Answer(c,n) == [of |-> c, left |-> n]

(* Bits of the Setmode byte: 7 double speed, 5 raw sectors.                *)
SectorPeriod(m) == IF m >= 128 THEN "2x" ELSE "1x"
SectorBytes(m)  == IF (m \div 32) % 2 = 1 THEN RAW_SIZE ELSE DATA_SIZE

from_bcd(v)   == (v \div 16) * 10 + (v % 16)
msf_to_lba(t) ==
  ((from_bcd(t[1]) * 60 + from_bcd(t[2])) * 75 + from_bcd(t[3]) - 150) % LBA_SPACE

(* evq_push drops the event when the queue is full.                        *)
Push(q, e) == IF Len(q) >= QUEUE_SIZE THEN q ELSE Append(q, e)

(* param_pop yields 0 once the FIFO is empty.                              *)
Param(p, i)  == IF i <= Len(p) THEN p[i] ELSE 0
Popped(p, n) == IF n >= Len(p) THEN <<>> ELSE SubSeq(p, n + 1, Len(p))

ParamsUsed(c) == CASE c = "Setloc" -> 3
                   [] c = "Setfilter" -> 2
                   [] c \in {"Setmode", "GetTD", "Test"} -> 1
                   [] OTHER -> 0
-----------------------------------------------------------------------------
(* What each command handler queues and answers.                           *)
KnownTests == {4, 5, 32, 33, 34}

FirstInt(c, p) ==
  IF c = "Unknown" \/ (c = "Test" /\ Param(p, 1) \notin KnownTests) THEN INT5 ELSE INT3

FirstPhase(c) == CASE c = "Init" -> "INIT_ACK"
                   [] c = "Seek" -> "SEEK_ACK"
                   [] c = "GetID" -> "GETID_ACK"
                   [] c = "ReadTOC" -> "READTOC_ACK"
                   [] c = "Pause" -> "PAUSE_ACK"
                   [] c \in {"Read", "Play"} -> "READ_DATA"
                   [] OTHER -> "ACK"

FirstEvent(c, p) ==
  [int |-> FirstInt(c, p), phase |-> FirstPhase(c),
   delay |-> IF c = "Init" THEN CmdDelay ELSE AckDelay, cmd |-> c]

TestSize(sub) == CASE sub = 32 -> 4 [] sub = 34 -> 7 [] sub \in {4, 33} -> 1
                   [] OTHER -> 2

AnswerSize(c, p) == CASE c \in {"GetlocL", "GetlocP"} -> 8
                      [] c \in {"GetTN", "GetTD"} -> 3
                      [] c = "Test" -> TestSize(Param(p, 1))
                      [] c = "Unknown" -> 2
                      [] OTHER -> 1

StateAfter(c) == CASE c \in {"Read", "Play"} -> "READING"
                   [] c \in {"Seek", "ReadTOC"} -> "SEEKING"
                   [] c \in {"Init", "Pause", "Stop"} -> "IDLE"
                   [] OTHER -> state

(* Init and Pause throw the queued events away (evq_clear).                *)
QueueBefore(c) == IF c \in {"Init", "Pause"} THEN <<>> ELSE evq

(* execute_command: the drive registers, the answer in the response FIFO   *)
(* and queue_event, which arms the scheduler when the queue was empty.     *)
Execute(c, p) ==
  LET target == msf_to_lba(seek_target)
      event  == FirstEvent(c, p)
      moves  == c \in {"Read", "Play"} /\ seek_pending
      before == QueueBefore(c)
  IN
  /\ param' = Popped(p, ParamsUsed(c))
  /\ resp' = Answer(c, AnswerSize(c, p))
  /\ evq' = Push(before, event)
  /\ armed' = IF before = <<>> THEN event.delay ELSE armed
  /\ dropped' = (dropped \/ Len(before) >= QUEUE_SIZE)
  /\ state' = StateAfter(c)
  /\ playing_cdda' = CASE c = "Play" -> TRUE
                       [] c \in {"Read", "Stop", "Pause", "Init"} -> FALSE
                       [] OTHER -> playing_cdda
  /\ mode' = CASE c = "Setmode" -> Param(p, 1) [] c = "Init" -> 0 [] OTHER -> mode
  /\ seek_target' = IF c = "Setloc" THEN <<Param(p, 1), Param(p, 2), Param(p, 3)>>
                                    ELSE seek_target
  /\ seek_pending' = CASE c = "Setloc" -> TRUE
                       [] c \in {"Read", "Play", "Seek"} -> FALSE
                       [] OTHER -> seek_pending
  /\ seek_lba' = IF c # "Seek" THEN seek_lba
                 ELSE IF seek_pending THEN target ELSE cur_lba
  /\ read_seek' = IF c \in {"Read", "Play"} THEN seek_pending ELSE read_seek
  /\ cur_lba' = IF moves THEN target ELSE cur_lba
-----------------------------------------------------------------------------
(* Accesses of the program.                                                *)

(* execute_or_defer_command: a command written while an interrupt is not   *)
(* acknowledged waits, with its parameters, in the one pending slot.       *)
WriteCommand(c) ==
  \/ /\ irq_flag = {}
     /\ Execute(c, param)
     /\ UNCHANGED <<data_left, irq_flag, irq_en, line, pending, pending_param, disc>>
  \/ /\ irq_flag # {}
     /\ pending' = c
     /\ pending_param' = param
     /\ param' = <<>>
     /\ UNCHANGED <<resp, data_left, irq_flag, irq_en, line, evq, armed, drive,
                    disc, dropped>>

WriteParam(v) ==
  /\ Len(param) < PARAM_FIFO_SIZE
  /\ param' = Append(param, v)
  /\ UNCHANGED <<resp, data_left, irq_flag, irq_en, line, evq, armed, pending,
                 pending_param, drive, disc, dropped>>

WriteIrqEnable(mask) ==
  /\ irq_en' = mask
  /\ UNCHANGED <<param, resp, data_left, irq_flag, line, evq, armed, pending,
                 pending_param, drive, disc, dropped>>

(* Mutant: the flag is cleared but a deferred command is not released.     *)
WriteIrqFlagNoRelease(mask, reset) ==
  /\ irq_flag' = irq_flag \ mask
  /\ line' = (line /\ irq_flag \ mask # {})
  /\ resp' = IF mask = {} THEN resp ELSE EmptyResp
  /\ param' = IF reset THEN <<>> ELSE param
  /\ UNCHANGED <<data_left, irq_en, evq, armed, pending, pending_param, drive,
                 disc, dropped>>

(* Interrupt flag register: clear flag bits, drop the answer, lower the    *)
(* line, reset the parameter FIFO (bit 6), release the deferred command.   *)
WriteIrqFlag(mask, reset) ==
  LET left == irq_flag \ mask IN
  /\ irq_flag' = left
  /\ line' = (line /\ left # {})
  /\ \/ /\ pending # "None"
        /\ left = {}
        /\ pending' = "None"
        /\ pending_param' = <<>>
        /\ Execute(pending, pending_param)
     \/ /\ pending = "None" \/ left # {}
        /\ resp' = IF mask = {} THEN resp ELSE EmptyResp
        /\ param' = IF reset THEN <<>> ELSE param
        /\ UNCHANGED <<pending, pending_param, evq, armed, drive, dropped>>
  /\ UNCHANGED <<data_left, irq_en, disc>>

(* The program clears the CDROM bit of I_STAT.                             *)
AckIStat ==
  /\ line' = FALSE
  /\ UNCHANGED <<param, resp, data_left, irq_flag, irq_en, evq, armed, pending,
                 pending_param, drive, disc, dropped>>

ReadResponse ==
  /\ resp.left > 0
  /\ resp' = [resp EXCEPT !.left = @ - 1]
  /\ UNCHANGED <<param, data_left, irq_flag, irq_en, line, evq, armed, pending,
                 pending_param, drive, disc, dropped>>

(* A byte through the port (n = 1) or a word by DMA channel 3 (n = 4).     *)
ReadData(n) ==
  /\ data_left > 0
  /\ data_left' = IF data_left >= n THEN data_left - n ELSE 0
  /\ UNCHANGED <<param, resp, irq_flag, irq_en, line, evq, armed, pending,
                 pending_param, drive, disc, dropped>>
-----------------------------------------------------------------------------
(* The scheduler's half: cdrom_on_scheduler_event.                         *)

(* commit_irq overwrites the flag and raises I_STAT if the type is enabled.*)
Commit(int) ==
  /\ irq_flag' = int
  /\ line' = (line \/ int \cap irq_en # {})

(* Mutant: the handler re-arms with the short delay for any front event.   *)
RearmShort(q) ==
  /\ evq' = q
  /\ armed' = IF q = <<>> THEN Off ELSE AckDelay

(* After every event the queue is what is left plus what the phase pushed, *)
(* and the scheduler is armed again for its front.                         *)
Rearm(q) ==
  /\ evq' = q
  /\ armed' = IF q = <<>> THEN Off ELSE q[1].delay

Fires(phases) ==
  /\ armed # Off
  /\ evq # <<>>
  /\ Head(evq).phase \in phases

HandlerFrame ==
  UNCHANGED <<param, irq_en, pending, pending_param, disc, dropped, mode,
              playing_cdda, seek_target, seek_pending, seek_lba>>

FireAck ==
  /\ Fires({"ACK"})
  /\ Commit(Head(evq).int)
  /\ Rearm(Tail(evq))
  /\ HandlerFrame
  /\ UNCHANGED <<resp, data_left, state, read_seek, cur_lba>>

(* The second response that follows each two-part acknowledge.             *)
DoneEvent(k, c) ==
  [phase |-> DonePhase[k], cmd |-> c,
   int |-> IF k = "GETID" /\ ~disc THEN INT5 ELSE INT2,
   delay |-> CASE k = "SEEK" -> <<"none", TRUE>>
               [] k = "READTOC" -> <<"toc", FALSE>>
               [] OTHER -> CmdDelay]

FireTwoPartAck(k) ==
  /\ Fires({AckPhase[k]})
  /\ Commit(Head(evq).int)
  /\ Rearm(Push(Tail(evq), DoneEvent(k, Head(evq).cmd)))
  /\ HandlerFrame
  /\ UNCHANGED <<resp, data_left, state, read_seek, cur_lba>>

(* Mutant: the completion raises its interrupt without a new answer.       *)
FireDoneSameResp(k) ==
  /\ Fires({DonePhase[k]})
  /\ Commit(Head(evq).int)
  /\ Rearm(Tail(evq))
  /\ state' = IF k = "GETID" THEN state ELSE "IDLE"
  /\ cur_lba' = IF k = "SEEK" THEN seek_lba ELSE cur_lba
  /\ HandlerFrame
  /\ UNCHANGED <<resp, data_left, read_seek>>

(* Mutant: the completion of GetID waits for a disc.                       *)
FireDoneWithDisc(k) ==
  /\ Fires({DonePhase[k]})
  /\ IF k # "GETID" \/ disc
     THEN /\ resp' = Answer(Head(evq).cmd, IF k = "GETID" THEN 8 ELSE 1)
          /\ Commit(Head(evq).int)
          /\ Rearm(Tail(evq))
     ELSE /\ Rearm(Append(Tail(evq), Head(evq)))
          /\ UNCHANGED <<resp, irq_flag, line>>
  /\ state' = IF k = "GETID" THEN state ELSE "IDLE"
  /\ cur_lba' = IF k = "SEEK" THEN seek_lba ELSE cur_lba
  /\ HandlerFrame
  /\ UNCHANGED <<data_left, read_seek>>

FireDone(k) ==
  /\ Fires({DonePhase[k]})
  /\ resp' = Answer(Head(evq).cmd, IF k = "GETID" THEN 8 ELSE 1)
  /\ Commit(Head(evq).int)
  /\ Rearm(Tail(evq))
  /\ state' = IF k = "GETID" THEN state ELSE "IDLE"
  /\ cur_lba' = IF k = "SEEK" THEN seek_lba ELSE cur_lba
  /\ HandlerFrame
  /\ UNCHANGED <<data_left, read_seek>>

SectorEvent(delay, c) ==
  [int |-> INT1, phase |-> "SECTOR", delay |-> delay, cmd |-> c]

FireReadData ==
  /\ Fires({"READ_DATA"})
  /\ Commit(Head(evq).int)
  /\ Rearm(Push(Tail(evq), SectorEvent(<<SectorPeriod(mode), read_seek>>, Head(evq).cmd)))
  /\ read_seek' = FALSE
  /\ HandlerFrame
  /\ UNCHANGED <<resp, data_left, state, cur_lba>>

(* Mutant: a sector that meets an unacknowledged interrupt is discarded.   *)
SectorDeferredLost ==
  /\ irq_flag # {} \/ pending # "None"
  /\ Rearm(Tail(evq))
  /\ UNCHANGED <<irq_flag, line, resp, data_left, state, cur_lba>>

(* deliver_sector, its four ways out.                                      *)
SectorDeferred ==
  /\ irq_flag # {} \/ pending # "None"
  /\ Rearm(Push(Tail(evq), SectorEvent(AckDelay, Head(evq).cmd)))
  /\ UNCHANGED <<irq_flag, line, resp, data_left, state, cur_lba>>

SectorIgnored ==
  /\ irq_flag = {} /\ pending = "None"
  /\ state # "READING"
  /\ Rearm(Tail(evq))
  /\ UNCHANGED <<irq_flag, line, resp, data_left, state, cur_lba>>

SectorNoDisc ==
  /\ irq_flag = {} /\ pending = "None"
  /\ state = "READING" /\ ~disc
  /\ state' = "IDLE"
  /\ resp' = Answer(Head(evq).cmd, 2)
  /\ Rearm(Push(Tail(evq), [int |-> INT5, phase |-> "ACK", delay |-> AckDelay,
                            cmd |-> Head(evq).cmd]))
  /\ UNCHANGED <<irq_flag, line, data_left, cur_lba>>

(* Mutant: a sector is delivered over an unacknowledged interrupt.         *)
SectorDeliveredOver ==
  /\ state = "READING" /\ disc
  /\ cur_lba' = (cur_lba + 1) % LBA_SPACE
  /\ data_left' = IF playing_cdda THEN 0 ELSE SectorBytes(mode)
  /\ resp' = Answer("Sector", 1)
  /\ Commit(INT1)
  /\ Rearm(Push(Tail(evq), SectorEvent(<<SectorPeriod(mode), FALSE>>, Head(evq).cmd)))
  /\ UNCHANGED state

SectorDelivered ==
  /\ irq_flag = {} /\ pending = "None"
  /\ state = "READING" /\ disc
  /\ cur_lba' = (cur_lba + 1) % LBA_SPACE
  /\ data_left' = IF playing_cdda THEN 0 ELSE SectorBytes(mode)
  /\ resp' = Answer("Sector", 1)
  /\ Commit(INT1)
  /\ Rearm(Push(Tail(evq), SectorEvent(<<SectorPeriod(mode), FALSE>>, Head(evq).cmd)))
  /\ UNCHANGED state

FireSector ==
  /\ Fires({"SECTOR"})
  /\ SectorDeferred \/ SectorIgnored \/ SectorNoDisc \/ SectorDelivered
  /\ HandlerFrame
  /\ UNCHANGED read_seek
-----------------------------------------------------------------------------
Init ==
  /\ param = <<>> /\ resp = EmptyResp /\ data_left = 0
  /\ irq_flag = {} /\ irq_en = 0 .. 4 /\ line = FALSE
  /\ evq = <<>> /\ armed = Off
  /\ pending = "None" /\ pending_param = <<>>
  /\ state = "IDLE" /\ playing_cdda = FALSE /\ mode = 0
  /\ seek_target = <<0, 0, 0>> /\ seek_pending = FALSE /\ seek_lba = 0
  /\ read_seek = FALSE /\ cur_lba = 0
  /\ disc \in BOOLEAN
  /\ dropped = FALSE

Program ==
  \/ \E c \in Cmds : WriteCommand(c)
  \/ \E v \in ParamVals : WriteParam(v)
  \/ \E m \in EnableMasks : WriteIrqEnable(m)
  \/ \E m \in AckMasks, r \in BOOLEAN : WriteIrqFlag(m, r)
  \/ AckIStat
  \/ ReadResponse
  \/ \E n \in {1, 4} : ReadData(n)

SchedulerEvent ==
  \/ FireAck
  \/ \E k \in TwoPart : FireTwoPartAck(k) \/ FireDone(k)
  \/ FireReadData
  \/ FireSector

Next == Program \/ SchedulerEvent

Spec == Init /\ [][Next]_vars

(* The scheduler always makes time pass (advance_system_cycles), so an     *)
(* armed event fires.                                                      *)
FairSpec == Spec /\ WF_vars(SchedulerEvent)
-----------------------------------------------------------------------------
(* Every register and FIFO of the controller stays within the sizes the C  *)
(* structures give it.                                                     *)
FifoTypes ==
  /\ param \in Seq(0 .. 255) /\ Len(param) <= PARAM_FIFO_SIZE
  /\ pending_param \in Seq(0 .. 255) /\ Len(pending_param) <= PARAM_FIFO_SIZE
  /\ pending \in Commands \cup {"None"}
  /\ resp \in [of : Commands \cup {"None", "Sector"}, left : 0 .. 8]
  /\ data_left \in Nat
IrqTypes ==
  /\ irq_flag \in SUBSET (0 .. 4) /\ irq_en \in SUBSET (0 .. 4)
  /\ line \in BOOLEAN
QueueTypes ==
  /\ evq \in Seq(Event) /\ Len(evq) <= QUEUE_SIZE
  /\ armed \in Delay \cup {Off}
  /\ dropped \in BOOLEAN
DriveTypes ==
  /\ state \in {"IDLE", "READING", "SEEKING"}
  /\ playing_cdda \in BOOLEAN /\ mode \in 0 .. 255
  /\ seek_target \in (0 .. 255) \X (0 .. 255) \X (0 .. 255)
  /\ seek_pending \in BOOLEAN /\ seek_lba \in Nat
  /\ read_seek \in BOOLEAN /\ cur_lba \in Nat
  /\ disc \in BOOLEAN
TypeOK == FifoTypes /\ IrqTypes /\ QueueTypes /\ DriveTypes

(* No wake-up is lost or stale: the scheduler slot is armed exactly while  *)
(* events are queued, and with the delay of the event at the front, across *)
(* evq_clear by Init and Pause, the re-arming in the handler and pushes    *)
(* that find the queue full.  (queue_event, cdrom_on_scheduler_event)      *)
ArmedForFront == armed = IF evq = <<>> THEN Off ELSE evq[1].delay

(* A deferred command is never orphaned: it waits only while an interrupt  *)
(* is unacknowledged, whose acknowledgement is what releases it.           *)
(* (execute_or_defer_command, execute_pending_command)                     *)
DeferredHasBlocker == pending # "None" => irq_flag # {}

(* The CDROM bit of I_STAT is set only while the controller has an         *)
(* interrupt to report, whatever the order of partial acknowledgements,    *)
(* enable writes and I_STAT writes.  (commit_irq, interrupt flag store)    *)
LineHasCause == line => irq_flag # {}

(* A busy drive has the event that ends or continues what it is doing in   *)
(* the queue, unless an event was discarded: it is never stuck READING or  *)
(* SEEKING.  (cmd_read, cmd_seek, cmd_readtoc, deliver_sector)             *)
StreamPhases == {"READ_DATA", "SECTOR"}
SeekPhases   == {"SEEK_ACK", "SEEK_DONE", "READTOC_ACK", "READTOC_DONE"}
Queued(phases) == \E i \in DOMAIN evq : evq[i].phase \in phases
BusyHasEvent ==
  ~dropped => /\ state = "READING" => Queued(StreamPhases)
              /\ state = "SEEKING" => Queued(SeekPhases)

(* A sector never replaces the data FIFO or the answer, and the drive does *)
(* not step to the next one, while an interrupt is unacknowledged or a     *)
(* command is waiting.  (deliver_sector)                                   *)
SectorsWaitForAck ==
  [][(irq_flag # {} \/ pending # "None")
        => /\ data_left' <= data_left
           /\ resp'.of = "Sector" => resp.of = "Sector"
           /\ FireSector => UNCHANGED cur_lba]_vars
=============================================================================
