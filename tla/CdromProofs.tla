---------------------------- MODULE CdromProofs ----------------------------
(* Proofs about the CD-ROM controller of module Cdrom, for every queue     *)
(* size, every FIFO size and every program.                                *)
EXTENDS CdromDriver, SequenceTheorems, TLAPS

USE SizesAssumption
-----------------------------------------------------------------------------
(* What the helpers of the controller return.                              *)

(* evq_push keeps the queue within its size and never changes its front.   *)
LEMMA PushLemma ==
  ASSUME NEW q \in Seq(Event), Len(q) <= QUEUE_SIZE, NEW e \in Event
  PROVE  /\ Push(q, e) \in Seq(Event)
         /\ Len(Push(q, e)) <= QUEUE_SIZE
         /\ Push(q, e) # <<>>
         /\ q # <<>> => Push(q, e)[1] = q[1]
         /\ q = <<>> => Push(q, e)[1] = e
  <1>1. CASE Len(q) >= QUEUE_SIZE
    BY <1>1, EmptySeq DEF Push
  <1>2. CASE Len(q) < QUEUE_SIZE
    <2>1. Push(q, e) = Append(q, e)
      BY <1>2, LenProperties DEF Push
    <2>2. q = <<>> => Len(q) = 0
      BY EmptySeq
    <2>3. q # <<>> => 1 \in 1 .. Len(q)
      BY EmptySeq
    <2> QED BY <1>2, <2>1, <2>2, <2>3, AppendProperties, LenProperties
  <1> QED BY <1>1, <1>2, LenProperties

(* Popping a non-empty queue leaves a shorter one.                         *)
LEMMA TailLemma ==
  ASSUME NEW q \in Seq(Event), q # <<>>, Len(q) <= QUEUE_SIZE
  PROVE  /\ Tail(q) \in Seq(Event)
         /\ Len(Tail(q)) <= QUEUE_SIZE
         /\ Head(q) \in Event
  BY HeadTailProperties, LenProperties

(* A parameter, present or not, is a byte.                                 *)
LEMMA ParamLemma ==
  ASSUME NEW p \in Seq(0 .. 255), NEW i \in 1 .. 3
  PROVE  Param(p, i) \in 0 .. 255
  <1>1. CASE i <= Len(p)
    <2>1. i \in 1 .. Len(p)
      BY <1>1, LenProperties
    <2>2. p[i] \in 0 .. 255
      BY <2>1, ElementOfSeq
    <2> QED BY <1>1, <2>2 DEF Param
  <1>2. CASE ~(i <= Len(p))
    BY <1>2 DEF Param
  <1> QED BY <1>1, <1>2

(* Popping the parameters of a command leaves a FIFO within its size.      *)
LEMMA PoppedLemma ==
  ASSUME NEW p \in Seq(0 .. 255), Len(p) <= PARAM_FIFO_SIZE, NEW c \in Commands
  PROVE  /\ Popped(p, ParamsUsed(c)) \in Seq(0 .. 255)
         /\ Len(Popped(p, ParamsUsed(c))) <= PARAM_FIFO_SIZE
  <1> DEFINE n == ParamsUsed(c)
  <1>1. n \in 0 .. 3
    BY DEF ParamsUsed
  <1> HIDE DEF n
  <1>2. ASSUME n >= Len(p)
        PROVE  Popped(p, n) \in Seq(0 .. 255) /\ Len(Popped(p, n)) <= PARAM_FIFO_SIZE
    <2>1. <<>> \in Seq(0 .. 255) /\ Len(<<>>) = 0
      BY EmptySeq
    <2>2. Popped(p, n) = <<>>
      BY <1>2 DEF Popped
    <2> QED BY <2>1, <2>2
  <1>3. ASSUME ~(n >= Len(p))
        PROVE  Popped(p, n) \in Seq(0 .. 255) /\ Len(Popped(p, n)) <= PARAM_FIFO_SIZE
    <2>1. Popped(p, n) = SubSeq(p, n + 1, Len(p))
      BY <1>3 DEF Popped
    <2>2. Len(p) \in Nat
      BY LenProperties
    <2>3. ASSUME NEW i \in (n + 1) .. Len(p) PROVE p[i] \in 0 .. 255
      <3>1. i \in 1 .. Len(p)
        BY <1>1, <2>2
      <3>2. \A S : \A s \in Seq(S) : \A k \in 1 .. Len(s) : s[k] \in S
        BY ElementOfSeq
      <3> QED BY <3>1, <3>2, Zenon
    <2>4. /\ SubSeq(p, n + 1, Len(p)) \in Seq(0 .. 255)
          /\ Len(SubSeq(p, n + 1, Len(p))) = IF n + 1 <= Len(p) THEN Len(p) - (n + 1) + 1 ELSE 0
      BY <1>1, <2>2, <2>3, SubSeqProperties
    <2>5. Len(SubSeq(p, n + 1, Len(p))) <= PARAM_FIFO_SIZE
      BY <1>1, <2>2, <2>4
    <2> QED BY <2>1, <2>4, <2>5
  <1> QED BY <1>2, <1>3 DEF n

LEMMA DelayLemma == AckDelay \in Delay /\ CmdDelay \in Delay
  BY DEF AckDelay, CmdDelay, Delay, Bases

(* Every event a command queues is one.                                    *)
LEMMA FirstEventLemma ==
  ASSUME NEW c \in Commands, NEW p
  PROVE  FirstEvent(c, p) \in Event
  <1>1. FirstInt(c, p) \in {INT1, INT2, INT3, INT5}
    BY DEF FirstInt
  <1>2. FirstPhase(c) \in Phases
    BY DEF FirstPhase, Phases, AckPhases, TwoPart, AckPhase
  <1> QED BY <1>1, <1>2, DelayLemma DEF FirstEvent, Event

(* The answers of the commands fit the response FIFO.                      *)
Resps == [of : Commands \cup {"None", "Sector"}, left : 0 .. 8]

LEMMA AnswerLemma ==
  ASSUME NEW c \in Commands, NEW p
  PROVE  Answer(c, AnswerSize(c, p)) \in Resps
  <1>1. AnswerSize(c, p) \in 0 .. 8
    BY DEF AnswerSize, TestSize
  <1> QED BY <1>1 DEF Answer, Resps

(* An MSF target is an LBA.                                                *)
LEMMA LbaLemma ==
  ASSUME NEW t \in (0 .. 255) \X (0 .. 255) \X (0 .. 255)
  PROVE  msf_to_lba(t) \in Nat
  <1> DEFINE m == from_bcd(t[1])
             s == from_bcd(t[2])
             f == from_bcd(t[3])
  <1>1. m \in Int /\ s \in Int /\ f \in Int
    BY DEF from_bcd
  <1> HIDE DEF m, s, f
  <1>2. (m * 60 + s) * 75 + f - 150 \in Int
    BY <1>1
  <1>3. \A x \in Int : x % LBA_SPACE \in Nat
    OBVIOUS
  <1> QED BY <1>2, <1>3 DEF msf_to_lba, m, s, f
-----------------------------------------------------------------------------
(* What execute_command leaves behind is well typed.                       *)
LEMMA ExecuteFifo ==
  ASSUME NEW c \in Commands,
         NEW p \in Seq(0 .. 255), Len(p) <= PARAM_FIFO_SIZE, Execute(c, p)
  PROVE  /\ param' \in Seq(0 .. 255) /\ Len(param') <= PARAM_FIFO_SIZE
         /\ resp' \in Resps
  BY PoppedLemma, AnswerLemma DEF Execute

LEMMA ExecuteDrive ==
  ASSUME DriveTypes, NEW c \in Commands,
         NEW p \in Seq(0 .. 255), Execute(c, p), UNCHANGED disc
  PROVE  DriveTypes'
  <1>1. state' \in {"IDLE", "READING", "SEEKING"}
    BY DEF Execute, DriveTypes, StateAfter
  <1>2. playing_cdda' \in BOOLEAN /\ seek_pending' \in BOOLEAN /\ read_seek' \in BOOLEAN
    <2>1. playing_cdda' \in {playing_cdda, TRUE, FALSE}
      BY Zenon DEF Execute
    <2>2. seek_pending' \in {seek_pending, TRUE, FALSE}
      BY Zenon DEF Execute
    <2>3. read_seek' \in {read_seek, seek_pending}
      BY Zenon DEF Execute
    <2> QED BY <2>1, <2>2, <2>3 DEF DriveTypes
  <1>3. mode' \in 0 .. 255
    BY ParamLemma DEF Execute, DriveTypes
  <1>4. seek_target' \in (0 .. 255) \X (0 .. 255) \X (0 .. 255)
    <2>1. Param(p, 1) \in 0 .. 255 /\ Param(p, 2) \in 0 .. 255 /\ Param(p, 3) \in 0 .. 255
      BY ParamLemma
    <2>2. seek_target' = IF c = "Setloc" THEN <<Param(p, 1), Param(p, 2), Param(p, 3)>>
                                         ELSE seek_target
      BY Zenon DEF Execute
    <2>3. seek_target \in (0 .. 255) \X (0 .. 255) \X (0 .. 255)
      BY DEF DriveTypes
    <2> QED BY <2>1, <2>2, <2>3
  <1>5. seek_lba' \in Nat /\ cur_lba' \in Nat
    BY LbaLemma DEF Execute, DriveTypes
  <1> QED BY <1>1, <1>2, <1>3, <1>4, <1>5 DEF DriveTypes

(* It arms the scheduler for the front of the queue: the new event if the  *)
(* queue was empty or has been cleared, the old front otherwise.           *)
LEMMA ExecuteQueue ==
  ASSUME QueueTypes, ArmedForFront, NEW c \in Commands, NEW p, Execute(c, p)
  PROVE  QueueTypes' /\ ArmedForFront'
  <1> DEFINE q == QueueBefore(c)
             e == FirstEvent(c, p)
  <1>1. q \in Seq(Event) /\ Len(q) <= QUEUE_SIZE
    BY EmptySeq DEF QueueBefore, QueueTypes
  <1>2. e \in Event
    BY FirstEventLemma
  <1>3. /\ evq' = Push(q, e)
        /\ armed' = IF q = <<>> THEN e.delay ELSE armed
        /\ dropped' \in BOOLEAN
    <2>1. dropped' = (dropped \/ Len(q) >= QUEUE_SIZE) /\ dropped \in BOOLEAN
      BY DEF Execute, QueueTypes
    <2> QED BY <2>1, Zenon DEF Execute
  <1>4. q # <<>> => q = evq
    BY DEF QueueBefore
  <1>5. e.delay \in Delay
    BY <1>2 DEF Event
  <1> HIDE DEF q, e
  <1>6. QueueTypes'
    <2>1. evq' \in Seq(Event) /\ Len(evq') <= QUEUE_SIZE
      BY <1>1, <1>2, <1>3, PushLemma
    <2>2. armed' \in Delay \cup {Off}
      BY <1>3, <1>5 DEF QueueTypes
    <2> QED BY <1>3, <2>1, <2>2 DEF QueueTypes
  <1>7. ArmedForFront'
    <2>1. /\ evq' # <<>>
          /\ q # <<>> => evq'[1] = q[1]
          /\ q = <<>> => evq'[1] = e
      BY <1>1, <1>2, <1>3, PushLemma
    <2>2. armed' = evq'[1].delay
      <3>1. CASE q = <<>>
        BY <1>3, <2>1, <3>1
      <3>2. CASE q # <<>>
        <4>1. evq # <<>> /\ q[1] = evq[1] /\ armed' = armed
          BY <1>3, <1>4, <3>2
        <4> QED BY <2>1, <3>2, <4>1 DEF ArmedForFront
      <3> QED BY <3>1, <3>2
    <2> QED BY <2>1, <2>2 DEF ArmedForFront
  <1> QED BY <1>6, <1>7

(* The parts of the invariant that a step leaves alone.                    *)
LEMMA KeepFifo == FifoTypes /\ UNCHANGED <<param, resp, data_left, pending, pending_param>>
                    => FifoTypes'
  BY DEF FifoTypes
LEMMA KeepIrq == IrqTypes /\ UNCHANGED <<irq_flag, irq_en, line>> => IrqTypes'
  BY DEF IrqTypes
LEMMA KeepQueue == QueueTypes /\ ArmedForFront /\ UNCHANGED <<evq, armed, dropped>>
                     => QueueTypes' /\ ArmedForFront'
  BY DEF QueueTypes, ArmedForFront
LEMMA KeepDrive == DriveTypes /\ UNCHANGED <<drive, disc>> => DriveTypes'
  BY DEF DriveTypes, drive
LEMMA KeepLinks == DeferredHasBlocker /\ LineHasCause /\ UNCHANGED <<pending, irq_flag, line>>
                     => DeferredHasBlocker' /\ LineHasCause'
  BY DEF DeferredHasBlocker, LineHasCause
-----------------------------------------------------------------------------
(* The invariant: types, and the three links between the parts.            *)
Links == DeferredHasBlocker /\ LineHasCause
IInv  == TypeOK /\ ArmedForFront /\ Links

LEMMA InitIInv == Init => IInv
  <1> SUFFICES ASSUME Init PROVE IInv
    OBVIOUS
  <1>1. FifoTypes
    BY EmptySeq DEF Init, FifoTypes, EmptyResp
  <1>2. IrqTypes
    BY DEF Init, IrqTypes
  <1>3. QueueTypes /\ ArmedForFront
    <2>1. <<>> \in Seq(Event) /\ Len(<<>>) = 0
      BY EmptySeq
    <2>2. evq = <<>> /\ armed = Off /\ dropped \in BOOLEAN
      BY DEF Init
    <2>3. QueueTypes
      BY <2>1, <2>2 DEF QueueTypes
    <2>4. ArmedForFront
      BY <2>2 DEF ArmedForFront
    <2> QED BY <2>3, <2>4
  <1>4. DriveTypes
    <2>1. /\ playing_cdda \in BOOLEAN /\ seek_pending \in BOOLEAN
          /\ read_seek \in BOOLEAN /\ disc \in BOOLEAN
      BY DEF Init
    <2>3. state = "IDLE" /\ mode = 0 /\ seek_lba = 0 /\ cur_lba = 0
      BY DEF Init
    <2>2. seek_target \in (0 .. 255) \X (0 .. 255) \X (0 .. 255)
      BY DEF Init
    <2> QED BY <2>1, <2>2, <2>3 DEF DriveTypes
  <1>5. Links
    BY DEF Init, Links, DeferredHasBlocker, LineHasCause
  <1> QED BY <1>1, <1>2, <1>3, <1>4, <1>5 DEF IInv, TypeOK

(* What a program may do to the controller, whatever program it is.        *)
Access ==
  \/ \E c \in Commands : WriteCommand(c)
  \/ \E v \in ParamVals : WriteParam(v)
  \/ \E m \in EnableMasks : WriteIrqEnable(m)
  \/ \E m \in SUBSET (0 .. 4), r \in BOOLEAN : WriteIrqFlag(m, r)
  \/ AckIStat
  \/ ReadResponse
  \/ \E n \in {1, 4} : ReadData(n)

LEMMA ProgramAccess == Program => Access
  BY ProgramAssumption DEF Program, Access

LEMMA DriverAccess == DriverStep \/ AnyStep => Access
  <1>1. DriverStep => Access
    BY StreamingAssumption DEF DriverStep, GiveParam, Issue, TakeResponse, Acknowledge, Access
  <1>2. AnyStep => Access
    BY ProgramAccess DEF AnyStep
  <1> QED BY <1>1, <1>2

(* Every access keeps the invariant.                                       *)
LEMMA AccessKeeps == ASSUME IInv, Access PROVE IInv'
  <1> USE DEF IInv, TypeOK, Links
  <1>1. ASSUME NEW c \in Commands, WriteCommand(c) PROVE IInv'
    <2>2. CASE irq_flag = {}
      <3>1. /\ Execute(c, param)
            /\ UNCHANGED <<data_left, irq_flag, irq_en, line, pending, pending_param, disc>>
        BY <1>1, <2>2 DEF WriteCommand
      <3>2. param \in Seq(0 .. 255) /\ Len(param) <= PARAM_FIFO_SIZE
        BY DEF FifoTypes
      <3>3. FifoTypes'
        BY <3>1, <3>2, ExecuteFifo DEF FifoTypes, Resps
      <3>4. DriveTypes'
        BY <3>1, <3>2, ExecuteDrive
      <3>5. QueueTypes' /\ ArmedForFront'
        BY <3>1, ExecuteQueue
      <3> QED BY <3>1, <3>3, <3>4, <3>5, KeepIrq, KeepLinks
    <2>3. CASE irq_flag # {}
      <3>1. /\ pending' = c /\ pending_param' = param /\ param' = <<>>
            /\ UNCHANGED <<resp, data_left, irq_flag, irq_en, line, evq, armed, drive,
                           disc, dropped>>
        BY <1>1, <2>3 DEF WriteCommand
      <3>2. <<>> \in Seq(0 .. 255) /\ Len(<<>>) = 0
        BY EmptySeq
      <3>3. FifoTypes'
        BY <3>1, <3>2 DEF FifoTypes
      <3>4. Links'
        BY <2>3, <3>1 DEF DeferredHasBlocker, LineHasCause
      <3> QED BY <3>1, <3>3, <3>4, KeepIrq, KeepQueue, KeepDrive
    <2> QED BY <2>2, <2>3
  <1>2. ASSUME NEW v \in ParamVals, WriteParam(v) PROVE IInv'
    <2>1. v \in 0 .. 255
      BY ProgramAssumption
    <2>2. param' \in Seq(0 .. 255) /\ Len(param') <= PARAM_FIFO_SIZE
      BY <1>2, <2>1, AppendProperties, LenProperties DEF WriteParam, FifoTypes
    <2>3. FifoTypes'
      BY <1>2, <2>2 DEF FifoTypes, WriteParam
    <2> QED BY <1>2, <2>3, KeepIrq, KeepQueue, KeepDrive, KeepLinks DEF WriteParam
  <1>3. ASSUME NEW m \in EnableMasks, WriteIrqEnable(m) PROVE IInv'
    <2>1. IrqTypes'
      BY <1>3, ProgramAssumption DEF WriteIrqEnable, IrqTypes
    <2> QED BY <1>3, <2>1, KeepFifo, KeepQueue, KeepDrive, KeepLinks DEF WriteIrqEnable
  <1>4. ASSUME NEW m \in SUBSET (0 .. 4), NEW r \in BOOLEAN, WriteIrqFlag(m, r) PROVE IInv'
    <2>1. /\ irq_flag' = irq_flag \ m
          /\ line' = (line /\ irq_flag' # {})
          /\ UNCHANGED <<data_left, irq_en, disc>>
      BY <1>4 DEF WriteIrqFlag
    <2>2. IrqTypes'
      BY <2>1 DEF IrqTypes
    <2>3. LineHasCause'
      BY <2>1 DEF LineHasCause
    <2>4. CASE pending # "None" /\ irq_flag' = {}
      <3>1. pending' = "None" /\ pending_param' = <<>> /\ Execute(pending, pending_param)
        BY <1>4, <2>1, <2>4 DEF WriteIrqFlag
      <3>2. /\ pending \in Commands
            /\ pending_param \in Seq(0 .. 255) /\ Len(pending_param) <= PARAM_FIFO_SIZE
        BY <2>4 DEF FifoTypes
      <3>3. <<>> \in Seq(0 .. 255) /\ Len(<<>>) = 0
        BY EmptySeq
      <3>4. FifoTypes'
        BY <2>1, <3>1, <3>2, <3>3, ExecuteFifo DEF FifoTypes, Resps
      <3>5. DriveTypes'
        BY <2>1, <3>1, <3>2, ExecuteDrive
      <3>6. QueueTypes' /\ ArmedForFront'
        BY <3>1, <3>2, ExecuteQueue
      <3>7. DeferredHasBlocker'
        BY <3>1 DEF DeferredHasBlocker
      <3> QED BY <2>2, <2>3, <3>4, <3>5, <3>6, <3>7
    <2>5. CASE pending = "None" \/ irq_flag' # {}
      <3>1. /\ resp' = IF m = {} THEN resp ELSE EmptyResp
            /\ param' = IF r THEN <<>> ELSE param
            /\ UNCHANGED <<pending, pending_param, evq, armed, drive, dropped>>
        BY <1>4, <2>1, <2>5 DEF WriteIrqFlag
      <3>2. <<>> \in Seq(0 .. 255) /\ Len(<<>>) = 0
        BY EmptySeq
      <3>3. FifoTypes'
        BY <2>1, <3>1, <3>2 DEF FifoTypes, EmptyResp
      <3>4. DeferredHasBlocker'
        BY <2>5, <3>1 DEF DeferredHasBlocker
      <3> QED BY <2>1, <2>2, <2>3, <3>1, <3>3, <3>4, KeepQueue, KeepDrive
    <2> QED BY <2>4, <2>5
  <1>5. ASSUME AckIStat PROVE IInv'
    <2>1. IrqTypes' /\ Links'
      BY <1>5 DEF AckIStat, IrqTypes, DeferredHasBlocker, LineHasCause
    <2> QED BY <1>5, <2>1, KeepFifo, KeepQueue, KeepDrive DEF AckIStat
  <1>6. ASSUME ReadResponse PROVE IInv'
    <2>1. resp' \in [of : Commands \cup {"None", "Sector"}, left : 0 .. 8]
      <3>1. resp.left \in 1 .. 8 /\ resp.of \in Commands \cup {"None", "Sector"}
        BY <1>6 DEF ReadResponse, FifoTypes
      <3>2. resp' = [of |-> resp.of, left |-> resp.left - 1]
        BY <1>6 DEF ReadResponse, FifoTypes
      <3> QED BY <3>1, <3>2
    <2>2. FifoTypes'
      BY <1>6, <2>1 DEF ReadResponse, FifoTypes
    <2> QED BY <1>6, <2>2, KeepIrq, KeepQueue, KeepDrive, KeepLinks DEF ReadResponse
  <1>7. ASSUME NEW n \in {1, 4}, ReadData(n) PROVE IInv'
    <2>1. FifoTypes'
      BY <1>7 DEF ReadData, FifoTypes
    <2> QED BY <1>7, <2>1, KeepIrq, KeepQueue, KeepDrive, KeepLinks DEF ReadData
  <1> QED BY <1>1, <1>2, <1>3, <1>4, <1>5, <1>6, <1>7 DEF Access
-----------------------------------------------------------------------------
(* The follow-up events of the handler are events.                         *)
LEMMA DoneEventLemma ==
  ASSUME NEW k \in TwoPart, NEW c \in Commands
  PROVE  DoneEvent(k, c) \in Event
  <1>1. DonePhase[k] \in Phases
    BY DEF Phases, DonePhases
  <1>2. DoneEvent(k, c).delay \in Delay
    BY DelayLemma DEF DoneEvent, Delay, Bases
  <1> QED BY <1>1, <1>2 DEF DoneEvent, Event

LEMMA SectorEventLemma ==
  ASSUME NEW d \in Delay, NEW c \in Commands
  PROVE  SectorEvent(d, c) \in Event
  BY DEF SectorEvent, Event, Phases

LEMMA PeriodLemma ==
  ASSUME NEW m, NEW b \in BOOLEAN
  PROVE  <<SectorPeriod(m), b>> \in Delay
  BY DEF SectorPeriod, Delay, Bases

(* The scheduler is armed for the front of whatever queue is left.         *)
LEMMA RearmLemma ==
  ASSUME QueueTypes, NEW q \in Seq(Event), Len(q) <= QUEUE_SIZE, Rearm(q), UNCHANGED dropped
  PROVE  QueueTypes' /\ ArmedForFront'
  <1>1. q # <<>> => q[1] \in Event
    BY EmptySeq, ElementOfSeq
  <1>2. q # <<>> => q[1].delay \in Delay
    BY <1>1 DEF Event
  <1>3. QueueTypes'
    BY <1>2 DEF Rearm, QueueTypes
  <1>4. ArmedForFront'
    BY DEF Rearm, ArmedForFront
  <1> QED BY <1>3, <1>4

(* commit_irq never leaves the flag empty.                                 *)
LEMMA CommitLemma ==
  ASSUME IrqTypes, Links, NEW e \in Event, Commit(e.int), UNCHANGED <<irq_en, pending>>
  PROVE  IrqTypes' /\ Links'
  <1>1. e.int \in {INT1, INT2, INT3, INT5}
    BY DEF Event
  <1>2. e.int \in SUBSET (0 .. 4) /\ e.int # {}
    BY <1>1 DEF INT1, INT2, INT3, INT5
  <1>3. irq_flag' = e.int /\ line' \in BOOLEAN
    BY DEF Commit, IrqTypes
  <1>4. IrqTypes'
    BY <1>2, <1>3 DEF IrqTypes
  <1>5. Links'
    BY <1>2, <1>3 DEF Links, DeferredHasBlocker, LineHasCause
  <1> QED BY <1>4, <1>5

(* What is common to all phases of the handler.                            *)
LEMMA HandlerLemma ==
  ASSUME IInv, HandlerFrame, IrqTypes', Links',
         NEW q \in Seq(Event), Len(q) <= QUEUE_SIZE, Rearm(q),
         resp' \in Resps, data_left' \in Nat, state' \in {"IDLE", "READING", "SEEKING"},
         read_seek' \in BOOLEAN, cur_lba' \in Nat
  PROVE  IInv'
  <1>1. QueueTypes' /\ ArmedForFront'
    BY RearmLemma DEF IInv, TypeOK, HandlerFrame
  <1>2. FifoTypes'
    BY DEF IInv, TypeOK, FifoTypes, HandlerFrame, Resps
  <1>3. DriveTypes'
    <2>1. UNCHANGED <<disc, mode, playing_cdda, seek_target, seek_pending, seek_lba>>
      BY DEF HandlerFrame
    <2>2. DriveTypes
      BY DEF IInv, TypeOK
    <2> QED BY <2>1, <2>2 DEF DriveTypes
  <1> QED BY <1>1, <1>2, <1>3 DEF IInv, TypeOK

(* Every phase of the scheduler event handler keeps the invariant.         *)
LEMMA HandlerKeeps == ASSUME IInv, SchedulerEvent PROVE IInv'
  <1> DEFINE ev == Head(evq)
             rest == Tail(evq)
  <1>0. evq # <<>>
    BY DEF SchedulerEvent, FireAck, FireTwoPartAck, FireDone, FireReadData, FireSector, Fires
  <1>1. /\ rest \in Seq(Event) /\ Len(rest) <= QUEUE_SIZE
        /\ ev \in Event /\ ev.cmd \in Commands
    BY <1>0, TailLemma DEF IInv, TypeOK, QueueTypes, Event
  <1>2. /\ resp \in Resps /\ data_left \in Nat /\ cur_lba \in Nat
        /\ state \in {"IDLE", "READING", "SEEKING"}
    BY DEF IInv, TypeOK, FifoTypes, DriveTypes, Resps
  <1>3. read_seek \in BOOLEAN
    BY DEF IInv, TypeOK, DriveTypes
  <1>4. IrqTypes /\ Links
    BY DEF IInv, TypeOK
  <1>5. \A e \in Event : Commit(e.int) /\ UNCHANGED <<irq_en, pending>> => IrqTypes' /\ Links'
    BY <1>4, CommitLemma
  <1>6. UNCHANGED <<irq_flag, line, irq_en, pending>> => IrqTypes' /\ Links'
    BY <1>4, KeepIrq, KeepLinks DEF Links
  <1>7. HandlerFrame => UNCHANGED <<irq_en, pending>>
    BY DEF HandlerFrame
  <1>8. \A e \in Event : Push(rest, e) \in Seq(Event) /\ Len(Push(rest, e)) <= QUEUE_SIZE
    BY <1>1, PushLemma
  <1>9. \A c \in Commands \cup {"Sector"}, n \in 0 .. 8 : Answer(c, n) \in Resps
    BY DEF Answer, Resps
  <1> HIDE DEF ev, rest
  <1>10. CASE FireAck
    <2>1. Commit(ev.int) /\ Rearm(rest) /\ HandlerFrame
      BY <1>10 DEF FireAck, ev, rest
    <2>2. UNCHANGED <<resp, data_left, state, read_seek, cur_lba>>
      BY <1>10 DEF FireAck
    <2> QED BY <1>1, <1>2, <1>3, <1>5, <1>7, <2>1, <2>2, HandlerLemma
  <1>11. ASSUME NEW k \in TwoPart, FireTwoPartAck(k) PROVE IInv'
    <2>1. Commit(ev.int) /\ Rearm(Push(rest, DoneEvent(k, ev.cmd))) /\ HandlerFrame
      BY <1>11 DEF FireTwoPartAck, ev, rest
    <2>2. UNCHANGED <<resp, data_left, state, read_seek, cur_lba>>
      BY <1>11 DEF FireTwoPartAck
    <2>3. DoneEvent(k, ev.cmd) \in Event
      BY <1>1, DoneEventLemma
    <2> QED BY <1>1, <1>2, <1>3, <1>5, <1>7, <1>8, <2>1, <2>2, <2>3, HandlerLemma
  <1>12. ASSUME NEW k \in TwoPart, FireDone(k) PROVE IInv'
    <2>1. Commit(ev.int) /\ Rearm(rest) /\ HandlerFrame
      BY <1>12 DEF FireDone, ev, rest
    <2>2. /\ resp' = Answer(ev.cmd, IF k = "GETID" THEN 8 ELSE 1)
          /\ state' = IF k = "GETID" THEN state ELSE "IDLE"
          /\ cur_lba' = IF k = "SEEK" THEN seek_lba ELSE cur_lba
          /\ UNCHANGED <<data_left, read_seek>>
      BY <1>12 DEF FireDone, ev
    <2>3. cur_lba' \in Nat /\ state' \in {"IDLE", "READING", "SEEKING"}
      BY <1>2, <2>2 DEF IInv, TypeOK, DriveTypes
    <2>4. resp' \in Resps
      BY <1>1, <1>9, <2>2
    <2> QED BY <1>1, <1>2, <1>3, <1>5, <1>7, <2>1, <2>2, <2>3, <2>4, HandlerLemma
  <1>13. CASE FireReadData
    <2> DEFINE sector == SectorEvent(<<SectorPeriod(mode), read_seek>>, ev.cmd)
    <2>1. Commit(ev.int) /\ Rearm(Push(rest, sector)) /\ HandlerFrame
      BY <1>13 DEF FireReadData, ev, rest
    <2>2. read_seek' \in BOOLEAN
      BY <1>13 DEF FireReadData
    <2>3. UNCHANGED <<resp, data_left, state, cur_lba>>
      BY <1>13 DEF FireReadData
    <2>4. sector \in Event
      BY <1>1, <1>3, PeriodLemma, SectorEventLemma
    <2> QED BY <1>1, <1>2, <1>5, <1>7, <1>8, <2>1, <2>2, <2>3, <2>4, HandlerLemma
  <1>14. CASE FireSector
    <2>1. HandlerFrame /\ UNCHANGED read_seek
      BY <1>14 DEF FireSector
    <2>2. CASE SectorDeferred
      <3>1. SectorEvent(AckDelay, ev.cmd) \in Event
        BY <1>1, DelayLemma, SectorEventLemma
      <3>2. Rearm(Push(rest, SectorEvent(AckDelay, ev.cmd)))
        BY <2>2 DEF SectorDeferred, ev, rest
      <3>3. UNCHANGED <<irq_flag, line, resp, data_left, state, cur_lba>>
        BY <2>2 DEF SectorDeferred
      <3> QED BY <1>2, <1>3, <1>6, <1>7, <1>8, <2>1, <3>1, <3>2, <3>3, HandlerLemma
    <2>3. CASE SectorIgnored
      <3>1. Rearm(rest)
        BY <2>3 DEF SectorIgnored, rest
      <3>2. UNCHANGED <<irq_flag, line, resp, data_left, state, cur_lba>>
        BY <2>3 DEF SectorIgnored
      <3> QED BY <1>1, <1>2, <1>3, <1>6, <1>7, <2>1, <3>1, <3>2, HandlerLemma
    <2>4. CASE SectorNoDisc
      <3> DEFINE error == [int |-> INT5, phase |-> "ACK", delay |-> AckDelay, cmd |-> ev.cmd]
      <3>1. error \in Event
        BY <1>1, DelayLemma DEF Event, Phases
      <3>2. Rearm(Push(rest, error))
        BY <2>4 DEF SectorNoDisc, ev, rest
      <3>3. /\ state' = "IDLE" /\ resp' = Answer(ev.cmd, 2)
            /\ UNCHANGED <<irq_flag, line, data_left, cur_lba>>
        BY <2>4 DEF SectorNoDisc, ev
      <3>4. resp' \in Resps
        BY <1>1, <1>9, <3>3
      <3> QED BY <1>2, <1>3, <1>6, <1>7, <1>8, <2>1, <3>1, <3>2, <3>3, <3>4, HandlerLemma
    <2>5. CASE SectorDelivered
      <3> DEFINE next == SectorEvent(<<SectorPeriod(mode), FALSE>>, ev.cmd)
      <3>1. next \in Event
        BY <1>1, PeriodLemma, SectorEventLemma
      <3>2. Rearm(Push(rest, next)) /\ Commit(next.int)
        BY <2>5 DEF SectorDelivered, ev, rest, SectorEvent
      <3>3. /\ cur_lba' = (cur_lba + 1) % LBA_SPACE
            /\ data_left' = IF playing_cdda THEN 0 ELSE SectorBytes(mode)
            /\ resp' = Answer("Sector", 1)
            /\ UNCHANGED state
        BY <2>5 DEF SectorDelivered
      <3>4. cur_lba' \in Nat
        BY <1>2, <3>3
      <3>5. data_left' \in Nat
        BY <3>3 DEF SectorBytes
      <3>6. resp' \in Resps
        BY <1>9, <3>3
      <3> QED BY <1>2, <1>3, <1>5, <1>7, <1>8, <2>1, <3>1, <3>2, <3>3, <3>4, <3>5, <3>6,
                 HandlerLemma
    <2> QED BY <1>14, <2>2, <2>3, <2>4, <2>5 DEF FireSector
  <1> QED BY <1>10, <1>11, <1>12, <1>13, <1>14 DEF SchedulerEvent
-----------------------------------------------------------------------------
LEMMA StutterKeeps == IInv /\ UNCHANGED vars => IInv'
  BY KeepFifo, KeepIrq, KeepQueue, KeepDrive, KeepLinks DEF vars, IInv, TypeOK, Links

(* The invariant holds in every state of every execution.                  *)
THEOREM Invariance == Spec => []IInv
  <1>1. IInv /\ [Next]_vars => IInv'
    BY ProgramAccess, AccessKeeps, HandlerKeeps, StutterKeeps DEF Next
  <1> QED BY InitIInv, <1>1, PTL DEF Spec

(* Registers and FIFOs stay within the sizes of the C structures, for      *)
(* every program and every size.                                           *)
THEOREM TypeCorrect == Spec => []TypeOK
  BY Invariance, PTL DEF IInv

(* No wake-up of the controller is lost or stale: EVENT_CDROM_IRQ is armed *)
(* exactly while events are queued, with the delay of the front one.       *)
THEOREM NoLostWakeup == Spec => []ArmedForFront
  BY Invariance, PTL DEF IInv

(* A deferred command always has an unacknowledged interrupt to release    *)
(* it.                                                                     *)
THEOREM NoOrphanedCommand == Spec => []DeferredHasBlocker
  BY Invariance, PTL DEF IInv, Links

(* I_STAT reports the CD-ROM only while the controller has an interrupt.   *)
THEOREM NoSpuriousInterrupt == Spec => []LineHasCause
  BY Invariance, PTL DEF IInv, Links
-----------------------------------------------------------------------------
(* A busy drive always has the event that ends what it does.               *)

(* Queue q holds an event with a phase of S.                               *)
Has(q, S) == \E i \in DOMAIN q : q[i].phase \in S

(* evq_push loses none of the queued events, and its own only when the     *)
(* queue is full.                                                          *)
LEMMA PushHas ==
  ASSUME NEW q \in Seq(Event), NEW e \in Event, NEW S
  PROVE  /\ Has(q, S) => Has(Push(q, e), S)
         /\ Len(q) < QUEUE_SIZE /\ e.phase \in S => Has(Push(q, e), S)
  <1>1. CASE Len(q) >= QUEUE_SIZE
    BY <1>1, LenProperties DEF Push
  <1>2. CASE Len(q) < QUEUE_SIZE
    <2>1. Push(q, e) = Append(q, e)
      BY <1>2, LenProperties DEF Push
    <2>2. /\ DOMAIN Append(q, e) = 1 .. Len(q) + 1
          /\ \A i \in 1 .. Len(q) : Append(q, e)[i] = q[i]
          /\ Append(q, e)[Len(q) + 1] = e
      BY AppendProperties, LenProperties
    <2>3. DOMAIN q = 1 .. Len(q) /\ Len(q) \in Nat
      BY LenProperties
    <2>4. Has(q, S) => Has(Append(q, e), S)
      BY <2>2, <2>3 DEF Has
    <2>5. e.phase \in S => Has(Append(q, e), S)
      BY <2>2, <2>3 DEF Has
    <2> QED BY <2>1, <2>4, <2>5
  <1> QED BY <1>1, <1>2, LenProperties

(* Popping loses only the front event.                                     *)
LEMMA TailHas ==
  ASSUME NEW q \in Seq(Event), q # <<>>, NEW S, Has(q, S), Head(q).phase \notin S
  PROVE  Has(Tail(q), S)
  <1>1. PICK i \in DOMAIN q : q[i].phase \in S
    BY DEF Has
  <1>2. DOMAIN q = 1 .. Len(q) /\ Len(q) \in Nat
    BY LenProperties
  <1>3. i # 1
    BY <1>1
  <1>4. Len(Tail(q)) = Len(q) - 1 /\ \A j \in 1 .. Len(Tail(q)) : Tail(q)[j] = q[j + 1]
    BY HeadTailProperties
  <1>5. DOMAIN Tail(q) = 1 .. Len(q) - 1
    BY <1>4, HeadTailProperties, LenProperties
  <1>6. i - 1 \in DOMAIN Tail(q) /\ Tail(q)[i - 1] = q[i]
    BY <1>1, <1>2, <1>3, <1>4, <1>5
  <1> QED BY <1>1, <1>6 DEF Has

LEMMA TailRoom ==
  ASSUME NEW q \in Seq(Event), q # <<>>, Len(q) <= QUEUE_SIZE
  PROVE  Len(Tail(q)) < QUEUE_SIZE
  BY HeadTailProperties, EmptySeq, LenProperties

(* Every access of the program keeps the drive from getting stuck.         *)
LEMMA ExecuteBusy ==
  ASSUME TypeOK, BusyHasEvent, NEW c \in Commands, NEW p, Execute(c, p)
  PROVE  BusyHasEvent'
  <1> DEFINE q == QueueBefore(c)
             e == FirstEvent(c, p)
  <1>1. q \in Seq(Event) /\ Len(q) \in Nat /\ e \in Event
    BY FirstEventLemma, EmptySeq, LenProperties DEF QueueBefore, TypeOK, QueueTypes
  <1>2. /\ evq' = Push(q, e) /\ state' = StateAfter(c)
        /\ ~dropped' => ~dropped /\ Len(q) < QUEUE_SIZE
    <2>1. evq' = Push(q, e) /\ state' = StateAfter(c)
      BY DEF Execute
    <2>2. dropped' = (dropped \/ Len(q) >= QUEUE_SIZE)
      BY DEF Execute
    <2>3. Len(q) >= QUEUE_SIZE \/ Len(q) < QUEUE_SIZE
      BY <1>1
    <2> HIDE DEF q, e
    <2> QED BY <2>1, <2>2, <2>3
  <1>3. e.phase = FirstPhase(c)
    BY DEF FirstEvent
  <1>4. CASE c \in {"Init", "Pause", "Stop"}
    BY <1>2, <1>4 DEF StateAfter, BusyHasEvent
  <1>5. CASE c \in {"Read", "Play", "Seek", "ReadTOC"}
    <2>1. c \in {"Read", "Play"} => e.phase \in StreamPhases /\ state' = "READING"
      BY <1>2, <1>3 DEF FirstPhase, StreamPhases, StateAfter
    <2>2. c \in {"Seek", "ReadTOC"} => e.phase \in SeekPhases /\ state' = "SEEKING"
      BY <1>2, <1>3 DEF FirstPhase, SeekPhases, StateAfter
    <2> HIDE DEF q, e
    <2>3. ~dropped' => \A S : e.phase \in S => Has(evq', S)
      BY <1>1, <1>2, PushHas
    <2> QED BY <1>5, <2>1, <2>2, <2>3 DEF BusyHasEvent, Queued, Has
  <1>6. CASE c \notin {"Init", "Pause", "Stop", "Read", "Play", "Seek", "ReadTOC"}
    <2>1. q = evq /\ state' = state
      BY <1>2, <1>6 DEF QueueBefore, StateAfter
    <2> HIDE DEF q, e
    <2>2. \A S : Has(evq, S) => Has(evq', S)
      BY <1>1, <1>2, <2>1, PushHas
    <2> QED BY <1>2, <2>1, <2>2 DEF BusyHasEvent, Queued, Has
  <1> QED BY <1>4, <1>5, <1>6

LEMMA AccessBusy == ASSUME IInv, BusyHasEvent, Access PROVE BusyHasEvent'
  <1>1. UNCHANGED <<evq, state, dropped>> => BusyHasEvent'
    BY DEF BusyHasEvent, Queued
  <1>2. ASSUME NEW c \in Commands, WriteCommand(c) PROVE BusyHasEvent'
    <2>2. CASE Execute(c, param)
      BY <2>2, ExecuteBusy DEF IInv
    <2>3. CASE UNCHANGED <<evq, state, dropped>>
      BY <1>1, <2>3
    <2> QED BY <1>2, <2>2, <2>3 DEF WriteCommand, drive
  <1>3. ASSUME NEW m \in SUBSET (0 .. 4), NEW r \in BOOLEAN, WriteIrqFlag(m, r) PROVE BusyHasEvent'
    <2>1. pending # "None" => pending \in Commands
      BY DEF IInv, TypeOK, FifoTypes
    <2> QED BY <1>1, <1>3, <2>1, ExecuteBusy DEF WriteIrqFlag, IInv, drive
  <1>4. CASE AckIStat \/ ReadResponse \/ \E n \in {1, 4} : ReadData(n)
    BY <1>1, <1>4 DEF AckIStat, ReadResponse, ReadData, drive
  <1>5. CASE (\E v \in ParamVals : WriteParam(v)) \/ \E m \in EnableMasks : WriteIrqEnable(m)
    BY <1>1, <1>5 DEF WriteParam, WriteIrqEnable, drive
  <1> QED BY <1>2, <1>3, <1>4, <1>5 DEF Access

(* So does every phase of the handler: it pushes the follow-up of what it  *)
(* pops, into the slot that the pop has freed.                             *)
LEMMA HandlerBusy == ASSUME IInv, BusyHasEvent, SchedulerEvent PROVE BusyHasEvent'
  <1> DEFINE ev == Head(evq)
             rest == Tail(evq)
  <1>0. evq # <<>>
    BY DEF SchedulerEvent, FireAck, FireTwoPartAck, FireDone, FireReadData, FireSector, Fires
  <1>1. /\ rest \in Seq(Event) /\ Len(rest) < QUEUE_SIZE
        /\ ev \in Event /\ ev.cmd \in Commands
    BY <1>0, TailLemma, TailRoom DEF IInv, TypeOK, QueueTypes, Event
  <1>2. \A S : Has(evq, S) /\ ev.phase \notin S => Has(rest, S)
    BY <1>0, TailHas DEF IInv, TypeOK, QueueTypes
  <1>3. \A e \in Event : \A S : /\ Has(rest, S) => Has(Push(rest, e), S)
                                /\ e.phase \in S => Has(Push(rest, e), S)
    BY <1>1, PushHas
  <1>4. UNCHANGED dropped
    BY DEF SchedulerEvent, FireAck, FireTwoPartAck, FireDone, FireReadData, FireSector,
           HandlerFrame
  <1>5. ~dropped => /\ state = "READING" => Has(evq, StreamPhases)
                    /\ state = "SEEKING" => Has(evq, SeekPhases)
    BY DEF BusyHasEvent, Queued, Has
  <1>6. ASSUME ~dropped => /\ state' = "READING" => Has(evq', StreamPhases)
                           /\ state' = "SEEKING" => Has(evq', SeekPhases)
        PROVE  BusyHasEvent'
    BY <1>4, <1>6 DEF BusyHasEvent, Queued, Has
  <1> HIDE DEF ev, rest
  <1>10. CASE FireAck
    <2>1. ev.phase = "ACK" /\ evq' = rest /\ UNCHANGED state
      BY <1>10 DEF FireAck, Fires, Rearm, ev, rest
    <2>2. ev.phase \notin StreamPhases /\ ev.phase \notin SeekPhases
      BY <2>1 DEF StreamPhases, SeekPhases
    <2> QED BY <1>2, <1>5, <1>6, <2>1, <2>2
  <1>11. ASSUME NEW k \in TwoPart, FireTwoPartAck(k) PROVE BusyHasEvent'
    <2>1. /\ ev.phase = AckPhase[k] /\ UNCHANGED state
          /\ evq' = Push(rest, DoneEvent(k, ev.cmd))
      BY <1>11 DEF FireTwoPartAck, Fires, Rearm, ev, rest
    <2>2. ev.phase \notin StreamPhases
      BY <2>1 DEF StreamPhases, AckPhase, TwoPart
    <2>3. DoneEvent(k, ev.cmd) \in Event
      BY <1>1, DoneEventLemma
    <2>4. ev.phase \in SeekPhases => DoneEvent(k, ev.cmd).phase \in SeekPhases
      BY <2>1 DEF SeekPhases, DoneEvent, AckPhase, DonePhase, TwoPart
    <2> QED BY <1>2, <1>3, <1>5, <1>6, <2>1, <2>2, <2>3, <2>4
  <1>12. ASSUME NEW k \in TwoPart, FireDone(k) PROVE BusyHasEvent'
    <2>1. /\ ev.phase = DonePhase[k] /\ evq' = rest
          /\ state' = IF k = "GETID" THEN state ELSE "IDLE"
      BY <1>12 DEF FireDone, Fires, Rearm, ev, rest
    <2>2. k = "GETID" => ev.phase \notin StreamPhases /\ ev.phase \notin SeekPhases
      BY <2>1 DEF StreamPhases, SeekPhases, DonePhase
    <2> QED BY <1>2, <1>5, <1>6, <2>1, <2>2
  <1>13. CASE FireReadData
    <2> DEFINE sector == SectorEvent(<<SectorPeriod(mode), read_seek>>, ev.cmd)
    <2>1. ev.phase = "READ_DATA" /\ evq' = Push(rest, sector) /\ UNCHANGED state
      BY <1>13 DEF FireReadData, Fires, Rearm, ev, rest
    <2>2. ev.phase \notin SeekPhases
      BY <2>1 DEF SeekPhases
    <2>3. sector \in Event /\ sector.phase \in StreamPhases
      BY <1>1, PeriodLemma, SectorEventLemma DEF IInv, TypeOK, DriveTypes, SectorEvent, StreamPhases
    <2> QED BY <1>2, <1>3, <1>5, <1>6, <2>1, <2>2, <2>3
  <1>14. CASE FireSector
    <2>1. ev.phase = "SECTOR"
      BY <1>14 DEF FireSector, Fires, ev
    <2>2. ev.phase \notin SeekPhases
      BY <2>1 DEF SeekPhases
    <2>3. \A d \in Delay : /\ SectorEvent(d, ev.cmd) \in Event
                           /\ SectorEvent(d, ev.cmd).phase \in StreamPhases
      BY <1>1, SectorEventLemma DEF SectorEvent, StreamPhases
    <2>4. CASE SectorDeferred
      <3>1. evq' = Push(rest, SectorEvent(AckDelay, ev.cmd)) /\ UNCHANGED state
        BY <2>4 DEF SectorDeferred, Rearm, ev, rest
      <3> QED BY <1>2, <1>3, <1>5, <1>6, <2>2, <2>3, <3>1, DelayLemma
    <2>5. CASE SectorIgnored
      <3>1. evq' = rest /\ UNCHANGED state /\ state # "READING"
        BY <2>5 DEF SectorIgnored, Rearm, rest
      <3> QED BY <1>2, <1>5, <1>6, <2>2, <3>1
    <2>6. CASE SectorNoDisc
      <3>1. state' = "IDLE"
        BY <2>6 DEF SectorNoDisc
      <3> QED BY <1>6, <3>1
    <2>7. CASE SectorDelivered
      <3>1. /\ evq' = Push(rest, SectorEvent(<<SectorPeriod(mode), FALSE>>, ev.cmd))
            /\ state = "READING" /\ UNCHANGED state
        BY <2>7 DEF SectorDelivered, Rearm, ev, rest
      <3>2. <<SectorPeriod(mode), FALSE>> \in Delay
        BY PeriodLemma
      <3> QED BY <1>3, <1>6, <2>3, <3>1, <3>2
    <2> QED BY <1>14, <2>4, <2>5, <2>6, <2>7 DEF FireSector
  <1> QED BY <1>10, <1>11, <1>12, <1>13, <1>14 DEF SchedulerEvent

(* The drive is never READING or SEEKING with nothing queued that would    *)
(* go on with it or end it, unless a full queue has discarded an event.    *)
THEOREM DriveNeverStuck == Spec => []BusyHasEvent
  <1>1. Init => BusyHasEvent
    BY DEF Init, BusyHasEvent
  <1>2. IInv /\ BusyHasEvent /\ [Next]_vars => BusyHasEvent'
    <2>1. BusyHasEvent /\ UNCHANGED vars => BusyHasEvent'
      BY DEF vars, drive, BusyHasEvent, Queued
    <2> QED BY <2>1, ProgramAccess, AccessBusy, HandlerBusy DEF Next
  <1> QED BY <1>1, <1>2, Invariance, PTL DEF Spec
-----------------------------------------------------------------------------
(* No access of the program puts a sector into the FIFOs.                  *)
LEMMA AccessSector ==
  ASSUME IInv, Access
  PROVE  data_left' <= data_left /\ (resp'.of = "Sector" => resp.of = "Sector")
  <1>1. data_left \in Nat /\ data_left' = data_left => data_left' <= data_left
    OBVIOUS
  <1>2. data_left \in Nat
    BY DEF IInv, TypeOK, FifoTypes
  <1>3. \A c \in Commands : \A p : Execute(c, p) => resp'.of = c
    BY DEF Execute, Answer
  <1>4. "Sector" \notin Commands
    BY DEF Commands
  <1>5. ASSUME NEW c \in Commands, WriteCommand(c)
        PROVE  UNCHANGED data_left /\ (resp'.of = "Sector" => resp.of = "Sector")
    BY <1>3, <1>4, <1>5 DEF WriteCommand
  <1>6. ASSUME NEW m, NEW r, WriteIrqFlag(m, r)
        PROVE  UNCHANGED data_left /\ (resp'.of = "Sector" => resp.of = "Sector")
    <2>1. pending # "None" => pending \in Commands
      BY DEF IInv, TypeOK, FifoTypes
    <2>2. EmptyResp.of # "Sector"
      BY DEF EmptyResp
    <2> QED BY <1>3, <1>4, <1>6, <2>1, <2>2 DEF WriteIrqFlag
  <1>7. CASE ReadResponse
    <2>1. UNCHANGED data_left /\ resp'.of = resp.of
      BY <1>7 DEF ReadResponse, IInv, TypeOK, FifoTypes
    <2> QED BY <1>1, <1>2, <2>1
  <1>8. ASSUME NEW n \in {1, 4}, ReadData(n)
        PROVE  data_left' <= data_left /\ UNCHANGED resp
    BY <1>2, <1>8 DEF ReadData
  <1>9. CASE \/ \E v \in ParamVals : WriteParam(v)
             \/ \E m \in EnableMasks : WriteIrqEnable(m)
             \/ AckIStat
    BY <1>1, <1>2, <1>9 DEF WriteParam, WriteIrqEnable, AckIStat
  <1> QED BY <1>1, <1>2, <1>5, <1>6, <1>7, <1>8, <1>9 DEF Access

(* The handler does so only for a sector that nothing holds back.          *)
LEMMA HandlerSector ==
  ASSUME IInv, SchedulerEvent, irq_flag # {} \/ pending # "None"
  PROVE  /\ data_left' = data_left
         /\ resp'.of = "Sector" => resp.of = "Sector"
         /\ FireSector => UNCHANGED cur_lba
  <1>1. evq # <<>> => Head(evq).cmd # "Sector"
    <2>1. evq # <<>> => Head(evq) \in Event
      BY TailLemma DEF IInv, TypeOK, QueueTypes
    <2> QED BY <2>1 DEF Event, Commands
  <1>2. ASSUME NEW S1, NEW S2, S1 \cap S2 = {}, Fires(S1), Fires(S2) PROVE FALSE
    BY <1>2 DEF Fires
  <1>3. FireSector => UNCHANGED <<data_left, resp, cur_lba>>
    BY DEF FireSector, SectorDeferred, SectorIgnored, SectorNoDisc, SectorDelivered
  <1>4. ASSUME NEW k \in TwoPart, FireDone(k)
        PROVE  UNCHANGED data_left /\ resp'.of # "Sector" /\ ~FireSector
    <2>1. {DonePhase[k]} \cap {"SECTOR"} = {}
      BY DEF DonePhase, TwoPart
    <2> QED BY <1>1, <1>2, <1>4, <2>1 DEF FireDone, FireSector, Answer, Fires
  <1>5. ASSUME NEW k \in TwoPart, FireTwoPartAck(k)
        PROVE  UNCHANGED <<data_left, resp, cur_lba>>
    BY <1>5 DEF FireTwoPartAck
  <1>6. FireAck \/ FireReadData => UNCHANGED <<data_left, resp, cur_lba>>
    BY DEF FireAck, FireReadData
  <1> QED BY <1>3, <1>4, <1>5, <1>6 DEF SchedulerEvent

(* A sector never replaces the data FIFO or the answer, and the drive does *)
(* not step on, while an interrupt is unacknowledged or a command waits.   *)
THEOREM SectorsHeldBack == Spec => SectorsWaitForAck
  <1>1. IInv /\ [Next]_vars =>
          [(irq_flag # {} \/ pending # "None")
             => /\ data_left' <= data_left
                /\ resp'.of = "Sector" => resp.of = "Sector"
                /\ FireSector => UNCHANGED cur_lba]_vars
    <2> SUFFICES ASSUME IInv, Next, irq_flag # {} \/ pending # "None"
                 PROVE  /\ data_left' <= data_left
                        /\ resp'.of = "Sector" => resp.of = "Sector"
                        /\ FireSector => UNCHANGED cur_lba
      OBVIOUS
    <2>1. FireSector => UNCHANGED cur_lba
      BY DEF FireSector, SectorDeferred, SectorIgnored, SectorNoDisc, SectorDelivered
    <2>2. CASE Program
      BY <2>1, <2>2, ProgramAccess, AccessSector
    <2>3. CASE SchedulerEvent
      <3>1. data_left \in Nat
        BY DEF IInv, TypeOK, FifoTypes
      <3> QED BY <2>3, <3>1, HandlerSector
    <2> QED BY <2>2, <2>3 DEF Next
  <1> QED BY <1>1, Invariance, PTL DEF Spec, SectorsWaitForAck
-----------------------------------------------------------------------------
(* The conversation of a polite program that stops a stream before it      *)
(* issues anything else.  At most one event is queued: the first response  *)
(* of the command being waited for (or the error that ends a stream), its  *)
(* second one, or the next sector; and until a first response is raised    *)
(* its answer lies untouched in the response FIFO.                         *)
FirstDue(e) ==
  /\ e.phase \in {"ACK", "READ_DATA"} \cup AckPhases
  /\ e.int \in {INT3, INT5}
  /\ irq_flag = {} /\ resp.of = e.cmd /\ resp.left > 0
  /\ \/ job = e.cmd /\ e.phase = FirstPhase(e.cmd) /\ (e.phase # "ACK" => e.int = INT3)
     \/ stream /\ e.phase = "ACK"

SecondDue(e) ==
  /\ e.phase \in DonePhases
  /\ e.int \in {INT2, INT5}
  /\ job \in TwoPartCmds /\ irq_flag \in {{}, INT3}

SectorDue(e) ==
  /\ e.phase = "SECTOR"
  /\ e.int = INT1
  /\ \/ job = "None" /\ stream /\ irq_flag \in {{}, INT1}
     \/ job \in {"Read", "Play"} /\ irq_flag = INT3

Due(e) == FirstDue(e) \/ SecondDue(e) \/ SectorDue(e)

Conversation ==
  Polite => /\ pending = "None"
            /\ ~dropped
            /\ Len(evq) <= 1
            /\ evq # <<>> => Due(Head(evq))

(* The program stops a stream before it issues anything else.              *)
Careful == Streaming \subseteq {"Pause", "Init"}

LEMMA IntsDiffer ==
  /\ INT1 # INT2 /\ INT1 # INT3 /\ INT1 # INT5 /\ INT2 # INT3 /\ INT2 # INT5 /\ INT3 # INT5
  /\ INT1 # {} /\ INT2 # {} /\ INT3 # {} /\ INT5 # {}
  <1>1. /\ 0 \in INT1 /\ 0 \notin INT2 /\ 0 \in INT3 /\ 0 \in INT5
        /\ 1 \notin INT1 /\ 1 \in INT2 /\ 1 \in INT3 /\ 1 \notin INT5
        /\ 2 \notin INT1 /\ 2 \in INT5
    BY DEF INT1, INT2, INT3, INT5
  <1> QED BY <1>1

(* An event pushed onto an empty queue is alone in it.                     *)
LEMMA PushAlone ==
  ASSUME NEW e \in Event
  PROVE  Len(Push(<<>>, e)) = 1 /\ Head(Push(<<>>, e)) = e
  <1>1. <<>> \in Seq(Event) /\ Len(<<>>) = 0
    BY EmptySeq
  <1>2. Push(<<>>, e) = Append(<<>>, e)
    BY <1>1 DEF Push
  <1>3. Append(<<>>, e) \in Seq(Event) /\ Len(Append(<<>>, e)) = 1 /\ Append(<<>>, e)[1] = e
    BY <1>1, AppendProperties
  <1>4. Append(<<>>, e) # <<>>
    BY <1>1, <1>3
  <1> QED BY <1>2, <1>3, <1>4, HeadTailProperties

(* The first event of a command announces an answer that is in the FIFO.   *)
LEMMA FirstEventShape ==
  ASSUME NEW c \in Commands, NEW p
  PROVE  /\ FirstEvent(c, p).cmd = c
         /\ FirstEvent(c, p).phase = FirstPhase(c)
         /\ FirstPhase(c) \in {"ACK", "READ_DATA"} \cup AckPhases
         /\ FirstEvent(c, p).int \in {INT3, INT5}
         /\ FirstPhase(c) # "ACK" => FirstEvent(c, p).int = INT3
         /\ AnswerSize(c, p) > 0
  <1>1. FirstPhase(c) \in {"ACK", "READ_DATA"} \cup AckPhases
    BY DEF FirstPhase, AckPhases, AckPhase, TwoPart
  <1>2. FirstPhase(c) # "ACK" => c # "Unknown" /\ c # "Test"
    BY DEF FirstPhase
  <1>3. AnswerSize(c, p) > 0
    BY DEF AnswerSize, TestSize
  <1> QED BY <1>1, <1>2, <1>3 DEF FirstEvent, FirstInt

(* Which commands the first phases belong to.                              *)
LEMMA FirstPhaseOwner ==
  ASSUME NEW c \in Commands
  PROVE  /\ FirstPhase(c) \in AckPhases => c \in TwoPartCmds
         /\ FirstPhase(c) = "READ_DATA" => c \in {"Read", "Play"}
  BY DEF FirstPhase, AckPhases, AckPhase, TwoPart, TwoPartCmds
-----------------------------------------------------------------------------
LEMMA InitConversation == DriverInit => Conversation
  <1> SUFFICES ASSUME DriverInit PROVE Conversation
    OBVIOUS
  <1>1. evq = <<>> /\ pending = "None" /\ ~dropped
    BY DEF DriverInit, Init
  <1> QED BY <1>1, EmptySeq DEF Conversation

LEMMA ExecuteDropped ==
  ASSUME NEW c, NEW p, Execute(c, p)
  PROVE  dropped' = (dropped \/ Len(QueueBefore(c)) >= QUEUE_SIZE)
  BY DEF Execute

LEMMA IssueKeeps ==
  ASSUME IInv, Conversation, Careful, NEW c \in Commands, Issue(c)
  PROVE  Conversation'
  <1>1. /\ Polite /\ job = "None" /\ irq_flag = {} /\ job' = c
        /\ stream => c \in {"Pause", "Init"}
    BY DEF Issue, Polite, Careful
  <1>2. Execute(c, param) /\ UNCHANGED <<irq_flag, pending>>
    BY <1>1 DEF Issue, WriteCommand
  <1>3. QueueBefore(c) = <<>>
    <2>1. CASE c \in {"Init", "Pause"}
      BY <2>1 DEF QueueBefore
    <2>2. CASE c \notin {"Init", "Pause"}
      <3>1. ~stream
        BY <1>1, <2>2
      <3>2. evq # <<>> => Head(evq).cmd \in Commands
        BY TailLemma DEF IInv, TypeOK, QueueTypes, Event
      <3>3. evq # <<>> => ~Due(Head(evq))
        BY <1>1, <3>1, <3>2 DEF Due, FirstDue, SecondDue, SectorDue, Commands, TwoPartCmds
      <3> QED BY <1>1, <2>2, <3>3 DEF Conversation, QueueBefore
    <2> QED BY <2>1, <2>2
  <1>4. PICK e \in Event : e = FirstEvent(c, param)
    BY FirstEventLemma
  <1>5. evq' = Push(<<>>, e) /\ resp' = Answer(c, AnswerSize(c, param))
    BY <1>2, <1>3, <1>4 DEF Execute
  <1>6. ~dropped'
    <2>1. dropped' = (dropped \/ Len(QueueBefore(c)) >= QUEUE_SIZE)
      BY <1>2, ExecuteDropped
    <2>2. ~dropped /\ ~(Len(QueueBefore(c)) >= QUEUE_SIZE)
      BY <1>1, <1>3, EmptySeq DEF Conversation
    <2> QED BY <2>1, <2>2
  <1>7. Len(evq') = 1 /\ Head(evq') = e
    BY <1>4, <1>5, PushAlone
  <1>8. FirstDue(e)'
    BY <1>1, <1>2, <1>4, <1>5, FirstEventShape DEF FirstDue, Answer
  <1>9. Due(Head(evq))'
    BY <1>7, <1>8 DEF Due
  <1> QED BY <1>1, <1>2, <1>6, <1>7, <1>9 DEF Conversation

LEMMA AcknowledgeKeeps ==
  ASSUME IInv, Conversation, Acknowledge
  PROVE  Conversation'
  <1>1. Polite /\ pending = "None" /\ irq_flag # {} /\ irq_flag \in SUBSET (0 .. 4)
    BY DEF Acknowledge, Conversation, IInv, TypeOK, IrqTypes
  <1>2. irq_flag' = {} /\ UNCHANGED <<pending, evq, dropped>>
    BY <1>1 DEF Acknowledge, WriteIrqFlag
  <1>3. job' \in {job, "None"}
    BY DEF Acknowledge
  <1>4. ASSUME evq # <<>> PROVE Due(Head(evq))'
    <2> DEFINE e == Head(evq)
    <2>1. SecondDue(e) \/ SectorDue(e)
      BY <1>1, <1>4 DEF Conversation, Due, FirstDue
    <2>2. e' = e
      BY <1>2
    <2> HIDE DEF e
    <2>3. CASE SecondDue(e)
      <3>1. irq_flag = INT3 /\ job \in TwoPartCmds
        BY <1>1, <2>3 DEF SecondDue
      <3>2. job' = job
        BY <3>1, IntsDiffer DEF Acknowledge
      <3>3. SecondDue(e)'
        BY <1>2, <2>2, <2>3, <3>1, <3>2 DEF SecondDue
      <3> QED BY <3>3 DEF Due, e
    <2>4. CASE SectorDue(e) /\ irq_flag = INT1
      <3>1. job = "None" /\ stream
        BY <2>4, IntsDiffer DEF SectorDue
      <3>2. job' = "None" /\ stream'
        BY <2>4, <3>1, IntsDiffer DEF Acknowledge
      <3>3. SectorDue(e)'
        BY <1>2, <2>2, <2>4, <3>2 DEF SectorDue
      <3> QED BY <3>3 DEF Due, e
    <2>5. CASE SectorDue(e) /\ irq_flag # INT1
      <3>1. job \in {"Read", "Play"} /\ irq_flag = INT3
        BY <1>1, <2>5 DEF SectorDue
      <3>2. job' = "None" /\ stream'
        <4>1. job \notin TwoPartCmds
          BY <3>1 DEF TwoPartCmds
        <4>2. job' = "None"
          BY <3>1, <4>1 DEF Acknowledge
        <4>3. stream' = TRUE
          BY <3>1, IntsDiffer DEF Acknowledge
        <4> QED BY <4>2, <4>3
      <3>3. SectorDue(e)'
        BY <1>2, <2>2, <2>5, <3>2 DEF SectorDue
      <3> QED BY <3>3 DEF Due, e
    <2> QED BY <2>1, <2>3, <2>4, <2>5
  <1> QED BY <1>1, <1>2, <1>4 DEF Conversation

LEMMA ProgramConverses ==
  ASSUME IInv, Conversation, Careful, DriverStep \/ AnyStep
  PROVE  Conversation'
  <1>1. ASSUME NEW v \in ParamVals, GiveParam(v) PROVE Conversation'
    BY <1>1 DEF GiveParam, WriteParam, driver, Conversation, Polite, Due, FirstDue, SecondDue,
                SectorDue
  <1>2. ASSUME TakeResponse PROVE Conversation'
    <2>1. /\ irq_flag # {}
          /\ UNCHANGED <<irq_flag, evq, pending, dropped, job, stream>>
      BY <1>2 DEF TakeResponse, ReadResponse, driver
    <2> QED BY <2>1 DEF Conversation, Polite, Due, FirstDue, SecondDue, SectorDue
  <1>3. ASSUME AnyStep PROVE Conversation'
    BY <1>3 DEF AnyStep, driver, Conversation, Polite
  <1>4. ASSUME NEW c \in Issued, Issue(c) PROVE Conversation'
    BY <1>4, IssueKeeps, StreamingAssumption
  <1> QED BY <1>1, <1>2, <1>3, <1>4, AcknowledgeKeeps DEF DriverStep

(* The only queued event fires; what it pushes is then the only one.       *)
LEMMA LastEvent ==
  ASSUME IInv, Conversation, Polite, evq # <<>>
  PROVE  /\ Head(evq) \in Event /\ Head(evq).cmd \in Commands
         /\ Due(Head(evq))
         /\ Tail(evq) = <<>>
  <1>1. evq \in Seq(Event) /\ Len(evq) <= 1 /\ Due(Head(evq))
    BY DEF IInv, TypeOK, QueueTypes, Conversation
  <1>2. Tail(evq) \in Seq(Event) /\ Len(Tail(evq)) = Len(evq) - 1 /\ Head(evq) \in Event
    BY <1>1, HeadTailProperties
  <1>3. Len(Tail(evq)) = 0
    BY <1>1, <1>2, EmptySeq, LenProperties
  <1> QED BY <1>1, <1>2, <1>3, EmptySeq DEF Event

LEMMA HandlerConverses ==
  ASSUME IInv, Conversation, SchedulerEvent /\ UNCHANGED driver
  PROVE  Conversation'
  <1>1. UNCHANGED <<job, stream, pending, dropped>>
    BY DEF driver, SchedulerEvent, FireAck, FireTwoPartAck, FireDone, FireReadData,
           FireSector, HandlerFrame
  <1> SUFFICES ASSUME Polite, pending = "None", ~dropped
               PROVE  Len(evq') <= 1 /\ (evq' # <<>> => Due(Head(evq))')
    BY <1>1 DEF Conversation, Polite
  <1>0. evq # <<>>
    BY DEF SchedulerEvent, FireAck, FireTwoPartAck, FireDone, FireReadData, FireSector, Fires
  <1>2. PICK ev \in Event : ev = Head(evq)
    BY <1>0, LastEvent
  <1>3. Due(ev) /\ ev.cmd \in Commands /\ Tail(evq) = <<>>
    BY <1>0, <1>2, LastEvent
  <1>4. ASSUME evq' = <<>>
        PROVE  Len(evq') <= 1 /\ (evq' # <<>> => Due(Head(evq))')
    BY <1>4, EmptySeq
  <1>5. ASSUME NEW e \in Event, evq' = Push(<<>>, e), Due(e)'
        PROVE  Len(evq') <= 1 /\ (evq' # <<>> => Due(Head(evq))')
    <2>1. Len(evq') = 1 /\ Head(evq') = e
      BY <1>5, PushAlone
    <2>2. Len(evq') <= 1
      BY <2>1
    <2>3. FirstDue(e)' => FirstDue(Head(evq))'
      BY <2>1 DEF FirstDue
    <2>4. SecondDue(e)' => SecondDue(Head(evq))'
      BY <2>1 DEF SecondDue
    <2>5. SectorDue(e)' => SectorDue(Head(evq))'
      BY <2>1 DEF SectorDue
    <2> QED BY <1>5, <2>2, <2>3, <2>4, <2>5 DEF Due
  <1>6. AckPhases \cap ({"ACK", "READ_DATA", "SECTOR"} \cup DonePhases) = {}
    BY DEF AckPhases, AckPhase, DonePhases, DonePhase, TwoPart
  <1>7. DonePhases \cap {"ACK", "READ_DATA", "SECTOR"} = {}
    BY DEF DonePhases, DonePhase, TwoPart
  <1>10. ASSUME FireAck \/ \E k \in TwoPart : FireDone(k) PROVE evq' = <<>>
    BY <1>3, <1>10 DEF FireAck, FireDone, Rearm
  <1>11. ASSUME NEW k \in TwoPart, FireTwoPartAck(k)
         PROVE  Len(evq') <= 1 /\ (evq' # <<>> => Due(Head(evq))')
    <2>1. /\ ev.phase = AckPhase[k] /\ irq_flag' = ev.int
          /\ evq' = Push(<<>>, DoneEvent(k, ev.cmd))
      BY <1>2, <1>3, <1>11 DEF FireTwoPartAck, Fires, Commit, Rearm
    <2>2. ev.phase \in AckPhases
      BY <2>1 DEF AckPhases
    <2>3. job = ev.cmd /\ ev.phase = FirstPhase(ev.cmd) /\ ev.int = INT3
      BY <1>3, <1>6, <2>2 DEF Due, FirstDue, SecondDue, SectorDue
    <2>4. PICK d \in Event : d = DoneEvent(k, ev.cmd)
      BY <1>3, DoneEventLemma
    <2>5. d.phase \in DonePhases /\ d.int \in {INT2, INT5}
      BY <2>4 DEF DoneEvent, DonePhases
    <2>6. SecondDue(d)'
      BY <1>1, <1>3, <2>1, <2>2, <2>3, <2>5, FirstPhaseOwner DEF SecondDue
    <2> QED BY <1>5, <2>1, <2>4, <2>6 DEF Due
  <1>12. ASSUME FireReadData
         PROVE  Len(evq') <= 1 /\ (evq' # <<>> => Due(Head(evq))')
    <2>1. /\ ev.phase = "READ_DATA" /\ irq_flag' = ev.int
          /\ evq' = Push(<<>>, SectorEvent(<<SectorPeriod(mode), read_seek>>, ev.cmd))
      BY <1>2, <1>3, <1>12 DEF FireReadData, Fires, Commit, Rearm
    <2>2. job = ev.cmd /\ ev.phase = FirstPhase(ev.cmd) /\ ev.int = INT3
      BY <1>3, <1>7, <2>1 DEF Due, FirstDue, SecondDue, SectorDue
    <2>3. read_seek \in BOOLEAN
      BY DEF IInv, TypeOK, DriveTypes
    <2>4. PICK d \in Event : d = SectorEvent(<<SectorPeriod(mode), read_seek>>, ev.cmd)
      BY <1>3, <2>3, PeriodLemma, SectorEventLemma
    <2>5. SectorDue(d)'
      BY <1>1, <1>3, <2>1, <2>2, <2>4, FirstPhaseOwner DEF SectorDue, SectorEvent
    <2> QED BY <1>5, <2>1, <2>4, <2>5 DEF Due
  <1>13. ASSUME FireSector
         PROVE  Len(evq') <= 1 /\ (evq' # <<>> => Due(Head(evq))')
    <2>1. ev.phase = "SECTOR"
      BY <1>2, <1>13 DEF FireSector, Fires
    <2>2. SectorDue(ev)
      BY <1>3, <1>6, <1>7, <2>1 DEF Due, FirstDue, SecondDue
    <2>3. CASE SectorDeferred
      <3>1. PICK d \in Event : d = SectorEvent(AckDelay, ev.cmd)
        BY <1>3, DelayLemma, SectorEventLemma
      <3>2. evq' = Push(<<>>, d) /\ UNCHANGED irq_flag
        BY <1>2, <1>3, <2>3, <3>1 DEF SectorDeferred, Rearm
      <3>3. SectorDue(d)'
        BY <1>1, <2>2, <3>1, <3>2 DEF SectorDue, SectorEvent
      <3> QED BY <1>5, <3>2, <3>3 DEF Due
    <2>4. CASE SectorIgnored
      BY <1>3, <1>4, <2>4 DEF SectorIgnored, Rearm
    <2>5. CASE SectorNoDisc
      <3>1. PICK d \in Event :
              d = [int |-> INT5, phase |-> "ACK", delay |-> AckDelay, cmd |-> ev.cmd]
        BY <1>3, DelayLemma DEF Event, Phases
      <3>2. /\ evq' = Push(<<>>, d) /\ irq_flag = {} /\ UNCHANGED irq_flag
            /\ resp' = Answer(ev.cmd, 2)
        BY <1>2, <1>3, <2>5, <3>1 DEF SectorNoDisc, Rearm
      <3>3. stream'
        BY <1>1, <2>2, <3>2, IntsDiffer DEF SectorDue
      <3>4. FirstDue(d)'
        BY <3>1, <3>2, <3>3 DEF FirstDue, Answer
      <3> QED BY <1>5, <3>2, <3>4 DEF Due
    <2>6. CASE SectorDelivered
      <3>1. PICK d \in Event : d = SectorEvent(<<SectorPeriod(mode), FALSE>>, ev.cmd)
        BY <1>3, PeriodLemma, SectorEventLemma
      <3>2. evq' = Push(<<>>, d) /\ irq_flag = {} /\ irq_flag' = INT1
        BY <1>2, <1>3, <2>6, <3>1 DEF SectorDelivered, Rearm, Commit
      <3>3. job = "None" /\ stream
        BY <2>2, <3>2, IntsDiffer DEF SectorDue
      <3>4. SectorDue(d)'
        BY <1>1, <3>1, <3>2, <3>3 DEF SectorDue, SectorEvent
      <3> QED BY <1>5, <3>2, <3>4 DEF Due
    <2> QED BY <1>13, <2>3, <2>4, <2>5, <2>6 DEF FireSector
  <1> QED BY <1>4, <1>10, <1>11, <1>12, <1>13 DEF SchedulerEvent
-----------------------------------------------------------------------------
(* What the controller guarantees does not depend on the program: it holds *)
(* under the driver as well.                                               *)
LEMMA DriverKeeps == IInv /\ BusyHasEvent /\ [DriverNext]_DriverVars => IInv' /\ BusyHasEvent'
  <1> SUFFICES ASSUME IInv, BusyHasEvent, [DriverNext]_DriverVars
               PROVE  IInv' /\ BusyHasEvent'
    OBVIOUS
  <1>1. CASE DriverStep \/ AnyStep
    BY <1>1, DriverAccess, AccessKeeps, AccessBusy
  <1>2. CASE SchedulerEvent
    BY <1>2, HandlerKeeps, HandlerBusy
  <1>3. CASE UNCHANGED DriverVars
    <2>1. UNCHANGED vars
      BY <1>3 DEF DriverVars
    <2>2. BusyHasEvent'
      BY <2>1 DEF vars, drive, BusyHasEvent, Queued
    <2> QED BY <2>1, <2>2, StutterKeeps
  <1> QED BY <1>1, <1>2, <1>3 DEF DriverNext

LEMMA DriverInvariance == DriverSpec => [](IInv /\ BusyHasEvent)
  <1>1. DriverInit => IInv /\ BusyHasEvent
    <2>1. DriverInit => IInv
      BY InitIInv DEF DriverInit
    <2>2. DriverInit => BusyHasEvent
      BY DEF DriverInit, Init, BusyHasEvent
    <2> QED BY <2>1, <2>2
  <1> QED BY <1>1, DriverKeeps, PTL DEF DriverSpec

(* The event queue never holds more than one event of a careful program.   *)
LEMMA Conversing == ASSUME Careful PROVE DriverSpec => []Conversation
  <1>1. IInv /\ Conversation /\ [DriverNext]_DriverVars => Conversation'
    <2> SUFFICES ASSUME IInv, Conversation, [DriverNext]_DriverVars PROVE Conversation'
      OBVIOUS
    <2>1. CASE UNCHANGED DriverVars
      BY <2>1 DEF DriverVars, vars, driver, Conversation, Polite, Due, FirstDue, SecondDue,
                  SectorDue
    <2> QED BY <2>1, ProgramConverses, HandlerConverses DEF DriverNext
  <1> QED BY <1>1, InitConversation, DriverInvariance, PTL DEF DriverSpec

(* The interrupt that the handler raises finds its answer in the FIFO.     *)
LEMMA InterruptAnswered ==
  ASSUME IInv, Conversation, Polite, SchedulerEvent, irq_flag' # irq_flag
  PROVE  /\ resp'.left > 0
         /\ resp'.of = IF irq_flag' = INT1 THEN "Sector" ELSE Head(evq).cmd
  <1>0. evq # <<>>
    BY DEF SchedulerEvent, FireAck, FireTwoPartAck, FireDone, FireReadData, FireSector, Fires
  <1>1. Due(Head(evq)) /\ Head(evq).cmd \in Commands
    BY <1>0, LastEvent
  <1>2. /\ AckPhases \cap {"SECTOR"} = {} /\ DonePhases \cap {"ACK", "READ_DATA", "SECTOR"} = {}
        /\ AckPhases \cap DonePhases = {}
    BY DEF AckPhases, AckPhase, DonePhases, DonePhase, TwoPart
  <1>3. ASSUME Fires({"ACK", "READ_DATA"} \cup AckPhases), Commit(Head(evq).int), UNCHANGED resp
        PROVE  resp'.left > 0 /\ resp'.of = Head(evq).cmd /\ irq_flag' # INT1
    <2>1. FirstDue(Head(evq))
      BY <1>1, <1>2, <1>3 DEF Due, SecondDue, SectorDue, Fires
    <2> QED BY <1>3, <2>1, IntsDiffer DEF FirstDue, Commit
  <1>4. CASE FireAck \/ FireReadData
    <2>1. Fires({"ACK", "READ_DATA"} \cup AckPhases) /\ Commit(Head(evq).int) /\ UNCHANGED resp
      BY <1>4 DEF FireAck, FireReadData, Fires
    <2> QED BY <1>3, <2>1
  <1>5. ASSUME NEW k \in TwoPart, FireTwoPartAck(k)
        PROVE  resp'.left > 0 /\ resp'.of = Head(evq).cmd /\ irq_flag' # INT1
    <2>1. AckPhase[k] \in AckPhases
      BY DEF AckPhases
    <2>2. Fires({"ACK", "READ_DATA"} \cup AckPhases) /\ Commit(Head(evq).int) /\ UNCHANGED resp
      BY <1>5, <2>1 DEF FireTwoPartAck, Fires
    <2> QED BY <1>3, <2>2
  <1>6. ASSUME NEW k \in TwoPart, FireDone(k)
        PROVE  resp'.left > 0 /\ resp'.of = Head(evq).cmd /\ irq_flag' # INT1
    <2>1. DonePhase[k] \in DonePhases
      BY DEF DonePhases
    <2>2. Head(evq).phase \in DonePhases
      BY <1>6, <2>1 DEF FireDone, Fires
    <2>3. SecondDue(Head(evq))
      BY <1>1, <1>2, <2>2 DEF Due, FirstDue, SectorDue
    <2>4. irq_flag' # INT1
      BY <1>6, <2>3, IntsDiffer DEF FireDone, Commit, SecondDue
    <2>5. resp' = Answer(Head(evq).cmd, IF k = "GETID" THEN 8 ELSE 1)
      BY <1>6 DEF FireDone
    <2> QED BY <2>4, <2>5 DEF Answer
  <1>7. CASE FireSector
    <2>1. CASE SectorDeferred \/ SectorIgnored \/ SectorNoDisc
      BY <2>1 DEF SectorDeferred, SectorIgnored, SectorNoDisc
    <2>2. CASE SectorDelivered
      BY <2>2 DEF SectorDelivered, Answer, Commit
    <2> QED BY <1>7, <2>1, <2>2 DEF FireSector
  <1> QED BY <1>4, <1>5, <1>6, <1>7 DEF SchedulerEvent

(* Whatever the timing of a program that stops a stream before it issues   *)
(* another command: when an interrupt is raised, the response FIFO holds   *)
(* the whole answer of the command, or the sector, that it is for.         *)
THEOREM AnswersComeWithInterrupts ==
  ASSUME Careful PROVE DriverSpec => AnswerWithInterrupt
  <1>1. IInv /\ Conversation /\ [DriverNext]_DriverVars =>
          [(Polite /\ SchedulerEvent /\ irq_flag' # irq_flag)
             => /\ resp'.left > 0
                /\ resp'.of = IF irq_flag' = INT1 THEN "Sector" ELSE Head(evq).cmd]_DriverVars
    BY InterruptAnswered
  <1> QED BY <1>1, DriverInvariance, Conversing, PTL DEF DriverSpec, AnswerWithInterrupt

(* Nor does such a program ever make queue_event discard an event.         *)
THEOREM CarefulLosesNothing ==
  ASSUME Careful PROVE DriverSpec => []NothingDiscarded
  <1>1. Conversation => NothingDiscarded
    BY DEF Conversation, NothingDiscarded
  <1> QED BY <1>1, Conversing, PTL
=============================================================================
