----------------------------- MODULE SioDriver -----------------------------
(***************************************************************************)
(* A program that uses the serial port the way a BIOS does: it selects slot*)
(* 1, sends the bytes of a frame one by one, reads each response, waits    *)
(* for the acknowledge interrupt before it sends the next, and deselects   *)
(* after the last byte.  It may lose patience while it waits, deselect and *)
(* start this frame or another one again.  Or a program without any such   *)
(* discipline, which does at the port whatever it can.                     *)
(***************************************************************************)
EXTENDS SioPort

CONSTANTS
  Jobs,        \* the frames it exchanges
  MAX_ABORTS   \* how often it loses patience

ASSUME DriverAssumption == Jobs \subseteq Seq(Bytes) \ {<<>>} /\ MAX_ABORTS \in Nat

VARIABLES
  dpc,      \* where the driver is
  job,      \* the frame under way
  next,     \* the index of the byte to send
  left,     \* frames still to be exchanged after this one
  aborts

drv   == <<dpc, job, next, left, aborts>>
dvars == <<sio_vars, drv>>

LastByte == next = Len(job)
Goto(pc) == dpc' = pc /\ UNCHANGED <<job, next, left, aborts>>

DSelect == dpc = "select" /\ Select(TRUE, FALSE) /\ Goto("send")

DSend == dpc = "send" /\ Transmit(job[next]) /\ Goto("read")

DRead == dpc = "read" /\ Receive /\ Goto(IF LastByte THEN "deselect" ELSE "wait")

(* It may look at the status while it waits.                               *)
DPoll == dpc = "wait" /\ ReadStat /\ UNCHANGED drv

DAck == dpc = "wait" /\ istat /\ Acknowledge /\ Goto("clear")

DClear == dpc = "clear" /\ ClearIStat
          /\ dpc' = "send" /\ next' = next + 1 /\ UNCHANGED <<job, left, aborts>>

(* The frame is complete; the next one is chosen.                          *)
DFinish ==
  /\ dpc = "deselect"
  /\ Deselect(TRUE)
  /\ next' = 1
  /\ IF left = 0 THEN dpc' = "done" /\ UNCHANGED <<job, left>>
                 ELSE dpc' = "select" /\ left' = left - 1 /\ job' \in Jobs
  /\ UNCHANGED aborts

(* It loses patience, whether or not the acknowledge is about to come.     *)
DAbort ==
  /\ dpc = "wait" /\ aborts < MAX_ABORTS
  /\ Deselect(TRUE)
  /\ dpc' = "select" /\ next' = 1 /\ aborts' = aborts + 1
  /\ job' \in Jobs
  /\ UNCHANGED left

(* After that it gives up only when nothing is on its way.                 *)
DGiveUp ==
  /\ dpc = "wait" /\ aborts = MAX_ABORTS
  /\ ~istat /\ ~irq_pending /\ irq_cycles_remaining = 0
  /\ Deselect(TRUE)
  /\ Goto("failed")

(* The undisciplined program.                                              *)
DFree == dpc = "free" /\ Program /\ UNCHANGED drv

DInit == /\ SioInit
         /\ dpc \in {"select", "free"} /\ job \in Jobs /\ next = 1 /\ left \in {0, 1} /\ aborts = 0
         /\ dpc = "free" => left = 0 /\ job = CHOOSE j \in Jobs : TRUE

Driver == DSelect \/ DSend \/ DRead \/ DPoll \/ DAck \/ DClear \/ DFinish \/ DAbort \/ DGiveUp \/ DFree
(* The undisciplined program never waits: no byte of its own is shifted out*)
(* between two accesses.                                                   *)
Time   == dpc # "free" /\ (\E c \in Slices : SioStep(c)) /\ UNCHANGED drv

DNext == Driver \/ Time

DSpec == DInit /\ [][DNext]_dvars /\ WF_dvars(Driver) /\ WF_dvars(Time)

-----------------------------------------------------------------------------
(* A frame for a device that is there is exchanged to its last byte: every *)
(* byte but the last is acknowledged, and the one interrupt the driver     *)
(* waits for is neither lost nor taken by an attempt it gave up before.    *)
(* (sio_store8, schedule_ack_irq, sio_step)                                *)
FramesComplete ==
  dpc = "select" ~> (dpc = "done" \/ (dpc = "failed" /\ job[1] = CARD /\ ~memcard_present))
=============================================================================
