---------------------------- MODULE CdromDriver ----------------------------
(***************************************************************************)
(* The controller of module Cdrom driven by a polite program, the way the  *)
(* BIOS and the scenarios of tests/cdrom_test.c drive it: one command at a *)
(* time, the next one only when the last one has had all its responses;    *)
(* on an interrupt the response is read to the end, then acknowledged.     *)
(* The program may be slow: events can fire while it handles an interrupt. *)
(*                                                                         *)
(* It issues commands of the set Issued, and while sectors stream in only  *)
(* those that are also in Streaming.  With Streaming = {Pause, Init} it is *)
(* a careful program that stops the stream first.                          *)
(*                                                                         *)
(* Or the program is none of this (job = "Any"): it writes and reads what  *)
(* it likes when it likes, the actions Program of module Cdrom.            *)
(***************************************************************************)
EXTENDS Cdrom

CONSTANTS
  Issued,     \* commands a polite program issues
  Streaming,  \* those it issues while the drive streams sectors too
  Discs       \* whether a disc is in the drive: the cases considered

ASSUME StreamingAssumption ==
  Issued \subseteq Commands /\ Streaming \subseteq Commands /\ Discs \subseteq BOOLEAN

VARIABLES
  job,      \* the command being waited for, or "None"; or "Any"
  stream    \* a Read or Play has been acknowledged and not been stopped

driver == <<job, stream>>

TwoPartCmds == {"Init", "Seek", "GetID", "ReadTOC", "Pause"}

Polite == job # "Any"

GiveParam(v) ==
  /\ job = "None" /\ irq_flag = {}
  /\ WriteParam(v)
  /\ UNCHANGED driver

Issue(c) ==
  /\ job = "None" /\ irq_flag = {}
  /\ stream => c \in Streaming
  /\ WriteCommand(c)
  /\ job' = c
  /\ stream' = (stream /\ c \notin {"Pause", "Init", "Stop"})

TakeResponse ==
  /\ Polite /\ irq_flag # {}
  /\ ReadResponse
  /\ UNCHANGED driver

(* The handler acknowledges once the response is empty; INT1 is a sector,  *)
(* INT2 the second response, INT3 the first one, INT5 an error.            *)
Acknowledge ==
  /\ Polite /\ irq_flag # {} /\ resp.left = 0
  /\ WriteIrqFlag(0 .. 4, FALSE)
  /\ LET final == \/ irq_flag \in {INT2, INT5}
                  \/ irq_flag = INT3 /\ job \notin TwoPartCmds
     IN
     /\ job' = IF final THEN "None" ELSE job
     /\ stream' = CASE irq_flag = INT3 /\ job \in {"Read", "Play"} -> TRUE
                    [] irq_flag = INT5 -> FALSE
                    [] OTHER -> stream

DriverStep ==
  \/ \E v \in ParamVals : GiveParam(v)
  \/ \E c \in Issued : Issue(c)
  \/ TakeResponse
  \/ Acknowledge

AnyStep == ~Polite /\ Program /\ UNCHANGED driver

DriverInit ==
  Init /\ disc \in Discs /\ job \in {"None", "Any"} /\ stream = FALSE

DriverNext == DriverStep \/ AnyStep \/ (SchedulerEvent /\ UNCHANGED driver)

DriverVars == <<vars, driver>>

(* Time passes, and the interrupt handler of a polite program gets to run. *)
DriverSpec ==
  /\ DriverInit /\ [][DriverNext]_DriverVars
  /\ WF_DriverVars(SchedulerEvent /\ UNCHANGED driver)
  /\ WF_DriverVars(TakeResponse) /\ WF_DriverVars(Acknowledge)
-----------------------------------------------------------------------------
(* When an interrupt is raised, the response FIFO holds the whole answer   *)
(* of the command, or the sector, that the interrupt is for.               *)
AnswerWithInterrupt ==
  [][(Polite /\ SchedulerEvent /\ irq_flag' # irq_flag)
        => /\ resp'.left > 0
           /\ resp'.of = IF irq_flag' = INT1 THEN "Sector" ELSE Head(evq).cmd]_DriverVars

(* Every command the program issues is answered to the end, with or        *)
(* without a disc, even if the program is too slow to see the first one of *)
(* two responses.                                                          *)
CommandsComplete == job \in Commands ~> job = "None"

(* queue_event never finds the queue full: "shouldn't happen", says        *)
(* evq_push, as long as the program waits for its responses.               *)
NothingDiscarded == Polite => ~dropped
=============================================================================
