-------------------------- MODULE MCCdromDriver ---------------------------
(* TLC instances of CdromDriver.  In MCCdromDriver_commands the polite     *)
(* program uses every command and the other one those that start, stop and *)
(* end something in the drive and one that does neither, with and without  *)
(* a disc.  In MCCdromDriver_overflow a disc is in and the program repeats *)
(* Read.                                                                   *)
EXTENDS CdromDriver

MCCareful    == {"Pause", "Init"}
MCCmds       == {"Getstat", "Seek", "Read", "Pause"}
MCAcks       == {0 .. 4, {0}}
MCEnables    == {{}, 0 .. 4}
=============================================================================
