--------------------------- MODULE MCSystemClock ---------------------------
(* A frame of three or four lines, eight to nine cycles each, against a    *)
(* quantum of five: slices end at every kind of bound.  The line phase     *)
(* wraps around at 40, so that a beam left past its edge comes back.       *)
EXTENDS SystemClock
MCModes  == {"NTSC", "PAL"}
MCLines  == [NTSC |-> 3, PAL |-> 4]
MCFrame  == [NTSC |-> 25, PAL |-> 35]
MCHBlank == [NTSC |-> 18, PAL |-> 26]
=============================================================================
