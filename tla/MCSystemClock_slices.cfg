CONSTANTS
  Modes <- MCModes
  PowerOn = "NTSC"
  LINES <- MCLines
  FRAME_CYCLES <- MCFrame
  HBLANK_PHASE <- MCHBlank
  VBLANK_LINE = 2
  PHASE_SPACE = 40
  QUANTUM = 5
  Costs = {2, 6}
  Events = {"CDROM_IRQ"}
  Delays = {3, 7}
  SioDelays = {4}
SPECIFICATION FairSpec
INVARIANTS OneEdgePerSlice OneVBlankPerFrame
PROPERTIES EventsOnTime FramesKeepComing
