CONSTANTS
  Units = {0, 1, 2}
  COUNTS = 4
  DIVIDER = 2
  Modes <- MCModes
  Values = {0, 1, 2, 3}
  Slices = {1, 5}
  Ticks = {0, 2}
  MAX_IRQS = 2
SPECIFICATION Spec
INVARIANTS IdealCounter OneShotOnce
