CONSTANTS
  WORDS = 3
  MAX_COUNT = 2
SPECIFICATION ListSpec
INVARIANT SendsTheList
PROPERTY WalkEnds
