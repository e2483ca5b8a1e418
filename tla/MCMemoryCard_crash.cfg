SPECIFICATION Spec
CONSTANTS
  dir = dir
  sector = sector
  blank = blank
  broken = broken
  Sectors = {dir, sector}
  MetaSectors = {dir}
  Contents = {blank, broken}
  Good = {blank}
  Blank = blank
  NoCard = NoCard
  Torn = Torn
  Foreign = Foreign
INVARIANTS CardFileWhole AnsweredSurvives OnlyProgramSpoils
PROPERTY ImplementsStore
