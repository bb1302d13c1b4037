SPECIFICATION LiveTextSpec
CONSTANTS
  Lines <- AllLines
  Stray <- StrayTexts
  LineAt = 64
  None = None
  Joint = Joint
CONSTRAINT Paced
CHECK_DEADLOCK FALSE
INVARIANTS ShownAsTyped ArgumentsFresh TextInv
PROPERTIES NothingUnbuilt LoginAnswered
