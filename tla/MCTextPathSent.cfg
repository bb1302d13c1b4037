SPECIFICATION TextSpec
CONSTANTS
  Lines <- AllLines
  Stray <- StrayTexts
  LineAt = 64
  None = None
  Joint = Joint
CONSTRAINT Paced
CHECK_DEADLOCK FALSE
PROPERTY TextSent
