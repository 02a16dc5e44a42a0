SPECIFICATION Spec
CONSTANTS
  MaxTicks = 3
  MaxRoute = 12
  MaxQueue = 2
INVARIANTS AnswersItsMeaning ReadAsSent
CHECK_DEADLOCK FALSE
