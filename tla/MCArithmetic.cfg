SPECIFICATION MCSpec
CONSTANTS
  Width = 3
  MaxAmount = 7
  WordSize = 64
  PointerEnd = 8
  Depths = {8, 12, 16, 24}
INVARIANTS UnsignedConditions SignedConditions AddFlagsExact
  ChainedCarry TwoWordsExact ShiftsAsSpecified 
CHECK_DEADLOCK FALSE
