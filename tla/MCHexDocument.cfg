SPECIFICATION HexSpec
CONSTANTS
  Original <- MCOriginal
  Clips <- MCClips
  BaseGap = 3
  NibbleSize = 2
  Digits = {1}
  Letters = {2}
  Line = 2
  Parts = {"hex", "ascii"}
  MaxCommands = 3
INVARIANTS UndoKeepsHistory DigitsFillNibbles
CHECK_DEADLOCK FALSE
