SPECIFICATION Spec
CONSTANTS
  Width = 8
  MaxAmount = 7
  ByteBits = 2
  Instructions <- MCInstructions
  Bases <- MCBases
  MaxSteps = 3
INVARIANTS PopUndoesPush AsSingleTransfers ThrowsBeforeEffect
