SPECIFICATION RingSpec
CONSTANTS
  Values = {v1, v2}
  MaxSize = 3
INVARIANTS RingTypeOK RingShape
PROPERTY ImplementsFifo
