SPECIFICATION Spec
CONSTANTS
  Byte = {0, 1}
  Zero = 0
  WordSize = 2
  Span <- MCSpan
  PageSize = 3
  MemSize = 8
  Addr <- MCAddr
  Chunks <- MCChunks
  Lengths <- MCLengths
INVARIANT TypeOK
PROPERTY ImplementsFlat
