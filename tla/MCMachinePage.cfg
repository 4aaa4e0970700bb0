SPECIFICATION Spec
CONSTANTS
  Byte <- MCByte
  MemSize <- MCMemSize
  PageSize = 4
  InstructionSize <- MCInstructionSize
  Kind <- MCKind
  Entry = 2
  Programs <- MCPrograms
  Puts <- MCPuts
  MaxWrites = 1
INVARIANT FetchWithinPage
