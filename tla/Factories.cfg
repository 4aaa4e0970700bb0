SPECIFICATION AskSpec
INVARIANTS OneTakes DecodesToFormat
CHECK_DEADLOCK FALSE
