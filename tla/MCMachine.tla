------------------------------ MODULE MCMachine ------------------------------
(***************************************************************************)
(* Machine on two pages of four bytes, with instructions of two bytes.  A  *)
(* first program has at most MCVaried bytes that are not zero; stores and  *)
(* the host's writes reach other memories from there.                      *)
(***************************************************************************)
EXTENDS Machine, FiniteSets

MCVaried == 2
MCMemSize == 8
MCInstructionSize == 2
MCByte == 0..2

MCPrograms ==
  {p \in [0..MCMemSize - 1 -> MCByte] :
     Cardinality({a \in DOMAIN p : p[a] # 0}) <= MCVaried}

\* A first byte that is not zero decides alone; a write of one byte can change
\* the kind of an instruction, or of two that overlap.
MCKind == [w \in [0..MCInstructionSize - 1 -> MCByte] |->
             CASE w[0] = 1 -> "jump"
               [] w[0] = 2 -> "undef"
               [] w[0] = 0 /\ w[1] = 1 -> "trap"
               [] w[0] = 0 /\ w[1] = 2 -> "store"
               [] OTHER -> "alu"]

\* Any byte anywhere, or an instruction's bytes cleared.
MCPuts ==
  UNION {[{a} -> MCByte] : a \in 0..MCMemSize - 1}
  \cup {[b \in a..a + MCInstructionSize - 1 |-> 0] : a \in 0..MCMemSize - MCInstructionSize}
==============================================================================
