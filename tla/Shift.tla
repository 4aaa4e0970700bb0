-------------------------------- MODULE Shift --------------------------------
(***************************************************************************)
(* The barrel shifter: the templates of shift.hpp and their use for a      *)
(* shifted register operand (armopcode_dataproc_psr.cpp, calcOperand2).    *)
(*                                                                         *)
(* A register has Width bits.  A shift gives the value and what is left in *)
(* *carry, which held `c` before.                                          *)
(***************************************************************************)
EXTENDS Integers

CONSTANTS Width,     \* bits of a register, 32 in the code
          MaxAmount  \* bound: shift amounts taken from a register, 255 in the code

ASSUME WidthAssumption == /\ Width \in Nat /\ Width > 1
                          /\ MaxAmount \in Nat

\* 2^n, as a function, which a proof can unfold.
Pow2[n \in Nat] == IF n = 0 THEN 1 ELSE 2 * Pow2[n - 1]

Half == Pow2[Width - 1]  \* REGVAL_HIGHBIT
Size == 2 * Half         \* REGVAL_MAX + 1
Values == 0..Size - 1

Bit(value, i) == (value \div Pow2[i]) % 2 = 1

LogicalLeftShort(value, amount, c) ==
  [val   |-> IF amount >= Width THEN 0 ELSE (value * Pow2[amount]) % Size,
   carry |-> IF amount \in 1..Width - 1 THEN Bit(value, Width - amount) ELSE c]

LogicalLeft(value, amount, c) ==
  [val   |-> IF amount >= Width THEN 0 ELSE (value * Pow2[amount]) % Size,
   carry |-> CASE amount \in 1..Width -> Bit(value, Width - amount)
               [] amount > Width      -> FALSE
               [] OTHER               -> c]

\* One turn of the loops over the deque of bits: the last bit goes to the carry.
PopBack(s, front) == [val   |-> s.val \div 2 + front * Half,
                      carry |-> s.val % 2 = 1]

LogicalRight(value, amount, c) ==
  LET after[i \in 0..amount] == IF i = 0 THEN [val |-> value, carry |-> c]
                                         ELSE PopBack(after[i - 1], 0)
  IN  after[amount]

ArithmeticRight(value, amount, c) ==
  LET after[i \in 0..amount] ==
        IF i = 0 THEN [val |-> value, carry |-> c]
                 ELSE PopBack(after[i - 1], after[i - 1].val \div Half)
  IN  after[amount]

RotateRight(value, amount, c) ==
  LET moduloAmount == amount % Width
      low  == value \div Pow2[moduloAmount]
      high == (value * Pow2[Width - moduloAmount]) % Size
  IN  [val   |-> IF moduloAmount > 0 THEN high + low ELSE value,
       carry |-> IF amount > 0 THEN Bit(value, (amount - 1) % Width) ELSE c]

RotateRightExtended(value, c) == PopBack([val |-> value, carry |-> c], IF c THEN 1 ELSE 0)

ShiftTypes == {"lsl", "lsr", "asr", "ror"}

Shifter(type, value, amount, c) ==
  CASE type = "lsl" -> LogicalLeft(value, amount, c)
    [] type = "lsr" -> LogicalRight(value, amount, c)
    [] type = "asr" -> ArithmeticRight(value, amount, c)
    [] type = "ror" -> RotateRight(value, amount, c)

\* The amount in the instruction: the encodings of lsr #0 and asr #0 mean 32.
ImmediateAmount(type, amount) ==
  IF type \in {"lsr", "asr"} /\ amount = 0 THEN Width ELSE amount

\* operand2ByRegisterShift, by a register or by an amount in the instruction.
ShiftByRegister(type, value, amount, c) == Shifter(type, value, amount, c)

ShiftByImmediate(type, value, amount, c) ==
  IF type = "ror" /\ amount = 0
  THEN RotateRightExtended(value, c)
  ELSE Shifter(type, value, ImmediateAmount(type, amount), c)
===============================================================================
