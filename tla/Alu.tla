---------------------------------- MODULE Alu ----------------------------------
(***************************************************************************)
(* The flags of the Cpu and the instructions that set them: data           *)
(* processing and msr (armopcode_dataproc_psr.cpp), multiplications        *)
(* (armopcode_impl.cpp); and the conditions that read them                 *)
(* (armopcode.cpp).                                                        *)
(*                                                                         *)
(* The register file is left open: an operand may have any value.  An      *)
(* instruction whose condition is not met, or that does not set the flags, *)
(* changes nothing here and is a stutter.                                  *)
(***************************************************************************)
EXTENDS Shift

VARIABLES flags,  \* Flags, the four condition bits of the CPSR
          \* History, for the properties only:
          last    \* {}, or the instruction that set the flags last, if arithmetic

aluVars == <<flags, last>>

Flags == [n : BOOLEAN, z : BOOLEAN, c : BOOLEAN, v : BOOLEAN]

AddOps      == {"add", "adc", "cmn"}
SubOps      == {"sub", "sbc", "cmp"}
ReversedOps == {"rsb", "rsc"}
ArithmeticOps == AddOps \cup SubOps \cup ReversedOps

\* Operations that go on from the carry of the operation on the lower word.
LowerOp == [op \in {"adc", "sbc", "rsc"} |->
              CASE op = "adc" -> "add" [] op = "sbc" -> "sub" [] op = "rsc" -> "rsb"]

AluInit == /\ flags \in Flags
           /\ last = {}
-------------------------------------------------------------------------------
High(value) == value >= Half

Minuend(op, a, b)    == IF op \in ReversedOps THEN b ELSE a
Subtrahend(op, a, b) == IF op \in ReversedOps THEN a ELSE b

CarriedNever(op, cin) == 0

\* What adc adds and what sbc and rsc take away for the carry.
Carried(op, cin) == IF op = "adc" /\ cin THEN 1
                    ELSE IF op \in {"sbc", "rsc"} /\ ~cin THEN 1 ELSE 0

\* The value written to rd, with rn = a and operand 2 = b.
Result(op, a, b, cin) ==
  IF op \in AddOps
  THEN (a + b + Carried(op, cin)) % Size
  ELSE (Minuend(op, a, b) - Subtrahend(op, a, b) - Carried(op, cin)) % Size

AddCarryLate(a, b) == a > Size - b

\* captureFlagsAdd
AddCarry(a, b) == a > Size - 1 - b

AddOverflow(a, b) == High(a) = High(b) /\ High(a) # High((a + b) % Size)

SubCarryStrict(minuend, subtrahend) == minuend > subtrahend

\* captureFlagsSub: the overflow is that of minuend + ~subtrahend.
SubCarry(minuend, subtrahend) == minuend >= subtrahend

SubOverflowUnsigned(minuend, subtrahend) == High(minuend) # High(subtrahend)

SubOverflow(minuend, subtrahend) ==
  LET negated == Size - 1 - subtrahend
  IN  High(minuend) = High(negated) /\ High(minuend) # High((minuend + negated) % Size)

\* DataProcessingArithmetic::adjustFlags, which ignores the carry that Result includes.
ArithmeticFlags(op, a, b, r) ==
  [n |-> High(r),
   z |-> r = 0,
   c |-> IF op \in AddOps THEN AddCarry(a, b)
         ELSE SubCarry(Minuend(op, a, b), Subtrahend(op, a, b)),
   v |-> IF op \in AddOps THEN AddOverflow(a, b)
         ELSE SubOverflow(Minuend(op, a, b), Subtrahend(op, a, b))]

\* The previous instruction, if `op` goes on from it.
Lower(op) == IF op \in DOMAIN LowerOp
             THEN {[op |-> l.op, a |-> l.a, b |-> l.b, r |-> l.r] :
                     l \in {m \in last : m.op = LowerOp[op]}}
             ELSE {}

Arithmetic(op, a, b) ==
  LET r == Result(op, a, b, flags.c)
  IN  /\ flags' = ArithmeticFlags(op, a, b, r)
      /\ last' = {[op |-> op, a |-> a, b |-> b, cin |-> flags.c, r |-> r,
                   lower |-> Lower(op)]}
-------------------------------------------------------------------------------
\* Operand 2 and its carry: an immediate has none.
Operands2(c) ==
  {[val |-> value, carry |-> c] : value \in Values}
  \cup {ShiftByRegister(type, value, amount, c) :
          type \in ShiftTypes, value \in Values, amount \in 0..MaxAmount}
  \cup {ShiftByImmediate(type, value, amount, c) :
          type \in ShiftTypes, value \in Values, amount \in 0..Width - 1}

\* DataProcessingLogic::adjustFlags; and, eor, orr, mov, bic, mvn, tst and teq
\* can each have any result.
LogicFlags(r, carry) == [flags EXCEPT !.n = High(r), !.z = r = 0, !.c = carry]

Logic == \E o \in Operands2(flags.c), r \in Values :
           /\ flags' = LogicFlags(r, o.carry)
           /\ last' = {}

\* mul, mla: "The C (Carry) flag is set to a meaningless value", bit 2 of the result.
Multiply == \E r \in Values :
              /\ \E c \in {r # 0, FALSE} : flags' = [flags EXCEPT !.n = High(r), !.z = r = 0, !.c = c]
              /\ last' = {}

\* umull, umlal, smull, smlal: C and V are bits of the low word.
MultiplyLong == \E lo \in Values, hi \in Values :
                  /\ \E c, v \in {lo # 0, FALSE} :
                       flags' = [n |-> High(hi), z |-> lo = 0 /\ hi = 0, c |-> c, v |-> v]
                  /\ last' = {}

\* msr to the CPSR, with the flag bits among its sections.
Msr == /\ flags' \in Flags
       /\ last' = {}

AluNext == \/ \E op \in ArithmeticOps, a \in Values, b \in Values : Arithmetic(op, a, b)
           \/ Logic
           \/ Multiply
           \/ MultiplyLong
           \/ Msr

AluSpec == AluInit /\ [][AluNext]_aluVars
-------------------------------------------------------------------------------
MetWithoutZero(condition) == CASE condition = "cs" -> flags.c
                               [] condition = "hi" -> flags.c
                               [] condition = "ge" -> flags.n = flags.v
                               [] condition = "gt" -> flags.n = flags.v
                               [] condition = "eq" -> flags.z

\* Conditional::met, but for the opposites ne, cc, ls, lt, le and al.
Met(condition) == CASE condition = "eq" -> flags.z
                    [] condition = "cs" -> flags.c
                    [] condition = "hi" -> flags.c /\ ~flags.z
                    [] condition = "ge" -> flags.n = flags.v
                    [] condition = "gt" -> ~flags.z /\ flags.n = flags.v

Signed(v) == IF v >= Half THEN v - Size ELSE v

Last(ops) == {l \in last : l.op \in ops}

(* After a comparison, or a subtraction without carry, the conditions      *)
(* eq/ne, cs/cc and hi/ls tell how the unsigned operands compare.          *)
UnsignedConditions ==
  \A l \in Last({"sub", "cmp", "rsb"}) :
    LET x == Minuend(l.op, l.a, l.b)
        y == Subtrahend(l.op, l.a, l.b)
    IN  /\ Met("eq") <=> x = y
        /\ Met("cs") <=> x >= y
        /\ Met("hi") <=> x > y

(* ge/lt and gt/le tell how the signed operands compare, but where the     *)
(* difference is 2^31 or -2^31.                                            *)
SignedConditions ==
  \A l \in Last({"sub", "cmp", "rsb"}) :
    LET x == Signed(Minuend(l.op, l.a, l.b))
        y == Signed(Subtrahend(l.op, l.a, l.b))
    IN  x - y \notin {Half, -Half} => /\ Met("ge") <=> x >= y
                                      /\ Met("gt") <=> x > y

(* After an addition without carry, C is set when the unsigned sum does    *)
(* not fit a register, V when the signed one does not.                     *)
AddFlagsExact ==
  \A l \in Last({"add", "cmn"}) :
    /\ flags.c <=> l.a + l.b >= Size
    /\ flags.v <=> Signed(l.a) + Signed(l.b) \notin -Half..Half - 1

(* The carry of adc, sbc and rsc leaves out the carry that went in, and is *)
(* right but for operands where that makes the difference.  A chain of     *)
(* three words goes wrong there.                                           *)
ChainedCarry ==
  \A l \in Last({"adc", "sbc", "rsc"}) :
    LET x     == Minuend(l.op, l.a, l.b)
        y     == Subtrahend(l.op, l.a, l.b)
        in    == Carried(l.op, l.cin)
        exact == IF l.op = "adc" THEN x + y + in >= Size ELSE x - y - in >= 0
    IN  \/ flags.c <=> exact
        \/ in = 1 /\ (IF l.op = "adc" THEN x + y = Size - 1 ELSE x = y)

Number(op, a, b) == IF op \in AddOps THEN a + b
                    ELSE Minuend(op, a, b) - Subtrahend(op, a, b)

(* adds and adc, subs and sbc, rsbs and rsc compute the sum or difference  *)
(* of numbers of two words.                                                *)
TwoWordsExact ==
  \A l \in last : \A lower \in l.lower :
    lower.r + Size * l.r
      = (Number(lower.op, lower.a, lower.b) + Size * Number(l.op, l.a, l.b))
          % (Size * Size)
===============================================================================
