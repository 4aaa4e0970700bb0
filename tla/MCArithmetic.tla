----------------------------- MODULE MCArithmetic -----------------------------
(***************************************************************************)
(* The instructions that set the flags, one after another (Alu); and       *)
(* computations without a state of their own, called with every argument:  *)
(* the shifter, against what the ARM architecture says of each call, and   *)
(* the frame buffer, against the picture that the guest has drawn.         *)
(***************************************************************************)
EXTENDS Alu, FrameBuffer

CONSTANT Depths  \* the bit depths that guests ask for

VARIABLES call,      \* {} for a run of instructions, or the call and its arguments
          returned   \* whether the call has returned

Shifts == [type : ShiftTypes, value : Values, c : BOOLEAN,
           amount : 0..MaxAmount, by : {"register"}]
          \cup [type : ShiftTypes, value : Values, c : BOOLEAN,
                amount : 0..Width - 1, by : {"immediate"}]

Draws == [width : 0..WordSize - 1, height : 0..WordSize - 1, depth : Depths]

Calls == [of : {"shift"}, args : Shifts] \cup [of : {"draw"}, args : Draws]

MCInit == /\ returned = FALSE
          /\ AluInit
          /\ \/ call = {}
             \/ /\ flags = [f \in {"n", "z", "c", "v"} |-> FALSE]
                /\ \E c \in Calls : call = {c}

Instruction == call = {} /\ AluNext /\ UNCHANGED <<call, returned>>

Return == call # {} /\ ~returned /\ returned' = TRUE /\ UNCHANGED <<aluVars, call>>

MCNext == Instruction \/ Return

MCSpec == MCInit /\ [][MCNext]_<<aluVars, call, returned>>
-------------------------------------------------------------------------------
Returned(what) == IF returned THEN {c.args : c \in {d \in call : d.of = what}} ELSE {}

Shifted(s) == IF s.by = "register"
              THEN ShiftByRegister(s.type, s.value, s.amount, s.c)
              ELSE ShiftByImmediate(s.type, s.value, s.amount, s.c)

\* The amount that the architecture shifts by, for lsl, lsr and asr.
Amount(s) == IF s.by = "immediate" /\ s.type # "lsl" /\ s.amount = 0
             THEN Width ELSE s.amount

Multiplied(s) ==
  LET wide == s.value * Pow2[Amount(s)]
  IN  [val   |-> wide % Size,
       carry |-> IF Amount(s) = 0 THEN s.c ELSE (wide \div Size) % 2 = 1]

Divided(s) ==
  LET number == IF s.type = "lsr" THEN s.value ELSE Signed(s.value)
  IN  [val   |-> (number \div Pow2[Amount(s)]) % Size,
       carry |-> IF Amount(s) = 0 THEN s.c ELSE (number \div Pow2[Amount(s) - 1]) % 2 = 1]

\* The bits of `to` are those of `from` turned round by n places.
Rotated(to, from, n, bits) ==
  \A i \in 0..bits - 1 : Bit(to, i) = Bit(from, (i + n) % bits)

RotatedOk(s) ==
  LET r == Shifted(s)
      Ring(v, carry) == v + (IF carry THEN Size ELSE 0)
  IN  IF s.by = "immediate" /\ s.amount = 0
      THEN Rotated(Ring(r.val, r.carry), Ring(s.value, s.c), 1, Width + 1)
      ELSE /\ Rotated(r.val, s.value, s.amount, Width)
           /\ r.carry = IF s.amount = 0 THEN s.c ELSE Bit(r.val, Width - 1)

(* A shift is what the architecture says, for every value and amount, 0,   *)
(* 32 and more included, and for the encodings in which an immediate 0     *)
(* means something else: lsl multiplies; lsr divides the unsigned and asr  *)
(* the signed number, rounding down; the carry is the last bit to leave.   *)
(* ror turns the bits round a ring of 32, or of 33 with the carry.         *)
ShiftsAsSpecified ==
  \A s \in Returned("shift") :
    /\ s.type = "lsl" => Shifted(s) = Multiplied(s)
    /\ s.type \in {"lsr", "asr"} => Shifted(s) = Divided(s)
    /\ s.type = "ror" => RotatedOk(s)
-------------------------------------------------------------------------------
\* The picture is small enough for the memory below the frame buffer's end.
Modest(r) == 2 * r.width * r.height <= PointerEnd

(* The display shows at (x, y) the pixel that the guest put at the pointer *)
(* it was given plus y times the pitch it was given, for pictures of an    *)
(* even width; the lines of an odd one run on into the image's padding.    *)
(* The copy fits the image whenever Qt has made one, whatever truncates on *)
(* the way; drawPicture does not ask, and to a null image it writes, out   *)
(* of bounds, all that the size is not truncated to 0 of.  The default     *)
(* Canvas finds every byte it looks up in the pixels, as long as their     *)
(* number is not truncated.                                                *)
PictureIsMemory ==
  \A r \in {d \in Returned("draw") : d.depth = HighColor} :
    /\ CopyFits(r) <=> HasImage(r) \/ SizeOf(r) = 0
    /\ 2 * r.width * r.height < WordSize => LookedUp(r) \subseteq DOMAIN Copied(r)
    /\ Modest(r) /\ r.width % 2 = 0 /\ HasImage(r) =>
         \A x \in 0..r.width - 1, y \in 0..r.height - 1 :
           Shown(r, x, y) = (Pointer(r) + y * Pitch(r) + 2 * x) % WordSize
===============================================================================
