--------------------------- MODULE TransfersProofs ---------------------------
(***************************************************************************)
(* The transfers, for bytes and registers of every width, every program    *)
(* and every number of steps.                                              *)
(***************************************************************************)
EXTENDS Transfers, ArithmeticProofs, FiniteSetTheorems

Memories == UNION {[D -> 1..ByteSize - 1] : D \in SUBSET Int}

States == [regs : [Reg -> Values], mem : Memories, jumped : BOOLEAN, thrown : BOOLEAN]

(* The places of a word's bytes.                                           *)
LEMMA Places ==
  /\ ByteSize \in Nat \ {0} /\ \A k \in Nat : Place(k) \in Nat \ {0}
  /\ Place(0) = 1 /\ Place(1) = ByteSize /\ Place(4) = Size
  /\ \A k \in Nat : Place(k + 1) = ByteSize * Place(k)
  /\ ByteSize > 1
<1>1. ByteBits \in Nat \ {0} /\ Width = 4 * ByteBits
  BY TransferAssumption DEF WordBytes
<1>2. \A k \in Nat : k * ByteBits \in Nat /\ (k + 1) * ByteBits = ByteBits + k * ByteBits
  <2>1. ASSUME NEW k \in Nat, NEW b \in Nat
        PROVE  k * b \in Nat /\ (k + 1) * b = b + k * b
    BY SMTT(20)
  <2>. QED BY <1>1, <2>1
<1>3. \A k \in Nat : Place(k) \in Nat \ {0} /\ Place(k + 1) = ByteSize * Place(k)
  <2>1. ASSUME NEW k \in Nat
        PROVE  Place(k) \in Nat \ {0} /\ Place(k + 1) = ByteSize * Place(k)
    <3>1. k * ByteBits \in Nat /\ ByteBits \in Nat
      BY <1>1, <1>2
    <3>2. Pow2[ByteBits + k * ByteBits] = Pow2[ByteBits] * Pow2[k * ByteBits]
      BY <3>1, PowerOfSum
    <3>3. Pow2[k * ByteBits] \in Nat \ {0}
      BY <3>1, Powers
    <3>. QED BY <1>2, <3>2, <3>3 DEF Place, ByteSize
  <2>. QED BY <2>1
<1>4. 0 * ByteBits = 0 /\ 1 * ByteBits = ByteBits /\ 4 * ByteBits = Width
  BY <1>1
<1>5. Place(0) = 1 /\ Place(1) = ByteSize /\ Place(4) = Size
  BY <1>4, Powers, SizeType DEF Place, ByteSize
<1>6. ByteSize > 1 /\ ByteSize \in Nat
  <2>1. ByteBits - 1 \in Nat /\ (ByteBits - 1) + 1 = ByteBits
    BY <1>1
  <2>2. Pow2[(ByteBits - 1) + 1] = 2 * Pow2[ByteBits - 1] /\ Pow2[ByteBits - 1] \in Nat \ {0}
    BY <2>1, Powers
  <2>. QED BY <2>1, <2>2 DEF ByteSize
<1>. QED BY <1>3, <1>5, <1>6

(* A word of four bytes is a number below Size, and they are its digits.   *)
LEMMA Digits ==
  ASSUME NEW n \in Nat \ {0}, NEW b \in 0..n - 1, NEW rest \in Nat
  PROVE  /\ b + n * rest \in Nat
         /\ (b + n * rest) % n = b /\ (b + n * rest) \div n = rest
         /\ \A m \in Nat : rest < m => b + n * rest < n * m
<1>. DEFINE x == b + n * rest
<1>1. n * rest = rest * n /\ rest * n \in Nat /\ b \in Nat
  BY SMTT(20)
<1>2. x \in Int /\ x = rest * n + b /\ x \in Nat
  BY <1>1
<1>3. ASSUME NEW m \in Nat, rest < m
      PROVE  x < n * m
  <2>1. rest * n + n <= m * n
    BY <1>3, Multiples
  <2>2. m * n = n * m /\ m * n \in Nat
    BY SMTT(20)
  <2>. QED BY <1>1, <1>2, <2>1, <2>2
<1>. HIDE DEF x
<1>4. x % n = b /\ x \div n = rest
  BY <1>2, Remainder, Quotient
<1>. QED BY <1>2, <1>3, <1>4 DEF x

(* A byte of memory is one, and a word of memory too.                      *)
LEMMA ByteType ==
  ASSUME NEW m \in Memories, NEW a
  PROVE  Byte(m, a) \in 0..ByteSize - 1
<1>1. PICK D \in SUBSET Int : m \in [D -> 1..ByteSize - 1]
  BY DEF Memories
<1>2. ByteSize \in Nat \ {0}
  BY Places
<1>3. a \in DOMAIN m => m[a] \in 1..ByteSize - 1
  BY <1>1
<1>. QED BY <1>2, <1>3 DEF Byte

(* Dividing three times.                                                   *)
LEMMA DividedThrice ==
  ASSUME NEW x \in Int, NEW n \in Nat \ {0}
  PROVE  (x \div n) \div (n * n) = x \div (n * (n * n))
<1>. DEFINE q == n * n
<1>1. q \in Nat \ {0}
  BY DividedTwice
<1>. HIDE DEF q
<1>2. (x \div n) \div q = x \div (n * q)
  BY <1>1, DividedTwice
<1>. QED BY <1>2 DEF q

(* The number that four bytes make, and its bytes.                         *)
LEMMA WordIsNumber ==
  ASSUME NEW B, B = ByteSize,
         NEW b0 \in 0..B - 1, NEW b1 \in 0..B - 1, NEW b2 \in 0..B - 1, NEW b3 \in 0..B - 1,
         NEW w, w = b0 + B * (b1 + B * (b2 + B * b3))
  PROVE  /\ w \in Values
         /\ w % B = b0
         /\ (w \div Place(1)) % B = b1
         /\ (w \div Place(2)) % B = b2
         /\ (w \div Place(3)) % B = b3
         /\ w % Place(1) = b0
<1>. DEFINE x3 == b3   x2 == b2 + B * x3   x1 == b1 + B * x2
<1>0. B \in Nat \ {0}
  BY Places
<1>1. x3 \in Nat /\ x3 < B
  BY <1>0
<1>. HIDE DEF x3
<1>2. /\ x2 \in Nat /\ x2 < B * B /\ B * B \in Nat
      /\ x2 % B = b2 /\ x2 \div B = x3
  <2>1. B * B \in Nat
    BY <1>0
  <2>. QED BY <1>0, <1>1, <2>1, Digits
<1>. HIDE DEF x2
<1>3. /\ x1 \in Nat /\ x1 < B * (B * B) /\ B * (B * B) \in Nat
      /\ x1 % B = b1 /\ x1 \div B = x2
  <2>1. B * (B * B) \in Nat
    <3>1. ASSUME NEW i \in Nat, NEW j \in Nat
          PROVE  i * j \in Nat
      BY SMTT(20)
    <3>. QED BY <1>0, <1>2, <3>1
  <2>. QED BY <1>0, <1>2, <2>1, Digits
<1>. HIDE DEF x1
<1>4. /\ w \in Nat /\ w < B * (B * (B * B))
      /\ w % B = b0 /\ w \div B = x1
  <2>1. w = b0 + B * x1
    BY DEF x1, x2, x3
  <2>. QED BY <1>0, <1>3, <2>1, Digits
<1>5. Place(1) = B /\ Place(2) = B * B /\ Place(3) = B * (B * B) /\ Size = B * (B * (B * B))
  <2>1. Place(1 + 1) = B * Place(1) /\ Place(2 + 1) = B * Place(2) /\ Place(3 + 1) = B * Place(3)
    BY Places
  <2>2. Place(1) = B /\ Place(4) = Size
    BY Places
  <2>. QED BY <2>1, <2>2
<1>6. \A y \in Int : (y \div B) \div B = y \div (B * B)
  BY <1>0, DividedTwice
<1>7. \A y \in Int : (y \div B) \div (B * B) = y \div (B * (B * B))
  BY <1>0, DividedThrice
<1>8. w \in Int /\ x1 \in Int
  BY <1>3, <1>4
<1>9. w \div (B * B) = x2 /\ w \div (B * (B * B)) = x3
  BY <1>2, <1>3, <1>4, <1>6, <1>7, <1>8
<1>10. x3 % B = b3
  BY <1>0, <1>1, OwnRemainder DEF x3
<1>11. w \in Values
  BY <1>4, <1>5, SizeType DEF Values
<1>. QED BY <1>2, <1>3, <1>4, <1>5, <1>9, <1>10, <1>11

\* What is read from four bytes is a word, and its lowest digit the first byte.
LEMMA WordType ==
  ASSUME NEW m \in Memories, NEW a
  PROVE  /\ Word(m, a) \in Values
         /\ Word(m, a) % Place(1) = Byte(m, a)
  BY ByteType, WordIsNumber DEF Word

(* What a store leaves in the bytes, and that it leaves a memory.          *)
LEMMA PutByte ==
  ASSUME NEW m, NEW a, NEW n, NEW v, NEW x
  PROVE  Byte(Put(m, a, n, v), x)
           = IF x \in a..a + n - 1 THEN (v \div Place(x - a)) % ByteSize ELSE Byte(m, x)
  BY DEF Byte, Put

(* A store leaves a memory.                                                  *)
LEMMA PutType ==
  ASSUME NEW m \in Memories, NEW a \in Int, NEW n \in Nat, NEW v \in Int
  PROVE  Put(m, a, n, v) \in Memories
<1>. DEFINE at == a..a + n - 1
            New(x) == IF x \in at THEN (v \div Place(x - a)) % ByteSize ELSE m[x]
            D == {y \in DOMAIN m \cup at : New(y) # 0}
<1>1. PICK E \in SUBSET Int : m \in [E -> 1..ByteSize - 1]
  BY DEF Memories
<1>2. D \in SUBSET Int
  <2>1. at \subseteq Int /\ DOMAIN m \subseteq Int
    BY <1>1
  <2>. HIDE DEF at, New
  <2>. QED BY <2>1
<1>3. ASSUME NEW x \in D
      PROVE  New(x) \in 1..ByteSize - 1
  <2>1. CASE x \in at
    <3>1. x - a \in Nat
      BY <2>1
    <3>2. Place(x - a) \in Nat \ {0} /\ ByteSize \in Nat \ {0}
      BY <3>1, Places
    <3>3. (v \div Place(x - a)) % ByteSize \in 0..ByteSize - 1
      <4>. DEFINE p == Place(x - a)  B == ByteSize
      <4>. HIDE DEF p, B
      <4>1. p \in Nat \ {0} /\ B \in Nat \ {0}
        BY <3>2 DEF p, B
      <4>2. v \div p \in Int
        BY <4>1, Division
      <4>3. (v \div p) % B \in 0..B - 1
        BY <4>1, <4>2, Division
      <4>. QED BY <4>3 DEF p, B
    <3>. QED BY <2>1, <3>2, <3>3
  <2>2. CASE x \notin at
    BY <1>1, <2>2
  <2>. QED BY <2>1, <2>2
<1>4. Put(m, a, n, v) = [x \in D |-> New(x)]
  BY DEF Put
<1>. HIDE DEF New, D
<1>. QED BY <1>2, <1>3, <1>4 DEF Memories

(* Every shift of a register value is one.                                 *)
LEMMA ShifterType ==
  ASSUME NEW type \in ShiftTypes, NEW value \in Values, NEW amount \in Nat, NEW c \in BOOLEAN
  PROVE  Shifter(type, value, amount, c).val \in Int
<1>1. Size \in Nat \ {0} /\ value \in Int /\ Width \in Nat \ {0}
  BY SizeType, WidthAssumption DEF Values
<1>2. Pow2[amount] \in Nat \ {0}
  BY Powers
<1>3. CASE type = "lsl"
  <2>1. LogicalLeft(value, amount, c).val = (value * Pow2[amount]) % Size
    BY LeftMultiplies
  <2>2. value * Pow2[amount] \in Int
    BY <1>1, <1>2
  <2>3. (value * Pow2[amount]) % Size \in Int
    <3>. DEFINE x == value * Pow2[amount]
    <3>. HIDE DEF x
    <3>1. x % Size \in 0..Size - 1
      BY <1>1, <2>2, Division DEF x
    <3>. QED BY <1>1, <3>1 DEF x
  <2>. QED BY <1>3, <2>1, <2>3 DEF Shifter
<1>4. CASE type = "lsr"
  <2>1. LogicalRight(value, amount, c).val = value \div Pow2[amount]
    BY RightDivides
  <2>. QED BY <1>1, <1>2, <1>4, <2>1, Division DEF Shifter
<1>5. CASE type = "asr"
  <2>1. ArithmeticRight(value, amount, c).val = (Signed(value) \div Pow2[amount]) % Size
    BY RightDividesSigned
  <2>. DEFINE x == Signed(value)  p == Pow2[amount]
  <2>2. x \in Int /\ p \in Nat \ {0}
    BY <1>1, <1>2 DEF Signed
  <2>. HIDE DEF x, p
  <2>3. x \div p \in Int
    BY <2>2, Division
  <2>4. (x \div p) % Size \in 0..Size - 1
    BY <1>1, <2>3, Division
  <2>5. ArithmeticRight(value, amount, c).val \in Int
    BY <1>1, <2>1, <2>4 DEF x, p
  <2>. QED BY <1>5, <2>5 DEF Shifter
<1>6. CASE type = "ror"
  <2>. DEFINE m == amount % Width  p == Pow2[m]  s == Pow2[Width - m]
  <2>1. m \in 0..Width - 1
    <3>1. amount \in Int
      OBVIOUS
    <3>. QED BY <1>1, <3>1, Division
  <2>. HIDE DEF m
  <2>2. p \in Nat \ {0} /\ s \in Nat \ {0}
    BY <1>1, <2>1, Powers
  <2>. HIDE DEF p, s
  <2>3. value \div p \in Int /\ value * s \in Int
    BY <1>1, <2>2, Division
  <2>4. (value * s) % Size \in Int
    <3>. DEFINE x == value * s
    <3>. HIDE DEF x
    <3>1. x % Size \in 0..Size - 1
      BY <1>1, <2>3, Division DEF x
    <3>. QED BY <1>1, <3>1 DEF x
  <2>5. RotateRight(value, amount, c).val
          = IF m > 0 THEN ((value * s) % Size) + value \div p ELSE value
    BY DEF RotateRight, m, p, s
  <2>6. RotateRight(value, amount, c).val \in Int
    BY <1>1, <2>3, <2>4, <2>5
  <2>. QED BY <1>6, <2>6 DEF Shifter
<1>. QED BY <1>3, <1>4, <1>5, <1>6 DEF ShiftTypes

(* What is written to a register or to memory leaves a state.              *)
LEMMA SetType ==
  ASSUME NEW s \in States, NEW r \in Reg, NEW v \in Int
  PROVE  /\ Set(s, r, v) \in States
         /\ Set(s, r, v).mem = s.mem
         /\ Set(s, r, v).thrown = s.thrown
<1>1. v % Size \in Values
  BY SizeType, Division DEF Values
<1>. QED BY <1>1 DEF Set, States

(* What writing a register does to the registers; it jumps if it was the pc. *)
LEMMA SetEffect ==
  ASSUME NEW s \in States, NEW r \in Reg, NEW v \in Int
  PROVE  /\ Set(s, r, v).regs = [s.regs EXCEPT ![r] = v % Size]
         /\ Set(s, r, v).jumped <=> s.jumped \/ r = PC
  BY DEF Set, States

(* A store leaves a state, with the registers as they were.                  *)
LEMMA StoreType ==
  ASSUME NEW s \in States, NEW a \in Int, NEW n \in Nat, NEW v \in Int
  PROVE  /\ Store(s, a, n, v) \in States
         /\ Store(s, a, n, v).regs = s.regs
         /\ Store(s, a, n, v).thrown = s.thrown
<1>1. s.mem \in Memories
  BY DEF States
<1>2. Put(s.mem, a, n, v) \in Memories
  BY <1>1, PutType
<1>. QED BY <1>2 DEF Store, States

(* What a store does to the memory.                                          *)
LEMMA StoreEffect ==
  ASSUME NEW s \in States, NEW a, NEW n, NEW v
  PROVE  /\ Store(s, a, n, v).mem = Put(s.mem, a, n, v)
         /\ Store(s, a, n, v).jumped = s.jumped
  BY DEF Store, States

(* An exception changes nothing else.                                        *)
LEMMA ThrowType ==
  ASSUME NEW s \in States
  PROVE  /\ Throw(s) \in States /\ Throw(s).thrown
         /\ Throw(s).regs = s.regs /\ Throw(s).mem = s.mem /\ Throw(s).jumped = s.jumped
  BY DEF Throw, States

(* A quotient of a small number is small.                                  *)
LEMMA QuotientBelow ==
  ASSUME NEW x \in Nat, NEW n \in Nat \ {0}, NEW m \in Nat, x < n * m
  PROVE  x \div n \in 0..m - 1 /\ x = (x % n) + n * (x \div n) /\ x % n \in 0..n - 1
<1>. DEFINE q == x \div n  r == x % n
<1>1. q \in Int /\ r \in 0..n - 1 /\ x = q * n + r
  BY Division
<1>. HIDE DEF q, r
<1>2. q * n = n * q /\ n * m = m * n /\ q * n \in Int /\ m * n \in Int
  BY <1>1, SMTT(20)
<1>3. q >= 0
  <2>1. CASE q < 0
    <3>1. q * n + n <= 0 * n
      BY <1>1, <2>1, Multiples
    <3>. QED BY <1>1, <1>2, <3>1
  <2>. QED BY <1>1, <2>1
<1>4. q < m
  <2>1. CASE q = m
    BY <1>1, <1>2, <2>1
  <2>2. CASE m < q
    <3>1. m * n + n <= q * n
      BY <1>1, <2>2, Multiples
    <3>. QED BY <1>1, <1>2, <3>1
  <2>. QED BY <1>1, <2>1, <2>2
<1>. QED BY <1>1, <1>2, <1>3, <1>4 DEF q, r

(* A register value is the word of its bytes.                              *)
LEMMA WordOfDigits ==
  ASSUME NEW v \in Values
  PROVE  /\ \A k \in Nat : Digit(v, k) \in 0..ByteSize - 1
         /\ v = Digit(v, 0) + ByteSize * (Digit(v, 1)
                  + ByteSize * (Digit(v, 2) + ByteSize * Digit(v, 3)))
<1>. DEFINE B == ByteSize   q1 == v \div B   q2 == q1 \div B   q3 == q2 \div B
<1>1. B \in Nat \ {0} /\ B * B \in Nat /\ B * (B * B) \in Nat /\ B * (B * (B * B)) \in Nat
  <2>1. ASSUME NEW i \in Nat, NEW j \in Nat
        PROVE  i * j \in Nat
    BY SMTT(20)
  <2>2. B \in Nat \ {0}
    BY Places
  <2>. HIDE DEF B
  <2>. QED BY <2>1, <2>2
<1>2. /\ Place(0) = 1 /\ Place(1) = B /\ Place(2) = B * B /\ Place(3) = B * (B * B)
      /\ Size = B * (B * (B * B))
  <2>1. Place(1 + 1) = B * Place(1) /\ Place(2 + 1) = B * Place(2) /\ Place(3 + 1) = B * Place(3)
    BY Places
  <2>2. Place(0) = 1 /\ Place(1) = B /\ Place(4) = Size
    BY Places
  <2>. QED BY <2>1, <2>2
<1>3. v \in Nat /\ v \in Int /\ v < B * (B * (B * B))
  BY <1>2, SizeType DEF Values
<1>. HIDE DEF B, q1, q2, q3
<1>4. q1 \in 0..B * (B * B) - 1 /\ v = (v % B) + B * q1
  BY <1>1, <1>3, QuotientBelow DEF q1
<1>5. q2 \in 0..B * B - 1 /\ q1 = (q1 % B) + B * q2
  <2>1. q1 \in Nat /\ q1 < B * (B * B)
    BY <1>1, <1>4
  <2>. QED BY <1>1, <2>1, QuotientBelow DEF q2
<1>6. q3 \in 0..B - 1 /\ q2 = (q2 % B) + B * q3
  <2>1. q2 \in Nat /\ q2 < B * B
    BY <1>1, <1>5
  <2>. QED BY <1>1, <2>1, QuotientBelow DEF q3
<1>7. v \div 1 = v /\ v \div (B * B) = q2 /\ v \div (B * (B * B)) = q3
  <2>1. v \div 1 = v
    BY <1>3
  <2>2. v \div (B * B) = q2
    BY <1>1, <1>3, DividedTwice DEF q1, q2
  <2>3. v \div (B * (B * B)) = q1 \div (B * B)
    BY <1>1, <1>3, DividedThrice DEF q1
  <2>4. q1 \in Int
    BY <1>1, <1>4
  <2>5. q1 \div (B * B) = q3
    BY <1>1, <2>4, DividedTwice DEF q2, q3
  <2>. QED BY <2>1, <2>2, <2>3, <2>5
<1>8. /\ Digit(v, 0) = v % B /\ Digit(v, 1) = q1 % B /\ Digit(v, 2) = q2 % B
      /\ Digit(v, 3) = q3 % B
  BY <1>2, <1>7 DEF Digit, B, q1
<1>9. q3 % B = q3
  BY <1>1, <1>6, OwnRemainder
<1>10. v = Digit(v, 0) + B * (Digit(v, 1) + B * (Digit(v, 2) + B * Digit(v, 3)))
  BY <1>4, <1>5, <1>6, <1>8, <1>9
<1>11. ASSUME NEW k \in Nat
       PROVE  Digit(v, k) \in 0..B - 1
  <2>. DEFINE p == Place(k)
  <2>1. p \in Nat \ {0}
    BY Places
  <2>. HIDE DEF p
  <2>2. v \div p \in Int
    BY <1>3, <2>1, Division
  <2>3. (v \div p) % B \in 0..B - 1
    BY <1>1, <2>2, Division
  <2>. QED BY <2>3 DEF Digit, B, p
<1>. QED BY <1>10, <1>11 DEF B
-------------------------------------------------------------------------------
(* The fields of an instruction.                                           *)
LEMMA Fields ==
  ASSUME NEW i \in Formats
  PROVE  /\ i.kind \in {"single", "halfword", "doubleword", "block", "swap", "reverse", "bx",
                        "branch"}
         /\ i.kind \in {"single", "halfword", "doubleword", "block"} =>
              /\ i.load \in BOOLEAN /\ i.up \in BOOLEAN /\ i.pre \in BOOLEAN /\ i.wb \in BOOLEAN
              /\ i.rn \in Reg
         /\ i.kind \in {"single", "halfword", "doubleword"} => i.rd \in Reg /\ i.offset \in Offsets
         /\ i.kind = "single" => i.byte \in BOOLEAN
         /\ i.kind = "halfword" => i.half \in BOOLEAN /\ i.signed \in BOOLEAN
         /\ i.kind = "block" => i.list \in SUBSET Reg
         /\ i.kind = "swap" => i.byte \in BOOLEAN /\ i.rn \in Reg /\ i.rd \in Reg /\ i.rm \in Reg
         /\ i.kind = "reverse" => /\ i.half \in BOOLEAN /\ i.signed \in BOOLEAN
                                  /\ i.rd \in Reg /\ i.rm \in Reg
         /\ i.kind = "bx" => i.rm \in Reg
         /\ i.kind = "branch" => i.link \in BOOLEAN /\ i.n \in Int
  BY DEF Formats

(* The addresses that the transfers go to are numbers.                     *)
LEMMA OffsetType ==
  ASSUME NEW s \in States, NEW o \in Offsets
  PROVE  Offset(s, o) \in Int
<1>1. CASE o.by = "immediate"
  BY <1>1, SizeType DEF Offset, Offsets, Values
<1>2. CASE o.by # "immediate"
  <2>1. o.rm \in Reg /\ o.type \in ShiftTypes /\ o.amount \in 0..Width
    BY <1>2 DEF Offsets
  <2>2. o.amount \in Nat /\ s.regs[o.rm] \in Values
    BY <2>1, WidthAssumption DEF States
  <2>3. Shifter(o.type, s.regs[o.rm], o.amount, FALSE).val \in Int
    BY <2>1, <2>2, ShifterType
  <2>. QED BY <1>2, <2>3 DEF Offset
<1>. QED BY <1>1, <1>2

(* The address of a transfer of words is a number.                           *)
LEMMA AddressType ==
  ASSUME NEW s \in States, NEW i \in Formats, i.kind \in {"single", "doubleword"}
  PROVE  AddressWithOffset(s, i) \in Int /\ MemoryAddress(s, i) \in Int
<1>1. i.rn \in Reg /\ i.offset \in Offsets
  BY Fields
<1>2. s.regs[i.rn] \in Int /\ Offset(s, i.offset) \in Int
  BY <1>1, OffsetType DEF States, Values
<1>. DEFINE x == s.regs[i.rn] + (IF i.up THEN 1 ELSE -1) * Offset(s, i.offset)
<1>3. x \in Int
  BY <1>2
<1>. HIDE DEF x
<1>4. x % Size \in 0..Size - 1
  BY <1>3, SizeType, Division
<1>5. AddressWithOffset(s, i) \in Int
  BY <1>4, SizeType DEF AddressWithOffset, x
<1>. QED BY <1>2, <1>5 DEF MemoryAddress

(* What an execution that threw has left alone.                            *)
Harmless(s, t) == t.thrown => /\ t.regs = s.regs
                              /\ \A a \in 0..Size - 1 : Byte(t.mem, a) = Byte(s.mem, a)

(* A write-back under a condition leaves a state.                            *)
LEMMA SetIfType ==
  ASSUME NEW s \in States, NEW condition, NEW r \in Reg, NEW v \in Int
  PROVE  /\ SetIf(condition, s, r, v) \in States
         /\ SetIf(condition, s, r, v).mem = s.mem
         /\ SetIf(condition, s, r, v).thrown = s.thrown
  BY SetType DEF SetIf

(* What a state is made of.                                                *)
LEMMA StateType ==
  ASSUME NEW s \in States
  PROVE  /\ s.regs \in [Reg -> Values] /\ s.mem \in Memories
         /\ s.jumped \in BOOLEAN /\ s.thrown \in BOOLEAN
         /\ \A r \in Reg : s.regs[r] \in Values /\ s.regs[r] \in Int
         /\ \A a : Byte(s.mem, a) \in Int /\ Word(s.mem, a) \in Int
<1>1. s.mem \in Memories
  BY DEF States
<1>2. \A a : Byte(s.mem, a) \in 0..ByteSize - 1 /\ Word(s.mem, a) \in Values
  BY <1>1, ByteType, WordType
<1>3. ByteSize \in Nat /\ Size \in Nat
  BY Places, SizeType
<1>. QED BY <1>1, <1>2, <1>3 DEF States, Values

(* A thrown state is one that was not touched.                             *)
LEMMA ThrowHarmless ==
  ASSUME NEW s \in States
  PROVE  Throw(s) \in States /\ Harmless(s, Throw(s))
  BY ThrowType DEF Harmless

(* ldr and str leave a state, and an exception nothing new in it.            *)
LEMMA SingleType ==
  ASSUME NEW s \in States, ~s.thrown, NEW i \in Formats, i.kind = "single"
  PROVE  /\ Single(s, i) \in States /\ Harmless(s, Single(s, i))
         /\ ~IllegalAddressing(i) => ~Single(s, i).thrown
<1>. DEFINE t == TransferFirst(s, i)  a == MemoryAddress(s, i)
<1>1. /\ i.rn \in Reg /\ i.rd \in Reg /\ a \in Int /\ AddressWithOffset(s, i) \in Int
      /\ i.load \in BOOLEAN
  BY Fields, AddressType
<1>2. t \in States /\ t.thrown = s.thrown
  <2>. DEFINE v == IF i.byte THEN Byte(s.mem, a) ELSE Word(s.mem, a)
              n == IF i.byte THEN 1 ELSE WordBytes
  <2>1. v \in Int /\ n \in Nat /\ s.regs[i.rd] \in Int
    BY <1>1, StateType DEF WordBytes
  <2>2. t = IF i.load THEN Set(s, i.rd, v) ELSE Store(s, a, n, s.regs[i.rd])
    BY DEF TransferFirst
  <2>. HIDE DEF a, v, n, t
  <2>3. Set(s, i.rd, v) \in States /\ Set(s, i.rd, v).thrown = s.thrown
    BY <1>1, <2>1, SetType
  <2>4. /\ Store(s, a, n, s.regs[i.rd]) \in States
        /\ Store(s, a, n, s.regs[i.rd]).thrown = s.thrown
    BY <1>1, <2>1, StoreType
  <2>. QED BY <2>2, <2>3, <2>4
<1>3. Single(s, i) = IF IllegalAddressing(i) THEN Throw(s)
                     ELSE SetIf(WritesBack(i), t, i.rn, AddressWithOffset(s, i))
  BY DEF Single
<1>. HIDE DEF t
<1>4. CASE IllegalAddressing(i)
  BY <1>3, <1>4, ThrowHarmless
<1>5. CASE ~IllegalAddressing(i)
  BY <1>1, <1>2, <1>3, <1>5, SetIfType DEF Harmless
<1>. QED BY <1>4, <1>5

(* ldrd and strd do too,                                                     *)
LEMMA DoublewordType ==
  ASSUME NEW s \in States, ~s.thrown, NEW i \in Formats, i.kind = "doubleword"
  PROVE  Doubleword(s, i) \in States /\ Harmless(s, Doubleword(s, i))
<1>. DEFINE a == MemoryAddress(s, i)
            t == IF i.load
                 THEN Set(Set(s, i.rd, Word(s.mem, a)), i.rd + 1, Word(s.mem, a + WordBytes))
                 ELSE Store(Store(s, a, WordBytes, s.regs[i.rd]),
                            a + WordBytes, WordBytes, s.regs[i.rd + 1])
<1>1. /\ i.rn \in Reg /\ i.rd \in Reg /\ a \in Int /\ AddressWithOffset(s, i) \in Int
      /\ i.load \in BOOLEAN
  BY Fields, AddressType
<1>2. Doubleword(s, i) = IF IllegalAddressing(i) \/ i.rd % 2 # 0 THEN Throw(s)
                         ELSE SetIf(WritesBack(i), t, i.rn, AddressWithOffset(s, i))
  BY DEF Doubleword
<1>3. CASE IllegalAddressing(i) \/ i.rd % 2 # 0
  BY <1>2, <1>3, ThrowHarmless
<1>4. CASE ~(IllegalAddressing(i) \/ i.rd % 2 # 0)
  <2>1. i.rd + 1 \in Reg
    BY <1>1, <1>4 DEF Reg
  <2>2. t \in States /\ t.thrown = s.thrown
    <3>. DEFINE u == Set(s, i.rd, Word(s.mem, a))  w == Store(s, a, WordBytes, s.regs[i.rd])
                b == a + WordBytes
    <3>1. Word(s.mem, a) \in Int /\ Word(s.mem, b) \in Int
      BY StateType
    <3>2. s.regs[i.rd] \in Int /\ s.regs[i.rd + 1] \in Int /\ WordBytes \in Nat /\ b \in Int
      BY <1>1, <2>1, StateType DEF WordBytes
    <3>. HIDE DEF a, b
    <3>3. u \in States /\ u.thrown = s.thrown
      BY <1>1, <3>1, SetType
    <3>6. w \in States /\ w.thrown = s.thrown
      BY <1>1, <3>2, StoreType
    <3>. HIDE DEF u, w
    <3>. DEFINE v == Word(s.mem, b)  r == i.rd + 1  x == s.regs[r]
    <3>. HIDE DEF v, r, x
    <3>7. v \in Int /\ r \in Reg /\ x \in Int
      BY <2>1, <3>1, <3>2 DEF v, r, x
    <3>4. Set(u, r, v) \in States /\ Set(u, r, v).thrown = u.thrown
      BY <3>3, <3>7, SetType
    <3>5. /\ Store(w, b, WordBytes, x) \in States
          /\ Store(w, b, WordBytes, x).thrown = w.thrown
      BY <3>2, <3>6, <3>7, StoreType
    <3>8. t = IF i.load THEN Set(u, r, v) ELSE Store(w, b, WordBytes, x)
      BY DEF u, w, b, v, r, x
    <3>. HIDE DEF t
    <3>. QED BY <3>3, <3>4, <3>5, <3>6, <3>8
  <2>. HIDE DEF t
  <2>. QED BY <1>1, <1>2, <1>4, <2>2, SetIfType DEF Harmless
<1>. QED BY <1>3, <1>4

(* and the transfers of halfwords and signed bytes.                          *)
LEMMA HalfwordType ==
  ASSUME NEW s \in States, ~s.thrown, NEW i \in Formats, i.kind = "halfword"
  PROVE  Halfword(s, i) \in States /\ Harmless(s, Halfword(s, i))
<1>. DEFINE offset == HalfwordOffset(s, i)
            a    == s.regs[i.rn] + (IF i.pre THEN offset ELSE 0)
            n    == IF i.half THEN 2 ELSE 1
            read == Word(s.mem, a) % Place(n)
            v    == IF i.signed THEN Extended(read, n) ELSE read
            t    == IF i.load THEN Set(s, i.rd, v) ELSE Store(s, a, n, s.regs[i.rd])
            back == s.regs[i.rn] + offset
<1>1. i.rn \in Reg /\ i.rd \in Reg /\ i.offset \in Offsets /\ i.load \in BOOLEAN
  BY Fields
<1>2. s.regs[i.rn] \in Int /\ s.regs[i.rd] \in Int /\ Size \in Int /\ Half \in Int
  BY <1>1, StateType, SizeType
<1>3. offset \in Int
  <2>1. i.offset.by = "immediate" => i.offset.n \in Int
    BY <1>1, <1>2 DEF Offsets, Values
  <2>2. i.offset.by # "immediate" => s.regs[i.offset.rm] \in Int
    <3>1. i.offset.by # "immediate" => i.offset.rm \in Reg
      BY <1>1 DEF Offsets
    <3>. QED BY <3>1, StateType
  <2>. QED BY <1>2, <2>1, <2>2 DEF HalfwordOffset, AsInt, Negated
<1>4. a \in Int /\ back \in Int /\ n \in 1..2 /\ n \in Nat
  BY <1>2, <1>3
<1>5. Halfword(s, i) = IF NoByteAt(a) THEN Throw(s)
                       ELSE IF NoByteAt(a + n - 1)
                       THEN Throw(IF i.load THEN s ELSE Store(s, a, 1, s.regs[i.rd]))
                       ELSE SetIf(WritesBack(i), t, i.rn, back)
  BY DEF Halfword
<1>6. v \in Int
  <2>1. Word(s.mem, a) \in Int /\ Place(n) \in Nat \ {0}
    BY <1>4, StateType, Places
  <2>. HIDE DEF n, a
  <2>2. read \in 0..Place(n) - 1
    <3>. DEFINE p == Place(n)  w == Word(s.mem, a)
    <3>1. p \in Nat \ {0} /\ w \in Int
      BY <2>1
    <3>. HIDE DEF p, w
    <3>2. w % p \in 0..p - 1
      BY <3>1, Division
    <3>. QED BY <3>2 DEF w, p
  <2>3. read \in Int /\ Place(n) \in Int
    BY <2>1, <2>2
  <2>. HIDE DEF read
  <2>. QED BY <1>2, <2>3 DEF Extended
<1>. HIDE DEF v, offset, back
<1>7. t \in States /\ t.thrown = s.thrown
  <2>. HIDE DEF a, n
  <2>1. Set(s, i.rd, v) \in States /\ Set(s, i.rd, v).thrown = s.thrown
    BY <1>1, <1>6, SetType
  <2>2. /\ Store(s, a, n, s.regs[i.rd]) \in States
        /\ Store(s, a, n, s.regs[i.rd]).thrown = s.thrown
    BY <1>2, <1>4, StoreType
  <2>. QED BY <2>1, <2>2
<1>. HIDE DEF t
<1>8. CASE NoByteAt(a)
  BY <1>5, <1>8, ThrowHarmless
<1>9. CASE ~NoByteAt(a) /\ NoByteAt(a + n - 1)
  <2>. DEFINE u == IF i.load THEN s ELSE Store(s, a, 1, s.regs[i.rd])
  <2>1. a = -2
    BY <1>4, <1>9 DEF NoByteAt
  <2>. HIDE DEF a, n
  <2>2. u \in States /\ u.regs = s.regs
        /\ u.mem = IF i.load THEN s.mem ELSE Put(s.mem, a, 1, s.regs[i.rd])
    <3>. DEFINE w == Store(s, a, 1, s.regs[i.rd])  one == 1
    <3>1. one \in Nat
      OBVIOUS
    <3>. HIDE DEF one
    <3>2. /\ Store(s, a, one, s.regs[i.rd]) \in States
          /\ Store(s, a, one, s.regs[i.rd]).regs = s.regs
      BY <1>2, <1>4, <3>1, StoreType
    <3>3. w \in States /\ w.regs = s.regs /\ w.mem = Put(s.mem, a, 1, s.regs[i.rd])
      BY <3>2, StoreEffect DEF one
    <3>. HIDE DEF w
    <3>4. u = IF i.load THEN s ELSE w
      BY DEF w
    <3>. HIDE DEF u
    <3>. QED BY <3>3, <3>4
  <2>3. ASSUME NEW x \in 0..Size - 1
        PROVE  Byte(u.mem, x) = Byte(s.mem, x)
    <3>1. x \notin a..a + 1 - 1
      BY <1>2, <2>1
    <3>2. Byte(Put(s.mem, a, 1, s.regs[i.rd]), x) = Byte(s.mem, x)
      BY <3>1, PutByte
    <3>. QED BY <2>2, <3>2
  <2>. HIDE DEF u
  <2>4. Harmless(s, Throw(u)) /\ Throw(u) \in States
    BY <2>2, <2>3, ThrowType DEF Harmless
  <2>. QED BY <1>5, <1>9, <2>4 DEF u
<1>10. CASE ~NoByteAt(a) /\ ~NoByteAt(a + n - 1)
  <2>. HIDE DEF a, n
  <2>. QED BY <1>1, <1>4, <1>5, <1>7, <1>10, SetIfType DEF Harmless
<1>. QED BY <1>8, <1>9, <1>10
-------------------------------------------------------------------------------
(* The registers of a list are numbered from 0 upwards.                    *)
LEMMA ListType ==
  ASSUME NEW list \in SUBSET Reg
  PROVE  IsFiniteSet(list) /\ Cardinality(list) \in Nat
<1>. DEFINE lowest == 0  highest == 15
<1>1. IsFiniteSet(lowest..highest)
  <2>1. lowest \in Int /\ highest \in Int
    OBVIOUS
  <2>. HIDE DEF lowest, highest
  <2>. QED BY <2>1, FS_Interval
<1>2. IsFiniteSet(list)
  BY <1>1, FS_Subset DEF Reg
<1>. QED BY <1>2, FS_CardinalityType

(* The rank of a register in a list is below the list's length,              *)
LEMMA RankType ==
  ASSUME NEW list \in SUBSET Reg, NEW r \in Reg
  PROVE  /\ Rank(list, r) \in 0..Cardinality(list)
         /\ r \in list => Rank(list, r) < Cardinality(list)
<1>. DEFINE L == {q \in list : q < r}
<1>1. IsFiniteSet(list) /\ Cardinality(list) \in Nat
  BY ListType
<1>2. L \in SUBSET list
  OBVIOUS
<1>3. IsFiniteSet(L) /\ Cardinality(L) <= Cardinality(list)
      /\ (Cardinality(list) = Cardinality(L) => list = L)
  BY <1>1, <1>2, FS_Subset
<1>4. Cardinality(L) \in Nat
  BY <1>3, FS_CardinalityType
<1>5. r \in list => list # L
  BY DEF Reg
<1>. HIDE DEF L
<1>. QED BY <1>1, <1>3, <1>4, <1>5 DEF Rank, L

(* grows with the register,                                                  *)
LEMMA RankGrows ==
  ASSUME NEW list \in SUBSET Reg, NEW q \in list, NEW r \in Reg, q < r
  PROVE  Rank(list, q) < Rank(list, r)
<1>. DEFINE K == {x \in list : x < q}  L == {x \in list : x < r}
<1>1. IsFiniteSet(list)
  BY ListType
<1>2. K \in SUBSET L /\ L \in SUBSET list /\ K # L
  <2>1. \A x \in list : x \in Int
    BY DEF Reg
  <2>2. q \in L /\ q \notin K
    BY <2>1
  <2>3. \A x \in K : x \in L
    BY <2>1 DEF Reg
  <2>. HIDE DEF K
  <2>. QED BY <2>2, <2>3
<1>3. IsFiniteSet(L)
  BY <1>1, <1>2, FS_Subset
<1>4. IsFiniteSet(K) /\ Cardinality(K) <= Cardinality(L) /\ Cardinality(L) # Cardinality(K)
  BY <1>2, <1>3, FS_Subset
<1>5. Cardinality(K) \in Nat /\ Cardinality(L) \in Nat
  BY <1>3, <1>4, FS_CardinalityType
<1>. HIDE DEF K, L
<1>. QED BY <1>4, <1>5 DEF Rank, K, L

(* belongs to one register of the list only,                                 *)
LEMMA RankUnique ==
  ASSUME NEW list \in SUBSET Reg, NEW q \in list, NEW r \in list, Rank(list, q) = Rank(list, r)
  PROVE  q = r
<1>1. q \in Reg /\ r \in Reg /\ q \in Int /\ r \in Int
  BY DEF Reg
<1>2. Rank(list, q) \in Int /\ Rank(list, r) \in Int
  BY <1>1, RankType, ListType
<1>3. CASE q < r
  BY <1>1, <1>2, <1>3, RankGrows
<1>4. CASE r < q
  BY <1>1, <1>2, <1>4, RankGrows
<1>. QED BY <1>1, <1>3, <1>4

(* and every number below the length is the rank of one.                     *)
LEMMA RankReached ==
  ASSUME NEW list \in SUBSET Reg, NEW k \in 0..Cardinality(list) - 1
  PROVE  \E r \in list : Rank(list, r) = k
<1>. DEFINE n == Cardinality(list)  T == 0..n - 1  f == [r \in list |-> Rank(list, r)]
<1>1. IsFiniteSet(list) /\ n \in Nat
  BY ListType
<1>2. IsFiniteSet(T) /\ Cardinality(T) = n
  <2>. HIDE DEF n
  <2>1. 0 \in Int /\ n - 1 \in Int
    BY <1>1
  <2>2. IsFiniteSet(T) /\ Cardinality(T) = IF 0 > n - 1 THEN 0 ELSE (n - 1) - 0 + 1
    BY <2>1, FS_Interval
  <2>. QED BY <1>1, <2>2
<1>3. \A r \in list : Rank(list, r) \in T
  <2>1. ASSUME NEW r \in list
        PROVE  Rank(list, r) \in T
    <3>1. r \in Reg
      OBVIOUS
    <3>2. Rank(list, r) \in 0..Cardinality(list) /\ Rank(list, r) < Cardinality(list)
      BY <3>1, RankType
    <3>. QED BY <1>1, <3>2
  <2>. QED BY <2>1
<1>. HIDE DEF n, T
<1>4. f \in [list -> T]
  BY <1>3
<1>5. \A q, r \in list : f[q] = f[r] => q = r
  BY RankUnique
<1>6. f \in Injection(list, T)
  BY <1>4, <1>5 DEF Injection, IsInjective
<1>7. f \in Surjection(list, T)
  <2>. HIDE DEF f
  <2>. QED BY <1>1, <1>2, <1>6, FS_Injection DEF n
<1>8. \E r \in list : f[r] = k
  <2>. HIDE DEF f
  <2>. QED BY <1>7 DEF Surjection, T, n
<1>. QED BY <1>8

(* A block of registers in memory, byte by byte.                           *)
LEMMA PutBlockByte ==
  ASSUME NEW m, NEW a \in Int, NEW list \in SUBSET Reg, NEW v, NEW x \in Int
  PROVE  /\ \A r \in list, j \in 0..3 :
              x = a + 4 * Rank(list, r) + j => Byte(PutBlock(m, a, list, v), x) = Digit(v[r], j)
         /\ x \notin a..a + 4 * Cardinality(list) - 1
              => Byte(PutBlock(m, a, list, v), x) = Byte(m, x)
<1>. DEFINE n == Cardinality(list)
            at == a..a + WordBytes * n - 1
            RegAt(y) == CHOOSE r \in list : Rank(list, r) = (y - a) \div WordBytes
            New(y) == IF y \in at
                      THEN (v[RegAt(y)] \div Place((y - a) % WordBytes)) % ByteSize
                      ELSE m[y]
            b == PutBlock(m, a, list, v)
<1>1. n \in Nat
  BY ListType
<1>2. b = [y \in {z \in DOMAIN m \cup at : New(z) # 0} |-> New(y)]
  BY DEF PutBlock
<1>3. x \notin at => Byte(b, x) = Byte(m, x)
  <2>. HIDE DEF at, RegAt, b
  <2>. QED BY <1>2 DEF Byte
<1>4. x \in at => Byte(b, x) = New(x)
  <2>. HIDE DEF at, New, b
  <2>. QED BY <1>2 DEF Byte
<1>5. ASSUME NEW r \in list, NEW j \in 0..3, x = a + 4 * Rank(list, r) + j
      PROVE  Byte(b, x) = Digit(v[r], j)
  <2>. DEFINE k == Rank(list, r)
  <2>1. k \in 0..n - 1
    BY <1>1, RankType
  <2>2. x = a + 4 * k + j
    BY <1>5
  <2>. HIDE DEF k, n
  <2>3. x \in at /\ (x - a) \div 4 = k /\ (x - a) % 4 = j
    BY <1>1, <2>1, <2>2 DEF WordBytes
  <2>4. RegAt(x) = r
    <3>1. Rank(list, r) = (x - a) \div WordBytes
      BY <2>3 DEF k, WordBytes
    <3>2. RegAt(x) \in list /\ Rank(list, RegAt(x)) = (x - a) \div WordBytes
      BY <3>1
    <3>. HIDE DEF RegAt
    <3>. QED BY <3>1, <3>2, RankUnique
  <2>. HIDE DEF RegAt, b, at
  <2>. QED BY <1>4, <2>3, <2>4 DEF Digit, WordBytes
<1>. QED BY <1>3, <1>5 DEF WordBytes

(* A block that is stored leaves a memory.                                   *)
LEMMA PutBlockType ==
  ASSUME NEW m \in Memories, NEW a \in Int, NEW list \in SUBSET Reg, NEW v \in [list -> Values]
  PROVE  PutBlock(m, a, list, v) \in Memories
<1>. DEFINE n == Cardinality(list)
            at == a..a + WordBytes * n - 1
            RegAt(y) == CHOOSE r \in list : Rank(list, r) = (y - a) \div WordBytes
            New(y) == IF y \in at
                      THEN (v[RegAt(y)] \div Place((y - a) % WordBytes)) % ByteSize
                      ELSE m[y]
            D == {z \in DOMAIN m \cup at : New(z) # 0}
<1>1. n \in Nat
  BY ListType
<1>2. PICK E \in SUBSET Int : m \in [E -> 1..ByteSize - 1]
  BY DEF Memories
<1>3. PutBlock(m, a, list, v) = [y \in D |-> New(y)]
  BY DEF PutBlock
<1>4. D \in SUBSET Int
  <2>1. at \subseteq Int /\ DOMAIN m \subseteq Int
    BY <1>2
  <2>. HIDE DEF at, New
  <2>. QED BY <2>1
<1>5. ASSUME NEW x \in D
      PROVE  New(x) \in 1..ByteSize - 1
  <2>1. CASE x \in at
    <3>. DEFINE k == (x - a) \div WordBytes  j == (x - a) % WordBytes
    <3>1. k \in 0..n - 1 /\ j \in Nat
      <4>. HIDE DEF n
      <4>. QED BY <1>1, <2>1 DEF WordBytes
    <3>. HIDE DEF k, j
    <3>2. \E r \in list : Rank(list, r) = k
      BY <3>1, RankReached
    <3>3. RegAt(x) \in list
      BY <3>2 DEF k
    <3>. HIDE DEF RegAt
    <3>4. v[RegAt(x)] \in Values
      BY <3>3
    <3>5. Digit(v[RegAt(x)], j) \in 0..ByteSize - 1
      BY <3>1, <3>4, WordOfDigits
    <3>6. New(x) = Digit(v[RegAt(x)], j)
      BY <2>1 DEF Digit, j
    <3>7. New(x) # 0
      OBVIOUS
    <3>. HIDE DEF New, D
    <3>. QED BY <3>5, <3>6, <3>7, Places
  <2>2. CASE x \notin at
    <3>1. x \in DOMAIN m /\ New(x) = m[x]
      BY <2>2
    <3>. HIDE DEF New
    <3>. QED BY <1>2, <3>1
  <2>. QED BY <2>1, <2>2
<1>. HIDE DEF New, D
<1>. QED BY <1>3, <1>4, <1>5 DEF Memories

(* The values of a block transfer.                                         *)
LEMMA BlockValuesType ==
  ASSUME NEW s \in States, NEW i \in Formats, i.kind = "block",
         NEW old \in [i.list -> Values]
  PROVE  BlockValues(s, i, old) \in [i.list -> Values]
<1>1. i.list \in SUBSET Reg /\ s.mem \in Memories
  BY Fields, StateType
<1>2. \A x : Word(s.mem, x) \in Values
  BY <1>1, WordType
<1>3. LoadedValues(s, i, old) \in [i.list -> Values]
  BY <1>2 DEF LoadedValues
<1>4. StoredValues(s, i) \in [i.list -> Values]
  BY <1>1, StateType DEF StoredValues
<1>. QED BY <1>3, <1>4 DEF BlockValues

(* ldm and stm leave a state, and never throw.                               *)
LEMMA BlockType ==
  ASSUME NEW s \in States, ~s.thrown, NEW i \in Formats, i.kind = "block",
         NEW old \in [i.list -> Values]
  PROVE  /\ Block(s, i, old) \in States /\ Harmless(s, Block(s, i, old))
         /\ StartOffset(i) \in Int /\ Length(i) \in Int
<1>. DEFINE v == BlockValues(s, i, old)
            a == s.regs[i.rn] + StartOffset(i)
            loaded == [s EXCEPT !.regs = [r \in Reg |-> IF r \in i.list THEN v[r] ELSE @[r]],
                                !.jumped = PC \in i.list]
            stored == [s EXCEPT !.mem = PutBlock(@, a, i.list, v)]
            t == IF i.load THEN loaded ELSE stored
            back == s.regs[i.rn] + (IF i.up THEN 1 ELSE -1) * Length(i)
<1>1. i.list \in SUBSET Reg /\ i.rn \in Reg /\ s.mem \in Memories /\ s.regs[i.rn] \in Int
  BY Fields, StateType
<1>2. Length(i) \in Int /\ StartOffset(i) \in Int
  BY <1>1, ListType DEF StartOffset, IndexingOffset, WordBytes, Length
<1>3. a \in Int /\ back \in Int
  BY <1>1, <1>2
<1>4. v \in [i.list -> Values]
  BY BlockValuesType
<1>5. Block(s, i, old) = IF i.rn = PC THEN Throw(s) ELSE SetIf(i.wb, t, i.rn, back)
  BY DEF Block
<1>. HIDE DEF v, a, back
<1>6. loaded \in States /\ loaded.thrown = s.thrown
  <2>. DEFINE f == [r \in Reg |-> IF r \in i.list THEN v[r] ELSE s.regs[r]]
              jumped == PC \in i.list
  <2>1. f \in [Reg -> Values] /\ jumped \in BOOLEAN
    BY <1>4, StateType
  <2>2. loaded = [s EXCEPT !.regs = f, !.jumped = jumped]
    OBVIOUS
  <2>. HIDE DEF f, jumped, loaded
  <2>. QED BY <2>1, <2>2 DEF States
<1>7. stored \in States /\ stored.thrown = s.thrown
  <2>1. PutBlock(s.mem, a, i.list, v) \in Memories
    BY <1>1, <1>3, <1>4, PutBlockType
  <2>. QED BY <2>1 DEF States
<1>. HIDE DEF loaded, stored
<1>8. t \in States /\ t.thrown = s.thrown
  BY <1>6, <1>7
<1>. HIDE DEF t
<1>9. CASE i.rn = PC
  BY <1>2, <1>5, <1>9, ThrowHarmless
<1>10. CASE i.rn # PC
  BY <1>1, <1>2, <1>3, <1>5, <1>8, <1>10, SetIfType DEF Harmless
<1>. QED BY <1>9, <1>10
(* The instructions that move a register or a byte into another.           *)
LEMMA SwapType ==
  ASSUME NEW s \in States, ~s.thrown, NEW i \in Formats, i.kind = "swap"
  PROVE  Swap(s, i) \in States /\ Harmless(s, Swap(s, i))
<1>. DEFINE a == s.regs[i.rn]
            n == IF i.byte THEN 1 ELSE WordBytes
            u == Store(s, a, n, s.regs[i.rm])
            v == Word(s.mem, a) % Place(n)
<1>1. i.rn \in Reg /\ i.rd \in Reg /\ i.rm \in Reg
  BY Fields
<1>2. a \in Int /\ n \in Nat /\ s.regs[i.rm] \in Int /\ Word(s.mem, a) \in Int
  BY <1>1, StateType DEF WordBytes
<1>3. Swap(s, i) = IF PC \in {i.rn, i.rd, i.rm} THEN Throw(s) ELSE Set(u, i.rd, v)
  BY DEF Swap
<1>. HIDE DEF a, n
<1>4. v \in Int
  <2>. DEFINE w == Word(s.mem, a)  p == Place(n)
  <2>1. w \in Int /\ p \in Nat \ {0}
    BY <1>2, Places
  <2>. HIDE DEF w, p
  <2>2. w % p \in 0..p - 1
    BY <2>1, Division
  <2>. QED BY <2>1, <2>2 DEF w, p
<1>5. u \in States /\ u.thrown = s.thrown
  BY <1>2, StoreType
<1>. HIDE DEF u, v
<1>6. Set(u, i.rd, v) \in States /\ Set(u, i.rd, v).thrown = u.thrown
  BY <1>1, <1>4, <1>5, SetType
<1>7. CASE PC \in {i.rn, i.rd, i.rm}
  BY <1>3, <1>7, ThrowHarmless
<1>8. CASE PC \notin {i.rn, i.rd, i.rm}
  BY <1>3, <1>5, <1>6, <1>8 DEF Harmless
<1>. QED BY <1>7, <1>8

(* rev, rev16 and revsh leave a state,                                       *)
LEMMA ReverseType ==
  ASSUME NEW s \in States, ~s.thrown, NEW i \in Formats, i.kind = "reverse"
  PROVE  Reverse(s, i) \in States /\ Harmless(s, Reverse(s, i))
<1>. DEFINE v == s.regs[i.rm]
            low == Digit(v, 1) + ByteSize * Digit(v, 0)
            signed == Extended(low, 2)
            twice == low + Place(2) * (Digit(v, 3) + ByteSize * Digit(v, 2))
            all == Digit(v, 3) + ByteSize * (Digit(v, 2)
                     + ByteSize * (Digit(v, 1) + ByteSize * Digit(v, 0)))
<1>1. i.rd \in Reg /\ i.rm \in Reg /\ i.half \in BOOLEAN /\ i.signed \in BOOLEAN
  BY Fields
<1>2. v \in Values
  BY <1>1, StateType
<1>3. low \in Int /\ signed \in Int /\ twice \in Int /\ all \in Int
  <2>1. ASSUME NEW j \in Int, NEW k \in Int
        PROVE  j * k \in Int
    BY SMTT(20)
  <2>2. ByteSize \in Nat \ {0} /\ Place(2) \in Nat \ {0} /\ Size \in Nat
    BY Places, SizeType
  <2>. DEFINE d0 == Digit(v, 0)  d1 == Digit(v, 1)  d2 == Digit(v, 2)  d3 == Digit(v, 3)
              B == ByteSize  p == Place(2)
  <2>3. d0 \in Int /\ d1 \in Int /\ d2 \in Int /\ d3 \in Int
    <3>1. \A k \in Nat : Digit(v, k) \in 0..ByteSize - 1
      BY <1>2, WordOfDigits
    <3>. QED BY <2>2, <3>1
  <2>. DEFINE l == d1 + B * d0  h == d3 + B * d2  a == d3 + B * (d2 + B * l)
  <2>4. B \in Int /\ p \in Int
    BY <2>2
  <2>. HIDE DEF d0, d1, d2, d3, B, p
  <2>5. l \in Int /\ h \in Int
    BY <2>1, <2>3, <2>4
  <2>. HIDE DEF l, h
  <2>6. a \in Int /\ l + p * h \in Int
    BY <2>1, <2>3, <2>4, <2>5
  <2>7. low = l /\ twice = l + p * h /\ all = a
    BY DEF d0, d1, d2, d3, B, p, l, h
  <2>8. Extended(l, 2) \in Int
    BY <2>2, <2>5 DEF Extended
  <2>. QED BY <2>5, <2>6, <2>7, <2>8
<1>4. Reverse(s, i) = CASE i.half /\ i.signed  -> Set(s, i.rd, signed)
                        [] i.half /\ ~i.signed -> Set(s, i.rd, twice)
                        [] ~i.half /\ ~i.signed -> Set(s, i.rd, all)
                        [] OTHER -> Throw(s)
  BY DEF Reverse
<1>. HIDE DEF low, signed, twice, all
<1>5. ASSUME NEW x \in Int
      PROVE  Set(s, i.rd, x) \in States /\ Harmless(s, Set(s, i.rd, x))
  BY <1>1, SetType DEF Harmless
<1>6. CASE i.half /\ i.signed
  BY <1>3, <1>4, <1>5, <1>6
<1>7. CASE i.half /\ ~i.signed
  BY <1>3, <1>4, <1>5, <1>7
<1>8. CASE ~i.half /\ ~i.signed
  BY <1>3, <1>4, <1>5, <1>8
<1>9. CASE ~i.half /\ i.signed
  <2>1. Reverse(s, i) = Throw(s)
    BY <1>4, <1>9, Zenon
  <2>. QED BY <2>1, ThrowHarmless
<1>. QED BY <1>1, <1>6, <1>7, <1>8, <1>9

(* and so do b, bl and bx.                                                   *)
LEMMA BranchesType ==
  ASSUME NEW s \in States, ~s.thrown, NEW i \in Formats
  PROVE  /\ i.kind = "bx" => /\ BranchAndExchange(s, i) \in States
                             /\ Harmless(s, BranchAndExchange(s, i))
         /\ i.kind = "branch" => Branch(s, i) \in States /\ Harmless(s, Branch(s, i))
<1>1. PC \in Reg /\ LR \in Reg
  BY DEF PC, LR, Reg
<1>2. ASSUME i.kind = "bx"
      PROVE  /\ BranchAndExchange(s, i) \in States
             /\ Harmless(s, BranchAndExchange(s, i))
  <2>. DEFINE v == s.regs[i.rm]
  <2>1. v \in Int
    BY <1>2, Fields, StateType
  <2>2. BranchAndExchange(s, i) = IF v % 2 = 1 THEN Throw(s) ELSE Set(s, PC, v)
    BY DEF BranchAndExchange
  <2>. HIDE DEF v
  <2>3. Set(s, PC, v) \in States /\ Set(s, PC, v).thrown = s.thrown
    BY <1>1, <2>1, SetType
  <2>4. CASE v % 2 = 1
    BY <2>2, <2>4, ThrowHarmless
  <2>5. CASE v % 2 # 1
    BY <2>2, <2>3, <2>5 DEF Harmless
  <2>. QED BY <2>4, <2>5
<1>3. ASSUME i.kind = "branch"
      PROVE  Branch(s, i) \in States /\ Harmless(s, Branch(s, i))
  <2>. DEFINE back == s.regs[PC] - WordBytes  to == s.regs[PC] + i.n
              u == SetIf(i.link, s, LR, back)
  <2>1. back \in Int /\ to \in Int
    BY <1>1, <1>3, Fields, StateType DEF WordBytes
  <2>2. Branch(s, i) = Set(u, PC, to)
    BY DEF Branch
  <2>. HIDE DEF back, to
  <2>3. u \in States /\ u.thrown = s.thrown
    BY <1>1, <2>1, SetIfType
  <2>. HIDE DEF u
  <2>4. Set(u, PC, to) \in States /\ Set(u, PC, to).thrown = u.thrown
    BY <1>1, <2>1, <2>3, SetType
  <2>. QED BY <2>2, <2>3, <2>4 DEF Harmless
<1>. QED BY <1>2, <1>3

(* No instruction leaves the states, and one that throws is harmless.      *)
LEMMA ExecutedType ==
  ASSUME NEW s \in States, ~s.thrown, NEW i \in Formats, NEW old,
         i.kind = "block" => old \in [i.list -> Values]
  PROVE  Executed(s, i, old) \in States /\ Harmless(s, Executed(s, i, old))
<1>1. CASE i.kind = "single"
  BY <1>1, SingleType DEF Executed
<1>2. CASE i.kind = "halfword"
  BY <1>2, HalfwordType DEF Executed
<1>3. CASE i.kind = "doubleword"
  BY <1>3, DoublewordType DEF Executed
<1>4. CASE i.kind = "block"
  BY <1>4, BlockType DEF Executed
<1>5. CASE i.kind = "swap"
  BY <1>5, SwapType DEF Executed
<1>6. CASE i.kind = "reverse"
  BY <1>6, ReverseType DEF Executed
<1>7. CASE i.kind = "bx"
  BY <1>7, BranchesType DEF Executed
<1>8. CASE i.kind = "branch"
  BY <1>8, BranchesType DEF Executed
<1>. QED BY <1>1, <1>2, <1>3, <1>4, <1>5, <1>6, <1>7, <1>8, Fields
-------------------------------------------------------------------------------
(* Registers, memory and the values of the cached block transfers have     *)
(* their types.                                                            *)
TransferTypes == /\ regs \in [Reg -> Values]
                 /\ mem \in Memories
                 /\ DOMAIN values = Blocks
                 /\ \A i \in Blocks : values[i] \in [i.list -> Values]
                 /\ steps \in Nat

(* An instruction starts with the machine's state,                           *)
LEMMA StartType ==
  ASSUME TransferTypes
  PROVE  /\ Start \in States /\ ~Start.thrown /\ ~Start.jumped
         /\ Start.regs = regs /\ Start.mem = mem
  BY DEF TransferTypes, Start, States

(* and leaves one.                                                           *)
LEMMA ExecutionType ==
  ASSUME TransferTypes, NEW i \in Instructions
  PROVE  /\ Executed(Start, i, Old(i)) \in States
         /\ Harmless(Start, Executed(Start, i, Old(i)))
<1>1. i \in Formats
  BY TransferAssumption
<1>2. i.kind = "block" => Old(i) \in [i.list -> Values]
  BY DEF TransferTypes, Old, Blocks
<1>. QED BY <1>1, <1>2, StartType, ExecutedType

(* A word counts to sixteen at least.                                      *)
LEMMA RoomForWords == Size >= 16
<1>. DEFINE B == ByteSize
<1>1. B \in Nat /\ B > 1
  BY Places
<1>2. Size = B * (B * (B * B))
  <2>1. Place(1 + 1) = B * Place(1) /\ Place(2 + 1) = B * Place(2) /\ Place(3 + 1) = B * Place(3)
    BY Places
  <2>2. Place(1) = B /\ Place(4) = Size
    BY Places
  <2>. QED BY <2>1, <2>2
<1>. HIDE DEF B
<1>3. ASSUME NEW x \in Int, x > 0
      PROVE  B * x >= 2 * x /\ B * x \in Int
  BY <1>1, <1>3, SMTT(20)
<1>4. B * B >= 4 /\ B * B \in Int
  BY <1>1, <1>3
<1>5. B * (B * B) >= 8 /\ B * (B * B) \in Int
  BY <1>3, <1>4
<1>6. B * (B * (B * B)) >= 16
  BY <1>3, <1>5
<1>. QED BY <1>2, <1>6

(* The types hold at the start,                                              *)
LEMMA TransferTypesInit == Init => TransferTypes
<1>. SUFFICES ASSUME Init
              PROVE  TransferTypes
  OBVIOUS
<1>1. 2 * WordBytes \in Values
  BY RoomForWords, SizeType DEF Values, WordBytes
<1>2. regs \in [Reg -> Values]
  <2>1. PICK base \in Bases : regs = [r \in Reg |-> IF r = PC THEN 2 * WordBytes ELSE base[r]]
    BY DEF Init
  <2>2. base \in [Reg \ {PC} -> Values]
    BY TransferAssumption
  <2>. QED BY <1>1, <2>1, <2>2
<1>3. mem \in Memories
  <2>1. mem = <<>> /\ {} \in SUBSET Int
    BY DEF Init
  <2>2. mem \in [{} -> 1..ByteSize - 1]
    BY <2>1
  <2>. QED BY <2>1, <2>2 DEF Memories
<1>4. 0 \in Values
  BY SizeType DEF Values
<1>. QED BY <1>2, <1>3, <1>4 DEF Init, TransferTypes

(* after an instruction,                                                     *)
LEMMA ExecuteTypes ==
  ASSUME TransferTypes, NEW i \in Instructions, Execute(i)
  PROVE  TransferTypes'
<1>. DEFINE t == Executed(Start, i, Old(i))
            pc == (t.regs[PC] + (IF t.jumped THEN 2 * WordBytes ELSE WordBytes)) % Size
<1>1. t \in States
  BY ExecutionType
<1>2. /\ regs' = [t.regs EXCEPT ![PC] = pc]
      /\ mem' = t.mem
      /\ values' = IF i \in Blocks /\ ~t.thrown
                   THEN [values EXCEPT ![i] = BlockValues(Start, i, values[i])]
                   ELSE values
      /\ steps' = steps + 1
  BY DEF Execute
<1>. HIDE DEF t
<1>3. pc \in Values
  <2>. DEFINE x == t.regs[PC] + (IF t.jumped THEN 2 * WordBytes ELSE WordBytes)
  <2>1. PC \in Reg
    BY DEF PC, Reg
  <2>2. x \in Int
    BY <1>1, <2>1, StateType DEF WordBytes
  <2>. HIDE DEF x
  <2>3. x % Size \in 0..Size - 1
    BY <2>2, SizeType, Division
  <2>. QED BY <2>3 DEF Values, x
<1>. HIDE DEF pc
<1>4. regs' \in [Reg -> Values] /\ mem' \in Memories
  BY <1>1, <1>2, <1>3, StateType
<1>5. DOMAIN values' = Blocks /\ \A j \in Blocks : values'[j] \in [j.list -> Values]
  <2>1. CASE i \in Blocks /\ ~t.thrown
    <3>1. i \in Formats /\ i.kind = "block" /\ values[i] \in [i.list -> Values]
      BY <2>1, TransferAssumption DEF Blocks, TransferTypes
    <3>2. Start \in States
      BY StartType
    <3>3. BlockValues(Start, i, values[i]) \in [i.list -> Values]
      BY <3>1, <3>2, BlockValuesType
    <3>. QED BY <1>2, <2>1, <3>3 DEF TransferTypes
  <2>2. CASE ~(i \in Blocks /\ ~t.thrown)
    BY <1>2, <2>2 DEF TransferTypes
  <2>. QED BY <2>1, <2>2
<1>. QED BY <1>2, <1>4, <1>5 DEF TransferTypes, Blocks

(* and so after every step.                                                  *)
LEMMA TransferTypesNext == TransferTypes /\ [Next]_vars => TransferTypes'
<1>. SUFFICES ASSUME TransferTypes, [Next]_vars
              PROVE  TransferTypes'
  OBVIOUS
<1>1. ASSUME NEW i \in Instructions, Execute(i)
      PROVE  TransferTypes'
  BY <1>1, ExecuteTypes
<1>2. CASE UNCHANGED vars
  BY <1>2 DEF vars, TransferTypes, Blocks
<1>. QED BY <1>1, <1>2 DEF Next, SingleDataTransfer, HalfwordDataTransfer,
         DoublewordDataTransfer, BlockDataTransfer, SingleDataSwap, ByteReverse, Branches, Loop

(* Type correctness: whatever the program, the registers hold values of    *)
(* Width bits, the memory holds bytes, by whole addresses, and a cached    *)
(* block transfer holds one value for each of its registers.               *)
THEOREM TransferTypesCorrect == Spec => []TransferTypes
<1>1. Init => TransferTypes
  BY TransferTypesInit
<1>2. TransferTypes /\ [Next]_vars => TransferTypes'
  BY TransferTypesNext
<1>. QED BY <1>1, <1>2, PTL DEF Spec

(* An instruction that throws has changed no register and nothing in the   *)
(* guest's memory, for every program of every length.                      *)
THEOREM ThrowsCorrect == Spec => []ThrowsBeforeEffect
<1>1. TransferTypes => ThrowsBeforeEffect
  <2>. SUFFICES ASSUME TransferTypes, NEW i \in Instructions
                PROVE  LET t == Executed(Start, i, Old(i))
                       IN  t.thrown => /\ t.regs = regs
                                       /\ \A a \in 0..Size - 1 : Byte(t.mem, a) = Byte(mem, a)
    BY DEF ThrowsBeforeEffect
  <2>. QED BY ExecutionType, StartType DEF Harmless
<1>2. Spec => []TransferTypes
  BY TransferTypesCorrect
<1>. QED BY <1>1, <1>2, PTL
-------------------------------------------------------------------------------
(* What a block transfer stores and loads, when its base is not pc.        *)
LEMMA BlockStores ==
  ASSUME NEW s \in States, ~s.thrown, NEW i \in Formats, i.kind = "block", ~i.load,
         i.rn # PC, NEW old
  PROVE  /\ Block(s, i, old).mem
              = PutBlock(s.mem, s.regs[i.rn] + StartOffset(i), i.list, StoredValues(s, i))
         /\ Block(s, i, old).regs
              = IF i.wb
                THEN [s.regs EXCEPT ![i.rn] =
                        (s.regs[i.rn] + (IF i.up THEN 1 ELSE -1) * Length(i)) % Size]
                ELSE s.regs
         /\ Block(s, i, old).jumped = s.jumped
         /\ ~Block(s, i, old).thrown
<1>. DEFINE m == PutBlock(s.mem, s.regs[i.rn] + StartOffset(i), i.list, StoredValues(s, i))
            back == s.regs[i.rn] + (IF i.up THEN 1 ELSE -1) * Length(i)
            t == [s EXCEPT !.mem = m]
<1>1. Block(s, i, old) = SetIf(i.wb, t, i.rn, back)
  BY DEF Block, BlockValues
<1>. HIDE DEF m, back
<1>2. /\ t.mem = m /\ t.regs = s.regs /\ t.jumped = s.jumped /\ t.thrown = s.thrown
      /\ t = [regs |-> s.regs, mem |-> m, jumped |-> s.jumped, thrown |-> s.thrown]
  BY DEF States
<1>. HIDE DEF t
<1>3. i.wb \in BOOLEAN /\ s.jumped \in BOOLEAN
  BY Fields, StateType
<1>4. CASE i.wb
  <2>1. Block(s, i, old) = Set(t, i.rn, back)
    BY <1>1, <1>4 DEF SetIf
  <2>2. /\ Set(t, i.rn, back).mem = t.mem
        /\ Set(t, i.rn, back).regs = [t.regs EXCEPT ![i.rn] = back % Size]
        /\ Set(t, i.rn, back).thrown = t.thrown
    BY <1>2 DEF Set
  <2>3. Set(t, i.rn, back).jumped = (t.jumped \/ i.rn = PC)
    BY <1>2 DEF Set
  <2>. QED BY <1>2, <1>3, <1>4, <2>1, <2>2, <2>3 DEF back, m
<1>5. CASE ~i.wb
  BY <1>1, <1>2, <1>5 DEF SetIf, m
<1>. QED BY <1>4, <1>5

\* What a ldm does: its registers get the block's words, then the base is written back.
LEMMA BlockLoads ==
  ASSUME NEW s \in States, ~s.thrown, NEW i \in Formats, i.kind = "block", i.load,
         i.rn # PC, NEW old
  PROVE  /\ Block(s, i, old).mem = s.mem
         /\ \A r \in Reg : Block(s, i, old).regs[r]
              = IF i.wb /\ r = i.rn
                THEN (s.regs[i.rn] + (IF i.up THEN 1 ELSE -1) * Length(i)) % Size
                ELSE IF r \in i.list THEN LoadedValues(s, i, old)[r] ELSE s.regs[r]
         /\ Block(s, i, old).jumped <=> PC \in i.list
         /\ ~Block(s, i, old).thrown
<1>. DEFINE v == LoadedValues(s, i, old)
            back == s.regs[i.rn] + (IF i.up THEN 1 ELSE -1) * Length(i)
            f == [r \in Reg |-> IF r \in i.list THEN v[r] ELSE s.regs[r]]
            jumped == PC \in i.list
            t == [s EXCEPT !.regs = f, !.jumped = jumped]
<1>1. Block(s, i, old) = SetIf(i.wb, t, i.rn, back)
  BY DEF Block, BlockValues
<1>. HIDE DEF back, v
<1>0. jumped \in BOOLEAN
  OBVIOUS
<1>. HIDE DEF jumped, f
<1>2. /\ t.mem = s.mem /\ t.regs = f /\ t.jumped = jumped /\ t.thrown = s.thrown
      /\ DOMAIN t = {"regs", "mem", "jumped", "thrown"}
  BY DEF States
<1>. HIDE DEF t
<1>3. i.wb \in BOOLEAN
  BY Fields
<1>4. CASE i.wb
  <2>1. Block(s, i, old) = Set(t, i.rn, back)
    BY <1>1, <1>4 DEF SetIf
  <2>2. /\ Set(t, i.rn, back).mem = t.mem
        /\ Set(t, i.rn, back).regs = [t.regs EXCEPT ![i.rn] = back % Size]
        /\ Set(t, i.rn, back).thrown = t.thrown
    BY <1>2 DEF Set
  <2>3. Set(t, i.rn, back).jumped <=> (t.jumped \/ i.rn = PC)
    BY <1>2 DEF Set
  <2>. DEFINE to == back % Size
  <2>4. Set(t, i.rn, back).regs = [f EXCEPT ![i.rn] = to]
    BY <1>2, <2>2
  <2>. HIDE DEF to
  <2>5. \A r \in Reg : Set(t, i.rn, back).regs[r]
           = IF r = i.rn THEN to ELSE IF r \in i.list THEN v[r] ELSE s.regs[r]
    BY <2>4 DEF f
  <2>6. \A r \in Reg : Block(s, i, old).regs[r]
           = IF i.wb /\ r = i.rn THEN to ELSE IF r \in i.list THEN v[r] ELSE s.regs[r]
    BY <1>4, <2>1, <2>5
  <2>7. Block(s, i, old).mem = s.mem /\ ~Block(s, i, old).thrown
    BY <1>2, <2>1, <2>2
  <2>8. Block(s, i, old).jumped <=> PC \in i.list
    BY <1>0, <1>2, <2>1, <2>3 DEF jumped
  <2>. QED BY <2>6, <2>7, <2>8 DEF to, back, v
<1>5. CASE ~i.wb
  <2>1. Block(s, i, old) = t
    BY <1>1, <1>5 DEF SetIf
  <2>2. \A r \in Reg : t.regs[r] = IF r \in i.list THEN v[r] ELSE s.regs[r]
    BY <1>2 DEF f
  <2>3. t.jumped <=> PC \in i.list
    BY <1>0, <1>2 DEF jumped
  <2>. QED BY <1>2, <1>5, <2>1, <2>2, <2>3 DEF v
<1>. QED BY <1>4, <1>5

(* A register that was stored in a block is the word in its place.         *)
LEMMA BlockWord ==
  ASSUME NEW m, NEW a \in Int, NEW list \in SUBSET Reg, NEW v \in [list -> Values],
         NEW r \in list
  PROVE  Word(PutBlock(m, a, list, v), a + 4 * Rank(list, r)) = v[r]
<1>. DEFINE b == PutBlock(m, a, list, v)  k == Rank(list, r)  x == a + 4 * k
<1>1. r \in Reg /\ k \in Nat
  BY RankType, ListType
<1>2. ASSUME NEW j \in 0..3
      PROVE  Byte(b, x + j) = Digit(v[r], j)
  <2>. DEFINE y == x + j
  <2>1. y \in Int /\ y = a + 4 * Rank(list, r) + j
    BY <1>1
  <2>. HIDE DEF y, x, b, k
  <2>2. Byte(b, y) = Digit(v[r], j)
    BY <2>1, PutBlockByte DEF b
  <2>. QED BY <2>2 DEF y
<1>. HIDE DEF b, k
<1>3. x + 0 = x /\ x \in Int
  BY <1>1
<1>. HIDE DEF x
<1>4. /\ Byte(b, x) = Digit(v[r], 0) /\ Byte(b, x + 1) = Digit(v[r], 1)
      /\ Byte(b, x + 2) = Digit(v[r], 2) /\ Byte(b, x + 3) = Digit(v[r], 3)
  <2>1. \A j \in 0..3 : Byte(b, x + j) = Digit(v[r], j)
    BY <1>2
  <2>2. Byte(b, x + 0) = Digit(v[r], 0)
    BY <2>1
  <2>. QED BY <1>3, <2>1, <2>2
<1>5. Word(b, x) = Digit(v[r], 0) + ByteSize * (Digit(v[r], 1)
                     + ByteSize * (Digit(v[r], 2) + ByteSize * Digit(v[r], 3)))
  BY <1>4 DEF Word
<1>6. v[r] = Digit(v[r], 0) + ByteSize * (Digit(v[r], 1)
                     + ByteSize * (Digit(v[r], 2) + ByteSize * Digit(v[r], 3)))
  BY WordOfDigits
<1>. QED BY <1>5, <1>6 DEF b, x, k
-------------------------------------------------------------------------------
(* What is so of a frame while it counts: its bounds are those of its      *)
(* block, inside the address space, and the registers are in it.           *)
FrameIsStored(f, m) ==
  LET length == 4 * Cardinality(f.list)
      shift  == IF f.up = f.pre THEN 4 ELSE 0
  IN  /\ f.up \in BOOLEAN /\ f.pre \in BOOLEAN /\ f.rn \in Reg \ {PC} /\ f.list \in SUBSET Reg
      /\ f.saved \in [f.list -> Values] /\ f.before \in Values
      /\ f.after = f.before + (IF f.up THEN length ELSE -length)
      /\ f.lo = (IF f.up THEN f.before ELSE f.after) + shift
      /\ f.hi = f.lo + length
      /\ f.lo >= 0 /\ f.lo \in Int
      /\ \A r \in f.list : Word(m, f.lo + 4 * Rank(f.list, r)) = f.saved[r]

FramesStored == \A f \in frames : FrameIsStored(f, mem)

(* A frame whose bytes stay as they are stays stored.                      *)
LEMMA FrameKept ==
  ASSUME NEW m, NEW n, NEW f, FrameIsStored(f, m),
         \A a \in f.lo..f.hi - 1 : Byte(n, a) = Byte(m, a)
  PROVE  FrameIsStored(f, n)
<1>1. ASSUME NEW r \in f.list
      PROVE  Word(n, f.lo + 4 * Rank(f.list, r)) = Word(m, f.lo + 4 * Rank(f.list, r))
  <2>. DEFINE k == Rank(f.list, r)  x == f.lo + 4 * k  c == Cardinality(f.list)
  <2>1. f.list \in SUBSET Reg /\ f.lo \in Int /\ f.hi = f.lo + 4 * c
    BY DEF FrameIsStored
  <2>2. c \in Nat /\ k \in 0..c - 1
    <3>1. r \in Reg /\ c \in Nat
      BY <2>1, ListType
    <3>2. Rank(f.list, r) \in 0..Cardinality(f.list) /\ Rank(f.list, r) < Cardinality(f.list)
      BY <2>1, <3>1, RankType
    <3>. QED BY <3>1, <3>2
  <2>. HIDE DEF k, c
  <2>3. /\ x \in f.lo..f.hi - 1 /\ x + 1 \in f.lo..f.hi - 1 /\ x + 2 \in f.lo..f.hi - 1
        /\ x + 3 \in f.lo..f.hi - 1
    BY <2>1, <2>2
  <2>. HIDE DEF x
  <2>4. Word(n, x) = Word(m, x)
    BY <2>3 DEF Word
  <2>. QED BY <2>4 DEF x, k
<1>. QED BY <1>1 DEF FrameIsStored

(* A frame that was pushed is stored.                                      *)
LEMMA FramePushed ==
  ASSUME TransferTypes, NEW i \in Instructions, NEW t, t = Executed(Start, i, Old(i)),
         NEW f \in Pushed(i, t)
  PROVE  FrameIsStored(f, t.mem)
<1>1. /\ i.kind = "block" /\ ~i.load /\ i.wb /\ ~t.thrown /\ f = Frame(i, regs[i.rn])
      /\ InSpace(f.lo, f.hi)
  BY DEF Pushed, IsPush
<1>2. i \in Formats /\ Start \in States /\ ~Start.thrown /\ Start.regs = regs /\ Start.mem = mem
  BY TransferAssumption, StartType
<1>3. /\ i.list \in SUBSET Reg /\ i.rn \in Reg /\ i.up \in BOOLEAN /\ i.pre \in BOOLEAN
      /\ regs[i.rn] \in Values /\ regs[i.rn] \in Int
  BY <1>1, <1>2, Fields, StateType
<1>4. t = Block(Start, i, Old(i))
  BY <1>1 DEF Executed
<1>5. i.rn # PC
  BY <1>1, <1>2, <1>4, ThrowType DEF Block
<1>. DEFINE v == StoredValues(Start, i)  a == regs[i.rn] + StartOffset(i)
            c == Cardinality(i.list)
<1>6. t.mem = PutBlock(mem, a, i.list, v)
  <2>1. Block(Start, i, Old(i)).mem
          = PutBlock(Start.mem, Start.regs[i.rn] + StartOffset(i), i.list, v)
    BY <1>1, <1>2, <1>5, BlockStores
  <2>. QED BY <1>2, <1>4, <2>1
<1>7. v = [r \in i.list |-> regs[r]] /\ v \in [i.list -> Values]
  BY <1>2, <1>3, StateType DEF StoredValues
<1>8. c \in Nat
  BY <1>3, ListType
<1>9. /\ f.up = i.up /\ f.pre = i.pre /\ f.rn = i.rn /\ f.list = i.list /\ f.saved = v
      /\ f.before = regs[i.rn]
      /\ f.after = regs[i.rn] + (IF i.up THEN 1 ELSE -1) * Length(i)
      /\ f.lo = (IF i.up THEN regs[i.rn] ELSE f.after)
                  + (IF i.up = i.pre THEN WordBytes ELSE 0)
      /\ f.hi = (IF i.up THEN f.after ELSE regs[i.rn])
                  + (IF i.up = i.pre THEN WordBytes ELSE 0)
  BY <1>1, <1>7 DEF Frame
<1>10. Length(i) = 4 * c /\ a = f.lo /\ a \in Int
  BY <1>3, <1>8, <1>9 DEF Length, WordBytes, StartOffset, IndexingOffset
<1>11. ASSUME NEW r \in i.list
       PROVE  Word(t.mem, a + 4 * Rank(i.list, r)) = v[r]
  <2>. HIDE DEF a, v
  <2>. QED BY <1>3, <1>6, <1>7, <1>10, BlockWord
<1>12. f.lo >= 0 /\ f.lo \in Int
  BY <1>1, <1>10 DEF InSpace
<1>. HIDE DEF a, v
<1>13. /\ f.after = f.before + (IF f.up THEN 4 * c ELSE -(4 * c))
       /\ f.lo = (IF f.up THEN f.before ELSE f.after) + (IF f.up = f.pre THEN 4 ELSE 0)
       /\ f.hi = f.lo + 4 * c
  <2>. HIDE DEF c
  <2>. QED BY <1>3, <1>8, <1>9, <1>10 DEF WordBytes
<1>. QED BY <1>3, <1>5, <1>7, <1>9, <1>10, <1>11, <1>12, <1>13 DEF FrameIsStored

(* No step lets the memory lose a frame that is still on the stack.          *)
LEMMA FramesStoredNext == TransferTypes /\ FramesStored /\ [Next]_vars => FramesStored'
<1>. SUFFICES ASSUME TransferTypes, FramesStored, [Next]_vars
              PROVE  FramesStored'
  OBVIOUS
<1>1. ASSUME NEW i \in Instructions, Execute(i)
      PROVE  FramesStored'
  <2>. DEFINE t == Executed(Start, i, Old(i))
  <2>1. mem' = t.mem /\ frames' = Kept(t.mem) \cup Pushed(i, t)
    BY <1>1 DEF Execute
  <2>2. ASSUME NEW f \in Kept(t.mem)
        PROVE  FrameIsStored(f, t.mem)
    <3>1. FrameIsStored(f, mem) /\ \A a \in f.lo..f.hi - 1 : Byte(t.mem, a) = Byte(mem, a)
      BY DEF Kept, FramesStored
    <3>. HIDE DEF t
    <3>. QED BY <3>1, FrameKept
  <2>3. \A f \in Pushed(i, t) : FrameIsStored(f, t.mem)
    BY FramePushed
  <2>. HIDE DEF t
  <2>. QED BY <2>1, <2>2, <2>3 DEF FramesStored, FrameIsStored
<1>2. CASE UNCHANGED vars
  BY <1>2 DEF vars, FramesStored, FrameIsStored, Word, Byte
<1>. QED BY <1>1, <1>2 DEF Next, SingleDataTransfer, HalfwordDataTransfer,
         DoublewordDataTransfer, BlockDataTransfer, SingleDataSwap, ByteReverse, Branches, Loop
(* The opposite ldm takes back what the stm of a frame stored.             *)
LEMMA PopRestores ==
  ASSUME TransferTypes, NEW f, FrameIsStored(f, mem), regs[f.rn] = f.after
  PROVE  LET t == Executed(Start, Pop(f), <<>>)
         IN  /\ \A r \in f.list \ {f.rn} : t.regs[r] = f.saved[r]
             /\ t.regs[f.rn] = f.before
<1>. DEFINE i == Pop(f)  c == Cardinality(f.list)  a == regs[f.rn] + StartOffset(i)
            t == Executed(Start, i, <<>>)
<1>1. /\ i.kind = "block" /\ i.load /\ i.wb /\ i.rn = f.rn /\ i.list = f.list
      /\ i.up = ~f.up /\ i.pre = ~f.pre
  BY DEF Pop
<1>2. /\ f.up \in BOOLEAN /\ f.pre \in BOOLEAN /\ f.rn \in Reg \ {PC} /\ f.list \in SUBSET Reg
      /\ f.saved \in [f.list -> Values] /\ f.before \in Values
      /\ f.after = f.before + (IF f.up THEN 4 * c ELSE -(4 * c))
      /\ f.lo = (IF f.up THEN f.before ELSE f.after) + (IF f.up = f.pre THEN 4 ELSE 0)
      /\ f.lo >= 0 /\ f.lo \in Int
  BY DEF FrameIsStored
<1>3. i \in Formats
  <2>. DEFINE load == TRUE
  <2>1. load \in BOOLEAN
    OBVIOUS
  <2>2. i = [kind |-> "block", load |-> load, wb |-> load, up |-> ~f.up, pre |-> ~f.pre,
             rn |-> f.rn, list |-> f.list]
    BY DEF Pop
  <2>. HIDE DEF load, i
  <2>. QED BY <1>2, <2>1, <2>2 DEF Formats
<1>4. c \in Nat /\ f.before \in Int /\ f.after \in Int
  BY <1>2, ListType, SizeType DEF Values
<1>5. Length(i) = 4 * c
  BY <1>1 DEF Length, WordBytes
<1>6. StartOffset(i) = (IF ~f.up THEN 0 ELSE -(4 * c)) + (IF f.up = f.pre THEN 4 ELSE 0)
  BY <1>1, <1>2, <1>4, <1>5 DEF StartOffset, IndexingOffset, WordBytes
<1>. HIDE DEF i, c
<1>7. a = f.lo
  BY <1>2, <1>4, <1>6
<1>8. Start \in States /\ ~Start.thrown /\ Start.regs = regs /\ Start.mem = mem
  BY StartType
<1>9. \A r \in f.list : LoadedValues(Start, i, <<>>)[r] = f.saved[r]
  <2>1. ~NoByteAt(a)
    BY <1>2, <1>7 DEF NoByteAt
  <2>2. \A r \in f.list : LoadedValues(Start, i, <<>>)[r] = Word(mem, a + 4 * Rank(f.list, r))
    BY <1>1, <1>8, <2>1 DEF LoadedValues, WordBytes
  <2>. HIDE DEF a
  <2>. QED BY <1>7, <2>2 DEF FrameIsStored
<1>10. t = Block(Start, i, <<>>)
  BY <1>1 DEF Executed
<1>. DEFINE back == (regs[f.rn] + (IF i.up THEN 1 ELSE -1) * Length(i)) % Size
<1>11. \A r \in Reg : Block(Start, i, <<>>).regs[r]
              = IF i.wb /\ r = i.rn
                THEN (Start.regs[i.rn] + (IF i.up THEN 1 ELSE -1) * Length(i)) % Size
                ELSE IF r \in i.list THEN LoadedValues(Start, i, <<>>)[r] ELSE Start.regs[r]
  BY <1>1, <1>2, <1>3, <1>8, BlockLoads
<1>12. back = f.before
  <2>. DEFINE n == Length(i)  x == regs[f.rn] + (IF i.up THEN 1 ELSE -1) * n
  <2>1. x = f.before
    <3>1. n \in Int /\ n = 4 * c
      BY <1>4, <1>5
    <3>2. x = IF f.up THEN f.after - n ELSE f.after + n
      <4>. HIDE DEF n
      <4>1. CASE f.up
        <5>1. ~i.up
          BY <1>1, <4>1
        <5>2. x = f.after + (-1) * n
          BY <5>1
        <5>. HIDE DEF x
        <5>. QED BY <1>4, <3>1, <4>1, <5>2
      <4>2. CASE ~f.up
        <5>1. i.up
          BY <1>1, <4>2
        <5>2. x = f.after + 1 * n
          BY <5>1
        <5>. HIDE DEF x
        <5>. QED BY <1>4, <3>1, <4>2, <5>2
      <4>. QED BY <4>1, <4>2
    <3>3. f.after = IF f.up THEN f.before + n ELSE f.before - n
      <4>. HIDE DEF n, x
      <4>. QED BY <1>2, <1>4, <3>1
    <3>. HIDE DEF x, n
    <3>. QED BY <1>2, <1>4, <3>1, <3>2, <3>3
  <2>2. f.before % Size = f.before
    BY <1>2, SizeType, OwnRemainder DEF Values
  <2>. HIDE DEF x
  <2>3. x % Size = f.before
    BY <2>1, <2>2
  <2>. QED BY <2>3 DEF x
<1>13. t.regs[f.rn] = back
  BY <1>1, <1>2, <1>8, <1>10, <1>11
<1>14. ASSUME NEW r \in f.list \ {f.rn}
       PROVE  t.regs[r] = f.saved[r]
  <2>1. r \in Reg /\ r # i.rn /\ r \in i.list
    BY <1>1, <1>2
  <2>2. t.regs[r] = LoadedValues(Start, i, <<>>)[r]
    <3>. DEFINE w == (Start.regs[i.rn] + (IF i.up THEN 1 ELSE -1) * Length(i)) % Size
    <3>. HIDE DEF w
    <3>1. t.regs[r] = IF i.wb /\ r = i.rn THEN w
                      ELSE IF r \in i.list THEN LoadedValues(Start, i, <<>>)[r] ELSE Start.regs[r]
      BY <1>10, <1>11, <2>1 DEF w
    <3>. QED BY <2>1, <3>1
  <2>. QED BY <1>9, <2>2
<1>. QED BY <1>12, <1>13, <1>14 DEF i

(* Pushes and pops: in every program, at every time, the ldm opposite to a *)
(* stm whose bytes are still there, at the base where it left it, restores *)
(* the registers and the base.                                             *)
THEOREM PopsCorrect == Spec => []PopUndoesPush
<1>1. Init => TransferTypes /\ FramesStored
  BY TransferTypesInit DEF Init, FramesStored
<1>2. TransferTypes /\ FramesStored /\ [Next]_vars => (TransferTypes /\ FramesStored)'
  BY TransferTypesNext, FramesStoredNext
<1>3. TransferTypes /\ FramesStored => PopUndoesPush
  BY PopRestores DEF FramesStored, PopUndoesPush
<1>. QED BY <1>1, <1>2, <1>3, PTL DEF Spec
-------------------------------------------------------------------------------
(* A load or a store at the base plus an offset, without write-back.       *)
LEMMA PlainTransfer ==
  ASSUME NEW s \in States, NEW j, ~j.wb, j.pre, j.up,
         j.offset.by = "immediate", j.offset.n \in Int, NEW a,
         s.regs[j.rn] \in Int, a = (s.regs[j.rn] + j.offset.n) % Size
  PROVE  Single(s, j) = IF j.load
                        THEN Set(s, j.rd, IF j.byte THEN Byte(s.mem, a) ELSE Word(s.mem, a))
                        ELSE Store(s, a, IF j.byte THEN 1 ELSE WordBytes, s.regs[j.rd])
<1>1. ~WritesBack(j)
  BY DEF WritesBack
<1>2. ~IllegalAddressing(j)
  BY <1>1 DEF IllegalAddressing
<1>3. MemoryAddress(s, j) = a
  <2>1. MemoryAddress(s, j) = (s.regs[j.rn] + 1 * j.offset.n) % Size
    BY DEF MemoryAddress, AddressWithOffset, Offset
  <2>2. 1 * j.offset.n = j.offset.n
    OBVIOUS
  <2>. QED BY <2>1, <2>2
<1>4. Single(s, j) = TransferFirst(s, j)
  BY <1>1, <1>2 DEF Single, SetIf
<1>. QED BY <1>3, <1>4 DEF TransferFirst

(* A swap is a load and a store of the same state.                         *)
LEMMA SwapCorrect ==
  ASSUME TransferTypes, NEW i \in Formats, i.kind = "swap"
  PROVE  SwapIsLoadAndStore(i)
<1>. DEFINE t == Executed(Start, i, <<>>)
            As(load, r) == Single(Start, [OneWord(i.rn, r, load, 0) EXCEPT !.byte = i.byte])
            a == regs[i.rn]
            n == IF i.byte THEN 1 ELSE WordBytes
            v == Word(mem, a) % Place(n)
            w == IF i.byte THEN Byte(mem, a) ELSE Word(mem, a)
<1>. SUFFICES ASSUME ~t.thrown
              PROVE  t.regs = As(TRUE, i.rd).regs /\ t.mem = As(FALSE, i.rm).mem
  BY DEF SwapIsLoadAndStore
<1>1. /\ i.rn \in Reg /\ i.rd \in Reg /\ i.rm \in Reg /\ i.byte \in BOOLEAN
      /\ Start \in States /\ ~Start.thrown /\ Start.regs = regs /\ Start.mem = mem
  BY Fields, StartType
<1>2. /\ a \in Values /\ a \in Int /\ regs[i.rm] \in Int /\ Word(mem, a) \in Values
      /\ Size \in Nat \ {0}
  BY <1>1, StateType, WordType, SizeType
<1>3. 0 % Size = 0 /\ (a + 0) % Size = a
  <2>. DEFINE zero == 0
  <2>1. a + 0 = a /\ zero \in 0..Size - 1 /\ a \in 0..Size - 1
    BY <1>2 DEF Values
  <2>. HIDE DEF zero, a
  <2>2. zero % Size = zero
    BY <1>2, <2>1, OwnRemainder
  <2>3. a % Size = a
    BY <1>2, <2>1, OwnRemainder
  <2>. QED BY <2>1, <2>2, <2>3 DEF zero
<1>4. ASSUME NEW load \in BOOLEAN, NEW r \in Reg
      PROVE  As(load, r) = IF load THEN Set(Start, r, w) ELSE Store(Start, a, n, regs[r])
  <2>. DEFINE zero == 0
              j == [OneWord(i.rn, r, load, zero) EXCEPT !.byte = i.byte]
  <2>0. zero % Size = zero /\ zero \in Int
    BY <1>3
  <2>. HIDE DEF zero
  <2>1. /\ ~j.wb /\ j.pre /\ j.up /\ (j.byte <=> i.byte) /\ j.rn = i.rn /\ j.rd = r
        /\ (j.load <=> load) /\ j.offset.by = "immediate" /\ j.offset.n = zero
    <3>1. j.offset.n = zero % Size
      BY DEF OneWord
    <3>. QED BY <1>1, <2>0, <3>1 DEF OneWord
  <2>. HIDE DEF j
  <2>2. /\ a = (Start.regs[j.rn] + j.offset.n) % Size /\ Start.regs[j.rn] \in Int
        /\ j.offset.n \in Int
    BY <1>1, <1>2, <1>3, <2>0, <2>1 DEF zero
  <2>. HIDE DEF a
  <2>3. Single(Start, j)
          = IF j.load
            THEN Set(Start, j.rd, IF j.byte THEN Byte(Start.mem, a) ELSE Word(Start.mem, a))
            ELSE Store(Start, a, IF j.byte THEN 1 ELSE WordBytes, Start.regs[j.rd])
    BY <1>1, <2>1, <2>2, PlainTransfer
  <2>. QED BY <1>1, <2>1, <2>3 DEF j, zero
<1>5. v = w /\ w \in Int
  <2>1. CASE i.byte
    BY <1>1, <2>1, StateType, WordType
  <2>2. CASE ~i.byte
    <3>1. Word(mem, a) % Size = Word(mem, a) /\ Place(4) = Size
      BY <1>2, OwnRemainder, Places DEF Values
    <3>. QED BY <1>1, <2>2, <3>1, StateType DEF WordBytes
  <2>. QED BY <2>1, <2>2
<1>6. t = IF PC \in {i.rn, i.rd, i.rm} THEN Throw(Start)
          ELSE Set(Store(Start, a, n, regs[i.rm]), i.rd, v)
  BY <1>1 DEF Executed, Swap
<1>. HIDE DEF t, v
<1>7. t = Set(Store(Start, a, n, regs[i.rm]), i.rd, v)
  BY <1>1, <1>6, ThrowType
<1>8. n \in Nat
  BY DEF WordBytes
<1>. HIDE DEF n, a, w, As
<1>. DEFINE u == Store(Start, a, n, regs[i.rm])
<1>9. u \in States /\ u.regs = regs
  BY <1>1, <1>2, <1>8, StoreType
<1>. HIDE DEF u
<1>10. t.mem = u.mem /\ t.regs = [regs EXCEPT ![i.rd] = w % Size]
  <2>1. Set(u, i.rd, w).mem = u.mem
    BY <1>1, <1>5, <1>9, SetType
  <2>2. Set(u, i.rd, w).regs = [u.regs EXCEPT ![i.rd] = w % Size]
    BY <1>1, <1>5, <1>9, SetEffect
  <2>. QED BY <1>5, <1>7, <1>9, <2>1, <2>2 DEF u
<1>11. As(TRUE, i.rd).regs = [regs EXCEPT ![i.rd] = w % Size]
  <2>1. Set(Start, i.rd, w).regs = [Start.regs EXCEPT ![i.rd] = w % Size]
    BY <1>1, <1>5, SetEffect
  <2>. QED BY <1>1, <1>4, <2>1
<1>12. As(FALSE, i.rm) = u
  BY <1>1, <1>4 DEF u
<1>. QED BY <1>10, <1>11, <1>12 DEF As
(* A ldr or str of one register goes to the address that its base and its  *)
(* offset add up to.                                                       *)
LEMMA AddedAddress ==
  ASSUME NEW x \in Values, NEW offset \in Int, NEW a \in Values, x + offset = a
  PROVE  a = (x + (offset % Size)) % Size /\ offset % Size \in Int /\ x \in Int
<1>1. Size \in Nat \ {0} /\ x \in Int /\ a % Size = a
  BY SizeType, OwnRemainder DEF Values
<1>2. (x + offset) % Size = (x + (offset % Size)) % Size
  BY <1>1, RemainderOfSum
<1>3. offset % Size \in Int
  BY <1>1, Division
<1>. QED BY <1>1, <1>2, <1>3

(* A ldr or str with an immediate offset moves the word at base plus offset. *)
LEMMA WordTransferred ==
  ASSUME NEW s \in States, NEW j, ~j.wb, j.pre, j.up, ~j.byte, j.rn \in Reg,
         j.offset.by = "immediate", NEW offset \in Int, j.offset.n = offset % Size,
         NEW a \in Values, s.regs[j.rn] + offset = a
  PROVE  Single(s, j) = IF j.load THEN Set(s, j.rd, Word(s.mem, a))
                        ELSE Store(s, a, WordBytes, s.regs[j.rd])
<1>1. s.regs[j.rn] \in Values
  BY StateType
<1>2. /\ a = (s.regs[j.rn] + (offset % Size)) % Size /\ offset % Size \in Int
      /\ s.regs[j.rn] \in Int
  BY <1>1, AddedAddress
<1>3. Single(s, j) = IF j.load
                     THEN Set(s, j.rd, IF j.byte THEN Byte(s.mem, a) ELSE Word(s.mem, a))
                     ELSE Store(s, a, IF j.byte THEN 1 ELSE WordBytes, s.regs[j.rd])
  BY <1>2, PlainTransfer
<1>. QED BY <1>3

(* A doubleword is two words.                                              *)
LEMMA DoublewordCorrect ==
  ASSUME TransferTypes, NEW i \in Formats, i.kind = "doubleword"
  PROVE  DoublewordIsTwoWords(i)
<1>. DEFINE t == Executed(Start, i, <<>>)
            a == MemoryAddress(Start, i)
            offset == a - regs[i.rn]
            Loaded(k) == Single(Start, OneWord(i.rn, i.rd + k, TRUE, offset + k * WordBytes))
            first == Single(Start, OneWord(i.rn, i.rd, FALSE, offset))
            stored == Single(first, OneWord(i.rn, i.rd + 1, FALSE, offset + WordBytes))
<1>. SUFFICES ASSUME ~t.thrown, InSpace(0, a + 2 * WordBytes)
              PROVE  IF i.load
                     THEN \A k \in 0..1 : \/ t.regs[i.rd + k] = Loaded(k).regs[i.rd + k]
                                          \/ WritesBack(i) /\ i.rd + k = i.rn
                     ELSE t.mem = stored.mem
  BY DEF DoublewordIsTwoWords
<1>1. /\ i.rn \in Reg /\ i.rd \in Reg /\ i.load \in BOOLEAN
      /\ Start \in States /\ ~Start.thrown /\ Start.regs = regs /\ Start.mem = mem
  BY Fields, StartType
<1>2. t = IF IllegalAddressing(i) \/ i.rd % 2 # 0 THEN Throw(Start)
          ELSE SetIf(WritesBack(i),
                 IF i.load
                 THEN Set(Set(Start, i.rd, Word(Start.mem, a)), i.rd + 1,
                          Word(Start.mem, a + WordBytes))
                 ELSE Store(Store(Start, a, WordBytes, Start.regs[i.rd]),
                            a + WordBytes, WordBytes, Start.regs[i.rd + 1]),
                 i.rn, AddressWithOffset(Start, i))
  BY DEF Executed, Doubleword
<1>3. ~IllegalAddressing(i) /\ i.rd % 2 = 0
  <2>. HIDE DEF t
  <2>. QED BY <1>1, <1>2, ThrowType
<1>4. i.rd + 1 \in Reg
  BY <1>1, <1>3 DEF Reg
<1>. DEFINE back == AddressWithOffset(Start, i)
<1>5. back \in Values /\ a \in Values
  <2>. DEFINE x == Start.regs[i.rn] + (IF i.up THEN 1 ELSE -1) * Offset(Start, i.offset)
  <2>1. x \in Int
    BY <1>1, StateType, Fields, OffsetType
  <2>. HIDE DEF x
  <2>2. x % Size \in Values
    BY <2>1, SizeType, Division DEF Values
  <2>3. back \in Values
    BY <2>2 DEF AddressWithOffset, x
  <2>. QED BY <1>1, <2>3, StateType DEF MemoryAddress
<1>. HIDE DEF back, a
<1>6. Size \in Nat \ {0} /\ a \in Int /\ back \in Int /\ a + WordBytes \in Values
      /\ regs[i.rn] \in Int /\ regs[i.rd] \in Int /\ regs[i.rd + 1] \in Int
  <2>1. Size \in Nat \ {0} /\ a + 2 * 4 <= Size
    BY SizeType DEF InSpace, WordBytes
  <2>. QED BY <1>1, <1>4, <1>5, <2>1, StateType DEF Values, WordBytes
<1>8. WordBytes \in Nat
  BY DEF WordBytes
<1>7. offset \in Int /\ offset + WordBytes \in Int
      /\ regs[i.rn] + offset = a /\ regs[i.rn] + (offset + WordBytes) = a + WordBytes
      /\ offset + 0 * WordBytes = offset /\ offset + 1 * WordBytes = offset + WordBytes
      /\ i.rd + 0 = i.rd
  <2>1. i.rd + 0 = i.rd
    BY <1>1 DEF Reg
  <2>. DEFINE x == regs[i.rn]  k == WordBytes
  <2>2. x \in Int /\ a \in Int /\ k \in Int /\ offset = a - x
    BY <1>6, <1>8
  <2>. HIDE DEF x, k, offset
  <2>3. /\ offset \in Int /\ offset + k \in Int /\ x + offset = a
        /\ x + (offset + k) = a + k /\ offset + 0 * k = offset /\ offset + 1 * k = offset + k
    BY <2>2
  <2>. QED BY <2>1, <2>3 DEF x, k
<1>. HIDE DEF offset
<1>. DEFINE b == a + WordBytes  next == offset + WordBytes  r == i.rd + 1
<1>9. b \in Values /\ next \in Int /\ r \in Reg /\ regs[i.rn] + next = b /\ b \in Int
      /\ regs[r] \in Int
  BY <1>4, <1>6, <1>7 DEF WordBytes
<1>10. t = SetIf(WritesBack(i),
                 IF i.load
                 THEN Set(Set(Start, i.rd, Word(mem, a)), r, Word(mem, b))
                 ELSE Store(Store(Start, a, WordBytes, regs[i.rd]), b, WordBytes, regs[r]),
                 i.rn, back)
  <2>. HIDE DEF t
  <2>. QED BY <1>1, <1>2, <1>3 DEF back
<1>. HIDE DEF t
<1>11. CASE i.load
  <2>. DEFINE v == Word(mem, a)  w == Word(mem, b)
              u == Set(Start, i.rd, v)  x == Set(u, r, w)
  <2>1. v \in Int /\ w \in Int
    BY <1>1, StateType
  <2>2. Loaded(0) = Set(Start, i.rd, v) /\ Loaded(1) = Set(Start, r, w)
    <3>. HIDE DEF b, next, r
    <3>0. /\ Start.regs[i.rn] + offset = a /\ Start.regs[i.rn] + next = b
          /\ offset \in Int /\ next \in Int /\ a \in Values /\ b \in Values
          /\ Start \in States /\ i.rn \in Reg
      BY <1>1, <1>5, <1>7, <1>9
    <3>. DEFINE j == OneWord(i.rn, i.rd, TRUE, offset)  k == OneWord(i.rn, r, TRUE, next)
    <3>1. /\ ~j.wb /\ j.pre /\ j.up /\ ~j.byte /\ j.load /\ j.rn = i.rn /\ j.rd = i.rd
          /\ j.offset.by = "immediate" /\ j.offset.n = offset % Size
      BY DEF OneWord
    <3>2. /\ ~k.wb /\ k.pre /\ k.up /\ ~k.byte /\ k.load /\ k.rn = i.rn /\ k.rd = r
          /\ k.offset.by = "immediate" /\ k.offset.n = next % Size
      BY DEF OneWord
    <3>. HIDE DEF j, k
    <3>3. Single(Start, j) = IF j.load THEN Set(Start, j.rd, Word(Start.mem, a))
                             ELSE Store(Start, a, WordBytes, Start.regs[j.rd])
      BY <3>0, <3>1, WordTransferred
    <3>4. Single(Start, k) = IF k.load THEN Set(Start, k.rd, Word(Start.mem, b))
                             ELSE Store(Start, b, WordBytes, Start.regs[k.rd])
      BY <3>0, <3>2, WordTransferred
    <3>5. Single(Start, j) = Set(Start, i.rd, v) /\ Single(Start, k) = Set(Start, r, w)
      BY <1>1, <3>1, <3>2, <3>3, <3>4
    <3>. QED BY <1>7, <3>5 DEF b, next, r, j, k
  <2>. HIDE DEF v, w, b, Loaded
  <2>3. u \in States /\ u.regs = [regs EXCEPT ![i.rd] = v % Size]
    <3>1. u \in States
      BY <1>1, <2>1, SetType
    <3>. QED BY <1>1, <2>1, <3>1, SetEffect
  <2>. HIDE DEF u, r
  <2>4. x \in States /\ x.regs = [u.regs EXCEPT ![r] = w % Size]
    <3>1. x \in States
      BY <1>9, <2>1, <2>3, SetType
    <3>2. r \in Reg /\ w \in Int /\ u \in States
      BY <1>9, <2>1, <2>3
    <3>3. Set(u, r, w).regs = [u.regs EXCEPT ![r] = w % Size]
      BY <3>2, SetEffect
    <3>. QED BY <3>1, <3>3
  <2>5. t = SetIf(WritesBack(i), x, i.rn, back)
    BY <1>10, <1>11 DEF u, v, w, b
  <2>. HIDE DEF x
  <2>6. \A y \in Reg : t.regs[y] = x.regs[y] \/ (WritesBack(i) /\ y = i.rn)
    <3>1. Set(x, i.rn, back).regs = [x.regs EXCEPT ![i.rn] = back % Size]
      BY <1>1, <1>6, <2>4, SetEffect
    <3>2. x.regs \in [Reg -> Values]
      BY <2>4, StateType
    <3>. QED BY <2>5, <3>1, <3>2 DEF SetIf
  <2>7. regs \in [Reg -> Values]
    BY <1>1, StateType
  <2>8. Loaded(0).regs = [regs EXCEPT ![i.rd] = v % Size]
    BY <1>1, <2>1, <2>2, SetEffect
  <2>9. Loaded(1).regs = [regs EXCEPT ![r] = w % Size]
    BY <1>1, <1>9, <2>1, <2>2, SetEffect
  <2>10. i.rd # r
    BY <1>1 DEF r, Reg
  <2>11. x.regs[i.rd] = v % Size /\ x.regs[r] = w % Size
    BY <1>1, <1>9, <2>3, <2>4, <2>7, <2>10
  <2>12. Loaded(0).regs[i.rd] = v % Size /\ Loaded(1).regs[r] = w % Size
    BY <1>1, <1>9, <2>7, <2>8, <2>9
  <2>13. \/ t.regs[i.rd + 0] = Loaded(0).regs[i.rd + 0]
         \/ WritesBack(i) /\ i.rd + 0 = i.rn
    BY <1>1, <1>7, <2>6, <2>11, <2>12
  <2>14. \/ t.regs[i.rd + 1] = Loaded(1).regs[i.rd + 1]
         \/ WritesBack(i) /\ i.rd + 1 = i.rn
    BY <1>9, <2>6, <2>11, <2>12 DEF r
  <2>. QED BY <1>11, <2>13, <2>14
<1>12. CASE ~i.load
  <2>. DEFINE u == Store(Start, a, WordBytes, regs[i.rd])
              x == Store(u, b, WordBytes, regs[r])
  <2>. HIDE DEF b, r, next
  <2>0. /\ Start.regs[i.rn] + offset = a /\ regs[i.rn] + next = b
        /\ offset \in Int /\ next \in Int /\ a \in Values /\ b \in Values
        /\ Start \in States /\ i.rn \in Reg
    BY <1>1, <1>5, <1>7, <1>9
  <2>2. u \in States /\ u.regs = regs
    <3>. DEFINE v == regs[i.rd]
    <3>1. v \in Int /\ a \in Int
      BY <1>6
    <3>. HIDE DEF v
    <3>2. /\ Store(Start, a, WordBytes, v) \in States
          /\ Store(Start, a, WordBytes, v).regs = Start.regs
      BY <1>1, <1>8, <3>1, StoreType
    <3>. QED BY <1>1, <3>2 DEF v
  <2>. DEFINE j == OneWord(i.rn, i.rd, FALSE, offset)  k == OneWord(i.rn, r, FALSE, next)
  <2>1. /\ ~j.wb /\ j.pre /\ j.up /\ ~j.byte /\ ~j.load /\ j.rn = i.rn /\ j.rd = i.rd
        /\ j.offset.by = "immediate" /\ j.offset.n = offset % Size
    BY DEF OneWord
  <2>3. /\ ~k.wb /\ k.pre /\ k.up /\ ~k.byte /\ ~k.load /\ k.rn = i.rn /\ k.rd = r
        /\ k.offset.by = "immediate" /\ k.offset.n = next % Size
    BY DEF OneWord
  <2>4. first = Single(Start, j) /\ stored = Single(first, k)
    BY DEF next, r
  <2>. HIDE DEF j, k, first
  <2>5. first = u
    <3>1. Single(Start, j) = IF j.load THEN Set(Start, j.rd, Word(Start.mem, a))
                             ELSE Store(Start, a, WordBytes, Start.regs[j.rd])
      BY <2>0, <2>1, WordTransferred
    <3>. QED BY <1>1, <2>1, <2>4, <3>1
  <2>6. stored = x
    <3>. HIDE DEF u
    <3>1. u.regs[k.rn] + next = b /\ k.rn \in Reg
      BY <2>0, <2>2, <2>3
    <3>2. Single(u, k) = IF k.load THEN Set(u, k.rd, Word(u.mem, b))
                         ELSE Store(u, b, WordBytes, u.regs[k.rd])
      BY <2>0, <2>2, <2>3, <3>1, WordTransferred
    <3>. QED BY <2>2, <2>3, <2>4, <2>5, <3>2
  <2>7. x \in States
    BY <1>8, <1>9, <2>2, StoreType
  <2>8. t = SetIf(WritesBack(i), x, i.rn, back)
    BY <1>10, <1>12 DEF u
  <2>. HIDE DEF x, stored
  <2>9. t.mem = x.mem
    BY <1>1, <1>6, <2>7, <2>8, SetIfType
  <2>. QED BY <1>12, <2>6, <2>9
<1>. QED BY <1>1, <1>11, <1>12
-------------------------------------------------------------------------------
(* A load or a store of a word with write-back, by a word up or down.      *)
LEMMA EachAddress ==
  ASSUME NEW s, NEW e, e.offset.by = "immediate", e.offset.n = 4,
         NEW next, next = (s.regs[e.rn] + (IF e.up THEN 4 ELSE -4)) % Size
  PROVE  /\ AddressWithOffset(s, e) = next
         /\ MemoryAddress(s, e) = IF e.pre THEN next ELSE s.regs[e.rn]
<1>1. AddressWithOffset(s, e) = (s.regs[e.rn] + (IF e.up THEN 1 ELSE -1) * 4) % Size
  BY DEF AddressWithOffset, Offset
<1>2. (IF e.up THEN 1 ELSE -1) * 4 = IF e.up THEN 4 ELSE -4
  OBVIOUS
<1>3. AddressWithOffset(s, e) = next
  BY <1>1, <1>2
<1>. QED BY <1>3 DEF MemoryAddress

\* One of the single transfers of a block: the base moves on, and one word with it.
LEMMA EachTransferred ==
  ASSUME NEW s \in States, ~s.thrown, NEW e, e.wb, ~e.byte, e.rn \in Reg, e.rn # PC,
         e.rd \in Reg, e.load \in BOOLEAN, e.offset.by = "immediate", e.rn # e.rd,
         NEW next \in Values, AddressWithOffset(s, e) = next,
         NEW a \in Int, MemoryAddress(s, e) = a
  PROVE  /\ Single(s, e) \in States /\ ~Single(s, e).thrown
         /\ Single(s, e).regs[e.rn] = next
         /\ \A r \in Reg \ {e.rn} : Single(s, e).regs[r] = IF e.load /\ r = e.rd
                                                           THEN Word(s.mem, a) ELSE s.regs[r]
         /\ Single(s, e).mem = IF e.load THEN s.mem ELSE Put(s.mem, a, 4, s.regs[e.rd])
         /\ Single(s, e).jumped <=> s.jumped \/ (e.load /\ e.rd = PC)
<1>. DEFINE v == Word(s.mem, a)  w == s.regs[e.rd]
            t == IF e.load THEN Set(s, e.rd, v) ELSE Store(s, a, WordBytes, w)
<1>1. /\ s.regs \in [Reg -> Values] /\ v \in Values /\ v \in Int /\ w \in Int
      /\ s.regs[e.rn] \in Int /\ next \in Int /\ WordBytes \in Nat
      /\ s.jumped \in BOOLEAN
  BY StateType, WordType, SizeType DEF Values, WordBytes
<1>2. WritesBack(e) /\ ~IllegalAddressing(e)
  BY DEF WritesBack, IllegalAddressing
<1>5. Single(s, e) = Set(t, e.rn, next)
  BY <1>2 DEF Single, SetIf, TransferFirst
<1>6. v % Size = v /\ next % Size = next
  BY <1>1, SizeType, OwnRemainder DEF Values
<1>. HIDE DEF v, w
<1>7. /\ t \in States /\ t.thrown = s.thrown
      /\ t.regs = IF e.load THEN [s.regs EXCEPT ![e.rd] = v] ELSE s.regs
      /\ t.mem = IF e.load THEN s.mem ELSE Put(s.mem, a, 4, w)
  <2>1. /\ Set(s, e.rd, v) \in States /\ Set(s, e.rd, v).thrown = s.thrown
        /\ Set(s, e.rd, v).mem = s.mem
    BY <1>1, SetType
  <2>2. Set(s, e.rd, v).regs = [s.regs EXCEPT ![e.rd] = v]
    BY <1>1, <1>6, SetEffect
  <2>3. /\ Store(s, a, WordBytes, w) \in States /\ Store(s, a, WordBytes, w).thrown = s.thrown
        /\ Store(s, a, WordBytes, w).regs = s.regs
    <3>1. WordBytes \in Nat /\ w \in Int
      BY <1>1
    <3>. QED BY <3>1, StoreType
  <2>4. Store(s, a, WordBytes, w).mem = Put(s.mem, a, 4, w)
    BY StoreEffect DEF WordBytes
  <2>. QED BY <2>1, <2>2, <2>3, <2>4
<1>8. t.jumped <=> s.jumped \/ (e.load /\ e.rd = PC)
  <2>1. Set(s, e.rd, v).jumped <=> s.jumped \/ e.rd = PC
    BY <1>1, SetEffect
  <2>2. Store(s, a, WordBytes, w).jumped = s.jumped
    BY StoreEffect
  <2>. QED BY <2>1, <2>2
<1>. HIDE DEF t
<1>. DEFINE u == Set(t, e.rn, next)
<1>17. t \in States /\ next \in Int
  BY <1>1, <1>7
<1>9. /\ Single(s, e) \in States /\ Single(s, e).thrown = t.thrown /\ Single(s, e).mem = t.mem
  <2>1. u \in States /\ u.thrown = t.thrown /\ u.mem = t.mem
    BY <1>17, SetType
  <2>. QED BY <1>5, <2>1
<1>10. Single(s, e).regs = [t.regs EXCEPT ![e.rn] = next]
  BY <1>1, <1>5, <1>6, <1>7, SetEffect
<1>11. Single(s, e).jumped <=> t.jumped \/ e.rn = PC
  <2>1. u.jumped <=> t.jumped \/ e.rn = PC
    BY <1>17, SetEffect
  <2>. QED BY <1>5, <2>1
<1>12. t.regs \in [Reg -> Values]
  BY <1>7, StateType
<1>13. Single(s, e).regs[e.rn] = next
  BY <1>10, <1>12
<1>14. ASSUME NEW r \in Reg \ {e.rn}
       PROVE  Single(s, e).regs[r] = IF e.load /\ r = e.rd THEN v ELSE s.regs[r]
  <2>1. Single(s, e).regs[r] = t.regs[r]
    BY <1>10, <1>12
  <2>2. t.regs[r] = IF e.load /\ r = e.rd THEN v ELSE s.regs[r]
    BY <1>1, <1>7
  <2>. QED BY <2>1, <2>2
<1>15. Single(s, e).jumped <=> s.jumped \/ (e.load /\ e.rd = PC)
  BY <1>8, <1>11
<1>16. ~Single(s, e).thrown
  BY <1>7, <1>9
<1>. QED BY <1>7, <1>9, <1>13, <1>14, <1>15, <1>16 DEF v, w

(* The register of each turn, and the registers that k turns have taken.   *)
Turn(i, k) == IF i.up THEN k - 1 ELSE 16 - k

Taken(i, k) == {r \in i.list : IF i.up THEN r < k ELSE r > 15 - k}

\* A turn takes its register from the list, if it is there, and is the one of its rank.
LEMMA TakenNext ==
  ASSUME NEW i \in Formats, i.kind = "block", NEW k \in 0..15, NEW r, r = Turn(i, k + 1)
  PROVE  /\ r \in Reg /\ r \notin Taken(i, k) /\ Cardinality(Taken(i, k)) \in Nat
         /\ r \notin i.list => Taken(i, k + 1) = Taken(i, k)
         /\ r \in i.list =>
              /\ Taken(i, k + 1) = Taken(i, k) \cup {r}
              /\ Cardinality(Taken(i, k + 1)) = Cardinality(Taken(i, k)) + 1
              /\ IF i.up THEN Cardinality(Taken(i, k)) = Rank(i.list, r)
                 ELSE Cardinality(Taken(i, k)) + 1 + Rank(i.list, r) = Cardinality(i.list)
<1>1. i.list \in SUBSET Reg /\ i.up \in BOOLEAN
  BY Fields
<1>2. \A q \in i.list : q \in Int /\ q \in 0..15
  BY <1>1 DEF Reg
<1>3. r = IF i.up THEN k ELSE 15 - k
  BY DEF Turn
<1>4. r \in Reg /\ r \notin Taken(i, k)
  BY <1>1, <1>3 DEF Reg, Taken
<1>5. r \notin i.list => Taken(i, k + 1) = Taken(i, k)
  BY <1>1, <1>2, <1>3 DEF Taken
<1>6. r \in i.list => Taken(i, k + 1) = Taken(i, k) \cup {r}
  BY <1>1, <1>2, <1>3 DEF Taken
<1>7. IsFiniteSet(i.list) /\ IsFiniteSet(Taken(i, k))
  <2>1. Taken(i, k) \in SUBSET i.list
    BY DEF Taken
  <2>2. IsFiniteSet(i.list)
    BY <1>1, ListType
  <2>. QED BY <2>1, <2>2, FS_Subset
<1>8. Cardinality(Taken(i, k)) \in Nat
  BY <1>7, FS_CardinalityType
<1>9. ASSUME r \in i.list
      PROVE  Cardinality(Taken(i, k + 1)) = Cardinality(Taken(i, k)) + 1
  <2>1. Cardinality(Taken(i, k) \cup {r}) = Cardinality(Taken(i, k)) + 1
    BY <1>4, <1>7, FS_AddElement
  <2>. QED BY <1>6, <1>9, <2>1
<1>10. ASSUME r \in i.list, i.up
       PROVE  Cardinality(Taken(i, k)) = Rank(i.list, r)
  <2>1. Taken(i, k) = {q \in i.list : q < r}
    BY <1>3, <1>10 DEF Taken
  <2>. QED BY <2>1 DEF Rank
<1>11. ASSUME r \in i.list, ~i.up
       PROVE  Cardinality(Taken(i, k)) + 1 + Rank(i.list, r) = Cardinality(i.list)
  <2>. DEFINE L == {q \in i.list : q < r}  T == Taken(i, k + 1)
  <2>1. IsFiniteSet(L) /\ IsFiniteSet(T)
    <3>1. L \in SUBSET i.list /\ T \in SUBSET i.list
      BY DEF Taken
    <3>. HIDE DEF L, T
    <3>. QED BY <1>7, <3>1, FS_Subset
  <2>2. L \cup T = i.list /\ L \cap T = {}
    <3>1. T = {q \in i.list : q > 15 - (k + 1)}
      BY <1>11 DEF Taken
    <3>. HIDE DEF T
    <3>. QED BY <1>2, <1>3, <1>11, <3>1
  <2>. HIDE DEF L, T
  <2>3. Cardinality(L) \in Nat /\ Cardinality(T) \in Nat
    BY <2>1, FS_CardinalityType
  <2>4. Cardinality(L \cup T) = Cardinality(L) + Cardinality(T) - Cardinality(L \cap T)
    BY <2>1, FS_Union
  <2>5. Cardinality({}) = 0
    BY FS_EmptySet
  <2>6. Cardinality(i.list) = Cardinality(L) + Cardinality(T)
    <3>1. Cardinality(i.list) = Cardinality(L) + Cardinality(T) - Cardinality({})
      BY <2>2, <2>4
    <3>. DEFINE l == Cardinality(L)  m == Cardinality(T)  n == Cardinality(i.list)
                z == Cardinality({})
    <3>2. n = l + m - z /\ z = 0 /\ l \in Nat /\ m \in Nat
      BY <2>3, <2>5, <3>1
    <3>. HIDE DEF l, m, n, z
    <3>3. n = l + m
      BY <3>2
    <3>. QED BY <3>3 DEF l, m, n
  <2>7. Cardinality(T) = Cardinality(Taken(i, k)) + 1
    BY <1>9, <1>11 DEF T
  <2>. QED BY <1>8, <2>3, <2>6, <2>7 DEF Rank, L
<1>. QED BY <1>1, <1>4, <1>5, <1>6, <1>8, <1>9, <1>10, <1>11

(* Moving the base twice.                                                  *)
LEMMA MovedTwice ==
  ASSUME NEW x \in Int, NEW y \in Int, NEW z, z = x + y
  PROVE  /\ ((y % Size) + x) % Size = z % Size
         /\ z % Size \in Values
<1>1. Size \in Nat \ {0} /\ z \in Int
  BY SizeType
<1>2. y % Size \in Int
  BY <1>1, Division
<1>3. (x + y) % Size = (x + (y % Size)) % Size
  BY <1>1, RemainderOfSum
<1>4. x + (y % Size) = (y % Size) + x
  BY <1>2
<1>5. z % Size \in 0..Size - 1
  BY <1>1, Division
<1>. QED BY <1>3, <1>4, <1>5 DEF Values

(* What k turns have done: the base has moved by a word for each register  *)
(* taken, and those registers are loaded or stored, at their places in the *)
(* block.                                                                  *)
Each(i, r) == [OneWord(i.rn, r, i.load, WordBytes) EXCEPT
                 !.up = i.up, !.pre = i.pre, !.wb = TRUE]

PlaceOf(i, r) == regs[i.rn] + StartOffset(i) + 4 * Rank(i.list, r)

Stored(i, k, m) ==
  \A x \in Int :
    /\ \A r \in Taken(i, k), j \in 0..3 : x = PlaceOf(i, r) + j => Byte(m, x) = Digit(regs[r], j)
    /\ (\A r \in Taken(i, k), j \in 0..3 : x # PlaceOf(i, r) + j) => Byte(m, x) = Byte(mem, x)

Moved(i, c) == regs[i.rn] + (IF i.up THEN 4 * c ELSE -(4 * c))

TurnsDone(i, k, s) ==
  /\ s \in States /\ ~s.thrown
  /\ s.regs[i.rn] = Moved(i, Cardinality(Taken(i, k))) % Size
  /\ \A r \in Reg \ {i.rn} : s.regs[r] = IF i.load /\ r \in Taken(i, k)
                                         THEN Word(mem, PlaceOf(i, r)) ELSE regs[r]
  /\ IF i.load THEN s.mem = mem ELSE Stored(i, k, s.mem)
  /\ s.jumped <=> i.load /\ PC \in Taken(i, k)

InBlock(i) == /\ i \in Formats /\ i.kind = "block" /\ i.rn \notin i.list \cup {PC}
              /\ InSpace(regs[i.rn] + StartOffset(i), regs[i.rn] + StartOffset(i) + Length(i))

(* The fields of the single transfer that stands for a register of a block.  *)
LEMMA EachFields ==
  ASSUME NEW i \in Formats, i.kind = "block", NEW r \in Reg
  PROVE  /\ Each(i, r).wb /\ ~Each(i, r).byte /\ Each(i, r).rn = i.rn /\ Each(i, r).rd = r
         /\ (Each(i, r).load <=> i.load) /\ (Each(i, r).up <=> i.up)
         /\ (Each(i, r).pre <=> i.pre) /\ Each(i, r).load \in BOOLEAN
         /\ Each(i, r).offset.by = "immediate" /\ Each(i, r).offset.n = 4
<1>1. i.load \in BOOLEAN /\ i.up \in BOOLEAN /\ i.pre \in BOOLEAN
  BY Fields
<1>2. WordBytes % Size = 4
  <2>. DEFINE four == 4
  <2>1. four \in 0..Size - 1 /\ Size \in Nat \ {0}
    BY RoomForWords, SizeType
  <2>. HIDE DEF four
  <2>2. four % Size = four
    BY <2>1, OwnRemainder
  <2>. QED BY <2>2 DEF four, WordBytes
<1>3. Each(i, r).offset.n = WordBytes % Size
  BY DEF Each, OneWord
<1>4. /\ Each(i, r).wb /\ ~Each(i, r).byte /\ Each(i, r).rn = i.rn /\ Each(i, r).rd = r
      /\ Each(i, r).offset.by = "immediate"
  BY DEF Each, OneWord
<1>5. Each(i, r).load = i.load /\ Each(i, r).up = i.up /\ Each(i, r).pre = i.pre
  BY DEF Each, OneWord
<1>. QED BY <1>1, <1>2, <1>3, <1>4, <1>5

(* One turn of a single transfer keeps what the turns have done.             *)
LEMMA OneTurn ==
  ASSUME TransferTypes, NEW i, InBlock(i), NEW k \in 0..15, NEW s, TurnsDone(i, k, s),
         NEW r, r = Turn(i, k + 1), r \in i.list
  PROVE  TurnsDone(i, k + 1, Single(s, Each(i, r)))
<1>. DEFINE b == regs[i.rn]  n == Cardinality(i.list)  c == Cardinality(Taken(i, k))
            q == Rank(i.list, r)  lo == b + StartOffset(i)
            base == s.regs[i.rn]
            next == (base + (IF i.up THEN 4 ELSE -4)) % Size
            a == IF i.pre THEN next ELSE base
            e == Each(i, r)
            t == Single(s, e)
<1>1. /\ i \in Formats /\ i.kind = "block" /\ i.rn # PC /\ i.rn \notin i.list
      /\ InSpace(lo, lo + Length(i))
  BY DEF InBlock
<1>2. /\ i.list \in SUBSET Reg /\ i.rn \in Reg /\ i.up \in BOOLEAN /\ i.pre \in BOOLEAN
      /\ i.load \in BOOLEAN
  BY <1>1, Fields
<1>3. /\ s \in States /\ ~s.thrown /\ base = Moved(i, c) % Size
      /\ \A y \in Reg \ {i.rn} : s.regs[y] = IF i.load /\ y \in Taken(i, k)
                                             THEN Word(mem, PlaceOf(i, y)) ELSE regs[y]
      /\ IF i.load THEN s.mem = mem ELSE Stored(i, k, s.mem)
  BY DEF TurnsDone
<1>4. s.jumped <=> i.load /\ PC \in Taken(i, k)
  BY DEF TurnsDone
<1>5. /\ r \in Reg /\ r \notin Taken(i, k) /\ c \in Nat
      /\ Taken(i, k + 1) = Taken(i, k) \cup {r}
      /\ Cardinality(Taken(i, k + 1)) = c + 1
      /\ IF i.up THEN c = q ELSE c + 1 + q = n
  BY <1>1, TakenNext
<1>6. b \in Values /\ b \in Int /\ n \in Nat /\ q \in Nat /\ q < n
  <2>1. b \in Values /\ b \in Int
    BY <1>2, SizeType DEF TransferTypes, Values
  <2>2. n \in Nat
    BY <1>2, ListType
  <2>3. Rank(i.list, r) \in 0..Cardinality(i.list) /\ Rank(i.list, r) < Cardinality(i.list)
    BY <1>2, <1>5, RankType
  <2>. QED BY <2>1, <2>2, <2>3
<1>7. /\ lo \in Int /\ lo = b + (IF i.up THEN 0 ELSE -(4 * n)) + (IF i.up = i.pre THEN 4 ELSE 0)
      /\ lo >= 0 /\ lo + 4 * n <= Size
  <2>1. Length(i) = 4 * n
    BY DEF Length, WordBytes
  <2>2. StartOffset(i) = (IF i.up THEN 0 ELSE -(4 * n)) + (IF i.up = i.pre THEN 4 ELSE 0)
    BY <2>1 DEF StartOffset, IndexingOffset, WordBytes
  <2>. DEFINE so == StartOffset(i)
  <2>3. so \in Int /\ so = (IF i.up THEN 0 ELSE -(4 * n)) + (IF i.up = i.pre THEN 4 ELSE 0)
    <3>. HIDE DEF n
    <3>. QED BY <1>2, <1>6, <2>2
  <2>4. lo >= 0 /\ lo + 4 * n <= Size
    BY <1>1, <2>1 DEF InSpace
  <2>. HIDE DEF so, n
  <2>5. lo = b + so
    BY DEF so
  <2>. HIDE DEF lo, b
  <2>. QED BY <1>6, <2>3, <2>4, <2>5
<1>8. PlaceOf(i, r) = lo + 4 * q
  BY DEF PlaceOf
<1>9. Moved(i, c) = b + (IF i.up THEN 4 * c ELSE -(4 * c))
      /\ Moved(i, c + 1) = b + (IF i.up THEN 4 * (c + 1) ELSE -(4 * (c + 1)))
  BY DEF Moved
<1>. HIDE DEF b, n, c, q, lo, base, next, a
<1>10. /\ next = Moved(i, c + 1) % Size /\ lo + 4 * q = a
       /\ a \in Values /\ next \in Values
  <2>. DEFINE x == IF i.up THEN 4 ELSE -4  y == Moved(i, c)  z == Moved(i, c + 1)
              p == lo + 4 * q
  <2>1. next = (base + x) % Size /\ base = y % Size
    BY <1>3 DEF next
  <2>2. /\ y = b + (IF i.up THEN 4 * c ELSE -(4 * c))
        /\ z = b + (IF i.up THEN 4 * (c + 1) ELSE -(4 * (c + 1)))
    BY <1>9
  <2>3. x = IF i.up THEN 4 ELSE -4
    OBVIOUS
  <2>4. p = lo + 4 * q
    OBVIOUS
  <2>. HIDE DEF x, y, z, p
  <2>5. /\ x \in Int /\ y \in Int /\ z = x + y
        /\ p = IF i.pre THEN z ELSE y
        /\ p \in 0..Size - 1
    BY <1>2, <1>5, <1>6, <1>7, <2>2, <2>3, <2>4, SizeType
  <2>6. next = z % Size /\ next \in Values
    BY <2>1, <2>5, MovedTwice
  <2>7. p % Size = p
    BY <2>5, SizeType, OwnRemainder
  <2>8. p = IF i.pre THEN next ELSE base
    BY <2>1, <2>5, <2>6, <2>7
  <2>. QED BY <2>5, <2>6, <2>8 DEF a, z, p, Values
<1>11. /\ e.wb /\ ~e.byte /\ e.rn = i.rn /\ e.rd = r /\ (e.load <=> i.load) /\ e.load \in BOOLEAN
       /\ (e.up <=> i.up) /\ (e.pre <=> i.pre) /\ e.offset.by = "immediate" /\ e.offset.n = 4
  BY <1>1, <1>5, EachFields
<1>. HIDE DEF e
<1>12. AddressWithOffset(s, e) = next /\ MemoryAddress(s, e) = a
  <2>1. next = (s.regs[e.rn] + (IF e.up THEN 4 ELSE -4)) % Size
    BY <1>2, <1>11 DEF next, base
  <2>2. /\ AddressWithOffset(s, e) = next
        /\ MemoryAddress(s, e) = IF e.pre THEN next ELSE s.regs[e.rn]
    BY <1>11, <2>1, EachAddress
  <2>. QED BY <1>2, <1>11, <2>2 DEF a, base
<1>13. a \in Int /\ Size \in Nat
  BY <1>10, SizeType DEF Values
<1>14. /\ t \in States /\ ~t.thrown /\ t.regs[i.rn] = next
       /\ \A y \in Reg \ {i.rn} : t.regs[y] = IF i.load /\ y = r
                                              THEN Word(s.mem, a) ELSE s.regs[y]
       /\ t.mem = IF i.load THEN s.mem ELSE Put(s.mem, a, 4, s.regs[r])
  <2>1. e.rn \in Reg /\ e.rn # PC /\ e.rd \in Reg /\ e.rn # e.rd
    BY <1>1, <1>2, <1>5, <1>11
  <2>2. /\ t \in States /\ ~t.thrown /\ t.regs[e.rn] = next
        /\ \A y \in Reg \ {e.rn} : t.regs[y] = IF e.load /\ y = e.rd
                                               THEN Word(s.mem, a) ELSE s.regs[y]
        /\ t.mem = IF e.load THEN s.mem ELSE Put(s.mem, a, 4, s.regs[e.rd])
    BY <1>3, <1>10, <1>11, <1>12, <1>13, <2>1, EachTransferred
  <2>. HIDE DEF t
  <2>. QED BY <1>2, <1>11, <2>2
<1>15. t.jumped <=> s.jumped \/ (i.load /\ r = PC)
  <2>1. e.rn \in Reg /\ e.rn # PC /\ e.rd \in Reg /\ e.rn # e.rd
    BY <1>1, <1>2, <1>5, <1>11
  <2>2. t.jumped <=> s.jumped \/ (e.load /\ e.rd = PC)
    BY <1>3, <1>10, <1>11, <1>12, <1>13, <2>1, EachTransferred
  <2>. HIDE DEF t
  <2>. QED BY <1>2, <1>11, <2>2
<1>. HIDE DEF t
<1>16. t.regs[i.rn] = Moved(i, Cardinality(Taken(i, k + 1))) % Size
  BY <1>5, <1>10, <1>14
<1>17. ASSUME NEW y \in Reg \ {i.rn}
       PROVE  t.regs[y] = IF i.load /\ y \in Taken(i, k + 1)
                          THEN Word(mem, PlaceOf(i, y)) ELSE regs[y]
  <2>1. CASE y = r
    <3>1. i.load => t.regs[y] = Word(mem, PlaceOf(i, y))
      BY <1>3, <1>8, <1>10, <1>14, <2>1
    <3>2. ~i.load => t.regs[y] = regs[y]
      BY <1>3, <1>14
    <3>. QED BY <1>5, <2>1, <3>1, <3>2
  <2>2. CASE y # r
    <3>1. t.regs[y] = s.regs[y] /\ (y \in Taken(i, k + 1) <=> y \in Taken(i, k))
      BY <1>5, <1>14, <2>2
    <3>. QED BY <1>3, <3>1
  <2>. QED BY <2>1, <2>2
<1>18. t.jumped <=> i.load /\ PC \in Taken(i, k + 1)
  BY <1>4, <1>5, <1>15
<1>19. IF i.load THEN t.mem = mem ELSE Stored(i, k + 1, t.mem)
  <2>1. CASE i.load
    BY <1>3, <1>14, <2>1
  <2>2. CASE ~i.load
    <3>1. t.mem = Put(s.mem, a, 4, regs[r]) /\ Stored(i, k, s.mem)
      <4>1. r \in Reg \ {i.rn}
        BY <1>1, <1>5
      <4>2. s.regs[r] = regs[r]
        BY <1>3, <2>2, <4>1
      <4>. QED BY <1>3, <1>14, <2>2, <4>2
    <3>2. ASSUME NEW x \in Int
          PROVE  /\ \A y \in Taken(i, k + 1), j \in 0..3 :
                      x = PlaceOf(i, y) + j => Byte(t.mem, x) = Digit(regs[y], j)
                 /\ (\A y \in Taken(i, k + 1), j \in 0..3 : x # PlaceOf(i, y) + j)
                      => Byte(t.mem, x) = Byte(mem, x)
      <4>1. Byte(t.mem, x) = IF x \in a..a + 4 - 1
                             THEN (regs[r] \div Place(x - a)) % ByteSize ELSE Byte(s.mem, x)
        BY <3>1, PutByte
      <4>2. PlaceOf(i, r) = a
        BY <1>8, <1>10
      <4>3. ASSUME NEW j \in 0..3, x = a + j
            PROVE  Byte(t.mem, x) = Digit(regs[r], j)
        <5>1. x \in a..a + 4 - 1 /\ x - a = j
          BY <1>13, <4>3
        <5>. QED BY <4>1, <5>1 DEF Digit
      <4>4. ASSUME NEW y \in Taken(i, k), NEW j \in 0..3, x = PlaceOf(i, y) + j
            PROVE  Byte(t.mem, x) = Digit(regs[y], j)
        <5>1. y \in i.list /\ y \in Reg /\ y # r
          BY <1>2, <1>5 DEF Taken
        <5>. DEFINE p == Rank(i.list, y)
        <5>2. p \in Nat /\ p # q
          <6>1. p # q
            BY <1>2, <5>1, RankUnique DEF q
          <6>2. p \in 0..Cardinality(i.list)
            BY <1>2, <5>1, RankType
          <6>. QED BY <1>6, <6>1, <6>2 DEF n
        <5>3. PlaceOf(i, y) = lo + 4 * p
          BY DEF PlaceOf, lo, b
        <5>. HIDE DEF p
        <5>4. x \notin a..a + 4 - 1
          <6>1. x = lo + 4 * p + j /\ a = lo + 4 * q
            BY <1>10, <4>4, <5>3
          <6>. QED BY <1>6, <1>7, <5>2, <6>1
        <5>5. Byte(s.mem, x) = Digit(regs[y], j)
          BY <3>1, <4>4 DEF Stored
        <5>. QED BY <4>1, <5>4, <5>5
      <4>5. ASSUME \A y \in Taken(i, k + 1), j \in 0..3 : x # PlaceOf(i, y) + j
            PROVE  Byte(t.mem, x) = Byte(mem, x)
        <5>1. \A j \in 0..3 : x # a + j
          BY <1>5, <4>2, <4>5
        <5>2. x \notin a..a + 4 - 1
          <6>1. x - a \in 0..3 => x = a + (x - a)
            BY <1>13
          <6>2. x - a \notin 0..3
            BY <5>1, <6>1
          <6>. QED BY <1>13, <6>2
        <5>3. \A y \in Taken(i, k), j \in 0..3 : x # PlaceOf(i, y) + j
          BY <1>5, <4>5
        <5>4. Byte(s.mem, x) = Byte(mem, x)
          BY <3>1, <5>3 DEF Stored
        <5>. QED BY <4>1, <5>2, <5>4
      <4>. QED BY <1>5, <4>2, <4>3, <4>4, <4>5
    <3>3. Stored(i, k + 1, t.mem)
      BY <3>2 DEF Stored
    <3>. QED BY <2>2, <3>3
  <2>. QED BY <2>1, <2>2
<1>20. TurnsDone(i, k + 1, t)
  BY <1>14, <1>16, <1>17, <1>18, <1>19 DEF TurnsDone
<1>. QED BY <1>20 DEF t, e
(* Sixteen turns, from the state that the execution starts in.             *)
TurnOf(i, h, k) == IF k = 0 THEN Start
                   ELSE IF Turn(i, k) \in i.list
                   THEN Single(h[k - 1], Each(i, Turn(i, k)))
                   ELSE h[k - 1]

(* There is a run of the turns, by induction over their number.              *)
LEMMA TurnsExist ==
  ASSUME NEW i
  PROVE  \A n \in Nat : \E h : h = [k \in 0..n |-> TurnOf(i, h, k)]
<1>. DEFINE T == {n \in Nat : \E h : h = [k \in 0..n |-> TurnOf(i, h, k)]}
<1>1. 0 \in T
  <2>. DEFINE h == [k \in 0..0 |-> Start]
  <2>1. \A k \in 0..0 : TurnOf(i, h, k) = Start
    BY DEF TurnOf
  <2>2. h = [k \in 0..0 |-> TurnOf(i, h, k)]
    BY <2>1
  <2>. QED BY <2>2
<1>2. ASSUME NEW n \in Nat, n \in T
      PROVE  n + 1 \in T
  <2>1. PICK h : h = [k \in 0..n |-> TurnOf(i, h, k)]
    BY <1>2
  <2>. DEFINE new == TurnOf(i, h, n + 1)
              f == [k \in 0..n + 1 |-> IF k = n + 1 THEN new ELSE h[k]]
  <2>2. \A k \in 0..n : f[k] = h[k] /\ h[k] = TurnOf(i, h, k)
    <3>1. \A k \in 0..n : k \in 0..n + 1 /\ k # n + 1
      OBVIOUS
    <3>. HIDE DEF new
    <3>. QED BY <2>1, <3>1
  <2>3. f[n + 1] = new
    <3>1. n + 1 \in 0..n + 1
      OBVIOUS
    <3>. QED BY <3>1
  <2>. HIDE DEF f
  <2>4. ASSUME NEW k \in 0..n + 1
        PROVE  f[k] = TurnOf(i, f, k)
    <3>1. k # 0 => f[k - 1] = h[k - 1]
      <4>1. k # 0 => k - 1 \in 0..n
        OBVIOUS
      <4>. QED BY <2>2, <4>1
    <3>2. TurnOf(i, f, k) = TurnOf(i, h, k)
      BY <3>1 DEF TurnOf
    <3>3. CASE k = n + 1
      BY <2>3, <3>2, <3>3
    <3>4. CASE k # n + 1
      <4>1. k \in 0..n
        BY <3>4
      <4>. QED BY <2>2, <3>2, <4>1
    <3>. QED BY <3>3, <3>4
  <2>5. f = [k \in 0..n + 1 |-> TurnOf(i, f, k)]
    <3>1. f = [k \in 0..n + 1 |-> f[k]]
      BY DEF f
    <3>. QED BY <2>4, <3>1
  <2>. QED BY <2>5
<1>. HIDE DEF T
<1>3. Nat \subseteq T
  BY <1>1, <1>2, Induction
<1>. QED BY <1>3 DEF T

(* All sixteen turns, by induction.                                          *)
LEMMA AllTurns ==
  ASSUME TransferTypes, NEW i, InBlock(i), NEW h, h = [k \in 0..16 |-> TurnOf(i, h, k)]
  PROVE  TurnsDone(i, 16, h[16])
<1>. DEFINE T == {k \in Nat : k <= 16 => TurnsDone(i, k, h[k])}
<1>1. i \in Formats /\ i.kind = "block" /\ i.list \in SUBSET Reg /\ i.up \in BOOLEAN
      /\ i.rn \in Reg /\ i.load \in BOOLEAN
  BY Fields DEF InBlock
<1>2. 0 \in T
  <2>. DEFINE zero == 0
  <2>1. h[zero] = Start
    BY DEF TurnOf
  <2>2. Taken(i, zero) = {}
    BY <1>1 DEF Taken, Reg
  <2>3. Cardinality(Taken(i, zero)) = 0
    BY <2>2, FS_EmptySet
  <2>4. /\ Start \in States /\ ~Start.thrown /\ ~Start.jumped
        /\ Start.regs = regs /\ Start.mem = mem
    BY StartType
  <2>5. Moved(i, Cardinality(Taken(i, zero))) % Size = regs[i.rn]
    <3>1. regs[i.rn] \in 0..Size - 1
      BY <1>1, <2>4, StateType DEF Values
    <3>2. Moved(i, Cardinality(Taken(i, zero))) = regs[i.rn]
      BY <1>1, <2>3, <3>1, SizeType DEF Moved
    <3>. QED BY <3>1, <3>2, SizeType, OwnRemainder
  <2>6. Stored(i, zero, mem)
    BY <2>2 DEF Stored
  <2>. HIDE DEF zero
  <2>7. TurnsDone(i, zero, Start)
    BY <1>1, <2>2, <2>4, <2>5, <2>6 DEF TurnsDone
  <2>. QED BY <2>1, <2>7 DEF zero
<1>3. ASSUME NEW k \in Nat, k \in T
      PROVE  k + 1 \in T
  <2>. SUFFICES ASSUME k + 1 <= 16
                PROVE  TurnsDone(i, k + 1, h[k + 1])
    OBVIOUS
  <2>1. k \in 0..15 /\ TurnsDone(i, k, h[k]) /\ k + 1 \in 0..16 /\ k + 1 # 0 /\ (k + 1) - 1 = k
    BY <1>3
  <2>. DEFINE r == Turn(i, k + 1)
  <2>2. h[k + 1] = IF r \in i.list THEN Single(h[k], Each(i, r)) ELSE h[k]
    <3>1. h[k + 1] = TurnOf(i, h, k + 1)
      BY <2>1
    <3>. QED BY <2>1, <3>1 DEF TurnOf
  <2>. HIDE DEF r
  <2>3. CASE r \in i.list
    <3>1. TurnsDone(i, k + 1, Single(h[k], Each(i, r)))
      BY <2>1, <2>3, OneTurn DEF r
    <3>. QED BY <2>2, <2>3, <3>1
  <2>4. CASE r \notin i.list
    <3>1. Taken(i, k + 1) = Taken(i, k)
      BY <1>1, <2>1, <2>4, TakenNext DEF r
    <3>2. h[k + 1] = h[k]
      BY <2>2, <2>4
    <3>. QED BY <2>1, <3>1, <3>2 DEF TurnsDone, Stored
  <2>. QED BY <2>3, <2>4
<1>. HIDE DEF T
<1>4. Nat \subseteq T
  BY <1>2, <1>3, Induction
<1>5. 16 \in T
  BY <1>4
<1>. QED BY <1>5 DEF T

(* Two states are the same when their registers, the bytes of their        *)
(* memories and what they say of the execution are.                        *)
LEMMA SameMemory ==
  ASSUME NEW m \in Memories, NEW n \in Memories, \A x \in Int : Byte(m, x) = Byte(n, x)
  PROVE  m = n
<1>1. PICK D \in SUBSET Int : m \in [D -> 1..ByteSize - 1]
  BY DEF Memories
<1>2. PICK E \in SUBSET Int : n \in [E -> 1..ByteSize - 1]
  BY DEF Memories
<1>3. ASSUME NEW x \in Int
      PROVE  (x \in D <=> x \in E) /\ (x \in D => m[x] = n[x])
  <2>1. Byte(m, x) = Byte(n, x)
    OBVIOUS
  <2>2. x \in D => Byte(m, x) = m[x] /\ m[x] # 0
    BY <1>1, Places DEF Byte
  <2>3. x \in E => Byte(n, x) = n[x] /\ n[x] # 0
    BY <1>2, Places DEF Byte
  <2>4. (x \notin D => Byte(m, x) = 0) /\ (x \notin E => Byte(n, x) = 0)
    BY <1>1, <1>2 DEF Byte
  <2>. QED BY <2>1, <2>2, <2>3, <2>4
<1>4. D = E /\ \A x \in D : m[x] = n[x]
  BY <1>3
<1>5. m = [x \in D |-> m[x]] /\ n = [x \in E |-> n[x]]
  BY <1>1, <1>2
<1>. QED BY <1>4, <1>5

(* States that agree in every part are the same.                             *)
LEMMA SameState ==
  ASSUME NEW s \in States, NEW t \in States, \A r \in Reg : s.regs[r] = t.regs[r],
         \A x \in Int : Byte(s.mem, x) = Byte(t.mem, x),
         s.jumped <=> t.jumped, s.thrown <=> t.thrown
  PROVE  s = t
<1>1. s.mem = t.mem
  BY SameMemory, StateType
<1>2. s.regs = t.regs
  <2>1. s.regs \in [Reg -> Values] /\ t.regs \in [Reg -> Values]
    BY StateType
  <2>2. s.regs = [r \in Reg |-> s.regs[r]] /\ t.regs = [r \in Reg |-> t.regs[r]]
    BY <2>1
  <2>. QED BY <2>2
<1>3. s.jumped = t.jumped /\ s.thrown = t.thrown
  <2>1. s.jumped \in BOOLEAN /\ t.jumped \in BOOLEAN /\ s.thrown \in BOOLEAN /\ t.thrown \in BOOLEAN
    BY StateType
  <2>. QED BY <2>1
<1>. QED BY <1>1, <1>2, <1>3 DEF States
(* A block transfer is its registers transferred one by one.               *)
LEMMA BlockCorrect ==
  ASSUME TransferTypes, NEW i \in Instructions, i.kind = "block"
  PROVE  BlockIsOneByOne(i)
<1>. DEFINE lo == regs[i.rn] + StartOffset(i)  n == Cardinality(i.list)
            T == Block(Start, i, Old(i))
            back == Moved(i, n) % Size
<1>. SUFFICES ASSUME i.rn \notin i.list \cup {PC}, InSpace(lo, lo + Length(i))
              PROVE  Executed(Start, i, Old(i)) = OneByOne(i)
  BY DEF BlockIsOneByOne
<1>1. i \in Formats /\ InBlock(i)
  BY TransferAssumption DEF InBlock
<1>2. /\ i.list \in SUBSET Reg /\ i.rn \in Reg /\ i.up \in BOOLEAN /\ i.load \in BOOLEAN
      /\ i.wb \in BOOLEAN /\ i.rn # PC /\ i.rn \notin i.list
  BY <1>1, Fields
<1>3. /\ Start \in States /\ ~Start.thrown /\ ~Start.jumped
      /\ Start.regs = regs /\ Start.mem = mem
  BY StartType
<1>4. n \in Nat /\ regs[i.rn] \in Values /\ regs[i.rn] \in Int
  BY <1>2, <1>3, ListType, StateType
<1>5. /\ lo \in Int /\ lo >= 0
      /\ \A r \in i.list : PlaceOf(i, r) = lo + 4 * Rank(i.list, r)
  <2>1. StartOffset(i) \in Int
    <3>1. Old(i) \in [i.list -> Values]
      BY <1>1 DEF Old, Blocks, TransferTypes
    <3>. QED BY <1>1, <1>3, <3>1, BlockType
  <2>2. lo >= 0
    BY DEF InSpace
  <2>. QED BY <1>4, <2>1, <2>2 DEF PlaceOf
<1>6. T \in States
  <2>1. Executed(Start, i, Old(i)) \in States
    BY ExecutionType
  <2>. QED BY <2>1 DEF Executed
<1>7. Executed(Start, i, Old(i)) = T
  BY DEF Executed
<1>8. (Start.regs[i.rn] + (IF i.up THEN 1 ELSE -1) * Length(i)) % Size = back
  <2>1. Length(i) = 4 * n
    BY DEF Length, WordBytes
  <2>. DEFINE m == Moved(i, n)  w == Start.regs[i.rn] + (IF i.up THEN 1 ELSE -1) * Length(i)
  <2>2. w = m
    <3>1. m = regs[i.rn] + (IF i.up THEN 4 * n ELSE -(4 * n))
      BY DEF Moved
    <3>. DEFINE b == regs[i.rn]  l == Length(i)
    <3>2. b \in Int /\ l = 4 * n /\ Start.regs[i.rn] = b
      BY <1>3, <1>4, <2>1
    <3>3. m = b + (IF i.up THEN 4 * n ELSE -(4 * n))
      BY <3>1
    <3>. HIDE DEF m, n, b, l
    <3>4. (IF i.up THEN 1 ELSE -1) * l = IF i.up THEN 4 * n ELSE -(4 * n)
      BY <1>4, <3>2
    <3>. QED BY <3>2, <3>3, <3>4 DEF l
  <2>. HIDE DEF m, w
  <2>3. w % Size = m % Size
    BY <2>2
  <2>. QED BY <2>3 DEF m, w
<1>. HIDE DEF n, back, T, lo
<1>9. ~T.thrown /\ (T.jumped <=> i.load /\ PC \in i.list)
  <2>1. CASE i.load
    BY <1>1, <1>2, <1>3, <2>1, BlockLoads DEF T
  <2>2. CASE ~i.load
    <3>1. ~Block(Start, i, Old(i)).thrown
      BY <1>1, <1>2, <1>3, <2>2, BlockStores
    <3>2. Block(Start, i, Old(i)).jumped = Start.jumped
      BY <1>1, <1>2, <1>3, <2>2, BlockStores
    <3>. QED BY <1>3, <2>2, <3>1, <3>2 DEF T
  <2>. QED BY <2>1, <2>2
<1>10. ASSUME NEW r \in Reg
       PROVE  T.regs[r] = IF i.wb /\ r = i.rn THEN back
                          ELSE IF i.load /\ r \in i.list THEN Word(mem, PlaceOf(i, r))
                          ELSE regs[r]
  <2>1. CASE i.load
    <3>. DEFINE to == (Start.regs[i.rn] + (IF i.up THEN 1 ELSE -1) * Length(i)) % Size
    <3>1. T.regs[r] = IF i.wb /\ r = i.rn THEN to
                      ELSE IF r \in i.list THEN LoadedValues(Start, i, Old(i))[r]
                      ELSE Start.regs[r]
      BY <1>1, <1>2, <1>3, <2>1, BlockLoads DEF T
    <3>2. r \in i.list => LoadedValues(Start, i, Old(i))[r] = Word(mem, PlaceOf(i, r))
      <4>1. ~NoByteAt(lo)
        BY <1>5 DEF NoByteAt
      <4>2. r \in i.list => LoadedValues(Start, i, Old(i))[r]
                              = Word(mem, lo + WordBytes * Rank(i.list, r))
        BY <1>3, <4>1 DEF LoadedValues, lo
      <4>. QED BY <1>5, <4>2 DEF WordBytes
    <3>3. to = back
      BY <1>8
    <3>. HIDE DEF to
    <3>. QED BY <1>3, <2>1, <3>1, <3>2, <3>3
  <2>2. CASE ~i.load
    <3>. DEFINE to == (Start.regs[i.rn] + (IF i.up THEN 1 ELSE -1) * Length(i)) % Size
    <3>1. T.regs = IF i.wb THEN [Start.regs EXCEPT ![i.rn] = to] ELSE Start.regs
      BY <1>1, <1>2, <1>3, <2>2, BlockStores DEF T
    <3>2. to = back
      BY <1>8
    <3>. HIDE DEF to
    <3>3. regs \in [Reg -> Values]
      BY <1>3, StateType
    <3>. QED BY <1>2, <1>3, <2>2, <3>1, <3>2, <3>3
  <2>. QED BY <2>1, <2>2
<1>11. IF i.load THEN T.mem = mem
       ELSE T.mem = PutBlock(mem, lo, i.list, [r \in i.list |-> regs[r]])
  <2>1. CASE i.load
    BY <1>1, <1>2, <1>3, <2>1, BlockLoads DEF T
  <2>2. CASE ~i.load
    <3>1. T.mem = PutBlock(Start.mem, Start.regs[i.rn] + StartOffset(i), i.list,
                           StoredValues(Start, i))
      BY <1>1, <1>2, <1>3, <2>2, BlockStores DEF T
    <3>. QED BY <1>3, <2>2, <3>1 DEF StoredValues, lo
  <2>. QED BY <2>1, <2>2
<1>. DEFINE after == CHOOSE h : h = [k \in 0..16 |-> TurnOf(i, h, k)]
            U == after[16]
            V == IF i.wb THEN U ELSE [U EXCEPT !.regs[i.rn] = regs[i.rn]]
<1>12. OneByOne(i) = V
  BY DEF OneByOne, TurnOf, Turn, Each
<1>13. TurnsDone(i, 16, U)
  <2>1. \E h : h = [k \in 0..16 |-> TurnOf(i, h, k)]
    BY TurnsExist
  <2>2. after = [k \in 0..16 |-> TurnOf(i, after, k)]
    BY <2>1
  <2>. HIDE DEF after
  <2>. QED BY <1>1, <2>2, AllTurns
<1>. HIDE DEF U
<1>14. Taken(i, 16) = i.list
  BY <1>2 DEF Taken, Reg
<1>15. /\ U \in States /\ ~U.thrown /\ U.regs[i.rn] = back
       /\ \A r \in Reg \ {i.rn} : U.regs[r] = IF i.load /\ r \in i.list
                                              THEN Word(mem, PlaceOf(i, r)) ELSE regs[r]
       /\ IF i.load THEN U.mem = mem ELSE Stored(i, 16, U.mem)
  BY <1>13, <1>14 DEF TurnsDone, back, n
<1>16. U.jumped <=> i.load /\ PC \in i.list
  BY <1>13, <1>14 DEF TurnsDone
<1>17. /\ V \in States /\ V.mem = U.mem /\ V.thrown = U.thrown
       /\ V.regs = IF i.wb THEN U.regs ELSE [U.regs EXCEPT ![i.rn] = regs[i.rn]]
  <2>. DEFINE f == [U.regs EXCEPT ![i.rn] = regs[i.rn]]
  <2>1. f \in [Reg -> Values]
    BY <1>4, <1>15, StateType
  <2>2. [U EXCEPT !.regs[i.rn] = regs[i.rn]] = [U EXCEPT !.regs = f]
    OBVIOUS
  <2>. HIDE DEF f
  <2>. QED BY <1>15, <2>1, <2>2 DEF States, f
<1>18. V.jumped <=> U.jumped
  BY <1>15 DEF States
<1>. HIDE DEF V
<1>19. ASSUME NEW r \in Reg
       PROVE  T.regs[r] = V.regs[r]
  <2>1. U.regs \in [Reg -> Values]
    BY <1>15, StateType
  <2>2. V.regs[r] = IF r = i.rn THEN (IF i.wb THEN back ELSE regs[r]) ELSE U.regs[r]
    BY <1>2, <1>15, <1>17, <2>1
  <2>3. CASE r = i.rn
    BY <1>2, <1>10, <2>2, <2>3
  <2>4. CASE r # i.rn
    BY <1>10, <1>15, <2>2, <2>4
  <2>. QED BY <2>3, <2>4
<1>20. ASSUME NEW x \in Int
       PROVE  Byte(T.mem, x) = Byte(V.mem, x)
  <2>1. CASE i.load
    BY <1>11, <1>15, <1>17, <2>1
  <2>2. CASE ~i.load
    <3>. DEFINE v == [r \in i.list |-> regs[r]]
    <3>1. T.mem = PutBlock(mem, lo, i.list, v) /\ Stored(i, 16, V.mem)
      BY <1>11, <1>15, <1>17, <2>2
    <3>2. v \in [i.list -> Values] /\ \A r \in i.list : v[r] = regs[r]
      BY <1>2, <1>3, StateType
    <3>. HIDE DEF v
    <3>3. CASE \E r \in i.list, j \in 0..3 : x = PlaceOf(i, r) + j
      <4>1. PICK r \in i.list, j \in 0..3 : x = PlaceOf(i, r) + j
        BY <3>3
      <4>2. Byte(V.mem, x) = Digit(regs[r], j)
        BY <1>14, <3>1, <4>1 DEF Stored
      <4>3. x = lo + 4 * Rank(i.list, r) + j
        BY <1>5, <4>1
      <4>4. Byte(PutBlock(mem, lo, i.list, v), x) = Digit(v[r], j)
        BY <1>2, <1>5, <4>3, PutBlockByte
      <4>. QED BY <3>1, <3>2, <4>2, <4>4
    <3>4. CASE \A r \in i.list, j \in 0..3 : x # PlaceOf(i, r) + j
      <4>1. Byte(V.mem, x) = Byte(mem, x)
        BY <1>14, <3>1, <3>4 DEF Stored
      <4>2. x \notin lo..lo + 4 * Cardinality(i.list) - 1
        <5>. SUFFICES ASSUME x \in lo..lo + 4 * n - 1
                      PROVE  FALSE
          BY DEF n
        <5>. DEFINE k == (x - lo) \div 4  j == (x - lo) % 4
        <5>1. k \in 0..n - 1 /\ j \in 0..3 /\ x = lo + 4 * k + j
          BY <1>4, <1>5
        <5>. HIDE DEF k, j
        <5>2. PICK r \in i.list : Rank(i.list, r) = k
          BY <1>2, <5>1, RankReached DEF n
        <5>3. x = PlaceOf(i, r) + j
          BY <1>5, <5>1, <5>2
        <5>. QED BY <3>4, <5>1, <5>3
      <4>3. Byte(PutBlock(mem, lo, i.list, v), x) = Byte(mem, x)
        BY <1>2, <1>5, <4>2, PutBlockByte
      <4>. QED BY <3>1, <4>1, <4>3
    <3>. QED BY <3>3, <3>4
  <2>. QED BY <2>1, <2>2
<1>21. T = V
  <2>1. T.jumped <=> V.jumped
    BY <1>9, <1>16, <1>18
  <2>2. T.thrown <=> V.thrown
    BY <1>9, <1>15, <1>17
  <2>. QED BY <1>6, <1>17, <1>19, <1>20, <2>1, <2>2, SameState
<1>. QED BY <1>7, <1>12, <1>21

(* The transfers of more than one word: in every program, at every time, a *)
(* block transfer does what single transfers of its registers would do one *)
(* after another, a doubleword transfer what two would, and a swap what a  *)
(* load and a store would.                                                 *)
THEOREM TransfersCorrect == Spec => []AsSingleTransfers
<1>1. TransferTypes => AsSingleTransfers
  <2>. SUFFICES ASSUME TransferTypes, NEW i \in Instructions
                PROVE  /\ i.kind = "block" => BlockIsOneByOne(i)
                       /\ i.kind = "doubleword" => DoublewordIsTwoWords(i)
                       /\ i.kind = "swap" => SwapIsLoadAndStore(i)
    BY DEF AsSingleTransfers
  <2>1. i \in Formats
    BY TransferAssumption
  <2>. QED BY <2>1, BlockCorrect, DoublewordCorrect, SwapCorrect
<1>2. Spec => []TransferTypes
  BY TransferTypesCorrect
<1>. QED BY <1>1, <1>2, PTL
===============================================================================
