--------------------------- MODULE ArithmeticProofs ---------------------------
(***************************************************************************)
(* The arithmetic flags, the shifter and the frame buffer, for registers   *)
(* of every width, shifts by every amount and pictures of every size; and  *)
(* the facts about numbers and powers of two that they rest on.            *)
(***************************************************************************)
EXTENDS MCArithmetic, WellFoundedInduction, TLAPS

(* A non-empty set of numbers has a least one.                             *)
LEMMA Least ==
  ASSUME NEW T \in SUBSET Nat, T # {}
  PROVE  \E x \in T : \A y \in T : x <= y
<1>. DEFINE R == OpToRel(<, Nat)
<1>1. IsWellFoundedOn(R, Nat)
  BY NatLessThanWellFounded
<1>2. \A x, y \in Nat : x < y => <<x, y>> \in R
  BY DEF OpToRel
<1>. HIDE DEF R
<1>3. PICK x \in T : \A y \in T : ~ (<<y, x>> \in R)
  BY <1>1, WFMin
<1>4. ASSUME NEW y \in T
      PROVE  x <= y
  <2>1. x \in Nat /\ y \in Nat
    OBVIOUS
  <2>2. ~ (y < x)
    BY <1>2, <1>3, <2>1
  <2>. QED BY <2>1, <2>2
<1>. QED BY <1>4

(* Induction, for a property that is the membership in a set.              *)
LEMMA Induction ==
  ASSUME NEW T, 0 \in T, \A n \in Nat : n \in T => n + 1 \in T
  PROVE  Nat \subseteq T
<1>. DEFINE Left == {n \in Nat : n \notin T}
<1>. SUFFICES ASSUME Left # {}
              PROVE  FALSE
  OBVIOUS
<1>1. PICK x \in Left : \A y \in Left : x <= y
  BY Least
<1>2. x \in Nat /\ x \notin T /\ x # 0
  OBVIOUS
<1>3. x - 1 \in Nat /\ x - 1 \in T
  BY <1>1, <1>2
<1>4. (x - 1) + 1 \in T
  BY <1>3
<1>. QED BY <1>2, <1>4

(* A function may be defined by its value at 0 and what becomes of it from *)
(* one number to the next.                                                 *)
LEMMA Iteration ==
  ASSUME NEW S, NEW a \in S, NEW g \in [S -> S]
  PROVE  \E f \in [Nat -> S] : f[0] = a /\ \A n \in Nat : f[n + 1] = g[f[n]]
<1>. DEFINE Upto(n) == {f \in [0..n -> S] : /\ f[0] = a
                                            /\ \A i \in 0..n - 1 : f[i + 1] = g[f[i]]}
<1>1. \A n \in Nat : Upto(n) # {}
  <2>. DEFINE T == {n \in Nat : Upto(n) # {}}
  <2>1. 0 \in T
    <3>1. [i \in 0..0 |-> a] \in Upto(0)
      OBVIOUS
    <3>. QED BY <3>1
  <2>2. ASSUME NEW n \in Nat, n \in T
        PROVE  n + 1 \in T
    <3>1. PICK f : f \in Upto(n)
      BY <2>2
    <3>. DEFINE h == [i \in 0..n + 1 |-> IF i = n + 1 THEN g[f[n]] ELSE f[i]]
    <3>2. h \in [0..n + 1 -> S]
      BY <3>1
    <3>3. h[0] = a
      BY <3>1
    <3>4. \A i \in 0..n : h[i + 1] = g[h[i]]
      BY <3>1
    <3>. QED BY <3>2, <3>3, <3>4
  <2>. HIDE DEF T
  <2>3. Nat \subseteq T
    BY <2>1, <2>2, Induction
  <2>. QED BY <2>3 DEF T
<1>2. ASSUME NEW m \in Nat, NEW f \in Upto(m), NEW n \in Nat, NEW h \in Upto(n)
      PROVE  \A i \in Nat : i <= m /\ i <= n => f[i] = h[i]
  <2>. DEFINE T == {i \in Nat : i <= m /\ i <= n => f[i] = h[i]}
  <2>1. 0 \in T
    OBVIOUS
  <2>2. ASSUME NEW i \in Nat, i \in T
        PROVE  i + 1 \in T
    <3>1. CASE i + 1 <= m /\ i + 1 <= n
      <4>1. f[i] = h[i] /\ i \in 0..m - 1 /\ i \in 0..n - 1
        BY <2>2, <3>1
      <4>2. f[i + 1] = g[f[i]] /\ h[i + 1] = g[h[i]]
        BY <4>1
      <4>. QED BY <4>1, <4>2
    <3>. QED BY <3>1
  <2>. HIDE DEF T
  <2>3. Nat \subseteq T
    BY <2>1, <2>2, Induction
  <2>. QED BY <2>3 DEF T
<1>. DEFINE Chosen(n) == CHOOSE f : f \in Upto(n)
            f == [n \in Nat |-> Chosen(n)[n]]
<1>3. \A n \in Nat : Chosen(n) \in Upto(n)
  BY <1>1
<1>. HIDE DEF Chosen
<1>4. f \in [Nat -> S] /\ f[0] = a
  BY <1>3
<1>5. ASSUME NEW n \in Nat
      PROVE  f[n + 1] = g[f[n]]
  <2>1. Chosen(n) \in Upto(n) /\ Chosen(n + 1) \in Upto(n + 1)
    BY <1>3
  <2>2. Chosen(n + 1)[n] = Chosen(n)[n]
    <3>. HIDE DEF Upto
    <3>. QED BY <1>2, <2>1
  <2>3. Chosen(n + 1)[n + 1] = g[Chosen(n + 1)[n]]
    BY <2>1
  <2>. QED BY <2>2, <2>3
<1>. HIDE DEF f
<1>. QED BY <1>4, <1>5

(* The powers of two: Pow2 is what its definition says.                    *)
LEMMA Powers ==
  /\ Pow2[0] = 1
  /\ \A n \in Nat : Pow2[n] \in Nat \ {0} /\ Pow2[n + 1] = 2 * Pow2[n]
<1>. DEFINE S == Nat \ {0}
            g == [x \in S |-> 2 * x]
            one == 1
<1>1. PICK f \in [Nat -> S] : f[0] = one /\ \A n \in Nat : f[n + 1] = g[f[n]]
  <2>1. one \in S /\ g \in [S -> S]
    OBVIOUS
  <2>. HIDE DEF S, g, one
  <2>. QED BY <2>1, Iteration
<1>2. f = [n \in Nat |-> IF n = 0 THEN 1 ELSE 2 * f[n - 1]]
  <2>1. ASSUME NEW n \in Nat, n # 0
        PROVE  f[n] = 2 * f[n - 1]
    <3>1. n - 1 \in Nat /\ (n - 1) + 1 = n
      BY <2>1
    <3>. QED BY <1>1, <3>1
  <2>. QED BY <1>1, <2>1
<1>. HIDE DEF S, g
<1>3. Pow2 = [n \in Nat |-> IF n = 0 THEN 1 ELSE 2 * Pow2[n - 1]]
  BY <1>2 DEF Pow2
<1>4. Pow2[0] = 1 /\ \A n \in Nat : Pow2[n + 1] = 2 * Pow2[n]
  <2>1. ASSUME NEW n \in Nat
        PROVE  Pow2[n + 1] = 2 * Pow2[n]
    <3>1. n + 1 \in Nat /\ n + 1 # 0 /\ (n + 1) - 1 = n
      OBVIOUS
    <3>. QED BY <1>3, <3>1
  <2>. QED BY <1>3, <2>1
<1>. DEFINE T == {n \in Nat : Pow2[n] \in Nat \ {0}}
<1>5. \A n \in Nat : n \in T => n + 1 \in T
  BY <1>4
<1>6. 0 \in T
  BY <1>4
<1>. HIDE DEF T
<1>7. Nat \subseteq T
  BY <1>5, <1>6, Induction
<1>. QED BY <1>4, <1>7 DEF T

(* The power of a sum is the product of the powers.                        *)
LEMMA PowerOfSum ==
  ASSUME NEW m \in Nat, NEW n \in Nat
  PROVE  Pow2[m + n] = Pow2[m] * Pow2[n]
<1>. DEFINE T == {i \in Nat : Pow2[m + i] = Pow2[m] * Pow2[i]}
<1>1. 0 \in T
  BY Powers
<1>2. ASSUME NEW i \in Nat, i \in T
      PROVE  i + 1 \in T
  <2>1. /\ Pow2[m + i] = Pow2[m] * Pow2[i]
        /\ Pow2[(m + i) + 1] = 2 * Pow2[m + i] /\ Pow2[i + 1] = 2 * Pow2[i]
    BY <1>2, Powers
  <2>2. Pow2[m] \in Nat /\ Pow2[i] \in Nat /\ m + (i + 1) = (m + i) + 1
    BY Powers
  <2>3. ASSUME NEW x \in Nat, NEW y \in Nat
        PROVE  2 * (x * y) = x * (2 * y)
    OBVIOUS
  <2>. QED BY <2>1, <2>2, <2>3
<1>. HIDE DEF T
<1>3. Nat \subseteq T
  BY <1>1, <1>2, Induction
<1>. QED BY <1>3 DEF T

(* A bigger exponent gives a multiple of the power.                        *)
LEMMA PowerDivides ==
  ASSUME NEW m \in Nat, NEW n \in Nat, m <= n
  PROVE  /\ Pow2[n] = Pow2[n - m] * Pow2[m]
         /\ Pow2[m] <= Pow2[n]
<1>1. n - m \in Nat /\ n = (n - m) + m
  OBVIOUS
<1>2. Pow2[n] = Pow2[n - m] * Pow2[m]
  BY <1>1, PowerOfSum
<1>3. Pow2[n - m] \in Nat \ {0} /\ Pow2[m] \in Nat \ {0}
  BY <1>1, Powers
<1>4. ASSUME NEW x \in Nat \ {0}, NEW y \in Nat
      PROVE  y <= x * y
  BY SMTT(30)
<1>. QED BY <1>2, <1>3, <1>4

(* Division rounds down, and leaves a remainder of the divisor's sign.     *)
LEMMA Division ==
  ASSUME NEW x \in Int, NEW n \in Nat \ {0}
  PROVE  /\ x \div n \in Int /\ x % n \in 0..n - 1
         /\ x = (x \div n) * n + (x % n)
  BY SMTT(20)

(* Multiples of n are n apart.                                             *)
LEMMA Multiples ==
  ASSUME NEW q \in Int, NEW r \in Int, NEW n \in Nat \ {0}, q < r
  PROVE  q * n + n <= r * n
<1>1. (r - q) * n >= n
  BY SMTT(20)
<1>2. (r - q) * n = r * n - q * n
  BY SMTT(20)
<1>3. q * n \in Int /\ r * n \in Int
  BY SMT
<1>. QED BY <1>1, <1>2, <1>3

(* A number has one remainder.                                             *)
LEMMA Remainder ==
  ASSUME NEW n \in Nat \ {0}, NEW x \in Int, NEW k \in Int, NEW r \in 0..n - 1,
         x = k * n + r
  PROVE  x % n = r
<1>. DEFINE q == x \div n
<1>1. q \in Int /\ x % n \in 0..n - 1 /\ x = q * n + (x % n)
  BY Division
<1>2. q * n \in Int /\ k * n \in Int
  BY <1>1
<1>. HIDE DEF q
<1>3. CASE q < k
  <2>1. q * n + n <= k * n
    BY <1>1, <1>3, Multiples
  <2>. QED BY <1>1, <1>2, <2>1
<1>4. CASE k < q
  <2>1. k * n + n <= q * n
    BY <1>1, <1>4, Multiples
  <2>. QED BY <1>1, <1>2, <2>1
<1>5. CASE k = q
  BY <1>1, <1>2, <1>5
<1>. QED BY <1>1, <1>3, <1>4, <1>5

(* And one quotient.                                                       *)
LEMMA Quotient ==
  ASSUME NEW n \in Nat \ {0}, NEW x \in Int, NEW k \in Int, NEW r \in 0..n - 1,
         x = k * n + r
  PROVE  x \div n = k
<1>. DEFINE q == x \div n
<1>1. q \in Int /\ x % n = r /\ x = q * n + (x % n)
  BY Division, Remainder
<1>. HIDE DEF q
<1>2. q * n \in Int /\ k * n \in Int /\ q * n = k * n
  <2>1. q * n \in Int /\ k * n \in Int
    BY <1>1
  <2>. QED BY <1>1, <2>1
<1>3. CASE q < k
  <2>1. q * n + n <= k * n
    BY <1>1, <1>3, Multiples
  <2>. QED BY <1>2, <2>1
<1>4. CASE k < q
  <2>1. k * n + n <= q * n
    BY <1>1, <1>4, Multiples
  <2>. QED BY <1>2, <2>1
<1>. QED BY <1>1, <1>3, <1>4 DEF q

(* Dividing twice is dividing by the product.                              *)
LEMMA DividedTwice ==
  ASSUME NEW x \in Int, NEW m \in Nat \ {0}, NEW n \in Nat \ {0}
  PROVE  /\ m * n \in Nat \ {0}
         /\ (x \div m) \div n = x \div (m * n)
<1>. DEFINE q == x \div m   r == x % m
            p == q \div n   s == q % n
<1>1. q \in Int /\ r \in 0..m - 1 /\ x = q * m + r
  BY Division
<1>. HIDE DEF q, r
<1>2. p \in Int /\ s \in 0..n - 1 /\ q = p * n + s
  BY <1>1, Division
<1>. HIDE DEF p, s
<1>3. m * n \in Nat \ {0} /\ s * m \in Nat /\ p * (m * n) \in Int
  BY <1>2, SMTT(20)
<1>4. s * m + m <= m * n
  <2>1. s * m + m <= n * m
    BY <1>2, Multiples
  <2>. QED BY <2>1
<1>5. (p * n + s) * m = p * (m * n) + s * m
  BY <1>2, SMTT(20)
<1>6. x = p * (m * n) + (s * m + r) /\ s * m + r \in 0..m * n - 1
  BY <1>1, <1>2, <1>3, <1>4, <1>5
<1>7. x \div (m * n) = p
  <2>. DEFINE k == m * n  t == s * m + r
  <2>1. k \in Nat \ {0} /\ t \in 0..k - 1 /\ x = p * k + t
    BY <1>3, <1>6
  <2>. HIDE DEF k, t
  <2>2. x \div k = p
    BY <1>2, <2>1, Quotient
  <2>. QED BY <2>2 DEF k
<1>. QED BY <1>3, <1>7 DEF p, q

(* Shifting right twice is shifting right by the sum.                      *)
LEMMA PowerQuotient ==
  ASSUME NEW x \in Int, NEW m \in Nat, NEW n \in Nat
  PROVE  (x \div Pow2[m]) \div Pow2[n] = x \div Pow2[m + n]
<1>. DEFINE p == Pow2[m]  q == Pow2[n]
<1>1. p \in Nat \ {0} /\ q \in Nat \ {0}
  BY Powers
<1>2. Pow2[m + n] = p * q
  BY PowerOfSum
<1>. HIDE DEF p, q
<1>3. (x \div p) \div q = x \div (p * q)
  BY <1>1, DividedTwice
<1>. QED BY <1>2, <1>3 DEF p, q

(* Shifting right after left is shifting by the difference.                *)
LEMMA LeftThenRight ==
  ASSUME NEW x \in Int, NEW m \in Nat, NEW n \in Nat
  PROVE  /\ m <= n => (x * Pow2[m]) \div Pow2[n] = x \div Pow2[n - m]
         /\ m >= n => (x * Pow2[m]) \div Pow2[n] = x * Pow2[m - n]
<1>1. ASSUME NEW k \in Nat
      PROVE  (x * Pow2[k]) \div Pow2[k] = x
  <2>. DEFINE p == Pow2[k]  y == x * p
  <2>1. p \in Nat \ {0}
    BY Powers
  <2>. HIDE DEF p
  <2>2. y \in Int /\ y = x * p + 0 /\ 0 \in 0..p - 1
    BY <2>1
  <2>. HIDE DEF y
  <2>3. y \div p = x
    BY <2>1, <2>2, Quotient
  <2>. QED BY <2>3 DEF p, y
<1>2. CASE m <= n
  <2>. DEFINE y == x * Pow2[m]  k == n - m
  <2>1. k \in Nat /\ m + k = n /\ y \in Int
    BY <1>2, Powers
  <2>. HIDE DEF y, k
  <2>2. y \div Pow2[n] = (y \div Pow2[m]) \div Pow2[k]
    BY <2>1, PowerQuotient
  <2>. USE DEF y, k
  <2>3. (x * Pow2[m]) \div Pow2[n] = x \div Pow2[n - m]
    BY <1>1, <2>2
  <2>4. m >= n => x \div Pow2[n - m] = x * Pow2[m - n]
    <3>1. m >= n => n - m = 0 /\ m - n = 0
      BY <1>2
    <3>2. Pow2[0] = 1
      BY Powers
    <3>3. x \div 1 = x /\ x * 1 = x
      OBVIOUS
    <3>. QED BY <3>1, <3>2, <3>3
  <2>. QED BY <1>2, <2>3, <2>4
<1>3. CASE ~(m <= n)
  <2>1. m - n \in Nat /\ n <= m
    BY <1>3
  <2>2. Pow2[m] = Pow2[m - n] * Pow2[n] /\ Pow2[m - n] \in Nat /\ Pow2[n] \in Nat
    BY <2>1, PowerDivides, Powers
  <2>3. x * Pow2[m] = (x * Pow2[m - n]) * Pow2[n] /\ x * Pow2[m - n] \in Int
    <3>1. ASSUME NEW y \in Nat, NEW z \in Nat
          PROVE  x * (y * z) = (x * y) * z
      BY SMTT(20)
    <3>. QED BY <2>2, <3>1
  <2>4. ((x * Pow2[m - n]) * Pow2[n]) \div Pow2[n] = x * Pow2[m - n]
    <3>. DEFINE y == x * Pow2[m - n]  p == Pow2[n]  z == y * p
    <3>1. p \in Nat \ {0} /\ y \in Int
      BY <2>3, Powers
    <3>. HIDE DEF p, y
    <3>2. z \in Int /\ z = y * p + 0 /\ 0 \in 0..p - 1
      BY <3>1
    <3>. HIDE DEF z
    <3>3. z \div p = y
      BY <3>1, <3>2, Quotient
    <3>. QED BY <3>3 DEF p, y, z
  <2>. QED BY <1>3, <2>3, <2>4
<1>. QED BY <1>2, <1>3

(* There is a register value, and Size is the power of the width.          *)
LEMMA SizeType ==
  /\ Half \in Nat \ {0} /\ Size \in Nat \ {0} /\ Size = 2 * Half
  /\ Size = Pow2[Width]
<1>1. Width - 1 \in Nat /\ (Width - 1) + 1 = Width
  BY WidthAssumption
<1>2. Pow2[Width - 1] \in Nat \ {0} /\ Pow2[(Width - 1) + 1] = 2 * Pow2[Width - 1]
  BY <1>1, Powers
<1>. QED BY <1>1, <1>2 DEF Half, Size

(* A multiple leaves no remainder.                                         *)
LEMMA Multiple ==
  ASSUME NEW k \in Int, NEW n \in Nat \ {0}
  PROVE  (k * n) % n = 0
<1>. DEFINE x == k * n
<1>1. x \in Int /\ x = k * n + 0 /\ 0 \in 0..n - 1
  OBVIOUS
<1>. HIDE DEF x
<1>2. x % n = 0
  BY <1>1, Remainder
<1>. QED BY <1>2 DEF x

(* One operation wraps around at most once.                                *)
LEMMA Wrapped ==
  ASSUME NEW x \in -Size..2 * Size - 1
  PROVE  x % Size = IF x < 0 THEN x + Size ELSE IF x < Size THEN x ELSE x - Size
<1>. USE SizeType
<1>1. CASE x < 0
  <2>1. x = (-1) * Size + (x + Size) /\ x + Size \in 0..Size - 1
    BY <1>1
  <2>. QED BY <1>1, <2>1, Remainder
<1>2. CASE x >= 0 /\ x < Size
  <2>1. x = 0 * Size + x /\ x \in 0..Size - 1
    BY <1>2
  <2>. QED BY <1>2, <2>1, Remainder
<1>3. CASE x >= Size
  <2>1. x = 1 * Size + (x - Size) /\ x - Size \in 0..Size - 1
    BY <1>3
  <2>. QED BY <1>3, <2>1, Remainder
<1>. QED BY <1>1, <1>2, <1>3

(* Two words, each computed modulo n, the upper with the carry s of the    *)
(* lower, make the number modulo n * n.                                    *)
LEMMA TwoWords ==
  ASSUME NEW n \in Nat \ {0}, NEW x \in Int, NEW y \in Int, NEW s \in Int,
         NEW l \in 0..n - 1, x = l + n * s
  PROVE  l + n * ((y + s) % n) = (x + n * y) % (n * n)
<1>. DEFINE k == (y + s) \div n
            r == (y + s) % n
<1>1. k \in Int /\ r \in 0..n - 1 /\ y + s = k * n + r
  <2>1. y + s \in Int
    OBVIOUS
  <2>. HIDE DEF k, r
  <2>. QED BY <2>1, Division DEF k, r
<1>. HIDE DEF k, r
<1>2. x + n * y = l + n * (y + s)
  BY SMTT(20)
<1>3. n * (k * n + r) = k * (n * n) + n * r
  BY <1>1, SMTT(20)
<1>4. n * n \in Nat \ {0} /\ n * r \in Nat /\ k * (n * n) \in Int
  BY <1>1, SMTT(20)
<1>5. l + n * r \in 0..n * n - 1
  <2>1. r * n + n <= n * n
    <3>1. CASE r < n
      BY <1>1, <3>1, Multiples
    <3>. QED BY <1>1, <3>1
  <2>2. r * n = n * r
    BY <1>1
  <2>. QED BY <1>1, <1>4, <2>1, <2>2
<1>6. x + n * y \in Int /\ x + n * y = k * (n * n) + (l + n * r)
  BY <1>1, <1>2, <1>3, <1>4
<1>7. (x + n * y) % (n * n) = l + n * r
  <2>. DEFINE m == n * n
              z == x + n * y
              t == l + n * r
  <2>1. m \in Nat \ {0} /\ z \in Int /\ t \in 0..m - 1 /\ z = k * m + t
    BY <1>4, <1>5, <1>6
  <2>. HIDE DEF m, z, t
  <2>2. z % m = t
    BY <1>1, <2>1, Remainder
  <2>. QED BY <2>2 DEF m, z, t
<1>. QED BY <1>7 DEF r
-------------------------------------------------------------------------------
(* What an arithmetic instruction computed from its operands.              *)
Computed(l, cin) == /\ l.op \in ArithmeticOps
                    /\ l.a \in Values /\ l.b \in Values
                    /\ l.r = Result(l.op, l.a, l.b, cin)

FlagsOf(l) == ArithmeticFlags(l.op, l.a, l.b, l.r)

(* The flags are those of the last instruction, and the carry that it went *)
(* on from is that of the instruction before.                              *)
FlagsInv == \A l \in last :
          /\ Computed(l, l.cin)
          /\ flags = FlagsOf(l)
          /\ \A lower \in l.lower :
               /\ l.op \in DOMAIN LowerOp /\ lower.op = LowerOp[l.op]
               /\ \E cin : Computed(lower, cin)
               /\ l.cin = FlagsOf(lower).c

(* The value of an arithmetic instruction, without the modulo.             *)
LEMMA ResultCases ==
  ASSUME NEW op \in ArithmeticOps, NEW a \in Values, NEW b \in Values, NEW cin
  PROVE  /\ Carried(op, cin) \in {0, 1}
         /\ Minuend(op, a, b) \in Values /\ Subtrahend(op, a, b) \in Values
         /\ LET w == IF op \in AddOps THEN a + b + Carried(op, cin)
                     ELSE Minuend(op, a, b) - Subtrahend(op, a, b) - Carried(op, cin)
            IN  /\ w \in -Size..2 * Size - 1
                /\ Result(op, a, b, cin) = w % Size
                /\ Result(op, a, b, cin)
                     = IF w < 0 THEN w + Size ELSE IF w < Size THEN w ELSE w - Size
                /\ Result(op, a, b, cin) \in Values
<1>1. Carried(op, cin) \in {0, 1}
  BY DEF Carried
<1>2. Minuend(op, a, b) \in Values /\ Subtrahend(op, a, b) \in Values
  BY DEF Minuend, Subtrahend
<1>. DEFINE w == IF op \in AddOps THEN a + b + Carried(op, cin)
                 ELSE Minuend(op, a, b) - Subtrahend(op, a, b) - Carried(op, cin)
<1>3. w \in -Size..2 * Size - 1
  BY <1>1, <1>2, SizeType DEF Values
<1>4. Result(op, a, b, cin) = w % Size
  BY DEF Result
<1>. HIDE DEF w
<1>5. Result(op, a, b, cin) = IF w < 0 THEN w + Size ELSE IF w < Size THEN w ELSE w - Size
  BY <1>3, <1>4, Wrapped
<1>6. Result(op, a, b, cin) \in Values
  BY <1>3, <1>5, SizeType DEF Values
<1>. QED BY <1>1, <1>2, <1>3, <1>4, <1>5, <1>6 DEF w

(* At first no instruction has set the flags.                              *)
LEMMA FlagsInitInv == AluInit => FlagsInv
  BY DEF AluInit, FlagsInv

(* An arithmetic instruction keeps the invariant.                          *)
LEMMA ArithmeticInv ==
  ASSUME FlagsInv, NEW op \in ArithmeticOps, NEW a \in Values, NEW b \in Values,
         Arithmetic(op, a, b)
  PROVE  FlagsInv'
<1>. DEFINE r == Result(op, a, b, flags.c)
            this == [op |-> op, a |-> a, b |-> b, cin |-> flags.c, r |-> r,
                     lower |-> Lower(op)]
<1>1. flags' = ArithmeticFlags(op, a, b, r) /\ last' = {this}
  BY DEF Arithmetic
<1>2. Computed(this, this.cin) /\ flags' = FlagsOf(this)
  BY <1>1 DEF Computed, FlagsOf
<1>3. ASSUME NEW lower \in this.lower
      PROVE  /\ this.op \in DOMAIN LowerOp /\ lower.op = LowerOp[this.op]
             /\ \E cin : Computed(lower, cin)
             /\ this.cin = FlagsOf(lower).c
  <2>1. lower \in Lower(op) /\ op \in DOMAIN LowerOp
    BY <1>3 DEF Lower
  <2>2. PICK l \in last : /\ l.op = LowerOp[op]
                          /\ lower = [op |-> l.op, a |-> l.a, b |-> l.b, r |-> l.r]
    BY <2>1 DEF Lower
  <2>3. Computed(l, l.cin) /\ flags = FlagsOf(l)
    BY DEF FlagsInv
  <2>4. lower.op = l.op /\ lower.a = l.a /\ lower.b = l.b /\ lower.r = l.r
    BY <2>2
  <2>5. Computed(lower, l.cin) /\ FlagsOf(lower) = FlagsOf(l)
    BY <2>3, <2>4 DEF Computed, FlagsOf
  <2>6. this.op = op /\ this.cin = flags.c
    OBVIOUS
  <2>. QED BY <2>1, <2>2, <2>3, <2>4, <2>5, <2>6
<1>. HIDE DEF this
<1>. QED BY <1>1, <1>2, <1>3 DEF FlagsInv

(* Every step keeps the invariant: the other instructions forget what the  *)
(* flags were of.                                                          *)
LEMMA FlagsNextInv == FlagsInv /\ [AluNext]_aluVars => FlagsInv'
<1>. SUFFICES ASSUME FlagsInv, [AluNext]_aluVars
              PROVE  FlagsInv'
  OBVIOUS
<1>1. CASE \E op \in ArithmeticOps, a \in Values, b \in Values : Arithmetic(op, a, b)
  BY <1>1, ArithmeticInv
<1>2. CASE Logic \/ Multiply \/ MultiplyLong \/ Msr
  <2>1. last' = {}
    BY <1>2 DEF Logic, Multiply, MultiplyLong, Msr
  <2>. QED BY <2>1 DEF FlagsInv
<1>3. CASE UNCHANGED aluVars
  BY <1>3 DEF aluVars, FlagsInv
<1>. QED BY <1>1, <1>2, <1>3 DEF AluNext

(* The flags are always of the last instruction.                           *)
THEOREM FlagsInvariant == AluSpec => []FlagsInv
  BY FlagsInitInv, FlagsNextInv, PTL DEF AluSpec
-------------------------------------------------------------------------------
(* Below, l is the last instruction, if it was an arithmetic one.          *)

(* The sign of a register.                                                 *)
LEMMA SignedHigh ==
  ASSUME NEW x \in Values
  PROVE  /\ x \in Int /\ 0 <= x /\ x < Size
         /\ Signed(x) = IF High(x) THEN x - Size ELSE x
         /\ High(x) <=> x >= Half
  BY SizeType DEF Values, Signed, High

(* The conditions, one by one.                                             *)
LEMMA MetCases ==
  /\ Met("eq") <=> flags.z
  /\ Met("cs") <=> flags.c
  /\ Met("hi") <=> flags.c /\ ~flags.z
  /\ Met("ge") <=> flags.n = flags.v
  /\ Met("gt") <=> ~flags.z /\ flags.n = flags.v
<1>1. Met("eq") <=> flags.z
  BY Zenon DEF Met
<1>2. Met("cs") <=> flags.c
  BY Zenon DEF Met
<1>3. Met("hi") <=> flags.c /\ ~flags.z
  BY Zenon DEF Met
<1>4. Met("ge") <=> flags.n = flags.v
  BY Zenon DEF Met
<1>5. Met("gt") <=> ~flags.z /\ flags.n = flags.v
  BY Zenon DEF Met
<1>. QED BY <1>1, <1>2, <1>3, <1>4, <1>5, Zenon

(* A subtraction without carry: its operands, its result and its flags.    *)
LEMMA Subtraction ==
  ASSUME FlagsInv, NEW l \in Last({"sub", "cmp", "rsb"})
  PROVE  LET x == Minuend(l.op, l.a, l.b)
             y == Subtrahend(l.op, l.a, l.b)
         IN  /\ x \in Values /\ y \in Values
             /\ l.r = IF x >= y THEN x - y ELSE x - y + Size
             /\ flags.n = High(l.r) /\ flags.z = (l.r = 0)
             /\ flags.c = SubCarry(x, y) /\ flags.v = SubOverflow(x, y)
<1>. DEFINE x == Minuend(l.op, l.a, l.b)
            y == Subtrahend(l.op, l.a, l.b)
<1>1. l \in last /\ l.op \in {"sub", "cmp", "rsb"}
  BY DEF Last
<1>2. Computed(l, l.cin) /\ flags = FlagsOf(l)
  BY <1>1 DEF FlagsInv
<1>3. /\ l.op \in ArithmeticOps /\ l.a \in Values /\ l.b \in Values
      /\ l.r = Result(l.op, l.a, l.b, l.cin)
  BY <1>2 DEF Computed
<1>4. l.op \notin AddOps /\ Carried(l.op, l.cin) = 0
  BY <1>1 DEF AddOps, Carried
<1>5. x \in Values /\ y \in Values
  BY <1>3, ResultCases
<1>6. l.r = IF x >= y THEN x - y ELSE x - y + Size
  <2>. HIDE DEF x, y
  <2>1. x \in Int /\ y \in Int /\ 0 <= x /\ 0 <= y /\ x < Size /\ y < Size
    BY <1>5, SignedHigh
  <2>2. x - y \in -Size..2 * Size - 1
    BY <2>1, SizeType
  <2>3. l.r = (x - y - Carried(l.op, l.cin)) % Size
    BY <1>3, <1>4 DEF Result, x, y
  <2>4. x - y - Carried(l.op, l.cin) = x - y
    BY <1>4, <2>1
  <2>5. l.r = (x - y) % Size
    BY <2>3, <2>4
  <2>6. (x - y) % Size = IF x - y < 0 THEN x - y + Size
                         ELSE IF x - y < Size THEN x - y ELSE x - y - Size
    BY <2>2, Wrapped
  <2>. QED BY <2>1, <2>5, <2>6, SizeType
<1>7. /\ flags.n = High(l.r) /\ flags.z = (l.r = 0)
      /\ flags.c = SubCarry(x, y) /\ flags.v = SubOverflow(x, y)
  <2>. HIDE DEF x, y
  <2>. QED BY <1>2, <1>4 DEF FlagsOf, ArithmeticFlags, x, y
<1>. QED BY <1>5, <1>6, <1>7

(* Comparing numbers without a sign: eq, cs and hi, and so their           *)
(* opposites, tell the truth after sub, cmp and rsb.                       *)
THEOREM UnsignedCorrect == AluSpec => []UnsignedConditions
<1>1. FlagsInv => UnsignedConditions
  <2>. SUFFICES ASSUME FlagsInv, NEW l \in Last({"sub", "cmp", "rsb"})
                PROVE  LET x == Minuend(l.op, l.a, l.b)
                           y == Subtrahend(l.op, l.a, l.b)
                       IN  /\ Met("eq") <=> x = y
                           /\ Met("cs") <=> x >= y
                           /\ Met("hi") <=> x > y
    BY DEF UnsignedConditions
  <2>. DEFINE x == Minuend(l.op, l.a, l.b)
              y == Subtrahend(l.op, l.a, l.b)
  <2>1. /\ x \in Values /\ y \in Values
        /\ l.r = IF x >= y THEN x - y ELSE x - y + Size
        /\ flags.z = (l.r = 0) /\ flags.c = SubCarry(x, y)
    BY Subtraction
  <2>. HIDE DEF x, y
  <2>2. x \in Int /\ y \in Int /\ 0 <= x /\ 0 <= y /\ x < Size /\ y < Size
    BY <2>1, SignedHigh
  <2>3. flags.c <=> x >= y
    BY <2>1 DEF SubCarry
  <2>4. flags.z <=> x = y
    <3>1. l.r = 0 <=> x = y
      BY <2>1, <2>2, SizeType
    <3>. QED BY <2>1, <3>1, Zenon
  <2>5. x > y <=> x >= y /\ x # y
    BY <2>2
  <2>6. /\ Met("eq") <=> flags.z
        /\ Met("cs") <=> flags.c
        /\ Met("hi") <=> flags.c /\ ~flags.z
    BY MetCases
  <2>7. /\ Met("eq") <=> x = y
        /\ Met("cs") <=> x >= y
        /\ Met("hi") <=> x > y
    BY <2>3, <2>4, <2>5, <2>6, Zenon
  <2>. QED BY <2>7 DEF x, y
<1>. QED BY <1>1, FlagsInvariant, PTL

(* The overflow of a subtraction is that of one that takes away one more.  *)
LEMMA SubOverflowCases ==
  ASSUME NEW x \in Values, NEW y \in Values
  PROVE  SubOverflow(x, y) <=> /\ ~(High(x) <=> High(y))
                               /\ High(x) <=> IF x <= y THEN x - y - 1 + Size < Half
                                              ELSE x - y - 1 < Half
<1>. DEFINE negated == Size - 1 - y
            w == x + negated
<1>1. x \in Int /\ y \in Int /\ 0 <= x /\ 0 <= y /\ x < Size /\ y < Size
  BY SignedHigh
<1>2. negated \in Values /\ w \in -Size..2 * Size - 1
  BY <1>1, SizeType DEF Values
<1>3. High(negated) <=> ~High(y)
  BY <1>1, SizeType DEF High
<1>4. ~High(w % Size) <=> IF x <= y THEN x - y - 1 + Size < Half ELSE x - y - 1 < Half
  <2>1. w % Size = IF w < 0 THEN w + Size ELSE IF w < Size THEN w ELSE w - Size
    <3>. HIDE DEF w
    <3>. QED BY <1>2, Wrapped
  <2>2. w % Size = IF x <= y THEN x - y - 1 + Size ELSE x - y - 1
    <3>. DEFINE m == w % Size
    <3>1. m = IF w < 0 THEN w + Size ELSE IF w < Size THEN w ELSE w - Size
      BY <2>1
    <3>. HIDE DEF m
    <3>2. m = IF x <= y THEN x - y - 1 + Size ELSE x - y - 1
      BY <1>1, <3>1, SizeType
    <3>. QED BY <3>2 DEF m
  <2>. DEFINE m == w % Size
  <2>3. m = IF x <= y THEN x - y - 1 + Size ELSE x - y - 1
    BY <2>2
  <2>. HIDE DEF m
  <2>4. ~High(m) <=> IF x <= y THEN x - y - 1 + Size < Half ELSE x - y - 1 < Half
    BY <1>1, <2>3, SizeType DEF High
  <2>. QED BY <2>4 DEF m
<1>5. SubOverflow(x, y) <=> High(x) = High(negated) /\ High(x) # High(w % Size)
  BY DEF SubOverflow
<1>6. High(x) \in BOOLEAN /\ High(y) \in BOOLEAN /\ High(negated) \in BOOLEAN
      /\ High(w % Size) \in BOOLEAN
  BY DEF High
<1>. HIDE DEF negated, w
<1>. QED BY <1>3, <1>4, <1>5, <1>6

(* Comparing signed numbers: ge and gt, and so lt and le, tell the truth   *)
(* after sub, cmp and rsb unless the difference is 2^31 or -2^31.          *)
THEOREM SignedCorrect == AluSpec => []SignedConditions
<1>1. FlagsInv => SignedConditions
  <2>. SUFFICES ASSUME FlagsInv, NEW l \in Last({"sub", "cmp", "rsb"})
                PROVE  LET x == Signed(Minuend(l.op, l.a, l.b))
                           y == Signed(Subtrahend(l.op, l.a, l.b))
                       IN  x - y \notin {Half, -Half} => /\ Met("ge") <=> x >= y
                                                         /\ Met("gt") <=> x > y
    BY DEF SignedConditions
  <2>. DEFINE x == Minuend(l.op, l.a, l.b)
              y == Subtrahend(l.op, l.a, l.b)
              sx == Signed(x)
              sy == Signed(y)
  <2>1. /\ x \in Values /\ y \in Values
        /\ l.r = IF x >= y THEN x - y ELSE x - y + Size
        /\ flags.n = High(l.r) /\ flags.z = (l.r = 0) /\ flags.v = SubOverflow(x, y)
    BY Subtraction
  <2>. HIDE DEF x, y
  <2>2. /\ x \in Int /\ y \in Int /\ 0 <= x /\ 0 <= y /\ x < Size /\ y < Size
        /\ sx = (IF x >= Half THEN x - Size ELSE x)
        /\ sy = (IF y >= Half THEN y - Size ELSE y)
        /\ High(x) <=> x >= Half
        /\ High(y) <=> y >= Half
    BY <2>1, SignedHigh
  <2>. HIDE DEF sx, sy
  <2>3. High(l.r) <=> IF x >= y THEN x - y >= Half ELSE x - y + Size >= Half
    BY <2>1, <2>2, SizeType DEF High
  <2>4. SubOverflow(x, y) <=> /\ ~(High(x) <=> High(y))
                              /\ High(x) <=> IF x <= y THEN x - y - 1 + Size < Half
                                             ELSE x - y - 1 < Half
    BY <2>1, SubOverflowCases
  <2>5. ASSUME sx - sy \notin {Half, -Half}
        PROVE  (High(l.r) <=> SubOverflow(x, y)) <=> sx >= sy
    <3>1. sx - sy # Half /\ sx - sy # -Half
      BY <2>5
    <3>2. CASE High(x) /\ High(y)
      <4>1. ~SubOverflow(x, y)
        BY <2>4, <3>2
      <4>2. High(l.r) <=> x < y
        BY <2>2, <2>3, <3>2, SizeType
      <4>. QED BY <2>2, <3>2, <4>1, <4>2, SizeType
    <3>3. CASE ~High(x) /\ ~High(y)
      <4>1. ~SubOverflow(x, y)
        BY <2>4, <3>3
      <4>2. High(l.r) <=> x < y
        BY <2>2, <2>3, <3>3, SizeType
      <4>. QED BY <2>2, <3>3, <4>1, <4>2, SizeType
    <3>4. CASE High(x) /\ ~High(y)
      <4>1. x > y /\ sx < sy
        BY <2>2, <3>4, SizeType
      <4>2. SubOverflow(x, y) <=> x - y - 1 < Half
        BY <2>2, <2>4, <3>4, <4>1, SizeType
      <4>3. High(l.r) <=> x - y >= Half
        BY <2>2, <2>3, <4>1, SizeType
      <4>4. x - y # Half
        BY <2>2, <3>1, <3>4, SizeType
      <4>. QED BY <2>2, <4>1, <4>2, <4>3, <4>4, SizeType
    <3>5. CASE ~High(x) /\ High(y)
      <4>1. x < y /\ sx > sy
        BY <2>2, <3>5, SizeType
      <4>2. SubOverflow(x, y) <=> x - y - 1 + Size >= Half
        BY <2>2, <2>4, <3>5, <4>1, SizeType
      <4>3. High(l.r) <=> x - y + Size >= Half
        BY <2>2, <2>3, <4>1, SizeType
      <4>4. x - y + Size # Half
        BY <2>2, <3>1, <3>5, SizeType
      <4>. QED BY <2>2, <4>1, <4>2, <4>3, <4>4, SizeType
    <3>. QED BY <3>2, <3>3, <3>4, <3>5
  <2>6. l.r = 0 <=> x = y
    BY <2>1, <2>2, SizeType
  <2>7. sx > sy <=> sx >= sy /\ x # y
    BY <2>2, SizeType
  <2>8. High(l.r) \in BOOLEAN /\ SubOverflow(x, y) \in BOOLEAN
    BY DEF High, SubOverflow
  <2>9. /\ flags.n = flags.v <=> (High(l.r) <=> SubOverflow(x, y))
        /\ flags.z <=> x = y
    BY <2>1, <2>6, <2>8, Zenon
  <2>10. sx - sy \notin {Half, -Half} => /\ Met("ge") <=> sx >= sy
                                         /\ Met("gt") <=> sx > sy
    BY <2>5, <2>7, <2>9, MetCases, Zenon
  <2>. QED BY <2>10 DEF x, y, sx, sy
<1>. QED BY <1>1, FlagsInvariant, PTL

(* C and V after add and cmn are those of the exact sum.                   *)
THEOREM AdditionCorrect == AluSpec => []AddFlagsExact
<1>1. FlagsInv => AddFlagsExact
  <2>. SUFFICES ASSUME FlagsInv, NEW l \in Last({"add", "cmn"})
                PROVE  /\ flags.c <=> l.a + l.b >= Size
                       /\ flags.v <=> Signed(l.a) + Signed(l.b) \notin -Half..Half - 1
    BY DEF AddFlagsExact
  <2>1. l \in last /\ l.op \in AddOps
    BY DEF Last, AddOps
  <2>2. /\ l.a \in Values /\ l.b \in Values
        /\ flags.c = AddCarry(l.a, l.b) /\ flags.v = AddOverflow(l.a, l.b)
    BY <2>1 DEF FlagsInv, Computed, FlagsOf, ArithmeticFlags
  <2>. DEFINE a == l.a
              b == l.b
              sa == Signed(a)
              sb == Signed(b)
              w == a + b
              m == w % Size
  <2>3. /\ a \in Int /\ b \in Int /\ 0 <= a /\ 0 <= b /\ a < Size /\ b < Size
        /\ sa = (IF a >= Half THEN a - Size ELSE a)
        /\ sb = (IF b >= Half THEN b - Size ELSE b)
        /\ High(a) <=> a >= Half
        /\ High(b) <=> b >= Half
    BY <2>2, SignedHigh
  <2>4. m = IF w < Size THEN w ELSE w - Size
    <3>1. w \in -Size..2 * Size - 1 /\ w >= 0
      BY <2>3, SizeType
    <3>. HIDE DEF w
    <3>. QED BY <3>1, Wrapped
  <2>5. AddCarry(a, b) <=> a + b >= Size
    BY <2>3, SizeType DEF AddCarry
  <2>6. AddOverflow(a, b) <=> High(a) = High(b) /\ High(a) # High(m)
    BY DEF AddOverflow
  <2>. HIDE DEF a, b, sa, sb, m
  <2>7. High(m) <=> IF a + b < Size THEN a + b >= Half ELSE a + b - Size >= Half
    BY <2>3, <2>4, SizeType DEF High
  <2>8. High(a) \in BOOLEAN /\ High(b) \in BOOLEAN /\ High(m) \in BOOLEAN
    BY DEF High
  <2>9. AddOverflow(a, b) <=> sa + sb \notin -Half..Half - 1
    BY <2>3, <2>6, <2>7, <2>8, SizeType
  <2>. QED BY <2>2, <2>5, <2>9, Zenon DEF a, b, sa, sb
<1>. QED BY <1>1, FlagsInvariant, PTL

(* The carry of adc, sbc and rsc is wrong only where the carry that went   *)
(* in decides: at a sum of all ones, or at equal operands.                 *)
THEOREM ChainedCarryCorrect == AluSpec => []ChainedCarry
<1>1. FlagsInv => ChainedCarry
  <2>. SUFFICES ASSUME FlagsInv, NEW l \in Last({"adc", "sbc", "rsc"})
                PROVE  LET x     == Minuend(l.op, l.a, l.b)
                           y     == Subtrahend(l.op, l.a, l.b)
                           in    == Carried(l.op, l.cin)
                           exact == IF l.op = "adc" THEN x + y + in >= Size ELSE x - y - in >= 0
                       IN  \/ flags.c <=> exact
                           \/ in = 1 /\ (IF l.op = "adc" THEN x + y = Size - 1 ELSE x = y)
    BY DEF ChainedCarry
  <2>. DEFINE x  == Minuend(l.op, l.a, l.b)
              y  == Subtrahend(l.op, l.a, l.b)
              in == Carried(l.op, l.cin)
  <2>1. l \in last /\ l.op \in {"adc", "sbc", "rsc"}
    BY DEF Last
  <2>2. /\ l.op \in ArithmeticOps /\ l.a \in Values /\ l.b \in Values
        /\ flags = FlagsOf(l)
    BY <2>1 DEF FlagsInv, Computed
  <2>3. x \in Values /\ y \in Values /\ in \in {0, 1}
    BY <2>2, ResultCases
  <2>4. CASE l.op = "adc"
    <3>1. x = l.a /\ y = l.b
      BY <2>4 DEF Minuend, Subtrahend, ReversedOps
    <3>2. flags.c = AddCarry(l.a, l.b)
      BY <2>2, <2>4 DEF FlagsOf, ArithmeticFlags, AddOps
    <3>. HIDE DEF x, y, in
    <3>3. AddCarry(x, y) <=> x + y >= Size
      BY <2>3, SignedHigh, SizeType DEF AddCarry
    <3>4. flags.c <=> x + y >= Size
      BY <3>1, <3>2, <3>3, Zenon
    <3>5. \/ flags.c <=> x + y + in >= Size
          \/ in = 1 /\ x + y = Size - 1
      BY <2>3, <3>4, SignedHigh, SizeType
    <3>. QED BY <2>4, <3>5 DEF x, y, in
  <2>5. CASE l.op # "adc"
    <3>1. flags.c = SubCarry(x, y)
      BY <2>1, <2>2, <2>5 DEF FlagsOf, ArithmeticFlags, AddOps
    <3>. HIDE DEF x, y, in
    <3>2. flags.c <=> x >= y
      BY <3>1, Zenon DEF SubCarry
    <3>3. \/ flags.c <=> x - y - in >= 0
          \/ in = 1 /\ x = y
      BY <2>3, <3>2, SignedHigh
    <3>. QED BY <2>5, <3>3 DEF x, y, in
  <2>. QED BY <2>4, <2>5
<1>. QED BY <1>1, FlagsInvariant, PTL

(* The lower word, and the carry that goes from it to the upper.           *)
LEMMA LowerWord ==
  ASSUME NEW op, NEW lower, NEW cin, Computed(lower, cin),
         op \in {"adc", "sbc", "rsc"},
         op = "adc" => lower.op = "add",
         op = "sbc" => lower.op = "sub",
         op = "rsc" => lower.op = "rsb"
  PROVE  LET in == Carried(op, FlagsOf(lower).c)
         IN  /\ lower.r \in 0..Size - 1
             /\ Number(lower.op, lower.a, lower.b)
                  = lower.r + Size * (IF op = "adc" THEN in ELSE -in)
<1>. DEFINE x == Minuend(lower.op, lower.a, lower.b)
            y == Subtrahend(lower.op, lower.a, lower.b)
            in == Carried(op, FlagsOf(lower).c)
            r == lower.r
<1>1. /\ lower.op \in ArithmeticOps /\ lower.a \in Values /\ lower.b \in Values
      /\ r = Result(lower.op, lower.a, lower.b, cin)
  BY DEF Computed
<1>2. x \in Values /\ y \in Values /\ r \in Values /\ in \in {0, 1}
  <2>1. x \in Values /\ y \in Values /\ r \in Values
    BY <1>1, ResultCases
  <2>2. in \in {0, 1}
    BY DEF Carried
  <2>. QED BY <2>1, <2>2
<1>3. r \in 0..Size - 1
  BY <1>2 DEF Values
<1>4. Carried(lower.op, cin) = 0
  BY DEF Carried
<1>5. CASE op = "adc"
  <2>1. lower.op = "add" /\ lower.op \in AddOps /\ lower.op \notin ReversedOps
    BY <1>5 DEF AddOps, ReversedOps
  <2>2. x = lower.a /\ y = lower.b
    BY <2>1 DEF Minuend, Subtrahend
  <2>3. r = (x + y + 0) % Size
    BY <1>1, <1>4, <2>1, <2>2 DEF Result
  <2>4. FlagsOf(lower).c = AddCarry(x, y)
    BY <2>1, <2>2 DEF FlagsOf, ArithmeticFlags
  <2>5. Number(lower.op, lower.a, lower.b) = x + y
    BY <2>1, <2>2 DEF Number
  <2>6. in = IF AddCarry(x, y) THEN 1 ELSE 0
    <3>. HIDE DEF x, y
    <3>. QED BY <1>5, <2>4 DEF Carried
  <2>. HIDE DEF x, y, in, r
  <2>7. AddCarry(x, y) <=> x + y >= Size
    BY <1>2, SignedHigh, SizeType DEF AddCarry
  <2>8. x + y + 0 \in -Size..2 * Size - 1
    BY <1>2, SignedHigh, SizeType
  <2>9. r = IF x + y < Size THEN x + y ELSE x + y - Size
    <3>. DEFINE w == x + y + 0
    <3>1. w \in -Size..2 * Size - 1 /\ r = w % Size
      BY <2>3, <2>8
    <3>. HIDE DEF w
    <3>2. r = IF w < 0 THEN w + Size ELSE IF w < Size THEN w ELSE w - Size
      BY <3>1, Wrapped
    <3>. QED BY <1>2, <3>2, SignedHigh, SizeType DEF w
  <2>10. x + y = r + Size * in
    BY <1>2, <2>6, <2>7, <2>9, SignedHigh, SizeType
  <2>. QED BY <1>3, <1>5, <2>5, <2>10 DEF r, in
<1>6. CASE op # "adc"
  <2>1. lower.op \in {"sub", "rsb"} /\ lower.op \notin AddOps
    BY <1>6 DEF AddOps
  <2>3. r = (x - y - 0) % Size
    BY <1>1, <1>4, <2>1 DEF Result
  <2>4. FlagsOf(lower).c = SubCarry(x, y)
    BY <2>1 DEF FlagsOf, ArithmeticFlags
  <2>5. Number(lower.op, lower.a, lower.b) = x - y
    BY <2>1 DEF Number
  <2>6. in = IF SubCarry(x, y) THEN 0 ELSE 1
    <3>. HIDE DEF x, y
    <3>. QED BY <1>6, <2>4 DEF Carried
  <2>. HIDE DEF x, y, in, r
  <2>7. SubCarry(x, y) <=> x >= y
    BY DEF SubCarry
  <2>8. x - y - 0 \in -Size..2 * Size - 1
    BY <1>2, SignedHigh, SizeType
  <2>9. r = IF x >= y THEN x - y ELSE x - y + Size
    <3>. DEFINE w == x - y - 0
    <3>1. w \in -Size..2 * Size - 1 /\ r = w % Size
      BY <2>3, <2>8
    <3>. HIDE DEF w
    <3>2. r = IF w < 0 THEN w + Size ELSE IF w < Size THEN w ELSE w - Size
      BY <3>1, Wrapped
    <3>. QED BY <1>2, <3>2, SignedHigh, SizeType DEF w
  <2>10. x - y = r + Size * (-in)
    BY <1>2, <2>6, <2>7, <2>9, SignedHigh, SizeType
  <2>. QED BY <1>3, <1>6, <2>5, <2>10 DEF r, in
<1>. QED BY <1>5, <1>6

(* adds and adc, subs and sbc, rsbs and rsc compute with two words.        *)
THEOREM TwoWordsCorrect == AluSpec => []TwoWordsExact
<1>1. FlagsInv => TwoWordsExact
  <2>. SUFFICES ASSUME FlagsInv, NEW l \in last, NEW lower \in l.lower
                PROVE  lower.r + Size * l.r
                         = (Number(lower.op, lower.a, lower.b) + Size * Number(l.op, l.a, l.b))
                             % (Size * Size)
    BY DEF TwoWordsExact
  <2>1. Computed(l, l.cin) /\ l.op \in DOMAIN LowerOp /\ lower.op = LowerOp[l.op]
    BY DEF FlagsInv
  <2>2. PICK cin : Computed(lower, cin)
    BY DEF FlagsInv
  <2>3. l.cin = FlagsOf(lower).c
    BY DEF FlagsInv
  <2>4. /\ l.op \in {"adc", "sbc", "rsc"}
        /\ l.op = "adc" => lower.op = "add"
        /\ l.op = "sbc" => lower.op = "sub"
        /\ l.op = "rsc" => lower.op = "rsb"
    BY <2>1 DEF LowerOp
  <2>. DEFINE x == Number(lower.op, lower.a, lower.b)
              y == Number(l.op, l.a, l.b)
              in == Carried(l.op, l.cin)
              s == IF l.op = "adc" THEN in ELSE -in
              low == lower.r
  <2>5. in \in {0, 1} /\ x \in Int /\ y \in Int /\ s \in Int
    <3>1. /\ l.op \in ArithmeticOps /\ l.a \in Values /\ l.b \in Values
          /\ lower.op \in ArithmeticOps /\ lower.a \in Values /\ lower.b \in Values
      BY <2>1, <2>2 DEF Computed
    <3>2. in \in {0, 1}
      BY <3>1, ResultCases
    <3>3. /\ Minuend(l.op, l.a, l.b) \in Values /\ Subtrahend(l.op, l.a, l.b) \in Values
      BY <3>1, ResultCases
    <3>4. /\ Minuend(lower.op, lower.a, lower.b) \in Values
          /\ Subtrahend(lower.op, lower.a, lower.b) \in Values
      BY <3>1, ResultCases
    <3>5. \A v \in Values : v \in Int
      BY SignedHigh
    <3>6. x \in Int /\ y \in Int
      BY <3>1, <3>3, <3>4, <3>5 DEF Number
    <3>. HIDE DEF x, y, in
    <3>. QED BY <3>2, <3>6
  <2>6. l.r = (y + s) % Size
    <3>1. l.r = Result(l.op, l.a, l.b, l.cin)
      BY <2>1 DEF Computed
    <3>2. CASE l.op = "adc"
      <4>1. y = l.a + l.b /\ s = in /\ l.r = (l.a + l.b + in) % Size
        BY <3>1, <3>2 DEF Number, Result, AddOps
      <4>. QED BY <4>1
    <3>3. CASE l.op # "adc"
      <4>1. /\ y = Minuend(l.op, l.a, l.b) - Subtrahend(l.op, l.a, l.b)
            /\ s = -in
            /\ l.r = (Minuend(l.op, l.a, l.b) - Subtrahend(l.op, l.a, l.b) - in) % Size
        BY <2>4, <3>1, <3>3 DEF Number, Result, AddOps
      <4>2. l.r = (y - in) % Size
        BY <4>1
      <4>. HIDE DEF y, in
      <4>3. y - in = y + s
        BY <2>5, <4>1
      <4>. QED BY <4>2, <4>3
    <3>. QED BY <3>2, <3>3
  <2>7. low \in 0..Size - 1 /\ x = low + Size * s
    BY <2>2, <2>3, <2>4, LowerWord
  <2>. HIDE DEF x, y, s, low
  <2>8. low + Size * ((y + s) % Size) = (x + Size * y) % (Size * Size)
    BY <2>5, <2>7, SizeType, TwoWords
  <2>. QED BY <2>6, <2>8 DEF x, y, low
<1>. QED BY <1>1, FlagsInvariant, PTL
-------------------------------------------------------------------------------
(* The cases of lsl.                                                       *)
LEMMA LeftCases ==
  ASSUME NEW value \in Int, NEW amount \in Nat, NEW c \in BOOLEAN
  PROVE  /\ amount >= Width => LogicalLeft(value, amount, c).val = 0
         /\ amount < Width => LogicalLeft(value, amount, c).val = (value * Pow2[amount]) % Size
         /\ amount \in 1..Width =>
              (LogicalLeft(value, amount, c).carry <=> Bit(value, Width - amount))
         /\ amount > Width => ~LogicalLeft(value, amount, c).carry
         /\ amount = 0 => (LogicalLeft(value, amount, c).carry <=> c)
<1>1. amount >= Width => LogicalLeft(value, amount, c).val = 0
  BY WidthAssumption DEF LogicalLeft
<1>2. amount < Width => LogicalLeft(value, amount, c).val = (value * Pow2[amount]) % Size
  BY WidthAssumption DEF LogicalLeft
<1>3. amount \in 1..Width =>
        (LogicalLeft(value, amount, c).carry <=> Bit(value, Width - amount))
  BY WidthAssumption DEF LogicalLeft
<1>4. amount > Width => ~LogicalLeft(value, amount, c).carry
  BY WidthAssumption DEF LogicalLeft
<1>5. amount = 0 => (LogicalLeft(value, amount, c).carry <=> c)
  BY WidthAssumption DEF LogicalLeft
<1>. QED BY <1>1, <1>2, <1>3, <1>4, <1>5

(* lsl is multiplication, and its carry the bit that leaves last.          *)
LEMMA LeftMultiplies ==
  ASSUME NEW value \in Values, NEW amount \in Nat, NEW c \in BOOLEAN
  PROVE  LET wide == value * Pow2[amount]
             r == LogicalLeft(value, amount, c)
         IN  /\ r.val = wide % Size
             /\ r.carry <=> IF amount = 0 THEN c ELSE (wide \div Size) % 2 = 1
<1>. DEFINE wide == value * Pow2[amount]
<1>0. value \in Int /\ Pow2[amount] \in Nat /\ Width \in Nat /\ Size = Pow2[Width]
      /\ Size \in Nat \ {0}
  BY Powers, SizeType, WidthAssumption DEF Values
<1>1. amount >= Width => wide \div Size = value * Pow2[amount - Width]
  BY <1>0, LeftThenRight
<1>2. amount <= Width => wide \div Size = value \div Pow2[Width - amount]
  BY <1>0, LeftThenRight
<1>3. CASE amount > Width
  <2>. DEFINE k == (amount - Width) - 1  y == value * Pow2[k]
  <2>1. k \in Nat /\ k + 1 = amount - Width
    BY <1>0, <1>3
  <2>2. Pow2[amount - Width] = 2 * Pow2[k] /\ Pow2[k] \in Nat
    BY <2>1, Powers
  <2>3. y \in Int /\ value * Pow2[amount - Width] = y * 2
    BY <1>0, <2>2, SMTT(20)
  <2>. HIDE DEF y
  <2>4. (y * 2) % 2 = 0
    BY <2>3, Multiple
  <2>5. (wide \div Size) % 2 # 1
    BY <1>1, <1>3, <1>0, <2>3, <2>4
  <2>6. wide % Size = 0
    <3>. DEFINE k1 == amount - Width  p == Pow2[k1] z == value * p
    <3>1. k1 \in Nat /\ Width <= amount
      BY <1>0, <1>3
    <3>2. p \in Nat /\ Pow2[amount] = p * Size
      BY <3>1, <1>0, PowerDivides, Powers
    <3>. HIDE DEF p
    <3>3. z \in Int /\ wide = z * Size
      BY <1>0, <3>2, SMTT(20)
    <3>. HIDE DEF z, wide
    <3>4. (z * Size) % Size = 0
      BY <1>0, <3>3, Multiple
    <3>. QED BY <3>3, <3>4
  <2>7. /\ LogicalLeft(value, amount, c).val = 0
        /\ ~LogicalLeft(value, amount, c).carry
    BY <1>0, <1>3, LeftCases
  <2>8. amount # 0
    BY <1>0, <1>3
  <2>. QED BY <2>5, <2>6, <2>7, <2>8
<1>4. CASE amount \in 1..Width
  <2>1. LogicalLeft(value, amount, c).carry <=> Bit(value, Width - amount)
    BY <1>0, <1>4, LeftCases
  <2>2. LogicalLeft(value, amount, c).carry <=> ((wide \div Size) % 2 = 1)
    BY <1>0, <1>2, <1>4, <2>1 DEF Bit
  <2>3. CASE amount = Width
    <3>1. LogicalLeft(value, amount, c).val = 0
      BY <1>0, <2>3, LeftCases
    <3>2. (value * Size) % Size = 0
      BY <1>0, Multiple
    <3>3. wide = value * Size
      BY <1>0, <2>3
    <3>. QED BY <1>0, <2>2, <2>3, <3>1, <3>2, <3>3, WidthAssumption
  <2>4. CASE amount # Width
    <3>1. LogicalLeft(value, amount, c).val = wide % Size
      BY <1>0, <1>4, <2>4, LeftCases
    <3>. QED BY <1>4, <2>2, <3>1
  <2>. QED BY <2>3, <2>4
<1>5. CASE amount = 0
  <2>1. /\ LogicalLeft(value, amount, c).val = wide % Size
        /\ LogicalLeft(value, amount, c).carry <=> c
    BY <1>0, <1>5, LeftCases, WidthAssumption
  <2>. QED BY <1>5, <2>1
<1>6. amount > Width \/ amount \in 1..Width \/ amount = 0
  BY <1>0
<1>. QED BY <1>3, <1>4, <1>5, <1>6

(* One turn of the loops, on what is left of the number x after i turns.   *)
LEMMA Halved ==
  ASSUME NEW x \in Int, NEW i \in Nat
  PROVE  (x \div Pow2[i]) \div 2 = x \div Pow2[i + 1]
<1>1. Pow2[0] = 1 /\ Pow2[0 + 1] = 2 * Pow2[0]
  BY Powers
<1>2. Pow2[1] = 2
  BY <1>1
<1>3. (x \div Pow2[i]) \div Pow2[1] = x \div Pow2[i + 1]
  BY PowerQuotient
<1>. QED BY <1>2, <1>3

(* The loop of lsr divides, and leaves the last remainder in the carry.    *)
LEMMA RightDivides ==
  ASSUME NEW value \in Values, NEW amount \in Nat, NEW c \in BOOLEAN
  PROVE  LogicalRight(value, amount, c)
           = [val   |-> value \div Pow2[amount],
              carry |-> IF amount = 0 THEN c ELSE (value \div Pow2[amount - 1]) % 2 = 1]
<1>. DEFINE State(i) ==
              [val   |-> value \div Pow2[i],
               carry |-> IF i = 0 THEN c ELSE (value \div Pow2[i - 1]) % 2 = 1]
            Turn(h, i) == IF i = 0 THEN [val |-> value, carry |-> c]
                                   ELSE PopBack(h[i - 1], 0)
<1>1. State(0) = [val |-> value, carry |-> c]
  <2>1. Pow2[0] = 1 /\ value \in Int
    BY Powers DEF Values
  <2>2. value \div 1 = value
    BY <2>1
  <2>. QED BY <2>1, <2>2
<1>2. ASSUME NEW i \in Nat
      PROVE  State(i + 1) = PopBack(State(i), 0)
  <2>1. value \in Int
    BY DEF Values
  <2>2. (value \div Pow2[i]) \div 2 = value \div Pow2[i + 1]
    BY <2>1, Halved
  <2>3. (value \div Pow2[i]) \div 2 + 0 * Half = (value \div Pow2[i]) \div 2
    BY <2>1, Powers, SizeType
  <2>4. i + 1 # 0 /\ (i + 1) - 1 = i
    OBVIOUS
  <2>. QED BY <2>2, <2>3, <2>4 DEF PopBack
<1>. HIDE DEF State
<1>3. ASSUME NEW h, h = [i \in 0..amount |-> Turn(h, i)]
      PROVE  h[amount] = State(amount)
  <2>. DEFINE T == {i \in Nat : i <= amount => h[i] = State(i)}
  <2>1. 0 \in T
    BY <1>1, <1>3
  <2>2. ASSUME NEW i \in Nat, i \in T
        PROVE  i + 1 \in T
    <3>1. CASE i + 1 <= amount
      <4>1. h[i] = State(i) /\ i + 1 \in 0..amount /\ i + 1 # 0 /\ (i + 1) - 1 = i
        BY <2>2, <3>1
      <4>2. h[i + 1] = PopBack(h[i], 0)
        BY <1>3, <4>1
      <4>. QED BY <1>2, <4>1, <4>2
    <3>. QED BY <3>1
  <2>. HIDE DEF T
  <2>3. Nat \subseteq T
    BY <2>1, <2>2, Induction
  <2>. QED BY <2>3 DEF T
<1>4. \E h : h = [i \in 0..amount |-> Turn(h, i)]
  <2>. DEFINE f == [i \in 0..amount |-> State(i)]
  <2>1. ASSUME NEW i \in 0..amount
        PROVE  f[i] = Turn(f, i)
    <3>1. CASE i = 0
      BY <1>1, <3>1
    <3>2. CASE i # 0
      <4>1. i - 1 \in Nat /\ (i - 1) + 1 = i /\ i - 1 \in 0..amount
        BY <3>2
      <4>2. State(i) = PopBack(State(i - 1), 0)
        BY <1>2, <4>1
      <4>. QED BY <3>2, <4>1, <4>2
    <3>. QED BY <3>1, <3>2
  <2>2. f = [i \in 0..amount |-> Turn(f, i)]
    BY <2>1
  <2>. QED BY <2>2
<1>5. LogicalRight(value, amount, c) = State(amount)
  <2>. DEFINE after == CHOOSE h : h = [i \in 0..amount |-> Turn(h, i)]
  <2>1. after = [i \in 0..amount |-> Turn(after, i)]
    BY <1>4
  <2>2. after[amount] = State(amount)
    <3>. HIDE DEF after
    <3>. QED BY <1>3, <2>1
  <2>. QED BY <2>2 DEF LogicalRight
<1>. QED BY <1>5 DEF State

(* One turn of the loop of asr, on a register that holds the signed q.     *)
LEMMA TurnSigned ==
  ASSUME NEW q \in -Half..Half - 1, NEW v, v = q % Size
  PROVE  /\ v % 2 = q % 2
         /\ q \div 2 \in -Half..Half - 1
         /\ v \div 2 + (v \div Half) * Half = (q \div 2) % Size
<1>. DEFINE d == q \div 2
<1>0. Half \in Nat \ {0} /\ Size = 2 * Half
  BY SizeType
<1>1. ASSUME NEW x \in -Half..Half - 1
      PROVE  x % Size = IF x < 0 THEN x + Size ELSE x
  <2>1. x \in -Size..2 * Size - 1
    BY <1>0
  <2>2. x % Size = IF x < 0 THEN x + Size ELSE IF x < Size THEN x ELSE x - Size
    BY <2>1, Wrapped
  <2>. QED BY <1>0, <2>2
<1>2. v = IF q < 0 THEN q + Size ELSE q
  BY <1>1
<1>3. d \in -Half..Half - 1 /\ v % 2 = q % 2 /\ v \in Nat
  BY <1>0, <1>2
<1>4. d % Size = IF d < 0 THEN d + Size ELSE d
  <2>. HIDE DEF d
  <2>. QED BY <1>1, <1>3
<1>5. CASE q < 0
  <2>1. v \div 2 = d + Half /\ d < 0
    BY <1>0, <1>2, <1>5
  <2>2. v = 1 * Half + (v - Half) /\ v - Half \in 0..Half - 1 /\ v \in Int
    BY <1>0, <1>2, <1>5
  <2>3. v \div Half = 1
    BY <1>0, <2>2, Quotient
  <2>. HIDE DEF d
  <2>. QED BY <1>0, <1>3, <1>4, <2>1, <2>3 DEF d
<1>6. CASE q >= 0
  <2>1. v \div 2 = d /\ d >= 0
    BY <1>0, <1>2, <1>6
  <2>2. v = 0 * Half + v /\ v \in 0..Half - 1 /\ v \in Int
    BY <1>0, <1>2, <1>6
  <2>3. v \div Half = 0
    BY <1>0, <2>2, Quotient
  <2>. QED BY <1>0, <1>3, <1>4, <2>1, <2>3
<1>. QED BY <1>5, <1>6

(* The loop of asr divides the signed number.                              *)
LEMMA RightDividesSigned ==
  ASSUME NEW value \in Values, NEW amount \in Nat, NEW c \in BOOLEAN
  PROVE  ArithmeticRight(value, amount, c)
           = [val   |-> (Signed(value) \div Pow2[amount]) % Size,
              carry |-> IF amount = 0 THEN c
                                      ELSE (Signed(value) \div Pow2[amount - 1]) % 2 = 1]
<1>. DEFINE N == Signed(value)
            State(i) ==
              [val   |-> (N \div Pow2[i]) % Size,
               carry |-> IF i = 0 THEN c ELSE (N \div Pow2[i - 1]) % 2 = 1]
            Turn(h, i) == IF i = 0 THEN [val |-> value, carry |-> c]
                          ELSE PopBack(h[i - 1], h[i - 1].val \div Half)
            In == -Half..Half - 1
<1>0. N \in In /\ N % Size = value
  <2>1. value \in Int /\ 0 <= value /\ value < Size /\ Half \in Nat \ {0} /\ Size = 2 * Half
    BY SizeType DEF Values
  <2>2. N = IF value >= Half THEN value - Size ELSE value
    BY DEF Signed
  <2>3. N \in In /\ N \in -Size..2 * Size - 1
    BY <2>1, <2>2
  <2>4. N % Size = IF N < 0 THEN N + Size ELSE IF N < Size THEN N ELSE N - Size
    BY <2>3, Wrapped
  <2>. QED BY <2>1, <2>2, <2>3, <2>4
<1>1. State(0) = [val |-> value, carry |-> c]
  <2>1. Pow2[0] = 1
    BY Powers
  <2>2. N \div 1 = N
    <3>1. N \in Int
      BY <1>0, SizeType
    <3>. HIDE DEF N
    <3>. QED BY <3>1
  <2>. QED BY <1>0, <2>1, <2>2
<1>. HIDE DEF N
<1>2. \A i \in Nat : N \div Pow2[i] \in In
  <2>. DEFINE T == {i \in Nat : N \div Pow2[i] \in In}
  <2>1. 0 \in T
    <3>1. N \in Int /\ Pow2[0] = 1
      BY <1>0, SizeType, Powers
    <3>. QED BY <1>0, <3>1
  <2>2. ASSUME NEW i \in Nat, i \in T
        PROVE  i + 1 \in T
    <3>1. (N \div Pow2[i]) \div 2 = N \div Pow2[i + 1]
      BY <1>0, SizeType, Halved
    <3>. DEFINE q == N \div Pow2[i]
    <3>2. q \in In
      BY <2>2
    <3>. HIDE DEF q
    <3>3. q \div 2 \in In
      BY <3>2, TurnSigned
    <3>. QED BY <3>1, <3>3 DEF q
  <2>. HIDE DEF T
  <2>3. Nat \subseteq T
    BY <2>1, <2>2, Induction
  <2>. QED BY <2>3 DEF T
<1>. DEFINE Signs(s) == PopBack(s, s.val \div Half)
<1>3. ASSUME NEW i \in Nat
      PROVE  State(i + 1) = Signs(State(i))
  <2>. DEFINE q == N \div Pow2[i]   v == q % Size
  <2>1. q \in In
    BY <1>2
  <2>2. q \div 2 = N \div Pow2[i + 1]
    BY <1>0, SizeType, Halved
  <2>3. i + 1 # 0 /\ (i + 1) - 1 = i
    OBVIOUS
  <2>4. State(i + 1) = [val |-> (q \div 2) % Size, carry |-> q % 2 = 1] /\ State(i).val = v
    BY <2>2, <2>3
  <2>. HIDE DEF q
  <2>5. v % 2 = q % 2 /\ v \div 2 + (v \div Half) * Half = (q \div 2) % Size
    BY <2>1, TurnSigned
  <2>. HIDE DEF v, State
  <2>. QED BY <2>4, <2>5 DEF PopBack
<1>. HIDE DEF State
<1>4. ASSUME NEW h, h = [i \in 0..amount |-> Turn(h, i)]
      PROVE  h[amount] = State(amount)
  <2>. DEFINE T == {i \in Nat : i <= amount => h[i] = State(i)}
  <2>1. 0 \in T
    BY <1>1, <1>4
  <2>2. ASSUME NEW i \in Nat, i \in T
        PROVE  i + 1 \in T
    <3>1. CASE i + 1 <= amount
      <4>1. h[i] = State(i) /\ i + 1 \in 0..amount /\ i + 1 # 0 /\ (i + 1) - 1 = i
        BY <2>2, <3>1
      <4>2. h[i + 1] = Signs(h[i])
        BY <1>4, <4>1
      <4>. QED BY <1>3, <4>1, <4>2
    <3>. QED BY <3>1
  <2>. HIDE DEF T
  <2>3. Nat \subseteq T
    BY <2>1, <2>2, Induction
  <2>. QED BY <2>3 DEF T
<1>5. \E h : h = [i \in 0..amount |-> Turn(h, i)]
  <2>. DEFINE f == [i \in 0..amount |-> State(i)]
  <2>1. ASSUME NEW i \in 0..amount
        PROVE  f[i] = Turn(f, i)
    <3>1. CASE i = 0
      BY <1>1, <3>1
    <3>2. CASE i # 0
      <4>1. i - 1 \in Nat /\ (i - 1) + 1 = i /\ i - 1 \in 0..amount
        BY <3>2
      <4>2. State(i) = Signs(State(i - 1))
        BY <1>3, <4>1
      <4>. QED BY <3>2, <4>1, <4>2
    <3>. QED BY <3>1, <3>2
  <2>2. f = [i \in 0..amount |-> Turn(f, i)]
    BY <2>1
  <2>. QED BY <2>2
<1>6. ArithmeticRight(value, amount, c) = State(amount)
  <2>. DEFINE after == CHOOSE h : h = [i \in 0..amount |-> Turn(h, i)]
  <2>1. after = [i \in 0..amount |-> Turn(after, i)]
    BY <1>5
  <2>2. after[amount] = State(amount)
    <3>. HIDE DEF after
    <3>. QED BY <1>4, <2>1
  <2>. QED BY <2>2 DEF ArithmeticRight
<1>. QED BY <1>6 DEF State, N

(* A multiple of a higher power changes none of a number's low bits.       *)
LEMMA BitOfSum ==
  ASSUME NEW x \in Int, NEW y \in Int, NEW n \in Nat, NEW i \in Nat, i < n
  PROVE  Bit(x * Pow2[n] + y, i) <=> Bit(y, i)
<1>. DEFINE k == (n - i) - 1   p == Pow2[k]   q == Pow2[i]   a == x * p
            d == y \div q      e == y % q     z == x * Pow2[n] + y
<1>1. k \in Nat /\ i <= n /\ n - i = k + 1
  OBVIOUS
<1>2. p \in Nat /\ q \in Nat \ {0} /\ Pow2[n] = (2 * p) * q
  <2>1. Pow2[n - i] = 2 * p /\ Pow2[n] = Pow2[n - i] * q
    <3>. HIDE DEF k
    <3>1. Pow2[n - i] = 2 * p
      BY <1>1, Powers
    <3>2. Pow2[n] = Pow2[n - i] * Pow2[i]
      BY <1>1, PowerDivides
    <3>. QED BY <3>1, <3>2
  <2>. QED BY <1>1, <2>1, Powers
<1>. HIDE DEF k, p, q
<1>3. d \in Int /\ e \in 0..q - 1 /\ y = d * q + e
  BY <1>2, Division
<1>4. a \in Int /\ x * ((2 * p) * q) = (2 * a) * q
  <2>1. ASSUME NEW u \in Nat, NEW w \in Nat
        PROVE  x * ((2 * u) * w) = (2 * (x * u)) * w /\ x * u \in Int
    BY SMTT(20)
  <2>. QED BY <1>2, <2>1
<1>5. z = (2 * a) * q + y
  BY <1>2, <1>4
<1>. HIDE DEF a, d, e, z
<1>6. (2 * a) * q + d * q = (2 * a + d) * q
  BY <1>2, <1>3, <1>4, SMTT(20)
<1>7. z = (2 * a + d) * q + e /\ z \in Int
  <2>1. (2 * a) * q \in Int /\ d * q \in Int
    BY <1>2, <1>3, <1>4
  <2>. QED BY <1>3, <1>5, <1>6, <2>1
<1>8. z \div q = 2 * a + d
  <2>. DEFINE f == 2 * a + d
  <2>1. f \in Int
    BY <1>3, <1>4
  <2>. HIDE DEF f
  <2>. QED BY <1>2, <1>3, <1>7, <2>1, Quotient DEF f
<1>9. (2 * a + d) % 2 = d % 2
  BY <1>3, <1>4
<1>. QED BY <1>8, <1>9 DEF Bit, d, q, z

(* Dividing by a power moves the bits down.                                *)
LEMMA BitOfQuotient ==
  ASSUME NEW x \in Int, NEW m \in Nat, NEW i \in Nat
  PROVE  Bit(x \div Pow2[m], i) <=> Bit(x, m + i)
<1>1. (x \div Pow2[m]) \div Pow2[i] = x \div Pow2[m + i]
  BY PowerQuotient
<1>. QED BY <1>1 DEF Bit

(* Turning the low m of B bits to the top.                                 *)
LEMMA Turned ==
  ASSUME NEW B \in Nat \ {0}, NEW v \in 0..Pow2[B] - 1, NEW m \in 0..B - 1,
         NEW r, r = (v % Pow2[m]) * Pow2[B - m] + v \div Pow2[m]
  PROVE  \A i \in 0..B - 1 : Bit(r, i) = Bit(v, (i + m) % B)
<1>. DEFINE k == B - m  p == Pow2[m]  s == Pow2[k]
            lo == v % p  hi == v \div p
<1>1. k \in Nat \ {0} /\ m + k = B /\ m \in Nat /\ B \in Nat
  OBVIOUS
<1>2. p \in Nat \ {0} /\ s \in Nat \ {0} /\ Pow2[B] = s * p /\ v \in Int
  <2>1. Pow2[B] = Pow2[B - m] * Pow2[m]
    BY PowerDivides
  <2>. QED BY <1>1, <2>1, Powers
<1>. HIDE DEF k, p, s
<1>3. lo \in 0..p - 1 /\ hi \in Int /\ v = hi * p + lo
  BY <1>2, Division
<1>4. hi \in 0..s - 1
  <2>. HIDE DEF hi, lo
  <2>1. hi * p \in Int /\ s * p \in Int
    BY <1>2, <1>3
  <2>2. CASE hi < 0
    <3>1. hi * p + p <= 0 * p
      BY <1>2, <1>3, <2>2, Multiples
    <3>. QED BY <1>2, <1>3, <2>1, <3>1
  <2>3. CASE hi >= s
    <3>1. s * p <= hi * p
      <4>1. CASE hi = s
        BY <2>1, <4>1
      <4>2. CASE s < hi
        <5>1. s * p + p <= hi * p
          BY <1>2, <1>3, <4>2, Multiples
        <5>. QED BY <1>2, <2>1, <5>1
      <4>. QED BY <1>2, <1>3, <2>3, <4>1, <4>2
    <3>. QED BY <1>2, <1>3, <2>1, <3>1
  <2>. QED BY <1>2, <1>3, <2>2, <2>3
<1>5. r = lo * s + hi
  BY DEF k, p, s
<1>6. lo \in Int /\ hi \in Int
  BY <1>2, <1>3, <1>4
<1>7. ASSUME NEW i \in 0..B - 1, i < k
      PROVE  Bit(r, i) <=> Bit(v, (i + m) % B)
  <2>1. Bit(r, i) <=> Bit(hi, i)
    <3>. HIDE DEF lo, hi
    <3>1. Bit(lo * Pow2[k] + hi, i) <=> Bit(hi, i)
      BY <1>1, <1>6, <1>7, BitOfSum
    <3>. QED BY <1>5, <3>1 DEF s
  <2>2. Bit(hi, i) <=> Bit(v, m + i)
    <3>1. Bit(v \div Pow2[m], i) <=> Bit(v, m + i)
      BY <1>1, <1>2, BitOfQuotient
    <3>. QED BY <3>1 DEF p
  <2>3. (i + m) % B = m + i
    <3>. DEFINE x == i + m
    <3>1. x \in Int /\ x = 0 * B + x /\ x \in 0..B - 1
      BY <1>1, <1>7
    <3>. HIDE DEF x
    <3>2. x % B = x
      BY <3>1, Remainder
    <3>. QED BY <1>1, <3>2 DEF x
  <2>. QED BY <2>1, <2>2, <2>3
<1>8. ASSUME NEW i \in 0..B - 1, i >= k
      PROVE  Bit(r, i) <=> Bit(v, (i + m) % B)
  <2>. DEFINE j == i - k
  <2>1. j \in Nat /\ k + j = i /\ j < m
    BY <1>1, <1>8
  <2>2. (i + m) % B = j
    <3>. DEFINE x == i + m
    <3>1. x \in Int /\ x = 1 * B + j /\ j \in 0..B - 1
      BY <1>1, <1>8
    <3>. HIDE DEF x, j
    <3>2. x % B = j
      BY <3>1, Remainder
    <3>. QED BY <3>2 DEF x
  <2>. HIDE DEF j, lo, hi
  <2>3. Bit(r, i) <=> Bit(lo, j)
    <3>1. lo * s \in Int
      BY <1>2, <1>6
    <3>2. r \div s = lo /\ r \in Int
      BY <1>2, <1>4, <1>5, <1>6, <3>1, Quotient
    <3>3. Bit(r \div Pow2[k], j) <=> Bit(r, k + j)
      BY <1>1, <2>1, <3>2, BitOfQuotient
    <3>. QED BY <2>1, <3>2, <3>3 DEF s
  <2>4. Bit(v, j) <=> Bit(lo, j)
    <3>1. Bit(hi * Pow2[m] + lo, j) <=> Bit(lo, j)
      BY <1>1, <1>6, <2>1, BitOfSum
    <3>. QED BY <1>3, <3>1 DEF p
  <2>. QED BY <2>2, <2>3, <2>4
<1>9. ASSUME NEW x, NEW y
      PROVE  Bit(x, y) \in BOOLEAN
  BY DEF Bit
<1>10. ASSUME NEW i \in 0..B - 1
       PROVE  Bit(r, i) = Bit(v, (i + m) % B)
  <2>1. Bit(r, i) <=> Bit(v, (i + m) % B)
    BY <1>1, <1>7, <1>8
  <2>. QED BY <1>9, <2>1
<1>. QED BY <1>10

(* The remainder of a sum.                                                 *)
LEMMA RemainderOfSum ==
  ASSUME NEW x \in Int, NEW y \in Int, NEW n \in Nat \ {0}
  PROVE  (x + y) % n = (x + (y % n)) % n
<1>. DEFINE q == y \div n  r == y % n  z == x + r  p == z \div n  t == z % n
<1>1. q \in Int /\ r \in Int /\ y = q * n + r
  BY Division
<1>. HIDE DEF q, r
<1>2. z \in Int
  BY <1>1
<1>3. p \in Int /\ t \in 0..n - 1 /\ z = p * n + t
  BY <1>2, Division
<1>. HIDE DEF p, t
<1>4. (p + q) * n = p * n + q * n /\ p * n \in Int /\ q * n \in Int /\ t \in Int
  BY <1>1, <1>3, SMTT(20)
<1>5. x + y = (p + q) * n + t /\ p + q \in Int /\ x + y \in Int
  BY <1>1, <1>3, <1>4
<1>6. (x + y) % n = t
  <2>. DEFINE u == x + y  k == p + q
  <2>1. u \in Int /\ k \in Int /\ u = k * n + t
    BY <1>5
  <2>. HIDE DEF u, k
  <2>. QED BY <1>3, <2>1, Remainder DEF u
<1>. QED BY <1>6 DEF t, r

(* ror turns the ring of the register's bits.                              *)
LEMMA RightRotates ==
  ASSUME NEW value \in Values, NEW amount \in Nat, NEW c \in BOOLEAN
  PROVE  /\ Rotated(RotateRight(value, amount, c).val, value, amount, Width)
         /\ RotateRight(value, amount, c).carry
              <=> IF amount = 0 THEN c ELSE Bit(RotateRight(value, amount, c).val, Width - 1)
<1>. DEFINE m == amount % Width   r == RotateRight(value, amount, c)
            k == Width - m   p == Pow2[m]   s == Pow2[k]
            lo == value % p  hi == value \div p
<1>1. Width \in Nat \ {0} /\ value \in Int /\ value \in 0..Pow2[Width] - 1
  BY WidthAssumption, SizeType DEF Values
<1>2. m \in 0..Width - 1 /\ amount \in Int
  <2>. DEFINE n == Width
  <2>1. n \in Nat \ {0} /\ amount \in Int
    BY <1>1
  <2>. HIDE DEF n
  <2>2. amount % n \in 0..n - 1
    BY <2>1, Division
  <2>. QED BY <2>1, <2>2 DEF n
<1>. HIDE DEF m
<1>3. k \in Nat \ {0} /\ m \in Nat /\ m + k = Width /\ Width - m = k
  BY <1>1, <1>2
<1>4. p \in Nat \ {0} /\ s \in Nat \ {0} /\ Size = s * p
  <2>1. Pow2[Width] = Pow2[Width - m] * Pow2[m]
    BY <1>1, <1>2, PowerDivides
  <2>. QED BY <1>3, <2>1, Powers, SizeType
<1>. HIDE DEF k, p, s
<1>5. lo \in 0..p - 1 /\ hi \in Int /\ value = hi * p + lo
  BY <1>1, <1>4, Division
<1>. HIDE DEF lo, hi
<1>6. (value * s) % Size = lo * s
  <2>1. value * s = hi * (s * p) + lo * s
    <3>1. ASSUME NEW x \in Int, NEW y \in Nat
          PROVE  (x * p + y) * s = x * (s * p) + y * s
      BY <1>4, SMTT(20)
    <3>. QED BY <1>5, <3>1
  <2>2. lo * s \in 0..s * p - 1
    <3>1. lo * s + s <= p * s
      BY <1>4, <1>5, Multiples
    <3>2. p * s = s * p /\ lo * s \in Nat /\ p * s \in Nat
      BY <1>4, <1>5, SMTT(20)
    <3>. QED BY <1>4, <3>1, <3>2
  <2>. DEFINE x == value * s  t == lo * s
  <2>3. x \in Int /\ x = hi * Size + t /\ t \in 0..Size - 1 /\ Size \in Nat \ {0}
    BY <1>1, <1>4, <2>1, <2>2, SizeType
  <2>. HIDE DEF x, t
  <2>4. x % Size = t
    BY <1>5, <2>3, Remainder
  <2>. QED BY <2>4 DEF x, t
<1>7. r.val = lo * s + hi
  <2>1. CASE m > 0
    BY <1>3, <1>6, <2>1 DEF RotateRight, m, hi, p, s
  <2>2. CASE m = 0
    <3>1. r.val = value
      BY <2>2 DEF RotateRight, m
    <3>2. p = 1
      BY <2>2, Powers DEF p
    <3>3. lo = 0 /\ hi = value
      BY <1>1, <1>5, <3>2
    <3>. QED BY <1>1, <1>4, <3>1, <3>3
  <2>. QED BY <1>3, <2>1, <2>2
<1>. DEFINE w == r.val
<1>8. \A i \in 0..Width - 1 : Bit(w, i) = Bit(value, (i + m) % Width)
  <2>1. w = (value % Pow2[m]) * Pow2[Width - m] + value \div Pow2[m]
    BY <1>7 DEF lo, hi, p, s, k
  <2>. HIDE DEF w
  <2>. QED BY <1>1, <1>2, <2>1, Turned
<1>. HIDE DEF w
<1>9. \A i \in Int : (i + amount) % Width = (i + m) % Width
  BY <1>1, <1>2, RemainderOfSum DEF m
<1>10. Rotated(w, value, amount, Width)
  BY <1>1, <1>8, <1>9 DEF Rotated
<1>11. ASSUME amount # 0
       PROVE  r.carry <=> Bit(w, Width - 1)
  <2>1. Bit(w, Width - 1) <=> Bit(value, ((Width - 1) + amount) % Width)
    BY <1>1, <1>8, <1>9
  <2>2. ((Width - 1) + amount) % Width = (amount - 1) % Width
    <3>. DEFINE x == amount - 1  y == x + Width
    <3>1. x \in Int /\ y \in Int /\ (Width - 1) + amount = y
      BY <1>1
    <3>. HIDE DEF x
    <3>2. Width % Width = 0
      <4>1. Width = 1 * Width + 0 /\ 0 \in 0..Width - 1 /\ Width \in Int
        BY <1>1
      <4>. QED BY <1>1, <4>1, Remainder
    <3>3. (x + Width) % Width = (x + (Width % Width)) % Width
      <4>. DEFINE n == Width
      <4>1. n \in Nat \ {0} /\ n \in Int
        BY <1>1
      <4>. HIDE DEF n
      <4>2. (x + n) % n = (x + (n % n)) % n
        BY <3>1, <4>1, RemainderOfSum
      <4>. QED BY <4>2 DEF n
    <3>. QED BY <3>1, <3>2, <3>3 DEF x
  <2>3. r.carry <=> Bit(value, (amount - 1) % Width)
    BY <1>11 DEF RotateRight
  <2>. QED BY <2>1, <2>2, <2>3
<1>12. ASSUME amount = 0
       PROVE  r.carry <=> c
  BY <1>12 DEF RotateRight
<1>. QED BY <1>10, <1>11, <1>12 DEF w

(* rrx turns the ring of the register's bits and the carry by one place.   *)
LEMMA ExtendedRotates ==
  ASSUME NEW value \in Values, NEW c \in BOOLEAN,
         NEW r, r = RotateRightExtended(value, c)
  PROVE  Rotated(r.val + (IF r.carry THEN Size ELSE 0),
                 value + (IF c THEN Size ELSE 0), 1, Width + 1)
<1>. DEFINE b == IF c THEN 1 ELSE 0   v == value + (IF c THEN Size ELSE 0)
            w == r.val + (IF r.carry THEN Size ELSE 0)   B == Width + 1
            bit == value % 2   half == value \div 2
<1>1. /\ Size \in Nat \ {0} /\ Half \in Nat \ {0} /\ Size = 2 * Half /\ Size = Pow2[Width]
      /\ Width \in Nat /\ Width > 1 /\ value \in 0..Size - 1
  BY SizeType, WidthAssumption DEF Values
<1>2. r.val = half + b * Half /\ (r.carry <=> bit = 1)
  BY DEF RotateRightExtended, PopBack
<1>3. bit \in 0..1 /\ half \in Nat /\ value = 2 * half + bit
  BY <1>1
<1>. HIDE DEF bit, half
<1>4. v % 2 = bit /\ v \div 2 = half + b * Half /\ v \in 0..2 * Size - 1
  <2>. DEFINE h == half + b * Half
  <2>1. h \in Nat /\ v = 2 * h + bit
    BY <1>1, <1>3
  <2>2. v \in 0..2 * Size - 1
    BY <1>1
  <2>. HIDE DEF h, v
  <2>. QED BY <1>3, <2>1, <2>2 DEF h
<1>5. w = bit * Size + (half + b * Half)
  BY <1>1, <1>2, <1>3
<1>6. Pow2[1] = 2 /\ B - 1 = Width /\ Pow2[B] = 2 * Size /\ B \in Nat \ {0} /\ 1 \in 0..B - 1
  <2>1. Pow2[0] = 1 /\ Pow2[0 + 1] = 2 * Pow2[0] /\ Pow2[Width + 1] = 2 * Pow2[Width]
    BY <1>1, Powers
  <2>. QED BY <1>1, <2>1
<1>. HIDE DEF v, w, B, b
<1>7. w = (v % Pow2[1]) * Pow2[B - 1] + v \div Pow2[1]
  BY <1>1, <1>4, <1>5, <1>6
<1>. DEFINE one == 1
<1>8. \A i \in 0..B - 1 : Bit(w, i) = Bit(v, (i + one) % B)
  <2>1. one \in 0..B - 1 /\ v \in 0..Pow2[B] - 1
        /\ w = (v % Pow2[one]) * Pow2[B - one] + v \div Pow2[one]
    BY <1>4, <1>6, <1>7
  <2>. HIDE DEF one
  <2>. QED BY <1>6, <2>1, Turned
<1>. QED BY <1>8 DEF Rotated, v, w, B

(* Every shift that is called returns what the architecture says.          *)
LEMMA ShiftIsSpecified ==
  ASSUME NEW s \in Shifts
  PROVE  /\ s.type = "lsl" => Shifted(s) = Multiplied(s)
         /\ s.type \in {"lsr", "asr"} => Shifted(s) = Divided(s)
         /\ s.type = "ror" => RotatedOk(s)
<1>1. /\ s.value \in Values /\ s.amount \in Nat /\ s.c \in BOOLEAN /\ s.type \in ShiftTypes
      /\ s.by \in {"register", "immediate"} /\ Width \in Nat \ {0}
  BY WidthAssumption DEF Shifts
<1>. DEFINE a == Amount(s)
<1>2. a \in Nat
  BY <1>1 DEF Amount
<1>3. s.type # "ror" => Shifted(s) = Shifter(s.type, s.value, a, s.c)
  BY <1>1 DEF Shifted, ShiftByRegister, ShiftByImmediate, ImmediateAmount, Amount, ShiftTypes
<1>. HIDE DEF a
<1>4. ASSUME s.type = "lsl"
      PROVE  Shifted(s) = Multiplied(s)
  <2>. DEFINE l == LogicalLeft(s.value, a, s.c)  m == Multiplied(s)
  <2>1. Shifted(s) = l
    BY <1>3, <1>4 DEF Shifter
  <2>2. l.val = m.val /\ (l.carry <=> m.carry)
    BY <1>1, <1>2, LeftMultiplies DEF Multiplied, a
  <2>3. l = [val |-> l.val, carry |-> l.carry]
    BY DEF LogicalLeft
  <2>4. m = [val |-> m.val, carry |-> m.carry] /\ m.carry \in BOOLEAN
    BY <1>1 DEF Multiplied
  <2>5. l.carry \in BOOLEAN
    <3>1. \A i : Bit(s.value, i) \in BOOLEAN
      BY DEF Bit
    <3>2. a = 0 \/ a \in 1..Width \/ a > Width
      BY <1>1, <1>2
    <3>. HIDE DEF l
    <3>3. CASE a \in 1..Width
      BY <1>1, <3>1, <3>3 DEF LogicalLeft, l
    <3>4. CASE a > Width
      BY <1>1, <1>2, <3>4 DEF LogicalLeft, l
    <3>5. CASE a = 0
      <4>1. a \notin 1..Width /\ ~(a > Width)
        BY <1>1, <3>5
      <4>2. l.carry = s.c
        BY <4>1, Zenon DEF LogicalLeft, l
      <4>. QED BY <1>1, <4>2
    <3>. QED BY <3>2, <3>3, <3>4, <3>5
  <2>. HIDE DEF l, m
  <2>. QED BY <2>1, <2>2, <2>3, <2>4, <2>5 DEF m
<1>5. ASSUME s.type = "lsr"
      PROVE  Shifted(s) = Divided(s)
  <2>1. Shifted(s) = LogicalRight(s.value, a, s.c)
    BY <1>3, <1>5 DEF Shifter
  <2>2. LogicalRight(s.value, a, s.c)
          = [val   |-> s.value \div Pow2[a],
             carry |-> IF a = 0 THEN s.c ELSE (s.value \div Pow2[a - 1]) % 2 = 1]
    BY <1>1, <1>2, RightDivides
  <2>3. (s.value \div Pow2[a]) % Size = s.value \div Pow2[a]
    <3>. DEFINE x == s.value  p == Pow2[a]  q == x \div p  r == x % p
    <3>1. x \in Int /\ 0 <= x /\ x < Size /\ p \in Nat \ {0} /\ Size \in Nat \ {0}
      BY <1>1, <1>2, Powers, SizeType DEF Values
    <3>. HIDE DEF x, p
    <3>2. q \in Int /\ r \in 0..p - 1 /\ x = q * p + r
      BY <3>1, Division
    <3>. HIDE DEF q, r
    <3>3. q * p \in Int
      BY <3>1, <3>2
    <3>4. q >= 0
      <4>1. CASE q < 0
        <5>1. q * p + p <= 0 * p
          BY <3>1, <3>2, <4>1, Multiples
        <5>. QED BY <3>1, <3>2, <3>3, <5>1
      <4>. QED BY <3>2, <4>1
    <3>5. q <= x
      <4>1. q <= q * p
        BY <3>1, <3>2, <3>4, SMTT(20)
      <4>. QED BY <3>1, <3>2, <3>3, <4>1
    <3>6. q \in Int /\ q = 0 * Size + q /\ q \in 0..Size - 1
      BY <3>1, <3>2, <3>4, <3>5
    <3>7. q % Size = q
      BY <3>1, <3>6, Remainder
    <3>. QED BY <3>7 DEF x, p, q
  <2>. QED BY <1>5, <2>1, <2>2, <2>3 DEF Divided, a
<1>6. ASSUME s.type = "asr"
      PROVE  Shifted(s) = Divided(s)
  <2>1. Shifted(s) = ArithmeticRight(s.value, a, s.c)
    BY <1>3, <1>6 DEF Shifter
  <2>2. ArithmeticRight(s.value, a, s.c)
          = [val   |-> (Signed(s.value) \div Pow2[a]) % Size,
             carry |-> IF a = 0 THEN s.c ELSE (Signed(s.value) \div Pow2[a - 1]) % 2 = 1]
    BY <1>1, <1>2, RightDividesSigned
  <2>. QED BY <1>6, <2>1, <2>2 DEF Divided, a
<1>7. ASSUME s.type = "ror"
      PROVE  RotatedOk(s)
  <2>1. CASE s.by = "immediate" /\ s.amount = 0
    <3>1. Shifted(s) = RotateRightExtended(s.value, s.c)
      BY <1>7, <2>1 DEF Shifted, ShiftByImmediate
    <3>. QED BY <1>1, <2>1, <3>1, ExtendedRotates DEF RotatedOk
  <2>2. CASE ~(s.by = "immediate" /\ s.amount = 0)
    <3>. DEFINE r == RotateRight(s.value, s.amount, s.c)
    <3>1. Shifted(s) = r
      BY <1>1, <1>7, <2>2
         DEF Shifted, ShiftByRegister, ShiftByImmediate, ImmediateAmount, Shifter
    <3>2. /\ Rotated(r.val, s.value, s.amount, Width)
          /\ r.carry <=> IF s.amount = 0 THEN s.c ELSE Bit(r.val, Width - 1)
      BY <1>1, RightRotates
    <3>3. /\ r.carry \in BOOLEAN
          /\ (IF s.amount = 0 THEN s.c ELSE Bit(r.val, Width - 1)) \in BOOLEAN
      BY <1>1 DEF RotateRight, Bit
    <3>. HIDE DEF r
    <3>. QED BY <2>2, <3>1, <3>2, <3>3 DEF RotatedOk
  <2>. QED BY <2>1, <2>2
<1>. QED BY <1>4, <1>5, <1>6, <1>7

(* What is called is one of the calls.                                     *)
CalledInv == call \subseteq Calls

(* Every shift, of every register value by every amount, is what the       *)
(* architecture says: the loops of shift.hpp divide the unsigned or the    *)
(* signed number, lsl multiplies, ror turns the register's ring of bits    *)
(* and rrx that of the register and the carry.                             *)
THEOREM ShiftsCorrect == MCSpec => []ShiftsAsSpecified
<1>1. MCInit => CalledInv
  BY DEF MCInit, CalledInv
<1>2. CalledInv /\ [MCNext]_<<aluVars, call, returned>> => CalledInv'
  BY DEF CalledInv, MCNext, Instruction, Return, Calls, Shifts, Draws
<1>3. CalledInv => ShiftsAsSpecified
  <2>. SUFFICES ASSUME CalledInv, NEW s \in Returned("shift")
                PROVE  /\ s.type = "lsl" => Shifted(s) = Multiplied(s)
                       /\ s.type \in {"lsr", "asr"} => Shifted(s) = Divided(s)
                       /\ s.type = "ror" => RotatedOk(s)
    BY DEF ShiftsAsSpecified
  <2>1. s \in Shifts
    BY DEF CalledInv, Returned, Calls
  <2>. QED BY <2>1, ShiftIsSpecified
<1>. QED BY <1>1, <1>2, <1>3, PTL DEF MCSpec

-------------------------------------------------------------------------------
(* A number below the divisor is its own remainder.                        *)
LEMMA OwnRemainder ==
  ASSUME NEW n \in Nat \ {0}, NEW x \in 0..n - 1
  PROVE  x % n = x
<1>1. x \in Int /\ x = 0 * n + x
  OBVIOUS
<1>. QED BY <1>1, Remainder

(* The size of a picture that the word of a guest can count the bytes of.  *)
LEMMA PictureSize ==
  ASSUME NEW r, r.width \in Nat, r.height \in Nat \ {0}, r.depth = HighColor,
         (2 * r.width) * r.height < WordSize
  PROVE  Pitch(r) = 2 * r.width /\ SizeOf(r) = (2 * r.width) * r.height
<1>. DEFINE w == r.width  h == r.height  p == 2 * w  q == p * h
<1>1. WordSize \in Nat \ {0}
  BY FrameBufferAssumption
<1>2. BytesPerPixel(r) = 2
  BY DEF BytesPerPixel, HighColor
<1>3. w * BytesPerPixel(r) = p /\ p \in Nat
  BY <1>2
<1>4. q \in Nat /\ p <= q /\ q < WordSize
  <2>1. p * h \in Nat /\ p <= p * h
    <3>. HIDE DEF p
    <3>. QED BY <1>3, SMTT(20)
  <2>. QED BY <2>1
<1>. HIDE DEF w, h, p, q
<1>5. p \in 0..WordSize - 1 /\ q \in 0..WordSize - 1
  BY <1>1, <1>3, <1>4
<1>6. p % WordSize = p /\ q % WordSize = q
  BY <1>1, <1>5, OwnRemainder
<1>7. Pitch(r) = p
  BY <1>3, <1>6 DEF Pitch, w
<1>8. SizeOf(r) = q
  BY <1>6, <1>7 DEF SizeOf, q, h
<1>. QED BY <1>7, <1>8 DEF p, q, w, h

(* The lines of an image that there is are long enough.                    *)
LEMMA ImageSize ==
  ASSUME NEW r, r.width \in 0..WordSize - 1, r.height \in 0..WordSize - 1, HasImage(r)
  PROVE  /\ r.width > 0 /\ r.height > 0
         /\ BytesPerLine(r) \in Nat /\ 2 * r.width <= BytesPerLine(r)
         /\ r.width % 2 = 0 => BytesPerLine(r) = 2 * r.width
         /\ (2 * r.width) * r.height <= BytesPerLine(r) * r.height
         /\ (2 * r.width) * r.height < WordSize
<1>. DEFINE w == r.width  h == r.height  l == BytesPerLine(r)
<1>1. WordSize \in Nat \ {0} /\ w \in 0..WordSize - 1 /\ h \in 0..WordSize - 1
  BY FrameBufferAssumption
<1>2. w > 0 /\ h > 0 /\ l * h < WordSize \div 2
  BY <1>1 DEF HasImage, AsInt32
<1>3. l \in Nat /\ 2 * w <= l /\ (w % 2 = 0 => l = 2 * w)
  BY <1>1 DEF BytesPerLine
<1>. HIDE DEF w, h, l
<1>4. ASSUME NEW x \in Nat, NEW y \in Nat, x <= y
      PROVE  x * h <= y * h /\ x * h \in Nat /\ y * h \in Nat
  <2>1. ASSUME NEW i \in Nat, NEW j \in Nat
        PROVE  i * j \in Nat
    BY SMTT(20)
  <2>2. h \in Nat /\ y - x \in Nat
    BY <1>1, <1>4
  <2>3. x * h \in Nat /\ y * h \in Nat /\ (y - x) * h \in Nat
    BY <2>1, <2>2
  <2>4. (y - x) * h = y * h - x * h
    BY <2>2, SMTT(20)
  <2>. QED BY <2>3, <2>4
<1>5. /\ (2 * w) * h <= l * h
      /\ (2 * w) * h \in Nat /\ l * h \in Nat
  <2>1. 2 * w \in Nat
    BY <1>1
  <2>. QED BY <1>3, <1>4, <2>1
<1>6. (2 * w) * h < WordSize
  <2>1. WordSize \div 2 <= WordSize /\ WordSize \div 2 \in Nat
    BY <1>1
  <2>. QED BY <1>1, <1>2, <1>5, <2>1
<1>. QED BY <1>2, <1>3, <1>5, <1>6 DEF w, h, l

(* What is copied fits the image if there is one, and only nothing at all  *)
(* fits a null one.                                                        *)
LEMMA CopyFitsImages ==
  ASSUME NEW r \in Draws, r.depth = HighColor
  PROVE  CopyFits(r) <=> HasImage(r) \/ SizeOf(r) = 0
<1>1. r.width \in 0..WordSize - 1 /\ r.height \in 0..WordSize - 1 /\ WordSize \in Nat \ {0}
  BY FrameBufferAssumption DEF Draws
<1>2. DOMAIN Copied(r) = 0..SizeOf(r) - 1
  BY DEF Copied, Pixels
<1>3. CASE HasImage(r)
  <2>1. /\ r.height > 0 /\ (2 * r.width) * r.height <= BytesPerLine(r) * r.height
        /\ (2 * r.width) * r.height < WordSize /\ BytesPerLine(r) \in Nat
    BY <1>1, <1>3, ImageSize
  <2>2. SizeOf(r) = (2 * r.width) * r.height
    BY <1>1, <2>1, PictureSize
  <2>3. ImageBytes(r) = BytesPerLine(r) * r.height
    BY <1>3 DEF ImageBytes
  <2>4. (2 * r.width) * r.height \in Int /\ BytesPerLine(r) * r.height \in Int
    BY <1>1, <2>1
  <2>. QED BY <1>2, <1>3, <2>1, <2>2, <2>3, <2>4 DEF CopyFits
<1>4. CASE ~HasImage(r)
  <2>1. ImageBytes(r) = 0
    BY <1>4 DEF ImageBytes
  <2>2. SizeOf(r) \in Nat
    <3>. DEFINE p == Pitch(r)  q == p * r.height
    <3>1. p \in Int
      BY <1>1 DEF Pitch, BytesPerPixel, HighColor
    <3>. HIDE DEF p
    <3>2. q \in Int
      BY <1>1, <3>1
    <3>3. SizeOf(r) = q % WordSize
      BY DEF SizeOf, p
    <3>. HIDE DEF q
    <3>. QED BY <1>1, <3>2, <3>3
  <2>3. CASE SizeOf(r) = 0
    BY <1>2, <1>4, <2>1, <2>3 DEF CopyFits
  <2>4. CASE SizeOf(r) # 0
    <3>1. 0 \in DOMAIN Copied(r) /\ 0 \notin 0..ImageBytes(r) - 1
      BY <1>2, <2>1, <2>2, <2>4
    <3>. QED BY <1>4, <2>4, <3>1 DEF CopyFits
  <2>. QED BY <2>3, <2>4
<1>. QED BY <1>3, <1>4

(* The bytes that the default Canvas looks up are there.                   *)
LEMMA LookUpsFound ==
  ASSUME NEW r \in Draws, r.depth = HighColor, 2 * r.width * r.height < WordSize
  PROVE  LookedUp(r) \subseteq DOMAIN Copied(r)
<1>1. r.width \in 0..WordSize - 1 /\ r.height \in 0..WordSize - 1 /\ WordSize \in Nat \ {0}
  BY FrameBufferAssumption DEF Draws
<1>2. DOMAIN Copied(r) = 0..SizeOf(r) - 1
  BY DEF Copied, Pixels
<1>. SUFFICES ASSUME NEW i \in LookedUp(r)
              PROVE  i \in 0..SizeOf(r) - 1
  BY <1>2
<1>3. i \in 0..2 * r.width * r.height - 1 /\ AsInt32(r.height) > 0
  BY DEF LookedUp
<1>4. r.height > 0
  BY <1>1, <1>3 DEF AsInt32
<1>5. SizeOf(r) = (2 * r.width) * r.height
  BY <1>1, <1>4, PictureSize
<1>. QED BY <1>3, <1>5

(* A pixel shows what is in memory where the guest puts it.                *)
LEMMA PixelIsMemory ==
  ASSUME NEW r \in Draws, r.depth = HighColor, HasImage(r), Modest(r), r.width % 2 = 0,
         NEW x \in 0..r.width - 1, NEW y \in 0..r.height - 1
  PROVE  Shown(r, x, y) = (Pointer(r) + y * Pitch(r) + 2 * x) % WordSize
<1>. DEFINE w == r.width  h == r.height  p == 2 * w  q == p * h
            at == y * p + 2 * x   top == PointerEnd - q
<1>1. /\ w \in 0..WordSize - 1 /\ h \in 0..WordSize - 1 /\ WordSize \in Nat \ {0}
      /\ PointerEnd \in 0..WordSize - 1
  BY FrameBufferAssumption DEF Draws
<1>2. w > 0 /\ h > 0 /\ q < WordSize /\ BytesPerLine(r) = p
  BY <1>1, ImageSize
<1>3. Pitch(r) = p /\ SizeOf(r) = q
  BY <1>1, <1>2, PictureSize
<1>4. q <= PointerEnd
  BY DEF Modest
<1>5. p \in Nat /\ x \in 0..w - 1 /\ y \in 0..h - 1
  BY <1>1
<1>6. 2 * x + 2 <= p /\ 2 * x \in Nat
  BY <1>1, <1>5
<1>. HIDE DEF w, h
<1>. HIDE DEF p
<1>7. y * p + p <= h * p /\ y * p \in Nat /\ h * p \in Nat /\ h * p = p * h
  <2>1. ASSUME NEW i \in Nat, NEW j \in Nat
        PROVE  i * j \in Nat /\ i * j = j * i
    BY SMTT(20)
  <2>2. h \in Nat /\ y \in Nat /\ y < h
    BY <1>1, <1>5
  <2>3. y * p \in Nat /\ h * p \in Nat /\ h * p = p * h
    BY <1>5, <2>1, <2>2
  <2>4. y * p + p <= h * p
    <3>1. CASE p = 0
      BY <1>6, <3>1
    <3>2. CASE p # 0
      BY <1>5, <2>2, <3>2, Multiples
    <3>. QED BY <3>1, <3>2
  <2>. QED BY <2>3, <2>4
<1>8. at \in 0..q - 1 /\ q \in Nat
  BY <1>5, <1>6, <1>7
<1>9. Pointer(r) = top /\ top \in Nat
  <2>1. top \in 0..WordSize - 1
    BY <1>1, <1>4, <1>8
  <2>2. top % WordSize = top
    <3>. HIDE DEF top
    <3>. QED BY <1>1, <2>1, OwnRemainder
  <2>. QED BY <1>3, <2>1, <2>2 DEF Pointer
<1>10. Shown(r, x, y) = top + at
  <2>1. Copied(r) = [k \in 0..q - 1 |-> top + k]
    BY <1>3, <1>9 DEF Copied, Pixels
  <2>2. Shown(r, x, y) = Copied(r)[at]
    BY <1>2 DEF Shown
  <2>. HIDE DEF at, q, top
  <2>. QED BY <1>8, <2>1, <2>2
<1>11. (top + at) % WordSize = top + at
  <2>. DEFINE a == top + at
  <2>1. a \in 0..WordSize - 1
    BY <1>1, <1>4, <1>8, <1>9
  <2>. HIDE DEF a
  <2>2. a % WordSize = a
    BY <1>1, <2>1, OwnRemainder
  <2>. QED BY <2>2 DEF a
<1>12. Pointer(r) + y * Pitch(r) + 2 * x = top + at
  BY <1>3, <1>6, <1>7, <1>9
<1>. QED BY <1>10, <1>11, <1>12

(* For every word size, place of the frame buffer and requested picture:   *)
(* the copy of drawPicture, which is unconditional, is inside the image if *)
(* and only if Qt made one or there is nothing to copy; drawPicture16      *)
(* stays within its pixels where their number is not truncated; and a      *)
(* modest picture of an even width is shown as it is in memory.            *)
THEOREM PictureCorrect == MCSpec => []PictureIsMemory
<1>1. MCInit => CalledInv
  BY DEF MCInit, CalledInv
<1>2. CalledInv /\ [MCNext]_<<aluVars, call, returned>> => CalledInv'
  BY DEF CalledInv, MCNext, Instruction, Return, Calls, Shifts, Draws
<1>3. CalledInv => PictureIsMemory
  <2>. SUFFICES ASSUME CalledInv, NEW r \in Returned("draw"), r.depth = HighColor
                PROVE  /\ CopyFits(r) <=> HasImage(r) \/ SizeOf(r) = 0
                       /\ 2 * r.width * r.height < WordSize
                            => LookedUp(r) \subseteq DOMAIN Copied(r)
                       /\ Modest(r) /\ r.width % 2 = 0 /\ HasImage(r) =>
                            \A x \in 0..r.width - 1, y \in 0..r.height - 1 :
                              Shown(r, x, y) = (Pointer(r) + y * Pitch(r) + 2 * x) % WordSize
    BY DEF PictureIsMemory
  <2>1. r \in Draws
    BY DEF CalledInv, Returned, Calls
  <2>2. CopyFits(r) <=> HasImage(r) \/ SizeOf(r) = 0
    BY <2>1, CopyFitsImages
  <2>3. 2 * r.width * r.height < WordSize => LookedUp(r) \subseteq DOMAIN Copied(r)
    BY <2>1, LookUpsFound
  <2>4. ASSUME Modest(r), r.width % 2 = 0, HasImage(r),
               NEW x \in 0..r.width - 1, NEW y \in 0..r.height - 1
        PROVE  Shown(r, x, y) = (Pointer(r) + y * Pitch(r) + 2 * x) % WordSize
    BY <2>1, <2>4, PixelIsMemory
  <2>. QED BY <2>2, <2>3, <2>4
<1>. QED BY <1>1, <1>2, <1>3, PTL DEF MCSpec
===============================================================================
