-------------------------- MODULE PagedMemoryProofs --------------------------
(***************************************************************************)
(* For every page size, memory size, word size and width of an address:    *)
(* the pages keep their shape, and PagedMemory implements FlatMemory.      *)
(***************************************************************************)
EXTENDS PagedMemory, FiniteSetTheorems, TLAPS

\* Quotient and remainder are the only way to write x as q * n + r.
LEMMA Division ==
  ASSUME NEW x \in Nat, NEW n \in Nat \ {0}
  PROVE  /\ x \div n \in Nat /\ x % n \in 0..n - 1
         /\ x = (x \div n) * n + (x % n)
  BY SMTT(20)

(* Products of a page size keep the order of their factors.                *)
LEMMA Order ==
  ASSUME NEW q \in Int, NEW r \in Int, NEW n \in Nat \ {0}
  PROVE  q * n < r * n <=> q < r
<1>1. q < r => q * n < r * n
  BY SMTT(20)
<1>2. r <= q => r * n <= q * n
  BY SMTT(20)
<1>3. q * n \in Int /\ r * n \in Int
  BY SMT
<1> QED BY <1>1, <1>2, <1>3

(* A number has one quotient and one remainder.                            *)
LEMMA DivisionUnique ==
  ASSUME NEW q \in Nat, NEW n \in Nat \ {0}, NEW r \in 0..n - 1
  PROVE  (q * n + r) \div n = q /\ (q * n + r) % n = r
<1> DEFINE x == q * n + r
<1>1. q * n \in Nat /\ x \in Nat
  BY SMT
<1>2. /\ x \div n \in Nat /\ x % n \in 0..n - 1
      /\ x = (x \div n) * n + (x % n)
  BY <1>1, Division
<1>3. q * n < (x \div n + 1) * n /\ (x \div n) * n < (q + 1) * n
  <2>1. (x \div n + 1) * n = (x \div n) * n + n /\ (q + 1) * n = q * n + n
    BY <1>2, SMT
  <2> QED BY <1>1, <1>2, <2>1, SMT
<1>4. q < x \div n + 1 /\ x \div n < q + 1
  BY <1>2, <1>3, Order
<1>5. x \div n = q
  BY <1>2, <1>4
<1> QED BY <1>1, <1>2, <1>5

(* A page, a word and the addresses have at least one byte.                *)
LEMMA Sizes == /\ PageSize \in Nat \ {0} /\ WordSize \in Nat \ {0}
               /\ Span \in Nat \ {0} /\ MemSize \in Nat
  BY MemoryAssumption

\* An address is its page's address plus its offset in the page.
LEMMA PageSplit ==
  ASSUME NEW x \in Nat
  PROVE  /\ PageAddress(x) \in Nat /\ PageOffset(x) \in Offsets
         /\ PageAddress(x) + PageOffset(x) = x
         /\ PageAddress(x) % PageSize = 0
<1>1. /\ x \div PageSize \in Nat /\ x % PageSize \in 0..PageSize - 1
      /\ x = (x \div PageSize) * PageSize + (x % PageSize)
  BY Sizes, Division
<1>2. PageAddress(x) \in Nat
  BY <1>1, Sizes, SMT DEF PageAddress
<1>3. PageAddress(x) + 0 = PageAddress(x) /\ 0 \in 0..PageSize - 1
  BY <1>2, Sizes
<1>4. PageAddress(x) % PageSize = 0
  BY <1>1, <1>3, Sizes, DivisionUnique DEF PageAddress
<1> QED BY <1>1, <1>2, <1>4 DEF PageAddress, PageOffset, Offsets

\* An offset further on the same page is at the same page address.
LEMMA SamePage ==
  ASSUME NEW x \in Nat, NEW j \in Nat, PageOffset(x) + j < PageSize
  PROVE  PageAddress(x + j) = PageAddress(x) /\ PageOffset(x + j) = PageOffset(x) + j
<1>1. /\ x \div PageSize \in Nat /\ x % PageSize \in 0..PageSize - 1
      /\ x = (x \div PageSize) * PageSize + (x % PageSize)
  BY Sizes, Division
<1> DEFINE q == x \div PageSize
           r == x % PageSize
<1>2. r + j \in 0..PageSize - 1
  BY <1>1, Sizes DEF PageOffset
<1>3. (q * PageSize + (r + j)) \div PageSize = q /\ (q * PageSize + (r + j)) % PageSize = r + j
  BY <1>1, <1>2, Sizes, DivisionUnique
<1>4. x + j = q * PageSize + (r + j)
  <2>1. q * PageSize \in Nat
    BY <1>1, Sizes, SMT
  <2> QED BY <1>1, <2>1
<1> QED BY <1>3, <1>4 DEF PageAddress, PageOffset

\* The last page ends with the last address.
LEMMA PageEndsInSpan ==
  ASSUME NEW x \in 0..Span - 1, NEW j \in Nat, PageOffset(x) + j < PageSize
  PROVE  x + j < Span
<1> DEFINE P == PageSize  q == x \div P  k == Span \div P  u == q * P  v == k * P
<1>0. P \in Nat \ {0} /\ Span \in Nat \ {0} /\ x \in Nat /\ Span % P = 0
  BY MemoryAssumption
<1>1. q \in Nat /\ x % P \in 0..P - 1 /\ x = u + (x % P)
  BY <1>0, Division
<1>2. k \in Nat /\ Span = v + 0
  BY <1>0, Division
<1>3. \A i \in Nat : i * P \in Nat
  BY <1>0, SMT
<1>4. (q + 1) * P = u + P
  BY <1>0, <1>1, SMT
<1>5. u \in Nat /\ v \in Nat
  BY <1>1, <1>2, <1>3
<1>6. u < v
  <2> HIDE DEF u, v
  <2> QED BY <1>0, <1>1, <1>2, <1>5
<1>7. q < k
  <2> HIDE DEF q, k
  <2> QED BY <1>0, <1>1, <1>2, <1>6, Order
<1>8. ~(v < (q + 1) * P)
  <2>1. ~(k < q + 1) /\ q + 1 \in Int
    BY <1>1, <1>2, <1>7
  <2> HIDE DEF q, k
  <2> QED BY <1>0, <1>2, <2>1, Order
<1>9. u + P <= v
  <2> HIDE DEF u, v
  <2> QED BY <1>0, <1>4, <1>5, <1>8
<1> HIDE DEF u, v
<1> QED BY <1>0, <1>1, <1>2, <1>5, <1>9 DEF PageOffset

\* A page starts in the memory just if it lies before Extent, which is the
\* first page boundary at or past the memory's end.
LEMMA PageBeforeExtent ==
  ASSUME NEW x \in Nat
  PROVE  InMemory(PageAddress(x)) <=> x < Extent
<1> DEFINE k == x \div PageSize
           y == MemSize + PageSize - 1
           m == y \div PageSize
<1>1. k \in Nat /\ x % PageSize \in 0..PageSize - 1 /\ x = k * PageSize + (x % PageSize)
  BY Sizes, Division
<1>2. y \in Nat
  BY Sizes
<1>3. m \in Nat /\ y % PageSize \in 0..PageSize - 1 /\ y = m * PageSize + (y % PageSize)
  BY <1>2, Sizes, Division
<1>4. /\ k * PageSize \in Int /\ m * PageSize \in Int
      /\ (m - 1) * PageSize = m * PageSize - PageSize
      /\ (k + 1) * PageSize = k * PageSize + PageSize
  BY <1>1, <1>3, Sizes, SMT
<1>5. (m - 1) * PageSize < MemSize /\ MemSize <= m * PageSize
  BY <1>3, <1>4, Sizes
<1>6. ASSUME k * PageSize < MemSize PROVE x < m * PageSize
  <2>1. k * PageSize < m * PageSize
    BY <1>4, <1>5, <1>6, Sizes
  <2>2. k < m
    BY <2>1, <1>1, <1>3, Sizes, Order
  <2>3. ~(m * PageSize < (k + 1) * PageSize)
    BY <2>2, <1>1, <1>3, Sizes, Order
  <2> QED BY <2>3, <1>1, <1>4, Sizes
<1>7. ASSUME x < m * PageSize PROVE k * PageSize < MemSize
  <2>1. k * PageSize < m * PageSize
    BY <1>1, <1>4, <1>7, Sizes
  <2>2. k < m
    BY <2>1, <1>1, <1>3, Sizes, Order
  <2>3. ~((m - 1) * PageSize < k * PageSize)
    BY <2>2, <1>1, <1>3, Sizes, Order
  <2> QED BY <2>3, <1>4, <1>5, Sizes
<1> QED BY <1>6, <1>7 DEF InMemory, PageAddress, Extent
-------------------------------------------------------------------------------
(* The memory does not reach behind its last page, nor its last page       *)
(* behind the last address.                                                *)
LEMMA ExtentBounds == Extent \in Nat /\ MemSize <= Extent /\ Extent <= Span
<1>0. Extent <= Span
  <2> DEFINE y == MemSize + PageSize - 1
             m == y \div PageSize
             k == Span \div PageSize
             u == m * PageSize
             v == k * PageSize
  <2>1. y \in Nat /\ PageSize \in Nat \ {0} /\ Span \in Nat /\ y - PageSize < Span
    BY MemoryAssumption
  <2>2. m \in Nat /\ y % PageSize \in Nat /\ y = u + (y % PageSize)
    <3>1. m \in Nat /\ y % PageSize \in 0..PageSize - 1 /\ y = u + (y % PageSize)
      <4> HIDE DEF y
      <4> QED BY <2>1, Division
    <3> QED BY <3>1
  <2>3. k \in Nat /\ Span = v + 0
    BY <2>1, MemoryAssumption, Division
  <2>4. (k + 1) * PageSize = v + PageSize /\ u \in Nat /\ v \in Nat
    <3>1. \A i \in Nat : i * PageSize \in Nat
      BY <2>1, SMT
    <3>2. (k + 1) * PageSize = v + PageSize
      BY <2>1, <2>3, SMT
    <3> QED
      BY <2>2, <2>3, <3>1, <3>2
  <2>5. u < (k + 1) * PageSize
    <3> HIDE DEF u, v, y
    <3> QED
      BY <2>1, <2>2, <2>3, <2>4
  <2>6. m < k + 1
    <3> HIDE DEF m, k
    <3> QED
      BY <2>1, <2>2, <2>3, <2>5, Order DEF u
  <2>7. ~(v < u)
    <3>1. ~(k < m)
      BY <2>2, <2>3, <2>6
    <3> HIDE DEF m, k
    <3> QED
      BY <2>1, <2>2, <2>3, <3>1, Order DEF u, v
  <2>8. Extent = u
    BY DEF Extent, PageAddress
  <2> HIDE DEF u, v
  <2> QED
    BY <2>3, <2>4, <2>7, <2>8
<1>1. MemSize + PageSize - 1 \in Nat
  BY MemoryAssumption
<1>2. Extent \in Nat
  BY <1>1, PageSplit DEF Extent
<1>3. CASE MemSize = 0
  BY <1>0, <1>2, <1>3
<1>4. CASE MemSize # 0
  <2>1. MemSize - 1 \in Nat
    BY <1>4, MemoryAssumption
  <2>2. PageAddress(MemSize - 1) <= MemSize - 1
    BY <2>1, PageSplit, MemoryAssumption DEF Offsets
  <2>3. InMemory(PageAddress(MemSize - 1))
    BY <2>1, <2>2, PageSplit, MemoryAssumption DEF InMemory
  <2>4. MemSize - 1 < Extent
    BY <2>1, <2>3, PageBeforeExtent
  <2>5. MemSize <= Extent
    BY <1>2, <2>4, Sizes
  <2> QED BY <1>0, <1>2, <2>5
<1> QED BY <1>3, <1>4

\* The addresses are a circle: Sum and Distance go round it and stay on it.
LEMMA Circle ==
  ASSUME NEW a \in 0..Span - 1
  PROVE  /\ \A i \in 0..Span - 1 : /\ Sum(a, i) \in 0..Span - 1
                                   /\ Distance(a, Sum(a, i)) = i
                                   /\ Sum(a, i) = Flat!After(a, i)
         /\ \A x \in 0..Span - 1 : /\ Distance(a, x) \in 0..Span - 1
                                   /\ Sum(a, Distance(a, x)) = x
                                   /\ Distance(a, x) = Flat!From(a, x)
  BY MemoryAssumption DEF Sum, Distance, Flat!After, Flat!From

(* Of n bytes, as many fit as FlatMemory says.                             *)
LEMMA FitBounds ==
  ASSUME NEW a \in 0..Span - 1, NEW n \in 0..Span
  PROVE  /\ Flat!Fit(a, n) \in 0..n
         /\ Extent # Span /\ Extent < a + n => Flat!Fit(a, n) = IF a < Extent THEN Extent - a ELSE 0
  BY ExtentBounds, MemoryAssumption DEF Flat!Fit

\* The walk of an access gets to its bytes before Extent, and through the last
\* address if the memory extends to it.
LEMMA WalkIsPrefix ==
  ASSUME NEW a \in 0..Span - 1, NEW n \in 0..Span
  PROVE  Walk(a, n) = 0..Flat!Fit(a, n) - 1
<1> DEFINE f == Flat!Fit(a, n)
<1>0. /\ Extent \in Nat /\ Extent <= Span /\ Span \in Nat /\ a \in Nat /\ a < Span
      /\ n \in Nat /\ n <= Span
  BY ExtentBounds, MemoryAssumption
<1>1. \A j \in 0..n - 1 : InMemory(PageAddress(Sum(a, j))) <=> Sum(a, j) < Extent
  <2>1. \A j \in 0..n - 1 : Sum(a, j) \in Nat
    BY <1>0 DEF Sum
  <2> QED
    BY <2>1, PageBeforeExtent
<1>2. Walk(a, n) = {i \in 0..n - 1 : \A j \in 0..i : Sum(a, j) < Extent}
  BY <1>0, <1>1 DEF Walk
<1>3. f \in 0..n
  BY FitBounds
<1>4. ASSUME NEW i \in 0..n - 1, i < f, NEW j \in 0..i PROVE Sum(a, j) < Extent
  BY <1>0, <1>4 DEF Flat!Fit, Sum
<1>5. ASSUME NEW i \in 0..n - 1, \A j \in 0..i : Sum(a, j) < Extent PROVE i < f
  <2>1. CASE Extent = Span \/ a + n <= Extent
    BY <1>0, <2>1 DEF Flat!Fit
  <2>2. CASE ~(Extent = Span \/ a + n <= Extent)
    <3>1. Sum(a, 0) < Extent
      BY <1>0, <1>5
    <3>2. a < Extent /\ f = Extent - a
      BY <1>0, <2>2, <3>1 DEF Sum, Flat!Fit
    <3>3. CASE Extent - a \in 0..i
      <4>1. Sum(a, Extent - a) < Extent
        BY <1>5, <3>3
      <4> QED
        BY <1>0, <2>2, <3>2, <4>1 DEF Sum
    <3>4. CASE Extent - a \notin 0..i
      BY <1>0, <3>2, <3>4
    <3> QED
      BY <3>3, <3>4
  <2> QED
    BY <2>1, <2>2
<1>6. \A i \in Int : i \in Walk(a, n) <=> i \in 0..f - 1
  <2> HIDE DEF f
  <2>1. ASSUME NEW i \in Walk(a, n) PROVE i \in 0..f - 1
    BY <1>0, <1>2, <1>3, <1>5
  <2>2. ASSUME NEW i \in 0..f - 1 PROVE i \in Walk(a, n)
    BY <1>0, <1>2, <1>3, <1>4
  <2> QED
    BY <2>1, <2>2
<1>7. Walk(a, n) \subseteq Int /\ 0..f - 1 \subseteq Int
  BY <1>0, <1>2, <1>3
<1> QED
  BY <1>6, <1>7

\* The addresses it gets to, by their distance from the first one.
LEMMA ReachIsPrefix ==
  ASSUME NEW a \in 0..Span - 1, NEW n \in 0..Span
  PROVE  /\ Reach(a, n) \subseteq 0..Span - 1
         /\ \A x \in 0..Span - 1 : x \in Reach(a, n) <=> Distance(a, x) < Flat!Fit(a, n)
<1> DEFINE f == Flat!Fit(a, n)
<1>1. Walk(a, n) = 0..f - 1 /\ f \in 0..n
  BY WalkIsPrefix, FitBounds
<1>2. Walk(a, n) \subseteq 0..Span - 1
  BY <1>1, MemoryAssumption
<1>3. Reach(a, n) \subseteq 0..Span - 1
  BY <1>2, Circle DEF Reach
<1>4. ASSUME NEW x \in Reach(a, n) PROVE Distance(a, x) < f
  <2>1. PICK i \in Walk(a, n) : x = Sum(a, i)
    BY DEF Reach
  <2>2. i \in 0..Span - 1 /\ i \in 0..f - 1
    BY <1>1, <1>2, <2>1
  <2>3. Distance(a, x) = i
    BY <2>1, <2>2, Circle
  <2> HIDE DEF f
  <2> QED
    BY <1>1, <2>2, <2>3
<1>5. ASSUME NEW x \in 0..Span - 1, Distance(a, x) < f PROVE x \in Reach(a, n)
  <2>1. Distance(a, x) \in 0..Span - 1 /\ Sum(a, Distance(a, x)) = x
    BY Circle
  <2>2. Distance(a, x) \in 0..f - 1
    <3> HIDE DEF f
    <3> QED
      BY <1>1, <1>5, <2>1
  <2> QED
    BY <1>1, <2>1, <2>2 DEF Reach
<1> QED
  BY <1>3, <1>4, <1>5

(* A byte that putChunk can store is on one of the memory's pages.         *)
LEMMA ReachInPages ==
  ASSUME NEW a \in 0..Span - 1, NEW n \in 0..Span, NEW x \in Reach(a, n)
  PROVE  x \in Nat /\ PageAddress(x) \in PageAddresses
<1>1. x \in Nat
  BY ReachIsPrefix
<1>2. PICK i \in Walk(a, n) : x = Sum(a, i)
  BY DEF Reach
<1>3. i \in 0..i
  <2>1. i \in Nat
    BY <1>2 DEF Walk
  <2> QED
    BY <2>1
<1>4. InMemory(PageAddress(x))
  BY <1>2, <1>3 DEF Walk
<1> QED BY <1>1, <1>4, PageSplit, MemoryAssumption DEF InMemory, PageAddresses

\* Of a sequence of n values, one is put at every address that is reached.
LEMMA ReachIndex ==
  ASSUME NEW a \in 0..Span - 1, NEW n \in 0..Span, NEW x \in Reach(a, n)
  PROVE  Distance(a, x) + 1 \in 1..n
<1>1. x \in 0..Span - 1
  BY ReachIsPrefix
<1>2. Distance(a, x) < Flat!Fit(a, n) /\ Flat!Fit(a, n) \in 0..n
  BY <1>1, ReachIsPrefix, FitBounds
<1>3. Distance(a, x) \in 0..Span - 1
  BY <1>1, Circle
<1> QED
  BY <1>2, <1>3

(* A byte inside the memory is on one of its pages.                        *)
LEMMA InMemoryInPages ==
  ASSUME NEW a \in Nat, InMemory(a)
  PROVE  PageAddress(a) \in PageAddresses /\ a < Extent
<1>1. PageAddress(a) \in Nat /\ PageAddress(a) <= a /\ PageAddress(a) % PageSize = 0
  BY PageSplit, MemoryAssumption DEF Offsets
<1>2. InMemory(PageAddress(a))
  BY <1>1, MemoryAssumption DEF InMemory
<1>3. a < Extent
  BY <1>2, PageBeforeExtent
<1> QED BY <1>1, <1>2, <1>3, MemoryAssumption DEF InMemory, PageAddresses

(* A page, allocated or false, is a function from its offsets to bytes.    *)
LEMMA PageType ==
  ASSUME TypeOK, NEW p
  PROVE  Page(p) \in [Offsets -> Byte]
  BY MemoryAssumption DEF TypeOK, Page, FalsePage

(* Every address on a page reads as a byte.                                *)
LEMMA ByteAtType ==
  ASSUME TypeOK, NEW x \in Nat
  PROVE  ByteAt(x) \in Byte
  BY PageType, PageSplit DEF ByteAt

\* Putting bytes keeps the shape of the pages ...
LEMMA WrittenType ==
  ASSUME TypeOK, NEW a \in Nat, NEW s, NEW xs,
         \A x \in xs : PageAddress(x) \in PageAddresses /\ s[Distance(a, x) + 1] \in Byte,
         pages' = Written(a, s, xs)
  PROVE  TypeOK'
<1>1. DOMAIN pages' = DOMAIN pages \cup PagesOf(xs)
  BY DEF Written
<1>2. DOMAIN pages' \subseteq PageAddresses
  BY <1>1 DEF TypeOK, PagesOf
<1>3. ASSUME NEW p \in DOMAIN pages' PROVE pages'[p] \in [Offsets -> Byte]
  <2>1. pages'[p] = [o \in Offsets |-> IF p + o \in xs THEN s[Distance(a, p + o) + 1] ELSE Page(p)[o]]
    BY <1>1 DEF Written
  <2>2. ASSUME NEW o \in Offsets
        PROVE  (IF p + o \in xs THEN s[Distance(a, p + o) + 1] ELSE Page(p)[o]) \in Byte
    BY PageType
  <2> QED BY <2>1, <2>2
<1> QED BY <1>2, <1>3 DEF TypeOK

\* ... and changes what a caller can read just where the bytes went.
LEMMA WrittenBytes ==
  ASSUME TypeOK, NEW a \in Nat, NEW s, NEW xs, pages' = Written(a, s, xs)
  PROVE  \A x \in Nat : ByteAt(x)' = IF x \in xs THEN s[Distance(a, x) + 1] ELSE ByteAt(x)
<1> SUFFICES ASSUME NEW x \in Nat
             PROVE  ByteAt(x)' = IF x \in xs THEN s[Distance(a, x) + 1] ELSE ByteAt(x)
  OBVIOUS
<1> DEFINE p == PageAddress(x)
           o == PageOffset(x)
<1>1. o \in Offsets /\ p + o = x
  BY PageSplit
<1>2. DOMAIN pages' = DOMAIN pages \cup PagesOf(xs)
  BY DEF Written
<1>3. CASE p \in DOMAIN pages'
  <2>1. pages'[p] = [q \in Offsets |-> IF p + q \in xs THEN s[Distance(a, p + q) + 1] ELSE Page(p)[q]]
    BY <1>2, <1>3 DEF Written
  <2>2. pages'[p][o] = IF p + o \in xs THEN s[Distance(a, p + o) + 1] ELSE Page(p)[o]
    BY <2>1, <1>1
  <2>3. pages'[p][o] = IF x \in xs THEN s[Distance(a, x) + 1] ELSE Page(p)[o]
    BY <2>2, <1>1
  <2> QED BY <2>3, <1>3 DEF ByteAt, Page
<1>4. CASE p \notin DOMAIN pages'
  <2>1. x \notin xs /\ p \notin DOMAIN pages
    BY <1>2, <1>4 DEF PagesOf
  <2> QED BY <2>1, <1>4 DEF ByteAt, Page, FalsePage
<1> QED BY <1>3, <1>4

\* Allocating a page shows nothing that was not shown before.
LEMMA AllocatedPages ==
  ASSUME TypeOK, NEW xs, \A x \in xs : PageAddress(x) \in PageAddresses,
         pages' = Allocated(xs)
  PROVE  TypeOK' /\ \A x \in Nat : ByteAt(x)' = ByteAt(x)
<1>1. /\ DOMAIN pages' = DOMAIN pages \cup PagesOf(xs)
      /\ \A p \in DOMAIN pages' : pages'[p] = Page(p)
  BY DEF Allocated
<1>2. TypeOK'
  BY <1>1, PageType DEF TypeOK, PagesOf
<1>3. \A p : Page(p)' = Page(p)
  BY <1>1 DEF Page, FalsePage, Offsets
<1> QED BY <1>2, <1>3 DEF ByteAt

(* If every address reads the same, the contents are the same.             *)
LEMMA SameBytes ==
  ASSUME \A x \in Nat : ByteAt(x)' = ByteAt(x)
  PROVE  Contents' = Contents
  BY ExtentBounds DEF Contents, Extent, PageAddress
-------------------------------------------------------------------------------
\* A put of n bytes of s is the same put to the flat array.
LEMMA WrittenIsOverlaid ==
  ASSUME TypeOK, NEW a \in 0..Span - 1, NEW s, NEW n \in Int, NEW xs,
         \A x \in 0..Extent - 1 : x \in xs <=> Distance(a, x) < n,
         pages' = Written(a, s, xs)
  PROVE  Contents' = Flat!Overlaid(a, s, n)
<1>1. \A x \in Nat : ByteAt(x)' = IF x \in xs THEN s[Distance(a, x) + 1] ELSE ByteAt(x)
  BY WrittenBytes
<1>2. Contents' = [x \in 0..Extent - 1 |-> ByteAt(x)']
  BY DEF Contents, Extent, PageAddress
<1>3. ASSUME NEW x \in 0..Extent - 1
      PROVE  ByteAt(x)' = IF Flat!From(a, x) < n THEN s[Flat!From(a, x) + 1] ELSE Contents[x]
  <2>1. x \in Nat /\ x \in 0..Span - 1
    BY ExtentBounds, MemoryAssumption
  <2>2. Distance(a, x) = Flat!From(a, x)
    BY <2>1, Circle
  <2>3. ByteAt(x)' = IF Distance(a, x) < n THEN s[Distance(a, x) + 1] ELSE ByteAt(x)
    BY <1>1, <2>1
  <2> QED BY <2>2, <2>3 DEF Contents
<1> QED BY <1>2, <1>3 DEF Flat!Overlaid

\* The same, of what a walk of n bytes reaches.
LEMMA ReachIsOverlaid ==
  ASSUME TypeOK, NEW a \in 0..Span - 1, NEW s, NEW n \in 0..Span,
         pages' = Written(a, s, Reach(a, n))
  PROVE  Contents' = Flat!Overlaid(a, s, Flat!Fit(a, n))
<1>1. Flat!Fit(a, n) \in Int
  BY FitBounds
<1>2. \A x \in 0..Extent - 1 : x \in Reach(a, n) <=> Distance(a, x) < Flat!Fit(a, n)
  <2>1. \A x \in 0..Extent - 1 : x \in 0..Span - 1
    BY ExtentBounds, MemoryAssumption
  <2> QED BY <2>1, ReachIsPrefix
<1> QED BY <1>1, <1>2, WrittenIsOverlaid

(* What no page holds reads as zero.                                       *)
LEMMA ByteBehindExtent ==
  ASSUME TypeOK, NEW x \in Nat, ~(x < Extent)
  PROVE  ByteAt(x) = Zero
<1>1. PageAddress(x) \notin DOMAIN pages
  <2>1. ~InMemory(PageAddress(x))
    BY PageBeforeExtent
  <2> QED BY <2>1, MemoryAssumption DEF TypeOK, PageAddresses, InMemory
<1> QED BY <1>1, PageSplit DEF ByteAt, Page, FalsePage

(* A part of the contents is what its addresses read, one by one.          *)
LEMMA PartOfContents ==
  ASSUME TypeOK, NEW a \in 0..Span - 1, NEW n \in 0..Span
  PROVE  [i \in 1..n |-> ByteAt(Sum(a, i - 1))] = Flat!Part(a, n)
<1>1. ASSUME NEW i \in 1..n
      PROVE  ByteAt(Sum(a, i - 1)) =
               IF Flat!After(a, i - 1) < Extent THEN Contents[Flat!After(a, i - 1)] ELSE Zero
  <2> DEFINE x == Sum(a, i - 1)
  <2>1. i - 1 \in 0..Span - 1
    BY MemoryAssumption
  <2>2. x \in 0..Span - 1 /\ x = Flat!After(a, i - 1)
    BY <2>1, Circle
  <2>3. x \in Nat
    BY <2>2
  <2> HIDE DEF x
  <2>4. ByteAt(x) = IF x < Extent THEN Contents[x] ELSE Zero
    <3>1. CASE x < Extent
      BY <2>3, <3>1, ExtentBounds DEF Contents
    <3>2. CASE ~(x < Extent)
      BY <2>3, <3>2, ByteBehindExtent
    <3> QED BY <3>1, <3>2
  <2> QED BY <2>2, <2>4 DEF x
<1> QED BY <1>1 DEF Flat!Part

\* The short cut of word() reads the same bytes as its loop.
LEMMA ShortCut ==
  ASSUME NEW a \in 0..Span - 1
  PROVE  WordAt(a) = [i \in 1..WordSize |-> ByteAt(Sum(a, i - 1))]
<1>1. CASE OnOnePage(a)
  <2>1. ASSUME NEW i \in 1..WordSize
        PROVE  ByteAt(Sum(a, i - 1)) = Page(PageAddress(a))[PageOffset(a) + i - 1]
    <3>0. a \in Nat /\ PageOffset(a) \in Nat /\ PageOffset(a) + WordSize < PageSize
      BY <1>1, PageSplit, MemoryAssumption DEF OnOnePage, Offsets
    <3>1. i - 1 \in Nat /\ PageOffset(a) + (i - 1) < PageSize
      BY <3>0, MemoryAssumption
    <3>2. /\ PageAddress(a + (i - 1)) = PageAddress(a)
          /\ PageOffset(a + (i - 1)) = PageOffset(a) + (i - 1)
      BY <3>0, <3>1, SamePage
    <3>3. a + (i - 1) < Span
      BY <3>0, <3>1, PageEndsInSpan
    <3>4. Sum(a, i - 1) = a + (i - 1) /\ PageOffset(a) + (i - 1) = PageOffset(a) + i - 1
      BY <3>0, <3>1, <3>3, MemoryAssumption DEF Sum
    <3> QED BY <3>2, <3>4 DEF ByteAt
  <2> QED BY <1>1, <2>1 DEF WordAt
<1>2. CASE ~OnOnePage(a)
  BY <1>2 DEF WordAt
<1> QED BY <1>1, <1>2

\* A word fits just if all its bytes do.
LEMMA Fits ==
  ASSUME NEW a \in 0..Span - 1
  PROVE  WordFits(a) <=> Flat!Fit(a, WordSize) = WordSize
<1> DEFINE f == Flat!Fit(a, WordSize)
<1>1. WordSize \in 0..Span /\ WordSize \in Nat \ {0}
  BY MemoryAssumption
<1>2. Walk(a, WordSize) = 0..f - 1 /\ f \in 0..WordSize
  BY <1>1, WalkIsPrefix, FitBounds
<1>3. WordFits(a) <=> 0..f - 1 = 0..WordSize - 1
  BY <1>2 DEF WordFits
<1> HIDE DEF f
<1>4. 0..f - 1 = 0..WordSize - 1 => f = WordSize
  <2>1. WordSize - 1 \in 0..WordSize - 1
    BY <1>1
  <2> QED BY <1>1, <1>2, <2>1
<1> QED BY <1>3, <1>4 DEF f

(* A new memory is well typed.                                             *)
LEMMA TypeInit == Init => TypeOK
<1> SUFFICES ASSUME Init PROVE TypeOK
  OBVIOUS
<1>1. DOMAIN pages = {}
  BY DEF Init
<1> QED BY <1>1 DEF TypeOK

(* A new memory is a flat memory of zeroes.                                *)
LEMMA ContentsInit == Init => Flat!Init
<1> SUFFICES ASSUME Init PROVE Flat!Init
  OBVIOUS
<1>1. DOMAIN pages = {}
  BY DEF Init
<1>2. ASSUME NEW x \in 0..Extent - 1 PROVE ByteAt(x) = Zero
  <2>1. PageOffset(x) \in Offsets
    BY ExtentBounds, PageSplit
  <2> QED BY <1>1, <2>1 DEF ByteAt, Page, FalsePage
<1> QED BY <1>2 DEF Init, Flat!Init, Contents
-------------------------------------------------------------------------------
(* putByte is the flat memory's putByte.                                   *)
LEMMA PutByteStep ==
  ASSUME TypeOK, NEW a \in Addr, NEW v \in Byte, PutByte(a, v)
  PROVE  TypeOK' /\ Flat!PutByte(a, v)
<1>1. a \in Nat /\ a \in 0..Span - 1
  BY MemoryAssumption
<1>2. CASE InMemory(a)
  <2>1. /\ pages' = Written(a, <<v>>, {a})
        /\ last' = <<"put", "byte">>
    BY <1>2 DEF PutByte
  <2>2. PageAddress(a) \in PageAddresses /\ <<v>>[Distance(a, a) + 1] \in Byte
    BY <1>1, <1>2, InMemoryInPages DEF Distance
  <2>3. TypeOK'
    BY <1>1, <2>1, <2>2, WrittenType
  <2>4. \A x \in 0..Extent - 1 : x \in {a} <=> Distance(a, x) < 1
    <3>1. \A x \in 0..Extent - 1 : x \in Nat /\ x < Span
      BY ExtentBounds, Sizes
    <3> QED BY <1>1, <3>1, Sizes DEF Distance
  <2>5. Contents' = Flat!Overlaid(a, <<v>>, 1)
    BY <1>1, <2>1, <2>4, WrittenIsOverlaid
  <2> QED BY <1>2, <2>1, <2>3, <2>5 DEF Flat!PutByte, InMemory
<1>3. CASE ~InMemory(a)
  <2>1. UNCHANGED pages /\ Throws("putByte")
    BY <1>3 DEF PutByte
  <2>2. TypeOK' /\ Contents' = Contents
    BY <2>1 DEF TypeOK, Contents, ByteAt, Page
  <2> QED BY <1>3, <2>1, <2>2 DEF Flat!PutByte, InMemory, Throws, Flat!Throws
<1> QED BY <1>2, <1>3

(* byte() is the flat memory's byte().                                     *)
LEMMA GetByteStep ==
  ASSUME TypeOK, NEW a \in Addr, GetByte(a)
  PROVE  TypeOK' /\ Flat!GetByte(a)
<1>1. a \in Nat /\ a \in 0..Span - 1
  BY MemoryAssumption
<1>2. CASE InMemory(a)
  <2>1. pages' = Allocated({a}) /\ last' = <<"byte", ByteAt(a)>>
    BY <1>2 DEF GetByte
  <2>2. PageAddress(a) \in PageAddresses /\ a < Extent
    BY <1>1, <1>2, InMemoryInPages
  <2>3. TypeOK' /\ Contents' = Contents
    BY <2>1, <2>2, AllocatedPages, SameBytes
  <2>4. Contents[a] = ByteAt(a)
    BY <1>1, <2>2, ExtentBounds DEF Contents
  <2> QED BY <1>2, <2>1, <2>3, <2>4 DEF Flat!GetByte, InMemory
<1>3. CASE ~InMemory(a)
  <2>1. UNCHANGED pages /\ Throws("byte")
    BY <1>3 DEF GetByte
  <2>2. TypeOK' /\ Contents' = Contents
    BY <2>1 DEF TypeOK, Contents, ByteAt, Page
  <2> QED BY <1>3, <2>1, <2>2 DEF Flat!GetByte, InMemory, Throws, Flat!Throws
<1> QED BY <1>2, <1>3

(* putWord is the flat memory's putWord, when it throws as well.           *)
LEMMA PutWordStep ==
  ASSUME TypeOK, NEW a \in Addr, NEW w \in Word, PutWord(a, w)
  PROVE  TypeOK' /\ Flat!PutWord(a, w)
<1>1. a \in Nat /\ a \in 0..Span - 1
  BY MemoryAssumption
<1>2. CASE InMemory(a)
  <2> DEFINE xs == Reach(a, WordSize)
             f == Flat!Fit(a, WordSize)
  <2>1. /\ pages' = Written(a, w, xs)
        /\ IF WordFits(a) THEN last' = <<"put", "word">> ELSE Throws("putWord")
    BY <1>2 DEF PutWord
  <2>2. WordSize \in 0..Span
    BY MemoryAssumption
  <2>3. ASSUME NEW x \in xs PROVE PageAddress(x) \in PageAddresses /\ w[Distance(a, x) + 1] \in Byte
    <3>1. PageAddress(x) \in PageAddresses
      BY <1>1, <2>2, ReachInPages
    <3>2. Distance(a, x) + 1 \in 1..WordSize
      BY <1>1, <2>2, ReachIndex
    <3> QED BY <3>1, <3>2 DEF Word
  <2>4. TypeOK'
    BY <1>1, <2>1, <2>3, WrittenType
  <2>6. Contents' = Flat!Overlaid(a, w, f)
    BY <1>1, <2>1, <2>2, ReachIsOverlaid
  <2>7. WordFits(a) <=> f = WordSize
    BY <1>1, Fits
  <2> QED BY <1>2, <2>1, <2>4, <2>6, <2>7
          DEF Flat!PutWord, InMemory, Throws, Flat!Throws
<1>3. CASE ~InMemory(a)
  <2>1. UNCHANGED pages /\ Throws("putWord")
    BY <1>3 DEF PutWord
  <2>2. TypeOK' /\ Contents' = Contents
    BY <2>1 DEF TypeOK, Contents, ByteAt, Page
  <2> QED BY <1>3, <2>1, <2>2 DEF Flat!PutWord, InMemory, Throws, Flat!Throws
<1> QED BY <1>2, <1>3

(* word() is the flat memory's word(), on either of its paths.             *)
LEMMA GetWordStep ==
  ASSUME TypeOK, NEW a \in Addr, GetWord(a)
  PROVE  TypeOK' /\ Flat!GetWord(a)
<1>1. a \in Nat /\ a \in 0..Span - 1
  BY MemoryAssumption
<1>2. CASE InMemory(a)
  <2>1. /\ pages' = Allocated(Reach(a, WordSize))
        /\ IF WordFits(a) THEN last' = <<"word", WordAt(a)>> ELSE Throws("word")
    BY <1>2 DEF GetWord
  <2>2. \A x \in Reach(a, WordSize) : PageAddress(x) \in PageAddresses
    BY <1>1, ReachInPages, MemoryAssumption
  <2>3. TypeOK' /\ Contents' = Contents
    BY <2>1, <2>2, AllocatedPages, SameBytes
  <2>4. WordFits(a) <=> Flat!Fit(a, WordSize) = WordSize
    BY <1>1, Fits
  <2>5. WordAt(a) = Flat!Part(a, WordSize)
    BY <1>1, ShortCut, PartOfContents, MemoryAssumption
  <2> QED BY <1>2, <2>1, <2>3, <2>4, <2>5
          DEF Flat!GetWord, InMemory, Throws, Flat!Throws
<1>3. CASE ~InMemory(a)
  <2>1. UNCHANGED pages /\ Throws("word")
    BY <1>3 DEF GetWord
  <2>2. TypeOK' /\ Contents' = Contents
    BY <2>1 DEF TypeOK, Contents, ByteAt, Page
  <2> QED BY <1>3, <2>1, <2>2 DEF Flat!GetWord, InMemory, Throws, Flat!Throws
<1> QED BY <1>2, <1>3

(* putChunk is the flat memory's putChunk.                                 *)
LEMMA PutChunkStep ==
  ASSUME TypeOK, NEW a \in Addr, NEW s \in Chunks, PutChunk(a, s)
  PROVE  TypeOK' /\ Flat!PutChunk(a, s)
<1> DEFINE n == Len(s)
           xs == Reach(a, n)
<1>1. a \in 0..Span - 1 /\ s \in Seq(Byte) /\ n \in 0..Span
  BY MemoryAssumption
<1>2. pages' = Written(a, s, xs) /\ last' = <<"count", a, PutCount(a, n)>>
  BY DEF PutChunk
<1>4. ASSUME NEW x \in xs
      PROVE  PageAddress(x) \in PageAddresses /\ s[Distance(a, x) + 1] \in Byte
  <2>1. PageAddress(x) \in PageAddresses
    BY <1>1, ReachInPages
  <2>2. Distance(a, x) + 1 \in 1..n
    BY <1>1, ReachIndex
  <2> QED BY <1>1, <2>1, <2>2
<1>5. TypeOK'
  <2>1. a \in Nat
    BY <1>1
  <2> QED BY <2>1, <1>2, <1>4, WrittenType
<1>7. Contents' = Flat!Overlaid(a, s, Flat!Fit(a, n))
  BY <1>1, <1>2, ReachIsOverlaid
<1>8. PutCount(a, n) = Flat!Fit(a, n)
  <2> DEFINE f == Flat!Fit(a, n)
  <2>1. Walk(a, n) = 0..f - 1 /\ f \in 0..n
    BY <1>1, WalkIsPrefix, FitBounds
  <2>2. f \in Int /\ f >= 0
    BY <1>1, <2>1
  <2> HIDE DEF f
  <2>3. Cardinality(0..f - 1) = IF 0 > f - 1 THEN 0 ELSE (f - 1) - 0 + 1
    BY <2>2, FS_Interval
  <2> QED BY <2>1, <2>2, <2>3 DEF PutCount, f
<1> QED BY <1>2, <1>5, <1>7, <1>8 DEF Flat!PutChunk

(* chunk() is the flat memory's chunk().                                   *)
LEMMA GetChunkStep ==
  ASSUME TypeOK, NEW a \in Addr, NEW n \in Lengths, GetChunk(a, n)
  PROVE  TypeOK' /\ Flat!GetChunk(a, n)
<1> DEFINE k == ChunkLength(a, n)
<1>1. a \in 0..Span - 1 /\ n \in 0..Span - 1 /\ Span \in Nat
  BY MemoryAssumption
<1>2. TypeOK' /\ Contents' = Contents
  BY DEF GetChunk, TypeOK, Contents, ByteAt, Page
<1>3. k \in 0..Span /\ k = Flat!Readable(a, n)
  BY <1>1, MemoryAssumption DEF ChunkLength, Flat!Readable, Sum
<1>5. [i \in 1..k |-> ByteAt(Sum(a, i - 1))] = Flat!Part(a, k)
  BY <1>1, <1>3, PartOfContents
<1> QED BY <1>2, <1>3, <1>5 DEF GetChunk, Flat!GetChunk

(* ptr() changes nothing that the flat memory shows.                       *)
LEMMA PtrStep ==
  ASSUME TypeOK, NEW a \in Addr, Ptr(a)
  PROVE  TypeOK' /\ Flat!Other
<1>1. a \in Nat /\ a \in 0..Span - 1
  BY MemoryAssumption
<1>2. CASE InMemory(a)
  <2>1. pages' = Allocated({a}) /\ PageAddress(a) \in PageAddresses
    BY <1>1, <1>2, InMemoryInPages DEF Ptr
  <2>2. TypeOK' /\ Contents' = Contents
    BY <2>1, AllocatedPages, SameBytes
  <2> QED BY <2>2 DEF Ptr, Flat!Other
<1>3. CASE ~InMemory(a)
  <2>1. TypeOK' /\ Contents' = Contents
    BY <1>3 DEF Ptr, TypeOK, Contents, ByteAt, Page
  <2> QED BY <2>1 DEF Ptr, Flat!Other
<1> QED BY <1>2, <1>3

\* One step of the pages is one step of the flat memory.
LEMMA Step == TypeOK /\ [Next]_vars => TypeOK' /\ [Flat!Next]_(Flat!vars)
<1> SUFFICES ASSUME TypeOK, [Next]_vars
             PROVE  TypeOK' /\ [Flat!Next]_(Flat!vars)
  OBVIOUS
<1>1. ASSUME NEW a \in Addr, NEW v \in Byte, PutByte(a, v)
      PROVE  TypeOK' /\ Flat!Next
  BY <1>1, PutByteStep DEF Flat!Next
<1>2. ASSUME NEW a \in Addr, GetByte(a)
      PROVE  TypeOK' /\ Flat!Next
  BY <1>2, GetByteStep DEF Flat!Next
<1>3. ASSUME NEW a \in Addr, NEW w \in Word, PutWord(a, w)
      PROVE  TypeOK' /\ Flat!Next
  BY <1>3, PutWordStep DEF Flat!Next, Word, Flat!Word
<1>4. ASSUME NEW a \in Addr, GetWord(a)
      PROVE  TypeOK' /\ Flat!Next
  BY <1>4, GetWordStep DEF Flat!Next
<1>5. ASSUME NEW a \in Addr, NEW s \in Chunks, PutChunk(a, s)
      PROVE  TypeOK' /\ Flat!Next
  BY <1>5, PutChunkStep DEF Flat!Next
<1>6. ASSUME NEW a \in Addr, NEW n \in Lengths, GetChunk(a, n)
      PROVE  TypeOK' /\ Flat!Next
  BY <1>6, GetChunkStep DEF Flat!Next
<1>7. ASSUME NEW a \in Addr, Ptr(a)
      PROVE  TypeOK' /\ Flat!Next
  BY <1>7, PtrStep DEF Flat!Next
<1>8. CASE UNCHANGED vars
  BY <1>8 DEF vars, Flat!vars, TypeOK, Contents, ByteAt, Page
<1> QED BY <1>1, <1>2, <1>3, <1>4, <1>5, <1>6, <1>7, <1>8 DEF Next

(* Every allocated page starts on a boundary in the memory and is whole,   *)
(* whatever the sizes of pages and memory: Memory::page never indexes past *)
(* a page's buffer.                                                        *)
THEOREM TypeCorrect == Spec => []TypeOK
<1>1. Init => TypeOK
  BY TypeInit
<1>2. TypeOK /\ [Next]_vars => TypeOK'
  BY Step
<1> QED BY <1>1, <1>2, PTL DEF Spec

(* For every page size, memory size, word size and width of an address the *)
(* pages of memory.cpp cannot be told from one flat array of bytes, whose  *)
(* accesses go round the end of the addresses.                             *)
THEOREM Implementation == Spec => ImplementsFlat
<1>1. Init => Flat!Init
  BY ContentsInit
<1>2. TypeOK /\ [Next]_vars => [Flat!Next]_(Flat!vars)
  BY Step
<1> QED BY <1>1, <1>2, TypeCorrect, PTL DEF Spec, ImplementsFlat, Flat!Spec
===============================================================================
