------------------------------ MODULE PagedMemory ------------------------------
(***************************************************************************)
(* Emuballs::Memory of src/emuballs/memory.cpp: an address space of        *)
(* MemSize bytes kept as pages that exist once they were written, or read  *)
(* a byte or a word at a time.                                             *)
(*                                                                         *)
(* A call is a step.  The pages' contents are bytes 0..PageSize-1; the     *)
(* loops over bytes and pages are written as what they cover: an access    *)
(* reaches the bytes from its address up to the first page that starts at  *)
(* or past the end of the memory.  A dword is two words, a call each.      *)
(*                                                                         *)
(* Addresses are memsize, Span = 2^64 of them, and their sums wrap.  The   *)
(* transfers of armopcode_impl.cpp do pass addresses just below Span (a    *)
(* base of 4 less an offset of 8), and the memory of a device is Span - 1  *)
(* bytes long: an access that runs over the end goes on in page 0.         *)
(***************************************************************************)
EXTENDS Integers, Sequences, FiniteSets

CONSTANTS Byte, Zero, \* the values of a byte, and that of a fresh page's bytes
          WordSize,   \* WORD_SIZE, 4 in the code
          Span,       \* the number of values of a memsize
          PageSize,   \* pageSize, 4096 by default
          MemSize,    \* size, SIZE_MAX by default: need not be a whole number of pages
          Addr,       \* the addresses that callers pass
          Chunks,     \* the chunks that callers put
          Lengths     \* the lengths of the chunks that callers ask for

ASSUME MemoryAssumption == /\ Zero \in Byte
                           /\ Span \in Nat \ {0}
                           /\ WordSize \in 1..Span
                           /\ PageSize \in 1..Span
                           /\ Span % PageSize = 0
                           /\ MemSize \in 0..Span - 1
                           /\ Addr \subseteq 0..Span - 1
                           /\ Chunks \subseteq {s \in Seq(Byte) : Len(s) < Span}
                           /\ Lengths \subseteq 0..Span - 1

VARIABLES pages,  \* a function from the addresses of the allocated pages
          last    \* the outcome of the last call, as its caller sees it

vars == <<pages, last>>

Word == [1..WordSize -> Byte]
Offsets == 0..PageSize - 1

\* The sum of two memsizes.
Sum(x, y) == IF x + y < Span THEN x + y ELSE x + y - Span

\* How far x is after a, past the last address if need be.
Distance(a, x) == IF a <= x THEN x - a ELSE x - a + Span

\* The page address of an address, without rounding it down.
PageAddressKept(a) == a

PageAddress(a) == (a \div PageSize) * PageSize
PageOffset(a) == a % PageSize

\* The pages of the memory; the last one may end past MemSize.
PageAddresses == {p \in 0..MemSize - 1 : p % PageSize = 0}

\* page() finds or allocates a page for an address in the memory, and throws
\* for another.
InMemory(a) == a < MemSize

FalsePage == [o \in Offsets |-> Zero]

Init == pages = <<>> /\ last = <<"none">>
-------------------------------------------------------------------------------
\* Which of the n bytes from address a on a walk from page to page gets to:
\* those before the first page that does not start in the memory.
Walk(a, n) == {i \in 0..n - 1 : \A j \in 0..i : InMemory(PageAddress(Sum(a, j)))}

\* Where they are.
Reach(a, n) == {Sum(a, i) : i \in Walk(a, n)}

PagesOf(xs) == {PageAddress(x) : x \in xs}

\* A page that is allocated anew on every access.
PageLost(p) == FalsePage

\* The page at address p, as it is once it is allocated.
Page(p) == IF p \in DOMAIN pages THEN pages[p] ELSE FalsePage

\* pages, once the page of every address in xs is allocated.
Allocated(xs) == [p \in DOMAIN pages \cup PagesOf(xs) |-> Page(p)]

\* pages, once the bytes of s that lie in xs have been put at a.
Written(a, s, xs) ==
  [p \in DOMAIN pages \cup PagesOf(xs) |->
     [o \in Offsets |-> IF p + o \in xs THEN s[Distance(a, p + o) + 1] ELSE Page(p)[o]]]

ByteAt(x) == Page(PageAddress(x))[PageOffset(x)]

Throws(call) == last' = <<"throws", call>>

PutByte(a, v) ==
  IF InMemory(a)
  THEN pages' = Written(a, <<v>>, {a}) /\ last' = <<"put", "byte">>
  ELSE Throws("putByte") /\ UNCHANGED pages

GetByte(a) ==
  IF InMemory(a)
  THEN pages' = Allocated({a}) /\ last' = <<"byte", ByteAt(a)>>
  ELSE Throws("byte") /\ UNCHANGED pages

\* The walk of putWord and word over a word's bytes ends in a page that it has
\* no address for, and throws.
WordFits(a) == Walk(a, WordSize) = 0..WordSize - 1

PutWord(a, w) ==
  IF InMemory(a)
  THEN /\ pages' = Written(a, w, Reach(a, WordSize))
       /\ IF WordFits(a) THEN last' = <<"put", "word">> ELSE Throws("putWord")
  ELSE Throws("putWord") /\ UNCHANGED pages

\* The short cut of word(), for a word that ends before its page does.
OnOnePage(a) == PageOffset(a) + WordSize < PageSize

WordAt(a) ==
  IF OnOnePage(a)
  THEN [i \in 1..WordSize |-> Page(PageAddress(a))[PageOffset(a) + i - 1]]
  ELSE [i \in 1..WordSize |-> ByteAt(Sum(a, i - 1))]

GetWord(a) ==
  IF InMemory(a)
  THEN /\ pages' = Allocated(Reach(a, WordSize))
       /\ IF WordFits(a) THEN last' = <<"word", WordAt(a)>> ELSE Throws("word")
  ELSE Throws("word") /\ UNCHANGED pages

\* What putChunk returns: the sum of its insert counts.
PutCount(a, n) == Cardinality(Walk(a, n))

PutChunk(a, s) == /\ pages' = Written(a, s, Reach(a, Len(s)))
                  /\ last' = <<"count", a, PutCount(a, Len(s))>>

\* chunk() stops at MemSize, in the middle of a page or not, unless the sum of
\* address and length has wrapped: then it reads on, and takes the pages that
\* do not exist for zeroes.
ChunkLength(a, n) == IF a >= MemSize THEN 0
                     ELSE IF Sum(a, n) > MemSize THEN MemSize - a ELSE n

\* chunk() reads what is allocated, and zeroes for what is not.
GetChunk(a, n) ==
  /\ last' = <<"chunk", [i \in 1..ChunkLength(a, n) |-> ByteAt(Sum(a, i - 1))]>>
  /\ UNCHANGED pages

\* ptr(): its caller gets the page's bytes, not a value.
Ptr(a) ==
  /\ IF InMemory(a) THEN pages' = Allocated({a}) ELSE UNCHANGED pages
  /\ last' = <<"none">>

Next == \E a \in Addr :
          \/ \E v \in Byte : PutByte(a, v)
          \/ GetByte(a)
          \/ \E w \in Word : PutWord(a, w)
          \/ GetWord(a)
          \/ \E s \in Chunks : PutChunk(a, s)
          \/ \E n \in Lengths : GetChunk(a, n)
          \/ Ptr(a)

Spec == Init /\ [][Next]_vars
-------------------------------------------------------------------------------
\* The end of the last page.
Extent == PageAddress(MemSize + PageSize - 1)

Contents == [x \in 0..Extent - 1 |-> ByteAt(x)]

Flat == INSTANCE FlatMemory WITH bytes <- Contents, Size <- MemSize

(* Every page starts on a page boundary inside the memory and is PageSize  *)
(* bytes long, so that no walk indexes past a page's buffer.               *)
TypeOK == /\ DOMAIN pages \subseteq PageAddresses
          /\ \A p \in DOMAIN pages : pages[p] \in [Offsets -> Byte]

(* No caller of memory.hpp can tell the pages from one array of bytes:     *)
(* whatever was put, by bytes, words or chunks on however many pages and   *)
(* across the end of the addresses, is what any of the reads returns, and  *)
(* a call that throws has put just the bytes that fit.                     *)
ImplementsFlat == Flat!Spec
===============================================================================
