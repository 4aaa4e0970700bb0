------------------------------ MODULE FlatMemory ------------------------------
(***************************************************************************)
(* What Emuballs::Memory promises its callers, without pages: an array of  *)
(* bytes that starts all zero, and what the last call gave back.           *)
(*                                                                         *)
(* There are two ends.  A byte or a word starts below Size, and a chunk to *)
(* read ends there.  A word that starts below Size may run on to Extent,   *)
(* and a chunk may be put anywhere below Extent.                           *)
(*                                                                         *)
(* The addresses are a circle of Span: what runs over the last one goes on *)
(* at address 0, if the memory extends to the last one, and a chunk to     *)
(* read does so in any case.                                               *)
(***************************************************************************)
EXTENDS Integers, Sequences

CONSTANTS Byte,      \* the values of a byte
          Zero,      \* the value of a byte never written
          WordSize,  \* bytes of a word
          Span,      \* how many addresses there are
          Size, Extent,
          Addr,      \* the addresses that callers pass
          Chunks,    \* the sequences of bytes that callers put
          Lengths    \* the lengths of the chunks that callers ask for

VARIABLES bytes,     \* the byte at every address below Extent
          last       \* the outcome of the last call

vars == <<bytes, last>>

Word == [1..WordSize -> Byte]

\* The address i after a, and how far x is after a.
After(a, i) == IF a + i < Span THEN a + i ELSE a + i - Span
From(a, x) == IF a <= x THEN x - a ELSE x - a + Span

\* How many of the n bytes from address a on there are.
Fit(a, n) == IF Extent = Span \/ a + n <= Extent THEN n
             ELSE IF a < Extent THEN Extent - a ELSE 0

\* How many of them a chunk to read has.
Readable(a, n) == IF a >= Size THEN 0
                  ELSE IF Size < a + n /\ a + n < Span THEN Size - a ELSE n

\* A byte that the memory does not have reads as one never written.
Part(a, n) == [i \in 1..n |->
                 IF After(a, i - 1) < Extent THEN bytes[After(a, i - 1)] ELSE Zero]

\* The memory with the first n bytes of s laid over it from address a on.
Overlaid(a, s, n) ==
  [x \in 0..Extent - 1 |-> IF From(a, x) < n THEN s[From(a, x) + 1] ELSE bytes[x]]

Throws(call) == last' = <<"throws", call>>

Init == bytes = [x \in 0..Extent - 1 |-> Zero] /\ last = <<"none">>

PutByte(a, v) ==
  IF a < Size THEN last' = <<"put", "byte">> /\ bytes' = Overlaid(a, <<v>>, 1)
              ELSE Throws("putByte") /\ UNCHANGED bytes

GetByte(a) ==
  /\ IF a < Size THEN last' = <<"byte", bytes[a]>> ELSE Throws("byte")
  /\ UNCHANGED bytes

\* A word that does not fit is put as far as it does, and then throws.
PutWord(a, w) ==
  IF a < Size
  THEN /\ IF Fit(a, WordSize) = WordSize THEN last' = <<"put", "word">> ELSE Throws("putWord")
       /\ bytes' = Overlaid(a, w, Fit(a, WordSize))
  ELSE Throws("putWord") /\ UNCHANGED bytes

GetWord(a) ==
  /\ IF a < Size /\ Fit(a, WordSize) = WordSize
     THEN last' = <<"word", Part(a, WordSize)>>
     ELSE Throws("word")
  /\ UNCHANGED bytes

PutChunk(a, s) == /\ last' = <<"count", a, Fit(a, Len(s))>>
                  /\ bytes' = Overlaid(a, s, Fit(a, Len(s)))

GetChunk(a, n) == /\ last' = <<"chunk", Part(a, Readable(a, n))>>
                  /\ UNCHANGED bytes

\* A call that gives the caller nothing to compare.
Other == last' = <<"none">> /\ UNCHANGED bytes

Next == \/ \E a \in Addr :
             \/ \E v \in Byte : PutByte(a, v)
             \/ GetByte(a)
             \/ \E w \in Word : PutWord(a, w)
             \/ GetWord(a)
             \/ \E s \in Chunks : PutChunk(a, s)
             \/ \E n \in Lengths : GetChunk(a, n)
        \/ Other

Spec == Init /\ [][Next]_vars
===============================================================================
