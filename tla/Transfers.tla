------------------------------ MODULE Transfers ------------------------------
(***************************************************************************)
(* The instructions that move data between registers and memory, and those *)
(* that branch: SingleDataTransfer, HalfwordDataTransfer,                  *)
(* DoublewordDataTransfer, BlockDataTransfer, SingleDataSwap, Branch and   *)
(* BranchAndExchange of armopcode_impl.cpp, executed one after another on  *)
(* a register file and a memory.                                           *)
(*                                                                         *)
(* A word has four bytes of ByteBits bits.  An address of the 64-bit       *)
(* memsize is an integer here, 2^64 - k being -k: the code adds some of    *)
(* its offsets in 32 bits and some in 64, so that an access can leave the  *)
(* guest's address space at either end.  Between two instructions the pc   *)
(* is as the next one reads it, two instructions ahead of its own address. *)
(* Pages and observers are modules of their own.                           *)
(***************************************************************************)
EXTENDS Shift, FiniteSets

CONSTANTS ByteBits,     \* bits of a byte, 8 in the code
          Instructions, \* the instructions that the program may consist of
          Bases,        \* what the registers other than pc may hold at first
          MaxSteps      \* bound: instructions other than a branch to itself

WordBytes  == 4
PC == 15
LR == 14
Reg == 0..15

Offsets == [by : {"immediate"}, n : Values]
           \cup [by : {"register"}, rm : Reg, type : ShiftTypes, amount : 0..Width]

Formats ==
  [kind : {"single"}, load : BOOLEAN, byte : BOOLEAN, up : BOOLEAN, pre : BOOLEAN,
   wb : BOOLEAN, rn : Reg, rd : Reg, offset : Offsets]
  \cup [kind : {"halfword"}, load : BOOLEAN, half : BOOLEAN, signed : BOOLEAN, up : BOOLEAN,
        pre : BOOLEAN, wb : BOOLEAN, rn : Reg, rd : Reg, offset : Offsets]
  \cup [kind : {"doubleword"}, load : BOOLEAN, up : BOOLEAN, pre : BOOLEAN, wb : BOOLEAN,
        rn : Reg, rd : Reg, offset : Offsets]
  \cup [kind : {"block"}, load : BOOLEAN, up : BOOLEAN, pre : BOOLEAN, wb : BOOLEAN,
        rn : Reg, list : SUBSET Reg]
  \cup [kind : {"swap"}, byte : BOOLEAN, rn : Reg, rd : Reg, rm : Reg]
  \cup [kind : {"reverse"}, half : BOOLEAN, signed : BOOLEAN, rd : Reg, rm : Reg]
  \cup [kind : {"bx"}, rm : Reg]
  \cup [kind : {"branch"}, link : BOOLEAN, n : Int]

ASSUME TransferAssumption == /\ ByteBits \in Nat \ {0}
                             /\ Width = WordBytes * ByteBits
                             /\ Bases \subseteq [Reg \ {PC} -> Values]
                             /\ Instructions \subseteq Formats
                             /\ MaxSteps \in Nat

VARIABLES regs,    \* RegisterSet
          mem,     \* the bytes that are not 0, by address
          values,  \* BlockDataTransfer::values of every cached block transfer
          steps,   \* instructions executed, up to MaxSteps
          \* History, for the properties only:
          frames   \* what stm with write-back stored, while it is in memory

vars == <<regs, mem, values, steps, frames>>

ByteSize == Pow2[ByteBits]

\* What a 1 in byte k of a word is worth.
Place(k) == Pow2[k * ByteBits]

Blocks == {i \in Instructions : i.kind = "block"}

Init == /\ \E base \in Bases :
             regs = [r \in Reg |-> IF r = PC THEN 2 * WordBytes ELSE base[r]]
        /\ mem = <<>>
        /\ values = [i \in Blocks |-> [r \in i.list |-> 0]]
        /\ steps = 0
        /\ frames = {}
-------------------------------------------------------------------------------
Byte(m, a) == IF a \in DOMAIN m THEN m[a] ELSE 0

Word(m, a) == Byte(m, a) + ByteSize * (Byte(m, a + 1)
                + ByteSize * (Byte(m, a + 2) + ByteSize * Byte(m, a + 3)))

\* m once the n lowest bytes of v are at a.
Put(m, a, n, v) ==
  LET at == a..a + n - 1
      New(x) == IF x \in at THEN (v \div Place(x - a)) % ByteSize ELSE m[x]
  IN  [x \in {y \in DOMAIN m \cup at : New(y) # 0} |-> New(x)]

\* Memory::page has no page for the last address of the 64-bit space.
NoByteAt(a) == a = -1

(* What an execution has done so far: registers, memory, whether it wrote  *)
(* the pc, and whether it threw.                                           *)
Start == [regs |-> regs, mem |-> mem, jumped |-> FALSE, thrown |-> FALSE]

Set(s, r, v) == [s EXCEPT !.regs[r] = v % Size, !.jumped = @ \/ r = PC]

SetIf(condition, s, r, v) == IF condition THEN Set(s, r, v) ELSE s

Store(s, a, n, v) == [s EXCEPT !.mem = Put(@, a, n, v)]

Throw(s) == [s EXCEPT !.thrown = TRUE]
-------------------------------------------------------------------------------
\* The offset of a transfer: an immediate or a register, shifted or not.
Offset(s, o) == IF o.by = "immediate" THEN o.n
                ELSE Shifter(o.type, s.regs[o.rm], o.amount, FALSE).val

WritesBack(i) == i.wb \/ ~i.pre

\* validate() of SingleDataTransfer and DoublewordDataTransfer.
IllegalAddressing(i) == \/ WritesBack(i) /\ i.rn = PC
                        \/ i.offset.by = "register" /\ i.offset.rm = PC

AddressWithOffset(s, i) ==
  (s.regs[i.rn] + (IF i.up THEN 1 ELSE -1) * Offset(s, i.offset)) % Size

MemoryAddress(s, i) == IF i.pre THEN AddressWithOffset(s, i) ELSE s.regs[i.rn]

\* Loads and stores of a word or a byte.
TransferFirst(s, i) ==
  LET a == MemoryAddress(s, i)
  IN  IF i.load
      THEN Set(s, i.rd, IF i.byte THEN Byte(s.mem, a) ELSE Word(s.mem, a))
      ELSE Store(s, a, IF i.byte THEN 1 ELSE WordBytes, s.regs[i.rd])

Single(s, i) ==
  IF IllegalAddressing(i) THEN Throw(s)
  ELSE SetIf(WritesBack(i), TransferFirst(s, i), i.rn, AddressWithOffset(s, i))

\* The second word is not the one that the register file has next to the first.
DoublewordSwapped(s, i) ==
  LET a == MemoryAddress(s, i)
  IN  IF IllegalAddressing(i) \/ i.rd % 2 # 0 THEN Throw(s)
      ELSE SetIf(WritesBack(i),
             IF i.load
             THEN Set(Set(s, i.rd, Word(s.mem, a + WordBytes)), i.rd + 1, Word(s.mem, a))
             ELSE Store(Store(s, a, WordBytes, s.regs[i.rd]),
                        a + WordBytes, WordBytes, s.regs[i.rd + 1]),
             i.rn, AddressWithOffset(s, i))

Doubleword(s, i) ==
  LET a == MemoryAddress(s, i)
  IN  IF IllegalAddressing(i) \/ i.rd % 2 # 0 THEN Throw(s)
      ELSE SetIf(WritesBack(i),
             IF i.load
             THEN Set(Set(s, i.rd, Word(s.mem, a)), i.rd + 1, Word(s.mem, a + WordBytes))
             ELSE Store(Store(s, a, WordBytes, s.regs[i.rd]),
                        a + WordBytes, WordBytes, s.regs[i.rd + 1]),
             i.rn, AddressWithOffset(s, i))
-------------------------------------------------------------------------------
\* An unsigned register in an int, and an int's sign changed: the least int is kept.
AsInt(v) == IF v >= Half THEN v - Size ELSE v
Negated(n) == IF n = -Half THEN n ELSE -n

HalfwordOffset(s, i) ==
  LET n == IF i.offset.by = "immediate" THEN i.offset.n ELSE AsInt(s.regs[i.offset.rm])
  IN  IF i.up THEN n ELSE Negated(n)

\* n bytes extended to a register by their sign.
Extended(v, n) == IF v >= Place(n) \div 2 THEN v + Size - Place(n) ELSE v

HalfwordWritesBackFirst(s, i) ==
  LET offset == HalfwordOffset(s, i)
      a    == s.regs[i.rn] + (IF i.pre THEN offset ELSE 0)
      n    == IF i.half THEN 2 ELSE 1
      read == Word(s.mem, a) % Place(n)
      base == SetIf(WritesBack(i), s, i.rn, s.regs[i.rn] + offset)
  IN  IF NoByteAt(a) \/ NoByteAt(a + n - 1) THEN Throw(base)
      ELSE IF i.load THEN Set(base, i.rd, IF i.signed THEN Extended(read, n) ELSE read)
      ELSE Store(base, a, n, s.regs[i.rd])

\* The int is added to a 64-bit address.  No register is too special for write-back.
Halfword(s, i) ==
  LET offset == HalfwordOffset(s, i)
      a    == s.regs[i.rn] + (IF i.pre THEN offset ELSE 0)
      n    == IF i.half THEN 2 ELSE 1
      read == Word(s.mem, a) % Place(n)
  IN  IF NoByteAt(a) THEN Throw(s)
      ELSE IF NoByteAt(a + n - 1)
      THEN Throw(IF i.load THEN s ELSE Store(s, a, 1, s.regs[i.rd]))
      ELSE SetIf(WritesBack(i),
             IF i.load THEN Set(s, i.rd, IF i.signed THEN Extended(read, n) ELSE read)
             ELSE Store(s, a, n, s.regs[i.rd]),
             i.rn, s.regs[i.rn] + offset)
-------------------------------------------------------------------------------
Length(i) == WordBytes * Cardinality(i.list)

IndexingOffsetUpOnly(i) == IF i.up /\ i.pre THEN WordBytes ELSE 0

IndexingOffset(i) == IF i.up = i.pre THEN WordBytes ELSE 0

StartOffset(i) == (IF i.up THEN 0 ELSE -Length(i)) + IndexingOffset(i)

Rank(list, r) == Cardinality({q \in list : q < r})

\* Memory::chunk reads nothing from the last address of the 64-bit space, and
\* the values of the instruction's last execution are taken again.
LoadedValues(s, i, old) ==
  LET a == s.regs[i.rn] + StartOffset(i)
  IN  [r \in i.list |-> IF NoByteAt(a) THEN old[r]
                        ELSE Word(s.mem, a + WordBytes * Rank(i.list, r))]

StoredValues(s, i) == [r \in i.list |-> s.regs[r]]

BlockValues(s, i, old) == IF i.load THEN LoadedValues(s, i, old) ELSE StoredValues(s, i)

PutBlock(m, a, list, v) ==
  LET at == a..a + WordBytes * Cardinality(list) - 1
      RegAt(x) == CHOOSE r \in list : Rank(list, r) = (x - a) \div WordBytes
      New(x) == IF x \in at
                THEN (v[RegAt(x)] \div Place((x - a) % WordBytes)) % ByteSize
                ELSE m[x]
  IN  [x \in {y \in DOMAIN m \cup at : New(y) # 0} |-> New(x)]

\* ldm and stm: write-back comes last, over a loaded base.
Block(s, i, old) ==
  LET v == BlockValues(s, i, old)
      t == IF i.load
           THEN [s EXCEPT !.regs = [r \in Reg |-> IF r \in i.list THEN v[r] ELSE @[r]],
                          !.jumped = PC \in i.list]
           ELSE [s EXCEPT !.mem = PutBlock(@, s.regs[i.rn] + StartOffset(i), i.list, v)]
  IN  IF i.rn = PC THEN Throw(s)
      ELSE SetIf(i.wb, t, i.rn, s.regs[i.rn] + (IF i.up THEN 1 ELSE -1) * Length(i))
-------------------------------------------------------------------------------
\* swp and swpb: the memory is read before it is written, rm before rd.
Swap(s, i) ==
  LET a == s.regs[i.rn]
      n == IF i.byte THEN 1 ELSE WordBytes
  IN  IF PC \in {i.rn, i.rd, i.rm} THEN Throw(s)
      ELSE Set(Store(s, a, n, s.regs[i.rm]), i.rd, Word(s.mem, a) % Place(n))

Digit(v, k) == (v \div Place(k)) % ByteSize

\* rev, rev16 and revsh, and the encoding between them that is illegal.
Reverse(s, i) ==
  LET v   == s.regs[i.rm]
      low == Digit(v, 1) + ByteSize * Digit(v, 0)
  IN  CASE i.half /\ i.signed  -> Set(s, i.rd, Extended(low, 2))
        [] i.half /\ ~i.signed ->
             Set(s, i.rd, low + Place(2) * (Digit(v, 3) + ByteSize * Digit(v, 2)))
        [] ~i.half /\ ~i.signed ->
             Set(s, i.rd, Digit(v, 3) + ByteSize * (Digit(v, 2)
                            + ByteSize * (Digit(v, 1) + ByteSize * Digit(v, 0))))
        [] OTHER -> Throw(s)

\* bx to an odd address throws: thumb code is not implemented.
BranchAndExchange(s, i) ==
  IF s.regs[i.rm] % 2 = 1 THEN Throw(s) ELSE Set(s, PC, s.regs[i.rm])

\* b and bl.  The link register gets the address after the branch.
Branch(s, i) ==
  Set(SetIf(i.link, s, LR, s.regs[PC] - WordBytes), PC, s.regs[PC] + i.n)

Executed(s, i, old) ==
  CASE i.kind = "single"     -> Single(s, i)
    [] i.kind = "halfword"   -> Halfword(s, i)
    [] i.kind = "doubleword" -> Doubleword(s, i)
    [] i.kind = "block"      -> Block(s, i, old)
    [] i.kind = "swap"       -> Swap(s, i)
    [] i.kind = "reverse"    -> Reverse(s, i)
    [] i.kind = "bx"         -> BranchAndExchange(s, i)
    [] i.kind = "branch"     -> Branch(s, i)

Old(i) == IF i \in Blocks THEN values[i] ELSE <<>>
-------------------------------------------------------------------------------
(* A frame is what a stm with write-back stored below, at or above the     *)
(* base: its bytes are lo..hi - 1 as the architecture has them.  It counts *)
(* while those bytes are as they were stored.                              *)
Frame(i, before) ==
  LET after == before + (IF i.up THEN 1 ELSE -1) * Length(i)
      shift == IF i.up = i.pre THEN WordBytes ELSE 0
  IN  [up |-> i.up, pre |-> i.pre, rn |-> i.rn, list |-> i.list,
       saved  |-> [r \in i.list |-> regs[r]],
       before |-> before,
       after  |-> after,
       lo     |-> (IF i.up THEN before ELSE after) + shift,
       hi     |-> (IF i.up THEN after ELSE before) + shift]

InSpace(lo, hi) == lo >= 0 /\ hi <= Size

IsPush(i, t) == i.kind = "block" /\ ~i.load /\ i.wb /\ ~t.thrown

Pushed(i, t) ==
  LET pushes == {j \in {i} : IsPush(j, t)}
  IN  {f \in {Frame(j, regs[j.rn]) : j \in pushes} : InSpace(f.lo, f.hi)}

Kept(m) == {f \in frames : \A a \in f.lo..f.hi - 1 : Byte(m, a) = Byte(mem, a)}

(* One instruction, and the prefetch of the next: two instructions anew    *)
(* when the pc was written, one when it was not or the execution threw.    *)
Execute(i) ==
  LET t == Executed(Start, i, Old(i))
  IN  /\ steps < MaxSteps
      /\ steps' = steps + 1
      /\ regs' = [t.regs EXCEPT ![PC] =
                    (@ + (IF t.jumped THEN 2 * WordBytes ELSE WordBytes)) % Size]
      /\ mem' = t.mem
      /\ values' = IF i \in Blocks /\ ~t.thrown
                   THEN [values EXCEPT ![i] = BlockValues(Start, i, @)]
                   ELSE values
      /\ frames' = Kept(t.mem) \cup Pushed(i, t)

\* The branch to itself that ends a program.
Loop == UNCHANGED vars

SingleDataTransfer     == \E i \in Instructions : i.kind = "single" /\ Execute(i)
HalfwordDataTransfer   == \E i \in Instructions : i.kind = "halfword" /\ Execute(i)
DoublewordDataTransfer == \E i \in Instructions : i.kind = "doubleword" /\ Execute(i)
BlockDataTransfer      == \E i \in Instructions : i.kind = "block" /\ Execute(i)
SingleDataSwap         == \E i \in Instructions : i.kind = "swap" /\ Execute(i)
ByteReverse            == \E i \in Instructions : i.kind = "reverse" /\ Execute(i)
Branches               == \E i \in Instructions : i.kind \in {"bx", "branch"} /\ Execute(i)

Next == \/ SingleDataTransfer
        \/ HalfwordDataTransfer
        \/ DoublewordDataTransfer
        \/ BlockDataTransfer
        \/ SingleDataSwap
        \/ ByteReverse
        \/ Branches
        \/ Loop

Spec == Init /\ [][Next]_vars
-------------------------------------------------------------------------------
\* The ldm that takes back what the stm of a frame stored.
Pop(f) == [kind |-> "block", load |-> TRUE, wb |-> TRUE, up |-> ~f.up, pre |-> ~f.pre,
           rn |-> f.rn, list |-> f.list]

(* Whatever a program does after it pushed registers, by any of the four   *)
(* kinds of stm, and however often it pushes again: as long as the bytes   *)
(* it pushed stay as they are and the base comes back to where the push    *)
(* left it, the opposite ldm restores the registers and the base, be the   *)
(* base or the pc among the registers or not.  A push across an end of the *)
(* address space is left out: its bytes go to addresses above 2^32 or      *)
(* below 0, where the base, truncated, does not lead back to.              *)
PopUndoesPush ==
  \A f \in frames : regs[f.rn] = f.after =>
    LET t == Executed(Start, Pop(f), <<>>)
    IN  /\ \A r \in f.list \ {f.rn} : t.regs[r] = f.saved[r]
        /\ t.regs[f.rn] = f.before

(* A ldr or str of one register at the base plus an offset. *)
OneWord(rn, rd, load, offset) ==
  [kind |-> "single", load |-> load, byte |-> FALSE, up |-> TRUE, pre |-> TRUE, wb |-> FALSE,
   rn |-> rn, rd |-> rd, offset |-> [by |-> "immediate", n |-> offset % Size]]

(* The block transfer i as a ldr or str of each register in turn, upwards  *)
(* from the lowest or downwards from the highest, with write-back.         *)
OneByOne(i) ==
  LET Turn(k) == IF i.up THEN k - 1 ELSE 16 - k
      Each(r) == [OneWord(i.rn, r, i.load, WordBytes) EXCEPT
                    !.up = i.up, !.pre = i.pre, !.wb = TRUE]
      after[k \in 0..16] == IF k = 0 THEN Start
                            ELSE IF Turn(k) \in i.list
                            THEN Single(after[k - 1], Each(Turn(k)))
                            ELSE after[k - 1]
  IN  IF i.wb THEN after[16] ELSE [after[16] EXCEPT !.regs[i.rn] = regs[i.rn]]

BlockIsOneByOne(i) ==
  LET lo == regs[i.rn] + StartOffset(i)
  IN  i.rn \notin i.list \cup {PC} /\ InSpace(lo, lo + Length(i))
        => Executed(Start, i, Old(i)) = OneByOne(i)

DoublewordIsTwoWords(i) ==
  LET t == Executed(Start, i, <<>>)
      offset == MemoryAddress(Start, i) - regs[i.rn]
      Loaded(k) == Single(Start, OneWord(i.rn, i.rd + k, TRUE, offset + k * WordBytes))
      stored == Single(Single(Start, OneWord(i.rn, i.rd, FALSE, offset)),
                       OneWord(i.rn, i.rd + 1, FALSE, offset + WordBytes))
  IN  ~t.thrown /\ InSpace(0, MemoryAddress(Start, i) + 2 * WordBytes) =>
        IF i.load
        THEN \A k \in 0..1 : \/ t.regs[i.rd + k] = Loaded(k).regs[i.rd + k]
                             \/ WritesBack(i) /\ i.rd + k = i.rn
        ELSE t.mem = stored.mem

SwapIsLoadAndStore(i) ==
  LET t == Executed(Start, i, <<>>)
      As(load, r) == Single(Start, [OneWord(i.rn, r, load, 0) EXCEPT !.byte = i.byte])
  IN  ~t.thrown => /\ t.regs = As(TRUE, i.rd).regs
                   /\ t.mem = As(FALSE, i.rm).mem

(* Inside the address space a block transfer does to registers and memory  *)
(* what single transfers of its registers would do one after another, in   *)
(* each of the four addressing modes; a doubleword transfer does what two  *)
(* would do, and a swap what a load and a store of the same state would.   *)
AsSingleTransfers ==
  \A i \in Instructions :
    /\ i.kind = "block" => BlockIsOneByOne(i)
    /\ i.kind = "doubleword" => DoublewordIsTwoWords(i)
    /\ i.kind = "swap" => SwapIsLoadAndStore(i)

(* An instruction that throws, when the host goes on with the next, has    *)
(* changed no register and nothing in the guest's memory: no write-back    *)
(* without the transfer.  A halfword store that runs over the last address *)
(* of the 64-bit space may have stored its first byte there.               *)
ThrowsBeforeEffect ==
  \A i \in Instructions :
    LET t == Executed(Start, i, Old(i))
    IN  t.thrown => /\ t.regs = regs
                    /\ \A a \in 0..Size - 1 : Byte(t.mem, a) = Byte(mem, a)
===============================================================================
