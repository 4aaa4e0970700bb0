------------------------------- MODULE Machine -------------------------------
(***************************************************************************)
(* Arm::Machine of src/emuballs/armmachine.cpp: the CPU cycle with its     *)
(* two-instruction prefetch queue, and what the host may do to the machine *)
(* between two cycles (reset it, edit the pc, write its memory).           *)
(*                                                                         *)
(* Addresses count bytes, and the pc can be any of them: nothing aligns it *)
(* (bx rejects bit 0 only, mov pc and the host write what they like).  An  *)
(* instruction is InstructionSize bytes, and is of one of five kinds, told *)
(* apart by what they do to the pipeline; where a jump goes, and what a    *)
(* store puts where, are left open.                                        *)
(*                                                                         *)
(* cycle() is two kinds of step: a Fetch for every word that Prefetch      *)
(* pushes, then one step that pops, decodes and executes.  The queue is a  *)
(* sequence here; ArrayQueue is shown to implement it.                     *)
(***************************************************************************)
EXTENDS Integers, Sequences

CONSTANTS Byte,             \* the values of a byte
          MemSize,          \* bytes in the address space of the 32-bit pc
          PageSize,         \* bytes in a Memory page
          InstructionSize,  \* INSTRUCTION_SIZE, 4 in the code
          Kind,             \* the kind of every instruction
          Entry,            \* the pc after PiDevice::reset, 0x8000 in the code
          Programs,         \* the memories the machine may start with
          Puts,             \* what one store or one write of the host puts in
                            \* memory: a function from some addresses to bytes
          MaxWrites         \* bound: memory writes in one behaviour

Addr == 0..MemSize - 1

Instruction == [0..InstructionSize - 1 -> Byte]

(* alu: executes without touching pc or memory; jump: writes the pc (b,    *)
(* bx, mov pc, ldm {pc}); store: writes memory; trap: its execution throws *)
(* (bx to thumb); undef: its decoding throws.                              *)
Kinds == {"alu", "jump", "store", "trap", "undef"}

NoPage == -1          \* memptr == nullptr
PrefetchInstructions == 2

ASSUME MemAssumption == /\ MemSize \in Nat \ {0}
                        /\ PageSize \in Nat \ {0}
                        /\ MemSize % PageSize = 0
                        /\ InstructionSize \in 1..MemSize
                        /\ Kind \in [Instruction -> Kinds]
                        /\ Entry \in Addr
                        /\ Programs \subseteq [Addr -> Byte]
                        /\ \A s \in Puts : /\ DOMAIN s \subseteq Addr
                                            /\ \A a \in DOMAIN s : s[a] \in Byte
                        /\ MaxWrites \in Nat

VARIABLES mem,        \* the byte at every address
          pc,         \* register 15
          pcChanged,  \* RegisterSet::pcChanged
          queue,      \* prefetchedInstructions, each with where it came from
          membase,    \* base address of the page that memptr points into
          fetching,   \* a cycle() is under way
          \* History, for the properties only:
          ip,         \* the address whose turn it is in program order
          hostMoved,  \* the host moved the pc and no instruction ran since
          written,    \* addresses written since the last instruction was popped
          strays,     \* instructions executed out of turn since the host moved the pc
          writes      \* memory writes so far, up to MaxWrites

cpu     == <<pc, pcChanged, queue, membase, fetching>>
history == <<ip, hostMoved, written, strays, writes>>
vars    == <<mem, cpu, history>>

\* A pc that never wraps, for the properties to notice.
SuccUnbounded(a) == a + InstructionSize

Succ(a) == IF a + InstructionSize < MemSize THEN a + InstructionSize
                                            ELSE a + InstructionSize - MemSize

PageOf(a) == a - (a % PageSize)

Init == /\ mem \in Programs
        /\ pc = Entry
        /\ pcChanged = TRUE            \* PiDevice's constructor has reset it
        /\ queue = <<>>
        /\ membase = NoPage
        /\ fetching = FALSE
        /\ ip = Entry
        /\ hostMoved = FALSE
        /\ written = {}
        /\ strays = 0
        /\ writes = 0
-------------------------------------------------------------------------------
(* Prefetch.  The page pointer is kept while pc - membase <= pageSize, in  *)
(* unsigned arithmetic: the instruction that follows the last one of the   *)
(* page is still read through it.  That one, and the end of an instruction *)
(* that straddles two pages, lie behind the end of the page's buffer: any  *)
(* value may come back for such a byte.                                    *)
KeepsPageForever == membase # NoPage /\ membase <= pc

KeepsPage == membase # NoPage /\ membase <= pc /\ pc - membase <= PageSize

BaseForFetch == IF KeepsPage THEN membase ELSE PageOf(pc)

\* The bytes that the read at memptr + pageOffset can bring.
Fetched == {w \in Instruction :
              \A k \in DOMAIN w :
                pc + k - BaseForFetch < PageSize => w[k] = mem[pc + k]}

\* One turn of the loop of Prefetch::collect.
Fetch == /\ Len(queue) < PrefetchInstructions
         /\ \E w \in Fetched : queue' = Append(queue, [addr |-> pc, word |-> w])
         /\ membase' = BaseForFetch
         /\ pc' = Succ(pc)
         /\ pcChanged' = TRUE
         /\ fetching' = TRUE
         /\ UNCHANGED <<mem, history>>
-------------------------------------------------------------------------------
(* The rest of the cycle, once the queue is full: pop, decode, execute.    *)
Popped == Head(queue)
PoppedKind == Kind[Popped.word]

\* The queue after an execution that did or did not write the pc.
FlushNever(changed) == Tail(queue)
FlushOnKept(changed) == IF changed THEN Tail(queue) ELSE <<>>
Flushed(changed) == IF changed THEN <<>> ELSE Tail(queue)

\* The popped word is not the next one of the program: the host moved the pc
\* after it was fetched.
Stray == hostMoved \/ Popped.addr # ip

(* Every cycle ends with this: the popped word is gone, whatever became of *)
(* it, and `next` is where the program goes on if it was its turn or if it *)
(* wrote the pc.                                                           *)
EndCycle(jumped, next) ==
  /\ fetching' = FALSE
  /\ hostMoved' = FALSE
  /\ ip' = IF Stray /\ ~jumped THEN ip ELSE next
  /\ strays' = IF Stray THEN strays + 1 ELSE strays
  /\ UNCHANGED membase

\* Decoding throws OpDecodeError or IllegalOpcodeError: pcChanged is not reset.
DecodeFails == /\ Len(queue) = PrefetchInstructions
               /\ PoppedKind = "undef"
               /\ queue' = Tail(queue)
               /\ EndCycle(FALSE, Succ(ip))
               /\ written' = {}
               /\ UNCHANGED <<mem, pc, pcChanged, writes>>

\* execute() throws before it changes anything: no flush is considered.
ExecuteFails == /\ Len(queue) = PrefetchInstructions
                /\ PoppedKind = "trap"
                /\ pcChanged' = FALSE
                /\ queue' = Tail(queue)
                /\ EndCycle(FALSE, Succ(ip))
                /\ written' = {}
                /\ UNCHANGED <<mem, pc, writes>>

\* An instruction that leaves pc and memory alone, or whose condition is not met.
ExecutePlain == /\ Len(queue) = PrefetchInstructions
                /\ PoppedKind # "undef"
                /\ pcChanged' = FALSE
                /\ queue' = Flushed(FALSE)
                /\ EndCycle(FALSE, Succ(ip))
                /\ written' = {}
                /\ UNCHANGED <<mem, pc, writes>>

ExecuteJump(target) == /\ Len(queue) = PrefetchInstructions
                       /\ PoppedKind = "jump"
                       /\ pc' = target
                       /\ pcChanged' = TRUE
                       /\ queue' = Flushed(TRUE)
                       /\ EndCycle(TRUE, target)
                       /\ written' = {}
                       /\ UNCHANGED <<mem, writes>>

\* The memory, once s has been put over it.
With(s) == [a \in Addr |-> IF a \in DOMAIN s THEN s[a] ELSE mem[a]]

ExecuteStore(s) == /\ Len(queue) = PrefetchInstructions
                   /\ PoppedKind = "store"
                   /\ writes < MaxWrites
                   /\ mem' = With(s)
                   /\ pcChanged' = FALSE
                   /\ queue' = Flushed(FALSE)
                   /\ EndCycle(FALSE, Succ(ip))
                   /\ written' = DOMAIN s
                   /\ writes' = writes + 1
                   /\ UNCHANGED pc
-------------------------------------------------------------------------------
(* The host, between two calls of cycle().  Neither a reset nor an edit of *)
(* the pc reaches the prefetch queue.                                      *)
MovePc(a) == /\ ~fetching
             /\ pc' = a
             /\ pcChanged' = TRUE
             /\ ip' = a
             /\ hostMoved' = (queue # <<>>)
             /\ strays' = 0
             /\ UNCHANGED <<mem, queue, membase, fetching, written, writes>>

\* The pc part of PiDevice::reset: the rest of the machine is kept.
Reset == MovePc(Entry)

\* NamedRegisterSet::setReg("pc", a), an edit in the registers view.
SetPc(a) == MovePc(a)

\* A write to the untracked memory: ProgrammerPi::load, the memory editor.
Poke(s) == /\ ~fetching
           /\ writes < MaxWrites
           /\ mem' = With(s)
           /\ written' = written \cup DOMAIN s
           /\ writes' = writes + 1
           /\ UNCHANGED <<cpu, ip, hostMoved, strays>>

Cycle == \/ Fetch
         \/ DecodeFails
         \/ ExecuteFails
         \/ ExecutePlain
         \/ \E a \in Addr : ExecuteJump(a)
         \/ \E s \in Puts : ExecuteStore(s)

Host == \/ Reset
        \/ \E a \in Addr : SetPc(a)
        \/ \E s \in Puts : Poke(s)

Next == Cycle \/ Host

Spec == Init /\ [][Next]_vars
-------------------------------------------------------------------------------
(* Types; and between cycles the queue has room for the next fetch, so     *)
(* that push never throws and pop never finds it empty.                    *)
TypeOK == /\ mem \in [Addr -> Byte]
          /\ pc \in Addr /\ ip \in Addr
          /\ pcChanged \in BOOLEAN /\ fetching \in BOOLEAN /\ hostMoved \in BOOLEAN
          /\ queue \in Seq([addr : Addr, word : Instruction])
          /\ Len(queue) <= PrefetchInstructions
          /\ ~fetching => Len(queue) < PrefetchInstructions
          /\ membase \in {NoPage} \cup {a \in Addr : a % PageSize = 0}
          /\ written \subseteq Addr
          /\ strays \in Nat
          /\ writes \in 0..MaxWrites

(* Whatever is decoded, executed, thrown or flushed, the next word to leave *)
(* the queue is the next one of the program, and none is skipped or run     *)
(* twice: unless the host moved the pc, after which only the one word that  *)
(* was left in the queue is out of turn.                                    *)
InOrder ==
  /\ Len(queue) = 0 => pc = ip /\ ~hostMoved
  /\ Len(queue) = 1 /\ hostMoved => pc = ip
  /\ Len(queue) >= 1 /\ ~hostMoved => queue[1].addr = ip
  /\ Len(queue) = 2 => queue[2].addr = IF hostMoved THEN ip ELSE Succ(ip)

(* The pc an instruction reads is its own address plus 8, and the address   *)
(* that cycle() decodes it at is its own: the pc runs ahead of the newest   *)
(* fetched word by exactly one, and of the oldest by the queue's length.    *)
VisiblePc ==
  /\ Len(queue) = 1 /\ ~hostMoved => pc = Succ(queue[1].addr)
  /\ Len(queue) = 2 => pc = Succ(queue[2].addr)
  /\ Len(queue) = 2 /\ ~hostMoved => queue[2].addr = Succ(queue[1].addr)

(* A move of the pc by the host is followed by at most one instruction of   *)
(* the old program before the pipeline is back in step.                     *)
OneStray == strays <= 1

(* A byte that the code may have read behind the end of a page's buffer:    *)
(* of the instruction at a page's first address, for which the pointer to   *)
(* the page before it may have been kept, or past the end of the page that  *)
(* the instruction starts in.                                               *)
BehindPage(a, k) == a % PageSize = 0 \/ (a % PageSize) + k >= PageSize

(* Self-modifying code is seen one instruction late at most: every byte of  *)
(* a queued instruction is what memory holds, or its address was written    *)
(* since the last pop, or it was read behind the end of a page's buffer.    *)
PrefetchFresh ==
  \A i \in 1..Len(queue) : \A k \in 0..InstructionSize - 1 :
    LET a == queue[i].addr
    IN \/ BehindPage(a, k)
       \/ queue[i].word[k] = mem[a + k]
       \/ a + k \in written

(* include/emuballs/memory.hpp:66 limits a pointer into memory to the rest  *)
(* of its page: a fetched instruction that lies on one page would be the    *)
(* one memory holds.                                                        *)
FetchWithinPage ==
  \A i \in 1..Len(queue) : \A k \in 0..InstructionSize - 1 :
    LET a == queue[i].addr
    IN (a % PageSize) + InstructionSize <= PageSize =>
         queue[i].word[k] = mem[a + k] \/ a + k \in written
==============================================================================
