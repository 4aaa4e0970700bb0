----------------------------- MODULE MachineProofs -----------------------------
(***************************************************************************)
(* The pipeline invariants of Machine for every memory size, page size,    *)
(* program and number of writes: program order, the visible pc, the single *)
(* stray after the host moved the pc, and the age of a prefetched word;    *)
(* and its instruction queue, for every capacity.                          *)
(***************************************************************************)
EXTENDS Machine, ArrayQueue, SequenceTheorems, TLAPS

-------------------------------------------------------------------------------
(* Page arithmetic. *)

(* A number is its quotient times the divisor, plus its remainder.         *)
LEMMA Quotient ==
  ASSUME NEW x \in Nat, NEW n \in Nat \ {0}
  PROVE  /\ x \div n \in Nat /\ x % n \in 0..n - 1
         /\ x = n * (x \div n) + (x % n)
  BY SMTT(20)

(* Multiples of n are in the order of their factors.                       *)
LEMMA Multiples ==
  ASSUME NEW q \in Int, NEW t \in Int, NEW n \in Nat \ {0}, n * q < n * t
  PROVE  n * q + n <= n * t
<1>1. t <= q => n * t <= n * q
  BY SMTT(20)
<1>2. n * q \in Int /\ n * t \in Int
  BY SMT
<1>3. q + 1 <= t
  BY <1>1, <1>2
<1>4. n * (q + 1) <= n * t
  BY <1>3, SMTT(20)
<1>5. n * (q + 1) = n * q + n
  BY SMT
<1> QED
  BY <1>4, <1>5

(* What is left of a number after a multiple of n below it is its          *)
(* remainder, if it is less than n.                                        *)
LEMMA Remainder ==
  ASSUME NEW n \in Nat \ {0}, NEW x \in Nat, NEW b \in Nat,
         b % n = 0, b <= x, x - b < n
  PROVE  x % n = x - b
<1> DEFINE q == b \div n  t == x \div n  u == n * q  v == n * t
<1>1. /\ q \in Nat /\ t \in Nat /\ u \in Nat /\ v \in Nat
      /\ b = u /\ x = v + (x % n) /\ x % n \in 0..n - 1
  <2>1. q \in Nat /\ b = u + 0
    BY Quotient
  <2>2. t \in Nat /\ x % n \in 0..n - 1 /\ x = v + (x % n)
    BY Quotient
  <2>3. \A i \in Nat : n * i \in Nat
    BY SMT
  <2>4. u \in Nat /\ v \in Nat
    BY <2>1, <2>2, <2>3
  <2> HIDE DEF u, v, q, t
  <2> QED
    BY <2>1, <2>2, <2>4
<1>2. u < v => u + n <= v
  <2> HIDE DEF q, t
  <2> QED
    BY <1>1, Multiples
<1>3. v < u => v + n <= u
  <2> HIDE DEF q, t
  <2> QED
    BY <1>1, Multiples
<1> HIDE DEF u, v
<1> QED
  BY <1>1, <1>2, <1>3

\* The address after a page is the start of a page.
LEMMA NextPage ==
  ASSUME NEW P \in Nat \ {0}, NEW a \in Nat, a % P = 0
  PROVE  (a + P) % P = 0
<1>1. a = P * (a \div P) /\ a \div P \in Nat
  BY Quotient
<1>2. PICK q \in Nat : a = P * q
  BY <1>1
<1>3. a + P = P * (q + 1)
  BY <1>2
<1>4. (P * (q + 1)) % P = 0
  BY SMT
<1> QED
  BY <1>3, <1>4

\* The base of an address's page is a page start, at most a page below it.
LEMMA PageOfProperties ==
  ASSUME NEW a \in Addr
  PROVE  /\ PageOf(a) \in Addr
         /\ PageOf(a) % PageSize = 0
         /\ PageOf(a) <= a /\ a - PageOf(a) < PageSize
<1> DEFINE P == PageSize
<1>0. P \in Nat \ {0} /\ a \in Nat /\ a <= MemSize - 1 /\ MemSize \in Nat
  BY MemAssumption DEF Addr
<1>1. a \div P \in Nat /\ a % P \in 0..P - 1 /\ a = P * (a \div P) + (a % P)
  BY <1>0, Quotient
<1>2. P * (a \div P) \in Nat
  BY <1>0, <1>1, SMT
<1>3. PageOf(a) = P * (a \div P)
  BY <1>0, <1>1, <1>2 DEF PageOf
<1>4. PageOf(a) % P = 0
  <2>1. \A q \in Nat : (P * q) % P = 0
    BY <1>0, SMT
  <2> QED
    BY <1>1, <1>3, <2>1
<1>5. PageOf(a) \in Addr /\ PageOf(a) <= a /\ a - PageOf(a) < P
  BY <1>0, <1>1, <1>2, <1>3 DEF PageOf, Addr
<1> QED
  BY <1>4, <1>5

(* A byte of the page that an address lies in is in memory: a page is      *)
(* either whole or absent.                                                 *)
LEMMA RestOfPage ==
  ASSUME NEW a \in Addr, NEW k \in Nat, (a % PageSize) + k < PageSize
  PROVE  a + k \in Addr
<1> DEFINE P == PageSize  q == a \div P  t == MemSize \div P  u == P * q  v == P * t
<1>0. P \in Nat \ {0} /\ a \in Nat /\ a < MemSize /\ MemSize \in Nat /\ MemSize % P = 0
  BY MemAssumption DEF Addr
<1>1. /\ q \in Nat /\ t \in Nat /\ u \in Nat /\ v \in Nat
      /\ a = u + (a % P) /\ a % P \in 0..P - 1 /\ MemSize = v
  <2>1. q \in Nat /\ a % P \in 0..P - 1 /\ a = u + (a % P)
    BY <1>0, Quotient
  <2>2. t \in Nat /\ MemSize = v + 0
    BY <1>0, Quotient
  <2>3. \A i \in Nat : P * i \in Nat
    BY <1>0, SMT
  <2>4. u \in Nat /\ v \in Nat
    BY <2>1, <2>2, <2>3
  <2> HIDE DEF u, v, q, t
  <2> QED
    BY <1>0, <2>1, <2>2, <2>4
<1>2. u < v
  BY <1>0, <1>1
<1>3. u + P <= v
  <2> HIDE DEF q, t
  <2> QED
    BY <1>0, <1>1, <1>2, Multiples
<1> HIDE DEF u, v
<1> QED
  BY <1>0, <1>1, <1>3 DEF Addr

(* The pc wraps around inside the address space.                           *)
LEMMA SuccType == \A a \in Addr : Succ(a) \in Addr
  BY MemAssumption DEF Addr, Succ
-------------------------------------------------------------------------------
(* What a fetched instruction can be. *)

\* Every byte of a queued instruction is the memory's, or was read behind a page.
Current(e) == \A k \in 0..InstructionSize - 1 :
                BehindPage(e.addr, k) \/ e.word[k] = mem[e.addr + k]

QueueWord == [addr : Addr, word : Instruction]

(* It is the memory's, but for what lies behind the page's buffer.         *)
LEMMA FetchedWord ==
  ASSUME TypeOK, NEW w \in Fetched
  PROVE  /\ w \in Instruction
         /\ Current([addr |-> pc, word |-> w])
         /\ BaseForFetch \in {a \in Addr : a % PageSize = 0}
<1>0. /\ pc \in Addr /\ pc \in Nat /\ PageSize \in Nat \ {0}
      /\ InstructionSize \in Nat
  BY MemAssumption DEF TypeOK, Addr
<1>1. w \in Instruction /\ DOMAIN w = 0..InstructionSize - 1
  BY DEF Fetched, Instruction
<1>2. /\ BaseForFetch \in Addr /\ BaseForFetch \in Nat /\ BaseForFetch % PageSize = 0
      /\ BaseForFetch <= pc /\ pc - BaseForFetch <= PageSize
  <2>1. CASE KeepsPage
    BY <1>0, <2>1 DEF TypeOK, KeepsPage, BaseForFetch, Addr
  <2>2. CASE ~KeepsPage
    BY <1>0, <2>2, PageOfProperties DEF BaseForFetch, Addr
  <2> QED
    BY <2>1, <2>2
<1>3. ASSUME NEW k \in 0..InstructionSize - 1
      PROVE  BehindPage(pc, k) \/ w[k] = mem[pc + k]
  <2>1. CASE pc - BaseForFetch = PageSize
    <3>1. pc = BaseForFetch + PageSize
      BY <1>0, <1>2, <2>1
    <3>2. pc % PageSize = 0
      BY <1>0, <1>2, <3>1, NextPage
    <3> QED
      BY <3>2 DEF BehindPage
  <2>2. CASE pc - BaseForFetch # PageSize
    <3>0. pc - BaseForFetch < PageSize
      BY <1>0, <1>2, <2>2
    <3>1. pc % PageSize = pc - BaseForFetch
      BY <1>0, <1>2, <3>0, Remainder
    <3>2. pc + k - BaseForFetch < PageSize => w[k] = mem[pc + k]
      BY <1>1 DEF Fetched
    <3> QED
      BY <1>0, <1>2, <3>1, <3>2 DEF BehindPage
  <2> QED
    BY <2>1, <2>2
<1>4. Current([addr |-> pc, word |-> w])
  BY <1>3 DEF Current
<1> QED
  BY <1>1, <1>2, <1>4
-------------------------------------------------------------------------------
(* The two queue operations that a cycle needs, on queues of two words. *)

(* What push does to a queue that has room.                                *)
LEMMA PushQueue ==
  ASSUME NEW q \in Seq(QueueWord), Len(q) < 2, NEW e \in QueueWord
  PROVE  /\ Append(q, e) \in Seq(QueueWord)
         /\ Len(Append(q, e)) = Len(q) + 1
         /\ q = <<>> => Append(q, e)[1] = e
         /\ Len(q) = 1 => Append(q, e)[1] = q[1] /\ Append(q, e)[2] = e
         /\ q = <<>> <=> Len(q) = 0
  OBVIOUS

(* What pop does to a full queue.                                          *)
LEMMA PopQueue ==
  ASSUME NEW q \in Seq(QueueWord), Len(q) = 2
  PROVE  /\ Head(q) = q[1] /\ q[1] \in QueueWord /\ q[2] \in QueueWord
         /\ Tail(q) \in Seq(QueueWord)
         /\ Len(Tail(q)) = 1
         /\ Tail(q)[1] = q[2]
<1>1. q # <<>>
  OBVIOUS
<1>2. /\ Tail(q) \in Seq(QueueWord) /\ Len(Tail(q)) = 1
      /\ \A i \in 1..Len(Tail(q)) : Tail(q)[i] = q[i + 1]
  BY <1>1, HeadTailProperties
<1>3. Tail(q)[1] = q[2]
  BY <1>2
<1>4. Head(q) = q[1] /\ q[1] \in QueueWord /\ q[2] \in QueueWord
  BY <1>1
<1>5. Tail(q) \in Seq(QueueWord) /\ Len(Tail(q)) = 1
  BY <1>2
<1> HIDE DEF QueueWord
<1> QED
  BY <1>3, <1>4, <1>5, Zenon
-------------------------------------------------------------------------------
(* The inductive invariant.  A stray count above zero means that the host  *)
(* moved the pc and that the word it left in the queue is gone, so before  *)
(* it is popped the count is zero.                                         *)
StrayCount == hostMoved => strays = 0

\* The instruction fetched last is still what memory holds: nothing is written
\* in the middle of a cycle.
NewestFresh == Len(queue) = 2 => Current(queue[2])

PipelineInv == TypeOK /\ InOrder /\ VisiblePc /\ OneStray /\ StrayCount

IndInv == PipelineInv /\ PrefetchFresh /\ NewestFresh

(* A device just constructed satisfies the invariant.                      *)
LEMMA InitInv == Init => IndInv
<1> SUFFICES ASSUME Init PROVE IndInv
  OBVIOUS
<1>1. queue = <<>> /\ Len(queue) = 0
  BY DEF Init
<1>2. TypeOK
  <2>1. queue \in Seq([addr : Addr, word : Instruction])
    BY DEF Init
  <2>2. Len(queue) <= PrefetchInstructions /\ Len(queue) < PrefetchInstructions
    BY <1>1 DEF PrefetchInstructions
  <2>3. mem \in [Addr -> Byte] /\ pc \in Addr /\ ip \in Addr /\ writes \in 0..MaxWrites
    BY MemAssumption DEF Init
  <2> QED
    BY <2>1, <2>2, <2>3 DEF Init, TypeOK
<1>3. InOrder /\ VisiblePc /\ OneStray /\ StrayCount
  BY <1>1 DEF Init, InOrder, VisiblePc, OneStray, StrayCount
<1>4. PrefetchFresh /\ NewestFresh
  BY <1>1 DEF PrefetchFresh, NewestFresh
<1> QED
  BY <1>2, <1>3, <1>4 DEF IndInv, PipelineInv

(* A prefetch keeps the invariant.                                         *)
LEMMA FetchInv == ASSUME IndInv, Fetch PROVE IndInv'
<1> PICK w \in Fetched : queue' = Append(queue, [addr |-> pc, word |-> w])
  BY DEF Fetch
<1> DEFINE e == [addr |-> pc, word |-> w]
<1>1. /\ w \in Instruction
      /\ Current(e)
      /\ BaseForFetch \in {a \in Addr : a % PageSize = 0}
  BY FetchedWord DEF IndInv, PipelineInv
<1>2. /\ pc \in Addr /\ ip \in Addr /\ e \in QueueWord
      /\ queue \in Seq(QueueWord) /\ Len(queue) < 2 /\ Len(queue) \in {0, 1}
  <2>1. pc \in Addr /\ ip \in Addr /\ queue \in Seq(QueueWord)
    BY DEF IndInv, PipelineInv, TypeOK, QueueWord
  <2>2. e \in QueueWord
    BY <1>1, <2>1 DEF QueueWord
  <2>3. Len(queue) < 2 /\ Len(queue) \in Nat
    BY <2>1 DEF Fetch, PrefetchInstructions
  <2>4. Len(queue) \in {0, 1}
    BY <2>3
  <2> QED
    BY <2>1, <2>2, <2>3, <2>4
<1>3. /\ queue' \in Seq(QueueWord)
      /\ Len(queue') = Len(queue) + 1
      /\ queue = <<>> => queue'[1] = e
      /\ Len(queue) = 1 => queue'[1] = queue[1] /\ queue'[2] = e
      /\ queue = <<>> <=> Len(queue) = 0
  BY <1>2, PushQueue
<1>4. Succ(pc) \in Addr
  BY <1>2, SuccType
<1>5. TypeOK'
  <2>1. Len(queue') <= PrefetchInstructions
    BY <1>2, <1>3 DEF PrefetchInstructions
  <2> QED
    BY <1>1, <1>2, <1>3, <1>4, <2>1
    DEF IndInv, PipelineInv, TypeOK, Fetch, history, QueueWord
<1>6. InOrder'
  <2>1. CASE queue = <<>>
    BY <1>2, <1>3, <2>1 DEF IndInv, PipelineInv, InOrder, Fetch, history
  <2>2. CASE Len(queue) = 1
    <3>1. ip' = ip /\ hostMoved' = hostMoved /\ pc' = Succ(pc)
      BY DEF Fetch, history
    <3>2. queue[1].addr = ip \/ hostMoved
      BY <2>2 DEF IndInv, PipelineInv, InOrder
    <3>3. pc = IF hostMoved THEN ip ELSE Succ(ip)
      BY <2>2, <3>2 DEF IndInv, PipelineInv, TypeOK, InOrder, VisiblePc
    <3> QED
      BY <1>2, <1>3, <2>2, <3>1, <3>2, <3>3 DEF InOrder, Succ
  <2> QED
    BY <1>2, <1>3, <2>1, <2>2
<1>7. VisiblePc'
  BY <1>2, <1>3 DEF IndInv, PipelineInv, InOrder, VisiblePc, Fetch, history
<1>8. OneStray' /\ StrayCount'
  BY DEF IndInv, PipelineInv, OneStray, StrayCount, Fetch, history
<1>9. PrefetchFresh'
  <2> SUFFICES ASSUME NEW i \in 1..Len(queue'), NEW k \in 0..InstructionSize - 1
               PROVE  \/ BehindPage(queue'[i].addr, k)
                      \/ queue'[i].word[k] = mem[queue'[i].addr + k]
                      \/ queue'[i].addr + k \in written
    BY DEF PrefetchFresh, BehindPage, Fetch, history
  <2>1. CASE i = Len(queue) + 1
    <3>1. queue'[i] = e
      BY <1>2, <1>3, <2>1
    <3> QED
      BY <1>1, <3>1 DEF Current
  <2>2. CASE i # Len(queue) + 1
    <3>1. Len(queue) = 1 /\ i = 1
      BY <1>2, <1>3, <2>2
    <3> QED
      BY <1>3, <3>1 DEF IndInv, PrefetchFresh
  <2> QED
    BY <2>1, <2>2
<1>10. NewestFresh'
  <2>1. Len(queue') = 2 => queue'[2] = e
    BY <1>2, <1>3
  <2>2. mem' = mem
    BY DEF Fetch
  <2> QED
    BY <1>1, <2>1, <2>2 DEF NewestFresh, Current, BehindPage
<1> QED
  BY <1>5, <1>6, <1>7, <1>8, <1>9, <1>10 DEF IndInv, PipelineInv

(* What the invariant says of the queue, word by word.                     *)
LEMMA Queue ==
  ASSUME IndInv
  PROVE  /\ queue \in Seq(QueueWord)
         /\ Len(queue) \in {0, 1, 2}
         /\ queue = <<>> <=> Len(queue) = 0
         /\ ~fetching => Len(queue) \in {0, 1}
<1>1. /\ queue \in Seq(QueueWord) /\ Len(queue) <= 2
      /\ ~fetching => Len(queue) < 2
  BY DEF IndInv, PipelineInv, TypeOK, QueueWord, PrefetchInstructions
<1>2. Len(queue) \in Nat
  BY <1>1
<1>3. queue = <<>> <=> Len(queue) = 0
  BY <1>1
<1>4. Len(queue) \in {0, 1, 2}
  <2>1. \A n \in Nat : n <= 2 => n \in {0, 1, 2}
    OBVIOUS
  <2> QED
    BY <1>1, <1>2, <2>1, Zenon
<1>5. ~fetching => Len(queue) \in {0, 1}
  BY <1>1, <1>2
<1> QED
  BY <1>1, <1>3, <1>4, <1>5

\* What the steps that end a cycle without a jump have in common.
Retires(W) == /\ Len(queue) = PrefetchInstructions
              /\ queue' = Tail(queue)
              /\ EndCycle(FALSE, Succ(ip))
              /\ pc' = pc
              /\ written' = W
              /\ pcChanged' \in BOOLEAN

\* The queue that such a step leaves.
LEMMA RetiresQueue ==
  ASSUME IndInv, NEW W, Retires(W)
  PROVE  /\ Popped = queue[1] /\ Len(queue) = 2
         /\ queue[2] \in QueueWord
         /\ queue' \in Seq(QueueWord) /\ Len(queue') = 1 /\ queue'[1] = queue[2]
<1>1. queue \in Seq(QueueWord) /\ Len(queue) = 2
  BY Queue DEF Retires, PrefetchInstructions
<1> QED
  BY <1>1, PopQueue DEF Retires, Popped

(* The second queued word, which such a step leaves, is next in program    *)
(* order whether or not the popped one was.                                *)
LEMMA RetiresInv ==
  ASSUME IndInv, NEW W, W \subseteq Addr, Retires(W),
         mem' \in [Addr -> Byte], writes' \in 0..MaxWrites,
         \A a \in Addr \ W : mem'[a] = mem[a]
  PROVE  IndInv'
<1>1. /\ Popped = queue[1] /\ Len(queue) = 2 /\ queue[2] \in QueueWord
      /\ queue' \in Seq(QueueWord) /\ Len(queue') = 1 /\ queue'[1] = queue[2]
  BY RetiresQueue
<1>2. pc \in Addr /\ ip \in Addr /\ strays \in Nat /\ hostMoved \in BOOLEAN
  BY DEF IndInv, PipelineInv, TypeOK
<1>3. ~hostMoved' /\ ~fetching' /\ membase' = membase /\ pc' = pc /\ written' = W
  BY DEF Retires, EndCycle
<1>4. Stray <=> hostMoved
  BY <1>1 DEF IndInv, PipelineInv, InOrder, Stray
<1>5. ip' = queue[2].addr /\ ip' \in Addr
  BY <1>1, <1>2, <1>4, SuccType DEF IndInv, PipelineInv, InOrder, Retires, EndCycle
<1>6. strays' \in Nat /\ strays' <= 1
  BY <1>2, <1>4
  DEF IndInv, PipelineInv, OneStray, StrayCount, Retires, EndCycle
<1>7. TypeOK'
  <2>1. Len(queue') <= PrefetchInstructions /\ Len(queue') < PrefetchInstructions
    BY <1>1 DEF PrefetchInstructions
  <2>2. hostMoved' \in BOOLEAN /\ fetching' \in BOOLEAN /\ pcChanged' \in BOOLEAN
    BY DEF Retires, EndCycle
  <2> QED
    BY <1>1, <1>2, <1>3, <1>5, <1>6, <2>1, <2>2
    DEF IndInv, PipelineInv, TypeOK, QueueWord
<1>8. InOrder'
  BY <1>1, <1>3, <1>5 DEF InOrder
<1>9. VisiblePc'
  BY <1>1, <1>3 DEF IndInv, PipelineInv, VisiblePc, Succ
<1>10. PrefetchFresh' /\ NewestFresh'
  <2>1. Current(queue[2])
    BY <1>1 DEF IndInv, NewestFresh
  <2>2. queue[2].addr \in Addr
    BY <1>1 DEF QueueWord
  <2>3. PrefetchFresh'
    <3> SUFFICES ASSUME NEW k \in 0..InstructionSize - 1, ~BehindPage(queue[2].addr, k)
                 PROVE  \/ queue[2].word[k] = mem'[queue[2].addr + k]
                        \/ queue[2].addr + k \in W
      BY <1>1, <1>3 DEF PrefetchFresh, BehindPage
    <3>1. k \in Nat /\ (queue[2].addr % PageSize) + k < PageSize
      BY <2>2, MemAssumption DEF BehindPage, Addr
    <3>2. queue[2].addr + k \in Addr
      BY <2>2, <3>1, RestOfPage
    <3>3. queue[2].word[k] = mem[queue[2].addr + k]
      BY <2>1 DEF Current
    <3> QED
      BY <3>2, <3>3
  <2>4. Len(queue') # 2
    BY <1>1
  <2>5. NewestFresh'
    BY <2>4, Zenon DEF NewestFresh
  <2> QED
    BY <2>3, <2>5
<1> QED
  BY <1>3, <1>6, <1>7, <1>8, <1>9, <1>10 DEF IndInv, PipelineInv, OneStray, StrayCount

(* An instruction that writes the pc keeps the invariant: the queue is     *)
(* flushed.                                                                *)
LEMMA JumpInv == ASSUME IndInv, NEW t \in Addr, ExecuteJump(t) PROVE IndInv'
<1>1. Len(queue) = 2 /\ Popped = queue[1]
  BY Queue, PopQueue DEF ExecuteJump, PrefetchInstructions, Popped
<1>2. /\ queue' = <<>> /\ pc' = t /\ ip' = t /\ ~hostMoved' /\ ~fetching'
      /\ membase' = membase /\ mem' = mem /\ writes' = writes /\ written' = {}
      /\ pcChanged' \in BOOLEAN /\ fetching' \in BOOLEAN /\ hostMoved' \in BOOLEAN
  BY DEF ExecuteJump, Flushed, EndCycle
<1>3. Len(queue') = 0 /\ queue' \in Seq([addr : Addr, word : Instruction])
  BY <1>2
<1>4. strays' \in Nat /\ strays' <= 1
  <2>1. Stray <=> hostMoved
    BY <1>1 DEF IndInv, PipelineInv, InOrder, Stray
  <2> QED
    BY <2>1 DEF ExecuteJump, EndCycle, IndInv, PipelineInv, TypeOK, OneStray, StrayCount
<1>5. TypeOK'
  <2>1. Len(queue') <= PrefetchInstructions /\ Len(queue') < PrefetchInstructions
    BY <1>3 DEF PrefetchInstructions
  <2> QED
    BY <1>2, <1>3, <1>4, <2>1 DEF IndInv, PipelineInv, TypeOK
<1>6. InOrder' /\ VisiblePc'
  BY <1>2, <1>3 DEF InOrder, VisiblePc
<1>7. PrefetchFresh' /\ NewestFresh'
  <2>1. Len(queue') # 2
    BY <1>2, <1>3
  <2>2. NewestFresh'
    BY <2>1, Zenon DEF NewestFresh
  <2>3. PrefetchFresh'
    BY <1>3 DEF PrefetchFresh
  <2> QED
    BY <2>2, <2>3
<1> QED
  BY <1>2, <1>4, <1>5, <1>6, <1>7 DEF IndInv, PipelineInv, OneStray, StrayCount

(* What is put over the memory changes no other byte of it.                *)
LEMMA PutOver ==
  ASSUME NEW s \in Puts, mem \in [Addr -> Byte]
  PROVE  /\ With(s) \in [Addr -> Byte] /\ DOMAIN s \subseteq Addr
         /\ \A b \in Addr \ DOMAIN s : With(s)[b] = mem[b]
  BY MemAssumption DEF With

(* However a cycle ends, the invariant holds after it.                     *)
LEMMA CycleInv == ASSUME IndInv, Cycle PROVE IndInv'
<1>0. /\ mem \in [Addr -> Byte] /\ writes \in 0..MaxWrites
      /\ pcChanged \in BOOLEAN /\ MaxWrites \in Nat
  BY MemAssumption DEF IndInv, PipelineInv, TypeOK
<1>1. CASE Fetch
  BY <1>1, FetchInv
<1>2. CASE DecodeFails
  BY <1>0, <1>2, RetiresInv DEF DecodeFails, Retires
<1>3. CASE ExecuteFails
  BY <1>0, <1>3, RetiresInv DEF ExecuteFails, Retires
<1>4. CASE ExecutePlain
  BY <1>0, <1>4, RetiresInv DEF ExecutePlain, Flushed, Retires
<1>5. ASSUME NEW t \in Addr, ExecuteJump(t) PROVE IndInv'
  BY <1>5, JumpInv
<1>6. ASSUME NEW s \in Puts, ExecuteStore(s) PROVE IndInv'
  <2>1. Retires(DOMAIN s) /\ mem' = With(s)
    BY <1>6 DEF ExecuteStore, Flushed, Retires
  <2>2. writes' \in 0..MaxWrites
    BY <1>0, <1>6 DEF ExecuteStore
  <2>3. /\ mem' \in [Addr -> Byte] /\ DOMAIN s \subseteq Addr
        /\ \A b \in Addr \ DOMAIN s : mem'[b] = mem[b]
    BY <1>0, <2>1, PutOver
  <2> QED
    BY <2>1, <2>2, <2>3, RetiresInv
<1> QED
  BY <1>1, <1>2, <1>3, <1>4, <1>5, <1>6 DEF Cycle
-------------------------------------------------------------------------------
(* The host's steps happen between cycles, with at most one word queued. *)

(* A pc moved by the host keeps the invariant: at most the word in the     *)
(* queue is stray.                                                         *)
LEMMA MovePcInv == ASSUME IndInv, NEW a \in Addr, MovePc(a) PROVE IndInv'
<1>1. Len(queue) \in {0, 1} /\ (queue = <<>> <=> Len(queue) = 0)
  BY Queue DEF MovePc
<1>2. TypeOK'
  BY DEF IndInv, PipelineInv, TypeOK, MovePc
<1>3. InOrder'
  <2>1. pc' = a /\ ip' = a /\ queue' = queue /\ (hostMoved' <=> Len(queue) # 0)
    BY <1>1 DEF MovePc
  <2> QED
    BY <1>1, <2>1 DEF InOrder
<1>4. VisiblePc'
  <2>1. queue' = queue /\ (hostMoved' <=> Len(queue) # 0)
    BY <1>1 DEF MovePc
  <2> QED
    BY <1>1, <2>1 DEF VisiblePc
<1>5. OneStray' /\ StrayCount'
  BY DEF OneStray, StrayCount, MovePc
<1>6. PrefetchFresh' /\ NewestFresh'
  BY <1>1 DEF IndInv, PrefetchFresh, NewestFresh, MovePc
<1> QED
  BY <1>2, <1>3, <1>4, <1>5, <1>6 DEF IndInv, PipelineInv

(* A memory write by the host keeps the invariant.                         *)
LEMMA PokeInv ==
  ASSUME IndInv, NEW s \in Puts, Poke(s)
  PROVE  IndInv'
<1>1. Len(queue) \in {0, 1}
  BY Queue DEF Poke
<1>2. /\ mem' \in [Addr -> Byte] /\ DOMAIN s \subseteq Addr
      /\ \A b \in Addr \ DOMAIN s : mem'[b] = mem[b]
  BY PutOver DEF IndInv, PipelineInv, TypeOK, Poke
<1>3. writes' \in 0..MaxWrites
  BY MemAssumption DEF IndInv, PipelineInv, TypeOK, Poke
<1>4. TypeOK'
  BY <1>2, <1>3 DEF IndInv, PipelineInv, TypeOK, Poke, cpu
<1>5. InOrder' /\ VisiblePc' /\ OneStray' /\ StrayCount'
  BY DEF IndInv, PipelineInv, InOrder, VisiblePc, OneStray, StrayCount, Poke, cpu
<1>6. PrefetchFresh'
  <2> SUFFICES ASSUME NEW i \in 1..Len(queue), NEW k \in 0..InstructionSize - 1,
                      ~BehindPage(queue[i].addr, k)
               PROVE  \/ queue[i].word[k] = mem'[queue[i].addr + k]
                      \/ queue[i].addr + k \in written'
    BY DEF PrefetchFresh, BehindPage, Poke, cpu
  <2>1. queue[i].addr \in Addr
    <3>1. queue[i] \in QueueWord
      BY Queue
    <3> QED
      BY <3>1 DEF QueueWord
  <2>2. queue[i].addr + k \in Addr
    <3>1. k \in Nat /\ (queue[i].addr % PageSize) + k < PageSize
      BY <2>1, MemAssumption DEF BehindPage, Addr
    <3> QED
      BY <2>1, <3>1, RestOfPage
  <2>3. \/ queue[i].word[k] = mem[queue[i].addr + k]
        \/ queue[i].addr + k \in written
    BY DEF IndInv, PrefetchFresh
  <2> QED
    BY <1>2, <2>2, <2>3 DEF Poke
<1>7. NewestFresh'
  BY <1>1 DEF NewestFresh, Poke, cpu
<1> QED
  BY <1>4, <1>5, <1>6, <1>7 DEF IndInv, PipelineInv

(* Every step of the machine or of the host keeps the invariant.           *)
LEMMA NextInv == IndInv /\ [Next]_vars => IndInv'
<1> SUFFICES ASSUME IndInv, [Next]_vars PROVE IndInv'
  OBVIOUS
<1>1. CASE Cycle
  BY <1>1, CycleInv
<1>2. CASE Reset
  BY <1>2, MovePcInv, MemAssumption DEF Reset
<1>3. ASSUME NEW a \in Addr, SetPc(a) PROVE IndInv'
  BY <1>3, MovePcInv DEF SetPc
<1>4. ASSUME NEW s \in Puts, Poke(s) PROVE IndInv'
  BY <1>4, PokeInv
<1>5. CASE UNCHANGED vars
  BY <1>5
  DEF vars, cpu, history, IndInv, PipelineInv, TypeOK, InOrder, VisiblePc, OneStray,
      StrayCount, PrefetchFresh, NewestFresh, Current, BehindPage
<1> QED
  BY <1>1, <1>2, <1>3, <1>4, <1>5 DEF Next, Host

(* The invariant holds of every reachable state.                           *)
THEOREM Inductive == Spec => []IndInv
  BY InitInv, NextInv, PTL DEF Spec

\* The pipeline's variables keep their types, and the queue always has room
\* for the next fetch when cycle() is entered: push never throws.
THEOREM TypeCorrect == Spec => []TypeOK
<1>1. IndInv => TypeOK
  BY DEF IndInv, PipelineInv
<1> QED
  BY <1>1, Inductive, PTL

\* Armmachine.cpp's cycle() runs every instruction once and in program order,
\* whatever throws in it, but for the word left queued when the host moves pc.
THEOREM ProgramOrder == Spec => []InOrder
<1>1. IndInv => InOrder
  BY DEF IndInv, PipelineInv
<1> QED
  BY <1>1, Inductive, PTL

\* An executing instruction finds its own address plus 8 in the pc.
THEOREM PcRunsAhead == Spec => []VisiblePc
<1>1. IndInv => VisiblePc
  BY DEF IndInv, PipelineInv
<1> QED
  BY <1>1, Inductive, PTL

\* After PiDevice::reset or an edit of the pc, one stale instruction at most
\* runs before the pipeline is in step with the new pc.
THEOREM AtMostOneStray == Spec => []OneStray
<1>1. IndInv => OneStray
  BY DEF IndInv, PipelineInv
<1> QED
  BY <1>1, Inductive, PTL

\* A byte of a prefetched instruction is out of date by one instruction at
\* most, or was read behind the end of a page's buffer, wherever the pc points.
THEOREM PrefetchAge == Spec => []PrefetchFresh
<1>1. IndInv => PrefetchFresh
  BY DEF IndInv
<1> QED
  BY <1>1, Inductive, PTL
-------------------------------------------------------------------------------
(* The instruction queue: the ring buffer of ArrayQueue, for all sets of   *)
(* elements and every capacity.                                            *)

\* RingShape is what a step needs to know of the push index for the ring to
\* still be the queue after it.
RingInv == RingTypeOK /\ RingShape

(* A new queue satisfies the invariant.                                    *)
LEMMA RingInitInv == RingInit => RingInv
  BY MaxSizeAssumption DEF RingInit, RingInv, RingTypeOK, RingShape, Slot, Fifo!Outcomes

(* push, pop and clear keep it.                                            *)
LEMMA RingNextInv == RingInv /\ [RingNext]_ringVars => RingInv'
<1> SUFFICES ASSUME RingInv, [RingNext]_ringVars PROVE RingInv'
  OBVIOUS
<1> USE MaxSizeAssumption DEF RingInv, RingTypeOK, RingShape, Slot, Fifo!Outcomes
<1>1. CASE Clear
  BY <1>1 DEF Clear
<1>2. ASSUME NEW v \in Values, Push(v) PROVE RingInv'
  BY <1>2 DEF Push, Advance
<1>3. CASE PushFull
  BY <1>3 DEF PushFull
<1>4. CASE Pop
  <2>1. array[popIndex] \in Values
    BY <1>4 DEF Pop
  <2> QED
    BY <1>4, <2>1 DEF Pop, Advance
<1>5. CASE PopEmpty
  BY <1>5 DEF PopEmpty
<1>6. CASE UNCHANGED ringVars
  BY <1>6 DEF ringVars
<1> QED
  BY <1>1, <1>2, <1>3, <1>4, <1>5, <1>6 DEF RingNext

\* Neither index leaves the array of array_queue.hpp, whatever is called.
THEOREM RingTypeCorrect == RingSpec => []RingTypeOK
<1>1. RingInv => RingTypeOK
  BY DEF RingInv
<1> QED
  BY <1>1, RingInitInv, RingNextInv, PTL DEF RingSpec

\* The push index is always the slot after the newest element: push, pop and
\* clear keep the three counters in step.
THEOREM RingShapeCorrect == RingSpec => []RingShape
<1>1. RingInv => RingShape
  BY DEF RingInv
<1> QED
  BY <1>1, RingInitInv, RingNextInv, PTL DEF RingSpec
-------------------------------------------------------------------------------
\* The ring holds a sequence of values with as many elements as the counter says.
IsRing == /\ Contents \in Seq(Values)
          /\ Len(Contents) = size
          /\ \A i \in 1..size : Contents[i] = array[Slot(i - 1)]

(* Of a queue that satisfies the invariant, the contents are a sequence    *)
(* of `size` values.                                                       *)
LEMMA ContentsSeq == RingInv => IsRing
<1> SUFFICES ASSUME RingInv PROVE IsRing
  OBVIOUS
<1>1. \A i \in 1..size : array[Slot(i - 1)] \in Values
  BY MaxSizeAssumption DEF RingInv, RingTypeOK, Slot
<1> QED
  BY <1>1, MaxSizeAssumption DEF RingInv, RingTypeOK, Contents, IsRing

\* A push writes the one slot that is not part of the ring.
LEMMA PushAppends ==
  ASSUME RingInv, RingInv', NEW v \in Values, Push(v)
  PROVE  Contents' = Append(Contents, v)
<1> DEFINE s == Contents  t == Append(s, v)
<1>1. s \in Seq(Values) /\ Len(s) = size
  BY ContentsSeq DEF IsRing
<1>2. t \in Seq(Values) /\ Len(t) = size + 1
  BY <1>1
<1>3. /\ Contents' \in Seq(Values)
      /\ Len(Contents') = size + 1
      /\ \A i \in 1..size + 1 : Contents'[i] = array'[Slot(i - 1)']
  <2>1. IsRing'
    BY ContentsSeq, PTL
  <2> QED
    BY <2>1 DEF Push, IsRing
<1>4. ASSUME NEW i \in 1..size + 1 PROVE Contents'[i] = t[i]
  <2>1. CASE i <= size
    <3>1. Slot(i - 1) # pushIndex /\ Slot(i - 1) \in 0..MaxSize - 1
      BY <2>1, MaxSizeAssumption DEF RingInv, RingTypeOK, RingShape, Slot, Push
    <3>2. array'[Slot(i - 1)] = array[Slot(i - 1)] /\ Slot(i - 1)' = Slot(i - 1)
      BY <3>1, MaxSizeAssumption DEF RingInv, RingTypeOK, Push, Slot
    <3>3. s[i] = array[Slot(i - 1)]
      BY <2>1, ContentsSeq DEF IsRing
    <3>4. t[i] = s[i]
      BY <1>1, <2>1
    <3> QED
      BY <1>3, <3>2, <3>3, <3>4
  <2>2. CASE i = size + 1
    <3>1. Slot(i - 1)' = pushIndex /\ pushIndex \in 0..MaxSize - 1
      BY <2>2, MaxSizeAssumption DEF RingInv, RingTypeOK, RingShape, Slot, Push
    <3>2. array'[pushIndex] = v
      BY <3>1, MaxSizeAssumption DEF RingInv, RingTypeOK, Push
    <3>3. t[i] = v
      BY <1>1, <2>2
    <3> QED
      BY <1>3, <3>1, <3>2, <3>3
  <2> QED
    BY <2>1, <2>2, <1>1, MaxSizeAssumption DEF RingInv, RingTypeOK
<1> HIDE DEF s, t
<1> QED
  BY <1>2, <1>3, <1>4, SeqEqual DEF s, t

\* A pop gives the oldest element of the ring and leaves the others.
LEMMA PopTakesHead ==
  ASSUME RingInv, RingInv', Pop
  PROVE  /\ Contents # <<>>
         /\ Head(Contents) = array[popIndex]
         /\ Contents' = Tail(Contents)
<1>1. /\ Contents \in Seq(Values) /\ Len(Contents) = size
      /\ \A i \in 1..size : Contents[i] = array[Slot(i - 1)]
  BY ContentsSeq DEF IsRing
<1>2. /\ size \in Nat \ {0} /\ size <= MaxSize
      /\ popIndex \in Nat /\ popIndex < MaxSize
  BY MaxSizeAssumption DEF RingInv, RingTypeOK, Pop
<1>3. Contents # <<>>
  BY <1>1, <1>2
<1>4. Slot(0) = popIndex
  BY <1>2, MaxSizeAssumption DEF Slot
<1>5. Head(Contents) = array[popIndex]
  BY <1>1, <1>2, <1>3, <1>4
<1>6. /\ Tail(Contents) \in Seq(Values) /\ Len(Tail(Contents)) = size - 1
      /\ \A i \in 1..size - 1 : Tail(Contents)[i] = Contents[i + 1]
  BY <1>1, <1>2, <1>3, HeadTailProperties
<1>7. /\ Contents' \in Seq(Values) /\ Len(Contents') = size - 1
      /\ \A i \in 1..size - 1 : Contents'[i] = array'[Slot(i - 1)']
  <2>1. IsRing'
    BY ContentsSeq, PTL
  <2> QED
    BY <2>1 DEF Pop, IsRing
<1>8. ASSUME NEW i \in 1..size - 1 PROVE Contents'[i] = Tail(Contents)[i]
  <2>1. Slot(i - 1)' = Slot(i)
    BY <1>2, MaxSizeAssumption DEF Slot, Pop, Advance
  <2>2. array'[Slot(i - 1)'] = array[Slot(i)]
    BY <2>1 DEF Pop
  <2>3. i + 1 \in 1..size /\ (i + 1) - 1 = i
    BY <1>2
  <2>4. Contents[i + 1] = array[Slot(i)]
    BY <1>1, <2>3
  <2> QED
    BY <1>6, <1>7, <2>2, <2>4
<1>9. Contents' = Tail(Contents)
  BY <1>2, <1>6, <1>7, <1>8, SeqEqual
<1> QED
  BY <1>3, <1>5, <1>9

\* A call that touches neither the array, the pop index nor the count leaves
\* the abstract queue alone.
LEMMA ContentsUnchanged ==
  ASSUME UNCHANGED <<array, popIndex, size>>
  PROVE  Contents' = Contents
  BY MaxSizeAssumption DEF Contents, Slot

(* Every operation of the ring buffer is that operation of the FIFO.       *)
LEMMA StepSimulation ==
  RingInv /\ RingInv' /\ [RingNext]_ringVars => [Fifo!Next]_(Fifo!vars)
<1> SUFFICES ASSUME RingInv, RingInv', [RingNext]_ringVars
             PROVE  [Fifo!Next]_(Fifo!vars)
  OBVIOUS
<1>0. Contents \in Seq(Values) /\ Len(Contents) = size
  BY ContentsSeq DEF IsRing
<1>1. CASE Clear
  <2>1. Contents' = <<>>
    BY <1>1 DEF Clear, Contents
  <2> QED
    BY <1>1, <2>1 DEF Clear, Fifo!Next, Fifo!Clear
<1>2. ASSUME NEW v \in Values, Push(v) PROVE Fifo!Next
  <2>1. Contents' = Append(Contents, v)
    BY <1>2, PushAppends
  <2> QED
    BY <1>0, <1>2, <2>1 DEF Push, Fifo!Next, Fifo!Push
<1>3. CASE PushFull
  <2>1. size = MaxSize
    BY <1>3, MaxSizeAssumption DEF PushFull, RingInv, RingTypeOK
  <2>2. Contents' = Contents
    BY <1>3, ContentsUnchanged DEF PushFull
  <2> QED
    BY <1>0, <1>3, <2>1, <2>2 DEF PushFull, Fifo!Next, Fifo!PushFull
<1>4. CASE Pop
  <2>1. /\ Contents # <<>> /\ Head(Contents) = array[popIndex]
        /\ Contents' = Tail(Contents)
    BY <1>4, PopTakesHead
  <2>2. last' = <<"popped", Head(Contents)>>
    BY <1>4, <2>1 DEF Pop
  <2> QED
    BY <2>1, <2>2 DEF Fifo!Next, Fifo!Pop
<1>5. CASE PopEmpty
  <2>1. Contents = <<>>
    BY <1>0, <1>5 DEF PopEmpty, Contents
  <2>2. Contents' = Contents
    BY <1>5, ContentsUnchanged DEF PopEmpty
  <2> QED
    BY <1>5, <2>1, <2>2 DEF PopEmpty, Fifo!Next, Fifo!PopEmpty
<1>6. CASE UNCHANGED ringVars
  BY <1>6, ContentsUnchanged DEF ringVars, Fifo!vars
<1> QED
  BY <1>1, <1>2, <1>3, <1>4, <1>5, <1>6 DEF RingNext

\* The queue the CPU prefetches into is a bounded FIFO to its callers, for
\* every element type and every capacity.
THEOREM RingImplementation == RingSpec => ImplementsFifo
<1>1. RingInit => Fifo!Init
  BY DEF RingInit, Fifo!Init, Contents
<1>2. RingInit => RingInv
  BY RingInitInv
<1>3. RingInv /\ [RingNext]_ringVars => RingInv'
  BY RingNextInv
<1>4. RingInv /\ RingInv' /\ [RingNext]_ringVars => [Fifo!Next]_(Fifo!vars)
  BY StepSimulation
<1> QED
  BY <1>1, <1>2, <1>3, <1>4, PTL DEF RingSpec, ImplementsFifo, Fifo!Spec
===============================================================================
