---------------------------- MODULE PiTimerProofs ----------------------------
(***************************************************************************)
(* The timer's invariants, wherever counter and mailbox are in memory,     *)
(* whatever addresses and lengths a guest uses, at all times and through   *)
(* any number of resets.                                                   *)
(***************************************************************************)
EXTENDS PiTimer, TLAPS

\* Ids are given out once.
IdsDiffer == /\ observeId \in Nat
             /\ timerId \in 1..observeId - 1
             /\ gpuId \in 0..observeId - 1
             /\ gpuId # timerId

\* What is in memory has been the time, unless it was overwritten.
Times == /\ clock \in Nat
         /\ start \in 0..clock
         /\ overwritten \in BOOLEAN
         /\ counter \in Nat
         /\ ~overwritten => counter <= Elapsed

\* The loads that were collected, each a part of the time when it was done.
Read == [val : Nat, at : Nat]
Part(i, t) == IF i = 2 THEN t % WordSize ELSE t \div WordSize

ReadsAreTimes ==
  /\ reads \in Seq(Read)
  /\ Len(reads) <= 3
  /\ \A i \in 1..Len(reads) :
       /\ reads[i].at <= Elapsed
       /\ reads[i].val = Part(i, reads[i].at)
       /\ \A j \in 1..i : reads[j].at <= reads[i].at

IInv == IdsDiffer /\ ObserversLive /\ Times /\ ReadsAreTimes /\ BlockIsTime

(* While the current Timer observes, a load of either word is refreshed,   *)
(* and so is a block load that starts at the counter, since its length is  *)
(* less than the counter's address.                                        *)
LEMMA TimerCalled ==
  ASSUME TimerAssumption, ObserversLive
  PROVE  /\ Called("timer", Counter, 0, "PreRead")
         /\ Called("timer", Counter + WordBytes, 0, "PreRead")
         /\ \A n \in Lengths : Covers(Counter, n) => Called("timer", Counter, n, "PreRead")
<1>1. \E o \in observers : o.owner = "timer"
  <2>1. [id |-> timerId, owner |-> "timer"] \in observers
    BY DEF ObserversLive
  <2>. QED BY <2>1
<1>2. Counter \in Nat /\ Zones["timer"].address = Counter /\ Zones["timer"].length = 4
        /\ "PreRead" \in Zones["timer"].events
  BY DEF TimerAssumption, Zones, CounterBytes, WordBytes, Counter
<1>3. /\ IsInZone(Zones["timer"], Counter)
      /\ IsInZone(Zones["timer"], Counter + WordBytes)
  BY <1>2 DEF IsInZone, WordBytes
<1>4. ASSUME NEW n \in Lengths, Covers(Counter, n)
      PROVE  Called("timer", Counter, n, "PreRead")
  <2>1. n \in 4..Counter - 1
    BY <1>2, <1>4 DEF Covers, CounterBytes, WordBytes, TimerAssumption
  <2>2. IsRangeColliding(Zones["timer"], Counter, n)
    BY <1>2, <2>1 DEF IsRangeColliding
  <2>. QED BY <1>1, <1>2, <2>1, <2>2 DEF Called
<1>. QED BY <1>1, <1>2, <1>3, <1>4 DEF Called

(* A refreshed counter is the time, and any other what it was.             *)
LEMMA RefreshedTimes ==
  ASSUME Times, NEW a, NEW n, NEW event
  PROVE  /\ Elapsed \in Nat
         /\ Refreshed(a, n, event) \in Nat
         /\ Called("timer", a, n, event) => Refreshed(a, n, event) = Elapsed
         /\ ~overwritten => Refreshed(a, n, event) <= Elapsed
<1>1. Elapsed \in Nat
  BY DEF Times, Elapsed
<1>. QED BY <1>1 DEF Times, Refreshed

(* What is collected are numbers.                                          *)
LEMMA ReadsTyped ==
  ASSUME ReadsAreTimes
  PROVE  \A i \in 1..Len(reads) : reads[i].val \in Nat /\ reads[i].at \in Nat
<1>1. reads \in Seq(Read)
  BY DEF ReadsAreTimes
<1>2. \A i \in 1..Len(reads) : reads[i] \in Read
  BY <1>1
<1>. QED BY <1>2 DEF Read

(* Time that passes leaves what was collected in the past.                 *)
LEMMA LaterReads ==
  ASSUME ReadsAreTimes, Times, clock' \in Nat, clock <= clock', UNCHANGED <<start, reads>>
  PROVE  ReadsAreTimes' /\ Elapsed <= Elapsed'
<1>1. Elapsed \in Nat /\ Elapsed' \in Nat /\ Elapsed <= Elapsed'
  <2>1. clock \in Nat /\ start \in Nat /\ start <= clock /\ start' = start
    BY DEF Times
  <2>2. Elapsed = clock - start /\ Elapsed' = clock' - start
    BY <2>1 DEF Elapsed
  <2>3. ASSUME NEW s \in Nat, NEW c \in Nat, NEW d \in Nat, s <= c, c <= d
        PROVE  c - s \in Nat /\ d - s \in Nat /\ c - s <= d - s
    BY <2>3
  <2>4. clock \in Nat /\ clock' \in Nat /\ clock <= clock'
    BY <2>1
  <2>. QED BY <2>1, <2>2, <2>3, <2>4
<1>2. \A i \in 1..Len(reads) : reads[i].at \in Nat
  BY ReadsTyped
<1>. QED BY <1>1, <1>2 DEF ReadsAreTimes

(* A load of either word goes to the words that were loaded before it, or  *)
(* begins anew.                                                            *)
LEMMA CollectedTimes ==
  ASSUME TimerAssumption, ReadsAreTimes, Elapsed \in Nat, NEW a \in {Counter, Counter + WordBytes},
         reads' = Collected(a, WordAt(Elapsed, a)), UNCHANGED <<start, clock>>
  PROVE  ReadsAreTimes'
<1>. DEFINE read == [val |-> WordAt(Elapsed, a), at |-> Elapsed]
<1>0. Elapsed' = Elapsed
  BY DEF Elapsed
<1>1. /\ Counter \in Nat /\ Counter # Counter + WordBytes
      /\ Elapsed % WordSize \in Nat /\ Elapsed \div WordSize \in Nat
  BY DEF Counter, WordBytes, WordSize, TimerAssumption
<1>2. read \in Read
  BY <1>1 DEF WordAt, Read
<1>3. /\ read.at = Elapsed
      /\ read.val = IF a = Counter THEN Part(2, Elapsed) ELSE Part(1, Elapsed)
      /\ Part(3, Elapsed) = Part(1, Elapsed)
  BY DEF WordAt, Part
<1>. HIDE DEF read
<1>4. CASE reads' = <<>>
  BY <1>4 DEF ReadsAreTimes
<1>5. CASE reads' = <<read>> /\ a # Counter
  BY <1>0, <1>2, <1>3, <1>5 DEF ReadsAreTimes
<1>6. CASE /\ reads' = Append(reads, read)
           /\ \/ a # Counter /\ Len(reads) = 2
              \/ a = Counter /\ Len(reads) = 1
  <2>1. /\ reads' \in Seq(Read)
        /\ Len(reads') = Len(reads) + 1
        /\ reads'[Len(reads) + 1] = read
        /\ \A i \in 1..Len(reads) : reads'[i] = reads[i]
    BY <1>2, <1>6 DEF ReadsAreTimes
  <2>2. ASSUME NEW i \in 1..Len(reads')
        PROVE  /\ reads'[i].at <= Elapsed
               /\ reads'[i].val = Part(i, reads'[i].at)
               /\ \A j \in 1..i : reads'[j].at <= reads'[i].at
    <3>1. CASE i = Len(reads) + 1
      BY <1>3, <1>6, <2>1, <3>1 DEF ReadsAreTimes
    <3>2. CASE i \in 1..Len(reads)
      BY <2>1, <3>2 DEF ReadsAreTimes
    <3>. QED BY <1>6, <2>1, <3>1, <3>2
  <2>3. Len(reads') <= 3
    BY <1>6, <2>1
  <2>. QED BY <1>0, <2>1, <2>2, <2>3 DEF ReadsAreTimes
<1>7. \/ reads' = <<>>
      \/ reads' = <<read>> /\ a # Counter
      \/ reads' = Append(reads, read) /\ a # Counter /\ Len(reads) = 2
      \/ reads' = Append(reads, read) /\ a = Counter /\ Len(reads) = 1
  BY <1>1 DEF Collected, read
<1>. QED BY <1>4, <1>5, <1>6, <1>7

(* Registration: each owner's id is its own, and a reset leaves the new    *)
(* Timer alone with the memory.                                            *)
LEMMA ResetRegisters ==
  ASSUME IdsDiffer, ObserversLive, Reset
  PROVE  (IdsDiffer /\ ObserversLive)'
<1>1. IdsDiffer'
  BY DEF Reset, IdsDiffer, NoObserver
<1>2. Unobserve(observers, gpuId) = {[id |-> timerId, owner |-> "timer"]}
  BY DEF Unobserve, ObserversLive, IdsDiffer, NoObserver
<1>3. observers' = {[id |-> observeId, owner |-> "timer"]}
  BY <1>2 DEF Reset, Observe, Unobserve, IdsDiffer
<1>. QED BY <1>1, <1>3 DEF Reset, ObserversLive

(* A step that leaves the registrations, and the clock.                    *)
LEMMA SameDevice ==
  ASSUME IInv, UNCHANGED device
  PROVE  (IdsDiffer /\ ObserversLive)'
BY DEF IInv, device, IdsDiffer, ObserversLive

(* A step that adds no read and no time keeps what is known of them.       *)
LEMMA SameReads ==
  ASSUME IInv, UNCHANGED <<start, clock, reads>>
  PROVE  ReadsAreTimes'
BY DEF IInv, ReadsAreTimes, Elapsed

(* A load of a word. *)
LEMMA LoadWordKeepsInv ==
  ASSUME TimerAssumption, IInv, NEW a \in Addresses, LoadWord(a)
  PROVE  IInv'
<1>. USE DEF IInv
<1>1. /\ UNCHANGED device /\ start' = start /\ clock' = clock /\ Elapsed' = Elapsed
      /\ counter' = Refreshed(a, 0, "PreRead")
      /\ overwritten' = (overwritten /\ ~Called("timer", a, 0, "PreRead"))
      /\ block' = {}
  BY DEF LoadWord, CpuStep, device, Elapsed
<1>2. Times'
  BY <1>1, RefreshedTimes DEF Times
<1>3. ReadsAreTimes'
  <2>1. CASE a \in {Counter, Counter + WordBytes}
    <3>1. counter' = Elapsed /\ Elapsed \in Nat
      BY <1>1, <2>1, TimerCalled, RefreshedTimes
    <3>2. reads' = Collected(a, WordAt(Elapsed, a))
      BY <2>1, <3>1 DEF LoadWord
    <3>. QED BY <1>1, <2>1, <3>1, <3>2, CollectedTimes
  <2>2. CASE a \notin {Counter, Counter + WordBytes}
    BY <1>1, <2>2, SameReads DEF LoadWord
  <2>. QED BY <2>1, <2>2
<1>. QED BY <1>1, <1>2, <1>3, SameDevice DEF BlockIsTime

(* A block load that covers the counter. *)
LEMMA LoadBlockKeepsInv ==
  ASSUME TimerAssumption, IInv, NEW a \in Addresses, NEW n \in Lengths, LoadBlock(a, n)
  PROVE  IInv'
<1>. USE DEF IInv
<1>1. /\ UNCHANGED device /\ start' = start /\ clock' = clock /\ Elapsed' = Elapsed
      /\ counter' = Refreshed(a, n, "PreRead")
      /\ overwritten' = (overwritten /\ ~Called("timer", a, n, "PreRead"))
      /\ block' = IF Covers(a, n)
                  THEN {[from |-> a, val |-> counter', at |-> Elapsed, own |-> ~overwritten']}
                  ELSE {}
      /\ reads' = IF Covers(a, n) THEN <<>> ELSE reads
  BY DEF LoadBlock, CpuStep, device, Elapsed
<1>2. Times'
  BY <1>1, RefreshedTimes DEF Times
<1>3. ReadsAreTimes'
  <2>1. CASE reads' = <<>>
    BY <2>1 DEF ReadsAreTimes
  <2>. QED BY <1>1, <2>1, SameReads
<1>4. BlockIsTime'
  <2>1. ASSUME Covers(a, n), a = Counter
        PROVE  counter' = Elapsed
    BY <1>1, <2>1, TimerCalled, RefreshedTimes
  <2>2. ~overwritten' => counter' <= Elapsed
    BY <1>1, <1>2 DEF Times
  <2>3. ASSUME NEW b \in block'
        PROVE  /\ b.from = Counter => b.val = b.at
               /\ b.own => b.val <= b.at
    <3>1. /\ Covers(a, n)
          /\ b = [from |-> a, val |-> counter', at |-> Elapsed, own |-> ~overwritten']
      BY <1>1, <2>3, Zenon
    <3>. QED BY <2>1, <2>2, <3>1
  <2>. QED BY <2>3 DEF BlockIsTime
<1>. QED BY <1>1, <1>2, <1>3, <1>4, SameDevice

(* A load of two bytes, with time going on between them. *)
LEMMA LoadHalfwordKeepsInv ==
  ASSUME TimerAssumption, IInv, NEW a \in Addresses, LoadHalfword(a)
  PROVE  IInv'
<1>. USE DEF IInv
<1>1. /\ UNCHANGED device /\ start' = start /\ block' = block /\ reads' = reads
      /\ clock' \in clock..MaxTime
  BY DEF LoadHalfword, device
<1>2. clock \in Nat /\ start \in 0..clock /\ clock' \in Nat /\ clock <= clock'
  BY <1>1 DEF Times, TimerAssumption
<1>3. ReadsAreTimes' /\ Elapsed <= Elapsed'
  BY <1>1, <1>2, LaterReads
<1>4. /\ Elapsed' = clock' - start
      /\ Elapsed \in Nat /\ Elapsed' \in Nat
      /\ start' \in 0..clock'
  <2>1. ASSUME NEW s \in Nat, NEW c \in Nat, NEW d \in Nat, s <= c, c <= d
        PROVE  c - s \in Nat /\ d - s \in Nat /\ s \in 0..d
    BY <2>1
  <2>2. start \in Nat /\ start <= clock
    BY <1>2
  <2>. QED BY <1>1, <1>2, <2>1, <2>2 DEF Elapsed
<1>5. Times'
  <2>1. CASE Called("timer", a + 1, 0, "PreRead")
    <3>1. counter' = Elapsed'
      BY <1>4, <2>1 DEF LoadHalfword
    <3>2. overwritten' \in BOOLEAN
      BY Zenon DEF LoadHalfword
    <3>3. counter' \in Nat /\ counter' <= Elapsed'
      BY <1>4, <3>1
    <3>4. clock' \in Nat /\ start' \in 0..clock'
      BY <1>2, <1>4
    <3>. QED BY <3>2, <3>3, <3>4 DEF Times
  <2>2. CASE ~Called("timer", a + 1, 0, "PreRead")
    <3>1. /\ counter' = Refreshed(a, 0, "PreRead")
          /\ overwritten' = (overwritten /\ ~Called("timer", a, 0, "PreRead"))
      BY <2>2 DEF LoadHalfword
    <3>2. counter' \in Nat /\ overwritten' \in BOOLEAN
      BY <3>1, RefreshedTimes DEF Times
    <3>3. ~overwritten' => counter' <= Elapsed
      <4>1. CASE Called("timer", a, 0, "PreRead")
        BY <1>4, <3>1, <4>1, RefreshedTimes
      <4>2. CASE ~Called("timer", a, 0, "PreRead")
        <5>1. ~overwritten' => ~overwritten
          BY <3>1, <4>2, Zenon
        <5>. QED BY <3>1, <5>1, RefreshedTimes
      <4>. QED BY <4>1, <4>2
    <3>4. ~overwritten' => counter' <= Elapsed'
      BY <1>3, <1>4, <3>2, <3>3
    <3>5. clock' \in Nat /\ start' \in 0..clock'
      BY <1>2, <1>4
    <3>. QED BY <3>2, <3>4, <3>5 DEF Times
  <2>. QED BY <2>1, <2>2
<1>. QED BY <1>1, <1>3, <1>5, SameDevice DEF BlockIsTime

(* The steps that store, and those of PiDevice, the host and time. *)
LEMMA OthersKeepInv ==
  ASSUME TimerAssumption, IInv,
         \/ \E a \in Addresses, n \in Lengths : Store(a, n)
         \/ HostStore \/ CpuThrows \/ GpuCycle \/ Reset \/ Tick
  PROVE  IInv'
<1>. USE DEF IInv
<1>1. ASSUME counter' \in {0, MaxTime, counter}, overwritten' \in BOOLEAN,
             overwritten' = TRUE \/ UNCHANGED <<counter, overwritten>>,
             UNCHANGED <<device, clock, reads, block>>
      PROVE  IInv'
  <2>1. start' = start /\ Elapsed' = Elapsed /\ counter' \in Nat
    BY <1>1 DEF device, Elapsed, Times, TimerAssumption
  <2>2. Times'
    BY <1>1, <2>1 DEF Times
  <2>. QED BY <1>1, <2>1, <2>2, SameDevice, SameReads DEF BlockIsTime
<1>2. ASSUME NEW a \in Addresses, NEW n \in Lengths, Store(a, n)
      PROVE  IInv'
  BY <1>1, <1>2 DEF Store, CpuStep, Times
<1>3. CASE HostStore
  BY <1>1, <1>3 DEF HostStore
<1>4. CASE CpuThrows
  BY <1>1, <1>4 DEF CpuThrows, history, Times
<1>5. CASE GpuCycle
  <2>1. /\ start' = start /\ clock' = clock /\ reads' = reads /\ block' = block
        /\ counter' = counter /\ overwritten' = overwritten /\ timerId' = timerId
    BY <1>5 DEF GpuCycle, history
  <2>2. IdsDiffer'
    BY <1>5, <2>1 DEF GpuCycle, IdsDiffer, NoObserver
  <2>3. ObserversLive'
    BY <1>5, <2>1 DEF GpuCycle, IdsDiffer, NoObserver, ObserversLive, Observe
  <2>4. Times'
    BY <2>1 DEF Times, Elapsed
  <2>. QED BY <2>1, <2>2, <2>3, <2>4, SameReads DEF BlockIsTime
<1>6. CASE Reset
  <2>1. /\ start' = clock /\ clock' = clock /\ reads' = <<>> /\ block' = {}
        /\ counter' = counter /\ overwritten' = TRUE
    BY <1>6 DEF Reset
  <2>2. Times' /\ ReadsAreTimes'
    BY <2>1 DEF Times, ReadsAreTimes
  <2>. QED BY <1>6, <2>1, <2>2, ResetRegisters DEF BlockIsTime
<1>7. CASE Tick
  <2>1. /\ UNCHANGED device /\ start' = start /\ reads' = reads /\ block' = block
        /\ counter' = counter /\ overwritten' = overwritten /\ clock' = clock + 1
    BY <1>7 DEF Tick, device, history
  <2>2. clock' \in Nat /\ clock <= clock'
    BY <2>1 DEF Times
  <2>3. ReadsAreTimes' /\ Elapsed <= Elapsed'
    BY <2>1, <2>2, LaterReads
  <2>4. Times'
    <3>1. start' \in 0..clock' /\ Elapsed \in Nat /\ Elapsed' \in Nat
      BY <2>1 DEF Times, Elapsed
    <3>. QED BY <2>1, <2>2, <2>3, <3>1 DEF Times
  <2>. QED BY <2>1, <2>3, <2>4, SameDevice DEF BlockIsTime
<1>. QED BY <1>2, <1>3, <1>4, <1>5, <1>6, <1>7

(* A new device: its Timer observes, its counter is 0.                     *)
LEMMA InitHasInv == Init => IInv
<1>. SUFFICES ASSUME Init
              PROVE  IInv
  OBVIOUS
<1>1. IdsDiffer /\ ObserversLive
  BY DEF Init, IdsDiffer, ObserversLive, Observe, NoObserver
<1>2. Times
  <2>1. overwritten \in BOOLEAN
    BY Zenon DEF Init
  <2>. QED BY <2>1 DEF Init, Times, Elapsed
<1>3. ReadsAreTimes
  BY DEF Init, ReadsAreTimes
<1>. QED BY <1>1, <1>2, <1>3 DEF Init, IInv, BlockIsTime

(* Every step keeps the invariant.                                         *)
THEOREM Inductive == TimerAssumption /\ IInv /\ [Next]_vars => IInv'
<1>. SUFFICES ASSUME TimerAssumption, IInv, [Next]_vars
              PROVE  IInv'
  OBVIOUS
<1>1. CASE UNCHANGED vars
  <2>1. start' = start /\ clock' = clock /\ reads' = reads /\ UNCHANGED device
    BY <1>1 DEF vars, device, history
  <2>2. Times'
    BY <1>1 DEF vars, device, history, IInv, Times, Elapsed
  <2>. QED BY <1>1, <2>1, <2>2, SameDevice, SameReads DEF vars, history, IInv, BlockIsTime
<1>. QED BY <1>1, LoadWordKeepsInv, LoadBlockKeepsInv, LoadHalfwordKeepsInv, OthersKeepInv DEF Next

(* The invariant of every behaviour.                                       *)
THEOREM Invariant == Spec => []IInv
BY InitHasInv, Inductive, TimerAssumption, PTL DEF Spec

(* No reset leaves an observer of a replaced Timer or Gpu with the memory, *)
(* or none of the current ones, however many resets there are.             *)
THEOREM ObserversCorrect == Spec => []ObserversLive
<1>1. IInv => ObserversLive
  BY DEF IInv
<1>. QED BY <1>1, Invariant, PTL

(* Reading high, low and high until the high words agree gives a time that *)
(* the counter had, for counters of any length.                            *)
THEOREM HighLowHighCorrect == Spec => []HighLowHighIsTime
<1>1. IInv => HighLowHighIsTime
  <2>. SUFFICES ASSUME IInv, Len(reads) = 3, reads[1].val = reads[3].val
                PROVE  reads[1].val * WordSize + reads[2].val = reads[2].at
    BY DEF HighLowHighIsTime
  <2>1. \A i \in 1..3 : reads[i].at \in Nat
    BY ReadsTyped DEF IInv
  <2>2. /\ reads[1].val = reads[1].at \div WordSize
        /\ reads[2].val = reads[2].at % WordSize
        /\ reads[3].val = reads[3].at \div WordSize
        /\ reads[1].at <= reads[2].at /\ reads[2].at <= reads[3].at
    BY DEF IInv, ReadsAreTimes, Part
  <2>3. ASSUME NEW s \in Nat, NEW t \in Nat, NEW u \in Nat, s <= t, t <= u,
               s \div 4 = u \div 4
        PROVE  (s \div 4) * 4 + (t % 4) = t
    BY <2>3
  <2>4. (reads[1].at \div 4) * 4 + (reads[2].at % 4) = reads[2].at
    <3>. DEFINE s == reads[1].at
                t == reads[2].at
                u == reads[3].at
    <3>1. s \in Nat /\ t \in Nat /\ u \in Nat /\ s <= t /\ t <= u
      BY <2>1, <2>2
    <3>2. s \div 4 = u \div 4
      BY <2>2 DEF WordSize
    <3>. HIDE DEF s, t, u
    <3>3. (s \div 4) * 4 + (t % 4) = t
      BY <2>3, <3>1, <3>2
    <3>. QED BY <3>3 DEF s, t
  <2>. QED BY <2>2, <2>4 DEF WordSize
<1>. QED BY <1>1, Invariant, PTL

(* A block load from the counter has one time in both words, and one from  *)
(* below it a time that has been, for every length of a block.             *)
THEOREM BlockCorrect == Spec => []BlockIsTime
<1>1. IInv => BlockIsTime
  BY DEF IInv
<1>. QED BY <1>1, Invariant, PTL
===============================================================================
