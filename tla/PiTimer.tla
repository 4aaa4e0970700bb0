------------------------------- MODULE PiTimer -------------------------------
(***************************************************************************)
(* The system timer of timer_pi.cpp on PiDevice (device_pi.cpp), and the   *)
(* observers of Memory (memory.cpp) that it shares with the Gpu.           *)
(*                                                                         *)
(* The counter is guest memory.  The timer observes it, and writes the     *)
(* time since its construction there before an access that the observer    *)
(* list takes for a load of it.  A guest reads the two words of the        *)
(* counter with one load each or with one block load, an ldm; a load that  *)
(* starts below the counter has no event.  (An ldrd, noticed at its first  *)
(* address as a word is, reads from the counter's start what an ldm does.) *)
(* Time goes on between two instructions and between the two bytes that    *)
(* ldrh loads.  A word has two bytes of one bit here.                      *)
(***************************************************************************)
EXTENDS Integers, Sequences

CONSTANTS SystemTimer,  \* PiDef::systemTimerAddress
          Mailbox,      \* PiDef::gpuMailboxAddress
          Addresses,    \* where the guest loads and stores
          Lengths,      \* how many bytes a block transfer has
          MaxTime,      \* bound: microseconds
          MaxResets     \* bound: calls of reset()

WordBytes == 2
WordSize == 4

Counter == SystemTimer + WordBytes  \* offsetof(Timebox, counter)
CounterBytes == 2 * WordBytes
MailboxBytes == 2 * WordBytes       \* shortened: GpuMailbox has all registers

\* A block's length is less than any observed address, as in the guest's memory.
ASSUME TimerAssumption == /\ SystemTimer \in Nat /\ Mailbox \in Nat
                          /\ Counter + CounterBytes <= Mailbox
                          /\ \A n \in Lengths : n \in 1..Counter - 1
                          /\ Addresses \subseteq Nat
                          /\ MaxTime \in Nat /\ MaxResets \in Nat

VARIABLES observers,  \* PrivData<Memory>::observers: what observes, and its id; not in
                      \* which order, as the zones of two owners have no byte in common
          observeId,  \* PrivData<Memory>::observeId
          timerId,    \* observerId of the current Timer
          gpuId,      \* observerId of the current Gpu, 0 before its first cycle
          start,      \* Timer's startingPoint
          counter,    \* the counter in guest memory
          turn,       \* what PiDevice::cycle runs next: "cpu" or "gpu"
          clock,      \* steady_clock
          resets,
          \* History, for the properties only:
          reads,      \* loads of the high, the low and the high word again
          block,      \* {} or the last block load that covered the counter
          overwritten \* the counter in memory is not this Timer's

device  == <<observers, observeId, timerId, gpuId, start, resets>>
history == <<reads, block, overwritten>>
vars    == <<device, counter, turn, clock, history>>

NoObserver == 0
Elapsed == clock - start

Zones == [timer |-> [address |-> Counter, length |-> CounterBytes, events |-> {"PreRead"}],
          gpu   |-> [address |-> Mailbox, length |-> MailboxBytes, events |-> {"Read", "Write"}]]

Observe(list, id, owner) == list \cup {[id |-> id, owner |-> owner]}

Unobserve(list, id) == {o \in list : o.id # id}

\* A new PiDevice: its Timer observes at once, its Gpu with its first cycle.
Init == /\ observers = Observe({}, 1, "timer")
        /\ timerId = 1
        /\ observeId = 2
        /\ gpuId = NoObserver
        /\ start = 0
        /\ counter = 0
        /\ turn = "cpu"
        /\ clock = 0
        /\ resets = 0
        /\ reads = <<>>
        /\ block = {}
        /\ overwritten = FALSE
-------------------------------------------------------------------------------
IsInZone(z, a) == a >= z.address /\ a < z.address + z.length

End(z) == z.address + z.length - 1

IsRangeColliding(z, from, to) ==
  LET lesser == IF from <= to THEN from ELSE to
      greater == IF from <= to THEN to ELSE from
  IN  \/ lesser >= z.address /\ greater <= End(z)
      \/ lesser <= z.address /\ greater >= z.address
      \/ lesser <= End(z) /\ greater >= End(z)

\* Whether execObservers(a, n, event) calls an observer of `owner`: a block's
\* length stands where the end of its range is asked for.
CalledWithBlockEnd(owner, a, n, event) ==
  /\ \E o \in observers : o.owner = owner
  /\ event \in Zones[owner].events
  /\ \/ n <= 1 /\ IsInZone(Zones[owner], a)
     \/ n > 1 /\ IsInZone(Zones[owner], a + n - 1)

Called(owner, a, n, event) ==
  /\ \E o \in observers : o.owner = owner
  /\ event \in Zones[owner].events
  /\ IF n <= 1 THEN IsInZone(Zones[owner], a)
               ELSE IsRangeColliding(Zones[owner], a, n)

\* The counter after the event has run Timer's observer.
RefreshedNotYet(a, n, event) == counter

Refreshed(a, n, event) == IF Called("timer", a, n, event) THEN Elapsed ELSE counter

Touches(a, n) == a < Counter + CounterBytes /\ a + n > Counter
Covers(a, n)  == a <= Counter /\ a + n >= Counter + CounterBytes

WordAt(c, a) == IF a = Counter THEN c % WordSize ELSE c \div WordSize

CpuStep == turn = "cpu" /\ turn' = "gpu" /\ UNCHANGED <<device, clock>>

\* What the guest has of the two words after a load of the word at `a`.
Collected(a, val) ==
  LET read == [val |-> val, at |-> Elapsed]
  IN  CASE a = Counter + WordBytes /\ Len(reads) = 2 -> Append(reads, read)
        [] a = Counter + WordBytes /\ Len(reads) # 2 -> <<read>>
        [] a = Counter /\ Len(reads) = 1             -> Append(reads, read)
        [] OTHER                                     -> <<>>

\* ldr, or ldrb for the effect it has: TrackedMemory::word, byte.
LoadWord(a) ==
  /\ CpuStep
  /\ counter' = Refreshed(a, 0, "PreRead")
  /\ reads' = IF a \in {Counter, Counter + WordBytes}
              THEN Collected(a, WordAt(counter', a)) ELSE reads
  /\ overwritten' = (overwritten /\ ~Called("timer", a, 0, "PreRead"))
  /\ block' = {}

\* ldm: TrackedMemory::chunk.
LoadBlock(a, n) ==
  /\ CpuStep
  /\ counter' = Refreshed(a, n, "PreRead")
  /\ overwritten' = (overwritten /\ ~Called("timer", a, n, "PreRead"))
  /\ block' = IF Covers(a, n)
              THEN {[from |-> a, val |-> counter', at |-> Elapsed, own |-> ~overwritten']}
              ELSE {}
  /\ reads' = IF Covers(a, n) THEN <<>> ELSE reads

\* Any store; only a few of the values that may be left in the counter.
Store(a, n) ==
  /\ CpuStep
  /\ counter' \in IF Touches(a, n) THEN {0, MaxTime} ELSE {counter}
  /\ overwritten' = (overwritten \/ Touches(a, n))
  /\ UNCHANGED <<reads, block>>

\* ldrh loads two bytes, and each may meet a counter of its own.
LoadHalfword(a) ==
  /\ turn = "cpu"
  /\ turn' = "gpu"
  /\ clock' \in clock..MaxTime
  /\ counter' = IF Called("timer", a + 1, 0, "PreRead") THEN clock' - start
                ELSE Refreshed(a, 0, "PreRead")
  /\ overwritten' = (overwritten /\ ~Called("timer", a, 0, "PreRead")
                                 /\ ~Called("timer", a + 1, 0, "PreRead"))
  /\ UNCHANGED <<device, reads, block>>

\* A program load or the memory editor: untracked, between two cycles.
HostStore ==
  /\ turn = "cpu"
  /\ counter' \in {0, MaxTime}
  /\ overwritten' = TRUE
  /\ UNCHANGED <<device, turn, clock, reads, block>>

\* machine.cycle() throws: PiDevice::cycle ends before the Gpu's turn.
CpuThrows ==
  /\ turn = "gpu"
  /\ turn' = "cpu"
  /\ UNCHANGED <<device, counter, clock, history>>

\* The Gpu observes in its first cycle.
GpuCycle ==
  /\ turn = "gpu"
  /\ turn' = "cpu"
  /\ IF gpuId = NoObserver
     THEN /\ observers' = Observe(observers, observeId, "gpu")
          /\ gpuId' = observeId
          /\ observeId' = observeId + 1
     ELSE UNCHANGED <<observers, gpuId, observeId>>
  /\ UNCHANGED <<timerId, start, resets, counter, clock, history>>

ResetKeepsGpuObserver ==
  /\ turn = "cpu"
  /\ resets < MaxResets
  /\ resets' = resets + 1
  /\ observers' = Unobserve(Observe(observers, observeId, "timer"), timerId)
  /\ timerId' = observeId
  /\ observeId' = observeId + 1
  /\ gpuId' = NoObserver
  /\ start' = clock
  /\ reads' = <<>>
  /\ block' = {}
  /\ overwritten' = TRUE
  /\ UNCHANGED <<counter, turn, clock>>

\* PiDevice::reset: each new object is made before the old one goes.
Reset ==
  /\ turn = "cpu"
  /\ resets < MaxResets
  /\ resets' = resets + 1
  /\ LET withoutGpu == Unobserve(observers, gpuId)
     IN  observers' = Unobserve(Observe(withoutGpu, observeId, "timer"), timerId)
  /\ timerId' = observeId
  /\ observeId' = observeId + 1
  /\ gpuId' = NoObserver
  /\ start' = clock
  /\ reads' = <<>>
  /\ block' = {}
  /\ overwritten' = TRUE
  /\ UNCHANGED <<counter, turn, clock>>

Tick == /\ clock < MaxTime
        /\ clock' = clock + 1
        /\ UNCHANGED <<device, counter, turn, history>>

Next == \/ \E a \in Addresses :
             \/ LoadWord(a)
             \/ LoadHalfword(a)
             \/ \E n \in Lengths : LoadBlock(a, n) \/ Store(a, n)
        \/ HostStore
        \/ CpuThrows
        \/ GpuCycle
        \/ Reset
        \/ Tick

Spec == Init /\ [][Next]_vars
-------------------------------------------------------------------------------
(* Whenever the guest runs, the observers are those of the current Timer   *)
(* and, once it had a cycle, of the current Gpu: a call to one of a        *)
(* replaced object would run on freed memory, and one lost would stop the  *)
(* counter or the mailbox.                                                 *)
ObserversLive ==
  observers = {[id |-> timerId, owner |-> "timer"]} \cup
               (IF gpuId = NoObserver THEN {} ELSE {[id |-> gpuId, owner |-> "gpu"]})

(* A guest that loads the high word, the low word and the high word again  *)
(* until both high words agree has the time of its second load, whatever   *)
(* was stored in the counter meanwhile: each load refreshes all of it.     *)
HighLowHighIsTime ==
  Len(reads) = 3 /\ reads[1].val = reads[3].val =>
    reads[1].val * WordSize + reads[2].val = reads[2].at

(* A block load that starts in the counter has both words of one time.     *)
(* One that starts below it has an earlier time, or what was last stored.  *)
BlockIsTime ==
  \A b \in block : /\ b.from = Counter => b.val = b.at
                   /\ b.own => b.val <= b.at
===============================================================================
