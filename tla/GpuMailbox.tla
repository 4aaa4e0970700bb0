------------------------------ MODULE GpuMailbox ------------------------------
(***************************************************************************)
(* The mailbox between the guest program and Arm::Gpu (armgpu.cpp), as     *)
(* PiDevice drives them: one machine.cycle(), then one gpu->cycle(), and   *)
(* a reset between two cycles.                                             *)
(*                                                                         *)
(* The mailbox is guest memory that the GPU observes.  The guest may do to *)
(* it whatever its instructions can: load, store or swap a register, store *)
(* a part of the write register, load or store a block of registers.  An   *)
(* instruction that throws ends the device's cycle before the GPU's turn   *)
(* and none throws after it touched memory, so it is a stutter here.       *)
(*                                                                         *)
(* Of the frame buffer a mail asks for, only whose mail it was is kept.    *)
(* The values of the sender, configuration and reserved registers are left *)
(* out: the GPU writes back what it read.  After the first GPU cycle the   *)
(* registers hold garbage, because init() writes an uninitialised Mailbox. *)
(***************************************************************************)
EXTENDS Integers, FiniteSets

CONSTANTS Channels,  \* the low four bits of a mail
          Messages   \* the other bits: the address of a frame buffer request

NoMessage == "none"  \* the message of a response, 0 in the code

ASSUME MailAssumption == NoMessage \notin Messages

Mail == [chan : Channels, msg : Messages \cup {NoMessage}]

\* The mailbox in memory; a status bit of 0 means ready.
Mailbox == [read : Mail, poll : Mail, write : Mail,
            readReady : BOOLEAN, writeReady : BOOLEAN]

\* The registers by address, from the one below which nothing is observed.
Registers == <<"read", "reserved", "poll", "sender", "status", "configuration", "write">>

VARIABLES box,        \* the mailbox registers in guest memory
          isInit,     \* the current Gpu has had its first cycle
          hasMail,    \* Gpu::hasMail
          observers,  \* mailbox observers registered with the Memory
          frameBuffer,\* whose request frameBufferInfo answers
          turn,       \* what PiDevice::cycle runs next: "cpu" or "gpu"
          \* History, for the properties only:
          accepted,   \* {} or the one mail that the GPU has taken and not answered
          unread,     \* a response that the guest has not loaded yet
          dropped,    \* a load of no register made the observer take it as loaded
          bypassed    \* the guest stored the status itself, or got round the observer

gpu     == <<isInit, hasMail, observers, frameBuffer>>
history == <<accepted, unread, dropped, bypassed>>
vars    == <<box, gpu, turn, history>>

\* A device just constructed: zeroed memory, where both status bits read as ready.
Init == /\ \E c \in Channels :
             LET zero == [chan |-> c, msg |-> NoMessage]
             IN  box = [read |-> zero, poll |-> zero, write |-> zero,
                        readReady |-> TRUE, writeReady |-> TRUE]
        /\ isInit = FALSE
        /\ hasMail = FALSE
        /\ observers = 0
        /\ frameBuffer = NoMessage
        /\ turn = "cpu"
        /\ accepted = {}
        /\ unread = FALSE
        /\ dropped = FALSE
        /\ bypassed = FALSE
-------------------------------------------------------------------------------
(* Gpu::pickupMail, called after an observed access whose first byte is in *)
(* register `reg`, with the memory `m` that the access left.               *)
Accepts(m, reg, event) == event = "Write" /\ reg = "write" /\ m.writeReady

PickUpAnyLoad(m, reg, event) ==
  [m EXCEPT !.poll = m.read,
            !.writeReady = @ /\ ~Accepts(m, reg, event),
            !.readReady  = @ /\ ~(event = "Read")]

\* The mailbox that pickupMail writes back: the poll register mirrors the read one.
PickUp(m, reg, event) ==
  [m EXCEPT !.poll = m.read,
            !.writeReady = @ /\ ~Accepts(m, reg, event),
            !.readReady  = @ /\ ~(event = "Read" /\ reg = "read")]

\* The guest's instruction leaves `m` in memory; the observer, if there is one
\* and the access is in its zone, sees an `event` at `reg`.
Noticed(m, reg, event) ==
  IF observers > 0
  THEN /\ box' = PickUp(m, reg, event)
       /\ hasMail' = (hasMail \/ Accepts(m, reg, event))
       /\ accepted' = IF Accepts(m, reg, event) THEN {m.write} ELSE accepted
  ELSE box' = m /\ UNCHANGED <<hasMail, accepted>>

CpuStep == /\ turn = "cpu"
           /\ turn' = "gpu"
           /\ UNCHANGED <<isInit, observers, frameBuffer>>

\* An instruction that does not touch the mailbox.
Elsewhere == CpuStep /\ UNCHANGED <<box, hasMail, history>>

\* What a store of any values to the registers `rs` of `b` may leave in memory.
Stored(b, rs) ==
  LET Values(r, all) == IF r \in rs THEN all ELSE {b[r]}
      Bits(bit) == IF "status" \in rs THEN BOOLEAN ELSE {b[bit]}
  IN  [read : Values("read", Mail), poll : Values("poll", Mail),
       write : Values("write", Mail),
       readReady : Bits("readReady"), writeReady : Bits("writeReady")]

\* str: TrackedMemory::putWord.
StoreWord(reg) ==
  /\ CpuStep
  /\ \E m \in Stored(box, {reg}) : Noticed(m, reg, "Write")
  /\ bypassed' = (bypassed \/ reg = "status")
  /\ UNCHANGED <<unread, dropped>>

\* strb, strh to the write register: the mail is taken with the other bytes as
\* they were.  Of the two events of a strh the second finds the register busy.
StorePart ==
  /\ CpuStep
  /\ \E m \in Stored(box, {"write"}) :
       /\ m.write.chan = box.write.chan \/ m.write.msg = box.write.msg
       /\ Noticed(m, "write", "Write")
  /\ UNCHANGED <<unread, dropped, bypassed>>

\* ldr, ldrb, ldrh: TrackedMemory::word, byte.
LoadWord(reg) ==
  /\ CpuStep
  /\ Noticed(box, reg, "Read")
  /\ unread' = (unread /\ reg # "read")
  /\ UNCHANGED <<dropped, bypassed>>

\* swp: a load and a store by one instruction, each with its event.
SwapWord(reg) ==
  /\ CpuStep
  /\ LET loaded == IF observers > 0 THEN PickUp(box, reg, "Read") ELSE box
     IN  \E m \in Stored(loaded, {reg}) : Noticed(m, reg, "Write")
  /\ unread' = (unread /\ reg # "read")
  /\ bypassed' = (bypassed \/ reg = "status")
  /\ UNCHANGED dropped

Block(first, last) == {Registers[i] : i \in first..last}

\* stm, ldm, strd, ldrd that start in the mailbox: one event, at the first
\* register.  A block that starts anywhere above has an event too, which does
\* what a load of "reserved" does.  The register list may be empty, last being
\* first - 1: execObservers takes the length of 0 for a byte's and the event is
\* as of an access, of which nothing is stored or loaded.
StoreBlock(first, last) ==
  /\ CpuStep
  /\ \E m \in Stored(box, Block(first, last)) : Noticed(m, Registers[first], "Write")
  /\ bypassed' = (bypassed \/ "status" \in Block(first, last))
  /\ UNCHANGED <<unread, dropped>>

LoadBlock(first, last) ==
  /\ CpuStep
  /\ Noticed(box, Registers[first], "Read")
  /\ unread' = (unread /\ "read" \notin Block(first, last))
  /\ dropped' = (dropped \/ (Registers[first] = "read" /\ Block(first, last) = {}))
  /\ UNCHANGED bypassed

\* The same from below the mailbox: execObserversInRange takes the block's length
\* for its end and finds no collision.
StoreBlockFromBelow(last) ==
  /\ CpuStep
  /\ box' \in Stored(box, Block(1, last))
  /\ bypassed' = TRUE
  /\ UNCHANGED <<hasMail, accepted, unread, dropped>>

LoadBlockFromBelow ==
  /\ CpuStep
  /\ unread' = FALSE
  /\ bypassed' = TRUE
  /\ UNCHANGED <<box, hasMail, accepted, dropped>>

\* The host writes the untracked memory between two cycles.
HostStore ==
  /\ turn = "cpu"
  /\ box' \in Mailbox
  /\ bypassed' = TRUE
  /\ UNCHANGED <<gpu, turn, accepted, unread, dropped>>
-------------------------------------------------------------------------------
GpuStep == turn = "gpu" /\ turn' = "cpu"

\* The first cycle of a Gpu: observe, and reset the mailbox over garbage.
GpuInit ==
  /\ GpuStep
  /\ ~isInit
  /\ isInit' = TRUE
  /\ observers' = observers + 1
  /\ box' \in {m \in Mailbox : ~m.readReady /\ m.writeReady /\ m.poll = m.read}
  /\ unread' = FALSE
  /\ dropped' = FALSE
  /\ bypassed' = FALSE
  /\ UNCHANGED <<hasMail, frameBuffer, accepted>>

ResponseOnReadChannel(m) == [chan |-> m.read.chan, msg |-> NoMessage]

Response(m) == [chan |-> m.write.chan, msg |-> NoMessage]

\* The mailbox after a mail was answered.
Served(m) ==
  [m EXCEPT !.read = Response(m), !.poll = Response(m),
            !.readReady = TRUE, !.writeReady = TRUE]

GpuServeKeepsMail ==
  /\ GpuStep
  /\ isInit /\ hasMail
  /\ frameBuffer' = box.write.msg
  /\ box' = Served(box)
  /\ accepted' = {}
  /\ unread' = TRUE
  /\ dropped' = FALSE
  /\ UNCHANGED <<isInit, hasMail, observers, bypassed>>

GpuServe ==
  /\ GpuStep
  /\ isInit /\ hasMail
  /\ frameBuffer' = box.write.msg
  /\ box' = Served(box)
  /\ hasMail' = FALSE
  /\ accepted' = {}
  /\ unread' = TRUE
  /\ dropped' = FALSE
  /\ UNCHANGED <<isInit, observers, bypassed>>

GpuIdle ==
  /\ GpuStep
  /\ isInit /\ ~hasMail
  /\ UNCHANGED <<box, gpu, history>>

ResetKeepsObserver ==
  /\ turn = "cpu"
  /\ isInit' = FALSE
  /\ hasMail' = FALSE
  /\ frameBuffer' = NoMessage
  /\ accepted' = {}
  /\ UNCHANGED <<box, observers, turn, unread, dropped, bypassed>>

\* PiDevice::reset: a new Gpu, and the old one stops observing as it goes.
Reset ==
  /\ turn = "cpu"
  /\ isInit' = FALSE
  /\ hasMail' = FALSE
  /\ observers' = observers - (IF isInit THEN 1 ELSE 0)
  /\ frameBuffer' = NoMessage
  /\ accepted' = {}
  /\ UNCHANGED <<box, turn, unread, dropped, bypassed>>

Cpu == \/ Elsewhere
       \/ \E i \in DOMAIN Registers :
            StoreWord(Registers[i]) \/ LoadWord(Registers[i]) \/ SwapWord(Registers[i])
       \/ StorePart
       \/ \E i, j \in DOMAIN Registers :
            i <= j /\ (StoreBlock(i, j) \/ LoadBlock(i, j))
       \/ \E i \in DOMAIN Registers : StoreBlock(i, i - 1) \/ LoadBlock(i, i - 1)
       \/ \E j \in DOMAIN Registers : StoreBlockFromBelow(j)
       \/ LoadBlockFromBelow

Next == Cpu \/ HostStore \/ GpuInit \/ GpuServe \/ GpuIdle \/ Reset

Spec == Init /\ [][Next]_vars
-------------------------------------------------------------------------------
TypeOK == /\ box \in Mailbox
          /\ isInit \in BOOLEAN /\ hasMail \in BOOLEAN
          /\ observers \in 0..1
          /\ frameBuffer \in Messages \cup {NoMessage}
          /\ turn \in {"cpu", "gpu"}
          /\ accepted \subseteq Mail
          /\ unread \in BOOLEAN /\ dropped \in BOOLEAN /\ bypassed \in BOOLEAN

(* A mail is answered before the guest's next instruction, whatever that   *)
(* is: no guest can change a mail that the GPU has taken, or send a second *)
(* one over it.                                                            *)
ServedBeforeNextInstruction == turn = "cpu" => ~hasMail /\ accepted = {}

(* The GPU answers the mail it took: the response carries that mail's      *)
(* channel and the frame buffer is the one its message asked for.          *)
AnswersAcceptedMail ==
  [][\A mail \in accepted : accepted' = {} =>
       /\ box'.read = [chan |-> mail.chan, msg |-> NoMessage]
       /\ frameBuffer' = mail.msg]_vars

(* The registers tell the truth, whatever instructions the guest uses,     *)
(* unless it wrote the status or reached the mailbox unobserved: read-ready *)
(* shows ready exactly while there is a response that the guest has not     *)
(* loaded, nor lost to an ldm of no registers at the read register, which   *)
(* the observer takes for a load; write-ready exactly while the GPU has no  *)
(* mail; and the poll register shows what the read register does.           *)
StatusTruthful ==
  isInit /\ ~bypassed =>
    /\ box.readReady <=> unread /\ ~dropped
    /\ box.writeReady <=> ~hasMail
    /\ box.poll = box.read
===============================================================================
