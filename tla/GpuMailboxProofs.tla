--------------------------- MODULE GpuMailboxProofs ---------------------------
(***************************************************************************)
(* The mailbox's invariants, for all sets of channels and messages, and    *)
(* every order of guest instructions, host stores and resets.              *)
(***************************************************************************)
EXTENDS GpuMailbox, TLAPS

\* A Gpu observes from its first cycle until it is replaced.
OneObserver == observers = IF isInit THEN 1 ELSE 0

\* A mail that was taken is still in the write register when it is answered.
MailInPlace == /\ accepted = IF hasMail THEN {box.write} ELSE {}
               /\ hasMail => isInit

(* ServedBeforeNextInstruction holds because the Gpu's turn follows each   *)
(* instruction, and it answers only if it is initialised: MailInPlace.     *)
IInv == /\ TypeOK
        /\ ServedBeforeNextInstruction
        /\ StatusTruthful
        /\ OneObserver
        /\ MailInPlace

(* Whatever is stored, a mailbox is left; and the status bits are stored   *)
(* with the status register only.                                          *)
LEMMA StoredType ==
  ASSUME NEW b \in Mailbox, NEW rs, NEW m \in Stored(b, rs)
  PROVE  /\ m \in Mailbox
         /\ "status" \notin rs => /\ m.readReady = b.readReady
                                  /\ m.writeReady = b.writeReady
BY DEF Stored, Mailbox

(* What the observer writes back is a mailbox whose poll register mirrors  *)
(* the read register, and whose mail is as it was.                         *)
LEMMA PickUpType ==
  ASSUME NEW m \in Mailbox, NEW reg, NEW event
  PROVE  LET p == PickUp(m, reg, event)
         IN  /\ p \in Mailbox
             /\ p.poll = p.read
             /\ p.write = m.write
             /\ p.readReady <=> m.readReady /\ ~(event = "Read" /\ reg = "read")
             /\ p.writeReady <=> m.writeReady /\ ~Accepts(m, reg, event)
BY DEF PickUp, Mailbox, Accepts

(* An instruction with one last access: if it leaves the bits as they were *)
(* before the observer saw it, the observer leaves them truthful.          *)
LEMMA AccessKeepsInv ==
  ASSUME IInv, CpuStep, NEW m \in Mailbox, NEW reg, NEW event, Noticed(m, reg, event),
         unread' \in BOOLEAN, dropped' \in BOOLEAN, bypassed' \in BOOLEAN,
         isInit /\ ~bypassed' =>
           /\ ~bypassed
           /\ m.writeReady = box.writeReady
           /\ (m.readReady /\ ~(event = "Read" /\ reg = "read")) <=> unread' /\ ~dropped'
  PROVE  IInv'
<1>. USE DEF CpuStep
<1>1. ~hasMail /\ accepted = {}
  BY DEF IInv, ServedBeforeNextInstruction
<1>2. CASE isInit
  <2>0. observers > 0
    BY <1>2 DEF IInv, OneObserver
  <2>1. /\ box' = PickUp(m, reg, event)
        /\ hasMail' <=> Accepts(m, reg, event)
        /\ hasMail' \in BOOLEAN
        /\ accepted' = IF hasMail' THEN {m.write} ELSE {}
    BY <1>1, <2>0, Zenon DEF Noticed
  <2>2. /\ box' \in Mailbox
        /\ box'.poll = box'.read
        /\ box'.write = m.write
        /\ box'.readReady <=> m.readReady /\ ~(event = "Read" /\ reg = "read")
        /\ box'.writeReady <=> m.writeReady /\ ~Accepts(m, reg, event)
    BY <2>1, PickUpType
  <2>3. TypeOK'
    <3>1. m.write \in Mail
      BY DEF Mailbox
    <3>. QED BY <2>1, <2>2, <3>1 DEF IInv, TypeOK
  <2>4. (OneObserver /\ MailInPlace /\ ServedBeforeNextInstruction)'
    BY <1>2, <2>1, <2>2 DEF IInv, OneObserver, MailInPlace, ServedBeforeNextInstruction
  <2>5. StatusTruthful'
    <3>. SUFFICES ASSUME ~bypassed'
                  PROVE  /\ box'.readReady <=> unread' /\ ~dropped'
                         /\ box'.writeReady <=> ~hasMail'
                         /\ box'.poll = box'.read
      BY DEF StatusTruthful
    <3>1. m.writeReady
      BY <1>1, <1>2 DEF IInv, StatusTruthful, TypeOK, Mailbox
    <3>. QED BY <1>2, <2>1, <2>2, <3>1
  <2>. QED BY <2>3, <2>4, <2>5 DEF IInv
<1>3. CASE ~isInit
  BY <1>1, <1>3 DEF Noticed, IInv, TypeOK, OneObserver, MailInPlace,
                    ServedBeforeNextInstruction, StatusTruthful
<1>. QED BY <1>2, <1>3

(* An instruction that the observer does not see.                          *)
LEMMA UnnoticedKeepsInv ==
  ASSUME IInv, CpuStep, box' \in Mailbox, UNCHANGED <<hasMail, accepted, dropped>>,
         unread' \in BOOLEAN, bypassed' = TRUE \/ UNCHANGED <<box, unread, bypassed>>
  PROVE  IInv'
BY DEF IInv, CpuStep, TypeOK, ServedBeforeNextInstruction, StatusTruthful, OneObserver, MailInPlace

(* Only the first register of the mailbox is the read register, and only   *)
(* a block of none begins there without it.                                *)
LEMMA ReadIsFirst ==
  ASSUME NEW first \in DOMAIN Registers, NEW last \in Int, last <= 7
  PROVE  Registers[first] = "read" <=> "read" \in Block(first, last)
                                       \/ (Registers[first] = "read" /\ Block(first, last) = {})
<1>1. DOMAIN Registers = 1..7
  BY DEF Registers
<1>2. \A i \in 1..7 : Registers[i] = "read" <=> i = 1
  BY DEF Registers
<1>3. first \in 1..7 /\ first..last \subseteq 1..7
  BY <1>1
<1>4. CASE first = 1
  <2>1. last >= 1 => 1 \in first..last
    BY <1>4
  <2>2. last < 1 => first..last = {}
    BY <1>4
  <2>. QED BY <1>2, <1>3, <1>4, <2>1, <2>2 DEF Block
<1>5. CASE first # 1
  <2>1. 1 \notin first..last
    BY <1>3, <1>5
  <2>. QED BY <1>2, <1>3, <1>5, <2>1 DEF Block
<1>. QED BY <1>4, <1>5

(* No instruction of the guest breaks the invariant.                       *)
LEMMA CpuKeepsInv == IInv /\ Cpu => IInv'
<1>. SUFFICES ASSUME IInv, Cpu
              PROVE  IInv'
  OBVIOUS
<1>0. /\ box \in Mailbox /\ unread \in BOOLEAN /\ dropped \in BOOLEAN
      /\ bypassed \in BOOLEAN
      /\ isInit /\ ~bypassed => (box.readReady <=> unread /\ ~dropped)
  BY DEF IInv, TypeOK, StatusTruthful
<1>1. CASE Elsewhere
  <2>. QED BY <1>0, <1>1, UnnoticedKeepsInv DEF Elsewhere, history
<1>2. ASSUME NEW i \in DOMAIN Registers, StoreWord(Registers[i])
      PROVE  IInv'
  <2>1. PICK m \in Stored(box, {Registers[i]}) : Noticed(m, Registers[i], "Write")
    BY <1>2 DEF StoreWord
  <2>2. /\ CpuStep
        /\ unread' = unread /\ dropped' = dropped
        /\ bypassed' = (bypassed \/ Registers[i] = "status")
    BY <1>2 DEF StoreWord
  <2>3. m \in Mailbox /\ (Registers[i] # "status" => /\ m.readReady = box.readReady
                                                     /\ m.writeReady = box.writeReady)
    BY <1>0, StoredType
  <2>. QED BY <1>0, <2>1, <2>2, <2>3, AccessKeepsInv
<1>3. ASSUME NEW i \in DOMAIN Registers, LoadWord(Registers[i])
      PROVE  IInv'
  <2>1. /\ CpuStep
        /\ Noticed(box, Registers[i], "Read")
        /\ unread' = (unread /\ Registers[i] # "read")
        /\ dropped' = dropped /\ bypassed' = bypassed
    BY <1>3 DEF LoadWord
  <2>. QED BY <1>0, <2>1, AccessKeepsInv
<1>4. ASSUME NEW i \in DOMAIN Registers, SwapWord(Registers[i])
      PROVE  IInv'
  <2>. DEFINE reg == Registers[i]
              loaded == IF observers > 0 THEN PickUp(box, reg, "Read") ELSE box
  <2>1. PICK m \in Stored(loaded, {reg}) : Noticed(m, reg, "Write")
    BY <1>4 DEF SwapWord
  <2>2. /\ CpuStep
        /\ unread' = (unread /\ reg # "read")
        /\ dropped' = dropped
        /\ bypassed' = (bypassed \/ reg = "status")
    BY <1>4 DEF SwapWord
  <2>3. /\ loaded \in Mailbox
        /\ isInit => /\ loaded.readReady <=> box.readReady /\ reg # "read"
                     /\ loaded.writeReady <=> box.writeReady
    BY <1>0, PickUpType DEF IInv, OneObserver, Accepts, Mailbox
  <2>. HIDE DEF loaded
  <2>4. m \in Mailbox /\ (reg # "status" => /\ m.readReady = loaded.readReady
                                            /\ m.writeReady = loaded.writeReady)
    BY <2>3, StoredType
  <2>5. isInit /\ ~bypassed' => /\ m.writeReady = box.writeReady
                                /\ m.readReady <=> unread' /\ ~dropped'
    BY <1>0, <2>2, <2>3, <2>4 DEF Mailbox
  <2>. QED BY <1>0, <2>1, <2>2, <2>4, <2>5, AccessKeepsInv
<1>5. CASE StorePart
  <2>1. PICK m \in Stored(box, {"write"}) : Noticed(m, "write", "Write")
    BY <1>5 DEF StorePart
  <2>2. CpuStep /\ unread' = unread /\ dropped' = dropped /\ bypassed' = bypassed
    BY <1>5 DEF StorePart
  <2>3. m \in Mailbox /\ m.readReady = box.readReady /\ m.writeReady = box.writeReady
    BY <1>0, StoredType
  <2>. QED BY <1>0, <2>1, <2>2, <2>3, AccessKeepsInv
<1>6. ASSUME NEW i \in DOMAIN Registers, NEW j \in Int, StoreBlock(i, j)
      PROVE  IInv'
  <2>1. PICK m \in Stored(box, Block(i, j)) : Noticed(m, Registers[i], "Write")
    BY <1>6 DEF StoreBlock
  <2>2. /\ CpuStep
        /\ unread' = unread /\ dropped' = dropped
        /\ bypassed' = (bypassed \/ "status" \in Block(i, j))
    BY <1>6 DEF StoreBlock
  <2>3. m \in Mailbox /\ ("status" \notin Block(i, j) => /\ m.readReady = box.readReady
                                                         /\ m.writeReady = box.writeReady)
    BY <1>0, StoredType
  <2>. QED BY <1>0, <2>1, <2>2, <2>3, AccessKeepsInv
<1>7. ASSUME NEW i \in DOMAIN Registers, NEW j \in Int, j <= 7, LoadBlock(i, j)
      PROVE  IInv'
  <2>. DEFINE empty == Registers[i] = "read" /\ Block(i, j) = {}
  <2>1. /\ CpuStep
        /\ Noticed(box, Registers[i], "Read")
        /\ unread' = (unread /\ "read" \notin Block(i, j))
        /\ dropped' = (dropped \/ empty)
        /\ bypassed' = bypassed
    BY <1>7 DEF LoadBlock
  <2>2. Registers[i] = "read" <=> "read" \in Block(i, j) \/ empty
    BY <1>7, ReadIsFirst
  <2>. HIDE DEF empty
  <2>3. unread' \in BOOLEAN /\ dropped' \in BOOLEAN /\ bypassed' \in BOOLEAN
    BY <1>0, <2>1, Zenon
  <2>4. isInit /\ ~bypassed' =>
          /\ ~bypassed
          /\ (box.readReady /\ ~("Read" = "Read" /\ Registers[i] = "read")) <=> unread' /\ ~dropped'
    BY <1>0, <2>1, <2>2, Zenon
  <2>. QED BY <1>0, <2>1, <2>3, <2>4, AccessKeepsInv
<1>8. ASSUME NEW j \in DOMAIN Registers, StoreBlockFromBelow(j)
      PROVE  IInv'
  <2>1. box' \in Mailbox
    BY <1>0, <1>8, StoredType DEF StoreBlockFromBelow
  <2>. QED BY <1>0, <1>8, <2>1, UnnoticedKeepsInv DEF StoreBlockFromBelow
<1>9. CASE LoadBlockFromBelow
  BY <1>0, <1>9, UnnoticedKeepsInv DEF LoadBlockFromBelow
<1>10. DOMAIN Registers = 1..7
  BY DEF Registers
<1>11. ASSUME NEW i \in DOMAIN Registers, NEW j \in DOMAIN Registers,
              StoreBlock(i, j) \/ LoadBlock(i, j)
       PROVE  IInv'
  BY <1>6, <1>7, <1>10, <1>11
<1>12. ASSUME NEW i \in DOMAIN Registers, StoreBlock(i, i - 1) \/ LoadBlock(i, i - 1)
       PROVE  IInv'
  <2>1. i - 1 \in Int /\ i - 1 <= 7
    BY <1>10
  <2>. QED BY <1>6, <1>7, <1>12, <2>1
<1>. QED BY <1>1, <1>2, <1>3, <1>4, <1>5, <1>8, <1>9, <1>11, <1>12 DEF Cpu

(* A new device satisfies the invariant. *)
LEMMA InitHasInv == Init => IInv
<1>. SUFFICES ASSUME Init
              PROVE  IInv
  OBVIOUS
<1>1. box \in Mailbox
  BY DEF Init, Mailbox, Mail
<1>2. observers \in 0..1 /\ frameBuffer \in Messages \cup {NoMessage} /\ accepted \subseteq Mail
  BY DEF Init
<1>3. TypeOK
  BY <1>1, <1>2, Zenon DEF Init, TypeOK
<1>. QED BY <1>3 DEF Init, IInv, ServedBeforeNextInstruction, StatusTruthful,
                     OneObserver, MailInPlace

(* The Gpu's turn: its first cycle writes garbage and truthful bits, and a *)
(* mail is answered from the register that it was taken from.              *)
LEMMA GpuKeepsInv == IInv /\ (GpuInit \/ GpuServe \/ GpuIdle) => IInv'
<1>. SUFFICES ASSUME IInv, GpuInit \/ GpuServe \/ GpuIdle
              PROVE  IInv'
  OBVIOUS
<1>. USE DEF GpuStep
<1>1. CASE GpuInit
  <2>1. ~hasMail /\ accepted = {}
    BY <1>1 DEF IInv, MailInPlace, GpuInit
  <2>2. box' \in Mailbox /\ ~box'.readReady /\ box'.writeReady /\ box'.poll = box'.read
    BY <1>1 DEF GpuInit
  <2>3. OneObserver'
    BY <1>1 DEF GpuInit, IInv, OneObserver
  <2>4. TypeOK'
    <3>1. observers' \in 0..1
      BY <1>1, <2>3 DEF GpuInit, OneObserver
    <3>. QED BY <1>1, <2>2, <3>1, Zenon DEF GpuInit, IInv, TypeOK
  <2>5. (ServedBeforeNextInstruction /\ MailInPlace)'
    BY <1>1, <2>1 DEF GpuInit, ServedBeforeNextInstruction, MailInPlace
  <2>6. StatusTruthful'
    BY <1>1, <2>1, <2>2 DEF GpuInit, StatusTruthful
  <2>. QED BY <2>3, <2>4, <2>5, <2>6 DEF IInv
<1>2. CASE GpuServe
  <2>1. box \in Mailbox
    BY DEF IInv, TypeOK
  <2>2. /\ box' \in Mailbox
        /\ box'.readReady = TRUE /\ box'.writeReady = TRUE
        /\ box'.poll = box'.read
    BY <1>2, <2>1 DEF GpuServe, Served, Response, Mailbox, Mail
  <2>3. frameBuffer' \in Messages \cup {NoMessage}
    BY <1>2, <2>1 DEF GpuServe, Mailbox, Mail
  <2>. QED BY <1>2, <2>2, <2>3 DEF GpuServe, IInv, TypeOK, ServedBeforeNextInstruction,
                                   StatusTruthful, OneObserver, MailInPlace
<1>3. CASE GpuIdle
  BY <1>3 DEF GpuIdle, gpu, history, IInv, TypeOK, ServedBeforeNextInstruction,
              StatusTruthful, OneObserver, MailInPlace
<1>. QED BY <1>1, <1>2, <1>3

(* What the host does between two cycles.                                  *)
LEMMA HostKeepsInv == IInv /\ (HostStore \/ Reset) => IInv'
<1>1. IInv /\ HostStore => IInv'
  BY DEF HostStore, gpu, IInv, TypeOK, ServedBeforeNextInstruction, StatusTruthful,
         OneObserver, MailInPlace
<1>2. IInv /\ Reset => IInv'
  <2>. SUFFICES ASSUME IInv, Reset
                PROVE  IInv'
    OBVIOUS
  <2>1. OneObserver'
    BY DEF Reset, IInv, OneObserver
  <2>2. TypeOK'
    <3>1. observers' \in 0..1 /\ frameBuffer' \in Messages \cup {NoMessage}
          /\ accepted' \subseteq Mail
      BY <2>1 DEF Reset, OneObserver
    <3>. QED BY <3>1, Zenon DEF Reset, IInv, TypeOK
  <2>. QED BY <2>1, <2>2 DEF Reset, IInv, ServedBeforeNextInstruction, StatusTruthful,
                             MailInPlace
<1>. QED BY <1>1, <1>2

(* Every step keeps the invariant.                                         *)
THEOREM Inductive == IInv /\ [Next]_vars => IInv'
<1>1. IInv /\ UNCHANGED vars => IInv'
  BY DEF vars, gpu, history, IInv, TypeOK, ServedBeforeNextInstruction, StatusTruthful,
         OneObserver, MailInPlace
<1>. QED BY <1>1, CpuKeepsInv, GpuKeepsInv, HostKeepsInv DEF Next

(* The invariant of every behaviour.                                       *)
THEOREM Invariant == Spec => []IInv
BY InitHasInv, Inductive, PTL DEF Spec

(* Type correctness, with at most one observer on the mailbox at any time, *)
(* for all channels and messages, through every reset.                     *)
THEOREM TypeCorrect == Spec => []TypeOK
<1>1. IInv => TypeOK
  BY DEF IInv
<1>. QED BY <1>1, Invariant, PTL

(* No guest instruction finds a mail that is taken and not answered.       *)
THEOREM ServedAtOnce == Spec => []ServedBeforeNextInstruction
<1>1. IInv => ServedBeforeNextInstruction
  BY DEF IInv
<1>. QED BY <1>1, Invariant, PTL

(* The status bits and the poll register are truthful, whatever order the  *)
(* guest's accesses, the observer and the Gpu's turns come in.             *)
THEOREM StatusCorrect == Spec => []StatusTruthful
<1>1. IInv => StatusTruthful
  BY DEF IInv
<1>. QED BY <1>1, Invariant, PTL

(* An answer is to the mail that was taken: only the Gpu's turn ends the   *)
(* mail, and until then it stays in the write register.                    *)
THEOREM AnswersCorrect == Spec => AnswersAcceptedMail
<1>1. IInv /\ [Next]_vars =>
        [\A mail \in accepted : accepted' = {} =>
           /\ box'.read = [chan |-> mail.chan, msg |-> NoMessage]
           /\ frameBuffer' = mail.msg]_vars
  <2>. SUFFICES ASSUME IInv, Next, NEW mail \in accepted, accepted' = {}
                PROVE  /\ box'.read = [chan |-> mail.chan, msg |-> NoMessage]
                       /\ frameBuffer' = mail.msg
    OBVIOUS
  <2>1. turn = "gpu" /\ hasMail /\ isInit /\ mail = box.write /\ box \in Mailbox
    BY DEF IInv, TypeOK, ServedBeforeNextInstruction, MailInPlace
  <2>2. GpuServe
    <3>1. ~Cpu
      BY <2>1 DEF Cpu, Elsewhere, StoreWord, LoadWord, SwapWord, StorePart, StoreBlock,
                  LoadBlock, StoreBlockFromBelow, LoadBlockFromBelow, CpuStep
    <3>. QED BY <2>1, <3>1 DEF Next, HostStore, Reset, GpuInit, GpuIdle
  <2>. QED BY <2>1, <2>2 DEF GpuServe, Served, Response, Mailbox
<1>. QED BY <1>1, Invariant, PTL DEF Spec, AnswersAcceptedMail
===============================================================================
