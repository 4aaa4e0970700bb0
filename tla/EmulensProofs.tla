---------------------------- MODULE EmulensProofs ----------------------------
(***************************************************************************)
(* The session's safety invariants, for any memory, pages and documents,   *)
(* and any order of events with any number of boxes open; that the views   *)
(* catch up is liveness, and left to TLC.  And the hex editor's: what its  *)
(* gap buffer does to the text, undoing and redoing, and typing hex        *)
(* digits, for every document, clipboard and number of commands.           *)
(***************************************************************************)
EXTENDS Session, HexDocument, SequenceTheorems, TLAPS
\* What the box stack and the memory are made of.
Typed == /\ boxes \in Seq({"error", "file", "size", "message"})
         /\ mem \in [Address -> Values]
         /\ pagesList \subseteq allocated /\ allocated \subseteq Pages

ErrorOpen == \E i \in DOMAIN boxes : boxes[i] = "error"

(* AtRestViewsCurrent speaks of sessions without boxes.  It is inductive   *)
(* only if it holds behind every box but an error's, whose handler updates *)
(* the views when the box has gone.                                        *)
CurrentBehindBoxes ==
  ~ErrorOpen /\ ~running /\ ~terminated =>
    /\ ~behind
    /\ pagesList = allocated \ grown
    /\ typed \/ text = reg

IInv == Typed /\ ErrorStops /\ CurrentBehindBoxes /\ DocumentIsInMemory

(* Opening a box and answering the one on top.                             *)
LEMMA BoxOpened ==
  ASSUME NEW box \in {"error", "file", "size", "message"},
         NEW s \in Seq({"error", "file", "size", "message"})
  PROVE  /\ Append(s, box) \in Seq({"error", "file", "size", "message"})
         /\ (\E i \in DOMAIN Append(s, box) : Append(s, box)[i] = "error")
              <=> box = "error" \/ \E i \in DOMAIN s : s[i] = "error"
<1>1. /\ DOMAIN Append(s, box) = 1..Len(s) + 1
      /\ DOMAIN s = 1..Len(s)
      /\ Append(s, box)[Len(s) + 1] = box
      /\ \A i \in 1..Len(s) : Append(s, box)[i] = s[i]
      /\ Len(s) \in Nat
  OBVIOUS
<1>. QED BY <1>1

(* Answering a box takes it off the stack, and adds none.                  *)
LEMMA BoxAnswered ==
  ASSUME Typed, NEW box, Top(box)
  PROVE  /\ Below \in Seq({"error", "file", "size", "message"})
         /\ box # "error" =>
              (ErrorOpen <=> \E i \in DOMAIN Below : Below[i] = "error")
<1>1. Len(boxes) \in Nat \ {0} /\ boxes[Len(boxes)] = box /\ DOMAIN boxes = 1..Len(boxes)
  BY DEF Top, Typed
<1>2. /\ Below \in Seq({"error", "file", "size", "message"})
      /\ DOMAIN Below = 1..Len(boxes) - 1
      /\ \A i \in 1..Len(boxes) - 1 : Below[i] = boxes[i]
  BY <1>1 DEF Below, Typed
<1>. QED BY <1>1, <1>2 DEF ErrorOpen

(* Where no box is open, none is of an error.                              *)
LEMMA NoBoxes == boxes = <<>> => ~ErrorOpen
BY DEF ErrorOpen

(* A load, or cycles of the device, leave a memory, and either the bytes   *)
(* of the document or the knowledge that it is outdated.                   *)
LEMMA DeviceTyped ==
  ASSUME SessionAssumption, IInv, DeviceCycle \/ LoadIntoDevice, UNCHANGED editor
  PROVE  /\ mem' \in [Address -> Values]
         /\ allocated \subseteq allocated' /\ allocated' \subseteq Pages
         /\ DocumentIsInMemory'
<1>. USE DEF IInv, Typed, editor
<1>1. CASE UNCHANGED <<mem, allocated, outdated>>
  BY <1>1 DEF DocumentIsInMemory, Place
<1>2. ASSUME NEW written \in SUBSET Address, NEW pages \in SUBSET Pages,
             mem' \in [Address -> Values], \A a \in Address \ written : mem'[a] = mem[a],
             allocated' = allocated \cup pages, Outdates(written)
      PROVE  /\ mem' \in [Address -> Values]
             /\ allocated \subseteq allocated' /\ allocated' \subseteq Pages
             /\ DocumentIsInMemory'
  <2>1. ASSUME NEW d \in document, NEW a \in Address, Place(a) \in DOMAIN d, ~outdated'
        PROVE  mem'[a] = d[Place(a)]
    <3>1. ~outdated /\ a \notin written
      BY <1>2, <2>1 DEF Outdates
    <3>. QED BY <1>2, <2>1, <3>1 DEF DocumentIsInMemory
  <2>2. \A a \in Address : Place(a)' = Place(a)
    BY DEF Place
  <2>. QED BY <1>2, <2>1, <2>2 DEF DocumentIsInMemory
<1>3. CASE DeviceCycle
  <2>1. CASE \E a \in Address, v \in Values :
               /\ mem' = [mem EXCEPT ![a] = v] /\ allocated' = allocated \cup {PageOf(a)}
               /\ Outdates({a})
    <3>1. PICK a \in Address, v \in Values :
            /\ mem' = [mem EXCEPT ![a] = v] /\ allocated' = allocated \cup {PageOf(a)}
            /\ Outdates({a})
      BY <2>1
    <3>2. mem' \in [Address -> Values] /\ \A b \in Address \ {a} : mem'[b] = mem[b]
      BY <3>1
    <3>3. {PageOf(a)} \in SUBSET Pages /\ {a} \in SUBSET Address
      BY DEF Pages
    <3>. QED BY <1>2, <3>1, <3>2, <3>3
  <2>. QED BY <1>1, <1>3, <2>1 DEF DeviceCycle
<1>4. CASE LoadIntoDevice
  <2>1. PICK p \in Pages, v \in Values :
          /\ mem' = [a \in Address |-> IF PageOf(a) = p THEN v ELSE mem[a]]
          /\ allocated' = allocated \cup {p}
          /\ Outdates({a \in Address : PageOf(a) = p})
    BY <1>4 DEF LoadIntoDevice
  <2>2. /\ mem' \in [Address -> Values]
        /\ \A b \in Address \ {a \in Address : PageOf(a) = p} : mem'[b] = mem[b]
    BY <2>1
  <2>3. {p} \in SUBSET Pages /\ {a \in Address : PageOf(a) = p} \in SUBSET Address
    OBVIOUS
  <2>. QED BY <1>2, <2>1, <2>2, <2>3
<1>. QED BY <1>3, <1>4

(* Updating the views makes them current, unless the device is running.    *)
LEMMA Updated ==
  ASSUME UpdateViews \/ UpdateViewsForce, pagesList \subseteq allocated, allocated \subseteq allocated'
  PROVE  /\ pagesList' \subseteq allocated'
         /\ CurrentBehindBoxes'
BY DEF UpdateViews, UpdateViewsForce, KeepViews, CurrentBehindBoxes

(* Cycles of the device, from the timer in whatever event loop or from the *)
(* step button.                                                            *)
LEMMA CycleKeepsInv == SessionAssumption /\ IInv /\ AnyCycle => IInv'
<1>. SUFFICES ASSUME SessionAssumption, IInv, AnyCycle
              PROVE  IInv'
  OBVIOUS
<1>. USE DEF IInv
<1>1. CASE Cycle
  <2>1. /\ mem' \in [Address -> Values]
        /\ allocated \subseteq allocated' /\ allocated' \subseteq Pages
        /\ DocumentIsInMemory'
    BY <1>1, DeviceTyped DEF Cycle
  <2>2. pagesList' \subseteq allocated' /\ CurrentBehindBoxes'
    BY <1>1, <2>1, Updated DEF Cycle, Typed
  <2>. QED BY <1>1, <2>1, <2>2 DEF Cycle, Typed, ErrorStops, editor
<1>2. CASE CycleError
  <2>1. /\ mem' \in [Address -> Values]
        /\ allocated \subseteq allocated' /\ allocated' \subseteq Pages
        /\ DocumentIsInMemory'
    BY <1>2, DeviceTyped DEF CycleError
  <2>2. boxes' \in Seq({"error", "file", "size", "message"}) /\ ErrorOpen'
    BY <1>2, BoxOpened DEF CycleError, Typed, ErrorOpen
  <2>3. Typed'
    BY <1>2, <2>1, <2>2 DEF CycleError, Typed, KeepViews, editor
  <2>. QED BY <1>2, <2>1, <2>2, <2>3 DEF CycleError, ErrorStops, CurrentBehindBoxes
<1>3. CASE CycleEscapes
  <2>1. /\ mem' \in [Address -> Values]
        /\ allocated \subseteq allocated' /\ allocated' \subseteq Pages
        /\ DocumentIsInMemory'
    BY <1>3, DeviceTyped DEF CycleEscapes
  <2>. QED BY <1>3, <2>1 DEF CycleEscapes, Typed, ErrorStops, CurrentBehindBoxes, KeepViews,
                             editor, toolbar
<1>. QED BY <1>1, <1>2, <1>3 DEF AnyCycle

(* A program that is loaded, or the message or question instead.           *)
LEMMA LoadKeepsInv ==
  ASSUME SessionAssumption, IInv, NEW rest \in Seq({"error", "file", "size", "message"}),
         (\E i \in DOMAIN rest : rest[i] = "error") <=> ErrorOpen,
         LoadProgram(rest)
  PROVE  IInv'
<1>. USE DEF IInv
<1>1. ASSUME NEW box \in {"message", "size"}, boxes' = Append(rest, box), OnlyBoxes
      PROVE  IInv'
  <2>1. boxes' \in Seq({"error", "file", "size", "message"}) /\ (ErrorOpen' <=> ErrorOpen)
    BY <1>1, BoxOpened DEF ErrorOpen
  <2>. QED BY <1>1, <2>1 DEF OnlyBoxes, device, views, editor, Typed, ErrorStops, ErrorOpen,
                             CurrentBehindBoxes, DocumentIsInMemory, Place
<1>2. CASE LoadIntoDevice /\ boxes' = rest /\ UNCHANGED <<running, editor>> /\ UpdateViews
  <2>1. /\ mem' \in [Address -> Values]
        /\ allocated \subseteq allocated' /\ allocated' \subseteq Pages
        /\ DocumentIsInMemory'
    BY <1>2, DeviceTyped
  <2>2. pagesList' \subseteq allocated' /\ CurrentBehindBoxes'
    BY <1>2, <2>1, Updated DEF Typed
  <2>. QED BY <1>2, <2>1, <2>2 DEF Typed, ErrorStops, ErrorOpen, editor
<1>. QED BY <1>1, <1>2 DEF LoadProgram

(* The user answers a box.                                                 *)
LEMMA AnswerKeepsInv == SessionAssumption /\ IInv /\ Answer => IInv'
<1>. SUFFICES ASSUME SessionAssumption, IInv, Answer
              PROVE  IInv'
  OBVIOUS
<1>. USE DEF IInv
<1>1. CASE ChooseFile
  BY <1>1, BoxAnswered, LoadKeepsInv DEF ChooseFile
<1>2. CASE ConfirmSize
  <2>1. LoadProgram(Below)
    BY <1>2 DEF ConfirmSize, LoadProgram
  <2>. QED BY <1>2, <2>1, BoxAnswered, LoadKeepsInv DEF ConfirmSize
<1>3. CASE Dismiss
  <2>1. boxes' \in Seq({"error", "file", "size", "message"}) /\ (ErrorOpen' <=> ErrorOpen)
    BY <1>3, BoxAnswered DEF Dismiss, ErrorOpen
  <2>. QED BY <1>3, <2>1 DEF Dismiss, OnlyBoxes, device, views, editor, Typed, ErrorStops,
                             ErrorOpen, CurrentBehindBoxes, DocumentIsInMemory, Place
<1>4. CASE DismissError
  <2>1. boxes' \in Seq({"error", "file", "size", "message"})
    BY <1>4, BoxAnswered DEF DismissError
  <2>2. ErrorOpen
    BY <1>4 DEF DismissError, Top, Typed, ErrorOpen
  <2>3. pagesList' \subseteq allocated' /\ CurrentBehindBoxes'
    BY <1>4, Updated DEF DismissError, Typed, device
  <2>. QED BY <1>4, <2>1, <2>2, <2>3 DEF DismissError, device, editor, Typed, ErrorStops,
                                         ErrorOpen, DocumentIsInMemory, Place
<1>. QED BY <1>1, <1>2, <1>3, <1>4 DEF Answer

(* The toolbar, where no box is open.                                      *)
LEMMA ToolbarKeepsInv ==
  SessionAssumption /\ IInv
    /\ (StartAutoRun \/ PauseAutoRun \/ TimePasses \/ ShowLoadProgram \/ RestartLastProgram)
  => IInv'
<1>. SUFFICES ASSUME SessionAssumption, IInv,
                     \/ StartAutoRun \/ PauseAutoRun \/ TimePasses
                     \/ ShowLoadProgram \/ RestartLastProgram
              PROVE  IInv'
  OBVIOUS
<1>. USE DEF IInv, device, views, editor, Typed, DocumentIsInMemory, Place
<1>1. StartAutoRun => IInv'
  BY NoBoxes DEF StartAutoRun, User, ErrorStops, ErrorOpen, CurrentBehindBoxes
<1>2. ASSUME PauseAutoRun
      PROVE  IInv'
  <2>1. pagesList' \subseteq allocated' /\ CurrentBehindBoxes'
    BY <1>2, Updated DEF PauseAutoRun
  <2>. QED BY <1>2, <2>1 DEF PauseAutoRun, UpdateViewsForce, ErrorStops
<1>3. TimePasses => IInv'
  BY DEF TimePasses, ErrorStops, ErrorOpen, CurrentBehindBoxes
<1>4. ASSUME User, NEW box \in {"file", "message"}, boxes' = <<box>>, OnlyBoxes
      PROVE  IInv'
  <2>1. <<box>> = Append(boxes, box) /\ ~ErrorOpen
    BY <1>4, NoBoxes DEF User
  <2>2. boxes' \in Seq({"error", "file", "size", "message"}) /\ ~ErrorOpen'
    BY <1>4, <2>1, BoxOpened DEF ErrorOpen
  <2>. QED BY <1>4, <2>1, <2>2 DEF OnlyBoxes, ErrorStops, ErrorOpen, CurrentBehindBoxes
<1>5. ShowLoadProgram => IInv'
  BY <1>4 DEF ShowLoadProgram
<1>6. RestartLastProgram => IInv'
  <2>1. ASSUME User, LoadProgram(<<>>)
        PROVE  IInv'
    <3>1. /\ <<>> \in Seq({"error", "file", "size", "message"})
          /\ ~ \E i \in DOMAIN <<>> : <<>>[i] = "error"
          /\ ~ErrorOpen
      BY <2>1, NoBoxes DEF User
    <3>. QED BY <2>1, <3>1, LoadKeepsInv
  <2>. QED BY <1>4, <2>1 DEF RestartLastProgram
<1>. QED BY <1>1, <1>2, <1>3, <1>5, <1>6

(* The register view: a focus that is lost behind a box saves and shows    *)
(* one register, and the rest of the views is as current as it was.        *)
LEMMA RegistersKeepInv == IInv /\ (FocusRegister \/ Type \/ EditingFinished) => IInv'
<1>. USE DEF IInv, device, views, editor, toolbar, Typed, DocumentIsInMemory, Place, ErrorStops,
             ErrorOpen,
             CurrentBehindBoxes
<1>1. IInv /\ FocusRegister => IInv'
  BY DEF FocusRegister
<1>2. IInv /\ Type => IInv'
  BY DEF Type
<1>3. IInv /\ EditingFinished => IInv'
  BY DEF EditingFinished
<1>. QED BY <1>1, <1>2, <1>3

(* The memory view: a page is read when it is shown, and the document is   *)
(* written from the page's address on when it is edited.                   *)
LEMMA MemoryKeepsInv ==
  ASSUME IInv, (\E p \in Pages : ShowOffset(p)) \/ EditDocument
  PROVE  IInv'
<1>. USE DEF IInv, device, views, toolbar
<1>1. ASSUME NEW p \in Pages, ShowOffset(p)
      PROVE  IInv'
  <2>1. /\ UNCHANGED <<device, views, toolbar, terminated>>
        /\ offset' = p /\ document' = {Page(p)}
    BY <1>1 DEF ShowOffset
  <2>2. ASSUME NEW d \in document', NEW a \in Address, Place(a)' \in DOMAIN d
        PROVE  mem'[a] = d[Place(a)']
    <3>1. p \in Int /\ a \in Int
      <4>1. PICK b \in Address : p = PageOf(b)
        BY DEF Pages
      <4>. QED BY <4>1, SessionAssumption DEF PageOf, Address
    <3>2. d = Page(p) /\ Place(a)' = a - p + 1 /\ p + Place(a)' - 1 = a
      BY <2>1, <2>2, <3>1 DEF Place
    <3>3. Page(p)[Place(a)'] = mem[a]
      BY <2>2, <3>2 DEF Page
    <3>. QED BY <2>1, <3>2, <3>3
  <2>3. DocumentIsInMemory'
    BY <2>2 DEF DocumentIsInMemory
  <2>. QED BY <2>1, <2>3 DEF Typed, ErrorStops, CurrentBehindBoxes, ErrorOpen
<1>2. CASE EditDocument
  <2>. PICK n \in 0..MaxDocument : \E d \in [1..n -> Values] : document' = {d} /\ SavePage(d)
    BY <1>2 DEF EditDocument
  <2>1. PICK d \in [1..n -> Values] : document' = {d} /\ SavePage(d)
    OBVIOUS
  <2>2. /\ mem' = [a \in Address |-> IF Place(a) \in DOMAIN d THEN d[Place(a)] ELSE mem[a]]
        /\ allocated \subseteq allocated' /\ allocated' \subseteq Pages
    BY <2>1 DEF SavePage, Typed, Pages
  <2>3. mem' \in [Address -> Values]
    <3>1. ASSUME NEW a \in Address
          PROVE  (IF Place(a) \in DOMAIN d THEN d[Place(a)] ELSE mem[a]) \in Values
      <4>1. DOMAIN d = 1..n /\ mem[a] \in Values
        BY DEF Typed
      <4>. QED BY <4>1
    <3>. QED BY <2>2, <3>1
  <2>4. /\ grown' = grown \cup (allocated' \ allocated)
        /\ UNCHANGED <<reg, text, typed, pagesList, behind, offset, toolbar, terminated>>
    BY <1>2 DEF EditDocument
  <2>5. \A a \in Address : Place(a)' = Place(a)
    BY <2>4 DEF Place
  <2>6. DocumentIsInMemory'
    BY <2>1, <2>2, <2>5 DEF DocumentIsInMemory
  <2>7. allocated' \ grown' = allocated \ grown
    BY <2>2, <2>4
  <2>8. CurrentBehindBoxes'
    BY <2>4, <2>7 DEF CurrentBehindBoxes, ErrorOpen
  <2>. QED BY <2>2, <2>3, <2>4, <2>6, <2>8 DEF Typed, ErrorStops
<1>. QED BY <1>1, <1>2

(* A session starts with an empty device and nothing shown.                *)
LEMMA InitHasInv == SessionAssumption /\ Init => IInv
<1>. SUFFICES ASSUME SessionAssumption, Init
              PROVE  IInv
  OBVIOUS
<1>1. mem \in [Address -> Values]
  BY DEF Init, SessionAssumption
<1>. QED BY <1>1 DEF Init, IInv, Typed, ErrorStops, CurrentBehindBoxes, DocumentIsInMemory, Place

(* Every step of the event loop keeps the invariant.                       *)
THEOREM Inductive == SessionAssumption /\ IInv /\ [Next]_vars => IInv'
<1>1. IInv /\ UNCHANGED vars => IInv'
  BY DEF vars, device, views, editor, toolbar, IInv, Typed, ErrorStops, ErrorOpen,
         CurrentBehindBoxes, DocumentIsInMemory, Place
<1>. QED BY <1>1, CycleKeepsInv, AnswerKeepsInv, ToolbarKeepsInv, RegistersKeepInv,
            MemoryKeepsInv DEF Next, TimerFires, Step

(* The invariant of every behaviour; fairness is not used.                 *)
THEOREM Invariant == Spec => []IInv
BY InitHasInv, Inductive, SessionAssumption, PTL DEF Spec

(* The device never runs behind an error box, however the boxes are        *)
(* stacked when the timer fires.                                           *)
THEOREM ErrorsStop == Spec => []ErrorStops
<1>1. IInv => ErrorStops
  BY DEF IInv
<1>. QED BY <1>1, Invariant, PTL

(* A session at rest shows the device as it is, but for pages that edits   *)
(* have allocated; for memories and pages of any sizes, documents of any   *)
(* length and boxes stacked in any way.                                    *)
THEOREM RestIsCurrent == Spec => []AtRestViewsCurrent
<1>1. IInv => AtRestViewsCurrent
  BY NoBoxes DEF IInv, CurrentBehindBoxes, AtRestViewsCurrent
<1>. QED BY <1>1, Invariant, PTL

(* The hex editor's bytes are in memory from its page's address on, also   *)
(* after edits that change how many they are, and past which pages they go *)
(* or the memory's end; unless the device has written to them.             *)
THEOREM DocumentCorrect == Spec => []DocumentIsInMemory
<1>1. IInv => DocumentIsInMemory
  BY DEF IInv
<1>. QED BY <1>1, Invariant, PTL
-------------------------------------------------------------------------------
(* What is cut out of a text.                                              *)
LEMMA MidFacts ==
  ASSUME NEW s \in Seq(Int), NEW pos \in Nat, NEW n \in Nat
  PROVE  /\ Mid(s, pos, n) \in Seq(Int)
         /\ Len(Mid(s, pos, n)) = IF pos + n <= Len(s) THEN n
                                  ELSE IF pos <= Len(s) THEN Len(s) - pos ELSE 0
         /\ \A k \in 1..Len(Mid(s, pos, n)) : Mid(s, pos, n)[k] = s[pos + k]
<1>. DEFINE last == IF pos + n < Len(s) THEN pos + n ELSE Len(s)
<1>1. Len(s) \in Nat /\ last \in Nat /\ pos + 1 \in Int /\ last <= Len(s)
  BY LenProperties
<1>2. \A i \in pos + 1..last : s[i] \in Int
  BY <1>1, ElementOfSeq
<1>3. Mid(s, pos, n) = SubSeq(s, pos + 1, last)
  BY DEF Mid
<1>4. /\ SubSeq(s, pos + 1, last) \in Seq(Int)
      /\ Len(SubSeq(s, pos + 1, last))
           = IF pos + 1 <= last THEN last - (pos + 1) + 1 ELSE 0
      /\ \A i \in 1..last - (pos + 1) + 1 :
           SubSeq(s, pos + 1, last)[i] = s[(pos + 1) + i - 1]
  <2>. DEFINE m == pos + 1
  <2>. HIDE DEF m, last
  <2>1. m \in Int /\ last \in Int /\ \A i \in m..last : s[i] \in Int
    BY <1>1, <1>2 DEF m
  <2>2. /\ SubSeq(s, m, last) \in Seq(Int)
        /\ Len(SubSeq(s, m, last)) = IF m <= last THEN last - m + 1 ELSE 0
        /\ \A i \in 1..last - m + 1 : SubSeq(s, m, last)[i] = s[m + i - 1]
    BY <2>1, SubSeqProperties
  <2>. QED BY <2>2 DEF m
<1>. DEFINE t == Mid(s, pos, n)
<1>5. t \in Seq(Int) /\ Len(t) = IF pos + 1 <= last THEN last - pos ELSE 0
  BY <1>1, <1>3, <1>4
<1>6. ASSUME NEW i \in 1..last - pos
      PROVE  t[i] = s[pos + i]
  <2>1. i \in 1..last - (pos + 1) + 1 /\ (pos + 1) + i - 1 = pos + i
    BY <1>1
  <2>2. SubSeq(s, pos + 1, last)[i] = s[(pos + 1) + i - 1]
    BY <1>4, <2>1
  <2>. QED BY <1>3, <2>1, <2>2
<1>. HIDE DEF t
<1>7. Len(t) = IF pos + n <= Len(s) THEN n ELSE IF pos <= Len(s) THEN Len(s) - pos ELSE 0
  BY <1>1, <1>5
<1>8. ASSUME NEW k \in 1..Len(t)
      PROVE  t[k] = s[pos + k]
  <2>1. k \in 1..last - pos
    BY <1>1, <1>5
  <2>. QED BY <2>1, <1>6
<1>. QED BY <1>5, <1>7, <1>8 DEF t

\* As an operator, for steps that cite it of long expressions.
IsMid(u, s, pos, n) ==
  /\ u \in Seq(Int)
  /\ Len(u) = IF pos + n <= Len(s) THEN n ELSE IF pos <= Len(s) THEN Len(s) - pos ELSE 0
  /\ \A k \in 1..Len(u) : u[k] = s[pos + k]

(* MidFacts in those words.                                                *)
LEMMA MidIs ==
  ASSUME NEW s \in Seq(Int), NEW pos \in Nat, NEW n \in Nat
  PROVE  IsMid(Mid(s, pos, n), s, pos, n)
BY MidFacts DEF IsMid

(* What is left from a position on.                                        *)
LEMMA FromFacts ==
  ASSUME NEW s \in Seq(Int), NEW pos \in Nat
  PROVE  /\ From(s, pos) \in Seq(Int)
         /\ Len(From(s, pos)) = IF pos <= Len(s) THEN Len(s) - pos ELSE 0
         /\ \A k \in 1..Len(From(s, pos)) : From(s, pos)[k] = s[pos + k]
<1>1. Len(s) \in Nat
  BY LenProperties
<1>. DEFINE n == Len(s)
<1>2. From(s, pos) = Mid(s, pos, n)
  BY <1>1 DEF From, Mid
<1>. HIDE DEF n
<1>3. n \in Nat
  BY <1>1 DEF n
<1>4. /\ Mid(s, pos, n) \in Seq(Int)
      /\ Len(Mid(s, pos, n)) = IF pos + n <= Len(s) THEN n
                               ELSE IF pos <= Len(s) THEN Len(s) - pos ELSE 0
      /\ \A k \in 1..Len(Mid(s, pos, n)) : Mid(s, pos, n)[k] = s[pos + k]
  BY <1>3, MidFacts
<1>5. Len(From(s, pos)) = IF pos <= Len(s) THEN Len(s) - pos ELSE 0
  BY <1>1, <1>2, <1>4 DEF n
<1>. QED BY <1>2, <1>4, <1>5

(* What a text is after a part of it was replaced.                         *)
IsSpliced(u, s, pos, n, data) ==
  /\ u \in Seq(Int)
  /\ Len(u) = pos + Len(data) + (IF pos + n <= Len(s) THEN Len(s) - (pos + n) ELSE 0)
  /\ \A k \in 1..Len(u) :
       u[k] = IF k <= pos THEN IF k <= Len(s) THEN s[k] ELSE Blank
              ELSE IF k <= pos + Len(data) THEN data[k - pos]
              ELSE s[k - Len(data) + n]

(* Splicing does that, wherever the part lies.                             *)
LEMMA SplicedFacts ==
  ASSUME NEW s \in Seq(Int), NEW pos \in Nat, NEW n \in Nat, NEW data \in Seq(Int)
  PROVE  IsSpliced(Spliced(s, pos, n, data), s, pos, n, data)
<1>. DEFINE f == IF pos > Len(s) THEN pos - Len(s) ELSE 0
            A == Left(s, pos)  F == [i \in 1..f |-> Blank]
            D == data  R == From(s, pos + n)
            AF == A \o F  AFD == AF \o D  T == AFD \o R
<1>1. /\ Len(s) \in Nat /\ Len(D) \in Nat /\ f \in Nat /\ pos + n \in Nat
      /\ D \in Seq(Int)
  BY LenProperties
<1>2. /\ A \in Seq(Int) /\ Len(A) = IF pos <= Len(s) THEN pos ELSE Len(s)
      /\ \A k \in 1..Len(A) : A[k] = s[k]
  <2>. DEFINE zero == 0
  <2>1. zero \in Nat /\ A = Mid(s, zero, pos)
    BY DEF Left
  <2>. HIDE DEF zero, A
  <2>2. /\ A \in Seq(Int)
        /\ Len(A) = IF zero + pos <= Len(s) THEN pos
                    ELSE IF zero <= Len(s) THEN Len(s) - zero ELSE 0
        /\ \A k \in 1..Len(A) : A[k] = s[zero + k]
    BY <2>1, MidFacts
  <2>3. Len(A) \in Nat
    BY <2>2, LenProperties
  <2>4. ASSUME NEW k \in 1..Len(A)
        PROVE  A[k] = s[k]
    <3>1. zero + k = k
      BY <2>3 DEF zero
    <3>. QED BY <2>2, <3>1
  <2>5. Len(A) = IF pos <= Len(s) THEN pos ELSE Len(s)
    BY <1>1, <2>2 DEF zero
  <2>. QED BY <2>2, <2>4, <2>5
<1>3. F \in Seq(Int) /\ Len(F) = f /\ \A k \in 1..f : F[k] = Blank
  <2>. HIDE DEF f
  <2>1. Blank \in Int
    BY DEF Blank
  <2>. QED BY <1>1, <2>1
<1>4. /\ R \in Seq(Int) /\ Len(R) = IF pos + n <= Len(s) THEN Len(s) - (pos + n) ELSE 0
      /\ \A k \in 1..Len(R) : R[k] = s[(pos + n) + k]
  <2>. DEFINE p == pos + n
  <2>. HIDE DEF p
  <2>1. p \in Nat
    BY <1>1 DEF p
  <2>2. /\ From(s, p) \in Seq(Int)
        /\ Len(From(s, p)) = IF p <= Len(s) THEN Len(s) - p ELSE 0
        /\ \A k \in 1..Len(From(s, p)) : From(s, p)[k] = s[p + k]
    BY <2>1, FromFacts
  <2>. QED BY <2>2 DEF p
<1>5. T = Spliced(s, pos, n, data)
  BY DEF Spliced
<1>. HIDE DEF A, F, R
<1>6. /\ AF \in Seq(Int) /\ Len(AF) = Len(A) + Len(F)
      /\ \A k \in 1..Len(A) + Len(F) : AF[k] = IF k <= Len(A) THEN A[k] ELSE F[k - Len(A)]
  BY <1>2, <1>3, ConcatProperties
<1>. HIDE DEF AF
<1>7. /\ AFD \in Seq(Int) /\ Len(AFD) = Len(AF) + Len(D)
      /\ \A k \in 1..Len(AF) + Len(D) : AFD[k] = IF k <= Len(AF) THEN AF[k] ELSE D[k - Len(AF)]
  <2>. HIDE DEF D
  <2>1. AF \in Seq(Int) /\ D \in Seq(Int)
    BY <1>1, <1>6
  <2>. QED BY <2>1, ConcatProperties
<1>. HIDE DEF AFD, D
<1>8. /\ T \in Seq(Int) /\ Len(T) = Len(AFD) + Len(R)
      /\ \A k \in 1..Len(AFD) + Len(R) : T[k] = IF k <= Len(AFD) THEN AFD[k] ELSE R[k - Len(AFD)]
  <2>1. AFD \in Seq(Int) /\ R \in Seq(Int)
    BY <1>4, <1>7
  <2>. QED BY <2>1, ConcatProperties
<1>. HIDE DEF T
<1>9. /\ Len(A) \in Nat /\ Len(R) \in Nat /\ Len(A) + f = pos
      /\ Len(AF) = pos /\ Len(AFD) = pos + Len(D)
      /\ Len(T) = pos + Len(D) + Len(R)
  <2>1. Len(A) \in Nat /\ Len(R) \in Nat
    BY <1>2, <1>4, LenProperties
  <2>2. Len(A) + f = pos
    <3>1. Len(A) = IF pos <= Len(s) THEN pos ELSE Len(s)
      BY <1>2
    <3>2. CASE pos > Len(s)
      <4>1. f = pos - Len(s) /\ Len(A) = Len(s)
        BY <1>1, <3>1, <3>2
      <4>. QED BY <1>1, <4>1
    <3>3. CASE ~(pos > Len(s))
      <4>1. f = 0 /\ Len(A) = pos
        BY <1>1, <3>1, <3>3
      <4>. QED BY <1>1, <4>1
    <3>. QED BY <3>2, <3>3
  <2>4. Len(F) = f
    BY <1>3
  <2>3. Len(AF) = Len(A) + Len(F) /\ Len(AFD) = Len(AF) + Len(D) /\ Len(T) = Len(AFD) + Len(R)
    BY <1>6, <1>7, <1>8
  <2>. QED BY <1>1, <2>1, <2>2, <2>3, <2>4
<1>10. ASSUME NEW k \in 1..Len(T)
       PROVE  T[k] = IF k <= pos THEN IF k <= Len(s) THEN s[k] ELSE Blank
                     ELSE IF k <= pos + Len(D) THEN D[k - pos]
                     ELSE s[k - Len(D) + n]
  <2>1. k \in 1..pos + Len(D) + Len(R)
    BY <1>9
  <2>2. CASE k <= pos
    <3>1. T[k] = AFD[k]
      BY <1>1, <1>8, <1>9, <2>1, <2>2
    <3>2. AFD[k] = AF[k]
      BY <1>1, <1>7, <1>9, <2>1, <2>2
    <3>3. CASE k <= Len(A)
      <4>1. k \in 1..Len(A) /\ k \in 1..Len(A) + Len(F)
        BY <1>1, <1>3, <1>9, <2>1, <3>3
      <4>4. AF[k] = A[k] /\ A[k] = s[k]
        BY <1>2, <1>6, <3>3, <4>1
      <4>2. k <= Len(s)
        BY <1>1, <1>2, <1>9, <2>1, <3>3
      <4>. QED BY <2>2, <3>1, <3>2, <4>2, <4>4
    <3>4. CASE ~(k <= Len(A))
      <4>4. k \in 1..Len(A) + Len(F) /\ k - Len(A) \in 1..f
        BY <1>1, <1>3, <1>9, <2>1, <2>2, <3>4
      <4>1. AF[k] = F[k - Len(A)] /\ k - Len(A) \in 1..f
        BY <1>6, <3>4, <4>4
      <4>2. F[k - Len(A)] = Blank
        BY <1>3, <4>1
      <4>3. ~(k <= Len(s))
        BY <1>1, <1>2, <1>9, <2>1, <2>2, <3>4
      <4>. QED BY <2>2, <3>1, <3>2, <4>1, <4>2, <4>3
    <3>. QED BY <3>3, <3>4
  <2>3. CASE k > pos /\ k <= pos + Len(D)
    <3>1. T[k] = AFD[k]
      BY <1>1, <1>8, <1>9, <2>1, <2>3
    <3>2. AFD[k] = D[k - pos]
      BY <1>1, <1>7, <1>9, <2>1, <2>3
    <3>. QED BY <1>1, <2>1, <2>3, <3>1, <3>2
  <2>4. CASE k > pos + Len(D)
    <3>1. T[k] = R[k - (pos + Len(D))] /\ k - (pos + Len(D)) \in 1..Len(R)
      BY <1>1, <1>8, <1>9, <2>1, <2>4
    <3>2. R[k - (pos + Len(D))] = s[(pos + n) + (k - (pos + Len(D)))]
      BY <1>4, <3>1
    <3>3. (pos + n) + (k - (pos + Len(D))) = k - Len(D) + n
      BY <1>1, <2>1
    <3>4. ~(k <= pos) /\ ~(k <= pos + Len(D))
      BY <1>1, <2>1, <2>4
    <3>. QED BY <3>1, <3>2, <3>3, <3>4
  <2>. QED BY <1>1, <2>1, <2>2, <2>3, <2>4
<1>11. Len(T) = pos + Len(D) + (IF pos + n <= Len(s) THEN Len(s) - (pos + n) ELSE 0)
  BY <1>4, <1>9
<1>. QED BY <1>5, <1>8, <1>10, <1>11 DEF D, IsSpliced
-------------------------------------------------------------------------------
\* Gap buffers whose gap lies inside the buffer.
Gaps == {g \in [buffer : Seq(Int), start : Nat, end : Nat] :
           g.start <= g.end /\ g.end <= Len(g.buffer)}

(* A gap and the text around it have the length of the buffer.             *)
LEMMA GapFacts ==
  ASSUME NEW g \in Gaps
  PROVE  /\ g.buffer \in Seq(Int) /\ g.start \in Nat /\ g.end \in Nat
         /\ g.start <= g.end /\ g.end <= Len(g.buffer)
         /\ Len(g.buffer) \in Nat /\ GapLength(g) \in Nat /\ Length(g) \in Nat
         /\ g.end = g.start + GapLength(g) /\ Len(g.buffer) = Length(g) + GapLength(g)
         /\ g.start <= Length(g)
<1>1. /\ g.buffer \in Seq(Int) /\ g.start \in Nat /\ g.end \in Nat
      /\ g.start <= g.end /\ g.end <= Len(g.buffer)
  BY DEF Gaps
<1>. DEFINE n == Len(g.buffer)
<1>2. n \in Nat
  BY <1>1, LenProperties
<1>3. GapLength(g) = g.end - g.start /\ Length(g) = n - (g.end - g.start)
  BY DEF GapLength, Length
<1>. HIDE DEF n
<1>4. /\ GapLength(g) \in Nat /\ Length(g) \in Nat /\ g.end = g.start + GapLength(g)
      /\ n = Length(g) + GapLength(g) /\ g.start <= Length(g)
  <2>. DEFINE x == g.start  y == g.end  p == GapLength(g)  q == Length(g)
  <2>1. x \in Nat /\ y \in Nat /\ x <= y /\ y <= n /\ p = y - x /\ q = n - (y - x)
    BY <1>1, <1>3 DEF n
  <2>. HIDE DEF x, y, p, q
  <2>2. p \in Nat /\ q \in Nat /\ y = x + p /\ n = q + p /\ x <= q
    BY <1>2, <2>1
  <2>. QED BY <2>2 DEF x, y, p, q
<1>. QED BY <1>1, <1>2, <1>4 DEF n

(* The bytes of a gap buffer's text are those before and after the gap.    *)
LEMMA TextFacts ==
  ASSUME NEW g \in Gaps
  PROVE  /\ ToByteArray(g) \in Seq(Int) /\ Len(ToByteArray(g)) = Length(g)
         /\ \A k \in 1..Length(g) :
              ToByteArray(g)[k] = g.buffer[IF k <= g.start THEN k ELSE k + GapLength(g)]
<1>. DEFINE b == g.buffer  S == g.start  E == g.end  A == Left(b, S)  R == From(b, E)
            G == GapLength(g)  N == Length(g)
<1>1. /\ b \in Seq(Int) /\ S \in Nat /\ E \in Nat /\ S <= E /\ E <= Len(b)
      /\ Len(b) \in Nat /\ G \in Nat /\ N \in Nat /\ E = S + G /\ Len(b) = N + G /\ S <= N
  BY GapFacts
<1>2. ToByteArray(g) = A \o R
  BY DEF ToByteArray
<1>. HIDE DEF b, S, E, G, N
<1>3. A \in Seq(Int) /\ Len(A) = S /\ \A k \in 1..Len(A) : A[k] = b[k]
  <2>. DEFINE zero == 0
  <2>1. zero \in Nat /\ A = Mid(b, zero, S)
    BY DEF Left
  <2>. HIDE DEF zero, A
  <2>2. /\ A \in Seq(Int)
        /\ Len(A) = IF zero + S <= Len(b) THEN S
                    ELSE IF zero <= Len(b) THEN Len(b) - zero ELSE 0
        /\ \A k \in 1..Len(A) : A[k] = b[zero + k]
    <3>1. b \in Seq(Int) /\ S \in Nat /\ zero \in Nat
      BY <1>1, <2>1
    <3>. QED BY <2>1, <3>1, MidFacts
  <2>3. Len(A) = S
    BY <1>1, <2>2 DEF zero
  <2>4. ASSUME NEW k \in 1..Len(A)
        PROVE  A[k] = b[k]
    <3>1. zero + k = k
      BY <1>1, <2>3 DEF zero
    <3>. QED BY <2>2, <3>1
  <2>. QED BY <2>2, <2>3, <2>4
<1>4. R \in Seq(Int) /\ Len(R) = N - S /\ \A k \in 1..Len(R) : R[k] = b[E + k]
  <2>. HIDE DEF R
  <2>1. /\ R \in Seq(Int) /\ Len(R) = IF E <= Len(b) THEN Len(b) - E ELSE 0
        /\ \A k \in 1..Len(R) : R[k] = b[E + k]
    BY <1>1, FromFacts DEF R
  <2>. QED BY <1>1, <2>1
<1>. DEFINE t == A \o R
<1>. HIDE DEF A, R
<1>5. A \in Seq(Int) /\ R \in Seq(Int)
  BY <1>3, <1>4
<1>6. /\ t \in Seq(Int) /\ Len(t) = Len(A) + Len(R)
      /\ \A k \in 1..Len(A) + Len(R) : t[k] = IF k <= Len(A) THEN A[k] ELSE R[k - Len(A)]
  BY <1>5, ConcatProperties
<1>. HIDE DEF t
<1>7. Len(t) = N
  BY <1>1, <1>3, <1>4, <1>6
<1>8. ASSUME NEW k \in 1..N
      PROVE  t[k] = b[IF k <= S THEN k ELSE k + G]
  <2>1. CASE k <= S
    <3>1. k \in 1..Len(A) /\ k \in 1..Len(A) + Len(R) /\ k <= Len(A)
      BY <1>1, <1>3, <1>4, <2>1
    <3>2. t[k] = A[k] /\ A[k] = b[k]
      BY <1>3, <1>6, <3>1
    <3>. QED BY <2>1, <3>2
  <2>2. CASE ~(k <= S)
    <3>1. /\ k \in 1..Len(A) + Len(R) /\ ~(k <= Len(A)) /\ k - S \in 1..Len(R)
          /\ E + (k - S) = k + G
      BY <1>1, <1>3, <1>4, <2>2
    <3>2. t[k] = R[k - S]
      BY <1>3, <1>6, <3>1
    <3>3. R[k - S] = b[k + G]
      BY <1>4, <3>1
    <3>. QED BY <2>2, <3>2, <3>3
  <2>. QED BY <2>1, <2>2
<1>9. ToByteArray(g) = t
  BY <1>2 DEF t
<1>. QED BY <1>6, <1>7, <1>8, <1>9 DEF N, b, S, G

(* A text with those bytes is the gap buffer's.                            *)
LEMMA TextIs ==
  ASSUME NEW g \in Gaps, NEW t \in Seq(Int), Len(t) = Length(g),
         \A k \in 1..Length(g) : t[k] = g.buffer[IF k <= g.start THEN k ELSE k + GapLength(g)]
  PROVE  ToByteArray(g) = t
<1>. DEFINE u == ToByteArray(g)
<1>1. /\ u \in Seq(Int) /\ Len(u) = Length(g)
      /\ \A k \in 1..Length(g) : u[k] = g.buffer[IF k <= g.start THEN k ELSE k + GapLength(g)]
  BY TextFacts
<1>. HIDE DEF u
<1>2. Len(u) = Len(t) /\ \A k \in 1..Len(u) : u[k] = t[k]
  BY <1>1
<1>3. u = t
  BY <1>1, <1>2, SeqEqual
<1>. QED BY <1>3 DEF u

(* A replacement behind the gap.                                           *)
LEMMA ReplaceBehind ==
  ASSUME NEW g \in Gaps, NEW i \in Nat, NEW data \in Seq(Int), i >= g.start
  PROVE  /\ Replace(g, i, data) \in Gaps
         /\ GapLength(Replace(g, i, data)) = GapLength(g)
         /\ ToByteArray(Replace(g, i, data)) = Spliced(ToByteArray(g), i, Len(data), data)
<1>. DEFINE b == g.buffer  S == g.start  E == g.end  G == GapLength(g)  N == Length(g)
            L == Len(data)  t == ToByteArray(g)  u == Spliced(t, i, L, data)
            p == i + G  c == Spliced(b, p, L, data)  h == [g EXCEPT !.buffer = c]
<1>1. /\ b \in Seq(Int) /\ S \in Nat /\ E \in Nat /\ S <= E /\ E <= Len(b)
      /\ Len(b) \in Nat /\ G \in Nat /\ N \in Nat /\ E = S + G /\ Len(b) = N + G /\ S <= N
  BY GapFacts
<1>2. /\ t \in Seq(Int) /\ Len(t) = N
      /\ \A k \in 1..N : t[k] = b[IF k <= S THEN k ELSE k + G]
  BY TextFacts
<1>3. Replace(g, i, data) = h
  BY DEF Replace
<1>4. L \in Nat /\ i >= S
  BY LenProperties
<1>13. Len(data) = L
  OBVIOUS
<1>. HIDE DEF b, S, E, G, N, L, t
<1>5. p \in Nat
  BY <1>1
<1>. HIDE DEF p
<1>6. /\ c \in Seq(Int)
      /\ Len(c) = p + L + (IF p + L <= Len(b) THEN Len(b) - (p + L) ELSE 0)
      /\ \A k \in 1..Len(c) : c[k] = IF k <= p THEN IF k <= Len(b) THEN b[k] ELSE Blank
                                     ELSE IF k <= p + L THEN data[k - p] ELSE b[k - L + L]
  <2>1. b \in Seq(Int) /\ p \in Nat /\ L \in Nat
    BY <1>1, <1>4, <1>5
  <2>3. c = Spliced(b, p, L, data)
    OBVIOUS
  <2>. HIDE DEF c
  <2>2. /\ c \in Seq(Int)
        /\ Len(c) = p + Len(data) + (IF p + L <= Len(b) THEN Len(b) - (p + L) ELSE 0)
        /\ \A k \in 1..Len(c) : c[k] = IF k <= p THEN IF k <= Len(b) THEN b[k] ELSE Blank
                                       ELSE IF k <= p + Len(data) THEN data[k - p]
                                       ELSE b[k - Len(data) + L]
    <3>1. IsSpliced(Spliced(b, p, L, data), b, p, L, data)
      BY <2>1, SplicedFacts
    <3>2. IsSpliced(c, b, p, L, data)
      BY <2>3, <3>1
    <3>. QED BY <3>2 DEF IsSpliced
  <2>. QED BY <1>13, <2>2
<1>7. /\ u \in Seq(Int)
      /\ Len(u) = i + L + (IF i + L <= Len(t) THEN Len(t) - (i + L) ELSE 0)
      /\ \A k \in 1..Len(u) : u[k] = IF k <= i THEN IF k <= Len(t) THEN t[k] ELSE Blank
                                     ELSE IF k <= i + L THEN data[k - i] ELSE t[k - L + L]
  <2>1. t \in Seq(Int) /\ L \in Nat
    BY <1>2, <1>4
  <2>2. /\ u \in Seq(Int)
        /\ Len(u) = i + Len(data) + (IF i + L <= Len(t) THEN Len(t) - (i + L) ELSE 0)
        /\ \A k \in 1..Len(u) : u[k] = IF k <= i THEN IF k <= Len(t) THEN t[k] ELSE Blank
                                       ELSE IF k <= i + Len(data) THEN data[k - i]
                                       ELSE t[k - Len(data) + L]
    <3>1. IsSpliced(Spliced(t, i, L, data), t, i, L, data)
      BY <2>1, SplicedFacts
    <3>2. IsSpliced(u, t, i, L, data)
      BY <3>1
    <3>. QED BY <3>2 DEF IsSpliced
  <2>. QED BY <1>13, <2>2
<1>. HIDE DEF c, u
<1>8. Len(c) \in Nat /\ Len(c) = Len(u) + G /\ Len(u) \in Nat /\ E <= Len(c)
  <2>1. CASE i + L <= N
    BY <1>1, <1>2, <1>4, <1>6, <1>7, <2>1 DEF p
  <2>2. CASE ~(i + L <= N)
    BY <1>1, <1>2, <1>4, <1>6, <1>7, <2>2 DEF p
  <2>. QED BY <2>1, <2>2
<1>9. h \in Gaps /\ h.buffer = c /\ h.start = S /\ h.end = E
  <2>1. g \in [buffer : Seq(Int), start : Nat, end : Nat] /\ g.start = S /\ g.end = E
    BY DEF Gaps, S, E
  <2>2. /\ h \in [buffer : Seq(Int), start : Nat, end : Nat]
        /\ h.buffer = c /\ h.start = S /\ h.end = E
    BY <1>6, <2>1
  <2>. QED BY <1>1, <1>8, <2>2 DEF Gaps
<1>. HIDE DEF h
<1>10. GapLength(h) = G /\ Length(h) = Len(u)
  <2>1. GapLength(h) = E - S /\ Length(h) = Len(c) - (E - S)
    BY <1>9 DEF GapLength, Length
  <2>. QED BY <1>1, <1>8, <2>1
<1>11. ASSUME NEW k \in 1..Len(u)
       PROVE  u[k] = c[IF k <= S THEN k ELSE k + G]
  <2>1. k \in Nat /\ k \in 1..Len(c) /\ k + G \in 1..Len(c)
    BY <1>1, <1>8
  <2>2. CASE k <= S
    <3>1. k <= i /\ k <= N /\ k <= p /\ k <= Len(b) /\ k \in 1..N
      BY <1>1, <1>4, <1>8, <2>1, <2>2 DEF p
    <3>2. u[k] = t[k]
      BY <1>2, <1>7, <3>1
    <3>3. t[k] = b[k]
      BY <1>2, <2>2, <3>1
    <3>4. c[k] = b[k]
      BY <1>6, <2>1, <3>1
    <3>. QED BY <2>2, <3>2, <3>3, <3>4
  <2>3. CASE k > S /\ k <= i
    <3>1. ~(k <= S) /\ k + G <= p
      BY <1>1, <2>1, <2>3 DEF p
    <3>2. CASE k <= N
      <4>1. k + G <= Len(b) /\ k \in 1..N
        BY <1>1, <2>1, <3>2
      <4>2. u[k] = t[k] /\ t[k] = b[k + G]
        BY <1>2, <1>7, <2>3, <3>1, <3>2, <4>1
      <4>3. c[k + G] = b[k + G]
        BY <1>6, <2>1, <3>1, <4>1
      <4>. QED BY <3>1, <4>2, <4>3
    <3>3. CASE ~(k <= N)
      <4>1. ~(k + G <= Len(b))
        BY <1>1, <2>1, <3>3
      <4>2. u[k] = Blank
        BY <1>2, <1>7, <2>3, <3>3
      <4>3. c[k + G] = Blank
        BY <1>6, <2>1, <3>1, <4>1
      <4>. QED BY <3>1, <4>2, <4>3
    <3>. QED BY <3>2, <3>3
  <2>4. CASE k > i /\ k <= i + L
    <3>1. ~(k <= S) /\ ~(k + G <= p) /\ k + G <= p + L /\ ~(k <= i) /\ (k + G) - p = k - i
      BY <1>1, <1>4, <2>1, <2>4 DEF p
    <3>2. u[k] = data[k - i]
      BY <1>7, <2>4, <3>1
    <3>3. c[k + G] = data[(k + G) - p]
      BY <1>6, <2>1, <3>1
    <3>. QED BY <3>1, <3>2, <3>3
  <2>5. CASE k > i + L
    <3>1. /\ ~(k <= S) /\ ~(k + G <= p) /\ ~(k + G <= p + L) /\ ~(k <= i) /\ ~(k <= i + L)
          /\ k - L + L = k /\ (k + G) - L + L = k + G
      BY <1>1, <1>4, <2>1, <2>5 DEF p
    <3>2. k \in 1..N
      BY <1>2, <1>4, <1>7, <2>1, <2>5
    <3>3. u[k] = t[k] /\ t[k] = b[k + G]
      BY <1>2, <1>7, <3>1, <3>2
    <3>4. c[k + G] = b[k + G]
      BY <1>6, <2>1, <3>1
    <3>. QED BY <3>1, <3>3, <3>4
  <2>6. k <= S \/ (k > S /\ k <= i) \/ (k > i /\ k <= i + L) \/ k > i + L
    BY <1>1, <1>4, <2>1
  <2>. QED BY <2>2, <2>3, <2>4, <2>5, <2>6
<1>12. ToByteArray(h) = u
  BY <1>7, <1>9, <1>10, <1>11, TextIs
<1>. QED BY <1>3, <1>9, <1>10, <1>12 DEF G, u, t, L

(* One that starts before the gap and reaches it.                          *)
LEMMA ReplaceAcross ==
  ASSUME NEW g \in Gaps, NEW i \in Nat, NEW data \in Seq(Int), i < g.start,
         ~ReplacesTooMuch(g, i, Len(data))
  PROVE  /\ Replace(g, i, data) \in Gaps
         /\ GapLength(Replace(g, i, data)) = GapLength(g)
         /\ ToByteArray(Replace(g, i, data)) = Spliced(ToByteArray(g), i, Len(data), data)
<1>. DEFINE b == g.buffer  S == g.start  E == g.end  G == GapLength(g)  N == Length(g)
            L == Len(data)  t == ToByteArray(g)  u == Spliced(t, i, L, data)
            n == S - i  left == Left(data, n)  right == From(data, n)  m == L - n
            front == Spliced(b, i, n, left)  back == Spliced(front, E, m, right)
            c == IF n < L THEN back ELSE front
            h == [g EXCEPT !.buffer = c]
<1>1. /\ b \in Seq(Int) /\ S \in Nat /\ E \in Nat /\ S <= E /\ E <= Len(b)
      /\ Len(b) \in Nat /\ G \in Nat /\ N \in Nat /\ E = S + G /\ Len(b) = N + G /\ S <= N
  BY GapFacts
<1>2. /\ t \in Seq(Int) /\ Len(t) = N
      /\ \A k \in 1..N : t[k] = b[IF k <= S THEN k ELSE k + G]
  BY TextFacts
<1>3. Replace(g, i, data) = h
  <2>1. ~(i >= S)
    BY <1>1
  <2>. QED BY <2>1 DEF Replace
<1>4. L \in Nat /\ i < S /\ i + L >= S
  <2>1. L \in Nat /\ ~(i + L < S)
    BY LenProperties DEF ReplacesTooMuch
  <2>. QED BY <1>1, <2>1
<1>5. Len(data) = L
  OBVIOUS
<1>. HIDE DEF b, S, E, G, N, L, t
<1>6. n \in Nat /\ m \in Nat /\ i + n = S /\ n <= L /\ n + m = L /\ i + L = S + m
  BY <1>1, <1>4
<1>. HIDE DEF n, m
<1>7. left \in Seq(Int) /\ Len(left) = n /\ \A k \in 1..n : left[k] = data[k]
  <2>. DEFINE zero == 0
  <2>1. zero \in Nat /\ left = Mid(data, zero, n)
    BY DEF Left
  <2>. HIDE DEF zero, left
  <2>2. /\ left \in Seq(Int)
        /\ Len(left) = IF zero + n <= Len(data) THEN n
                       ELSE IF zero <= Len(data) THEN Len(data) - zero ELSE 0
        /\ \A k \in 1..Len(left) : left[k] = data[zero + k]
    <3>1. IsMid(Mid(data, zero, n), data, zero, n)
      BY <1>6, <2>1, MidIs
    <3>2. IsMid(left, data, zero, n)
      BY <2>1, <3>1
    <3>. QED BY <3>2 DEF IsMid
  <2>3. Len(left) = n
    BY <1>4, <1>5, <1>6, <2>2 DEF zero
  <2>4. ASSUME NEW k \in 1..n
        PROVE  left[k] = data[k]
    <3>1. zero + k = k /\ k \in 1..Len(left)
      BY <1>6, <2>3 DEF zero
    <3>. QED BY <2>2, <3>1
  <2>. QED BY <2>2, <2>3, <2>4
<1>8. right \in Seq(Int) /\ Len(right) = m /\ \A k \in 1..m : right[k] = data[n + k]
  <2>. HIDE DEF right
  <2>1. /\ right \in Seq(Int)
        /\ Len(right) = IF n <= Len(data) THEN Len(data) - n ELSE 0
        /\ \A k \in 1..Len(right) : right[k] = data[n + k]
    BY <1>6, FromFacts DEF right
  <2>2. Len(right) = m
    BY <1>4, <1>5, <1>6, <2>1
  <2>. QED BY <2>1, <2>2
<1>. HIDE DEF left, right
<1>9. /\ front \in Seq(Int) /\ Len(front) = Len(b)
      /\ \A k \in 1..Len(b) : front[k] = IF k <= i THEN b[k]
                                         ELSE IF k <= S THEN data[k - i] ELSE b[k]
  <2>1. IsSpliced(front, b, i, n, left)
    BY <1>1, <1>6, <1>7, SplicedFacts
  <2>. HIDE DEF front
  <2>2. /\ front \in Seq(Int)
        /\ Len(front) = i + Len(left) + (IF i + n <= Len(b) THEN Len(b) - (i + n) ELSE 0)
        /\ \A k \in 1..Len(front) :
             front[k] = IF k <= i THEN IF k <= Len(b) THEN b[k] ELSE Blank
                        ELSE IF k <= i + Len(left) THEN left[k - i]
                        ELSE b[k - Len(left) + n]
    BY <2>1 DEF IsSpliced
  <2>3. Len(front) = Len(b)
    BY <1>1, <1>6, <1>7, <2>2
  <2>4. ASSUME NEW k \in 1..Len(b)
        PROVE  front[k] = IF k <= i THEN b[k] ELSE IF k <= S THEN data[k - i] ELSE b[k]
    <3>1. CASE k <= i
      BY <1>1, <2>2, <2>3, <3>1
    <3>2. CASE k > i /\ k <= S
      <4>1. k - i \in 1..n /\ ~(k <= i) /\ k <= i + Len(left)
        BY <1>1, <1>6, <1>7, <3>2
      <4>2. front[k] = left[k - i] /\ left[k - i] = data[k - i]
        BY <1>7, <2>2, <2>3, <4>1
      <4>. QED BY <3>2, <4>1, <4>2
    <3>3. CASE k > S
      <4>1. ~(k <= S) /\ ~(k <= i) /\ ~(k <= i + Len(left)) /\ k - Len(left) + n = k
        BY <1>1, <1>4, <1>6, <1>7, <3>3
      <4>2. front[k] = b[k - Len(left) + n]
        BY <2>2, <2>3, <4>1
      <4>. QED BY <4>1, <4>2
    <3>4. k <= i \/ (k > i /\ k <= S) \/ k > S
      BY <1>1
    <3>. QED BY <3>1, <3>2, <3>3, <3>4
  <2>. QED BY <2>2, <2>3, <2>4
<1>. HIDE DEF front
<1>10. /\ c \in Seq(Int)
       /\ Len(c) = IF E + m <= Len(b) THEN Len(b) ELSE E + m
       /\ \A k \in 1..Len(c) : c[k] = IF k <= E THEN front[k]
                                      ELSE IF k <= E + m THEN data[n + (k - E)] ELSE front[k]
  <2>1. CASE n < L
    <3>1. IsSpliced(back, front, E, m, right)
      BY <1>1, <1>6, <1>8, <1>9, SplicedFacts
    <3>2. c = back
      BY <2>1
    <3>. HIDE DEF back, c
    <3>3. /\ c \in Seq(Int)
          /\ Len(c) = E + Len(right) + (IF E + m <= Len(front) THEN Len(front) - (E + m) ELSE 0)
          /\ \A k \in 1..Len(c) :
               c[k] = IF k <= E THEN IF k <= Len(front) THEN front[k] ELSE Blank
                      ELSE IF k <= E + Len(right) THEN right[k - E]
                      ELSE front[k - Len(right) + m]
      BY <3>1, <3>2 DEF IsSpliced
    <3>4. Len(c) = IF E + m <= Len(b) THEN Len(b) ELSE E + m
      BY <1>1, <1>6, <1>8, <1>9, <3>3
    <3>5. ASSUME NEW k \in 1..Len(c)
          PROVE  c[k] = IF k <= E THEN front[k]
                        ELSE IF k <= E + m THEN data[n + (k - E)] ELSE front[k]
      <4>1. k \in Nat
        BY <1>1, <1>6, <3>4
      <4>2. CASE k <= E
        BY <1>1, <1>9, <3>3, <4>1, <4>2
      <4>3. CASE k > E /\ k <= E + m
        <5>1. k - E \in 1..m /\ ~(k <= E) /\ k <= E + Len(right)
          BY <1>1, <1>6, <1>8, <4>1, <4>3
        <5>2. c[k] = right[k - E] /\ right[k - E] = data[n + (k - E)]
          BY <1>8, <3>3, <5>1
        <5>. QED BY <4>3, <5>1, <5>2
      <4>4. CASE k > E + m
        <5>1. /\ ~(k <= E) /\ ~(k <= E + m) /\ ~(k <= E + Len(right))
              /\ k - Len(right) + m = k
          BY <1>1, <1>6, <1>8, <4>1, <4>4
        <5>2. c[k] = front[k - Len(right) + m]
          BY <3>3, <5>1
        <5>. QED BY <5>1, <5>2
      <4>5. k <= E \/ (k > E /\ k <= E + m) \/ k > E + m
        BY <1>1, <1>6, <4>1
      <4>. QED BY <4>2, <4>3, <4>4, <4>5
    <3>. QED BY <3>3, <3>4, <3>5
  <2>2. CASE ~(n < L)
    <3>1. c = front
      BY <2>2
    <3>. HIDE DEF c
    <3>2. m = 0 /\ E + m <= Len(b)
      BY <1>1, <1>4, <1>6, <2>2
    <3>3. Len(c) = IF E + m <= Len(b) THEN Len(b) ELSE E + m
      BY <1>9, <3>1, <3>2
    <3>4. ASSUME NEW k \in 1..Len(c)
          PROVE  c[k] = IF k <= E THEN front[k]
                        ELSE IF k <= E + m THEN data[n + (k - E)] ELSE front[k]
      <4>1. k <= E \/ ~(k <= E + m)
        BY <1>1, <1>9, <3>1, <3>2
      <4>. QED BY <3>1, <4>1
    <3>. QED BY <1>9, <3>1, <3>3, <3>4
  <2>. HIDE DEF c
  <2>. QED BY <2>1, <2>2
<1>. HIDE DEF c
<1>11. /\ u \in Seq(Int)
       /\ Len(u) = i + L + (IF i + L <= N THEN N - (i + L) ELSE 0)
       /\ \A k \in 1..Len(u) : u[k] = IF k <= i THEN IF k <= N THEN t[k] ELSE Blank
                                      ELSE IF k <= i + L THEN data[k - i] ELSE t[k - L + L]
  <2>1. IsSpliced(u, t, i, L, data)
    BY <1>2, <1>4, SplicedFacts
  <2>. HIDE DEF u
  <2>2. /\ u \in Seq(Int)
        /\ Len(u) = i + Len(data) + (IF i + L <= Len(t) THEN Len(t) - (i + L) ELSE 0)
        /\ \A k \in 1..Len(u) : u[k] = IF k <= i THEN IF k <= Len(t) THEN t[k] ELSE Blank
                                       ELSE IF k <= i + Len(data) THEN data[k - i]
                                       ELSE t[k - Len(data) + L]
    BY <2>1 DEF IsSpliced
  <2>. QED BY <1>2, <1>5, <2>2
<1>. HIDE DEF u
<1>12. Len(c) \in Nat /\ Len(c) = Len(u) + G /\ Len(u) \in Nat /\ E <= Len(c)
  <2>1. CASE i + L <= N
    <3>1. E + m <= Len(b)
      BY <1>1, <1>4, <1>6, <2>1
    <3>2. Len(c) = Len(b) /\ Len(u) = N
      BY <1>1, <1>4, <1>10, <1>11, <2>1, <3>1
    <3>. QED BY <1>1, <3>2
  <2>2. CASE ~(i + L <= N)
    <3>1. ~(E + m <= Len(b)) \/ E + m = Len(b)
      BY <1>1, <1>4, <1>6, <2>2
    <3>2. Len(c) = E + m /\ Len(u) = i + L
      BY <1>1, <1>4, <1>6, <1>10, <1>11, <2>2, <3>1
    <3>. QED BY <1>1, <1>4, <1>6, <3>2
  <2>. QED BY <2>1, <2>2
<1>13. h \in Gaps /\ h.buffer = c /\ h.start = S /\ h.end = E
  <2>1. g \in [buffer : Seq(Int), start : Nat, end : Nat] /\ g.start = S /\ g.end = E
    BY DEF Gaps, S, E
  <2>2. /\ h \in [buffer : Seq(Int), start : Nat, end : Nat]
        /\ h.buffer = c /\ h.start = S /\ h.end = E
    BY <1>10, <2>1
  <2>. QED BY <1>1, <1>12, <2>2 DEF Gaps
<1>. HIDE DEF h
<1>14. GapLength(h) = G /\ Length(h) = Len(u)
  <2>1. GapLength(h) = E - S /\ Length(h) = Len(c) - (E - S)
    BY <1>13 DEF GapLength, Length
  <2>. QED BY <1>1, <1>12, <2>1
<1>15. ASSUME NEW k \in 1..Len(u)
       PROVE  u[k] = c[IF k <= S THEN k ELSE k + G]
  <2>1. k \in Nat /\ k \in 1..Len(c) /\ k + G \in 1..Len(c)
    BY <1>1, <1>12
  <2>2. CASE k <= i
    <3>1. k <= S /\ k <= E /\ k <= N /\ k \in 1..N /\ k \in 1..Len(b)
      BY <1>1, <1>4, <2>1, <2>2
    <3>2. u[k] = t[k] /\ t[k] = b[k]
      BY <1>2, <1>11, <2>2, <3>1
    <3>3. c[k] = front[k] /\ front[k] = b[k]
      BY <1>9, <1>10, <2>1, <2>2, <3>1
    <3>. QED BY <3>1, <3>2, <3>3
  <2>3. CASE k > i /\ k <= S
    <3>1. ~(k <= i) /\ k <= i + L /\ k <= E /\ k \in 1..Len(b)
      BY <1>1, <1>4, <2>1, <2>3
    <3>2. u[k] = data[k - i]
      BY <1>11, <3>1
    <3>3. c[k] = front[k] /\ front[k] = data[k - i]
      BY <1>9, <1>10, <2>1, <2>3, <3>1
    <3>. QED BY <2>3, <3>2, <3>3
  <2>4. CASE k > S /\ k <= i + L
    <3>1. /\ ~(k <= i) /\ ~(k <= S) /\ ~(k + G <= E) /\ k + G <= E + m
          /\ n + ((k + G) - E) = k - i
      BY <1>1, <1>4, <1>6, <2>1, <2>4
    <3>2. u[k] = data[k - i]
      BY <1>11, <2>4, <3>1
    <3>3. c[k + G] = data[n + ((k + G) - E)]
      BY <1>10, <2>1, <3>1
    <3>. QED BY <3>1, <3>2, <3>3
  <2>5. CASE k > i + L
    <3>1. /\ ~(k <= i) /\ ~(k <= i + L) /\ ~(k <= S) /\ ~(k + G <= E) /\ ~(k + G <= E + m)
          /\ k - L + L = k
      BY <1>1, <1>4, <1>6, <2>1, <2>5
    <3>2. k \in 1..N /\ k + G \in 1..Len(b) /\ ~(k + G <= i) /\ ~(k + G <= S)
      BY <1>1, <1>4, <1>11, <2>1, <2>5
    <3>3. u[k] = t[k] /\ t[k] = b[k + G]
      BY <1>2, <1>11, <3>1, <3>2
    <3>4. c[k + G] = front[k + G] /\ front[k + G] = b[k + G]
      BY <1>9, <1>10, <2>1, <3>1, <3>2
    <3>. QED BY <3>1, <3>3, <3>4
  <2>6. k <= i \/ (k > i /\ k <= S) \/ (k > S /\ k <= i + L) \/ k > i + L
    BY <1>1, <1>4, <2>1
  <2>. QED BY <2>2, <2>3, <2>4, <2>5, <2>6
<1>16. ToByteArray(h) = u
  BY <1>11, <1>13, <1>14, <1>15, TextIs
<1>. QED BY <1>3, <1>13, <1>14, <1>16 DEF G, u, t, L

(* Replacing leaves the gap where it is, and does to the text what it      *)
(* should, unless all the replaced bytes lie before the gap.               *)
LEMMA ReplaceCorrect ==
  ASSUME NEW g \in Gaps, NEW i \in Nat, NEW data \in Seq(Int),
         ~ReplacesTooMuch(g, i, Len(data))
  PROVE  /\ Replace(g, i, data) \in Gaps
         /\ GapLength(Replace(g, i, data)) = GapLength(g)
         /\ ToByteArray(Replace(g, i, data)) = Spliced(ToByteArray(g), i, Len(data), data)
<1>1. g.start \in Nat
  BY GapFacts
<1>2. i >= g.start \/ i < g.start
  BY <1>1
<1>. QED BY <1>2, ReplaceBehind, ReplaceAcross
-------------------------------------------------------------------------------
(* The text that is left of a removal.                                     *)
Without(t, pos, n) == Left(t, pos) \o From(t, pos + n)

(* The bytes before a position.                                            *)
LEMMA LeftFacts ==
  ASSUME NEW s \in Seq(Int), NEW n \in Nat
  PROVE  /\ Left(s, n) \in Seq(Int)
         /\ Len(Left(s, n)) = IF n <= Len(s) THEN n ELSE Len(s)
         /\ \A k \in 1..Len(Left(s, n)) : Left(s, n)[k] = s[k]
<1>. DEFINE zero == 0  A == Left(s, n)
<1>1. zero \in Nat /\ A = Mid(s, zero, n) /\ Len(s) \in Nat
  BY LenProperties DEF Left
<1>. HIDE DEF zero, A
<1>2. /\ A \in Seq(Int)
      /\ Len(A) = IF zero + n <= Len(s) THEN n
                  ELSE IF zero <= Len(s) THEN Len(s) - zero ELSE 0
      /\ \A k \in 1..Len(A) : A[k] = s[zero + k]
  BY <1>1, MidFacts
<1>3. Len(A) = IF n <= Len(s) THEN n ELSE Len(s)
  BY <1>1, <1>2 DEF zero
<1>4. ASSUME NEW k \in 1..Len(A)
      PROVE  A[k] = s[k]
  <2>1. zero + k = k
    BY <1>1, <1>3 DEF zero
  <2>. QED BY <1>2, <2>1
<1>. QED BY <1>2, <1>3, <1>4 DEF A

(* What is left of a text is a text.                                       *)
LEMMA WithoutTypes ==
  ASSUME NEW t \in Seq(Int), NEW pos \in Nat, NEW n \in Nat
  PROVE  Without(t, pos, n) \in Seq(Int)
<1>. DEFINE p == pos + n
<1>1. p \in Nat
  OBVIOUS
<1>. HIDE DEF p
<1>2. Left(t, pos) \in Seq(Int) /\ From(t, p) \in Seq(Int)
  BY <1>1, LeftFacts, FromFacts
<1>. QED BY <1>2, ConcatProperties DEF Without, p

(* Without a part, the bytes behind it move up.                            *)
LEMMA WithoutFacts ==
  ASSUME NEW t \in Seq(Int), NEW pos \in Nat, NEW n \in Nat, pos + n <= Len(t)
  PROVE  /\ Without(t, pos, n) \in Seq(Int) /\ Len(Without(t, pos, n)) = Len(t) - n
         /\ \A k \in 1..Len(t) - n :
              Without(t, pos, n)[k] = t[IF k <= pos THEN k ELSE k + n]
<1>. DEFINE p == pos + n  A == Left(t, pos)  R == From(t, p)  u == A \o R
<1>1. p \in Nat /\ Len(t) \in Nat /\ p <= Len(t) /\ pos <= Len(t)
  BY LenProperties
<1>2. u = Without(t, pos, n) /\ p = pos + n
  BY DEF Without
<1>. HIDE DEF p
<1>3. A \in Seq(Int) /\ Len(A) = pos /\ \A k \in 1..pos : A[k] = t[k]
  <2>. HIDE DEF A
  <2>1. /\ A \in Seq(Int) /\ Len(A) = IF pos <= Len(t) THEN pos ELSE Len(t)
        /\ \A k \in 1..Len(A) : A[k] = t[k]
    BY LeftFacts DEF A
  <2>. QED BY <1>1, <2>1
<1>4. R \in Seq(Int) /\ Len(R) = Len(t) - p /\ \A k \in 1..Len(t) - p : R[k] = t[p + k]
  <2>. HIDE DEF R
  <2>1. /\ R \in Seq(Int) /\ Len(R) = IF p <= Len(t) THEN Len(t) - p ELSE 0
        /\ \A k \in 1..Len(R) : R[k] = t[p + k]
    BY <1>1, FromFacts DEF R
  <2>. QED BY <1>1, <2>1
<1>. HIDE DEF A, R
<1>5. /\ u \in Seq(Int) /\ Len(u) = Len(A) + Len(R)
      /\ \A k \in 1..Len(A) + Len(R) : u[k] = IF k <= Len(A) THEN A[k] ELSE R[k - Len(A)]
  <2>1. A \in Seq(Int) /\ R \in Seq(Int)
    BY <1>3, <1>4
  <2>. QED BY <2>1, ConcatProperties
<1>. HIDE DEF u
<1>6. Len(u) = Len(t) - n
  BY <1>1, <1>2, <1>3, <1>4, <1>5
<1>7. ASSUME NEW k \in 1..Len(t) - n
      PROVE  u[k] = t[IF k <= pos THEN k ELSE k + n]
  <2>1. k \in 1..Len(A) + Len(R)
    BY <1>1, <1>2, <1>3, <1>4
  <2>2. CASE k <= pos
    <3>1. k \in 1..pos /\ k <= Len(A)
      BY <1>1, <1>3, <2>2
    <3>2. u[k] = A[k] /\ A[k] = t[k]
      BY <1>3, <1>5, <2>1, <3>1
    <3>. QED BY <2>2, <3>2
  <2>3. CASE ~(k <= pos)
    <3>1. ~(k <= Len(A)) /\ k - pos \in 1..Len(t) - p /\ p + (k - pos) = k + n
      BY <1>1, <1>2, <1>3, <2>3
    <3>2. u[k] = R[k - pos]
      BY <1>3, <1>5, <2>1, <3>1
    <3>3. R[k - pos] = t[k + n]
      BY <1>4, <3>1
    <3>. QED BY <2>3, <3>2, <3>3
  <2>. QED BY <2>2, <2>3
<1>. QED BY <1>2, <1>5, <1>6, <1>7

(* It is shorter by that part.                                             *)
LEMMA WithoutLength ==
  ASSUME NEW t \in Seq(Int), NEW pos \in Nat, NEW n \in Nat, pos + n <= Len(t)
  PROVE  Len(Without(t, pos, n)) = Len(t) - n
BY WithoutFacts

(* A replaced part is put back by replacing it with what was there.        *)
LEMMA SpliceBack ==
  ASSUME NEW t \in Seq(Int), NEW pos \in Nat, NEW n \in Nat, pos + n <= Len(t),
         NEW data \in Seq(Int), Len(data) = n
  PROVE  Spliced(Spliced(t, pos, n, data), pos, n, Mid(t, pos, n)) = t
<1>. DEFINE old == Mid(t, pos, n)  u == Spliced(t, pos, n, data)  v == Spliced(u, pos, n, old)
<1>1. Len(t) \in Nat
  BY LenProperties
<1>2. old \in Seq(Int) /\ Len(old) = n /\ \A k \in 1..n : old[k] = t[pos + k]
  <2>. HIDE DEF old
  <2>1. /\ old \in Seq(Int)
        /\ Len(old) = IF pos + n <= Len(t) THEN n
                      ELSE IF pos <= Len(t) THEN Len(t) - pos ELSE 0
        /\ \A k \in 1..Len(old) : old[k] = t[pos + k]
    BY MidFacts DEF old
  <2>. QED BY <2>1
<1>. HIDE DEF old
<1>3. IsSpliced(u, t, pos, n, data)
  BY SplicedFacts
<1>. HIDE DEF u
<1>4. /\ u \in Seq(Int) /\ Len(u) = Len(t)
      /\ \A k \in 1..Len(t) : u[k] = IF k <= pos THEN t[k] ELSE IF k <= pos + n THEN data[k - pos]
                                     ELSE t[k]
  <2>1. /\ u \in Seq(Int)
        /\ Len(u) = pos + Len(data) + (IF pos + n <= Len(t) THEN Len(t) - (pos + n) ELSE 0)
        /\ \A k \in 1..Len(u) :
             u[k] = IF k <= pos THEN IF k <= Len(t) THEN t[k] ELSE Blank
                    ELSE IF k <= pos + Len(data) THEN data[k - pos]
                    ELSE t[k - Len(data) + n]
    BY <1>3 DEF IsSpliced
  <2>2. Len(u) = Len(t)
    BY <1>1, <2>1
  <2>3. ASSUME NEW k \in 1..Len(t)
        PROVE  u[k] = IF k <= pos THEN t[k] ELSE IF k <= pos + n THEN data[k - pos] ELSE t[k]
    <3>1. k - Len(data) + n = k /\ k <= Len(t) /\ k \in 1..Len(u)
      BY <1>1, <2>2
    <3>. QED BY <2>1, <3>1
  <2>. QED BY <2>1, <2>2, <2>3
<1>5. IsSpliced(v, u, pos, n, old)
  BY <1>2, <1>4, SplicedFacts
<1>. HIDE DEF v
<1>6. /\ v \in Seq(Int)
      /\ Len(v) = pos + Len(old) + (IF pos + n <= Len(u) THEN Len(u) - (pos + n) ELSE 0)
      /\ \A k \in 1..Len(v) :
           v[k] = IF k <= pos THEN IF k <= Len(u) THEN u[k] ELSE Blank
                  ELSE IF k <= pos + Len(old) THEN old[k - pos]
                  ELSE u[k - Len(old) + n]
  BY <1>5 DEF IsSpliced
<1>7. Len(v) = Len(t)
  BY <1>1, <1>2, <1>4, <1>6
<1>8. ASSUME NEW k \in 1..Len(t)
      PROVE  v[k] = t[k]
  <2>1. k - Len(old) + n = k /\ k <= Len(u) /\ k \in 1..Len(v)
    BY <1>1, <1>2, <1>4, <1>7
  <2>2. CASE k <= pos
    BY <1>4, <1>6, <2>1, <2>2
  <2>3. CASE k > pos /\ k <= pos + n
    <3>1. k - pos \in 1..n /\ pos + (k - pos) = k /\ ~(k <= pos)
      BY <1>1, <2>3
    <3>2. v[k] = old[k - pos]
      BY <1>2, <1>6, <2>1, <2>3, <3>1
    <3>. QED BY <1>2, <3>1, <3>2
  <2>4. CASE k > pos + n
    <3>1. ~(k <= pos) /\ ~(k <= pos + n)
      BY <1>1, <2>4
    <3>2. v[k] = u[k]
      BY <1>2, <1>6, <2>1, <3>1
    <3>3. u[k] = t[k]
      BY <1>4, <3>1
    <3>. QED BY <3>2, <3>3
  <2>5. k <= pos \/ (k > pos /\ k <= pos + n) \/ k > pos + n
    BY <1>1
  <2>. QED BY <2>2, <2>3, <2>4, <2>5
<1>9. v = t
  BY <1>6, <1>7, <1>8, SeqEqual
<1>. QED BY <1>9 DEF v, u, old

(* A removed part is put back by inserting it.                             *)
LEMMA WithoutBack ==
  ASSUME NEW t \in Seq(Int), NEW pos \in Nat, NEW n \in Nat, pos + n <= Len(t)
  PROVE  Spliced(Without(t, pos, n), pos, 0, Mid(t, pos, n)) = t
<1>. DEFINE old == Mid(t, pos, n)  u == Without(t, pos, n)  none == 0  v == Spliced(u, pos, none, old)
<1>1. Len(t) \in Nat /\ none \in Nat
  BY LenProperties
<1>2. old \in Seq(Int) /\ Len(old) = n /\ \A k \in 1..n : old[k] = t[pos + k]
  <2>. HIDE DEF old
  <2>1. /\ old \in Seq(Int)
        /\ Len(old) = IF pos + n <= Len(t) THEN n
                      ELSE IF pos <= Len(t) THEN Len(t) - pos ELSE 0
        /\ \A k \in 1..Len(old) : old[k] = t[pos + k]
    BY MidFacts DEF old
  <2>. QED BY <2>1
<1>. HIDE DEF old
<1>3. /\ u \in Seq(Int) /\ Len(u) = Len(t) - n
      /\ \A k \in 1..Len(t) - n : u[k] = t[IF k <= pos THEN k ELSE k + n]
  BY WithoutFacts
<1>. HIDE DEF u, none
<1>5. IsSpliced(v, u, pos, none, old)
  BY <1>1, <1>2, <1>3, SplicedFacts
<1>. HIDE DEF v
<1>6. /\ v \in Seq(Int)
      /\ Len(v) = pos + Len(old) + (IF pos + none <= Len(u) THEN Len(u) - (pos + none) ELSE 0)
      /\ \A k \in 1..Len(v) :
           v[k] = IF k <= pos THEN IF k <= Len(u) THEN u[k] ELSE Blank
                  ELSE IF k <= pos + Len(old) THEN old[k - pos]
                  ELSE u[k - Len(old) + none]
  BY <1>5 DEF IsSpliced
<1>7. Len(v) = Len(t)
  BY <1>1, <1>2, <1>3, <1>6 DEF none
<1>8. ASSUME NEW k \in 1..Len(t)
      PROVE  v[k] = t[k]
  <2>1. k - Len(old) + none = k - n /\ k \in 1..Len(v)
    BY <1>1, <1>2, <1>7 DEF none
  <2>2. CASE k <= pos
    <3>1. k <= Len(u) /\ k \in 1..Len(t) - n
      BY <1>1, <1>3, <2>2
    <3>2. v[k] = u[k] /\ u[k] = t[k]
      BY <1>3, <1>6, <2>1, <2>2, <3>1
    <3>. QED BY <3>2
  <2>3. CASE k > pos /\ k <= pos + n
    <3>1. k - pos \in 1..n /\ pos + (k - pos) = k /\ ~(k <= pos)
      BY <1>1, <2>3
    <3>2. v[k] = old[k - pos]
      BY <1>2, <1>6, <2>1, <2>3, <3>1
    <3>. QED BY <1>2, <3>1, <3>2
  <2>4. CASE k > pos + n
    <3>1. ~(k <= pos) /\ ~(k <= pos + n) /\ k - n \in 1..Len(t) - n /\ ~(k - n <= pos)
          /\ (k - n) + n = k
      BY <1>1, <2>4
    <3>2. v[k] = u[k - n]
      BY <1>2, <1>6, <2>1, <3>1
    <3>3. u[k - n] = t[(k - n) + n]
      BY <1>3, <3>1
    <3>. QED BY <3>1, <3>2, <3>3
  <2>5. k <= pos \/ (k > pos /\ k <= pos + n) \/ k > pos + n
    BY <1>1
  <2>. QED BY <2>2, <2>3, <2>4, <2>5
<1>9. v = t
  BY <1>6, <1>7, <1>8, SeqEqual
<1>. QED BY <1>9 DEF v, u, old, none
-------------------------------------------------------------------------------
(* Moving the gap leaves the text as it is, and the buffer as long.        *)
LEMMA MoveGapCorrect ==
  ASSUME NEW g \in Gaps, NEW i \in Nat, i <= Length(g)
  PROVE  /\ MoveGap(g, i) \in Gaps /\ MoveGap(g, i).start = i
         /\ GapLength(MoveGap(g, i)) = GapLength(g) /\ Length(MoveGap(g, i)) = Length(g)
         /\ Len(MoveGap(g, i).buffer) = Len(g.buffer)
         /\ ToByteArray(MoveGap(g, i)) = ToByteArray(g)
<1>. DEFINE b == g.buffer  S == g.start  E == g.end  G == GapLength(g)  N == Length(g)
            t == ToByteArray(g)  delta == i - S  e == E + delta  m == -delta
            moved == Mid(b, i, m)  ahead == Mid(b, E, delta)
            down == Spliced(b, e, m, moved)  up == Spliced(b, S, delta, ahead)
            c == IF delta < 0 THEN down ELSE up
            h == [buffer |-> c, start |-> i, end |-> e]
<1>1. /\ b \in Seq(Int) /\ S \in Nat /\ E \in Nat /\ S <= E /\ E <= Len(b)
      /\ Len(b) \in Nat /\ G \in Nat /\ N \in Nat /\ E = S + G /\ Len(b) = N + G /\ S <= N
      /\ i <= N
  BY GapFacts
<1>2. /\ t \in Seq(Int) /\ Len(t) = N
      /\ \A k \in 1..N : t[k] = b[IF k <= S THEN k ELSE k + G]
  BY TextFacts
<1>3. MoveGap(g, i) = h
  BY DEF MoveGap
<1>. HIDE DEF b, S, E, G, N, t
<1>4. /\ delta \in Int /\ e \in Nat /\ e = i + G /\ m = -delta /\ i = S + delta
      /\ e <= Len(b)
  BY <1>1
<1>. HIDE DEF delta, e, m
<1>5. /\ c \in Seq(Int) /\ Len(c) = Len(b)
      /\ \A k \in 1..N : c[IF k <= i THEN k ELSE k + G] = b[IF k <= S THEN k ELSE k + G]
  <2>1. CASE delta < 0
    <3>1. m \in Nat /\ i + m = S /\ e + m = E
      BY <1>1, <1>4, <2>1
    <3>2. moved \in Seq(Int) /\ Len(moved) = m /\ \A k \in 1..m : moved[k] = b[i + k]
      <4>. HIDE DEF moved
      <4>1. /\ moved \in Seq(Int)
            /\ Len(moved) = IF i + m <= Len(b) THEN m
                            ELSE IF i <= Len(b) THEN Len(b) - i ELSE 0
            /\ \A k \in 1..Len(moved) : moved[k] = b[i + k]
        <5>1. IsMid(moved, b, i, m)
          BY <1>1, <3>1, MidIs DEF moved
        <5>. QED BY <5>1 DEF IsMid
      <4>2. i + m <= Len(b)
        BY <1>1, <3>1
      <4>. QED BY <4>1, <4>2
    <3>. HIDE DEF moved
    <3>3. IsSpliced(down, b, e, m, moved)
      BY <1>1, <1>4, <3>1, <3>2, SplicedFacts
    <3>4. c = down
      BY <2>1
    <3>. HIDE DEF down, c
    <3>5. /\ c \in Seq(Int)
          /\ Len(c) = e + Len(moved) + (IF e + m <= Len(b) THEN Len(b) - (e + m) ELSE 0)
          /\ \A k \in 1..Len(c) :
               c[k] = IF k <= e THEN IF k <= Len(b) THEN b[k] ELSE Blank
                      ELSE IF k <= e + Len(moved) THEN moved[k - e]
                      ELSE b[k - Len(moved) + m]
      BY <3>3, <3>4 DEF IsSpliced
    <3>6. Len(c) = Len(b)
      BY <1>1, <1>4, <3>1, <3>2, <3>5
    <3>7. ASSUME NEW k \in 1..N
          PROVE  c[IF k <= i THEN k ELSE k + G] = b[IF k <= S THEN k ELSE k + G]
      <4>1. CASE k <= i
        <5>1. k <= S /\ k <= e /\ k <= Len(b) /\ k \in 1..Len(c)
          BY <1>1, <1>4, <2>1, <3>6, <4>1
        <5>2. c[k] = b[k]
          BY <3>5, <5>1
        <5>. QED BY <4>1, <5>1, <5>2
      <4>2. CASE k > i /\ k <= S
        <5>1. /\ ~(k <= i) /\ k + G \in 1..Len(c) /\ ~(k + G <= e)
              /\ k + G <= e + Len(moved) /\ (k + G) - e = k - i /\ k - i \in 1..m
              /\ i + (k - i) = k
          BY <1>1, <1>4, <3>1, <3>2, <3>6, <4>2
        <5>2. c[k + G] = moved[(k + G) - e]
          BY <3>5, <5>1
        <5>3. moved[k - i] = b[i + (k - i)]
          BY <3>2, <5>1
        <5>. QED BY <4>2, <5>1, <5>2, <5>3
      <4>3. CASE k > S
        <5>1. /\ ~(k <= i) /\ ~(k <= S) /\ k + G \in 1..Len(c) /\ ~(k + G <= e)
              /\ ~(k + G <= e + Len(moved)) /\ (k + G) - Len(moved) + m = k + G
          BY <1>1, <1>4, <2>1, <3>1, <3>2, <3>6, <4>3
        <5>2. c[k + G] = b[(k + G) - Len(moved) + m]
          BY <3>5, <5>1
        <5>. QED BY <5>1, <5>2
      <4>4. k <= i \/ (k > i /\ k <= S) \/ k > S
        BY <1>1
      <4>. QED BY <4>1, <4>2, <4>3, <4>4
    <3>. QED BY <3>5, <3>6, <3>7
  <2>2. CASE ~(delta < 0)
    <3>1. delta \in Nat /\ E + delta = e
      BY <1>1, <1>4, <2>2
    <3>2. ahead \in Seq(Int) /\ Len(ahead) = delta /\ \A k \in 1..delta : ahead[k] = b[E + k]
      <4>. HIDE DEF ahead
      <4>1. /\ ahead \in Seq(Int)
            /\ Len(ahead) = IF E + delta <= Len(b) THEN delta
                            ELSE IF E <= Len(b) THEN Len(b) - E ELSE 0
            /\ \A k \in 1..Len(ahead) : ahead[k] = b[E + k]
        <5>1. IsMid(ahead, b, E, delta)
          BY <1>1, <3>1, MidIs DEF ahead
        <5>. QED BY <5>1 DEF IsMid
      <4>2. E + delta <= Len(b)
        BY <1>1, <1>4, <3>1
      <4>. QED BY <4>1, <4>2
    <3>. HIDE DEF ahead
    <3>3. IsSpliced(up, b, S, delta, ahead)
      BY <1>1, <1>4, <3>1, <3>2, SplicedFacts
    <3>4. c = up
      BY <2>2
    <3>. HIDE DEF up, c
    <3>5. /\ c \in Seq(Int)
          /\ Len(c) = S + Len(ahead) + (IF S + delta <= Len(b) THEN Len(b) - (S + delta) ELSE 0)
          /\ \A k \in 1..Len(c) :
               c[k] = IF k <= S THEN IF k <= Len(b) THEN b[k] ELSE Blank
                      ELSE IF k <= S + Len(ahead) THEN ahead[k - S]
                      ELSE b[k - Len(ahead) + delta]
      BY <3>3, <3>4 DEF IsSpliced
    <3>6. Len(c) = Len(b)
      BY <1>1, <1>4, <3>1, <3>2, <3>5
    <3>7. ASSUME NEW k \in 1..N
          PROVE  c[IF k <= i THEN k ELSE k + G] = b[IF k <= S THEN k ELSE k + G]
      <4>1. CASE k <= S
        <5>1. k <= i /\ k <= Len(b) /\ k \in 1..Len(c)
          BY <1>1, <1>4, <3>1, <3>6, <4>1
        <5>2. c[k] = b[k]
          BY <3>5, <4>1, <5>1
        <5>. QED BY <4>1, <5>1, <5>2
      <4>2. CASE k > S /\ k <= i
        <5>1. /\ ~(k <= S) /\ k \in 1..Len(c) /\ k <= S + Len(ahead) /\ k - S \in 1..delta
              /\ E + (k - S) = k + G
          BY <1>1, <1>4, <3>1, <3>2, <3>6, <4>2
        <5>2. c[k] = ahead[k - S]
          BY <3>5, <5>1
        <5>3. ahead[k - S] = b[k + G]
          BY <3>2, <5>1
        <5>. QED BY <4>2, <5>1, <5>2, <5>3
      <4>3. CASE k > i
        <5>1. /\ ~(k <= i) /\ ~(k <= S) /\ k + G \in 1..Len(c) /\ ~(k + G <= S)
              /\ ~(k + G <= S + Len(ahead)) /\ (k + G) - Len(ahead) + delta = k + G
          BY <1>1, <1>4, <3>1, <3>2, <3>6, <4>3
        <5>2. c[k + G] = b[(k + G) - Len(ahead) + delta]
          BY <3>5, <5>1
        <5>. QED BY <5>1, <5>2
      <4>4. k <= S \/ (k > S /\ k <= i) \/ k > i
        BY <1>1
      <4>. QED BY <4>1, <4>2, <4>3, <4>4
    <3>. QED BY <3>5, <3>6, <3>7
  <2>. HIDE DEF c
  <2>. QED BY <2>1, <2>2
<1>. HIDE DEF c
<1>6. h \in Gaps /\ h.buffer = c /\ h.start = i /\ h.end = e
  BY <1>1, <1>4, <1>5 DEF Gaps
<1>. HIDE DEF h
<1>7. GapLength(h) = G /\ Length(h) = N
  <2>1. GapLength(h) = e - i /\ Length(h) = Len(c) - (e - i)
    BY <1>6 DEF GapLength, Length
  <2>. QED BY <1>1, <1>4, <1>5, <2>1
<1>8. ASSUME NEW k \in 1..N
      PROVE  t[k] = c[IF k <= i THEN k ELSE k + G]
  BY <1>2, <1>5
<1>9. ToByteArray(h) = t
  BY <1>2, <1>6, <1>7, <1>8, TextIs
<1>. QED BY <1>3, <1>5, <1>6, <1>7, <1>9 DEF G, N, b, t

(* What is inserted, in a gap that is long enough for it.                  *)
LEMMA InsertCorrect ==
  ASSUME NEW g \in Gaps, NEW i \in Nat, i <= Length(g),
         NEW data \in Seq(Int), Len(data) <= GapLength(g)
  PROVE  /\ Insert(g, i, data) \in Gaps
         /\ Len(Insert(g, i, data).buffer) = Len(g.buffer)
         /\ ToByteArray(Insert(g, i, data)) = Spliced(ToByteArray(g), i, 0, data)
<1>. DEFINE a == MoveGap(g, i)  b == a.buffer  E == a.end  G == GapLength(a)  N == Length(a)
            t == ToByteArray(a)  L == Len(data)  none == 0  u == Spliced(t, i, none, data)
            c == Spliced(b, i, L, data)  s == i + L
            h == [a EXCEPT !.buffer = c, !.start = s]
<1>1. /\ a \in Gaps /\ a.start = i /\ G = GapLength(g) /\ N = Length(g)
      /\ Len(b) = Len(g.buffer) /\ t = ToByteArray(g)
  BY MoveGapCorrect
<1>2. Insert(g, i, data) = h
  <2>1. h = [a EXCEPT !.buffer = Spliced(@, i, Len(data), data), !.start = @ + Len(data)]
    BY <1>1
  <2>. HIDE DEF h, a
  <2>. QED BY <2>1 DEF Insert, a
<1>. HIDE DEF a
<1>3. /\ b \in Seq(Int) /\ E \in Nat /\ i <= E /\ E <= Len(b)
      /\ Len(b) \in Nat /\ G \in Nat /\ N \in Nat /\ E = i + G /\ Len(b) = N + G /\ i <= N
  BY <1>1, GapFacts
<1>4. /\ t \in Seq(Int) /\ Len(t) = N
      /\ \A k \in 1..N : t[k] = b[IF k <= i THEN k ELSE k + G]
  BY <1>1, TextFacts
<1>5. L \in Nat /\ L <= G /\ Len(data) = L /\ none \in Nat /\ none = 0
  BY <1>1, LenProperties
<1>. HIDE DEF b, E, G, N, L, t, none
<1>6. /\ c \in Seq(Int) /\ Len(c) = Len(b)
      /\ \A k \in 1..Len(c) : c[k] = IF k <= i THEN IF k <= Len(b) THEN b[k] ELSE Blank
                                     ELSE IF k <= i + L THEN data[k - i] ELSE b[k - L + L]
  <2>1. IsSpliced(c, b, i, L, data)
    BY <1>3, <1>5, SplicedFacts
  <2>. HIDE DEF c
  <2>2. /\ c \in Seq(Int)
        /\ Len(c) = i + Len(data) + (IF i + L <= Len(b) THEN Len(b) - (i + L) ELSE 0)
        /\ \A k \in 1..Len(c) : c[k] = IF k <= i THEN IF k <= Len(b) THEN b[k] ELSE Blank
                                       ELSE IF k <= i + Len(data) THEN data[k - i]
                                       ELSE b[k - Len(data) + L]
    BY <2>1 DEF IsSpliced
  <2>3. Len(c) = Len(b)
    BY <1>3, <1>5, <2>2
  <2>. QED BY <1>5, <2>2, <2>3
<1>7. /\ u \in Seq(Int) /\ Len(u) = N + L
      /\ \A k \in 1..Len(u) : u[k] = IF k <= i THEN IF k <= N THEN t[k] ELSE Blank
                                     ELSE IF k <= i + L THEN data[k - i] ELSE t[k - L + none]
  <2>1. IsSpliced(u, t, i, none, data)
    BY <1>4, <1>5, SplicedFacts
  <2>. HIDE DEF u
  <2>2. /\ u \in Seq(Int)
        /\ Len(u) = i + Len(data) + (IF i + none <= Len(t) THEN Len(t) - (i + none) ELSE 0)
        /\ \A k \in 1..Len(u) : u[k] = IF k <= i THEN IF k <= Len(t) THEN t[k] ELSE Blank
                                       ELSE IF k <= i + Len(data) THEN data[k - i]
                                       ELSE t[k - Len(data) + none]
    BY <2>1 DEF IsSpliced
  <2>3. Len(u) = N + L
    BY <1>3, <1>4, <1>5, <2>2
  <2>. QED BY <1>4, <1>5, <2>2, <2>3
<1>. HIDE DEF c, u
<1>8. s \in Nat /\ s <= E /\ s = i + L
  BY <1>3, <1>5
<1>. HIDE DEF s
<1>9. h \in Gaps /\ h.buffer = c /\ h.start = s /\ h.end = E
  <2>1. a \in [buffer : Seq(Int), start : Nat, end : Nat] /\ a.end = E
    BY <1>1 DEF Gaps, E
  <2>2. /\ h \in [buffer : Seq(Int), start : Nat, end : Nat]
        /\ h.buffer = c /\ h.start = s /\ h.end = E
    BY <1>6, <1>8, <2>1
  <2>. QED BY <1>3, <1>6, <1>8, <2>2 DEF Gaps
<1>. HIDE DEF h
<1>10. GapLength(h) = G - L /\ Length(h) = Len(u)
  <2>1. GapLength(h) = E - s /\ Length(h) = Len(c) - (E - s)
    BY <1>9 DEF GapLength, Length
  <2>. QED BY <1>3, <1>5, <1>6, <1>7, <1>8, <2>1
<1>11. ASSUME NEW k \in 1..Len(u)
       PROVE  u[k] = c[IF k <= s THEN k ELSE k + (G - L)]
  <2>1. k \in 1..N + L
    BY <1>7
  <2>2. CASE k <= i
    <3>1. k <= s /\ k <= N /\ k \in 1..N /\ k <= Len(b) /\ k \in 1..Len(c)
      BY <1>3, <1>5, <1>6, <1>8, <2>1, <2>2
    <3>2. u[k] = t[k] /\ t[k] = b[k]
      BY <1>4, <1>7, <2>2, <3>1
    <3>3. c[k] = b[k]
      BY <1>6, <2>2, <3>1
    <3>. QED BY <3>1, <3>2, <3>3
  <2>3. CASE k > i /\ k <= i + L
    <3>1. k <= s /\ ~(k <= i) /\ k \in 1..Len(c)
      BY <1>3, <1>5, <1>6, <1>8, <2>1, <2>3
    <3>2. u[k] = data[k - i]
      BY <1>7, <2>3, <3>1
    <3>3. c[k] = data[k - i]
      BY <1>6, <2>3, <3>1
    <3>. QED BY <3>1, <3>2, <3>3
  <2>4. CASE k > i + L
    <3>1. /\ ~(k <= s) /\ ~(k <= i) /\ ~(k <= i + L) /\ k - L + none = k - L
          /\ k - L \in 1..N /\ ~(k - L <= i)
      BY <1>3, <1>5, <1>8, <2>1, <2>4
    <3>2. /\ k + (G - L) \in 1..Len(c) /\ ~(k + (G - L) <= i) /\ ~(k + (G - L) <= i + L)
          /\ (k + (G - L)) - L + L = k + (G - L) /\ (k - L) + G = k + (G - L)
      <4>. DEFINE z == G - L  q == Len(c)
      <4>1. z \in Nat /\ q = N + G /\ G = z + L /\ N \in Nat /\ L \in Nat
        BY <1>3, <1>5, <1>6
      <4>. HIDE DEF z, q
      <4>2. k \in Nat /\ k <= N + L /\ k > i + L
        BY <1>3, <1>5, <2>1, <2>4
      <4>3. /\ k + z \in 1..q /\ ~(k + z <= i) /\ ~(k + z <= i + L)
            /\ (k + z) - L + L = k + z /\ (k - L) + G = k + z
        BY <4>1, <4>2
      <4>. QED BY <4>3 DEF z, q
    <3>3. u[k] = t[k - L]
      BY <1>7, <3>1
    <3>4. t[k - L] = b[(k - L) + G]
      BY <1>4, <3>1
    <3>5. c[k + (G - L)] = b[k + (G - L)]
      BY <1>6, <3>2
    <3>. QED BY <3>1, <3>2, <3>3, <3>4, <3>5
  <2>5. k <= i \/ (k > i /\ k <= i + L) \/ k > i + L
    BY <1>5, <2>1
  <2>. QED BY <2>2, <2>3, <2>4, <2>5
<1>12. ToByteArray(h) = u
  BY <1>7, <1>9, <1>10, <1>11, TextIs
<1>. QED BY <1>1, <1>2, <1>6, <1>9, <1>12 DEF b, u, t, none

(* What is removed, from within the text.                                  *)
LEMMA RemoveCorrect ==
  ASSUME NEW g \in Gaps, NEW i \in Nat, NEW n \in Nat, i + n <= Length(g)
  PROVE  /\ Remove(g, i, n) \in Gaps
         /\ Len(Remove(g, i, n).buffer) = Len(g.buffer)
         /\ ToByteArray(Remove(g, i, n)) = Without(ToByteArray(g), i, n)
<1>1. Length(g) \in Nat /\ i <= Length(g)
  BY GapFacts
<1>. DEFINE a == MoveGap(g, i)  b == a.buffer  E == a.end  G == GapLength(a)  N == Length(a)
            t == ToByteArray(a)  u == Without(t, i, n)  e == E + n
            h == [a EXCEPT !.end = e]
<1>2. /\ a \in Gaps /\ a.start = i /\ N = Length(g)
      /\ Len(b) = Len(g.buffer) /\ t = ToByteArray(g)
  BY <1>1, MoveGapCorrect
<1>3. Remove(g, i, n) = h
  BY DEF Remove
<1>. HIDE DEF a
<1>4. /\ b \in Seq(Int) /\ E \in Nat /\ i <= E /\ E <= Len(b)
      /\ Len(b) \in Nat /\ G \in Nat /\ N \in Nat /\ E = i + G /\ Len(b) = N + G /\ i + n <= N
  BY <1>2, GapFacts
<1>5. /\ t \in Seq(Int) /\ Len(t) = N
      /\ \A k \in 1..N : t[k] = b[IF k <= i THEN k ELSE k + G]
  BY <1>2, TextFacts
<1>. HIDE DEF b, E, G, N, t
<1>6. /\ u \in Seq(Int) /\ Len(u) = N - n
      /\ \A k \in 1..N - n : u[k] = t[IF k <= i THEN k ELSE k + n]
  <2>1. t \in Seq(Int) /\ i + n <= Len(t)
    BY <1>4, <1>5
  <2>. HIDE DEF u
  <2>2. /\ u \in Seq(Int) /\ Len(u) = Len(t) - n
        /\ \A k \in 1..Len(t) - n : u[k] = t[IF k <= i THEN k ELSE k + n]
    BY <2>1, WithoutFacts DEF u
  <2>. QED BY <1>5, <2>2
<1>. HIDE DEF u
<1>7. e \in Nat /\ e = i + (G + n) /\ e <= Len(b)
  BY <1>4
<1>. HIDE DEF e
<1>8. h \in Gaps /\ h.buffer = b /\ h.start = i /\ h.end = e
  <2>1. a \in [buffer : Seq(Int), start : Nat, end : Nat] /\ a.buffer = b
    BY <1>2 DEF Gaps, b
  <2>2. /\ h \in [buffer : Seq(Int), start : Nat, end : Nat]
        /\ h.buffer = b /\ h.start = i /\ h.end = e
    BY <1>2, <1>7, <2>1
  <2>3. i <= e
    BY <1>4, <1>7
  <2>. QED BY <1>7, <2>2, <2>3 DEF Gaps
<1>. HIDE DEF h
<1>9. GapLength(h) = G + n /\ Length(h) = Len(u)
  <2>1. GapLength(h) = e - i /\ Length(h) = Len(b) - (e - i)
    BY <1>8 DEF GapLength, Length
  <2>. QED BY <1>4, <1>6, <1>7, <2>1
<1>10. ASSUME NEW k \in 1..Len(u)
       PROVE  u[k] = b[IF k <= i THEN k ELSE k + (G + n)]
  <2>1. k \in 1..N - n
    BY <1>6
  <2>2. CASE k <= i
    <3>1. k \in 1..N
      BY <1>4, <2>1
    <3>. QED BY <1>5, <1>6, <2>1, <2>2, <3>1
  <2>3. CASE ~(k <= i)
    <3>1. k + n \in 1..N /\ ~(k + n <= i) /\ (k + n) + G = k + (G + n)
      BY <1>4, <2>1, <2>3
    <3>2. u[k] = t[k + n]
      BY <1>6, <2>1, <2>3
    <3>3. t[k + n] = b[(k + n) + G]
      BY <1>5, <3>1
    <3>. QED BY <2>3, <3>1, <3>2, <3>3
  <2>. QED BY <2>2, <2>3
<1>11. ToByteArray(h) = u
  BY <1>6, <1>8, <1>9, <1>10, TextIs
<1>. QED BY <1>2, <1>3, <1>8, <1>11 DEF b, u, t

(* What is read is bytes.                                                  *)
LEMMA ReadTypes ==
  ASSUME NEW g \in Gaps, NEW i \in Nat, NEW n \in Nat
  PROVE  Read(g, i, n) \in Seq(Int)
<1>. DEFINE b == g.buffer  S == g.start  E == g.end
            w == IF n < S - i THEN n ELSE S - i
            before == IF i < S THEN Mid(b, i, w) ELSE <<>>
            j == i + Len(before)  p == IF j >= S THEN j + E ELSE j  r == n - Len(before)
<1>1. b \in Seq(Int) /\ S \in Nat /\ E \in Nat
  BY GapFacts
<1>2. Read(g, i, n) = before \o Mid(b, p, r)
  BY DEF Read
<1>. HIDE DEF b, S, E
<1>3. before \in Seq(Int) /\ Len(before) \in Nat /\ Len(before) <= n
  <2>1. CASE i < S
    <3>1. w \in Nat /\ w <= n
      BY <1>1, <2>1
    <3>2. before = Mid(b, i, w)
      BY <2>1
    <3>. HIDE DEF w, before
    <3>3. /\ before \in Seq(Int)
          /\ Len(before) = IF i + w <= Len(b) THEN w
                           ELSE IF i <= Len(b) THEN Len(b) - i ELSE 0
      BY <1>1, <3>1, <3>2, MidFacts
    <3>4. Len(b) \in Nat /\ Len(before) \in Nat
      BY <1>1, <3>3, LenProperties
    <3>. QED BY <3>1, <3>3, <3>4
  <2>2. CASE ~(i < S)
    <3>1. before = <<>>
      BY <2>2
    <3>. HIDE DEF before
    <3>2. before \in Seq(Int) /\ Len(before) = 0
      BY <3>1
    <3>. QED BY <3>2
  <2>. QED BY <2>1, <2>2
<1>. HIDE DEF before
<1>4. p \in Nat /\ r \in Nat
  BY <1>1, <1>3
<1>. HIDE DEF p, r
<1>5. Mid(b, p, r) \in Seq(Int)
  BY <1>1, <1>4, MidFacts
<1>. QED BY <1>2, <1>3, <1>5, ConcatProperties

(* They are the text's, if reading does not go astray.                     *)
LEMMA ReadCorrect ==
  ASSUME NEW g \in Gaps, NEW i \in Nat, NEW n \in Nat, i + n <= Length(g),
         ~ReadsAstray(g, i, n)
  PROVE  Read(g, i, n) = Mid(ToByteArray(g), i, n)
<1>. DEFINE b == g.buffer  S == g.start  E == g.end  G == GapLength(g)  N == Length(g)
            t == ToByteArray(g)  u == Mid(t, i, n)
            w == IF n < S - i THEN n ELSE S - i
            before == IF i < S THEN Mid(b, i, w) ELSE <<>>
            j == i + Len(before)  p == IF j >= S THEN j + E ELSE j  r == n - Len(before)
            v == before \o Mid(b, p, r)
<1>1. /\ b \in Seq(Int) /\ S \in Nat /\ E \in Nat /\ S <= E /\ E <= Len(b)
      /\ Len(b) \in Nat /\ G \in Nat /\ N \in Nat /\ E = S + G /\ Len(b) = N + G /\ S <= N
      /\ i + n <= N
  BY GapFacts
<1>2. /\ t \in Seq(Int) /\ Len(t) = N
      /\ \A k \in 1..N : t[k] = b[IF k <= S THEN k ELSE k + G]
  BY TextFacts
<1>3. Read(g, i, n) = v
  BY DEF Read
<1>4. S = 0 \/ i + n <= S
  BY <1>1 DEF ReadsAstray
<1>. HIDE DEF b, S, E, G, N, t
<1>5. u \in Seq(Int) /\ Len(u) = n /\ \A k \in 1..n : u[k] = t[i + k]
  <2>. HIDE DEF u
  <2>1. /\ u \in Seq(Int)
        /\ Len(u) = IF i + n <= Len(t) THEN n
                    ELSE IF i <= Len(t) THEN Len(t) - i ELSE 0
        /\ \A k \in 1..Len(u) : u[k] = t[i + k]
    BY <1>2, MidFacts DEF u
  <2>. QED BY <1>1, <1>2, <2>1
<1>. HIDE DEF u
<1>6. v \in Seq(Int) /\ Len(v) = n /\ \A k \in 1..n : v[k] = t[i + k]
  <2>1. CASE i < S
    <3>1. w = n /\ i + n <= S /\ i + n <= Len(b)
      BY <1>1, <1>4, <2>1
    <3>2. before = Mid(b, i, w)
      BY <2>1
    <3>. HIDE DEF w, before
    <3>3. /\ before \in Seq(Int)
          /\ Len(before) = IF i + n <= Len(b) THEN n
                           ELSE IF i <= Len(b) THEN Len(b) - i ELSE 0
          /\ \A k \in 1..Len(before) : before[k] = b[i + k]
      BY <1>1, <3>1, <3>2, MidFacts
    <3>4. Len(before) = n
      BY <3>1, <3>3
    <3>5. r = 0 /\ p \in Nat
      BY <1>1, <3>4
    <3>. HIDE DEF p
    <3>6. Mid(b, p, r) = <<>>
      <4>. DEFINE rest == Mid(b, p, r)
      <4>1. r \in Nat
        BY <3>5
      <4>. HIDE DEF r, rest
      <4>2. /\ rest \in Seq(Int)
            /\ Len(rest) = IF p + r <= Len(b) THEN r ELSE IF p <= Len(b) THEN Len(b) - p ELSE 0
        BY <1>1, <3>5, <4>1, MidFacts DEF rest
      <4>3. Len(rest) = 0
        BY <1>1, <3>5, <4>1, <4>2
      <4>4. rest = <<>>
        BY <4>2, <4>3, EmptySeq
      <4>. QED BY <4>4 DEF rest
    <3>7. v = before
      BY <3>3, <3>6
    <3>8. ASSUME NEW k \in 1..n
          PROVE  before[k] = t[i + k]
      <4>1. i + k \in 1..N /\ i + k <= S /\ k \in 1..Len(before)
        BY <1>1, <3>1, <3>4
      <4>2. before[k] = b[i + k] /\ t[i + k] = b[i + k]
        BY <1>2, <3>3, <4>1
      <4>. QED BY <4>2
    <3>. QED BY <3>3, <3>4, <3>7, <3>8
  <2>2. CASE ~(i < S)
    <3>1. before = <<>>
      BY <2>2
    <3>2. j = i /\ r = n /\ p = i + E
      BY <1>1, <2>2, <3>1
    <3>. HIDE DEF j, r, p, before
    <3>. DEFINE rest == Mid(b, p, r)
    <3>3. rest \in Seq(Int) /\ Len(rest) = n /\ \A k \in 1..n : rest[k] = t[i + k]
      <4>1. p \in Nat /\ r \in Nat
        BY <1>1, <3>2
      <4>. HIDE DEF rest
      <4>2. /\ rest \in Seq(Int)
            /\ Len(rest) = IF p + r <= Len(b) THEN r ELSE IF p <= Len(b) THEN Len(b) - p ELSE 0
            /\ \A k \in 1..Len(rest) : rest[k] = b[p + k]
        <5>1. IsMid(rest, b, p, r)
          BY <1>1, <4>1, MidIs DEF rest
        <5>. QED BY <5>1 DEF IsMid
      <4>3. S = 0 \/ n = 0
        BY <1>1, <1>4, <2>2
      <4>4. Len(rest) = n
        <5>1. CASE S = 0
          <6>1. p + r <= Len(b)
            BY <1>1, <3>2, <5>1
          <6>. QED BY <3>2, <4>2, <6>1
        <5>2. CASE S # 0 /\ n = 0
          <6>1. i = S /\ p = i + E /\ r = 0
            BY <1>1, <1>4, <2>2, <3>2, <5>2
          <6>. QED BY <1>1, <4>1, <4>2, <5>2, <6>1
        <5>. QED BY <4>3, <5>1, <5>2
      <4>5. ASSUME NEW k \in 1..n
            PROVE  rest[k] = t[i + k]
        <5>1. /\ S = 0 /\ i + k \in 1..N /\ ~(i + k <= S) /\ (i + k) + G = p + k
              /\ k \in 1..Len(rest)
          BY <1>1, <3>2, <4>3, <4>4
        <5>2. rest[k] = b[p + k]
          BY <4>2, <5>1
        <5>3. t[i + k] = b[(i + k) + G]
          BY <1>2, <5>1
        <5>. QED BY <5>1, <5>2, <5>3
      <4>. QED BY <4>2, <4>4, <4>5
    <3>4. v = rest
      <4>1. v = before \o rest
        OBVIOUS
      <4>. HIDE DEF rest, v
      <4>. QED BY <3>1, <3>3, <4>1
    <3>. HIDE DEF rest, v
    <3>. QED BY <3>3, <3>4
  <2>. QED BY <2>1, <2>2
<1>. HIDE DEF v
<1>7. v = u
  <2>1. \A k \in 1..Len(v) : v[k] = u[k]
    BY <1>5, <1>6
  <2>. QED BY <1>5, <1>6, <2>1, SeqEqual
<1>. QED BY <1>3, <1>7 DEF u, t
-------------------------------------------------------------------------------
\* Commands, and what they are once they have been done.
Commands == {c \in [kind : {"replace", "remove"}, at : Nat, data : Seq(Int), n : Nat] :
               c.kind = "replace" => c.n = Len(c.data)}
Entries  == {c \in [kind : {"replace", "remove"}, at : Nat, data : Seq(Int), n : Nat,
                    saved : Seq(Int), sound : BOOLEAN] :
               c.kind = "replace" => c.n = Len(c.data)}
Items    == Commands \cup Entries

(* What a command on the stack has, done or not.                           *)
LEMMA ItemFacts ==
  ASSUME NEW c \in Items
  PROVE  /\ c.kind = "replace" \/ c.kind = "remove"
         /\ c.at \in Nat /\ c.n \in Nat /\ c.data \in Seq(Int)
         /\ c.kind = "replace" => c.n = Len(c.data)
BY DEF Items, Commands, Entries

\* A done command can restore the text t that it was done on.
Restores(c, t) == /\ c \in Entries
                  /\ c.sound => c.saved = Mid(t, c.at, c.n) /\ c.at + c.n <= Len(t)
                  /\ c.kind = "remove" => c.at + c.n <= Len(t)

Forward(g, c)  == IF c.kind = "replace" THEN Replace(g, c.at, c.data) ELSE Remove(g, c.at, c.n)
Backward(g, c) == IF c.kind = "replace" THEN Replace(g, c.at, c.saved) ELSE Insert(g, c.at, c.saved)

(* What a command should make is a text.                                   *)
LEMMA MeantTypes ==
  ASSUME NEW t \in Seq(Int), NEW c \in Items
  PROVE  Meant(t, c) \in Seq(Int)
<1>. DEFINE i == c.at  n == c.n  data == c.data
<1>1. i \in Nat /\ n \in Nat /\ data \in Seq(Int)
  BY ItemFacts
<1>2. Meant(t, c) = IF c.kind = "replace" THEN Spliced(t, i, n, data) ELSE Without(t, i, n)
  BY DEF Meant, Without
<1>. HIDE DEF i, n, data
<1>3. IsSpliced(Spliced(t, i, n, data), t, i, n, data)
  BY <1>1, SplicedFacts
<1>4. Spliced(t, i, n, data) \in Seq(Int)
  BY <1>3 DEF IsSpliced
<1>5. Without(t, i, n) \in Seq(Int)
  BY <1>1, WithoutTypes
<1>. QED BY <1>2, <1>4, <1>5

(* A command does to the buffer what it should do to the text, and leaves  *)
(* room to undo it.                                                        *)
LEMMA ForwardCorrect ==
  ASSUME NEW g \in Gaps, NEW c \in Items,
         Len(g.buffer) >= BaseGap + Len(ToByteArray(g)),
         c.kind = "replace" => ~ReplacesTooMuch(g, c.at, c.n),
         c.kind = "remove" => c.at + c.n <= Length(g)
  PROVE  /\ Forward(g, c) \in Gaps
         /\ ToByteArray(Forward(g, c)) = Meant(ToByteArray(g), c)
         /\ Len(Forward(g, c).buffer) >= Len(g.buffer)
         /\ Len(Forward(g, c).buffer) >= BaseGap + Len(ToByteArray(Forward(g, c)))
<1>. BaseGap \in Nat
  BY HexAssumption
<1>. DEFINE i == c.at  n == c.n  data == c.data  t == ToByteArray(g)  h == Forward(g, c)
            u == ToByteArray(h)
<1>1. /\ i \in Nat /\ n \in Nat /\ data \in Seq(Int)
      /\ c.kind = "replace" \/ c.kind = "remove"
      /\ c.kind = "replace" => n = Len(data)
  BY ItemFacts
<1>2. Meant(t, c) = IF c.kind = "replace" THEN Spliced(t, i, n, data) ELSE Without(t, i, n)
  BY DEF Meant, Without
<1>3. h = IF c.kind = "replace" THEN Replace(g, i, data) ELSE Remove(g, i, n)
  BY DEF Forward
<1>4. /\ Len(g.buffer) \in Nat /\ GapLength(g) \in Nat /\ Length(g) \in Nat
      /\ Len(g.buffer) = Length(g) + GapLength(g) /\ t \in Seq(Int) /\ Len(t) = Length(g)
      /\ GapLength(g) >= BaseGap
  <2>1. /\ Len(g.buffer) \in Nat /\ GapLength(g) \in Nat /\ Length(g) \in Nat
        /\ Len(g.buffer) = Length(g) + GapLength(g)
    BY GapFacts
  <2>2. t \in Seq(Int) /\ Len(t) = Length(g)
    BY TextFacts
  <2>. DEFINE p == GapLength(g)  q == Length(g)  r == Len(g.buffer)
  <2>3. r >= BaseGap + q
    BY <2>2
  <2>. HIDE DEF p, q, r
  <2>4. p >= BaseGap
    <3>1. p \in Nat /\ q \in Nat /\ r = q + p
      BY <2>1 DEF p, q, r
    <3>. QED BY <2>3, <3>1
  <2>. QED BY <2>1, <2>2, <2>4 DEF p
<1>5. CASE c.kind = "replace"
  <2>1. h = Replace(g, i, data) /\ n = Len(data) /\ ~ReplacesTooMuch(g, i, Len(data))
    BY <1>1, <1>3, <1>5
  <2>. HIDE DEF h, i, n, data, t
  <2>2. h \in Gaps /\ GapLength(h) = GapLength(g) /\ u = Spliced(t, i, n, data)
    BY <1>1, <2>1, ReplaceCorrect DEF t
  <2>3. IsSpliced(Spliced(t, i, n, data), t, i, n, data)
    BY <1>1, <1>4, SplicedFacts
  <2>. HIDE DEF u
  <2>4. IsSpliced(u, t, i, n, data)
    BY <2>2, <2>3
  <2>5. Len(u) = i + Len(data) + (IF i + n <= Len(t) THEN Len(t) - (i + n) ELSE 0)
    BY <2>4 DEF IsSpliced
  <2>6. Len(u) \in Nat /\ Len(u) >= Len(t)
    BY <1>1, <1>4, <2>1, <2>5
  <2>7. /\ Len(h.buffer) \in Nat /\ GapLength(h) \in Nat /\ Length(h) \in Nat
        /\ Len(h.buffer) = Length(h) + GapLength(h) /\ Length(h) = Len(u)
    BY <2>2, GapFacts, TextFacts DEF u
  <2>8. Len(h.buffer) = Len(u) + GapLength(g)
    BY <2>2, <2>7
  <2>9. Len(h.buffer) >= Len(g.buffer) /\ Len(h.buffer) >= BaseGap + Len(u)
    <3>. DEFINE p == GapLength(g)  q == Length(g)  r == Len(g.buffer)  z == Len(h.buffer)  y == Len(u)
    <3>1. /\ p \in Nat /\ q \in Nat /\ r = q + p /\ z = y + p /\ y \in Nat /\ y >= q
          /\ p >= BaseGap
      BY <1>4, <2>6, <2>8
    <3>. HIDE DEF p, q, r, z, y
    <3>2. z >= r /\ z >= BaseGap + y
      BY <3>1
    <3>. QED BY <3>2 DEF r, z, y
  <2>10. u = Meant(t, c)
    BY <1>2, <1>5, <2>2
  <2>. QED BY <2>2, <2>9, <2>10 DEF h, u, t
<1>6. CASE c.kind = "remove"
  <2>1. h = Remove(g, i, n) /\ i + n <= Length(g) /\ c.kind # "replace"
    BY <1>3, <1>6
  <2>. HIDE DEF h, i, n, data, t
  <2>2. h \in Gaps /\ Len(h.buffer) = Len(g.buffer) /\ u = Without(t, i, n)
    BY <1>1, <2>1, RemoveCorrect DEF t
  <2>. HIDE DEF u
  <2>3. Len(u) = Len(t) - n
    <3>1. i + n <= Len(t)
      BY <1>4, <2>1
    <3>2. Len(Without(t, i, n)) = Len(t) - n
      BY <1>1, <1>4, <3>1, WithoutLength
    <3>. QED BY <2>2, <3>2
  <2>4. Len(h.buffer) >= Len(g.buffer) /\ Len(h.buffer) >= BaseGap + Len(u)
    BY <1>1, <1>4, <2>1, <2>2, <2>3
  <2>5. u = Meant(t, c)
    BY <1>2, <2>1, <2>2
  <2>. QED BY <2>2, <2>4, <2>5 DEF h, u, t
<1>. QED BY <1>1, <1>5, <1>6

(* A done command that kept what it should gives back the text before it,  *)
(* in the buffer as it is: the gap need not grow.                          *)
LEMMA BackwardCorrect ==
  ASSUME NEW g \in Gaps, NEW t \in Seq(Int), NEW c, Restores(c, t), c.sound,
         Len(g.buffer) >= BaseGap + Len(t),
         ToByteArray(g) = Meant(t, c),
         c.kind = "replace" => ~ReplacesTooMuch(g, c.at, Len(c.saved))
  PROVE  /\ Backward(g, c) \in Gaps
         /\ ToByteArray(Backward(g, c)) = t
         /\ Len(Backward(g, c).buffer) = Len(g.buffer)
<1>. BaseGap \in Nat
  BY HexAssumption
<1>. DEFINE i == c.at  n == c.n  data == c.data  u == ToByteArray(g)  h == Backward(g, c)
            saved == c.saved
<1>1. /\ i \in Nat /\ n \in Nat /\ data \in Seq(Int)
      /\ c.kind = "replace" \/ c.kind = "remove"
      /\ c.kind = "replace" => n = Len(data)
  <2>1. c \in Items
    BY DEF Restores, Items
  <2>. QED BY <2>1, ItemFacts
<1>2. u = IF c.kind = "replace" THEN Spliced(t, i, n, data) ELSE Without(t, i, n)
  BY DEF Meant, Without
<1>3. h = IF c.kind = "replace" THEN Replace(g, i, saved) ELSE Insert(g, i, saved)
  BY DEF Backward
<1>4. saved = Mid(t, i, n) /\ i + n <= Len(t) /\ Len(t) \in Nat
  BY LenProperties DEF Restores
<1>5. saved \in Seq(Int) /\ Len(saved) = n
  <2>. HIDE DEF saved, i, n
  <2>1. /\ saved \in Seq(Int)
        /\ Len(saved) = IF i + n <= Len(t) THEN n ELSE IF i <= Len(t) THEN Len(t) - i ELSE 0
    BY <1>1, <1>4, MidFacts
  <2>. QED BY <1>4, <2>1
<1>6. /\ Len(g.buffer) \in Nat /\ GapLength(g) \in Nat /\ Length(g) \in Nat
      /\ Len(g.buffer) = Length(g) + GapLength(g) /\ u \in Seq(Int) /\ Len(u) = Length(g)
  BY GapFacts, TextFacts
<1>7. CASE c.kind = "replace"
  <2>1. /\ h = Replace(g, i, saved) /\ ~ReplacesTooMuch(g, i, Len(saved))
        /\ u = Spliced(t, i, n, data) /\ Len(data) = n
    BY <1>1, <1>2, <1>3, <1>7
  <2>. HIDE DEF h, i, n, data, saved, u
  <2>2. /\ h \in Gaps /\ GapLength(h) = GapLength(g)
        /\ ToByteArray(h) = Spliced(u, i, Len(saved), saved)
    BY <1>1, <1>5, <2>1, ReplaceCorrect DEF u
  <2>3. Spliced(u, i, Len(saved), saved) = t
    <3>1. Spliced(Spliced(t, i, n, data), i, n, Mid(t, i, n)) = t
      BY <1>1, <1>4, <2>1, SpliceBack
    <3>. QED BY <1>4, <1>5, <2>1, <3>1
  <2>4. Len(u) = Len(t)
    <3>1. IsSpliced(u, t, i, n, data)
      BY <1>1, <2>1, SplicedFacts
    <3>2. Len(u) = i + Len(data) + (IF i + n <= Len(t) THEN Len(t) - (i + n) ELSE 0)
      BY <3>1 DEF IsSpliced
    <3>. QED BY <1>1, <1>4, <2>1, <3>2
  <2>5. Len(h.buffer) = Length(h) + GapLength(h) /\ Length(h) = Len(ToByteArray(h))
    BY <2>2, GapFacts, TextFacts
  <2>6. Len(h.buffer) = Len(g.buffer)
    BY <1>6, <2>2, <2>3, <2>4, <2>5
  <2>. QED BY <2>2, <2>3, <2>6 DEF h
<1>8. CASE c.kind = "remove"
  <2>1. h = Insert(g, i, saved) /\ u = Without(t, i, n)
    BY <1>2, <1>3, <1>8
  <2>. HIDE DEF h, i, n, data, saved, u
  <2>2. Len(u) = Len(t) - n
    <3>1. Len(Without(t, i, n)) = Len(t) - n
      BY <1>1, <1>4, WithoutLength
    <3>. QED BY <2>1, <3>1
  <2>3. i <= Length(g) /\ Len(saved) <= GapLength(g)
    <3>. DEFINE p == GapLength(g)  q == Length(g)  r == Len(g.buffer)
    <3>1. /\ p \in Nat /\ q \in Nat /\ r = q + p /\ q = Len(t) - n
          /\ i + n <= Len(t) /\ r >= BaseGap + Len(t) /\ Len(saved) = n
      BY <1>4, <1>5, <1>6, <2>2
    <3>. HIDE DEF p, q, r
    <3>2. i <= q /\ n <= p
      BY <1>1, <1>4, <3>1
    <3>. QED BY <3>1, <3>2 DEF p, q
  <2>4. /\ h \in Gaps /\ Len(h.buffer) = Len(g.buffer)
        /\ ToByteArray(h) = Spliced(u, i, 0, saved)
    BY <1>1, <1>5, <2>1, <2>3, InsertCorrect DEF u
  <2>5. Spliced(u, i, 0, saved) = t
    <3>1. Spliced(Without(t, i, n), i, 0, Mid(t, i, n)) = t
      BY <1>1, <1>4, WithoutBack
    <3>. QED BY <1>4, <2>1, <3>1
  <2>. QED BY <2>4, <2>5 DEF h
<1>. QED BY <1>1, <1>7, <1>8
-------------------------------------------------------------------------------
(* The document, its undo stack and the history, on records as Now is one. *)
(* The history says what each command made; a command that is done kept    *)
(* what it needs to be undone, and the buffer has room for that.           *)
HasFields(d) == {"gap", "stack", "index", "past", "pushes", "corrupted"} \subseteq DOMAIN d

Histories(d) == /\ d.stack \in Seq(Items) /\ d.past \in Seq(Seq(Int))
                /\ d.index \in Nat /\ d.index <= Len(d.stack)
                /\ Len(d.past) = Len(d.stack) + 1
                /\ \A j \in 1..Len(d.stack) : d.past[j + 1] = Meant(d.past[j], d.stack[j])
                /\ \A j \in 1..d.index : Restores(d.stack[j], d.past[j])

Contents(d) == /\ d.gap \in Gaps /\ ToByteArray(d.gap) = d.past[d.index + 1]
               /\ \A j \in 1..d.index + 1 : Len(d.gap.buffer) >= BaseGap + Len(d.past[j])

DocOk(d) == HasFields(d) /\ Histories(d) /\ Contents(d)

\* What Push makes of the stack and the history before it does the command.
Queued(d, c) == [d EXCEPT !.stack = Append(Left(@, d.index), c),
                          !.past = Append(Left(d.past, d.index + 1),
                                          Meant(Left(d.past, d.index + 1)[Len(Left(d.past, d.index + 1))], c)),
                          !.pushes = @ + 1]

(* Push queues a command and does it.                                      *)
LEMMA PushIs == \A d, c : Push(d, c) = Redo(Queued(d, c), c)
BY DEF Push, Queued

(* The first n of a sequence.                                              *)
LEMMA Prefix ==
  ASSUME NEW S, NEW s \in Seq(S), NEW n \in Nat, n <= Len(s)
  PROVE  /\ Left(s, n) \in Seq(S) /\ Len(Left(s, n)) = n
         /\ \A k \in 1..n : Left(s, n)[k] = s[k]
<1>1. Len(s) \in Nat
  BY LenProperties
<1>2. Left(s, n) = SubSeq(s, 1, n)
  BY <1>1 DEF Left, Mid
<1>3. \A i \in 1..n : s[i] \in S
  BY <1>1, ElementOfSeq
<1>. DEFINE one == 1
<1>. HIDE DEF one
<1>4. one \in Int /\ n \in Int /\ \A i \in one..n : s[i] \in S
  BY <1>3 DEF one
<1>5. /\ SubSeq(s, one, n) \in Seq(S)
      /\ Len(SubSeq(s, one, n)) = IF one <= n THEN n - one + 1 ELSE 0
      /\ \A i \in 1..n - one + 1 : SubSeq(s, one, n)[i] = s[one + i - 1]
  BY <1>4, SubSeqProperties
<1>6. Len(SubSeq(s, one, n)) = n
  BY <1>5 DEF one
<1>7. ASSUME NEW k \in 1..n
      PROVE  SubSeq(s, one, n)[k] = s[k]
  <2>1. k \in 1..n - one + 1 /\ one + k - 1 = k
    BY DEF one
  <2>. QED BY <1>5, <2>1
<1>. QED BY <1>2, <1>5, <1>6, <1>7 DEF one

(* Queueing a command keeps the invariant, with the command next to do.    *)
LEMMA QueuedKeeps ==
  ASSUME NEW d, DocOk(d), NEW c \in Commands
  PROVE  /\ DocOk(Queued(d, c)) /\ d.index < Len(Queued(d, c).stack)
         /\ Queued(d, c).index = d.index /\ Queued(d, c).stack[d.index + 1] = c
<1>. DEFINE i == d.index  stack0 == Left(d.stack, i)  past0 == Left(d.past, i + 1)
            meant == Meant(past0[Len(past0)], c)
            stack1 == Append(stack0, c)  past1 == Append(past0, meant)  e == Queued(d, c)
<1>1. /\ d.stack \in Seq(Items) /\ d.past \in Seq(Seq(Int)) /\ i \in Nat
      /\ i <= Len(d.stack) /\ Len(d.past) = Len(d.stack) + 1 /\ Len(d.stack) \in Nat
      /\ \A j \in 1..Len(d.stack) : d.past[j + 1] = Meant(d.past[j], d.stack[j])
      /\ \A j \in 1..i : Restores(d.stack[j], d.past[j])
  BY LenProperties DEF DocOk, Histories
<1>2. c \in Items
  BY DEF Items
<1>3. /\ HasFields(e) /\ e.stack = stack1 /\ e.past = past1 /\ e.index = i /\ e.gap = d.gap
  BY DEF DocOk, HasFields, Queued
<1>4. stack0 \in Seq(Items) /\ Len(stack0) = i /\ \A k \in 1..i : stack0[k] = d.stack[k]
  BY <1>1, Prefix
<1>5. past0 \in Seq(Seq(Int)) /\ Len(past0) = i + 1 /\ \A k \in 1..i + 1 : past0[k] = d.past[k]
  <2>. DEFINE n == i + 1
  <2>1. n \in Nat /\ n <= Len(d.past)
    BY <1>1
  <2>. HIDE DEF n
  <2>2. /\ Left(d.past, n) \in Seq(Seq(Int)) /\ Len(Left(d.past, n)) = n
        /\ \A k \in 1..n : Left(d.past, n)[k] = d.past[k]
    BY <1>1, <2>1, Prefix
  <2>. QED BY <2>2 DEF n
<1>6. meant = Meant(d.past[i + 1], c) /\ meant \in Seq(Int)
  <2>1. i + 1 \in 1..Len(d.past) /\ i + 1 \in 1..i + 1
    BY <1>1
  <2>2. past0[Len(past0)] = d.past[i + 1]
    BY <1>5, <2>1
  <2>3. d.past[i + 1] \in Seq(Int)
    BY <1>1, <2>1, ElementOfSeq
  <2>. QED BY <1>2, <2>2, <2>3, MeantTypes
<1>. HIDE DEF stack0, past0, meant
<1>7. /\ stack1 \in Seq(Items) /\ Len(stack1) = i + 1 /\ stack1[i + 1] = c
      /\ \A k \in 1..i : stack1[k] = d.stack[k]
  <2>1. /\ stack1 \in Seq(Items) /\ Len(stack1) = Len(stack0) + 1
        /\ \A k \in 1..Len(stack0) : stack1[k] = stack0[k]
        /\ stack1[Len(stack0) + 1] = c
    BY <1>2, <1>4, AppendProperties
  <2>. HIDE DEF stack1
  <2>. QED BY <1>4, <2>1
<1>8. /\ past1 \in Seq(Seq(Int)) /\ Len(past1) = i + 2 /\ past1[i + 2] = meant
      /\ \A k \in 1..i + 1 : past1[k] = d.past[k]
  <2>1. /\ past1 \in Seq(Seq(Int)) /\ Len(past1) = Len(past0) + 1
        /\ \A k \in 1..Len(past0) : past1[k] = past0[k]
        /\ past1[Len(past0) + 1] = meant
    BY <1>5, <1>6, AppendProperties
  <2>2. (i + 1) + 1 = i + 2
    BY <1>1
  <2>. HIDE DEF past1
  <2>. QED BY <1>5, <2>1, <2>2
<1>. HIDE DEF stack1, past1, e
<1>9. ASSUME NEW j \in 1..i + 1
      PROVE  past1[j + 1] = Meant(past1[j], stack1[j])
  <2>1. CASE j = i + 1
    <3>1. j + 1 = i + 2 /\ j \in 1..i + 1
      BY <1>1, <2>1
    <3>2. past1[j] = d.past[i + 1] /\ stack1[j] = c /\ past1[j + 1] = meant
      BY <1>7, <1>8, <2>1, <3>1
    <3>. QED BY <1>6, <3>2
  <2>2. CASE j # i + 1
    <3>1. j \in 1..i /\ j \in 1..Len(d.stack) /\ j + 1 \in 1..i + 1
      <4>. DEFINE len == Len(d.stack)
      <4>1. i \in Nat /\ len \in Nat /\ i <= len
        BY <1>1
      <4>. HIDE DEF i, len
      <4>2. j \in 1..i /\ j \in 1..len /\ j + 1 \in 1..i + 1
        BY <2>2, <4>1
      <4>. QED BY <4>2 DEF i, len
    <3>2. past1[j] = d.past[j] /\ past1[j + 1] = d.past[j + 1] /\ stack1[j] = d.stack[j]
      BY <1>7, <1>8, <3>1
    <3>. QED BY <1>1, <3>1, <3>2
  <2>. QED BY <2>1, <2>2
<1>10. ASSUME NEW j \in 1..i
       PROVE  Restores(stack1[j], past1[j])
  <2>1. j \in 1..i + 1
    BY <1>1
  <2>2. stack1[j] = d.stack[j] /\ past1[j] = d.past[j]
    BY <1>7, <1>8, <2>1
  <2>. QED BY <1>1, <2>2
<1>11. Histories(e)
  <2>1. /\ e.index \in Nat /\ e.index <= Len(e.stack) /\ Len(e.past) = Len(e.stack) + 1
    <3>1. Len(e.stack) = i + 1 /\ Len(e.past) = i + 2 /\ e.index = i
      BY <1>3, <1>7, <1>8
    <3>. QED BY <1>1, <3>1
  <2>2. /\ \A j \in 1..Len(e.stack) : e.past[j + 1] = Meant(e.past[j], e.stack[j])
        /\ \A j \in 1..e.index : Restores(e.stack[j], e.past[j])
    BY <1>3, <1>7, <1>9, <1>10
  <2>. QED BY <1>3, <1>7, <1>8, <2>1, <2>2 DEF Histories
<1>12. Contents(e)
  <2>1. /\ d.gap \in Gaps /\ ToByteArray(d.gap) = d.past[i + 1]
        /\ \A j \in 1..i + 1 : Len(d.gap.buffer) >= BaseGap + Len(d.past[j])
    BY DEF DocOk, Contents
  <2>2. i + 1 \in 1..i + 1
    BY <1>1
  <2>3. \A j \in 1..i + 1 : past1[j] = d.past[j]
    BY <1>8
  <2>. HIDE DEF i
  <2>4. ToByteArray(d.gap) = past1[i + 1]
    BY <2>1, <2>2, <2>3
  <2>5. \A j \in 1..i + 1 : Len(d.gap.buffer) >= BaseGap + Len(past1[j])
    BY <2>1, <2>3
  <2>. QED BY <1>3, <2>1, <2>4, <2>5 DEF Contents
<1>13. i < Len(stack1)
  BY <1>1, <1>7
<1>. QED BY <1>3, <1>7, <1>11, <1>12, <1>13 DEF DocOk, e

(* The fields of a document after a command is done.                       *)
LEMMA RedoIs ==
  ASSUME NEW d, HasFields(d), NEW c
  PROVE  /\ HasFields(Redo(d, c)) /\ Redo(d, c).index = d.index + 1
         /\ Redo(d, c).past = d.past /\ Redo(d, c).gap = Forward(d.gap, c)
         /\ Redo(d, c).stack = [d.stack EXCEPT ![d.index + 1] =
              [kind |-> c.kind, at |-> c.at, data |-> c.data, n |-> c.n,
               saved |-> Read(d.gap, c.at, c.n),
               sound |-> ~ReadsAstray(d.gap, c.at, c.n) /\ c.at + c.n <= Length(d.gap)]]
         /\ Redo(d, c).corrupted <=>
              \/ d.corrupted
              \/ c.kind = "replace" /\ ReplacesTooMuch(d.gap, c.at, c.n)
              \/ c.kind = "remove" /\ (c.at + c.n > Length(d.gap) \/ CopiesOverItself(d.gap, c.at))
BY DEF Redo, HasFields, Forward

(* And after it is undone.                                                 *)
LEMMA UndoIs ==
  ASSUME NEW d, HasFields(d)
  PROVE  /\ HasFields(Undo(d)) /\ Undo(d).index = d.index - 1
         /\ Undo(d).past = d.past /\ Undo(d).stack = d.stack
         /\ Undo(d).gap = Backward(d.gap, d.stack[d.index])
         /\ Undo(d).corrupted <=>
              \/ d.corrupted \/ ~d.stack[d.index].sound
              \/ /\ d.stack[d.index].kind = "replace"
                 /\ ReplacesTooMuch(d.gap, d.stack[d.index].at, Len(d.stack[d.index].saved))
              \/ d.stack[d.index].kind = "remove" /\ CopiesOverItself(d.gap, d.stack[d.index].at)
BY DEF Undo, HasFields, Backward

(* Doing the next command keeps the invariant, unless it meets a defect.   *)
LEMMA RedoKeeps ==
  ASSUME NEW d, DocOk(d), d.index < Len(d.stack), NEW c, c = d.stack[d.index + 1],
         ~Redo(d, c).corrupted
  PROVE  DocOk(Redo(d, c))
<1>. DEFINE i == d.index  g == d.gap  t == ToByteArray(g)  e == Redo(d, c)
            saved == Read(g, c.at, c.n)
            sound == ~ReadsAstray(g, c.at, c.n) /\ c.at + c.n <= Length(g)
            done == [kind |-> c.kind, at |-> c.at, data |-> c.data, n |-> c.n,
                     saved |-> saved, sound |-> sound]
<1>1. /\ d.stack \in Seq(Items) /\ d.past \in Seq(Seq(Int)) /\ i \in Nat
      /\ i < Len(d.stack) /\ Len(d.past) = Len(d.stack) + 1 /\ Len(d.stack) \in Nat
      /\ \A j \in 1..Len(d.stack) : d.past[j + 1] = Meant(d.past[j], d.stack[j])
      /\ \A j \in 1..i : Restores(d.stack[j], d.past[j])
  BY LenProperties DEF DocOk, Histories
<1>2. /\ HasFields(d) /\ g \in Gaps /\ t = d.past[i + 1]
      /\ \A j \in 1..i + 1 : Len(g.buffer) >= BaseGap + Len(d.past[j])
  BY DEF DocOk, Contents
<1>3. /\ HasFields(e) /\ e.index = i + 1 /\ e.past = d.past /\ e.gap = Forward(g, c)
      /\ e.stack = [d.stack EXCEPT ![i + 1] = done]
      /\ c.kind = "replace" => ~ReplacesTooMuch(g, c.at, c.n)
      /\ c.kind = "remove" => c.at + c.n <= Length(g)
  <2>1. /\ HasFields(e) /\ e.index = i + 1 /\ e.past = d.past /\ e.gap = Forward(g, c)
        /\ e.stack = [d.stack EXCEPT ![i + 1] = done]
        /\ ~(\/ d.corrupted
             \/ c.kind = "replace" /\ ReplacesTooMuch(g, c.at, c.n)
             \/ c.kind = "remove" /\ (c.at + c.n > Length(g) \/ CopiesOverItself(g, c.at)))
    BY <1>2, RedoIs
  <2>2. c.kind = "remove" => ~(c.at + c.n > Length(g))
    BY <2>1
  <2>3. i + 1 \in 1..Len(d.stack)
    BY <1>1
  <2>4. c \in Items
    BY <1>1, <2>3, ElementOfSeq
  <2>5. c.at \in Nat /\ c.n \in Nat /\ Length(g) \in Nat
    BY <1>2, <2>4, ItemFacts, GapFacts
  <2>6. c.kind = "remove" => c.at + c.n <= Length(g)
    BY <2>2, <2>5
  <2>. QED BY <2>1, <2>6
<1>4. i + 1 \in 1..Len(d.stack) /\ i + 1 \in 1..i + 1
  BY <1>1
<1>5. c \in Items /\ d.past[i + 2] = Meant(t, c)
  <2>1. c \in Items
    BY <1>1, <1>4, ElementOfSeq
  <2>2. (i + 1) + 1 = i + 2
    BY <1>1
  <2>3. d.past[(i + 1) + 1] = Meant(d.past[i + 1], d.stack[i + 1])
    BY <1>1, <1>4
  <2>. QED BY <1>2, <2>1, <2>2, <2>3
<1>6. t \in Seq(Int) /\ Len(t) = Length(g) /\ Len(g.buffer) >= BaseGap + Len(t)
  BY <1>2, <1>4, TextFacts
<1>7. /\ Forward(g, c) \in Gaps /\ ToByteArray(Forward(g, c)) = Meant(t, c)
      /\ Len(Forward(g, c).buffer) >= Len(g.buffer)
      /\ Len(Forward(g, c).buffer) >= BaseGap + Len(Meant(t, c))
  BY <1>2, <1>3, <1>5, <1>6, ForwardCorrect
<1>8. Restores(done, t) /\ done \in Items
  <2>1. /\ c.kind \in {"replace", "remove"} /\ c.at \in Nat /\ c.n \in Nat /\ c.data \in Seq(Int)
        /\ c.kind = "replace" => c.n = Len(c.data)
    BY <1>5, ItemFacts
  <2>2. saved \in Seq(Int)
    BY <1>2, <2>1, ReadTypes
  <2>3. sound \in BOOLEAN
    OBVIOUS
  <2>4. sound => saved = Mid(t, c.at, c.n) /\ c.at + c.n <= Len(t)
    BY <1>2, <1>6, <2>1, ReadCorrect
  <2>. HIDE DEF saved, sound
  <2>5. done \in Entries
    BY <2>1, <2>2, <2>3 DEF Entries
  <2>6. /\ done.at = c.at /\ done.n = c.n /\ done.kind = c.kind /\ done.saved = saved
        /\ done.sound = sound
    OBVIOUS
  <2>. HIDE DEF done
  <2>7. c.kind = "remove" => c.at + c.n <= Len(t)
    BY <1>3, <1>6
  <2>. QED BY <2>4, <2>5, <2>6, <2>7 DEF Restores, Items
<1>9. Meant(t, done) = Meant(t, c)
  BY DEF Meant
<1>. HIDE DEF done, t, e
<1>10. /\ e.stack \in Seq(Items) /\ Len(e.stack) = Len(d.stack) /\ e.stack[i + 1] = done
       /\ \A j \in 1..Len(d.stack) : j # i + 1 => e.stack[j] = d.stack[j]
  <2>. DEFINE m == i + 1  s == [d.stack EXCEPT ![m] = done]
  <2>1. m \in 1..Len(d.stack)
    BY <1>4
  <2>. HIDE DEF m
  <2>2. /\ s \in Seq(Items) /\ Len(s) = Len(d.stack)
        /\ \A j \in 1..Len(d.stack) : s[j] = IF j = m THEN done ELSE d.stack[j]
    <3>1. d.stack \in Seq(Items) /\ done \in Items
      BY <1>1, <1>8
    <3>. QED BY <2>1, <3>1, ExceptSeq
  <2>3. e.stack = s
    BY <1>3 DEF m
  <2>. HIDE DEF s
  <2>. QED BY <2>1, <2>2, <2>3 DEF m
<1>. DEFINE len == Len(d.stack)
<1>11. Histories(e)
  <2>1. len \in Nat /\ i < len /\ i + 1 <= len
    BY <1>1
  <2>2. ASSUME NEW j \in 1..len
        PROVE  d.past[j + 1] = Meant(d.past[j], e.stack[j])
    <3>1. CASE j = i + 1
      <4>1. j + 1 = i + 2
        BY <1>1, <3>1
      <4>2. e.stack[j] = done /\ d.past[j] = t /\ d.past[j + 1] = Meant(t, c)
        BY <1>2, <1>5, <1>10, <3>1, <4>1
      <4>. QED BY <1>9, <4>2
    <3>2. CASE j # i + 1
      BY <1>1, <1>10, <3>2
    <3>. QED BY <3>1, <3>2
  <2>3. ASSUME NEW j \in 1..i + 1
        PROVE  Restores(e.stack[j], d.past[j])
    <3>1. CASE j = i + 1
      <4>1. e.stack[j] = done /\ d.past[j] = t
        BY <1>2, <1>10, <3>1
      <4>. QED BY <1>8, <4>1
    <3>2. CASE j # i + 1
      <4>. HIDE DEF i, len
      <4>1. i \in Nat
        BY <1>1
      <4>2. j \in 1..i /\ j \in 1..len
        BY <2>1, <3>2, <4>1
      <4>3. e.stack[j] = d.stack[j]
        BY <1>10, <3>2, <4>2 DEF len
      <4>. QED BY <1>1, <4>2, <4>3
    <3>. QED BY <3>1, <3>2
  <2>. QED BY <1>1, <1>3, <1>10, <2>1, <2>2, <2>3 DEF Histories
<1>12. Contents(e)
  <2>1. e.past[e.index + 1] = Meant(t, c)
    <3>1. (i + 1) + 1 = i + 2
      BY <1>1
    <3>. QED BY <1>3, <1>5, <3>1
  <2>2. ASSUME NEW j \in 1..e.index + 1
        PROVE  Len(e.gap.buffer) >= BaseGap + Len(d.past[j])
    <3>1. j \in 1..i + 2
      BY <1>1, <1>3
    <3>2. CASE j = i + 2
      BY <1>3, <1>5, <1>7, <3>2
    <3>3. CASE j # i + 2
      <4>1. j \in 1..i + 1 /\ j \in 1..Len(d.past)
        BY <1>1, <3>1, <3>3
      <4>2. Len(g.buffer) >= BaseGap + Len(d.past[j])
        BY <1>2, <4>1
      <4>3. d.past[j] \in Seq(Int)
        BY <1>1, <4>1, ElementOfSeq
      <4>. DEFINE p == Len(d.past[j])  q == Len(g.buffer)  r == Len(e.gap.buffer)
      <4>4. p \in Nat /\ q \in Nat /\ r \in Nat /\ q >= BaseGap + p /\ r >= q /\ BaseGap \in Nat
        BY <1>2, <1>3, <1>7, <4>2, <4>3, LenProperties, GapFacts, HexAssumption
      <4>. HIDE DEF p, q, r
      <4>5. r >= BaseGap + p
        BY <4>4
      <4>. QED BY <4>5 DEF p, r
    <3>. QED BY <3>2, <3>3
  <2>. QED BY <1>3, <1>7, <2>1, <2>2 DEF Contents
<1>. QED BY <1>3, <1>11, <1>12 DEF DocOk, e

(* So does undoing the last one.                                           *)
LEMMA UndoKeeps ==
  ASSUME NEW d, DocOk(d), d.index > 0, ~Undo(d).corrupted
  PROVE  DocOk(Undo(d))
<1>. DEFINE i == d.index  g == d.gap  e == Undo(d)  c == d.stack[i]  t == d.past[i]
<1>1. /\ d.stack \in Seq(Items) /\ d.past \in Seq(Seq(Int)) /\ i \in Nat
      /\ i <= Len(d.stack) /\ Len(d.past) = Len(d.stack) + 1 /\ Len(d.stack) \in Nat
      /\ \A j \in 1..Len(d.stack) : d.past[j + 1] = Meant(d.past[j], d.stack[j])
      /\ \A j \in 1..i : Restores(d.stack[j], d.past[j])
  BY LenProperties DEF DocOk, Histories
<1>2. /\ HasFields(d) /\ g \in Gaps /\ ToByteArray(g) = d.past[i + 1]
      /\ \A j \in 1..i + 1 : Len(g.buffer) >= BaseGap + Len(d.past[j])
  BY DEF DocOk, Contents
<1>3. /\ HasFields(e) /\ e.index = i - 1 /\ e.past = d.past /\ e.stack = d.stack
      /\ e.gap = Backward(g, c) /\ c.sound
      /\ c.kind = "replace" => ~ReplacesTooMuch(g, c.at, Len(c.saved))
  BY <1>2, UndoIs
<1>4. i \in 1..i /\ i \in 1..Len(d.stack) /\ i \in 1..i + 1 /\ i \in 1..Len(d.past)
  BY <1>1
<1>5. t \in Seq(Int) /\ Restores(c, t) /\ ToByteArray(g) = Meant(t, c)
      /\ Len(g.buffer) >= BaseGap + Len(t)
  BY <1>1, <1>2, <1>4, ElementOfSeq
<1>6. Backward(g, c) \in Gaps /\ ToByteArray(Backward(g, c)) = t
      /\ Len(Backward(g, c).buffer) = Len(g.buffer)
  <2>. HIDE DEF g, c, t
  <2>. QED BY <1>2, <1>3, <1>5, BackwardCorrect DEF g
<1>. HIDE DEF e, c, t
<1>7. i - 1 \in Nat /\ i - 1 <= Len(d.stack) /\ (i - 1) + 1 = i
  BY <1>1
<1>8. Histories(e)
  <2>1. \A j \in 1..i - 1 : Restores(d.stack[j], d.past[j])
    BY <1>1
  <2>. QED BY <1>1, <1>3, <1>7, <2>1 DEF Histories
<1>9. Contents(e)
  <2>1. \A j \in 1..i : Len(g.buffer) >= BaseGap + Len(d.past[j])
    BY <1>1, <1>2
  <2>2. e.past[e.index + 1] = t
    BY <1>3, <1>7 DEF t
  <2>. QED BY <1>3, <1>6, <1>7, <2>1, <2>2 DEF Contents
<1>. QED BY <1>3, <1>8, <1>9 DEF DocOk, e

(* Pushing a command keeps the invariant, unless it meets a defect.        *)
LEMMA PushKeeps ==
  ASSUME NEW d, DocOk(d), NEW c \in Commands, ~Push(d, c).corrupted
  PROVE  DocOk(Push(d, c))
<1>. DEFINE q == Queued(d, c)
<1>1. /\ DocOk(q) /\ q.index = d.index /\ d.index < Len(q.stack) /\ q.stack[d.index + 1] = c
  BY QueuedKeeps
<1>2. Push(d, c) = Redo(q, c)
  BY PushIs
<1>. HIDE DEF q
<1>. QED BY <1>1, <1>2, RedoKeeps

(* What is corrupted stays so.                                             *)
LEMMA StaysCorrupted ==
  ASSUME NEW d, HasFields(d), NEW c
  PROVE  HasFields(Push(d, c)) /\ (d.corrupted => Push(d, c).corrupted)
<1>. DEFINE q == Queued(d, c)
<1>1. HasFields(q) /\ q.corrupted = d.corrupted
  BY DEF Queued, HasFields
<1>2. Push(d, c) = Redo(q, c)
  BY PushIs
<1>. HIDE DEF q
<1>3. /\ HasFields(Redo(q, c))
      /\ Redo(q, c).corrupted <=>
           \/ q.corrupted
           \/ c.kind = "replace" /\ ReplacesTooMuch(q.gap, c.at, c.n)
           \/ c.kind = "remove" /\ (c.at + c.n > Length(q.gap) \/ CopiesOverItself(q.gap, c.at))
  BY <1>1, RedoIs
<1>. QED BY <1>1, <1>2, <1>3
-------------------------------------------------------------------------------
\* Where the cursor is while nothing is corrupted, and what has been typed.
Cursors == [offset : Nat, selection : Nat, nibble : {0, 1}, part : Parts \cup {"hex"}]

Typing == cursor \in Cursors /\ digits \in Seq(Digits) /\ first \in Nat

(* UndoKeepsHistory speaks of the present only.  It is inductive with what *)
(* DocOk says of each command that can be undone or redone, the room that  *)
(* the buffer has for undoing them, and the positions of the cursor.       *)
HistoryKept == ~corrupted => DocOk(Now) /\ Typing

HexInv == HistoryKept /\ DigitsFillNibbles

(* The keys push commands.                                                 *)
LEMMA CommandTypes ==
  ASSUME NEW i \in Nat
  PROVE  /\ \A data \in Seq(Int) : ReplaceCommand(i, data) \in Commands
         /\ \A n \in Nat : RemoveCommand(i, n) \in Commands
<1>1. ASSUME NEW data \in Seq(Int)
      PROVE  ReplaceCommand(i, data) \in Commands
  <2>1. Len(data) \in Nat
    BY LenProperties
  <2>. QED BY <2>1 DEF ReplaceCommand, Commands
<1>2. ASSUME NEW n \in Nat
      PROVE  RemoveCommand(i, n) \in Commands
  <2>1. <<>> \in Seq(Int)
    OBVIOUS
  <2>. QED BY <2>1 DEF RemoveCommand, Commands
<1>. QED BY <1>1, <1>2

(* at() reads the text, inside of it.                                      *)
LEMMA AtFacts ==
  ASSUME NEW g \in Gaps, NEW i \in Nat, i < Length(g)
  PROVE  At(g, i) = ToByteArray(g)[i + 1] /\ At(g, i) \in Int
<1>. DEFINE b == g.buffer  S == g.start  G == GapLength(g)  N == Length(g)  t == ToByteArray(g)
<1>1. S \in Nat /\ G \in Nat /\ N \in Nat
  BY GapFacts
<1>2. t \in Seq(Int) /\ Len(t) = N
  BY TextFacts
<1>3. \A k \in 1..N : t[k] = b[IF k <= S THEN k ELSE k + G]
  BY TextFacts
<1>4. At(g, i) = b[(IF i >= S THEN i + G ELSE i) + 1]
  BY DEF At
<1>. HIDE DEF b, S, G, N, t
<1>5. i + 1 \in 1..N
  BY <1>1 DEF N
<1>6. t[i + 1] \in Int
  BY <1>2, <1>5, ElementOfSeq
<1>7. CASE i >= S
  <2>1. ~(i + 1 <= S) /\ (i + G) + 1 = (i + 1) + G
    BY <1>1, <1>7
  <2>. QED BY <1>3, <1>4, <1>5, <1>6, <1>7, <2>1 DEF t
<1>8. CASE ~(i >= S)
  <2>1. i + 1 <= S
    BY <1>1, <1>8
  <2>. QED BY <1>3, <1>4, <1>5, <1>6, <1>8, <2>1 DEF t
<1>. QED BY <1>7, <1>8

(* A byte stays one when a nibble of it is replaced.                       *)
LEMMA NibbleTypes ==
  ASSUME NEW byte \in Int, NEW nibble, NEW v \in Int
  PROVE  NibbleReplaced(byte, nibble, v) \in Int
<1>1. NibbleSize \in Nat \ {0}
  BY HexAssumption
<1>2. byte % NibbleSize \in Int /\ byte \div NibbleSize \in Int
  BY <1>1
<1>3. v * NibbleSize \in Int /\ (byte \div NibbleSize) * NibbleSize \in Int
  BY <1>1, <1>2
<1>. QED BY <1>2, <1>3 DEF NibbleReplaced, LowPart, HighPart

(* The cursor's movements end inside the document or at its end.           *)
LEMMA CursorMoves ==
  ASSUME NEW c \in Cursors, NEW length \in Nat
  PROVE  /\ ClearSelection(c) \in Cursors
         /\ \A o \in Nat : Clamped(o, length) \in Nat
         /\ \A o \in Nat, by \in Int : Moved(o, by, length) \in Nat
         /\ \A o \in Nat, nibble \in {0, 1} : SetOffset(c, o, nibble, length) \in Cursors
         /\ MoveByByte(c, length) \in Cursors
         /\ \A by \in Int : MoveByNibble(c, by, length) \in Cursors
<1>1. /\ c.offset \in Nat /\ c.selection \in Nat /\ c.nibble \in {0, 1}
  BY DEF Cursors
<1>2. ClearSelection(c) \in Cursors
  BY DEF Cursors, ClearSelection
<1>3. \A o \in Nat : Clamped(o, length) \in Nat
  BY DEF Clamped
<1>4. \A o \in Nat, by \in Int : Moved(o, by, length) \in Nat
  BY DEF Moved
<1>5. ASSUME NEW o \in Nat, NEW nibble \in {0, 1}
      PROVE  SetOffset(c, o, nibble, length) \in Cursors
  BY <1>3 DEF SetOffset, Cursors
<1>6. MoveByByte(c, length) \in Cursors
  <2>. DEFINE one == 1  zero == 0  o == Moved(c.offset, one, length)
  <2>1. one \in Int /\ zero \in {0, 1} /\ MoveByByte(c, length) = SetOffset(c, o, zero, length)
    BY DEF MoveByByte
  <2>. HIDE DEF one, zero
  <2>2. o \in Nat
    BY <1>1, <1>4, <2>1
  <2>. HIDE DEF o
  <2>. QED BY <1>5, <2>1, <2>2
<1>7. ASSUME NEW by \in Int
      PROVE  MoveByNibble(c, by, length) \in Cursors
  <2>. DEFINE step == IF (c.nibble = 0) = (by > 0) THEN 0 ELSE by
  <2>1. step \in Int /\ 1 - c.nibble \in {0, 1}
    BY <1>1
  <2>2. MoveByNibble(c, by, length)
          = SetOffset(c, Moved(c.offset, step, length), 1 - c.nibble, length)
    BY DEF MoveByNibble
  <2>. HIDE DEF step
  <2>3. Moved(c.offset, step, length) \in Nat
    BY <1>1, <1>4, <2>1
  <2>. QED BY <1>5, <2>1, <2>2, <2>3
<1>. QED BY <1>2, <1>3, <1>4, <1>5, <1>6, <1>7

(* The record of the document, now and after a step.                       *)
LEMMA NowIs ==
  /\ HasFields(Now) /\ Now.gap = gap /\ Now.stack = stack /\ Now.index = index
  /\ Now.past = past /\ Now.corrupted = corrupted
BY DEF Now, HasFields

(* A step that makes the document a good one keeps it good.                *)
LEMMA Becoming ==
  ASSUME NEW d, Becomes(d), DocOk(d)
  PROVE  DocOk(Now)'
<1>. DEFINE e == Now'
<1>1. /\ HasFields(e) /\ e.gap = d.gap /\ e.stack = d.stack /\ e.index = d.index /\ e.past = d.past
  BY DEF Now, HasFields, Becomes
<1>. HIDE DEF e
<1>2. DocOk(e)
  BY <1>1 DEF DocOk, Histories, Contents
<1>. QED BY <1>2 DEF e

(* Removing the selection keeps the invariant, or meets a defect.          *)
LEMMA SelectionRemoved ==
  ASSUME NEW d, DocOk(d), NEW c \in Cursors
  PROVE  /\ HasFields(RemoveSelection(d, c))
         /\ ~RemoveSelection(d, c).corrupted => DocOk(RemoveSelection(d, c))
         /\ ~HasSelection(c) => RemoveSelection(d, c) = d
<1>1. /\ c.offset \in Nat /\ c.selection \in Nat
  BY DEF Cursors
<1>2. SelectionStart(c) \in Nat /\ SelectionLength(c) \in Nat
  BY <1>1 DEF SelectionStart, SelectionLength
<1>3. RemoveCommand(SelectionStart(c), SelectionLength(c)) \in Commands
  BY <1>2, CommandTypes
<1>4. HasFields(d)
  BY DEF DocOk
<1>. QED BY <1>3, <1>4, StaysCorrupted, PushKeeps DEF RemoveSelection

(* A step that leaves the document as it is.                               *)
LEMMA SameDocument ==
  ASSUME UNCHANGED docVars
  PROVE  /\ DocOk(Now)' <=> DocOk(Now)
         /\ corrupted' = corrupted
<1>1. Now' = Now
  BY DEF Now, docVars
<1>. QED BY <1>1 DEF docVars

(* A replacement that meets no defect is one of the gap buffer, and keeps  *)
(* the invariant.                                                          *)
LEMMA Replacing ==
  ASSUME NEW d, DocOk(d), NEW i \in Nat, NEW data \in Seq(Int),
         ~Push(d, ReplaceCommand(i, data)).corrupted
  PROVE  /\ ~d.corrupted /\ DocOk(Push(d, ReplaceCommand(i, data)))
         /\ Push(d, ReplaceCommand(i, data)).gap = Replace(d.gap, i, data)
         /\ ~ReplacesTooMuch(d.gap, i, Len(data))
<1>. DEFINE c == ReplaceCommand(i, data)  q == Queued(d, c)
<1>1. c \in Commands /\ c.kind = "replace" /\ c.at = i /\ c.data = data /\ c.n = Len(data)
  BY CommandTypes DEF ReplaceCommand
<1>2. HasFields(d)
  BY DEF DocOk
<1>3. HasFields(q) /\ q.gap = d.gap /\ Push(d, c) = Redo(q, c)
  BY <1>2, PushIs DEF Queued, HasFields
<1>. HIDE DEF c, q
<1>4. ~Push(d, c).corrupted
  BY DEF c
<1>5. /\ Redo(q, c).gap = Forward(q.gap, c)
      /\ Redo(q, c).corrupted <=>
           \/ q.corrupted
           \/ c.kind = "replace" /\ ReplacesTooMuch(q.gap, c.at, c.n)
           \/ c.kind = "remove" /\ (c.at + c.n > Length(q.gap) \/ CopiesOverItself(q.gap, c.at))
  BY <1>3, RedoIs, Zenon
<1>6. ~ReplacesTooMuch(d.gap, i, Len(data)) /\ Push(d, c).gap = Replace(d.gap, i, data)
  BY <1>1, <1>3, <1>4, <1>5 DEF Forward
<1>7. DocOk(Push(d, c))
  BY <1>1, <1>4, PushKeeps
<1>8. ~d.corrupted
  BY <1>2, <1>4, StaysCorrupted
<1>. QED BY <1>6, <1>7, <1>8 DEF c

(* A step that ends the typing, with the cursor in its place.              *)
LEMMA KeepsTyping ==
  ASSUME EndsTyping, cursor' \in Cursors
  PROVE  Typing'
BY DEF EndsTyping, Typing

(* A replacement after a selection was removed.                            *)
LEMMA AnyPush ==
  ASSUME NEW d, HasFields(d), ~d.corrupted => DocOk(d), NEW i \in Nat, NEW data \in Seq(Int),
         ~Push(d, ReplaceCommand(i, data)).corrupted
  PROVE  /\ ~d.corrupted /\ DocOk(d) /\ DocOk(Push(d, ReplaceCommand(i, data)))
         /\ Push(d, ReplaceCommand(i, data)).gap = Replace(d.gap, i, data)
         /\ ~ReplacesTooMuch(d.gap, i, Len(data))
         /\ Length(Push(d, ReplaceCommand(i, data)).gap) \in Nat
<1>. DEFINE c == ReplaceCommand(i, data)
<1>. HIDE DEF c
<1>1. ~Push(d, c).corrupted
  BY DEF c
<1>2. ~d.corrupted
  BY <1>1, StaysCorrupted
<1>3. DocOk(d)
  BY <1>2
<1>4. /\ DocOk(Push(d, c)) /\ Push(d, c).gap = Replace(d.gap, i, data)
      /\ ~ReplacesTooMuch(d.gap, i, Len(data))
  BY <1>3, Replacing DEF c
<1>5. Push(d, c).gap \in Gaps
  BY <1>4 DEF DocOk, Contents
<1>. QED BY <1>2, <1>3, <1>4, <1>5, GapFacts DEF c

(* The invariant but for the nibbles, action by action.                    *)
LEMMA TypeHexKeeps ==
  ASSUME HistoryKept, NEW v \in Digits, TypeHex(v), ~corrupted'
  PROVE  DocOk(Now)' /\ Typing'
<1>. DEFINE d == RemoveSelection(Now, cursor)  c == ClearSelection(cursor)  at == c.offset
            data == <<NibbleReplaced(At(d.gap, at), c.nibble, v)>>
            p == Push(d, ReplaceCommand(at, data))
<1>1. DocOk(Now) /\ Typing /\ cursor \in Cursors
  BY DEF HistoryKept, TypeHex, Keys, Input, Typing
<1>2. c \in Cursors /\ at \in Nat /\ c.nibble \in {0, 1} /\ at = cursor.offset
      /\ c.nibble = cursor.nibble
  BY <1>1 DEF ClearSelection, Cursors
<1>3. HasFields(d) /\ (~d.corrupted => DocOk(d))
  BY <1>1, SelectionRemoved
<1>4. v \in Int
  BY HexAssumption
<1>5. CASE at < Length(d.gap)
  <2>1. /\ Becomes(p) /\ cursor' = MoveByNibble(c, 1, Length(d.gap))
        /\ digits' = IF HasSelection(cursor) THEN <<v>> ELSE Append(digits, v)
        /\ first' = IF HasSelection(cursor) \/ digits = <<>> THEN 2 * at + c.nibble ELSE first
    BY <1>5 DEF TypeHex
  <2>. HIDE DEF d, c, at
  <2>2. ~p.corrupted
    BY <2>1 DEF Becomes
  <2>3. ~d.corrupted
    BY <1>3, <2>2, StaysCorrupted
  <2>4. DocOk(d) /\ d.gap \in Gaps /\ Length(d.gap) \in Nat
    BY <1>3, <2>3, GapFacts DEF DocOk, Contents
  <2>5. data \in Seq(Int)
    <3>1. At(d.gap, at) \in Int
      BY <1>2, <1>5, <2>4, AtFacts
    <3>2. NibbleReplaced(At(d.gap, at), c.nibble, v) \in Int
      BY <1>4, <3>1, NibbleTypes
    <3>. QED BY <3>2
  <2>6. DocOk(p)
    <3>. HIDE DEF data
    <3>. QED BY <1>2, <1>3, <2>2, <2>5, AnyPush
  <2>. HIDE DEF p
  <2>7. DocOk(Now)'
    BY <2>1, <2>6, Becoming
  <2>8. cursor' \in Cursors
    <3>. DEFINE one == 1
    <3>1. one \in Int /\ cursor' = MoveByNibble(c, one, Length(d.gap))
      BY <2>1
    <3>. HIDE DEF one
    <3>. QED BY <1>2, <2>4, <3>1, CursorMoves
  <2>9. digits' \in Seq(Digits) /\ first' \in Nat
    <3>1. Append(digits, v) \in Seq(Digits) /\ <<v>> \in Seq(Digits)
      BY <1>1 DEF Typing
    <3>2. 2 * at + c.nibble \in Nat
      BY <1>2
    <3>. QED BY <1>1, <2>1, <3>1, <3>2 DEF Typing
  <2>. QED BY <2>7, <2>8, <2>9 DEF Typing
<1>6. CASE ~(at < Length(d.gap))
  <2>1. Becomes(d) /\ cursor' = c /\ EndsTyping
    BY <1>6 DEF TypeHex
  <2>. HIDE DEF d, c
  <2>2. DocOk(d)
    BY <1>3, <2>1 DEF Becomes
  <2>. QED BY <1>2, <2>1, <2>2, Becoming, KeepsTyping
<1>. QED BY <1>5, <1>6

(* A character is typed.                                                   *)
LEMMA TypeAsciiKeeps ==
  ASSUME HistoryKept, NEW b \in Letters, TypeAscii(b), ~corrupted'
  PROVE  DocOk(Now)' /\ Typing'
<1>. DEFINE d == RemoveSelection(Now, cursor)  c == ClearSelection(cursor)  at == c.offset
            data == <<b>>  p == Push(d, ReplaceCommand(at, data))
            after == IF Length(d.gap) > 0 THEN p ELSE d
<1>1. DocOk(Now) /\ cursor \in Cursors
  BY DEF HistoryKept, TypeAscii, Keys, Input, Typing
<1>2. c \in Cursors /\ at \in Nat
  BY <1>1 DEF ClearSelection, Cursors
<1>3. HasFields(d) /\ (~d.corrupted => DocOk(d))
  BY <1>1, SelectionRemoved
<1>4. data \in Seq(Int)
  BY HexAssumption
<1>5. Becomes(after) /\ cursor' = MoveByByte(c, Length(after.gap)) /\ EndsTyping
  BY DEF TypeAscii
<1>. HIDE DEF d, c, at, data
<1>6. ~after.corrupted
  BY <1>5 DEF Becomes
<1>7. DocOk(after) /\ Length(after.gap) \in Nat
  <2>1. CASE Length(d.gap) > 0
    BY <1>2, <1>3, <1>4, <1>6, <2>1, AnyPush
  <2>2. CASE ~(Length(d.gap) > 0)
    <3>1. after = d
      BY <2>2
    <3>. HIDE DEF after
    <3>2. DocOk(d) /\ d.gap \in Gaps
      BY <1>3, <1>6, <3>1 DEF DocOk, Contents
    <3>. QED BY <3>1, <3>2, GapFacts
  <2>. QED BY <2>1, <2>2
<1>. HIDE DEF after
<1>8. cursor' \in Cursors
  BY <1>2, <1>5, <1>7, CursorMoves
<1>. QED BY <1>5, <1>7, <1>8, Becoming, KeepsTyping

(* The key Delete.                                                         *)
LEMMA DeleteKeeps ==
  ASSUME HistoryKept, Delete, ~corrupted'
  PROVE  DocOk(Now)' /\ Typing'
<1>. DEFINE at == cursor.offset  r == RemoveSelection(Now, cursor)
<1>1. DocOk(Now) /\ cursor \in Cursors /\ cursor' = ClearSelection(cursor) /\ EndsTyping
  BY DEF HistoryKept, Delete, Keys, Input, Typing
<1>2. HasFields(Now) /\ gap \in Gaps /\ Now.gap = gap
  BY <1>1, NowIs DEF DocOk, Contents
<1>3. at \in Nat /\ cursor.nibble \in {0, 1} /\ ClearSelection(cursor) \in Cursors
  BY <1>1 DEF ClearSelection, Cursors
<1>4. Typing'
  BY <1>1, <1>3, KeepsTyping
<1>5. ASSUME NEW data \in Seq(Int), Becomes(Push(Now, ReplaceCommand(at, data)))
      PROVE  DocOk(Now)'
  <2>. DEFINE p == Push(Now, ReplaceCommand(at, data))
  <2>. HIDE DEF at
  <2>1. Becomes(p) /\ ~p.corrupted
    BY <1>5 DEF Becomes
  <2>2. DocOk(p)
    BY <1>1, <1>2, <1>3, <2>1, AnyPush
  <2>. HIDE DEF p
  <2>. QED BY <2>1, <2>2, Becoming
<1>6. CASE HasSelection(cursor)
  <2>1. Becomes(r)
    BY <1>6 DEF Delete
  <2>. HIDE DEF r
  <2>2. DocOk(r)
    BY <1>1, <2>1, SelectionRemoved DEF Becomes, r
  <2>. QED BY <1>4, <2>1, <2>2, Becoming
<1>7. CASE ~HasSelection(cursor) /\ cursor.part = "hex"
  <2>1. CASE at >= Length(gap)
    <3>1. UNCHANGED docVars
      BY <1>7, <2>1 DEF Delete
    <3>. QED BY <1>1, <1>4, <3>1, SameDocument
  <2>2. CASE ~(at >= Length(gap))
    <3>. DEFINE byte == NibbleReplaced(At(gap, at), cursor.nibble, 0)  data == <<byte>>
    <3>1. Becomes(Push(Now, ReplaceCommand(at, data)))
      BY <1>7, <2>2 DEF Delete
    <3>. DEFINE zero == 0
    <3>2. zero \in Int /\ byte = NibbleReplaced(At(gap, at), cursor.nibble, zero)
      OBVIOUS
    <3>. HIDE DEF at, zero, byte
    <3>3. Length(gap) \in Nat
      BY <1>2, GapFacts
    <3>4. at < Length(gap)
      BY <1>3, <2>2, <3>3
    <3>5. At(gap, at) \in Int
      BY <1>2, <1>3, <3>4, AtFacts
    <3>6. byte \in Int
      BY <3>2, <3>5, NibbleTypes
    <3>7. data \in Seq(Int)
      BY <3>6
    <3>. HIDE DEF data
    <3>. QED BY <1>4, <1>5, <3>1, <3>7
  <2>. QED BY <2>1, <2>2
<1>8. CASE ~HasSelection(cursor) /\ cursor.part # "hex"
  <2>. DEFINE data == <<0>>
  <2>1. Becomes(Push(Now, ReplaceCommand(at, data))) /\ data \in Seq(Int)
    BY <1>8 DEF Delete
  <2>. HIDE DEF at, data
  <2>. QED BY <1>4, <1>5, <2>1
<1>. QED BY <1>6, <1>7, <1>8

(* The key Backspace.                                                      *)
LEMMA BackspaceKeeps ==
  ASSUME HistoryKept, Backspace, ~corrupted'
  PROVE  DocOk(Now)' /\ Typing'
<1>. DEFINE at == IF cursor.offset > 0 THEN cursor.offset - 1 ELSE 0
            r == RemoveSelection(Now, cursor)  data == <<0>>
            p == Push(Now, ReplaceCommand(at, data))
<1>1. DocOk(Now) /\ cursor \in Cursors /\ cursor' = ClearSelection(cursor) /\ EndsTyping
  BY DEF HistoryKept, Backspace, Keys, Input, Typing
<1>2. HasFields(Now)
  BY NowIs
<1>3. at \in Nat /\ data \in Seq(Int) /\ ClearSelection(cursor) \in Cursors
  BY <1>1 DEF ClearSelection, Cursors
<1>4. Becomes(IF HasSelection(cursor) THEN r ELSE p)
  BY DEF Backspace
<1>. HIDE DEF at, data
<1>5. Typing'
  BY <1>1, <1>3, KeepsTyping
<1>6. CASE HasSelection(cursor)
  <2>1. Becomes(r)
    BY <1>4, <1>6
  <2>. HIDE DEF r
  <2>2. DocOk(r)
    BY <1>1, <2>1, SelectionRemoved DEF Becomes, r
  <2>. QED BY <1>5, <2>1, <2>2, Becoming
<1>7. CASE ~HasSelection(cursor)
  <2>1. Becomes(p) /\ ~p.corrupted
    BY <1>4, <1>7 DEF Becomes
  <2>2. DocOk(p)
    BY <1>1, <1>2, <1>3, <2>1, AnyPush
  <2>. HIDE DEF p
  <2>. QED BY <1>5, <2>1, <2>2, Becoming
<1>. QED BY <1>6, <1>7

(* The selection is cut.                                                   *)
LEMMA CutKeeps ==
  ASSUME HistoryKept, Cut, ~corrupted'
  PROVE  DocOk(Now)' /\ Typing'
<1>. DEFINE r == RemoveSelection(Now, cursor)
<1>1. /\ DocOk(Now) /\ cursor \in Cursors /\ cursor' = ClearSelection(cursor) /\ EndsTyping
      /\ Becomes(r)
  BY DEF HistoryKept, Cut, Keys, Input, Typing
<1>2. DocOk(r)
  BY <1>1, SelectionRemoved DEF Becomes
<1>3. ClearSelection(cursor) \in Cursors
  BY <1>1 DEF ClearSelection, Cursors
<1>. HIDE DEF r
<1>. QED BY <1>1, <1>2, <1>3, Becoming, KeepsTyping

(* The clipboard is pasted.                                                *)
LEMMA PasteKeeps ==
  ASSUME HistoryKept, Paste, ~corrupted'
  PROVE  DocOk(Now)' /\ Typing'
<1>. DEFINE c == ClearSelection(cursor)  r == RemoveSelection(Now, cursor)
<1>1. DocOk(Now) /\ cursor \in Cursors /\ EndsTyping
  BY DEF HistoryKept, Paste, Keys, Input, Typing
<1>2. c \in Cursors /\ c.offset \in Nat
  BY <1>1 DEF ClearSelection, Cursors
<1>3. HasFields(r) /\ (~r.corrupted => DocOk(r))
  BY <1>1, SelectionRemoved
<1>4. PICK clip \in Clips :
        LET d == Push(r, ReplaceCommand(c.offset, clip))
        IN  /\ Becomes(d)
            /\ cursor' = SetOffset(c, Moved(c.offset, Len(clip), Length(d.gap)), 0, Length(d.gap))
  BY DEF Paste
<1>. DEFINE d == Push(r, ReplaceCommand(c.offset, clip))  length == Length(d.gap)
            by == Len(clip)  o == Moved(c.offset, by, length)  zero == 0
<1>5. /\ Becomes(d) /\ cursor' = SetOffset(c, o, zero, length) /\ zero \in {0, 1}
  BY <1>4
<1>6. clip \in Seq(Int) /\ by \in Int
  BY HexAssumption, LenProperties
<1>. HIDE DEF c, r, by, zero
<1>7. ~d.corrupted
  BY <1>5 DEF Becomes
<1>8. DocOk(d) /\ length \in Nat
  BY <1>2, <1>3, <1>6, <1>7, AnyPush
<1>. HIDE DEF d, length
<1>9. o \in Nat
  BY <1>2, <1>6, <1>8, CursorMoves
<1>. HIDE DEF o
<1>10. cursor' \in Cursors
  BY <1>2, <1>5, <1>8, <1>9, CursorMoves
<1>. QED BY <1>1, <1>5, <1>8, <1>10, Becoming, KeepsTyping

(* A command is undone.                                                    *)
LEMMA UndoKeyKeeps ==
  ASSUME HistoryKept, UndoKey, ~corrupted'
  PROVE  DocOk(Now)' /\ Typing'
<1>. DEFINE d == Undo(Now)
<1>1. DocOk(Now) /\ cursor \in Cursors /\ EndsTyping /\ cursor' = cursor /\ index > 0 /\ Becomes(d)
  BY DEF HistoryKept, UndoKey, Input, Typing
<1>2. ~d.corrupted /\ Now.index > 0
  BY <1>1, NowIs DEF Becomes
<1>3. DocOk(d)
  BY <1>1, <1>2, UndoKeeps
<1>. HIDE DEF d
<1>. QED BY <1>1, <1>3, Becoming, KeepsTyping

(* A command is done again.                                                *)
LEMMA RedoKeyKeeps ==
  ASSUME HistoryKept, RedoKey, ~corrupted'
  PROVE  DocOk(Now)' /\ Typing'
<1>. DEFINE c == stack[index + 1]  d == Redo(Now, c)
<1>1. DocOk(Now) /\ cursor \in Cursors /\ EndsTyping /\ cursor' = cursor
      /\ index < Len(stack) /\ Becomes(d)
  BY DEF HistoryKept, RedoKey, Input, Typing
<1>2. ~d.corrupted /\ Now.index < Len(Now.stack) /\ c = Now.stack[Now.index + 1]
  BY <1>1, NowIs DEF Becomes
<1>. HIDE DEF c
<1>3. DocOk(d)
  BY <1>1, <1>2, RedoKeeps
<1>. HIDE DEF d
<1>. QED BY <1>1, <1>3, Becoming, KeepsTyping

(* The mouse and the keys that move the cursor.                            *)
LEMMA MovingKeeps ==
  ASSUME HistoryKept, OnlyCursor, cursor' \in Cursors
  PROVE  DocOk(Now)' /\ Typing'
BY SameDocument, KeepsTyping DEF OnlyCursor, HistoryKept, Input

(* They leave the cursor in its place.                                     *)
LEMMA CursorTypes ==
  ASSUME HistoryKept, NEW o \in Nat
  PROVE  /\ \A n \in {0, 1}, part \in Parts : Click(o, n, part) => cursor' \in Cursors
         /\ Drag(o) => cursor' \in Cursors
         /\ SelectAll \/ MoveKey \/ SelectKey => cursor' \in Cursors
<1>. DEFINE length == Length(gap)
<1>1. SUFFICES ASSUME Input
               PROVE  /\ \A n \in {0, 1}, part \in Parts : Click(o, n, part) => cursor' \in Cursors
                      /\ Drag(o) => cursor' \in Cursors
                      /\ SelectAll \/ MoveKey \/ SelectKey => cursor' \in Cursors
  BY DEF Click, Drag, SelectAll, MoveKey, SelectKey, OnlyCursor
<1>2. cursor \in Cursors /\ length \in Nat
  <2>1. DocOk(Now) /\ cursor \in Cursors
    BY <1>1 DEF HistoryKept, Typing, Input
  <2>2. gap \in Gaps
    BY <2>1, NowIs DEF DocOk, Contents
  <2>. QED BY <2>1, <2>2, GapFacts
<1>3. ASSUME NEW n \in {0, 1}, NEW part \in Parts, Click(o, n, part)
      PROVE  cursor' \in Cursors
  <2>1. cursor' = [SetOffset(cursor, o, n, length) EXCEPT !.part = part]
    BY <1>3 DEF Click
  <2>. HIDE DEF length
  <2>2. SetOffset(cursor, o, n, length) \in Cursors
    BY <1>2, CursorMoves
  <2>. QED BY <2>1, <2>2 DEF Cursors
<1>4. ASSUME Drag(o)
      PROVE  cursor' \in Cursors
  <2>1. cursor' = [cursor EXCEPT !.offset = Clamped(o, length)]
    BY <1>4 DEF Drag
  <2>. HIDE DEF length
  <2>2. Clamped(o, length) \in Nat
    BY <1>2, CursorMoves
  <2>. QED BY <1>2, <2>1, <2>2 DEF Cursors
<1>5. ASSUME SelectAll
      PROVE  cursor' \in Cursors
  <2>. DEFINE zero == 0
  <2>1. cursor' = [SetOffset(cursor, zero, zero, length) EXCEPT !.offset = length]
        /\ zero \in Nat /\ zero \in {0, 1}
    BY <1>5 DEF SelectAll
  <2>. HIDE DEF length, zero
  <2>2. SetOffset(cursor, zero, zero, length) \in Cursors
    BY <1>2, <2>1, CursorMoves
  <2>. QED BY <1>2, <2>1, <2>2 DEF Cursors
<1>6. Line \in Int /\ -Line \in Int /\ cursor.offset \in Nat
  BY <1>2, HexAssumption DEF Cursors
<1>7. ASSUME MoveKey
      PROVE  cursor' \in Cursors
  <2>1. CASE \E by \in {-1, 1} : cursor' = MoveByNibble(cursor, by, length)
    <3>1. PICK by \in {-1, 1} : cursor' = MoveByNibble(cursor, by, length)
      BY <2>1
    <3>2. by \in Int
      OBVIOUS
    <3>. HIDE DEF length
    <3>. QED BY <1>2, <3>1, <3>2, CursorMoves
  <2>2. CASE \E by \in {-Line, Line} :
               cursor' = SetOffset(cursor, Moved(cursor.offset, by, length), 0, length)
    <3>1. PICK by \in {-Line, Line} :
            cursor' = SetOffset(cursor, Moved(cursor.offset, by, length), 0, length)
      BY <2>2
    <3>. DEFINE zero == 0  p == Moved(cursor.offset, by, length)
    <3>2. by \in Int /\ zero \in {0, 1} /\ cursor' = SetOffset(cursor, p, zero, length)
      BY <1>6, <3>1
    <3>. HIDE DEF length, zero
    <3>3. p \in Nat
      BY <1>2, <1>6, <3>2, CursorMoves
    <3>. HIDE DEF p
    <3>. QED BY <1>2, <3>2, <3>3, CursorMoves
  <2>. QED BY <1>7, <2>1, <2>2 DEF MoveKey
<1>8. ASSUME SelectKey
      PROVE  cursor' \in Cursors
  <2>1. PICK by \in {-Line, -1, 1, Line} :
          cursor' = [cursor EXCEPT !.offset = Clamped(Moved(@, by, length), length)]
    BY <1>8 DEF SelectKey
  <2>. DEFINE p == Moved(cursor.offset, by, length)
  <2>2. by \in Int /\ cursor' = [cursor EXCEPT !.offset = Clamped(p, length)]
    BY <1>6, <2>1
  <2>. HIDE DEF length
  <2>3. p \in Nat
    BY <1>2, <1>6, <2>2, CursorMoves
  <2>. HIDE DEF p
  <2>4. Clamped(p, length) \in Nat
    BY <1>2, <2>3, CursorMoves
  <2>. QED BY <1>2, <2>2, <2>4 DEF Cursors
<1>. QED BY <1>3, <1>4, <1>5, <1>7, <1>8

(* No step disturbs that part of the invariant.                            *)
LEMMA HistoryStep == HistoryKept /\ [HexNext]_hexVars => HistoryKept'
<1>. SUFFICES ASSUME HistoryKept, [HexNext]_hexVars, ~corrupted'
              PROVE  DocOk(Now)' /\ Typing'
  BY DEF HistoryKept
<1>1. ASSUME NEW v \in Digits, TypeHex(v)
      PROVE  DocOk(Now)' /\ Typing'
  BY <1>1, TypeHexKeeps
<1>2. ASSUME NEW b \in Letters, TypeAscii(b)
      PROVE  DocOk(Now)' /\ Typing'
  BY <1>2, TypeAsciiKeeps
<1>3. CASE Delete
  BY <1>3, DeleteKeeps
<1>4. CASE Backspace
  BY <1>4, BackspaceKeeps
<1>5. CASE Cut
  BY <1>5, CutKeeps
<1>6. CASE Paste
  BY <1>6, PasteKeeps
<1>7. CASE UndoKey
  BY <1>7, UndoKeyKeeps
<1>8. CASE RedoKey
  BY <1>8, RedoKeyKeeps
<1>9. ASSUME NEW o \in 0..Length(gap), NEW n \in {0, 1}, NEW part \in Parts, Click(o, n, part)
      PROVE  DocOk(Now)' /\ Typing'
  BY <1>9, CursorTypes, MovingKeeps DEF Click
<1>10. ASSUME NEW o \in 0..Length(gap), Drag(o)
       PROVE  DocOk(Now)' /\ Typing'
  BY <1>10, CursorTypes, MovingKeeps DEF Drag
<1>11. CASE SelectAll \/ MoveKey \/ SelectKey
  <2>1. 0 \in Nat
    OBVIOUS
  <2>. QED BY <1>11, <2>1, CursorTypes, MovingKeeps DEF SelectAll, MoveKey, SelectKey
<1>12. CASE UNCHANGED hexVars
  <2>1. ~corrupted /\ UNCHANGED docVars /\ cursor' = cursor /\ digits' = digits /\ first' = first
    BY <1>12 DEF hexVars, docVars, typing
  <2>2. DocOk(Now)'
    BY <2>1, SameDocument DEF HistoryKept
  <2>. QED BY <2>1, <2>2 DEF HistoryKept, Typing
<1>. QED BY <1>1, <1>2, <1>3, <1>4, <1>5, <1>6, <1>7, <1>8, <1>9, <1>10, <1>11, <1>12 DEF HexNext

(* The document that is opened.                                            *)
LEMMA HexInitInv == HexInit => HexInv
<1>. SUFFICES ASSUME HexInit
              PROVE  HexInv
  OBVIOUS
<1>. DEFINE F == [i \in 1..BaseGap |-> Blank]  b == F \o Original
<1>1. Original \in Seq(Int) /\ BaseGap \in Nat /\ Len(Original) \in Nat
  BY HexAssumption, LenProperties
<1>2. gap = [buffer |-> b, start |-> 0, end |-> BaseGap]
  BY DEF HexInit
<1>3. F \in Seq(Int) /\ Len(F) = BaseGap
  <2>1. Blank \in Int
    BY DEF Blank
  <2>. QED BY <1>1, <2>1
<1>. HIDE DEF F
<1>4. /\ b \in Seq(Int) /\ Len(b) = BaseGap + Len(Original)
      /\ \A k \in 1..BaseGap + Len(Original) :
           b[k] = IF k <= BaseGap THEN F[k] ELSE Original[k - BaseGap]
  BY <1>1, <1>3, ConcatProperties
<1>. HIDE DEF b
<1>5. gap \in Gaps /\ gap.buffer = b /\ gap.start = 0 /\ gap.end = BaseGap
  BY <1>1, <1>2, <1>4 DEF Gaps
<1>6. GapLength(gap) = BaseGap /\ Length(gap) = Len(Original)
  <2>1. GapLength(gap) = BaseGap - 0 /\ Length(gap) = Len(b) - (BaseGap - 0)
    BY <1>5 DEF GapLength, Length
  <2>. QED BY <1>1, <1>4, <2>1
<1>7. ASSUME NEW k \in 1..Len(Original)
      PROVE  Original[k] = b[IF k <= 0 THEN k ELSE k + BaseGap]
  <2>1. /\ ~(k <= 0) /\ k + BaseGap \in 1..BaseGap + Len(Original) /\ ~(k + BaseGap <= BaseGap)
        /\ (k + BaseGap) - BaseGap = k
    BY <1>1
  <2>2. b[k + BaseGap] = Original[(k + BaseGap) - BaseGap]
    BY <1>4, <2>1
  <2>. QED BY <2>1, <2>2
<1>8. ToByteArray(gap) = Original
  BY <1>1, <1>5, <1>6, <1>7, TextIs
<1>9. /\ Now.stack = <<>> /\ Now.past = <<Original>> /\ Now.index = 0 /\ Now.gap = gap
      /\ HasFields(Now)
  BY NowIs DEF HexInit
<1>10. Histories(Now)
  BY <1>1, <1>9 DEF Histories
<1>11. Contents(Now)
  <2>1. Now.past[Now.index + 1] = Original
    BY <1>9
  <2>2. \A j \in 1..Now.index + 1 : Now.past[j] = Original
    BY <1>9
  <2>3. Len(gap.buffer) >= BaseGap + Len(Original)
    BY <1>1, <1>4, <1>5
  <2>. QED BY <1>5, <1>8, <1>9, <2>1, <2>2, <2>3 DEF Contents
<1>12. Typing
  BY DEF Typing, Cursors, HexInit
<1>13. DigitsFillNibbles
  BY DEF DigitsFillNibbles, HexInit
<1>. QED BY <1>9, <1>10, <1>11, <1>12, <1>13 DEF HexInv, HistoryKept, DocOk
-------------------------------------------------------------------------------
(* A number is made of its quotient and remainder in one way.              *)
LEMMA Nibbles ==
  ASSUME NEW n \in Nat \ {0}, NEW k \in Int, NEW r \in 0..n - 1
  PROVE  (k * n + r) \div n = k /\ (k * n + r) % n = r
<1>. DEFINE x == k * n + r  q == x \div n  s == x % n
<1>1. x \in Int
  BY SMT
<1>. HIDE DEF x
<1>2. q \in Int /\ s \in 0..n - 1 /\ x = q * n + s
  BY <1>1, SMTT(20)
<1>. HIDE DEF q, s
<1>3. ASSUME NEW i \in Int, NEW j \in Int, i < j
      PROVE  i * n + n <= j * n /\ i * n \in Int /\ j * n \in Int
  <2>1. (j - i) * n >= n
    BY <1>3, SMTT(20)
  <2>2. (j - i) * n = j * n - i * n
    BY SMTT(20)
  <2>3. i * n \in Int /\ j * n \in Int
    BY SMT
  <2>. QED BY <2>1, <2>2, <2>3
<1>4. x = k * n + r /\ k * n \in Int /\ q * n \in Int
  BY <1>2 DEF x
<1>5. CASE q < k
  <2>1. q * n + n <= k * n
    BY <1>2, <1>3, <1>5
  <2>. QED BY <1>2, <1>4, <2>1
<1>6. CASE k < q
  <2>1. k * n + n <= q * n
    BY <1>2, <1>3, <1>6
  <2>. QED BY <1>2, <1>4, <2>1
<1>7. CASE q = k
  <2>1. s = r
    BY <1>2, <1>4, <1>7
  <2>. QED BY <1>7, <2>1 DEF x, q, s
<1>. QED BY <1>2, <1>5, <1>6, <1>7

\* A text with one byte replaced.
WithByte(t, at, x) == Spliced(t, at, 1, <<x>>)

(* A byte is replaced, and no other.                                       *)
LEMMA ByteReplaced ==
  ASSUME NEW t \in Seq(Int), NEW at \in Nat, at < Len(t), NEW x \in Int, NEW u,
         u = WithByte(t, at, x)
  PROVE  /\ Len(u) = Len(t) /\ u[at + 1] = x
         /\ \A k \in 1..Len(t) : k # at + 1 => u[k] = t[k]
<1>. DEFINE data == <<x>>  one == 1
<1>1. data \in Seq(Int) /\ Len(data) = 1 /\ data[1] = x /\ one \in Nat /\ Len(t) \in Nat
  BY LenProperties
<1>2. u = Spliced(t, at, one, data) /\ one = 1
  BY DEF WithByte
<1>. HIDE DEF data, one
<1>3. IsSpliced(u, t, at, one, data)
  BY <1>1, <1>2, SplicedFacts
<1>4. /\ Len(u) = at + Len(data) + (IF at + one <= Len(t) THEN Len(t) - (at + one) ELSE 0)
      /\ \A k \in 1..Len(u) :
           u[k] = IF k <= at THEN IF k <= Len(t) THEN t[k] ELSE Blank
                  ELSE IF k <= at + Len(data) THEN data[k - at]
                  ELSE t[k - Len(data) + one]
  BY <1>3 DEF IsSpliced
<1>5. Len(u) = Len(t)
  <2>1. at + one <= Len(t)
    BY <1>1, <1>2
  <2>. QED BY <1>1, <1>2, <1>4, <2>1
<1>6. u[at + 1] = x
  <2>. DEFINE k == at + 1
  <2>1. k \in 1..Len(u) /\ ~(k <= at) /\ k <= at + Len(data) /\ k - at = 1
    BY <1>1, <1>5
  <2>. HIDE DEF k
  <2>2. u[k] = data[1]
    BY <1>4, <2>1
  <2>. QED BY <1>1, <2>2 DEF k
<1>7. ASSUME NEW k \in 1..Len(t), k # at + 1
      PROVE  u[k] = t[k]
  <2>1. CASE k <= at
    <3>1. k \in 1..Len(u) /\ k <= Len(t)
      BY <1>1, <1>5
    <3>. QED BY <1>4, <2>1, <3>1
  <2>2. CASE ~(k <= at)
    <3>1. k \in 1..Len(u) /\ ~(k <= at + Len(data)) /\ k - Len(data) + one = k
      BY <1>1, <1>2, <1>5, <1>7, <2>2
    <3>2. u[k] = t[k - Len(data) + one]
      BY <1>4, <2>2, <3>1
    <3>. QED BY <3>1, <3>2
  <2>. QED BY <2>1, <2>2
<1>. QED BY <1>5, <1>6, <1>7

(* A digit is written to its nibble, and the nibbles before it stay.       *)
Writes(u, t, p, v) == /\ Nibble(u, p) = v
                      /\ \A k \in Nat : k < p => Nibble(u, k) = Nibble(t, k)

(* What processHexPart makes of a byte does so.                            *)
LEMMA NibbleWritten ==
  ASSUME NEW t \in Seq(Int), NEW at \in Nat, at < Len(t), NEW nibble \in {0, 1},
         NEW v \in Digits, NEW x, x = NibbleReplaced(t[at + 1], nibble, v),
         NEW u, u = WithByte(t, at, x), NEW p, p = 2 * at + nibble
  PROVE  Writes(u, t, p, v)
<1>. DEFINE n == NibbleSize  byte == t[at + 1]  q == byte \div n  r == byte % n
<1>1. n \in Nat \ {0} /\ v \in 0..n - 1 /\ v \in Int /\ Len(t) \in Nat
  BY HexAssumption, LenProperties
<1>2. byte \in Int
  <2>1. at + 1 \in 1..Len(t)
    BY <1>1
  <2>. QED BY <2>1, ElementOfSeq
<1>3. x \in Int
  BY <1>1, <1>2, NibbleTypes
<1>4. u = WithByte(t, at, x)
  OBVIOUS
<1>5. x = IF nibble = 1 THEN q * n + v ELSE v * n + r
  BY DEF NibbleReplaced, LowPart, HighPart
<1>. HIDE DEF byte
<1>6. /\ Len(u) = Len(t) /\ u[at + 1] = x
      /\ \A k \in 1..Len(t) : k # at + 1 => u[k] = t[k]
  BY <1>3, <1>4, ByteReplaced
<1>7. q \in Int /\ r \in 0..n - 1
  BY <1>1, <1>2
<1>. HIDE DEF n
<1>8. /\ nibble = 1 => x % n = v /\ x \div n = q
      /\ nibble = 0 => x \div n = v
  <2>. HIDE DEF q, r
  <2>1. (q * n + v) % n = v /\ (q * n + v) \div n = q
    BY <1>1, <1>7, Nibbles
  <2>2. (v * n + r) \div n = v
    BY <1>1, <1>7, Nibbles
  <2>3. CASE nibble = 1
    BY <1>5, <2>1, <2>3
  <2>4. CASE nibble = 0
    BY <1>5, <2>2, <2>4
  <2>. QED BY <2>3, <2>4
<1>9. \A s, k : Nibble(s, k) = IF k % 2 = 0 THEN s[k \div 2 + 1] \div n ELSE s[k \div 2 + 1] % n
  BY DEF Nibble, n
<1>10. p \in Nat /\ p \div 2 = at /\ p % 2 = nibble
  OBVIOUS
<1>. HIDE DEF q, r
<1>11. Nibble(u, p) = v
  <2>1. Nibble(u, p) = IF nibble = 0 THEN x \div n ELSE x % n
    BY <1>6, <1>9, <1>10
  <2>. QED BY <1>8, <2>1
<1>12. ASSUME NEW k \in Nat, k < p
       PROVE  Nibble(u, k) = Nibble(t, k)
  <2>. DEFINE h == k \div 2
  <2>1. h \in Nat /\ h <= at /\ (h = at => nibble = 1 /\ k % 2 = 0)
    BY <1>12
  <2>. HIDE DEF h
  <2>2. /\ Nibble(u, k) = IF k % 2 = 0 THEN u[h + 1] \div n ELSE u[h + 1] % n
        /\ Nibble(t, k) = IF k % 2 = 0 THEN t[h + 1] \div n ELSE t[h + 1] % n
    BY <1>9 DEF h
  <2>3. CASE h = at
    <3>1. Nibble(u, k) = x \div n /\ Nibble(t, k) = byte \div n
      BY <1>6, <2>1, <2>2, <2>3 DEF byte
    <3>2. x \div n = q
      BY <1>8, <2>1, <2>3
    <3>. QED BY <3>1, <3>2 DEF q
  <2>4. CASE h # at
    <3>1. h + 1 \in 1..Len(t) /\ h + 1 # at + 1
      BY <1>1, <2>1, <2>4
    <3>2. u[h + 1] = t[h + 1]
      BY <1>6, <3>1
    <3>. QED BY <2>2, <3>2
  <2>. QED BY <2>3, <2>4
<1>. QED BY <1>11, <1>12 DEF Writes

(* The cursor goes on to the next nibble.                                  *)
LEMMA NextNibble ==
  ASSUME NEW c \in Cursors, NEW length \in Nat, c.offset < length, NEW by, by = 1, NEW e,
         e = MoveByNibble(c, by, length)
  PROVE  2 * e.offset + e.nibble = 2 * c.offset + c.nibble + 1
<1>. DEFINE step == IF (c.nibble = 0) = (1 > 0) THEN 0 ELSE 1
            o == Moved(c.offset, step, length)
<1>1. c.offset \in Nat /\ c.nibble \in {0, 1}
  BY DEF Cursors
<1>2. step = c.nibble
  BY <1>1
<1>3. e = SetOffset(c, o, 1 - c.nibble, length)
  BY DEF MoveByNibble
<1>. HIDE DEF step
<1>4. o = c.offset + c.nibble
  BY <1>1, <1>2 DEF Moved
<1>. HIDE DEF o
<1>5. Clamped(o, length) = o
  BY <1>1, <1>4 DEF Clamped
<1>6. e.offset = o /\ e.nibble = 1 - c.nibble
  BY <1>3, <1>5 DEF SetOffset, Cursors
<1>. QED BY <1>1, <1>4, <1>6

(* A hex digit goes to the next nibble.                                    *)
LEMMA DigitsStep ==
  ASSUME HexInv, NEW v \in Digits, TypeHex(v), ~corrupted', digits' # <<>>
  PROVE  DigitsFillNibbles'
<1>. DEFINE d == RemoveSelection(Now, cursor)  c == ClearSelection(cursor)  at == c.offset
            g == d.gap  t == ToByteArray(g)  x == NibbleReplaced(At(g, at), c.nibble, v)
            data == <<x>>  p == Push(d, ReplaceCommand(at, data))
            u == ToByteArray(gap')  place == 2 * at + c.nibble
<1>1. DocOk(Now) /\ Typing /\ cursor \in Cursors /\ ~corrupted
  BY DEF HexInv, HistoryKept, TypeHex, Keys, Input, Typing
<1>2. /\ c \in Cursors /\ at \in Nat /\ c.nibble \in {0, 1}
      /\ at = cursor.offset /\ c.nibble = cursor.nibble
  BY <1>1 DEF ClearSelection, Cursors
<1>3. HasFields(d) /\ (~d.corrupted => DocOk(d)) /\ (~HasSelection(cursor) => d = Now)
  BY <1>1, SelectionRemoved
<1>4. /\ at < Length(g) /\ Becomes(p) /\ cursor' = MoveByNibble(c, 1, Length(g))
      /\ digits' = IF HasSelection(cursor) THEN <<v>> ELSE Append(digits, v)
      /\ first' = IF HasSelection(cursor) \/ digits = <<>> THEN place ELSE first
  BY DEF TypeHex, EndsTyping
<1>. HIDE DEF d, c, at
<1>5. ~p.corrupted /\ gap' = p.gap
  BY <1>4 DEF Becomes
<1>6. ~d.corrupted
  BY <1>3, <1>5, StaysCorrupted
<1>7. DocOk(d) /\ g \in Gaps /\ Length(g) \in Nat
  BY <1>3, <1>6, GapFacts DEF DocOk, Contents
<1>8. t \in Seq(Int) /\ Len(t) = Length(g)
  BY <1>7, TextFacts
<1>9. At(g, at) = t[at + 1] /\ At(g, at) \in Int
  BY <1>2, <1>4, <1>7, AtFacts
<1>10. x \in Int
  <2>1. v \in Int
    BY HexAssumption
  <2>. QED BY <1>9, <2>1, NibbleTypes
<1>11. data \in Seq(Int) /\ Len(data) = 1
  BY <1>10
<1>12. u = WithByte(t, at, x)
  <2>1. gap' = Replace(g, at, data) /\ ~ReplacesTooMuch(g, at, Len(data))
    <3>. HIDE DEF data
    <3>. QED BY <1>2, <1>3, <1>5, <1>11, AnyPush
  <2>2. ToByteArray(Replace(g, at, data)) = Spliced(t, at, Len(data), data)
    <3>. HIDE DEF data
    <3>. QED BY <1>2, <1>7, <1>11, <2>1, ReplaceCorrect
  <2>. QED BY <1>11, <2>1, <2>2 DEF WithByte
<1>13. /\ Nibble(u, place) = v
       /\ \A k \in Nat : k < place => Nibble(u, k) = Nibble(t, k)
  <2>. DEFINE nibble == c.nibble
  <2>1. x = NibbleReplaced(t[at + 1], nibble, v) /\ place = 2 * at + nibble
    BY <1>9
  <2>. HIDE DEF u, t, x, place, nibble
  <2>2. at < Len(t)
    BY <1>4, <1>8
  <2>3. nibble \in {0, 1}
    BY <1>2 DEF nibble
  <2>4. Writes(u, t, place, v)
    BY <1>2, <1>8, <1>12, <2>1, <2>2, <2>3, NibbleWritten
  <2>. QED BY <2>4 DEF Writes
<1>14. 2 * cursor'.offset + cursor'.nibble = place + 1
  <2>. DEFINE one == 1
  <2>1. cursor' = MoveByNibble(c, one, Length(g)) /\ one = 1
    BY <1>4
  <2>. HIDE DEF one, g
  <2>2. 2 * cursor'.offset + cursor'.nibble = 2 * c.offset + c.nibble + 1
    BY <1>2, <1>4, <1>7, <2>1, NextNibble DEF at
  <2>. QED BY <2>2 DEF at
<1>15. place \in Nat
  BY <1>2
<1>. DEFINE f == first'  ds == digits'
<1>16. CASE HasSelection(cursor) \/ digits = <<>>
  <2>1. f = place /\ ds = <<v>>
    <3>. HIDE DEF place
    <3>1. CASE HasSelection(cursor)
      BY <1>4, <3>1
    <3>2. CASE ~HasSelection(cursor) /\ digits = <<>>
      <4>1. Append(<<>>, v) = <<v>>
        OBVIOUS
      <4>. QED BY <1>4, <3>2, <4>1
    <3>. QED BY <1>16, <3>1, <3>2
  <2>. HIDE DEF place, u
  <2>2. Len(ds) = 1 /\ DOMAIN ds = {1} /\ ds[1] = v
    BY <2>1
  <2>3. f + 1 - 1 = place
    BY <1>15, <2>1
  <2>4. \A k \in DOMAIN ds : Nibble(u, f + k - 1) = ds[k]
    BY <1>13, <2>2, <2>3
  <2>5. 2 * cursor'.offset + cursor'.nibble = f + Len(ds)
    BY <1>14, <2>1, <2>2
  <2>. QED BY <2>4, <2>5 DEF DigitsFillNibbles, u
<1>17. CASE ~HasSelection(cursor) /\ digits # <<>>
  <2>1. f = first /\ ds = Append(digits, v) /\ t = ToByteArray(gap)
    BY <1>3, <1>4, <1>17, NowIs
  <2>2. /\ \A k \in DOMAIN digits : Nibble(ToByteArray(gap), first + k - 1) = digits[k]
        /\ 2 * cursor.offset + cursor.nibble = first + Len(digits)
    BY <1>1, <1>17 DEF HexInv, DigitsFillNibbles
  <2>. DEFINE n == Len(digits)
  <2>3. place = first + n /\ n \in Nat /\ DOMAIN digits = 1..n /\ first \in Nat
    BY <1>1, <1>2, <2>2 DEF Typing
  <2>. HIDE DEF place, u, t
  <2>4. /\ Len(ds) = n + 1 /\ DOMAIN ds = 1..n + 1 /\ ds[n + 1] = v
        /\ \A k \in 1..n : ds[k] = digits[k]
    BY <1>1, <2>1 DEF Typing
  <2>. HIDE DEF ds, n
  <2>5. ASSUME NEW k \in DOMAIN ds
        PROVE  Nibble(u, f + k - 1) = ds[k]
    <3>1. CASE k = n + 1
      <4>1. f + k - 1 = place
        BY <2>1, <2>3, <3>1
      <4>. QED BY <1>13, <2>4, <3>1, <4>1
    <3>2. CASE k # n + 1
      <4>1. k \in 1..n /\ f + k - 1 \in Nat /\ f + k - 1 < place /\ f = first
        BY <2>1, <2>3, <2>4, <3>2
      <4>2. Nibble(u, f + k - 1) = Nibble(t, f + k - 1)
        BY <1>13, <4>1
      <4>3. Nibble(t, first + k - 1) = digits[k]
        BY <2>1, <2>2, <2>3, <4>1
      <4>. QED BY <2>4, <4>1, <4>2, <4>3
    <3>. QED BY <3>1, <3>2
  <2>6. 2 * cursor'.offset + cursor'.nibble = f + Len(ds)
    BY <1>14, <2>1, <2>3, <2>4
  <2>. QED BY <2>5, <2>6 DEF DigitsFillNibbles, u, ds
<1>. QED BY <1>16, <1>17

(* Every step keeps the invariant.                                         *)
LEMMA HexNextInv == HexInv /\ [HexNext]_hexVars => HexInv'
<1>. SUFFICES ASSUME HexInv, [HexNext]_hexVars
              PROVE  HexInv'
  OBVIOUS
<1>1. HistoryKept'
  BY HistoryStep DEF HexInv
<1>2. DigitsFillNibbles'
  <2>1. CASE corrupted' \/ digits' = <<>>
    BY <2>1 DEF DigitsFillNibbles
  <2>2. CASE ~corrupted' /\ digits' # <<>>
    <3>1. ASSUME NEW v \in Digits, TypeHex(v)
          PROVE  DigitsFillNibbles'
      BY <2>2, <3>1, DigitsStep
    <3>2. CASE UNCHANGED hexVars
      BY <3>2 DEF hexVars, docVars, typing, HexInv, DigitsFillNibbles, ToByteArray, Nibble
    <3>3. EndsTyping => FALSE
      BY <2>2 DEF EndsTyping
    <3>. QED BY <3>1, <3>2, <3>3
         DEF HexNext, TypeAscii, Delete, Backspace, Cut, Paste, UndoKey, RedoKey, Click, Drag,
             SelectAll, MoveKey, SelectKey, OnlyCursor
  <2>. QED BY <2>1, <2>2
<1>. QED BY <1>1, <1>2 DEF HexInv

(* The gap never has to grow: what a removal took fits in when it is       *)
(* undone, so that expandGap (gapbuffer.cpp) returns at once.              *)
RoomToUndo ==
  ~corrupted /\ index > 0 /\ stack[index].kind = "remove" /\ stack[index].sound =>
    Len(stack[index].saved) <= GapLength(gap)

(* The invariant counts the buffer's bytes.                                *)
LEMMA RoomIsKept == HexInv => RoomToUndo
<1>. SUFFICES ASSUME HexInv, ~corrupted, index > 0, stack[index].kind = "remove", stack[index].sound
              PROVE  Len(stack[index].saved) <= GapLength(gap)
  BY DEF RoomToUndo
<1>. DEFINE c == stack[index]  t == past[index]  i == c.at  n == c.n  saved == c.saved
<1>1. Histories(Now) /\ Contents(Now)
  BY DEF HexInv, HistoryKept, DocOk
<1>2. /\ stack \in Seq(Items) /\ past \in Seq(Seq(Int)) /\ index \in Nat
      /\ index <= Len(stack) /\ Len(past) = Len(stack) + 1 /\ Len(stack) \in Nat
      /\ \A j \in 1..Len(stack) : past[j + 1] = Meant(past[j], stack[j])
      /\ \A j \in 1..index : Restores(stack[j], past[j])
  BY <1>1, NowIs, LenProperties DEF Histories
<1>3. /\ gap \in Gaps /\ ToByteArray(gap) = past[index + 1]
      /\ \A j \in 1..index + 1 : Len(gap.buffer) >= BaseGap + Len(past[j])
  BY <1>1, NowIs DEF Contents
<1>4. index \in 1..index /\ index \in 1..Len(stack) /\ index \in 1..index + 1 /\ index \in 1..Len(past)
  BY <1>2
<1>5. /\ t \in Seq(Int) /\ Restores(c, t) /\ ToByteArray(gap) = Meant(t, c)
      /\ Len(gap.buffer) >= BaseGap + Len(t)
  BY <1>2, <1>3, <1>4, ElementOfSeq
<1>6. i \in Nat /\ n \in Nat /\ saved = Mid(t, i, n) /\ i + n <= Len(t) /\ c.kind = "remove"
  <2>1. c \in Items
    BY <1>5 DEF Restores, Items
  <2>. QED BY <1>5, <2>1, ItemFacts DEF Restores
<1>7. ToByteArray(gap) = Without(t, i, n)
  BY <1>5, <1>6 DEF Meant, Without
<1>. HIDE DEF c, t, i, n, saved
<1>8. Len(saved) = n
  <2>1. Len(saved) = IF i + n <= Len(t) THEN n ELSE IF i <= Len(t) THEN Len(t) - i ELSE 0
    BY <1>5, <1>6, MidFacts
  <2>. QED BY <1>6, <2>1
<1>9. Length(gap) = Len(t) - n
  <2>1. Length(gap) = Len(ToByteArray(gap))
    BY <1>3, TextFacts
  <2>2. Len(Without(t, i, n)) = Len(t) - n
    BY <1>5, <1>6, WithoutLength
  <2>. QED BY <1>7, <2>1, <2>2
<1>10. /\ Len(gap.buffer) = Length(gap) + GapLength(gap) /\ GapLength(gap) \in Nat
       /\ Len(t) \in Nat /\ BaseGap \in Nat
  BY <1>3, <1>5, GapFacts, LenProperties, HexAssumption
<1>11. n <= GapLength(gap)
  <2>. DEFINE p == GapLength(gap)  q == Length(gap)  r == Len(gap.buffer)  len == Len(t)
  <2>1. p \in Nat /\ r = q + p /\ q = len - n /\ r >= BaseGap + len /\ len \in Nat /\ BaseGap \in Nat
    BY <1>5, <1>9, <1>10
  <2>. HIDE DEF p, q, r, len
  <2>2. n <= p
    BY <1>6, <2>1
  <2>. QED BY <2>2 DEF p
<1>. QED BY <1>8, <1>11 DEF saved, c

(* What a removal took always fits in the gap when it is undone            *)
(* (RemoveCommand::undo, GapBuffer::expandGap), whatever was edited since. *)
THEOREM GapSuffices == HexSpec => []RoomToUndo
BY RoomIsKept, HexInitInv, HexNextInv, PTL DEF HexSpec

(* Around its gap the buffer of the editor holds what a plain list would   *)
(* after the commands that are done, in whatever order they are typed,     *)
(* pasted, undone and redone (gapbuffer.cpp, qhexdocument.cpp), for every  *)
(* document, clipboard and length of the history.                          *)
THEOREM HistoryCorrect == HexSpec => []UndoKeepsHistory
<1>1. HexInv => UndoKeepsHistory
  BY NowIs DEF HexInv, HistoryKept, DocOk, Contents, UndoKeepsHistory
<1>. QED BY <1>1, HexInitInv, HexNextInv, PTL DEF HexSpec

(* Typed hex digits fill the nibbles one after the other, and the cursor   *)
(* stands on the next (QHexEditPrivate::processHexPart, QHexCursor).       *)
THEOREM DigitsCorrect == HexSpec => []DigitsFillNibbles
<1>1. HexInv => DigitsFillNibbles
  BY DEF HexInv
<1>. QED BY <1>1, HexInitInv, HexNextInv, PTL DEF HexSpec
===============================================================================
