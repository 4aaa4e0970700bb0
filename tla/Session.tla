------------------------------- MODULE Session -------------------------------
(***************************************************************************)
(* A session of emulens: the toolbar (device.cpp), the Cycler that runs    *)
(* the device (cycler.cpp), the register view (registers.cpp,              *)
(* editarray.cpp) and the memory view (memory.cpp).                        *)
(*                                                                         *)
(* All of it runs on one thread, as handlers of the Qt event loop, and an  *)
(* action is a handler or the part of one up to a box that it opens: a     *)
(* modal box runs the event loop again, in which the timer goes on firing  *)
(* and a register editor that loses the focus saves what it shows, but the *)
(* user reaches the box only.                                              *)
(*                                                                         *)
(* Of the device there are one register and a small memory; a run of       *)
(* cycles changes any of it.  The display, which nobody can edit, is drawn *)
(* with the other views and left out.                                      *)
(***************************************************************************)
EXTENDS Integers, Sequences

CONSTANTS MemSize,      \* bytes of memory
          PageSize,
          Values,       \* of the register and of a byte
          MaxDocument   \* bound: bytes that the user makes the document grow to

Unreadable == -1  \* a text that toUInt does not take for a number

ASSUME SessionAssumption == /\ MemSize \in Nat \ {0} /\ PageSize \in Nat \ {0}
                            /\ MaxDocument \in Nat
                            /\ Unreadable \notin Values /\ 0 \in Values

Address   == 0..MemSize - 1
PageOf(a) == a - (a % PageSize)
Pages     == {PageOf(a) : a \in Address}

VARIABLES reg,         \* the device's register
          mem,         \* the device's memory
          allocated,   \* Memory::allocatedPages
          running,     \* whether Cycler's cycleTimer is active
          due,         \* refreshClock is past refreshIntervalMs
          boxes,       \* the modal boxes, the one on top last
          loaded,      \* lastLoadedProgramPath is not empty
          text,        \* what the register's editor shows
          focus,       \* the register's editor has the focus
          pagesList,   \* the pages that the memory view lists
          offset,      \* Memory's offset, of the page in the hex editor
          document,    \* {} or the bytes in the hex editor, of any length
          terminated,  \* an exception has left the event loop
          \* History, for the properties only:
          typed,       \* the user has changed the editor's text since it was shown
          behind,      \* the device went on since the views were updated
          grown,       \* pages that edits have allocated since then
          outdated     \* the device has written to what the document covers

device  == <<reg, mem, allocated>>
views   == <<text, typed, pagesList, behind, grown>>
editor  == <<offset, document>>
toolbar == <<running, due, boxes, loaded>>
vars    == <<device, views, editor, toolbar, focus, terminated, outdated>>

Init == /\ reg = 0
        /\ mem = [a \in Address |-> 0]
        /\ allocated = {}
        /\ running = FALSE
        /\ due = FALSE
        /\ boxes = <<>>
        /\ loaded = FALSE
        /\ text = 0
        /\ focus = FALSE
        /\ pagesList = {}
        /\ offset = 0
        /\ document = {}
        /\ terminated = FALSE
        /\ typed = FALSE
        /\ behind = FALSE
        /\ grown = {}
        /\ outdated = FALSE
-------------------------------------------------------------------------------
Top(box) == boxes # <<>> /\ boxes[Len(boxes)] = box
Below == SubSeq(boxes, 1, Len(boxes) - 1)

\* What the user does outside of boxes.
User == boxes = <<>> /\ ~terminated

\* Device::updateViewsForce, once the handler has done the rest.
UpdateViewsForce ==
  /\ text' = reg'
  /\ typed' = FALSE
  /\ pagesList' = allocated'
  /\ behind' = FALSE
  /\ grown' = {}

KeepViews == UNCHANGED <<text, typed, pagesList, grown>> /\ behind' = TRUE

UpdateViewsPausedOnly ==
  IF running' THEN KeepViews /\ UNCHANGED due ELSE UpdateViewsForce /\ UNCHANGED due

\* Device::updateViews, throttled while the timer is active.
UpdateViews ==
  IF running'
  THEN /\ due' = FALSE
       /\ IF due THEN UpdateViewsForce ELSE KeepViews
  ELSE UpdateViewsForce /\ UNCHANGED due

\* Where the byte at the address a is in the document, if it is there.
Place(a) == a - offset + 1

Outdates(written) ==
  outdated' = (outdated \/ \E d \in document, a \in written : Place(a) \in DOMAIN d)

\* Cycles of the device: one, or 10000 of them.
DeviceCycle ==
  /\ reg' \in Values
  /\ \/ UNCHANGED <<mem, allocated, outdated>>
     \/ \E a \in Address, v \in Values :
          /\ mem' = [mem EXCEPT ![a] = v]
          /\ allocated' = allocated \cup {PageOf(a)}
          /\ Outdates({a})

\* Cycler::cycle, from the timer in any event loop or from the step button.
Cycle ==
  /\ DeviceCycle
  /\ UNCHANGED <<running, boxes, loaded>>
  /\ UpdateViews
  /\ UNCHANGED <<editor, focus, terminated>>

CycleErrorShowsFirst ==
  /\ DeviceCycle
  /\ boxes' = Append(boxes, "error")
  /\ KeepViews
  /\ UNCHANGED <<running, due, loaded, editor, focus, terminated>>

\* A ProgramRuntimeError: the timer is stopped before the box is shown.
CycleError ==
  /\ DeviceCycle
  /\ running' = FALSE
  /\ boxes' = Append(boxes, "error")
  /\ KeepViews
  /\ UNCHANGED <<due, loaded, editor, focus, terminated>>

\* Any other exception.
CycleEscapes ==
  /\ DeviceCycle
  /\ terminated' = TRUE
  /\ KeepViews
  /\ UNCHANGED <<toolbar, editor, focus>>

AnyCycle == Cycle \/ CycleError \/ CycleEscapes

TimerFires == running /\ ~terminated /\ AnyCycle

Step == User /\ AnyCycle

StartAutoRun == User /\ running' = TRUE
                /\ UNCHANGED <<device, views, editor, due, boxes, loaded, focus, terminated, outdated>>

PauseQuietly ==
  /\ User
  /\ running' = FALSE
  /\ UNCHANGED <<device, views, editor, due, boxes, loaded, focus, terminated, outdated>>

\* The two slots of the pause button, in the order they were connected.
PauseAutoRun ==
  /\ User
  /\ running' = FALSE
  /\ UNCHANGED <<device, editor, due, boxes, loaded, focus, terminated, outdated>>
  /\ UpdateViewsForce

TimePasses == /\ ~due /\ ~terminated
              /\ due' = TRUE
              /\ UNCHANGED <<device, views, editor, running, boxes, loaded, focus, terminated, outdated>>
-------------------------------------------------------------------------------
OnlyBoxes == UNCHANGED <<device, views, editor, running, due, loaded, focus, terminated, outdated>>

\* reset() and programmer().load(): memory keeps what the program does not cover.
LoadIntoDevice ==
  /\ reg' = 0
  /\ \E p \in Pages, v \in Values :
       /\ mem' = [a \in Address |-> IF PageOf(a) = p THEN v ELSE mem[a]]
       /\ allocated' = allocated \cup {p}
       /\ Outdates({a \in Address : PageOf(a) = p})

\* Device::loadProgram, with the boxes `rest` left open: the file cannot be
\* opened, is too large not to ask, or is loaded.
LoadProgram(rest) ==
  \/ boxes' = Append(rest, "message") /\ OnlyBoxes
  \/ boxes' = Append(rest, "size") /\ OnlyBoxes
  \/ /\ LoadIntoDevice
     /\ boxes' = rest
     /\ loaded' = TRUE
     /\ UNCHANGED <<running, editor, focus, terminated>>
     /\ UpdateViews

ShowLoadProgram == User /\ boxes' = <<"file">> /\ OnlyBoxes

RestartLastProgram ==
  /\ User
  /\ IF loaded THEN LoadProgram(<<>>) ELSE boxes' = <<"message">> /\ OnlyBoxes

\* The user answers the box on top.
ChooseFile == ~terminated /\ Top("file") /\ LoadProgram(Below)

ConfirmSize ==
  /\ ~terminated
  /\ Top("size")
  /\ LoadIntoDevice
  /\ boxes' = Below
  /\ loaded' = TRUE
  /\ UNCHANGED <<running, editor, focus, terminated>>
  /\ UpdateViews

Dismiss == /\ ~terminated
           /\ Top("file") \/ Top("size") \/ Top("message")
           /\ boxes' = Below
           /\ OnlyBoxes

\* The rest of Cycler::cycle after its error box.
DismissError ==
  /\ ~terminated
  /\ Top("error")
  /\ boxes' = Below
  /\ UNCHANGED <<device, editor, running, loaded, focus, terminated, outdated>>
  /\ UpdateViews

Answer == ChooseFile \/ ConfirmSize \/ Dismiss \/ DismissError
-------------------------------------------------------------------------------
FocusRegister == User /\ ~focus /\ focus' = TRUE
                 /\ UNCHANGED <<device, views, editor, toolbar, terminated, outdated>>

Type == /\ User /\ focus
        /\ text' \in Values \cup {Unreadable}
        /\ typed' = TRUE
        /\ UNCHANGED <<device, pagesList, behind, grown, editor, toolbar, focus, terminated, outdated>>

\* editingFinished, on return or when the focus goes, to another editor or to a
\* box: Registers::setRegisterToHex with what is shown, then Registers::update.
EditingFinished ==
  /\ ~terminated /\ focus
  /\ focus' \in IF boxes = <<>> THEN BOOLEAN ELSE {FALSE}
  /\ IF text = Unreadable THEN UNCHANGED <<reg, text, typed>>
     ELSE reg' = text /\ text' = reg' /\ typed' = FALSE
  /\ UNCHANGED <<mem, allocated, pagesList, behind, grown, editor, toolbar, terminated, outdated>>

\* What MemoryIo reads of a page: all of it, or up to the end of the memory.
Page(p) == [i \in 1..(IF p + PageSize > MemSize THEN MemSize - p ELSE PageSize) |-> mem[p + i - 1]]

ShowOffsetSavesToOld(p) ==
  /\ User /\ p \in pagesList
  /\ offset' = IF document = {} THEN p ELSE offset
  /\ document' = {Page(p)}
  /\ outdated' = FALSE
  /\ UNCHANGED <<device, views, toolbar, focus, terminated>>

\* Memory::showOffsetFromListItem
ShowOffset(p) ==
  /\ User /\ p \in pagesList
  /\ offset' = p
  /\ document' = {Page(p)}
  /\ outdated' = FALSE
  /\ UNCHANGED <<device, views, toolbar, focus, terminated>>

\* Memory::savePage: all of the document d, from the page's address on.  What is
\* cut off it leaves the memory as it was there; what it grows by goes into the
\* pages that follow, and is lost at the end of the memory.
SavePage(d) ==
  /\ mem' = [a \in Address |-> IF Place(a) \in DOMAIN d THEN d[Place(a)] ELSE mem[a]]
  /\ allocated' = allocated \cup {PageOf(a) : a \in {b \in Address : Place(b) \in DOMAIN d}}

\* An edit in the hex editor, which puts in, takes out, overtypes, undoes or
\* redoes any bytes, and the save that its documentChanged is connected to.  It
\* does not update the views.
EditDocument ==
  /\ User /\ document # {}
  /\ \E n \in 0..MaxDocument : \E d \in [1..n -> Values] :
       /\ document' = {d}
       /\ SavePage(d)
  /\ grown' = grown \cup (allocated' \ allocated)
  /\ outdated' = FALSE
  /\ UNCHANGED <<reg, text, typed, pagesList, behind, offset, toolbar, focus, terminated>>

Next == \/ TimerFires \/ Step \/ StartAutoRun \/ PauseAutoRun \/ TimePasses
        \/ ShowLoadProgram \/ RestartLastProgram \/ Answer
        \/ FocusRegister \/ Type \/ EditingFinished
        \/ \E p \in Pages : ShowOffset(p)
        \/ EditDocument

\* The event loop serves a timer that is active, time passes, and a box that is
\* open is answered in the end.
Fairness == /\ WF_vars(TimerFires)
            /\ WF_vars(TimePasses)
            /\ WF_vars(Answer)

Spec == Init /\ [][Next]_vars /\ Fairness
-------------------------------------------------------------------------------
(* Nothing runs behind an error box: whichever event loop the timer fired  *)
(* in, over a file dialog too, the program has stopped where it failed.    *)
ErrorStops == (\E i \in DOMAIN boxes : boxes[i] = "error") => ~running

(* While no box is open and the device is not running, the views show it:  *)
(* after a step, a pause, a load and an error, in any order.  Only pages   *)
(* that a lengthened document ran on into are not listed yet.              *)
AtRestViewsCurrent ==
  boxes = <<>> /\ ~running /\ ~terminated =>
    /\ ~behind
    /\ pagesList = allocated \ grown
    /\ typed \/ text = reg

(* Unless the device has written to it since the last edit, the memory has *)
(* every byte of the document at the place that an edit will save it to:   *)
(* also of one that has been cut short or runs on into the next page.      *)
DocumentIsInMemory ==
  outdated \/ \A d \in document, a \in Address : Place(a) \in DOMAIN d => mem[a] = d[Place(a)]

(* Views that have fallen behind the device come up with it: auto-run      *)
(* refreshes them again and again, and whatever stops it does so last.     *)
ViewsCatchUp == behind ~> ~behind \/ terminated
===============================================================================
