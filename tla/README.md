# Emuballs in TLA+

Emuballs is an emulator library for the Raspberry Pi 1 (an ARM CPU, its paged
memory, the GPU behind a mailbox, a timer); Emulens is a Qt debugger on top of
it, and emurun a command line runner.  This directory holds a TLA+ model of the
library and of the parts of Emulens that change its state: modules that follow
the C++ sources, TLC configurations that check them on small instances, and
proofs by TLAPS of what holds for instances of every size.

Paths below are those of the repository.  `PROJECT.json` maps each definition
to the source lines that it stands for, lists the runs with their properties,
and for each property a mutated definition under which TLC finds it violated.

    tlc -config ArrayQueue.cfg ArrayQueue      # one run
    tlapm MachineProofs.tla                    # the proofs of one module

## 1. The system

One thread runs everything.  What interleaves is not threads but *steps of
different actors*: the guest program's instructions, the GPU's turn, the memory's
observers, the passing of time, and what the host does between two calls of
`Device::cycle` (load, reset, edit a register, edit memory), which in Emulens
arrives as Qt events, also while a modal box is open.  What fails is an
instruction that throws out of the middle of a cycle.

    Emulens: Cycler, Device, Registers, Memory   src/emulens
      Cycler::cycle                cycler.cpp: from a timer or the step button
        Device::cycle(n)           src/emuballs/device_pi.cpp
          n times:
            Arm::Machine::cycle      armmachine.cpp
              Prefetch::collect        Memory::ptr -> words -> ArrayQueue
              OpDecoder::next/decode   the factories, two caches of Opcodes
              Opcode::execute          registers, flags, TrackedMemory
                TrackedMemory            Memory + execObservers
                  Timer's observer         before a load: the time into memory
                  Gpu's observer           pickupMail: acknowledges a mail
            Arm::Gpu::cycle          armgpu.cpp: answers the mail it holds
        Device::updateViews        registers, memory, display
      Memory::savePage             memory.cpp: a page edited in the hex editor
        QHexEdit, GapBuffer          hexedit/: keys, undo stack, cursor

### Components

| component | state | operations | what is hard about it | correct means |
|---|---|---|---|---|
| `ArrayQueue` (array_queue.hpp) | array, popIndex, pushIndex, size | clear, push, pop | wrap-around, full, empty | it is a bounded FIFO |
| `Arm::Machine`, `Prefetch` (armmachine.cpp) | prefetch queue, page pointer `memptr`/`membase`, `pcChanged` | cycle: collect, pop, decode, execute, flush; copy | exceptions in the middle of a cycle, self-modifying code, the end of a page, the host moving the pc | instructions run in program order, each once; the pc an instruction sees is its address + 8 |
| `Memory` (memory.cpp) | pages on demand, list of observers | byte, word, dword, chunk, ptr; observe, unobserve | accesses across pages and across the end | one flat array of bytes; every observed access is reported |
| `Arm::Gpu` (armgpu.cpp) | `isInit`, `hasMail`, observer id, frame buffer | init, pickupMail (observer), cycle, destructor | guest stores between a mail and its answer; partial, swapped and block accesses; resets | each accepted mail is answered once, and status bits are truthful |
| `PiDevice` (device_pi.cpp) | machine, gpu, timer, programmer | cycle, reset | an exception ends a batch before the GPU's turn | CPU and GPU alternate; reset leaves nothing of the old GPU |
| `ProgrammerPi` (programmer_pi.cpp) | none | load | writes over a running program | see Machine |
| `OpDecoder` (opdecoder.cpp, .hpp) | `opPages`, `decodedOps`, current page | decode, next, assignment | stale cache entries, pages confused by createPage, failed validation | caches are invisible |
| shifter (shift.hpp, armopcode_dataproc_psr.cpp) | none | lsl, lsr, asr, ror, rrx by immediate and register | amounts 0, 32 and more | the ARM value and carry |
| data processing and PSR (armopcode_dataproc_psr.cpp) | flags, SPSRs | 16 operations, msr, mrs | flags of subtraction and of chained operations | conditions tell how numbers compare |
| branches, multiplies, transfers (armopcode_impl.cpp) | registers, memory, `values` in a block transfer | execute | write-back, base in the list, both ends of the address space, exceptions, state kept in a cached Opcode | ldm takes back what stm pushed; a block is its words one by one; a throw changes nothing |
| opcode factories (armopcode_impl.cpp:738-926) | none | decode masks | overlapping masks, order of the factories | each word becomes the instruction of its format |
| `Pi::Timer` (timer_pi.cpp) | observer, starting point | PreRead observer, construction and destruction with the device's reset | a 64-bit counter read as two words, time between them, stores over it, observers of replaced objects | a guest that reads high, low, high has the time; only live objects observe |
| `NamedRegisterSet`, `RegVal` | none of their own | setReg, named registers | setting the pc behind the machine's back | see Machine |
| `Cycler`, `Emulens::Device` (src/emulens) | autorun timer, refresh clock, last program, open boxes | cycle, start, pause, step, load, restart | Qt events in any order, boxes that run the event loop again, throttled views | an error stops the run; views at rest show the device; views that fall behind catch up |
| memory and register editors (memory.cpp, registers.cpp, editarray.cpp) | the shown page, its document; the text and focus of a register | savePage, setRegister, update | a page written back from a stale document, a text saved on loss of focus | an edit changes what the user edited |
| emurun | cycle count | main loop | the last partial batch, a signal | exactly `--cycles` cycles |
| hex editor (hexedit/) | gap buffer, undo stack, cursor | keys, clicks; insert, remove, replace, undo, redo | the gap in the middle of what is read or replaced; a cursor behind a removal | the document is what a plain list would be, undo and redo included |
| drawing (canvas.cpp, armgpu.cpp, display.cpp) | the frame buffer's description | size, pointer, copy into an image | sizes modulo 2^32, lines padded by the image | the display shows what the guest drew; a copy stays inside its image, where there is one |
| windows, strings | – | – | – | not state machines |

`PROJECT.json` "hazards" lists, line by line, what in this code is hard to test,
with the properties below that watch it or the reason why none does yet.

## 2. The modules

| module | models | role |
|---|---|---|
| `BoundedFifo` | what a caller of ArrayQueue may rely on | abstract |
| `ArrayQueue` | array_queue.hpp | implements `BoundedFifo` |
| `Machine`, `MCMachine` | Machine::cycle with Prefetch; the host's resets, pc edits and memory writes | has the queue as a sequence |
| `FlatMemory` | what a caller of memory.hpp may rely on | abstract |
| `PagedMemory`, `MCPagedMemory` | memory.cpp without observers | implements `FlatMemory` |
| `GpuMailbox` | armgpu.cpp with PiDevice::cycle and reset, and every kind of guest access | composes guest, memory observer, GPU, host |
| `PiTimer` | timer_pi.cpp, the observer list of memory.cpp, PiDevice::cycle and reset | composes guest, time, observers of Timer and Gpu, host |
| `OpDecoder` | opdecoder.cpp, opdecoder.hpp | |
| `Factories` | the decode masks of armopcode_impl.cpp and armopcode_dataproc_psr.cpp | |
| `Transfers`, `MCTransfers` | execute() of the transfers, swaps, branches and byte reversals | uses `Shift` |
| `Shift` | shift.hpp and the shifter operands | operators |
| `Alu` | flags of data processing, multiplies and msr; the conditions | uses `Shift` |
| `FrameBuffer` | the frame buffer's size and pointer, and drawing | operators |
| `MCArithmetic` | the instructions of `Alu`, and every call of `Shift` and `FrameBuffer` | for TLC |
| `Session` | Emulens' cycler.cpp, device.cpp, registers.cpp, editarray.cpp, memory.cpp | composes user, event loop, device, views |
| `HexDocument`, `MCHexDocument` | the hex editor: gap buffer, undo stack, cursor, keys, mouse | composes document, stack, cursor |
| `MachineProofs` | TLAPS proofs about `Machine` and `ArrayQueue` | theorems |
| `ArithmeticProofs` | about `Alu`, `Shift` and `FrameBuffer`, and facts about numbers and powers of two | theorems |
| `OpDecoderProofs` | about `OpDecoder` and `Factories` | theorems |
| `TransfersProofs` | about `Transfers`, from the facts in `ArithmeticProofs` | theorems |
| `EmulensProofs` | about `Session` and `HexDocument` | theorems |
| `PagedMemoryProofs`, `GpuMailboxProofs`, `PiTimerProofs` | about the module they are named after | theorems |

Each module has the same layout: constants with their named assumption,
variables (the code's, then history variables that only properties read), one
action per operation or handler, `Next`, `Spec`, then the properties, each under
a comment that says what it means in the code.  Where one module of proofs is
about several, their specifications have names of their own: `RingSpec`,
`AluSpec`, `AskSpec` (of `Factories`) and `HexSpec`.

Some definitions stand before the one that they resemble and are used nowhere
(`AdvanceLate` before `Advance`).  They are plausible bugs of that
definition; put in its place, each breaks the property that `PROJECT.json`
"mutants" pairs it with.

### ArrayQueue

`Clear`, `Push`, `PushFull`, `Pop`, `PopEmpty` are the three calls, with the
throwing outcome an action of its own; `last` is what the caller saw.  The
array is not initialised by the code and so not by `Init`.  `MaxSize = 0` is
allowed, as it is in the template.  `Contents` is the refinement mapping.

### Machine

Addresses count bytes, and the pc may be any of them: `bx` rejects bit 0 only,
and `mov pc` and the register view set what they like.  An instruction is
`InstructionSize` bytes, so that two of them can overlap, and `Kind` tells it to be
one of five by its effect on the pipeline (`alu`, `jump`, `store`, `trap`, `undef`);
the targets of jumps are left open, and a store or a write of the host puts any
member of `Puts`.  `cycle()` is one `Fetch` per turn of the loop of
`Prefetch::collect` and then one of `DecodeFails`, `ExecuteFails`, `ExecutePlain`
(also any instruction whose condition is not met), `ExecuteJump`,
`ExecuteStore`.  The host acts only between cycles (`~fetching`): `Reset`,
`SetPc`, `Poke`.  `Flushed` is the comparison of `pcChanged` after execution;
`KeepsPage` is `Prefetch`'s test with its off-by-one and unsigned subtraction;
a byte fetched from behind a page's buffer may be anything (`Fetched`), be it of
the instruction that begins the next page or of one that straddles two.

### PagedMemory

A call is a step.  The loops over bytes and pages become the set of bytes that
they reach (`Walk`, `Reach`), in a circle of `Span` addresses (2^64 in the code): the
sums of address and length wrap (`Sum`), as transfers with an offset below their
base make them do, and an access over the last address goes on in page 0 if the
memory is as long as a device's, SIZE_MAX.  `PutWord` writes the bytes that fit before it throws,
`GetWord` has the code's short cut for words on one page, `PutChunk` stops at the
last page's end and `GetChunk` at the memory's size, and reads through byte and
word allocate pages while reads through chunk do not.  `ChunkLength` has the
code's comparison of a sum that may have wrapped: then a chunk is not cut at the
memory's size.  `FlatMemory` is an array on the same circle.

### GpuMailbox

The seven registers of the mailbox with their addresses' order; a mail is a
channel and a message.  The guest's step is any of: nothing, load, store, a
store of part of the write register, swap, block load and store starting
anywhere, also below the mailbox, or of no registers at all: an empty list is
executed, and its length of 0 is taken for a byte's by `execObservers`, so that an
empty ldm at the read register clears read-ready (`dropped`), and an empty stm at
the write register makes the GPU take the mail that is there.  `Noticed` is the memory's observer calling
`pickupMail` after the access.  `GpuInit` writes garbage, because the code
writes an uninitialised `Mailbox`.  `Reset` replaces the Gpu.  The
executions that throw do so before they touch memory and are stutters.

### OpDecoder

`opPages` is a function from the pages made so far, an Opcode is the word it was
decoded from.  `Created` returns page 0 as the code does; when there is no page
0 the pointer comes from `end()`, and the model stops there (`DecodeWild`,
then no further step but `Assign`, which a program can still do).  `Flaky` are words
whose `validate()` reads an uninitialised member: they may pass or fail.

### Factories

A word is reduced to what the masks look at: bits 27-20 and 7-4, and whether
three nibbles are all zeros or ones.  `Ask` is one turn of the loop over the
factories in `OpDecoder::decode`, in the order of armopcode_impl.cpp; `GiveUp`
is the decode error.  `Format` is written the other way round, as the tree of
formats of the ARM instruction set, so that the flat masks and their order are
checked against something that has neither.

### Transfers

An instruction is a record of its fields, a constant set of them is the program,
and any may be next.  `Executed` has the whole of execute() as a function on
registers and memory that may also throw in the middle (`Throw`).  Addresses are
integers, with 2^64 - k as -k, because the code adds some offsets in 32 bits
and some in 64.  `values` is what cached block transfers keep.  `frames` are the
pushes that are still intact, for `PopUndoesPush`.

### Shift, Alu and FrameBuffer

The register's width is a constant; bits, carries and the modulo are computed,
not assumed; powers of two (`Pow2`) and the loops of `lsr` and `asr` are recursive
functions.  `Alu` leaves
the registers open (any operands at any time) and keeps the last arithmetic
instruction in `last`, together with the one before if it goes on from it
(`adc` after `add`, `sbc` after `sub`, `rsc` after `rsb`).  Multiplications leave
meaningless carries, chosen freely among what the code's masks can give.

`FrameBuffer` computes size and pointer modulo the word, and keeps of each byte
of a picture the address that it is from: the image in Emulens pads its lines to
four bytes, the guest's frame buffer does not.  `HasImage` is Qt's condition, not
one that the code tests: `drawPicture` copies to the image's bits in any case.

`Shift` and `FrameBuffer` have no state, so `MCArithmetic` calls them: a
behaviour is either a run of `Alu`, or one call that returns.

### PiTimer

The counter is two words of guest memory.  `Called` is `execObservers` with
`isRangeColliding(from, to)` given a length for `to`, as in memory.cpp:159.  A
guest's access runs the observer before it loads; `Tick` lets time pass anywhere,
and `LoadHalfword` lets it pass between its two bytes.  `Reset` makes each new
object before the old one is destroyed, and so the ids of observers matter.
`reads`, `block` and `overwritten` are history: what a guest that follows the
high-low-high protocol has collected, the last block load, and whether a store
has replaced the counter since.

### Session

A handler of the Qt event loop is an action; a handler that opens a modal box is
cut in two there, and `boxes` is the stack of those that are open.  Inside a box
the timer goes on firing and a register editor that loses the focus saves, while
the user reaches the box on top only.  `UpdateViews` is the throttled update,
`due` the refresh clock.  `DeviceCycle` may change anything of the device, which
is one register and a memory of bytes in pages.  The hex editor's document starts
as a page (`Page`); an edit may make any bytes of it, fewer or more than the page
has, and `SavePage` is putChunk of all of them: fewer leave the page's tail, more go
on into the next page and allocate it.  `typed`, `behind`, `grown` and `outdated`
are history.

### HexDocument

The records `gap` and `cursor` have the fields of GapBuffer and QHexCursor, and
positions count from 0.  `Redo`, `Undo` and `Push` work on a record of the whole
document, so that a key that does two commands (typing over a selection) is one
action.  `past` is what a plain list of bytes would be after 0, 1, ... commands.
The defects of the code are in the operators as they are (`Read`, `Replace`);
`corrupted` notes that a call has met one, and the model stops there.  So it does
when the gap is moved over more bytes than it is long (`CopiesOverItself`), which
a memcpy of overlapping bytes leaves undefined: 64 KiB in the code, out of the
reach of the run's instance, but not of the proofs' documents.  That the gap
never grows (`expandGap`) is not an assumption: see `GapSuffices` below.

## 3. What the runs check

| run | instance | shows |
|---|---|---|
| `array_queue` | 2 values, 3 slots | `ImplementsFifo`: the ring is a FIFO; `RingShape`: the indices and the count never drift apart |
| `machine` | 2 pages of 4 bytes, instructions of 2, every pc, programs with at most 2 bytes that are not zero, 1 memory write | `InOrder`: the program runs in order; `VisiblePc`: an instruction sees its address + 8; `OneStray`; `PrefetchFresh` |
| `machine_page` | same | **violated** `FetchWithinPage` |
| `memory` | 9 addresses, 3 pages of 3 bytes, size 8, words of 2, 1-bit bytes | `ImplementsFlat`: the pages are one flat array of bytes |
| `mailbox` | 2 channels, 2 messages | `ServedBeforeNextInstruction`, `AnswersAcceptedMail`: each mail is answered once and in time; `StatusTruthful`: status bits and poll register |
| `device` | 6 guest addresses in and around the counter, blocks of 2 to 6 bytes, 7 instants, 2 resets | `ObserversLive`: nothing observes for a destroyed object; `HighLowHighIsTime`, `BlockIsTime`: what a guest reads as the time |
| `decoder` | 3 pages, 2 offsets, 2 good words and one of each bad kind | `ResultIsFresh`, `StableDecode`: the caches are invisible; `NoDangling`, `PageZeroSaves` |
| `factories` | all words by the bits that the factories look at | `OneTakes`: the order of the factories is irrelevant; `DecodesToFormat`: each word is what its format says |
| `transfers` | 8-bit registers, 37 instructions on 6 registers, 4 bases, 3 steps | `PopUndoesPush`, `AsSingleTransfers`, `ThrowsBeforeEffect` |
| `arithmetic` | 3-bit registers, amounts to 7; frame buffers of 6-bit sizes, 4 depths | `UnsignedConditions`, `SignedConditions`, `AddFlagsExact`, `ChainedCarry`, `TwoWordsExact` of the flags; `ShiftsAsSpecified`; `PictureIsMemory` |
| `session` | 2 pages of a byte, 2 values, documents of 0 to 2 bytes | `ErrorStops`, `AtRestViewsCurrent`, `DocumentIsInMemory`; the liveness property `ViewsCatchUp` |
| `hexdoc` | 2 bytes of 2 bits, gap 3, one clip, 3 commands | `UndoKeepsHistory`, `DigitsFillNibbles` |

### Where the code and what is said of it differ

**The word after a page** (`machine_page`).  memory.hpp:71 gives the length of
the buffer behind a pointer.  `Prefetch::collect` keeps its pointer while
`pageOffset > pageSize()` is false, so the instruction that begins the following
page is read behind the buffer's end, though it lies on one page, and all the
bytes that `Memory::ptr` of its address gives would be there.

### Limits that the properties name

These are facts of the code that a reader might not expect.  They are in the
model, and the properties hold because they are stated up to them.

* *A pc moved by the host flushes nothing.*  The comment at armopcode_impl.cpp:239
  says that the machine flushes the pipeline every time the pc changes, but
  `resetPcChanged()` at armmachine.cpp:148 forgets a change made by
  `PiDevice::reset` or by the register view, and the word left in the queue
  runs once, with a wrong pc.  `OneStray`: never more than one.
* *A misaligned pc reads over the end of a page.*  No instruction makes the pc a
  multiple of 4: after `mov pc, #2` or an edit in the register view a fetch at
  page offset 4094 takes its last two bytes from behind the page's buffer.
  `PrefetchFresh` excepts these bytes and the instruction that begins a page
  (`BehindPage`), and shows that no other is stale.
* *Accesses over the last address.*  `stmdb` with a base of 4 starts at 2^64 - 4:
  the memory is a circle there, and `ImplementsFlat` says so.  A chunk that
  is read over the end of a memory smaller than that, by a sum that wraps, gets
  zeroes for what is behind the end rather than fewer bytes.
* *A memory that ends inside a page.*  `putChunk` writes, and counts, bytes
  past the size, up to the page's end.  `FlatMemory` promises no more.
* *createPage returns page 0.*  Two code pages share the entries of page 0,
  which is harmless because entries are compared with the word
  (`ResultIsFresh`), and undefined if page 0 was never made (`PageZeroSaves`).
  It is made at once by a program that starts at 0x8000, but not by a copied
  machine whose pc is beyond 64 KiB.
* *lt and ge after a comparison.*  `captureFlagsSub` takes the overflow of
  `minuend + ~subtrahend`, one less than the difference.  `SignedConditions`:
  right for all differences but 2^31 and -2^31.
* *adc, sbc and rsc compute C without the carry that went in.*  Two-word
  arithmetic is right (`TwoWordsExact`), since only the lower word's carry is
  used; `ChainedCarry` says where a third word goes wrong.
* *Pushes across an end of the address space.*  Their bytes go to 64-bit
  addresses that no load of the guest finds again; `PopUndoesPush` and
  `AsSingleTransfers` are about the rest.
* *A block transfer of no registers* loads and stores nothing and yet runs the
  observers: an empty ldm at the read register hides a response that is
  still there.  `StatusTruthful` says so by `dropped`.
* *Block accesses from below an observed zone go unnoticed* (memory.cpp:159): a
  length is taken for an end.  `StatusTruthful` excludes them (`bypassed`), and
  `BlockIsTime` promises of them only an earlier time.
* *Words that decode though they are unallocated*: see the comment of
  `DecodesToFormat`; `OneTakes` names the one pair of factories that overlaps.
* *Pictures of an odd width* shear in Emulens, whose image pads its lines;
  `PictureIsMemory` is about even widths, and about all widths where it says
  that a copy fits.
* *Pictures without an image.*  `drawPicture` does not ask whether Qt made the
  image (display.cpp:50-54).  Of a width of 0x80000001, a height of 1 and a depth
  of 16 the size is truncated to 2 bytes, the width is negative as an int, and the
  two bytes are copied to a null pointer.  `PictureIsMemory` says exactly when:
  with an image the copy fits, and without one only nothing does.  Qt's other
  reasons to make none (lines of 2^27 pixels, no memory) are not modelled; they
  make the null pointer more frequent and no copy longer.
* *A register's editor that loses its focus* writes the value that it shows,
  which may be an old one, also when the focus goes to an error box
  (editarray.cpp:74, `EditingFinished`).  Nothing in the code promises
  otherwise, so no property forbids it.
* *A page edited after the device wrote to it* is written back from the old
  document (`outdated` in `DocumentIsInMemory`).
* *An edit that changes the document's length.*  What is cut off the document stays
  in memory, so that the page is not what the editor shows of it; what it grows by
  is written over the next page.  `DocumentIsInMemory` is about the bytes that the
  document has.  A page that is allocated that way is not listed until the
  next update of the views: the memory view is current but for those (`grown` in
  `AtRestViewsCurrent`).
* *The hex editor's gap buffer.*  A replacement that ends before the gap replaces
  everything up to it (gapbuffer.cpp:33); a read behind a gap inside the
  document is displaced (gapbuffer.cpp:86), which shows when it is undone; undoing
  a replacement that made the document longer leaves it longer.
  `UndoKeepsHistory` holds until one of them happens, and TLC reaches all
  three within three commands.  A Delete at the end of the document throws out of
  the event loop (qhexeditprivate.cpp:121, `escaped`).  A gap that is moved over
  more than its own length of bytes is copied by memcpy onto itself
  (gapbuffer.cpp:118), where `UndoKeepsHistory` ends too.

### Bounds

* *Queue*: three slots make full, empty and partly filled differ, and wrap both
  indices at different times; two values tell elements apart.
* *Machine*: the queue has the code's two slots.  Two pages of four bytes have
  two aligned instructions each, one that lies askew between them and one that
  straddles the page's end, a page to the left and to the right, and a pc that
  wraps.  Two bytes that are not zero put any pair of effects in the queue
  together; one write, of a byte or an instruction, is enough to make a queued
  word stale (`MaxWrites` bounds
  the state space only: the theorems hold for every bound).  The history
  counter `strays` needs no bound: the host's next move resets it, and
  `OneStray` bounds it in between.
* *Memory*: pages of three bytes and words of two give words inside a page (with
  and without the short cut), across two pages and across the last address; size
  8 is one less than the addresses, as SIZE_MAX is; the chunk of five bytes covers
  a page whole and wraps at three places.  Two addresses in the middle of pages
  are left out as starts of an access, to save time.  Memories that end further
  below the last address are in the proof only.
* *Mailbox*: two channels and two messages tell one mail from another; all
  seven registers are there, and blocks between any two of them or of none.
* *Device*: a word has two bytes of one bit, so that seven instants
  (`MaxTime`) carry from the low word into the high one; the guest's addresses
  are those of both words, below, between and beyond them, and the mailbox.  Two
  resets (`MaxResets`) replace a Timer and a Gpu that have themselves replaced
  others.
* *Decoder*: three pages are page 0, a page that may be made after it, and one
  that may be made before; two offsets tell entries of a page apart.
* *Factories*: no bound; the abstraction of a word is exact for the masks.
* *Transfers*: two-bit bytes give words of four of them in an address space of
  256 bytes, with the base near both ends and in the middle.  The instructions
  have each kind, each of the four modes of blocks, a base and a pc in the list,
  write-back with and without, and each illegal form.  `MaxSteps` of three is a
  push, something that may disturb it, and the state in which the pop is tried;
  a branch to itself ends a program, so that nothing deadlocks.
* *Arithmetic*: three bits have a sign, a lowest and a middle bit; amounts go past
  twice the width.  Sizes of 6 bits overflow the pitch, the size and the
  image's int, separately and together.
* *Session*: two pages are the one in the hex editor and the next, into which a
  document can grow, or out of the memory from the last one (`MaxDocument`); with
  pages of one byte a shortened document is an empty one, and longer pages
  are left to the proof.  Two values tell old from new.  The stack of boxes needs no bound: the timer is stopped
  before an error box is shown, so that at most two are open, a file dialog or a
  question and an error over it.
* *Hex editor*: two bytes and three commands (`MaxCommands`) put the gap before,
  inside and behind the document, with one command to move it there, one to do
  and one to undo; undo and redo themselves are not bounded.

### Fairness and deadlock

The library has no scheduler of its own, and a host may stop calling `cycle` at
any time, so its specifications state no fairness.  What must happen *soon* is
stated as safety: a mail is answered before the next instruction.

Emulens has Qt's event loop, and `Session` states weak fairness of three actions:
`TimerFires`, because an active timer's timeouts are served by whichever event
loop is running, a box's included; `TimePasses`, because the refresh clock is a
clock; and `Answer`, which is an assumption about the user: an open box is
answered in the end.  Nothing else is fair; nobody need press a button.
`ViewsCatchUp` needs all three: auto-run refreshes when the clock is due, and an
error's handler when its box has gone.

Four runs disable the deadlock check.  In `arithmetic` a call that has returned
and in `factories` a word that has been decoded is the end; in `session` an
exception that escapes the event loop ends the program; in `hexdoc` the same, and
the model goes no further after a named defect.

## 4. What is proved

| module | theorem | for every |
|---|---|---|
| `MachineProofs` | `TypeCorrect`, `ProgramOrder`, `PcRunsAhead`, `AtMostOneStray`, `PrefetchAge` | memory, page and instruction size, kinds, entry, programs, writes |
| | `RingTypeCorrect`, `RingShapeCorrect`, `RingImplementation` (of ArrayQueue) | value set, size (0 too) |
| `PagedMemoryProofs` | `TypeCorrect`, `Implementation` | number of addresses, page, word and memory size, bytes, chunks |
| `GpuMailboxProofs` | `TypeCorrect`, `ServedAtOnce`, `StatusCorrect`, `AnswersCorrect` | set of channels and of messages |
| `PiTimerProofs` | `ObserversCorrect`, `HighLowHighCorrect`, `BlockCorrect` | place of counter and mailbox, addresses, lengths, times, number of resets |
| `OpDecoderProofs` | `TypeCorrect`, `CachesInvisible`, `DecodesForever`, `PointersOwned`, `NeverWildWithPageZero` | pages, offsets, words |
| | `OneFactory`, `DecodesCorrect` (of Factories) | word |
| `ArithmeticProofs` | `UnsignedCorrect`, `SignedCorrect`, `AdditionCorrect`, `ChainedCarryCorrect`, `TwoWordsCorrect` | register width |
| | `ShiftsCorrect` | register width, value, amount |
| | `PictureCorrect` | word size, end of memory, requested size and depth |
| `TransfersProofs` | `TransferTypesCorrect`, `ThrowsCorrect`, `PopsCorrect`, `TransfersCorrect` | byte and register width, program, bases, number of steps |
| `EmulensProofs` | `ErrorsStop`, `RestIsCurrent`, `DocumentCorrect` | memory and page size, values, lengths of documents, number of open boxes |
| | `HistoryCorrect`, `DigitsCorrect`, `GapSuffices` | document, clipboard, size of the gap, number of commands |

Every safety property that a passing run checks is a theorem, refinements included.
They rest on the named assumptions of the modules (`MaxSizeAssumption`,
`MemAssumption`, `MemoryAssumption`, `MailAssumption`, `TimerAssumption`,
`DecoderAssumption`, `WidthAssumption`, `FrameBufferAssumption`,
`TransferAssumption`, `SessionAssumption`, `HexAssumption`), which TLC evaluates
in the runs.

* **ArrayQueue.**  `RingTypeOK /\ RingShape` is inductive.  The refinement needs it:
  a push appends to `Contents` only because the push index is the slot after the
  newest element, and a pop removes the head because every slot's number shifts
  by one.
* **Machine.**  The invariant of order is inductive together with types and with
  the relation of the pc to the queue: while the queue is not full after a pop,
  the pc is where the next fetch belongs, and a host move is remembered until a
  word is popped.  `PrefetchFresh` needs that each byte of an instruction was read
  from memory unless it is one of `BehindPage`, which is arithmetic of pages: a pc
  that keeps the pointer is in its page or begins the next (`RestOfPage`).  `OneStray` needs that a stray word is the only one
  left, as the queue holds less than two when the host may act.
* **PagedMemory.**  `TypeOK` is inductive; the refinement is one lemma per call.
  The core is what `Written` and `Allocated` do to `Contents`: a byte is
  found on its page at its offset, and allocation of a page changes no byte.  The
  walks reach a prefix of their bytes (`WalkIsPrefix`), since the pages that start
  in the memory come before all others on the circle, and it is as long as
  `FlatMemory` says (`ReachIsPrefix`).
* **GpuMailbox.**  The three safety properties need two more: an initialised Gpu
  has exactly one observer (`OneObserver`), and a mail that was taken is still in
  the write register (`MailInPlace`), because the Gpu's turn comes before any
  other store.  Nearly all of the guest's actions are one lemma,
  `AccessKeepsInv`: an access that leaves the status bits alone, seen by one
  observer afterwards.
* **PiTimer.**  `IdsDiffer` (an id is given out once, so that `Unobserve` takes the
  right observer) gives `ObserversLive`.  `Times` and `ReadsAreTimes` say that
  every word that the guest collected is a part of the time of its load, which
  needs that the current Timer observes.  Then high, low, high is arithmetic: if
  the high words of an earlier and a later time agree, so does any time between.
* **OpDecoder.**  Entries on pages, `decodedOps` and the words that may be cached
  at all (`DecodedAreValid`) must be kept together: a hit is right because the
  entry is the word itself, and that word is one that once passed.
* **Factories.**  The loop's invariant is that every factory asked so far has
  turned the word down and that the answer is what the one that took it makes
  of it.  `TakenMeans` turns the masks into bits; then `OnlyCdpTwice`,
  `FormatOfTaken` and `FormatOfNone` are propositional.  There is no constant to
  generalise, and TLC has all words too: the proof says why.
* **Alu.**  The invariant says that the flags are those of the last arithmetic
  instruction, and that its carry in is the carry out of the one it goes on
  from.  The rest is arithmetic: `Division`, `Remainder` and `Wrapped` remove the
  modulo, `SubOverflowCases` splits on the signs, and `TwoWords` is the identity
  behind multi-word arithmetic.
* **Shift.**  The loops of `lsr` and `asr` are recursive functions, unfolded one
  turn at a time.  What they compute after n turns is proved by induction
  (`RightDivides`, `RightDividesSigned`): `Induction`, from the library's
  well-founded induction on the naturals, is stated for membership in a set, as
  the library's theorems that take the property as an operator cannot be used.
  `LeftMultiplies`, `RightRotates` and `ExtendedRotates` are arithmetic of powers
  of two; `ShiftIsSpecified` puts the cases by amount together.
* **FrameBuffer.**  Where pitch and size fit their words the modulo falls away
  (`OwnRemainder`), and `PixelIsMemory` is the arithmetic of lines that
  are padded in the image and not in memory.  `CopyFitsImages` compares the two
  sizes where there is an image, and where there is none leaves only a copy of
  nothing.
* **Transfers.**  The inductive invariant is `TransferTypes` (registers hold words,
  memory bytes) with `FramesStored`: in memory each frame's words are those that it
  saved, at their rank in its list.
  A push establishes it because the bytes of a block's words do not overlap
  (`PutBlockByte`, `RankUnique`), and other stores remove the frames that they
  touch.  A pop then loads what was saved (`PopRestores`).  That a word is its
  four digits, and they are the word, is `WordIsNumber` and `WordOfDigits`.
  `AsSingleTransfers` needs of the invariant only the types: `AllTurns` is an
  induction over the turns of a block, where the state after each is what the
  block has done to the registers that had their turn (`OneTurn`).  Of
  `ThrowsBeforeEffect` there is a lemma for each kind of instruction, together
  with its types (`Harmless`).
* **Session.**  `AtRestViewsCurrent` speaks of no open box, and is inductive only
  as `CurrentBehindBoxes`: at rest the views are current behind every box but an
  error's, whose handler updates them when the box has gone.  `DocumentIsInMemory`
  is inductive: a save puts every byte of the document where the property looks
  for it, whatever the length, and a write of the device that touches one of them
  is what `outdated` remembers.
* **HexDocument.**  `UndoKeepsHistory` compares the buffer with one entry of `past`,
  and undo makes it that of another.  The invariant (`HexInv`, `DocOk`) keeps all
  of the history: each entry of `past` is what the command before it should make
  of the one before, each command that is done can restore its entry
  (`Restores`), and the buffer is long enough to go back to every earlier text.
  Under it stand lemmas on the gap buffer's operations (`ReplaceCorrect`,
  `MoveGapCorrect`, `InsertCorrect`, `RemoveCorrect`, `ReadCorrect`), each saying
  what the call does to the text, wherever the gap is, and two on texts
  (`SpliceBack`, `WithoutBack`): a command undone is no command.  The last
  conjunct gives `GapSuffices`: what a removal took always fits in the gap, so
  that the model loses nothing by leaving its growth out.  TLC had checked the
  invariant on the run's instance before it was proved.

Only model-checked: `ViewsCatchUp` (liveness is out of the prover's reach, as is
ENABLED), and the violated property.

## 5. Plan

What is left, in order:

1. `MachineCopy`: two machines, copy and move of `Prefetch` with its pointer
   into the other machine's memory, and the fresh decoder.
2. The hex editor's insert mode and the gap's growth, with the defects of
   `GapBuffer` as they meet it.
3. `Machine`, `GpuMailbox` and `PiTimer` composed, so that a guest's program
   drives the other two; each has the device's `cycle` and `reset` by itself now.
4. Results of multiplications and of the logic operations, mrs, the SPSRs and
   the register banks of armregisterset.cpp.

## 6. Not modelled, and why

* *Windows, formatting, strings, dptr*: no state that steps can disorder.
* *Painting and metadata of the hex editor*: third-party layout; Emulens adds no
  metadata.
* *Colours and Qt's scaling* of the picture: data only.
* *Program files*: the loader's splitting into reads is I/O; its effect on a
  running machine is `Machine`'s `Poke`, and on a session `LoadIntoDevice`.
* *emurun*: one counter in a loop, and a flag that a signal sets.
* *Copies of machines and memories*, *insert mode*, *register banks, mrs, the
  SPSRs*, *results of multiplications*: planned.
* *Memories that end inside a page*: legal for `Memory` and in `PagedMemory`;
  `Machine` assumes a memory of whole pages.
