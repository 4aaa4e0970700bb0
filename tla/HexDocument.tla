----------------------------- MODULE HexDocument -----------------------------
(***************************************************************************)
(* The hex editor of the memory view: GapBuffer, the undo stack and its    *)
(* commands, QHexDocument, QHexCursor and the keys of QHexEditPrivate.     *)
(*                                                                         *)
(* emulens sets overwriteOnly, so insert mode is left out, and with it the *)
(* growth of the gap: what it turns into an insertion is only the undoing  *)
(* of a removal.  A byte has two nibbles of NibbleSize values.  What a     *)
(* clipboard makes of the bytes is Qt's: a paste may bring any of Clips.   *)
(***************************************************************************)
EXTENDS Integers, Sequences

CONSTANTS Original,    \* the bytes that the document is made from
          BaseGap,     \* BASE_GAP_SIZE
          NibbleSize,  \* 16 in the code
          Digits,      \* the hex digits that are typed
          Letters,     \* the bytes that are typed as characters
          Clips,       \* what is pasted
          Parts,       \* of {"address", "hex", "ascii"}, the parts of the view that are clicked
          Line,        \* BYTES_PER_LINE
          MaxCommands  \* bound: commands pushed on the undo stack

Blank == 0  \* the byte that QByteArray fills up with

ASSUME HexAssumption == /\ Original \in Seq(Int) /\ BaseGap \in Nat
                        /\ NibbleSize \in Nat \ {0, 1}
                        /\ Letters \subseteq Int /\ Clips \subseteq Seq(Int) \ {<<>>}
                        /\ Digits \subseteq 0..NibbleSize - 1
                        /\ Line \in Nat \ {0} /\ MaxCommands \in Nat

VARIABLES gap,        \* GapBuffer: _buffer, _gapstart, _gapend
          stack,      \* QUndoStack: the commands
          index,      \* how many of them are done
          cursor,     \* QHexCursor
          escaped,    \* at() has thrown, out of the event loop
          \* History, for the properties only:
          past,       \* what the document should be with 0, 1, ... commands done
          pushes,     \* commands pushed so far
          corrupted,  \* a call has met one of the defects that are named below
          digits,     \* hex digits typed one after the other
          first       \* where the first of them went

docVars == <<gap, stack, index, past, pushes, corrupted>>
typing  == <<digits, first>>
hexVars == <<docVars, cursor, escaped, typing>>

HexInit ==
  /\ gap = [buffer |-> [i \in 1..BaseGap |-> Blank] \o Original,
            start |-> 0, end |-> BaseGap]
  /\ stack = <<>>
  /\ index = 0
  /\ cursor = [offset |-> 0, selection |-> 0, nibble |-> 0, part |-> "hex"]
  /\ escaped = FALSE
  /\ past = <<Original>>
  /\ pushes = 0
  /\ corrupted = FALSE
  /\ digits = <<>>
  /\ first = 0
-------------------------------------------------------------------------------
\* GapBuffer; positions count from 0, as in the code.
Mid(s, pos, n) == SubSeq(s, pos + 1, IF pos + n < Len(s) THEN pos + n ELSE Len(s))
From(s, pos)   == SubSeq(s, pos + 1, Len(s))
Left(s, n)     == Mid(s, 0, n)

\* QByteArray::replace, which fills up to a position behind the end.
Spliced(s, pos, n, data) ==
  Left(s, pos) \o [i \in 1..(IF pos > Len(s) THEN pos - Len(s) ELSE 0) |-> Blank]
    \o data \o From(s, pos + n)

GapLength(g)   == g.end - g.start
Length(g)      == Len(g.buffer) - GapLength(g)
ToByteArray(g) == Left(g.buffer, g.start) \o From(g.buffer, g.end)
At(g, i)       == g.buffer[(IF i >= g.start THEN i + GapLength(g) ELSE i) + 1]

\* Behind a gap that is not at 0 the code adds _gapend instead of the gap's length.
Read(g, i, n) ==
  LET before == IF i < g.start THEN Mid(g.buffer, i, IF n < g.start - i THEN n ELSE g.start - i)
                               ELSE <<>>
      j == i + Len(before)
  IN  before \o Mid(g.buffer, IF j >= g.start THEN j + g.end ELSE j, n - Len(before))

ReadsAstray(g, i, n) == g.start > 0 /\ i + n > g.start

\* All that lies between the index and the gap is replaced, by what data there is.
Replace(g, i, data) ==
  LET n == g.start - i
      front == Spliced(g.buffer, i, n, Left(data, n))
  IN  IF i >= g.start
      THEN [g EXCEPT !.buffer = Spliced(@, i + GapLength(g), Len(data), data)]
      ELSE [g EXCEPT !.buffer = IF n < Len(data)
                                THEN Spliced(front, g.end, Len(data) - n, From(data, n))
                                ELSE front]

ReplacesTooMuch(g, i, n) == i + n < g.start

MoveGapBackwards(g, i) ==
  LET delta == i - g.start
  IN  [buffer |-> IF delta < 0
                  THEN Spliced(g.buffer, g.end, -delta, Mid(g.buffer, i, -delta))
                  ELSE Spliced(g.buffer, g.start, delta, Mid(g.buffer, g.end, delta)),
       start |-> i, end |-> g.end + delta]

\* moveGap: the bytes in between change sides.  They are copied by memcpy, whose
\* effect is undefined if they are more than the gap is long.
MoveGap(g, i) ==
  LET delta == i - g.start
  IN  [buffer |-> IF delta < 0
                  THEN Spliced(g.buffer, g.end + delta, -delta, Mid(g.buffer, i, -delta))
                  ELSE Spliced(g.buffer, g.start, delta, Mid(g.buffer, g.end, delta)),
       start |-> i, end |-> g.end + delta]

CopiesOverItself(g, i) == i - g.start > GapLength(g) \/ g.start - i > GapLength(g)

Insert(g, i, data) ==
  LET moved == MoveGap(g, i)
  IN  [moved EXCEPT !.buffer = Spliced(@, i, Len(data), data), !.start = @ + Len(data)]

Remove(g, i, n) == [MoveGap(g, i) EXCEPT !.end = @ + n]
-------------------------------------------------------------------------------
(* The commands, on a record of what `docVars` has.  `saved` is what a     *)
(* command keeps for undo(), and `sound` whether that can restore it.      *)
Now == [gap |-> gap, stack |-> stack, index |-> index, past |-> past,
        pushes |-> pushes, corrupted |-> corrupted]

ReplaceCommand(i, data) == [kind |-> "replace", at |-> i, data |-> data, n |-> Len(data)]
RemoveCommand(i, n)     == [kind |-> "remove", at |-> i, data |-> <<>>, n |-> n]

Redo(d, c) ==
  LET g == d.gap
      done == [kind |-> c.kind, at |-> c.at, data |-> c.data, n |-> c.n,
               saved |-> Read(g, c.at, c.n),
               sound |-> ~ReadsAstray(g, c.at, c.n) /\ c.at + c.n <= Length(g)]
  IN  [d EXCEPT
        !.stack[d.index + 1] = done,
        !.index = @ + 1,
        !.gap = IF c.kind = "replace" THEN Replace(g, c.at, c.data) ELSE Remove(g, c.at, c.n),
        !.corrupted = \/ @
                      \/ c.kind = "replace" /\ ReplacesTooMuch(g, c.at, c.n)
                      \/ c.kind = "remove" /\ (c.at + c.n > Length(g) \/ CopiesOverItself(g, c.at))]

Undo(d) ==
  LET c == d.stack[d.index]
      g == d.gap
  IN  [d EXCEPT
        !.index = @ - 1,
        !.gap = IF c.kind = "replace" THEN Replace(g, c.at, c.saved) ELSE Insert(g, c.at, c.saved),
        !.corrupted = \/ @ \/ ~c.sound
                      \/ c.kind = "replace" /\ ReplacesTooMuch(g, c.at, Len(c.saved))
                      \/ c.kind = "remove" /\ CopiesOverItself(g, c.at)]

\* What a command should make of the text t.
Meant(t, c) == IF c.kind = "replace" THEN Spliced(t, c.at, c.n, c.data)
               ELSE Left(t, c.at) \o From(t, c.at + c.n)

\* QUndoStack::push drops what could be redone, and does the command.
Push(d, c) ==
  LET kept == Left(d.past, d.index + 1)
  IN  Redo([d EXCEPT !.stack = Append(Left(@, d.index), c),
                     !.past = Append(kept, Meant(kept[Len(kept)], c)),
                     !.pushes = @ + 1], c)

Becomes(d) == /\ gap' = d.gap /\ stack' = d.stack /\ index' = d.index
              /\ past' = d.past /\ pushes' = d.pushes /\ corrupted' = d.corrupted
-------------------------------------------------------------------------------
\* QHexCursor, on a record of it and the length of the document.
Clamped(o, length) == IF o < length THEN o ELSE length

SetOffset(c, o, nibble, length) ==
  [c EXCEPT !.offset = Clamped(o, length), !.selection = Clamped(o, length), !.nibble = nibble]

\* Offsets are unsigned: one below 0 is behind the end too.
Moved(o, by, length) == IF o + by \in 0..length - 1 THEN o + by
                        ELSE IF by > 0 THEN length ELSE 0

MoveByByte(c, length) == SetOffset(c, Moved(c.offset, 1, length), 0, length)

\* moveOffset(by, true), with the cursor on the other nibble first.
MoveByNibble(c, by, length) ==
  LET step == IF (c.nibble = 0) = (by > 0) THEN 0 ELSE by
  IN  SetOffset(c, Moved(c.offset, step, length), 1 - c.nibble, length)

SelectionStart(c)  == IF c.offset < c.selection THEN c.offset ELSE c.selection
SelectionLength(c) == (IF c.offset < c.selection THEN c.selection ELSE c.offset) - SelectionStart(c)
HasSelection(c)    == c.offset # c.selection

\* removeSelection: the cursor stays at its offset, wherever the text has gone.
RemoveSelection(d, c) ==
  IF HasSelection(c) THEN Push(d, RemoveCommand(SelectionStart(c), SelectionLength(c))) ELSE d

ClearSelection(c) == [c EXCEPT !.selection = c.offset]
-------------------------------------------------------------------------------
\* A key or the mouse; after a defect the model goes no further.
Input == ~escaped /\ ~corrupted
Keys(n) == Input /\ pushes + (IF HasSelection(cursor) THEN n ELSE 1) <= MaxCommands
EndsTyping  == digits' = <<>> /\ first' = 0

HighPart(byte, v) == v * NibbleSize + (byte % NibbleSize)
LowPart(byte, v)  == (byte \div NibbleSize) * NibbleSize + v

NibbleReplacedLowFirst(byte, nibble, v) ==
  IF nibble = 1 THEN HighPart(byte, v) ELSE LowPart(byte, v)

NibbleReplaced(byte, nibble, v) == IF nibble = 1 THEN LowPart(byte, v) ELSE HighPart(byte, v)

\* processHexPart
TypeHex(v) ==
  /\ Keys(2)
  /\ cursor.part = "hex"
  /\ LET d == RemoveSelection(Now, cursor)
         c == ClearSelection(cursor)
         at == c.offset
     IN  IF at < Length(d.gap)
         THEN /\ Becomes(Push(d, ReplaceCommand(at, <<NibbleReplaced(At(d.gap, at), c.nibble, v)>>)))
              /\ cursor' = MoveByNibble(c, 1, Length(d.gap))
              /\ digits' = IF HasSelection(cursor) THEN <<v>> ELSE Append(digits, v)
              /\ first' = IF HasSelection(cursor) \/ digits = <<>>
                          THEN 2 * at + c.nibble ELSE first
         ELSE Becomes(d) /\ cursor' = c /\ EndsTyping
  /\ UNCHANGED escaped

\* processAsciiPart, which writes behind the end too.
TypeAscii(b) ==
  /\ Keys(2)
  /\ cursor.part = "ascii"
  /\ LET d == RemoveSelection(Now, cursor)
         c == ClearSelection(cursor)
         typed == IF Length(d.gap) > 0 THEN Push(d, ReplaceCommand(c.offset, <<b>>)) ELSE d
     IN  Becomes(typed) /\ cursor' = MoveByByte(c, Length(typed.gap))
  /\ EndsTyping
  /\ UNCHANGED escaped

\* processDeleteEvents; at() throws at the end of the document.
Delete ==
  /\ Keys(1)
  /\ IF HasSelection(cursor)
     THEN Becomes(RemoveSelection(Now, cursor)) /\ UNCHANGED escaped
     ELSE IF cursor.part = "hex"
     THEN IF cursor.offset >= Length(gap)
          THEN escaped' = TRUE /\ UNCHANGED docVars
          ELSE /\ Becomes(Push(Now, ReplaceCommand(cursor.offset,
                    <<NibbleReplaced(At(gap, cursor.offset), cursor.nibble, 0)>>)))
               /\ UNCHANGED escaped
     ELSE Becomes(Push(Now, ReplaceCommand(cursor.offset, <<0>>))) /\ UNCHANGED escaped
  /\ cursor' = ClearSelection(cursor)
  /\ EndsTyping

\* processBackspaceEvents: the cursor does not move.
Backspace ==
  /\ Keys(1)
  /\ LET pos == IF cursor.offset > 0 THEN cursor.offset - 1 ELSE 0
     IN  Becomes(IF HasSelection(cursor) THEN RemoveSelection(Now, cursor)
                 ELSE Push(Now, ReplaceCommand(pos, <<0>>)))
  /\ cursor' = ClearSelection(cursor)
  /\ EndsTyping
  /\ UNCHANGED escaped

\* cut; copy changes nothing here.
Cut == /\ Keys(1)
       /\ HasSelection(cursor)
       /\ Becomes(RemoveSelection(Now, cursor))
       /\ cursor' = ClearSelection(cursor)
       /\ EndsTyping
       /\ UNCHANGED escaped

Paste ==
  /\ Keys(2)
  /\ \E clip \in Clips :
       LET c == ClearSelection(cursor)
           d == Push(RemoveSelection(Now, cursor), ReplaceCommand(c.offset, clip))
       IN  /\ Becomes(d)
           /\ cursor' = SetOffset(c, Moved(c.offset, Len(clip), Length(d.gap)), 0, Length(d.gap))
  /\ EndsTyping
  /\ UNCHANGED escaped

UndoKey == /\ Input /\ index > 0
           /\ Becomes(Undo(Now))
           /\ EndsTyping
           /\ UNCHANGED <<cursor, escaped>>

RedoKey == /\ Input /\ index < Len(stack)
           /\ Becomes(Redo(Now, stack[index + 1]))
           /\ EndsTyping
           /\ UNCHANGED <<cursor, escaped>>

OnlyCursor == Input /\ UNCHANGED <<docVars, escaped>> /\ EndsTyping

\* mousePressEvent anywhere in the area, and in one of its parts.
Click(o, nibble, part) ==
  /\ OnlyCursor
  /\ nibble = 1 => part = "hex"
  /\ cursor' = [SetOffset(cursor, o, nibble, Length(gap)) EXCEPT !.part = part]

\* A drag, or a click with shift.
Drag(o) == OnlyCursor /\ cursor' = [cursor EXCEPT !.offset = Clamped(o, Length(gap))]

SelectAll == OnlyCursor /\ cursor' = [SetOffset(cursor, 0, 0, Length(gap)) EXCEPT !.offset = Length(gap)]

MoveKey == /\ OnlyCursor
           /\ \/ \E by \in {-1, 1} : cursor' = MoveByNibble(cursor, by, Length(gap))
              \/ \E by \in {-Line, Line} :
                   cursor' = SetOffset(cursor, Moved(cursor.offset, by, Length(gap)), 0, Length(gap))

SelectKey == /\ OnlyCursor
             /\ \E by \in {-Line, -1, 1, Line} :
                  cursor' = [cursor EXCEPT !.offset = Clamped(Moved(@, by, Length(gap)), Length(gap))]

HexNext ==
  \/ \E v \in Digits : TypeHex(v)
  \/ \E b \in Letters : TypeAscii(b)
  \/ Delete \/ Backspace \/ Cut \/ Paste \/ UndoKey \/ RedoKey
  \/ \E o \in 0..Length(gap), n \in {0, 1}, part \in Parts : Click(o, n, part)
  \/ \E o \in 0..Length(gap) : Drag(o)
  \/ SelectAll \/ MoveKey \/ SelectKey

HexSpec == HexInit /\ [][HexNext]_hexVars
-------------------------------------------------------------------------------
(* Around its gap the buffer holds the document that a plain list would    *)
(* be after the commands that are done and not undone, in whatever order   *)
(* they are typed, undone and redone; until a command reads behind a gap   *)
(* inside the document and is undone, replaces fewer bytes than lie before *)
(* the gap, grows the document and is undone, or moves the gap over more   *)
(* bytes than it is long.                                                  *)
UndoKeepsHistory == ~corrupted => ToByteArray(gap) = past[index + 1]

Nibble(t, k) == IF k % 2 = 0 THEN t[k \div 2 + 1] \div NibbleSize ELSE t[k \div 2 + 1] % NibbleSize

(* Hex digits typed one after the other fill the nibbles from the cursor   *)
(* on, high before low, and the cursor stands on the next one.             *)
DigitsFillNibbles ==
  ~corrupted /\ digits # <<>> =>
    /\ \A k \in DOMAIN digits : Nibble(ToByteArray(gap), first + k - 1) = digits[k]
    /\ 2 * cursor.offset + cursor.nibble = first + Len(digits)
===============================================================================
