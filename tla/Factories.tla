------------------------------- MODULE Factories -------------------------------
(***************************************************************************)
(* Which Opcode a word becomes: the factories of armopcode_impl.cpp, asked *)
(* in turn by OpDecoder::decode until one takes the word.                  *)
(*                                                                         *)
(* Of a word, the factories look at the bits 27-20 and 7-4, one by one,    *)
(* and at three nibbles, which they compare with 0 or 15.                  *)
(***************************************************************************)
EXTENDS Integers, Sequences, FiniteSets

Head8 == 20..27
Low4  == 4..7

\* on: which of those bits are set; rn, rd, rs: bits 19-16, 15-12, 11-8.
Word == [on : SUBSET (Head8 \cup Low4), rn : {"ones", "other"}, rd : {"ones", "other"},
         rs : {"zero", "ones", "other"}]

VARIABLES word,   \* the instruction being decoded
          asked,  \* how many factories have turned it down
          opcode  \* what it became, "none" so far, or "unknown": a decodeError

askVars == <<word, asked, opcode>>

AskInit == word \in Word /\ asked = 0 /\ opcode = "none"
-------------------------------------------------------------------------------
\* (code & mask) == value, for a mask and a value of the bits of `on`.
Masked(w, mask, value) == w.on \cap mask = value

Class == {25, 26, 27}

IsBxMagic(w) == /\ Masked(w, Head8 \cup Low4, {24, 21, 4})
                /\ w.rn = "ones" /\ w.rd = "ones" /\ w.rs = "ones"

\* Without the test for bx, whose word is also that of a msr.
IsDataProcessingOrBx(w) == \/ Masked(w, Class, {25})
                           \/ Masked(w, Class, {}) /\ ~Masked(w, {7, 4}, {7, 4})

IsDataProcessingPsrTransfer(w) ==
  /\ ~IsBxMagic(w)
  /\ \/ Masked(w, Class, {25})
     \/ Masked(w, Class, {}) /\ ~Masked(w, {7, 4}, {7, 4})

IsSingleDataSwap(w) == Masked(w, (Head8 \ {22}) \cup Low4, {24, 7, 4}) /\ w.rs = "zero"

IsDoublewordDataTransfer(w) == \/ Masked(w, Class \cup {20} \cup Low4, {7, 6, 4})
                               \/ Masked(w, Class \cup {20} \cup Low4, Low4)

IsMultiply(w) == Masked(w, (22..27) \cup Low4, {7, 4})

IsMultiplyLong(w) == Masked(w, (23..27) \cup Low4, {23, 7, 4})

\* Without leaving the multiplications to their own factories.
CanBeHalfwordOrMultiply(w) == ~(IsSingleDataSwap(w) \/ IsDoublewordDataTransfer(w))

CanBeHalfwordDataTransfer(w) ==
  ~(\/ IsSingleDataSwap(w) \/ IsDoublewordDataTransfer(w)
    \/ IsMultiply(w) \/ IsMultiplyLong(w))

IsHalfwordDataTransfer(w) ==
  /\ CanBeHalfwordDataTransfer(w)
  /\ \/ Masked(w, Class \cup {22, 7, 4}, {7, 4}) /\ w.rs = "zero"
     \/ Masked(w, Class \cup {22, 7, 4}, {22, 7, 4})

IsSingleDataTransfer(w) == /\ ~Masked(w, Class \cup {4}, {25, 26, 4})
                           /\ Masked(w, {26, 27}, {26})

\* mcrr and mrrc, though bit 25 is not looked at.
IsTwoRegisterTransfer(w) == Masked(w, {27, 26, 24, 22, 21}, {27, 26, 22})

IsCoprocessorDataTransfer(w) ==
  Masked(w, Class, {27, 26}) /\ ~IsTwoRegisterTransfer(w)

IsCoprocessorDataOperation(w) == Masked(w, (24..27) \cup {4}, Class)

IsCoprocessorRegisterTransfer(w) ==
  Masked(w, (24..27) \cup {4}, Class \cup {4}) \/ IsTwoRegisterTransfer(w)

IsByteReverse(w) ==
  /\ w.rn = "ones" /\ w.rs = "ones"
  /\ w.on \in {{26, 25, 23, 21, 20, 5, 4}, {26, 25, 23, 21, 20, 7, 5, 4},
               {26, 25, 23, 22, 21, 20, 7, 5, 4}}

\* factories[], in the order in which the decoder asks them.
Factory == <<"DataProcessingPsrTransfer", "Multiply", "MultiplyLong", "SingleDataSwap",
             "BranchAndExchange", "HalfwordDataTransfer", "DoublewordDataTransfer",
             "SingleDataTransfer", "BlockDataTransfer", "Branch",
             "CoprocessorDataTransfer", "CoprocessorDataOperation",
             "CoprocessorRegisterTransfer", "SoftwareInterrupt", "ByteReverse">>

Takes(f, w) ==
  CASE f = "DataProcessingPsrTransfer"   -> IsDataProcessingPsrTransfer(w)
    [] f = "Multiply"                    -> IsMultiply(w)
    [] f = "MultiplyLong"                -> IsMultiplyLong(w)
    [] f = "SingleDataSwap"              -> IsSingleDataSwap(w)
    [] f = "BranchAndExchange"           -> IsBxMagic(w)
    [] f = "HalfwordDataTransfer"        -> IsHalfwordDataTransfer(w)
    [] f = "DoublewordDataTransfer"      -> IsDoublewordDataTransfer(w)
    [] f = "SingleDataTransfer"          -> IsSingleDataTransfer(w)
    [] f = "BlockDataTransfer"           -> Masked(w, Class, {27})
    [] f = "Branch"                      -> Masked(w, Class, {27, 25})
    [] f = "CoprocessorDataTransfer"     -> IsCoprocessorDataTransfer(w)
    [] f = "CoprocessorDataOperation"    -> IsCoprocessorDataOperation(w)
    [] f = "CoprocessorRegisterTransfer" -> IsCoprocessorRegisterTransfer(w)
    [] f = "SoftwareInterrupt"           -> Masked(w, 24..27, 24..27)
    [] f = "ByteReverse"                 -> IsByteReverse(w)

\* The operations of bits 24-21, with the condition bit 20 for those in the middle.
Operations == <<"And", "Eor", "Sub", "Rsb", "Add", "Adc", "Sbc", "Rsc",
                "Tst", "Teq", "Cmp", "Cmn", "Orr", "Mov", "Bic", "Mvn">>

PsrTransfers == <<"Mrs", "Msr", "Mrs", "Msr">>

BitValue(w, i, v) == IF i \in w.on THEN v ELSE 0

OperationCode(w) ==
  BitValue(w, 24, 8) + BitValue(w, 23, 4) + BitValue(w, 22, 2) + BitValue(w, 21, 1)

\* decodeDataProcessingPsrTransfer
Operation(w) ==
  LET n == OperationCode(w)
  IN  IF n \in 8..11 /\ 20 \notin w.on THEN PsrTransfers[n - 7] ELSE Operations[n + 1]

Made(f, w) == IF f = "DataProcessingPsrTransfer" THEN Operation(w) ELSE f

\* One turn of the loop over the factories.
Ask == /\ opcode = "none" /\ asked < Len(Factory)
       /\ LET f == Factory[asked + 1]
          IN  IF Takes(f, word)
              THEN opcode' = Made(f, word) /\ UNCHANGED asked
              ELSE asked' = asked + 1 /\ UNCHANGED opcode
       /\ UNCHANGED word

GiveUp == /\ opcode = "none" /\ asked = Len(Factory)
          /\ opcode' = "unknown"
          /\ UNCHANGED <<word, asked>>

AskNext == Ask \/ GiveUp

AskSpec == AskInit /\ [][AskNext]_askVars
-------------------------------------------------------------------------------
(* No two factories take the same word, so that it does not matter in what *)
(* order they are asked: those before the one that took it have turned it  *)
(* down, and those after it would.  But the two for coprocessor            *)
(* instructions, neither of which does anything, both take the cdp words   *)
(* that look like mcrr.                                                    *)
OneTakes ==
  opcode # "none" =>
    \A i \in asked + 2..Len(Factory) :
      Takes(Factory[i], word) => /\ Factory[i] = "CoprocessorRegisterTransfer"
                                 /\ opcode = "CoprocessorDataOperation"
-------------------------------------------------------------------------------
\* The instruction set as a tree of formats, one field after another.
On(i) == i \in word.on

IsPsr == On(24) /\ ~On(23) /\ ~On(20)

DataFormat == IF word.rn = "ones" /\ word.rd = "ones" /\ word.rs = "ones"
                   /\ word.on = {24, 21, 4}
              THEN "BranchAndExchange"
              ELSE IF IsPsr THEN (IF On(21) THEN "Msr" ELSE "Mrs")
              ELSE Operations[OperationCode(word) + 1]

\* Unallocated words in the space of the multiplications, some of which are
\* taken for a load or store of a byte.
NotMultiply == IF On(22) \/ word.rs = "zero" THEN "HalfwordDataTransfer" ELSE "unknown"

MultiplyFormat ==
  IF ~On(24) THEN IF On(23) THEN "MultiplyLong"
                  ELSE IF On(22) THEN NotMultiply ELSE "Multiply"
  ELSE IF ~On(23) /\ ~On(21) /\ ~On(20) /\ word.rs = "zero" THEN "SingleDataSwap"
  ELSE NotMultiply

ExtraFormat ==
  IF ~On(6) /\ ~On(5) THEN MultiplyFormat
  ELSE IF On(6) /\ ~On(20) THEN "DoublewordDataTransfer"
  ELSE IF On(22) \/ word.rs = "zero" THEN "HalfwordDataTransfer"
  ELSE "unknown"

MediaFormat ==
  IF /\ word.rn = "ones" /\ word.rs = "ones" /\ On(23) /\ ~On(24) /\ On(21) /\ On(20)
     /\ On(5) /\ ~On(6) /\ (On(22) => On(7))
  THEN "ByteReverse" ELSE "unknown"

CoprocessorFormat ==
  IF On(25) THEN IF On(24) THEN "SoftwareInterrupt"
                 ELSE IF On(4) THEN "CoprocessorRegisterTransfer"
                 ELSE "CoprocessorDataOperation"
  ELSE IF ~On(24) /\ On(22) /\ ~On(21) THEN "CoprocessorRegisterTransfer"
  ELSE "CoprocessorDataTransfer"

Format ==
  IF On(27)
  THEN IF On(26) THEN CoprocessorFormat ELSE IF On(25) THEN "Branch" ELSE "BlockDataTransfer"
  ELSE IF On(26)
  THEN IF On(25) /\ On(4) THEN MediaFormat ELSE "SingleDataTransfer"
  ELSE IF ~On(25) /\ On(7) /\ On(4) THEN ExtraFormat ELSE DataFormat

(* The flat masks of the factories, in whatever order they are asked, come *)
(* to the instruction set's tree of formats: every word becomes what its   *)
(* fields say, and an error where they say nothing.  The exceptions are in *)
(* the tree: words that the architecture leaves unallocated in the space   *)
(* of multiplications become byte transfers, and those in the space of the *)
(* compare instructions without S (clz, blx, bkpt) become mrs or msr.      *)
DecodesToFormat == opcode # "none" => opcode = Format
===============================================================================
