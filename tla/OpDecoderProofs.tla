--------------------------- MODULE OpDecoderProofs ---------------------------
(***************************************************************************)
(* The decoder's invariants, for all sets of pages, offsets and words; and *)
(* what its factories take, for all words.                                 *)
(***************************************************************************)
EXTENDS OpDecoder, Factories, TLAPS

\* Nothing is cached that did not pass its validation once.
DecodedAreValid == decodedOps \subseteq Valid \cup Flaky

(* ResultIsFresh is not inductive by itself: what a page returns is right  *)
(* because its pointers are to cached Opcodes, and those were validated.   *)
IInv == /\ TypeOK
        /\ ResultIsFresh
        /\ StableDecode
        /\ NoDangling
        /\ PageZeroSaves
        /\ DecodedAreValid

(* Entering a page adds at most that page, and it is null.                 *)
LEMMA PagesWithType ==
  ASSUME TypeOK, NoDangling, NEW page \in Pages
  PROVE  /\ DOMAIN PagesWith(page) \subseteq Pages
         /\ DOMAIN opPages \subseteq DOMAIN PagesWith(page)
         /\ PagesWith(page) \in [DOMAIN PagesWith(page) -> OpPage]
         /\ \A p \in DOMAIN PagesWith(page), o \in Offsets :
              PagesWith(page)[p][o] \in decodedOps \cup {NullOp}
         /\ \A p \in DOMAIN opPages : PagesWith(page)[p] = opPages[p]
<1>1. EmptyPage \in OpPage /\ \A o \in Offsets : EmptyPage[o] = NullOp
  BY DEF EmptyPage, OpPage
<1>2. CASE OnCurrentPage(page) \/ Known(page)
  <2>1. PagesWith(page) = opPages
    BY <1>2 DEF PagesWith
  <2>. QED BY <2>1 DEF TypeOK, NoDangling
<1>3. CASE ~(OnCurrentPage(page) \/ Known(page))
  <2>1. /\ DOMAIN PagesWith(page) = DOMAIN opPages \cup {page}
        /\ \A p \in DOMAIN opPages \cup {page} :
             PagesWith(page)[p] = IF p = page THEN EmptyPage ELSE opPages[p]
    BY <1>3 DEF PagesWith
  <2>2. PagesWith(page) \in [DOMAIN PagesWith(page) -> OpPage]
    <3>1. \A p \in DOMAIN opPages \cup {page} : PagesWith(page)[p] \in OpPage
      BY <1>1, <2>1 DEF TypeOK
    <3>. QED BY <1>3, <2>1, <3>1 DEF PagesWith
  <2>3. page \notin DOMAIN opPages
    BY <1>3 DEF Known
  <2>. QED BY <1>1, <2>1, <2>2, <2>3 DEF TypeOK, NoDangling
<1>. QED BY <1>2, <1>3

(* The page that decode() turns to is one of the decoder's, or wild; and a *)
(* page that it searches was there before.                                 *)
LEMMA PageForType ==
  ASSUME DecoderAssumption, TypeOK, currentPage # WildPage, NEW page \in Pages
  PROVE  /\ PageFor(page) \in DOMAIN PagesWith(page) \cup {WildPage}
         /\ OnCurrentPage(page) \/ Known(page) => PageFor(page) \in DOMAIN opPages
         /\ PageFor(page) = WildPage => 0 \notin DOMAIN PagesWith(page)
<1>1. page # WildPage
  BY DEF DecoderAssumption, WildPage
<1>2. CASE OnCurrentPage(page)
  BY <1>2 DEF PageFor, PagesWith, OnCurrentPage, TypeOK
<1>3. CASE ~OnCurrentPage(page) /\ Known(page)
  BY <1>1, <1>3 DEF PageFor, PagesWith, Known
<1>4. CASE ~OnCurrentPage(page) /\ ~Known(page)
  <2>1. PageFor(page) = Created(page)
    BY <1>4 DEF PageFor
  <2>2. WildPage # 0
    BY DEF WildPage
  <2>. QED BY <1>4, <2>1, <2>2 DEF Created
<1>. QED BY <1>2, <1>3, <1>4

(* Saving a word that is cached keeps the pages well formed.               *)
LEMMA SaveKeepsPages ==
  ASSUME DecoderAssumption, TypeOK, NoDangling,
         NEW page \in Pages, NEW offset \in Offsets, NEW code \in Codes,
         Enter(page), Save(page, offset, code),
         decodedOps \subseteq decodedOps', code \in decodedOps', decodedOps' \subseteq Codes
  PROVE  /\ DOMAIN opPages' \subseteq Pages
         /\ opPages' \in [DOMAIN opPages' -> OpPage]
         /\ currentPageAddress' \in Pages
         /\ currentPage' \in DOMAIN opPages'
         /\ NoDangling'
<1>. DEFINE P == PagesWith(page)
            t == PageFor(page)
<1>1. /\ DOMAIN P \subseteq Pages
      /\ P \in [DOMAIN P -> OpPage]
      /\ \A p \in DOMAIN P, o \in Offsets : P[p][o] \in decodedOps \cup {NullOp}
  BY PagesWithType
<1>2. t \in DOMAIN P
  BY PageForType DEF Enter
<1>3. opPages' = [P EXCEPT ![t] = [P[t] EXCEPT ![offset] = code]]
  BY DEF Save
<1>4. P[t] \in OpPage
  BY <1>1, <1>2
<1>5. /\ [P[t] EXCEPT ![offset] = code] \in OpPage
      /\ \A o \in Offsets : [P[t] EXCEPT ![offset] = code][o] \in decodedOps' \cup {NullOp}
  BY <1>1, <1>2, <1>4 DEF OpPage
<1>. HIDE DEF P, t
<1>6. DOMAIN opPages' = DOMAIN P /\ opPages' \in [DOMAIN P -> OpPage]
  BY <1>1, <1>2, <1>3, <1>5
<1>7. \A p \in DOMAIN P, o \in Offsets : opPages'[p][o] \in decodedOps' \cup {NullOp}
  <2>. SUFFICES ASSUME NEW p \in DOMAIN P, NEW o \in Offsets
                PROVE  opPages'[p][o] \in decodedOps' \cup {NullOp}
    OBVIOUS
  <2>1. CASE p = t
    BY <1>1, <1>2, <1>3, <1>5, <2>1
  <2>2. CASE p # t
    BY <1>1, <1>3, <2>2
  <2>. QED BY <2>1, <2>2
<1>8. currentPage' = t /\ currentPageAddress' = page
  BY DEF Enter, t
<1>. QED BY <1>1, <1>2, <1>6, <1>7, <1>8 DEF NoDangling

(* The invariant holds at first, and again after an assignment.            *)
LEMMA EmptyDecoder ==
  ASSUME DecoderAssumption, Init
  PROVE  IInv
<1>1. DOMAIN opPages = {} /\ opPages \in [DOMAIN opPages -> OpPage]
  BY DEF Init
<1>2. TypeOK
  BY <1>1 DEF Init, TypeOK, Outcomes, DecoderAssumption
<1>3. last.code = Nothing /\ last.code \notin decodedOps
  BY DEF Init
<1>4. ResultIsFresh /\ StableDecode
  BY <1>3 DEF ResultIsFresh, StableDecode
<1>5. NoDangling /\ PageZeroSaves
  BY <1>1 DEF NoDangling, PageZeroSaves
<1>. QED BY <1>2, <1>4, <1>5 DEF Init, IInv, DecodedAreValid

(* A decode that ends with the word's own Opcode.                          *)
LEMMA GoodResult ==
  ASSUME DecoderAssumption, NEW code \in Codes, Returns(code, code),
         code \in Valid \cup Flaky
  PROVE  /\ last' \in [code : Codes \cup {Nothing}, outcome : Outcomes]
         /\ ResultIsFresh'
         /\ StableDecode'
<1>1. last' = [code |-> code, outcome |-> code]
  BY DEF Returns
<1>2. code \in Fresh(code)
  BY DEF Fresh, DecoderAssumption, Codes
<1>3. last'.code = code /\ last'.outcome = code
  BY <1>1
<1>. QED BY <1>1, <1>2, <1>3 DEF ResultIsFresh, StableDecode, Outcomes

(* A decode that throws what is this word's to throw, and is not cached.   *)
LEMMA BadResult ==
  ASSUME DecoderAssumption, NEW code \in Codes, NEW error \in Errors,
         Returns(code, error), error \in Fresh(code), code \notin decodedOps'
  PROVE  /\ last' \in [code : Codes \cup {Nothing}, outcome : Outcomes]
         /\ ResultIsFresh'
         /\ StableDecode'
<1>1. last' = [code |-> code, outcome |-> error]
  BY DEF Returns
<1>2. last'.code = code /\ last'.outcome = error
  BY <1>1
<1>. QED BY <1>1, <1>2 DEF ResultIsFresh, StableDecode, Outcomes

(* A decode that fails leaves the page that it entered, and nothing else.  *)
LEMMA FailKeepsPages ==
  ASSUME DecoderAssumption, TypeOK, NoDangling, NEW page \in Pages, Enter(page),
         opPages' = PagesWith(page), decodedOps' = decodedOps
  PROVE  /\ DOMAIN opPages' \subseteq Pages
         /\ opPages' \in [DOMAIN opPages' -> OpPage]
         /\ currentPageAddress' \in Pages
         /\ currentPage' \in DOMAIN opPages'
         /\ NoDangling'
<1>1. PageFor(page) \in DOMAIN PagesWith(page)
  BY PageForType DEF Enter
<1>. QED BY <1>1, PagesWithType DEF Enter, NoDangling

(* Every outcome of a decode preserves the invariant.                      *)
LEMMA DecodeKeepsInv ==
  ASSUME DecoderAssumption, IInv,
         NEW page \in Pages, NEW offset \in Offsets, NEW code \in Codes,
         Decode(page, offset, code)
  PROVE  IInv'
<1>. USE DEF IInv
<1>0. ASSUME currentPage' \in DOMAIN opPages', DOMAIN opPages' \subseteq Pages
      PROVE  PageZeroSaves'
  BY <1>0 DEF PageZeroSaves, WildPage, DecoderAssumption
<1>1. CASE DecodeFromPage(page, offset, code)
  <2>1. /\ PageFor(page) \in DOMAIN opPages
        /\ PagesWith(page) = opPages
    BY <1>1, PageForType DEF DecodeFromPage, OnPage, Enter, PagesWith
  <2>2. opPages[PageFor(page)][offset] = code
    BY <1>1, <2>1 DEF DecodeFromPage, OnPage, Find
  <2>3. code \in decodedOps
    BY <2>1, <2>2 DEF NoDangling, DecoderAssumption
  <2>4. Returns(code, code)
    BY <1>1, <2>1, <2>2 DEF DecodeFromPage
  <2>5. /\ last' \in [code : Codes \cup {Nothing}, outcome : Outcomes]
        /\ ResultIsFresh'
        /\ StableDecode'
    BY <2>3, <2>4, GoodResult DEF DecodedAreValid
  <2>6. /\ opPages' = opPages
        /\ decodedOps' = decodedOps
        /\ currentPageAddress' = page
        /\ currentPage' = PageFor(page)
    BY <1>1 DEF DecodeFromPage, Enter
  <2>7. TypeOK'
    BY <2>1, <2>5, <2>6 DEF TypeOK
  <2>8. NoDangling' /\ PageZeroSaves' /\ DecodedAreValid'
    BY <1>0, <2>1, <2>6, <2>7 DEF NoDangling, DecodedAreValid, TypeOK
  <2>. QED BY <2>5, <2>7, <2>8
<1>2. ASSUME Enter(page), Save(page, offset, code), Returns(code, code),
             decodedOps' = decodedOps \cup {code}, code \in Valid \cup Flaky
      PROVE  IInv'
  <2>1. /\ last' \in [code : Codes \cup {Nothing}, outcome : Outcomes]
        /\ ResultIsFresh'
        /\ StableDecode'
    BY <1>2, GoodResult
  <2>2. /\ DOMAIN opPages' \subseteq Pages
        /\ opPages' \in [DOMAIN opPages' -> OpPage]
        /\ currentPageAddress' \in Pages
        /\ currentPage' \in DOMAIN opPages'
        /\ NoDangling'
    <3>1. /\ decodedOps \subseteq decodedOps'
          /\ code \in decodedOps'
          /\ decodedOps' \subseteq Codes
      BY <1>2 DEF TypeOK
    <3>. QED BY <1>2, <3>1, SaveKeepsPages
  <2>3. TypeOK'
    BY <1>2, <2>1, <2>2 DEF TypeOK
  <2>4. PageZeroSaves' /\ DecodedAreValid'
    BY <1>0, <1>2, <2>2 DEF DecodedAreValid
  <2>. QED BY <2>1, <2>2, <2>3, <2>4
<1>3. CASE DecodeFromCache(page, offset, code)
  <2>1. decodedOps' = decodedOps \cup {code} /\ code \in Valid \cup Flaky
    BY <1>3 DEF DecodeFromCache, DecodedAreValid
  <2>. QED BY <1>2, <1>3, <2>1 DEF DecodeFromCache
<1>4. CASE DecodeNew(page, offset, code)
  BY <1>2, <1>4 DEF DecodeNew, Cache
<1>5. ASSUME Enter(page), opPages' = PagesWith(page), decodedOps' = decodedOps,
             NEW error \in Errors, Returns(code, error), error \in Fresh(code),
             code \notin decodedOps
      PROVE  IInv'
  <2>1. /\ last' \in [code : Codes \cup {Nothing}, outcome : Outcomes]
        /\ ResultIsFresh'
        /\ StableDecode'
    BY <1>5, BadResult
  <2>2. /\ DOMAIN opPages' \subseteq Pages
        /\ opPages' \in [DOMAIN opPages' -> OpPage]
        /\ currentPageAddress' \in Pages
        /\ currentPage' \in DOMAIN opPages'
        /\ NoDangling'
    BY <1>5, FailKeepsPages
  <2>3. TypeOK'
    BY <1>5, <2>1, <2>2 DEF TypeOK
  <2>4. PageZeroSaves' /\ DecodedAreValid'
    BY <1>0, <1>5, <2>2 DEF DecodedAreValid
  <2>. QED BY <2>1, <2>2, <2>3, <2>4
<1>6. CASE DecodeIllegal(page, offset, code)
  <2>1. IllegalOpcodeError \in Fresh(code) /\ IllegalOpcodeError \in Errors
    BY <1>6 DEF DecodeIllegal, Fresh, Errors, DecoderAssumption
  <2>. QED BY <1>5, <1>6, <2>1 DEF DecodeIllegal, Fails
<1>7. CASE DecodeUnknown(page, offset, code)
  <2>1. OpDecodeError \in Fresh(code) /\ OpDecodeError \in Errors
    BY <1>7 DEF DecodeUnknown, Fresh, Errors, DecoderAssumption
  <2>. QED BY <1>5, <1>7, <2>1 DEF DecodeUnknown
<1>8. CASE DecodeWild(page, code)
  <2>1. /\ opPages' = PagesWith(page)
        /\ decodedOps' = decodedOps
        /\ currentPageAddress' = page
        /\ currentPage' = WildPage
        /\ last' = [code |-> code, outcome |-> Undefined]
    BY <1>8 DEF DecodeWild, Returns
  <2>2. last'.code = code /\ last'.outcome = Undefined
    BY <2>1
  <2>3. TypeOK' /\ NoDangling'
    BY <2>1, PagesWithType DEF TypeOK, NoDangling, Outcomes
  <2>4. 0 \notin DOMAIN PagesWith(page)
    BY <1>8, PageForType DEF DecodeWild
  <2>5. PageZeroSaves' /\ DecodedAreValid'
    BY <2>1, <2>4 DEF PageZeroSaves, DecodedAreValid
  <2>6. ResultIsFresh' /\ StableDecode'
    BY <2>2 DEF ResultIsFresh, StableDecode
  <2>. QED BY <2>3, <2>5, <2>6
<1>. QED BY <1>1, <1>3, <1>4, <1>6, <1>7, <1>8 DEF Decode

(* Every step preserves the invariant.                                     *)
THEOREM Inductive == IInv /\ [Next]_vars => IInv'
<1>. SUFFICES ASSUME IInv, [Next]_vars PROVE IInv'
  OBVIOUS
<1>1. CASE Assign
  <2>1. Init'
    BY <1>1 DEF Assign, Init
  <2>. QED BY <2>1, EmptyDecoder, DecoderAssumption, PTL
<1>2. CASE UNCHANGED vars
  BY <1>2 DEF vars, IInv, TypeOK, ResultIsFresh, StableDecode, NoDangling,
       PageZeroSaves, DecodedAreValid
<1>3. ASSUME NEW page \in Pages, NEW offset \in Offsets, NEW code \in Codes,
             Decode(page, offset, code)
      PROVE  IInv'
  BY <1>3, DecodeKeepsInv, DecoderAssumption
<1>. QED BY <1>1, <1>2, <1>3 DEF Next

(* The invariant holds of every reachable state.                           *)
THEOREM Invariant == Spec => []IInv
<1>1. Init => IInv
  BY EmptyDecoder, DecoderAssumption
<1>. QED BY <1>1, Inductive, PTL DEF Spec

(* The decoder's type correctness.                                         *)
THEOREM TypeCorrect == Spec => []TypeOK
<1>1. IInv => TypeOK
  BY DEF IInv
<1>. QED BY <1>1, Invariant, PTL

(* decode() with its caches gives what a decoder without them may give,    *)
(* for every history of decoded words and addresses.                       *)
THEOREM CachesInvisible == Spec => []ResultIsFresh
<1>1. IInv => ResultIsFresh
  BY DEF IInv
<1>. QED BY <1>1, Invariant, PTL

(* A word that has decoded once decodes ever after.                        *)
THEOREM DecodesForever == Spec => []StableDecode
<1>1. IInv => StableDecode
  BY DEF IInv
<1>. QED BY <1>1, Invariant, PTL

(* No page has a pointer to an Opcode that the decoder does not own.       *)
THEOREM PointersOwned == Spec => []NoDangling
<1>1. IInv => NoDangling
  BY DEF IInv
<1>. QED BY <1>1, Invariant, PTL

(* A decoder that has made page 0 never follows a wild pointer.            *)
THEOREM NeverWildWithPageZero == Spec => []PageZeroSaves
<1>1. IInv => PageZeroSaves
  BY DEF IInv
<1>. QED BY <1>1, Invariant, PTL
-------------------------------------------------------------------------------
\* What a factory takes, bit by bit.
DataBits == ~On(27) /\ ~On(26) /\ (On(25) \/ ~(On(7) /\ On(4)))

BxBits == word.on = {24, 21, 4} /\ word.rn = "ones" /\ word.rd = "ones" /\ word.rs = "ones"

MultiplyBits == ~On(27) /\ ~On(26) /\ ~On(25) /\ On(7) /\ ~On(6) /\ ~On(5) /\ On(4) /\ ~On(24)

SwapBits == /\ ~On(27) /\ ~On(26) /\ ~On(25) /\ On(24) /\ ~On(23) /\ ~On(21) /\ ~On(20)
            /\ On(7) /\ ~On(6) /\ ~On(5) /\ On(4) /\ word.rs = "zero"

DoublewordBits == ~On(27) /\ ~On(26) /\ ~On(25) /\ ~On(20) /\ On(7) /\ On(6) /\ On(4)

HalfwordBits ==
  /\ ~On(27) /\ ~On(26) /\ ~On(25) /\ On(7) /\ On(4) /\ (On(22) \/ word.rs = "zero")
  /\ ~SwapBits /\ ~DoublewordBits /\ ~(MultiplyBits /\ (On(23) \/ ~On(22)))

ByteReverseBits ==
  /\ ~On(27) /\ On(26) /\ On(25) /\ ~On(24) /\ On(23) /\ (On(22) => On(7)) /\ On(21) /\ On(20)
  /\ ~On(6) /\ On(5) /\ On(4) /\ word.rn = "ones" /\ word.rs = "ones"

TwoRegisterBits == On(27) /\ On(26) /\ ~On(24) /\ On(22) /\ ~On(21)

(* The mask of each factory, bit by bit: data processing.                  *)
LEMMA TakesPsr ==
  ASSUME word \in Word
  PROVE  Takes("DataProcessingPsrTransfer", word) <=> DataBits /\ ~BxBits
<1>1. IsBxMagic(word) <=> BxBits
  BY DEF IsBxMagic, BxBits, Masked, Word
<1>2. Masked(word, Class, {25}) <=> ~On(27) /\ ~On(26) /\ On(25)
  BY DEF Masked, Class, On
<1>3. Masked(word, Class, {}) <=> ~On(27) /\ ~On(26) /\ ~On(25)
  BY DEF Masked, Class, On
<1>4. Masked(word, {7, 4}, {7, 4}) <=> On(7) /\ On(4)
  BY DEF Masked, On
<1>. QED BY <1>1, <1>2, <1>3, <1>4 DEF Takes, IsDataProcessingPsrTransfer, DataBits

(* Multiplications.                                                        *)
LEMMA TakesMultiply ==
  Takes("Multiply", word) <=> MultiplyBits /\ ~On(23) /\ ~On(22)
BY DEF Takes, IsMultiply, Masked, Low4, On, MultiplyBits

(* Long multiplications.                                                   *)
LEMMA TakesMultiplyLong ==
  Takes("MultiplyLong", word) <=> MultiplyBits /\ On(23)
BY DEF Takes, IsMultiplyLong, Masked, Low4, On, MultiplyBits

(* Swaps.                                                                  *)
LEMMA TakesSwap ==
  Takes("SingleDataSwap", word) <=> SwapBits
BY DEF Takes, IsSingleDataSwap, Masked, Head8, Low4, On, SwapBits

(* Transfers of doublewords, with a mask for each direction.               *)
LEMMA TakesDoubleword ==
  Takes("DoublewordDataTransfer", word) <=> DoublewordBits
BY DEF Takes, IsDoublewordDataTransfer, Masked, Class, Low4, On, DoublewordBits

(* mcrr and mrrc.                                                          *)
LEMMA TakesTwo ==
  IsTwoRegisterTransfer(word) <=> TwoRegisterBits
BY DEF IsTwoRegisterTransfer, Masked, On, TwoRegisterBits

(* The three byte reversals.                                               *)
LEMMA TakesByteReverse ==
  ASSUME word \in Word
  PROVE  Takes("ByteReverse", word) <=> ByteReverseBits
BY DEF Takes, IsByteReverse, On, Word, Head8, Low4, ByteReverseBits

(* The others.                                                             *)
LEMMA TakesRest ==
  ASSUME word \in Word
  PROVE  /\ Takes("BranchAndExchange", word) <=> BxBits
         /\ Takes("HalfwordDataTransfer", word) <=> HalfwordBits
         /\ Takes("SingleDataTransfer", word) <=> ~On(27) /\ On(26) /\ ~(On(25) /\ On(4))
         /\ Takes("BlockDataTransfer", word) <=> On(27) /\ ~On(26) /\ ~On(25)
         /\ Takes("Branch", word) <=> On(27) /\ ~On(26) /\ On(25)
         /\ Takes("CoprocessorDataTransfer", word) <=> On(27) /\ On(26) /\ ~On(25) /\ ~TwoRegisterBits
         /\ Takes("CoprocessorDataOperation", word) <=> On(27) /\ On(26) /\ On(25) /\ ~On(24) /\ ~On(4)
         /\ Takes("CoprocessorRegisterTransfer", word) <=>
              (On(27) /\ On(26) /\ On(25) /\ ~On(24) /\ On(4)) \/ TwoRegisterBits
         /\ Takes("SoftwareInterrupt", word) <=> On(27) /\ On(26) /\ On(25) /\ On(24)
<1>1. Takes("BranchAndExchange", word) <=> BxBits
  BY DEF Takes, IsBxMagic, BxBits, Masked, Word
<1>2. Takes("HalfwordDataTransfer", word) <=> HalfwordBits
  <2>1. /\ IsSingleDataSwap(word) <=> SwapBits
        /\ IsDoublewordDataTransfer(word) <=> DoublewordBits
        /\ IsMultiply(word) <=> MultiplyBits /\ ~On(23) /\ ~On(22)
        /\ IsMultiplyLong(word) <=> MultiplyBits /\ On(23)
    BY TakesSwap, TakesDoubleword, TakesMultiply, TakesMultiplyLong DEF Takes
  <2>2. /\ Masked(word, Class \cup {22, 7, 4}, {7, 4}) <=>
             ~On(27) /\ ~On(26) /\ ~On(25) /\ ~On(22) /\ On(7) /\ On(4)
        /\ Masked(word, Class \cup {22, 7, 4}, {22, 7, 4}) <=>
             ~On(27) /\ ~On(26) /\ ~On(25) /\ On(22) /\ On(7) /\ On(4)
    BY DEF Masked, Class, On
  <2>3. Takes("HalfwordDataTransfer", word) <=> IsHalfwordDataTransfer(word)
    BY DEF Takes
  <2>. QED BY <2>1, <2>2, <2>3 DEF IsHalfwordDataTransfer, CanBeHalfwordDataTransfer, HalfwordBits
<1>3. Takes("SingleDataTransfer", word) <=> ~On(27) /\ On(26) /\ ~(On(25) /\ On(4))
  BY DEF Takes, IsSingleDataTransfer, Masked, Class, On
<1>4. /\ Takes("BlockDataTransfer", word) <=> On(27) /\ ~On(26) /\ ~On(25)
      /\ Takes("Branch", word) <=> On(27) /\ ~On(26) /\ On(25)
      /\ Takes("SoftwareInterrupt", word) <=> On(27) /\ On(26) /\ On(25) /\ On(24)
  BY DEF Takes, Masked, Class, On
<1>5. Takes("CoprocessorDataTransfer", word) <=> On(27) /\ On(26) /\ ~On(25) /\ ~TwoRegisterBits
  BY TakesTwo DEF Takes, IsCoprocessorDataTransfer, Masked, Class, On
<1>6. Takes("CoprocessorDataOperation", word) <=> On(27) /\ On(26) /\ On(25) /\ ~On(24) /\ ~On(4)
  BY DEF Takes, IsCoprocessorDataOperation, Masked, Class, On
<1>7. Takes("CoprocessorRegisterTransfer", word) <=>
        (On(27) /\ On(26) /\ On(25) /\ ~On(24) /\ On(4)) \/ TwoRegisterBits
  BY TakesTwo DEF Takes, IsCoprocessorRegisterTransfer, Masked, Class, On
<1>. QED BY <1>1, <1>2, <1>3, <1>4, <1>5, <1>6, <1>7

\* The factory at that place takes the word.
Taken(i) == Takes(Factory[i], word)

(* All of them by their places.                                            *)
LEMMA TakenMeans ==
  ASSUME word \in Word
  PROVE  /\ Taken(1) <=> DataBits /\ ~BxBits
         /\ Taken(2) <=> MultiplyBits /\ ~On(23) /\ ~On(22)
         /\ Taken(3) <=> MultiplyBits /\ On(23)
         /\ Taken(4) <=> SwapBits
         /\ Taken(5) <=> BxBits
         /\ Taken(6) <=> HalfwordBits
         /\ Taken(7) <=> DoublewordBits
         /\ Taken(8) <=> ~On(27) /\ On(26) /\ ~(On(25) /\ On(4))
         /\ Taken(9) <=> On(27) /\ ~On(26) /\ ~On(25)
         /\ Taken(10) <=> On(27) /\ ~On(26) /\ On(25)
         /\ Taken(11) <=> On(27) /\ On(26) /\ ~On(25) /\ ~TwoRegisterBits
         /\ Taken(12) <=> On(27) /\ On(26) /\ On(25) /\ ~On(24) /\ ~On(4)
         /\ Taken(13) <=> (On(27) /\ On(26) /\ On(25) /\ ~On(24) /\ On(4)) \/ TwoRegisterBits
         /\ Taken(14) <=> On(27) /\ On(26) /\ On(25) /\ On(24)
         /\ Taken(15) <=> ByteReverseBits
BY TakesPsr, TakesMultiply, TakesMultiplyLong, TakesSwap, TakesDoubleword, TakesRest, TakesByteReverse
   DEF Taken, Factory

(* bx is one word, but for its condition and its register.                 *)
LEMMA BxMeans ==
  BxBits => /\ On(24) /\ On(21) /\ On(4)
            /\ ~On(27) /\ ~On(26) /\ ~On(25) /\ ~On(23) /\ ~On(22)
            /\ ~On(20) /\ ~On(7) /\ ~On(6) /\ ~On(5)
BY DEF BxBits, On

(* Two factories take the same word only if they are cdp's and mcr's.      *)
LEMMA OnlyCdpTwice ==
  ASSUME word \in Word, NEW i \in 1..15, NEW j \in i + 1..15, Taken(i), Taken(j)
  PROVE  i = 12 /\ j = 13
BY TakenMeans, BxMeans
   DEF DataBits, MultiplyBits, SwapBits, DoublewordBits, TwoRegisterBits, HalfwordBits,
       ByteReverseBits

(* Data processing has the operation of its format.                        *)
LEMMA FormatOfData ==
  ASSUME word \in Word, Taken(1)
  PROVE  Operation(word) = Format
<1>1. DataBits /\ ~BxBits
  BY TakenMeans
<1>2. Format = DataFormat
  BY <1>1 DEF Format, DataBits
<1>3. DataFormat = IF IsPsr THEN (IF On(21) THEN "Msr" ELSE "Mrs")
                   ELSE Operations[OperationCode(word) + 1]
  BY <1>1 DEF DataFormat, BxBits
<1>4. OperationCode(word) = (IF On(24) THEN 8 ELSE 0) + (IF On(23) THEN 4 ELSE 0)
                              + (IF On(22) THEN 2 ELSE 0) + (IF On(21) THEN 1 ELSE 0)
  BY DEF OperationCode, BitValue, On
<1>5. CASE IsPsr
  <2>1. /\ OperationCode(word) \in 8..11 /\ 20 \notin word.on
        /\ OperationCode(word) \in {9, 11} <=> On(21)
    BY <1>4, <1>5 DEF IsPsr, On
  <2>2. Operation(word) = PsrTransfers[OperationCode(word) - 7]
    BY <2>1 DEF Operation
  <2>3. PsrTransfers[OperationCode(word) - 7] = IF On(21) THEN "Msr" ELSE "Mrs"
    BY <2>1 DEF PsrTransfers
  <2>. QED BY <1>2, <1>3, <1>5, <2>2, <2>3
<1>6. CASE ~IsPsr
  <2>1. ~(OperationCode(word) \in 8..11 /\ 20 \notin word.on)
    BY <1>4, <1>6 DEF IsPsr, On
  <2>2. Operation(word) = Operations[OperationCode(word) + 1]
    BY <2>1 DEF Operation
  <2>. QED BY <1>2, <1>3, <1>6, <2>2
<1>. QED BY <1>5, <1>6

(* The first factory to take a word makes the instruction of its format.   *)
LEMMA FormatOfTaken ==
  ASSUME word \in Word, NEW i \in 1..15, Taken(i), \A j \in 1..i - 1 : ~Taken(j)
  PROVE  Made(Factory[i], word) = Format
<1>1. CASE i = 1
  BY <1>1, FormatOfData DEF Made, Factory
<1>2. CASE i \in 2..15
  <2>1. Made(Factory[i], word) = Factory[i]
    BY <1>2 DEF Made, Factory
  <2>2. i = 13 => ~Taken(12)
    OBVIOUS
  <2>. DEFINE f == Format
  <2>3. f = Factory[i]
    BY <1>2, <2>2, TakenMeans, BxMeans
       DEF Factory, DataBits, MultiplyBits, SwapBits, DoublewordBits, TwoRegisterBits,
           HalfwordBits, ByteReverseBits, Format, CoprocessorFormat,
           MediaFormat, ExtraFormat, MultiplyFormat, NotMultiply, DataFormat, BxBits
  <2>. QED BY <2>1, <2>3
<1>. QED BY <1>1, <1>2

(* A word that none takes has no format.                                   *)
LEMMA FormatOfNone ==
  ASSUME word \in Word, \A i \in 1..15 : ~Taken(i)
  PROVE  Format = "unknown"
<1>1. /\ ~Taken(1) /\ ~Taken(2) /\ ~Taken(3) /\ ~Taken(4) /\ ~Taken(5) /\ ~Taken(6) /\ ~Taken(7)
      /\ ~Taken(8) /\ ~Taken(9) /\ ~Taken(10) /\ ~Taken(11) /\ ~Taken(12) /\ ~Taken(13) /\ ~Taken(14)
      /\ ~Taken(15)
  OBVIOUS
<1>. QED
  BY <1>1, TakenMeans, BxMeans
     DEF DataBits, MultiplyBits, SwapBits, DoublewordBits, TwoRegisterBits,
         HalfwordBits, ByteReverseBits, Format, CoprocessorFormat,
         MediaFormat, ExtraFormat, MultiplyFormat, NotMultiply, DataFormat

(* The factories asked so far have turned the word down, and what came of  *)
(* it is what the one that took it makes of it.                            *)
AskInv ==
  /\ word \in Word
  /\ asked \in 0..15
  /\ \A i \in 1..asked : ~Taken(i)
  /\ \/ opcode = "none"
     \/ opcode = "unknown" /\ asked = 15
     \/ /\ asked < 15 /\ Taken(asked + 1)
        /\ opcode = Made(Factory[asked + 1], word)

(* Every step of the loop keeps the invariant.                             *)
LEMMA AskNextInv == AskInv /\ [AskNext]_askVars => AskInv'
<1>. SUFFICES ASSUME AskInv, [AskNext]_askVars PROVE AskInv'
  OBVIOUS
<1>. Len(Factory) = 15
  BY DEF Factory
<1>1. CASE Ask
  <2>1. /\ word' = word /\ word \in Word /\ opcode = "none" /\ asked \in 0..14
        /\ \A i \in 1..asked : ~Taken(i)
    BY <1>1 DEF Ask, AskInv
  <2>2. \A i : Taken(i)' <=> Taken(i)
    BY <2>1 DEF Taken
  <2>3. CASE Taken(asked + 1)
    <3>1. opcode' = Made(Factory[asked + 1], word) /\ asked' = asked
      BY <1>1, <2>3 DEF Ask, Taken
    <3>. QED BY <2>1, <2>2, <2>3, <3>1 DEF AskInv
  <2>4. CASE ~Taken(asked + 1)
    <3>1. asked' = asked + 1 /\ opcode' = opcode
      BY <1>1, <2>4 DEF Ask, Taken
    <3>. QED BY <2>1, <2>2, <2>4, <3>1 DEF AskInv
  <2>. QED BY <2>3, <2>4
<1>2. CASE GiveUp
  <2>1. \A i : Taken(i)' <=> Taken(i)
    BY <1>2 DEF GiveUp, Taken
  <2>. QED BY <1>2, <2>1 DEF GiveUp, AskInv
<1>3. CASE UNCHANGED askVars
  BY <1>3 DEF askVars, AskInv, Taken
<1>. QED BY <1>1, <1>2, <1>3 DEF AskNext

(* The invariant of every behaviour of the loop.                           *)
LEMMA AskInvariant == AskSpec => []AskInv
<1>1. AskInit => AskInv
  BY DEF AskInit, AskInv
<1>. QED BY <1>1, AskNextInv, PTL DEF AskSpec

(* Of all the factories only one takes a word (armopcode_impl.cpp), but    *)
(* for the two that both take certain coprocessor words, whatever the      *)
(* word; so their order, in opdecoder.hpp, matters for those only.         *)
THEOREM OneFactory == AskSpec => []OneTakes
<1>1. ASSUME AskInv PROVE OneTakes
  <2>. SUFFICES ASSUME opcode # "none", NEW i \in asked + 2..15, Taken(i)
                PROVE  /\ Factory[i] = "CoprocessorRegisterTransfer"
                       /\ opcode = "CoprocessorDataOperation"
    BY DEF OneTakes, Taken, Factory
  <2>1. /\ word \in Word /\ asked \in 0..14 /\ Taken(asked + 1)
        /\ opcode = Made(Factory[asked + 1], word)
    BY <1>1 DEF AskInv
  <2>2. asked + 1 = 12 /\ i = 13
    BY <2>1, OnlyCdpTwice
  <2>. QED BY <2>1, <2>2 DEF Factory, Made
<1>. QED BY <1>1, AskInvariant, PTL

(* Every word becomes the instruction of its format, and an error where it *)
(* has none (OpDecoder::decode over the factories).                        *)
THEOREM DecodesCorrect == AskSpec => []DecodesToFormat
<1>1. ASSUME AskInv PROVE DecodesToFormat
  <2>. SUFFICES ASSUME opcode # "none" PROVE opcode = Format
    BY DEF DecodesToFormat
  <2>1. CASE opcode = "unknown" /\ asked = 15
    BY <1>1, <2>1, FormatOfNone DEF AskInv
  <2>2. CASE asked < 15 /\ Taken(asked + 1) /\ opcode = Made(Factory[asked + 1], word)
    <3>1. /\ word \in Word /\ asked + 1 \in 1..15
          /\ \A j \in 1..(asked + 1) - 1 : ~Taken(j)
      BY <1>1, <2>2 DEF AskInv
    <3>. QED BY <2>2, <3>1, FormatOfTaken
  <2>. QED BY <1>1, <2>1, <2>2 DEF AskInv
<1>. QED BY <1>1, AskInvariant, PTL
===============================================================================
