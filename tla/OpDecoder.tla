------------------------------ MODULE OpDecoder ------------------------------
(***************************************************************************)
(* Arm::OpDecoder (opdecoder.hpp, opdecoder.cpp): instruction words are    *)
(* decoded to Opcode objects, of which the decoder keeps one per word for  *)
(* ever, and a page of pointers to them per 64 KiB of code.                *)
(*                                                                         *)
(* The machine may decode any word at any address: it writes its own code, *)
(* and the address it passes is computed from a pc that the host may have  *)
(* moved since the word was fetched.                                       *)
(*                                                                         *)
(* A pointer to an Opcode is the word it was decoded from: decodedOps has  *)
(* one object per word.  Addresses are pairs of a page and an offset.      *)
(***************************************************************************)
EXTENDS Integers

CONSTANTS Pages,      \* page addresses, from 0, divided by OP_PAGE_SIZE
          Offsets,    \* offsets in a page
          Valid,      \* words that a factory knows and validate() accepts
          Flaky,      \* words of data processing with an immediate operand:
                      \* validate() reads a member that was not initialised
          Illegal,    \* words that a factory knows and validate() rejects
          Unknown     \* words that no factory knows

Codes == Valid \cup Flaky \cup Illegal \cup Unknown

\* What decode() throws, as outcomes.
OpDecodeError == "OpDecodeError"
IllegalOpcodeError == "IllegalOpcodeError"
Errors == {OpDecodeError, IllegalOpcodeError}

Undefined == "undefined behaviour"
Nothing == "nothing yet"

NullOp == "nullptr"
NoPage == -1    \* currentPage == nullptr
WildPage == -2  \* currentPage computed from opPages.end()

ASSUME DecoderAssumption ==
  /\ 0 \in Pages /\ Pages \subseteq Nat
  /\ Offsets # {}
  /\ Valid \cap (Flaky \cup Illegal \cup Unknown) = {}
  /\ Flaky \cap (Illegal \cup Unknown) = {}
  /\ Illegal \cap Unknown = {}
  /\ Codes \cap (Errors \cup {NullOp, Nothing, Undefined}) = {}

VARIABLES opPages,     \* the pages made so far, each a function from Offsets
          decodedOps,  \* the words whose Opcode the decoder owns
          currentPageAddress,
          currentPage, \* the page whose memory the pointer points to
          \* History, for the properties only:
          last         \* the word decoded last and what came of it

vars == <<opPages, decodedOps, currentPageAddress, currentPage, last>>

OpPage == [Offsets -> Codes \cup {NullOp}]

EmptyPage == [o \in Offsets |-> NullOp]

Init == /\ opPages = [p \in {} |-> EmptyPage]
        /\ decodedOps = {}
        /\ currentPageAddress = 0
        /\ currentPage = NoPage
        /\ last = [code |-> Nothing, outcome |-> Nothing]
-------------------------------------------------------------------------------
(* Which page the decoder turns to, for an instruction on `page`.          *)
OnCurrentPage(page) == currentPage # NoPage /\ page = currentPageAddress

Known(page) == page \in DOMAIN opPages

\* opPages once `page` has been entered: createPage, unless it is there.
PagesWith(page) ==
  IF OnCurrentPage(page) \/ Known(page)
  THEN opPages
  ELSE [p \in DOMAIN opPages \cup {page} |->
          IF p = page THEN EmptyPage ELSE opPages[p]]

CreatedOnZero(page) == 0

CreatedFromOldPages(page) == IF 0 \in DOMAIN opPages THEN 0 ELSE WildPage

\* createPage returns find(0), whatever page it made.
Created(page) == IF 0 \in DOMAIN PagesWith(page) THEN 0 ELSE WildPage

PageFor(page) == CASE OnCurrentPage(page) -> currentPage
                   [] ~OnCurrentPage(page) /\ Known(page) -> page
                   [] OTHER -> Created(page)

\* findOpcodeOnCurrentPage, without the check for self-modifying code.
FindAnyCode(page, offset, code) == PagesWith(page)[PageFor(page)][offset] # NullOp

\* findOpcodeOnCurrentPage finds the Opcode of this word.
Find(page, offset, code) == PagesWith(page)[PageFor(page)][offset] = code

\* A page that was just created is not searched; its entries are all null
\* only if it is page 0.
OnPage(page, offset, code) == /\ OnCurrentPage(page) \/ Known(page)
                              /\ Find(page, offset, code)

Enter(page) == /\ currentPage # WildPage
               /\ PageFor(page) # WildPage
               /\ currentPageAddress' = page
               /\ currentPage' = PageFor(page)

\* saveOpcodeOnCurrentPage
Save(page, offset, op) ==
  opPages' = [PagesWith(page) EXCEPT ![PageFor(page)][offset] = op]

Returns(code, outcome) == last' = [code |-> code, outcome |-> outcome]

\* The current page has an Opcode with this word's code.
DecodeFromPage(page, offset, code) ==
  /\ Enter(page)
  /\ OnPage(page, offset, code)
  /\ Returns(code, PagesWith(page)[PageFor(page)][offset])
  /\ UNCHANGED <<opPages, decodedOps>>

DecodeFromCacheRevalidated(page, offset, code) ==
  /\ Enter(page)
  /\ ~OnPage(page, offset, code)
  /\ code \in decodedOps
  /\ Save(page, offset, code)
  /\ \/ Returns(code, code)
     \/ code \in Flaky /\ Returns(code, IllegalOpcodeError)
  /\ UNCHANGED decodedOps

\* The word was decoded before, at another address or before it was overwritten.
DecodeFromCache(page, offset, code) ==
  /\ Enter(page)
  /\ ~OnPage(page, offset, code)
  /\ code \in decodedOps
  /\ Save(page, offset, code)
  /\ Returns(code, code)
  /\ UNCHANGED decodedOps

CacheLess(code) == decodedOps

\* decodedOps after a new Opcode passed its validation.
Cache(code) == decodedOps \cup {code}

DecodeNew(page, offset, code) ==
  /\ Enter(page)
  /\ ~OnPage(page, offset, code)
  /\ code \in (Valid \cup Flaky) \ decodedOps
  /\ decodedOps' = Cache(code)
  /\ Save(page, offset, code)
  /\ Returns(code, code)

\* The Opcode that did not validate is gone with its shared_ptr.
Fails(page, offset, code) == UNCHANGED decodedOps

\* validate() throws before anything is cached; the page has been made.
DecodeIllegal(page, offset, code) ==
  /\ Enter(page)
  /\ ~OnPage(page, offset, code)
  /\ code \in (Illegal \cup Flaky) \ decodedOps
  /\ opPages' = PagesWith(page)
  /\ Fails(page, offset, code)
  /\ Returns(code, IllegalOpcodeError)

DecodeUnknown(page, offset, code) ==
  /\ Enter(page)
  /\ ~OnPage(page, offset, code)
  /\ code \in Unknown \ decodedOps
  /\ opPages' = PagesWith(page)
  /\ UNCHANGED decodedOps
  /\ Returns(code, OpDecodeError)

\* The page is entered, and find(0) is end(): what the decoder reads and writes
\* through that pointer is undefined, and the model follows it no further.
DecodeWild(page, code) ==
  /\ currentPage # WildPage
  /\ PageFor(page) = WildPage
  /\ currentPageAddress' = page
  /\ currentPage' = WildPage
  /\ opPages' = PagesWith(page)
  /\ Returns(code, Undefined)
  /\ UNCHANGED decodedOps

Decode(page, offset, code) == \/ DecodeFromPage(page, offset, code)
                              \/ DecodeFromCache(page, offset, code)
                              \/ DecodeNew(page, offset, code)
                              \/ DecodeIllegal(page, offset, code)
                              \/ DecodeUnknown(page, offset, code)
                              \/ DecodeWild(page, code)

\* A decoder that is assigned from another one starts over: nothing is copied.
Assign == /\ opPages' = [p \in {} |-> EmptyPage]
          /\ decodedOps' = {}
          /\ currentPageAddress' = 0
          /\ currentPage' = NoPage
          /\ last' = [code |-> Nothing, outcome |-> Nothing]

Next == \/ \E page \in Pages, offset \in Offsets, code \in Codes :
             Decode(page, offset, code)
        \/ Assign

Spec == Init /\ [][Next]_vars
-------------------------------------------------------------------------------
Outcomes == Codes \cup Errors \cup {Nothing, Undefined}

TypeOK == /\ DOMAIN opPages \subseteq Pages
          /\ opPages \in [DOMAIN opPages -> OpPage]
          /\ decodedOps \subseteq Codes
          /\ currentPageAddress \in Pages
          /\ currentPage \in DOMAIN opPages \cup {NoPage, WildPage}
          /\ last \in [code : Codes \cup {Nothing}, outcome : Outcomes]

\* What decoding `code` with no cache at all may come to.
Fresh(code) == CASE code \in Valid   -> {code}
                 [] code \in Flaky   -> {code, IllegalOpcodeError}
                 [] code \in Illegal -> {IllegalOpcodeError}
                 [] code \in Unknown -> {OpDecodeError}

(* The two caches are invisible: whatever words were decoded before, at    *)
(* this address or at one that shares its place on page 0, decode() gives  *)
(* what a decoder without caches may give for the word that it was passed. *)
ResultIsFresh == last.code # Nothing =>
                   last.outcome \in {Undefined} \cup Fresh(last.code)

(* A word that has decoded once decodes ever after, at every address: the  *)
(* uninitialised member that validate() reads cannot make a running        *)
(* program's instruction illegal.                                          *)
StableDecode == last.code \in decodedOps => last.outcome \in {last.code, Undefined}

(* Every pointer on a page is to an Opcode that the decoder still owns.    *)
NoDangling == \A p \in DOMAIN opPages, o \in Offsets :
                opPages[p][o] \in decodedOps \cup {NullOp}

(* A decoder that has page 0 never leaves its pages.  The device's program *)
(* begins at 0x8000, which is on page 0.                                   *)
PageZeroSaves == 0 \in DOMAIN opPages => currentPage # WildPage
===============================================================================
