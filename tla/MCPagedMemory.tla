----------------------------- MODULE MCPagedMemory -----------------------------
(***************************************************************************)
(* PagedMemory on three pages of three bytes that fill the addresses, the  *)
(* memory one byte short of them, as the code's is, with words and chunks  *)
(* that lie on one page, on two, or run over the end into the first one.   *)
(***************************************************************************)
EXTENDS PagedMemory

MCSpan == 9
\* The middle of the first two pages is reached by words and chunks.
MCAddr == (0..MCSpan - 1) \ {1, 4}
MCChunks == {<<1, 0, 1, 1, 0>>}
MCLengths == {1, 5}
===============================================================================
