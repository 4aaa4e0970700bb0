----------------------------- MODULE MCTransfers -----------------------------
(***************************************************************************)
(* Transfers for TLC: bytes of two bits, so that registers and addresses   *)
(* have eight, and instructions on r0 to r2, r13, lr and pc.  The base of  *)
(* r13 is in the middle or near either end of the address space.           *)
(***************************************************************************)
EXTENDS Transfers

SP == 13

Imm(n) == [by |-> "immediate", n |-> n]
ByReg(r, type, amount) == [by |-> "register", rm |-> r, type |-> type, amount |-> amount]

MCBases ==
  {[r \in Reg \ {PC} |-> CASE r = SP -> sp [] r = 0 -> 27 [] r = 1 -> 134 [] r = 2 -> 225
                           [] r = LR -> 20 [] OTHER -> 0] : sp \in {0, 3, 64, 252}}

Singles ==
  {[kind |-> "single", load |-> load, byte |-> byte, up |-> up, pre |-> up, wb |-> ~up,
    rn |-> SP, rd |-> rd, offset |-> Imm(4)] :
     load \in BOOLEAN, byte \in {FALSE}, up \in BOOLEAN, rd \in {0}}
  \cup {[kind |-> "single", load |-> TRUE, byte |-> TRUE, up |-> TRUE, pre |-> TRUE, wb |-> TRUE,
         rn |-> SP, rd |-> SP, offset |-> ByReg(1, "asr", 4)],
        [kind |-> "single", load |-> FALSE, byte |-> FALSE, up |-> FALSE, pre |-> FALSE,
         wb |-> FALSE, rn |-> PC, rd |-> 0, offset |-> Imm(4)]}

Halfwords ==
  {[kind |-> "halfword", load |-> load, half |-> TRUE, signed |-> TRUE, up |-> FALSE,
    pre |-> TRUE, wb |-> TRUE, rn |-> SP, rd |-> 1, offset |-> Imm(n)] :
     load \in BOOLEAN, n \in {1, 2}}
  \cup {[kind |-> "halfword", load |-> TRUE, half |-> FALSE, signed |-> TRUE, up |-> TRUE,
         pre |-> FALSE, wb |-> FALSE, rn |-> SP, rd |-> 1,
         offset |-> ByReg(2, "lsl", 0)]}

Doublewords ==
  {[kind |-> "doubleword", load |-> load, up |-> TRUE, pre |-> load, wb |-> load, rn |-> SP,
    rd |-> 0, offset |-> Imm(8)] : load \in BOOLEAN}
  \cup {[kind |-> "doubleword", load |-> TRUE, up |-> TRUE, pre |-> TRUE, wb |-> FALSE,
         rn |-> SP, rd |-> rd, offset |-> Imm(0)] : rd \in {1, LR}}

BlockOf(load, up, pre, wb, list) ==
  [kind |-> "block", load |-> load, up |-> up, pre |-> pre, wb |-> wb, rn |-> SP, list |-> list]

BlockTransfers ==
  {BlockOf(FALSE, up, pre, TRUE, {0, 1}) : up, pre \in BOOLEAN}
  \cup {BlockOf(TRUE, up, pre, TRUE, {0, 1}) : up, pre \in BOOLEAN}
  \cup {BlockOf(FALSE, FALSE, TRUE, TRUE, {1, SP, LR}),
        BlockOf(TRUE, TRUE, FALSE, TRUE, {1, SP, PC}),
        BlockOf(TRUE, FALSE, TRUE, FALSE, {2}),
        [BlockOf(TRUE, TRUE, TRUE, FALSE, {2}) EXCEPT !.rn = PC]}

Others ==
  {[kind |-> "swap", byte |-> FALSE, rn |-> SP, rd |-> 0, rm |-> 1],
   [kind |-> "swap", byte |-> TRUE, rn |-> SP, rd |-> 1, rm |-> 1],
   [kind |-> "swap", byte |-> TRUE, rn |-> SP, rd |-> 1, rm |-> PC],
   [kind |-> "reverse", half |-> FALSE, signed |-> FALSE, rd |-> 0, rm |-> 1],
   [kind |-> "reverse", half |-> TRUE, signed |-> TRUE, rd |-> 0, rm |-> 1],
   [kind |-> "reverse", half |-> TRUE, signed |-> FALSE, rd |-> 0, rm |-> 2],
   [kind |-> "reverse", half |-> FALSE, signed |-> TRUE, rd |-> 0, rm |-> 2],
   [kind |-> "bx", rm |-> LR],
   [kind |-> "bx", rm |-> 1],
   [kind |-> "branch", link |-> TRUE, n |-> 12]}

MCInstructions == Singles \cup Halfwords \cup Doublewords \cup BlockTransfers \cup Others
===============================================================================
