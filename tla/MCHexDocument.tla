---------------------------- MODULE MCHexDocument ----------------------------
(* The hex editor on two bytes of two bits. *)
EXTENDS HexDocument

MCOriginal == <<1, 2>>
MCClips == {<<2, 0>>}
===============================================================================
