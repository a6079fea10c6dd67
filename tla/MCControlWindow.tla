--------------------------- MODULE MCControlWindow ---------------------------
(***************************************************************************)
(* Two donors who may pay again before their cooldown is over, with every  *)
(* kind of amount.                                                         *)
(***************************************************************************)
EXTENDS ControlWindow

CONSTANTS d1, d2

MCAmounts == {NotANumber, -1, 1, 2, 9}
==============================================================================
