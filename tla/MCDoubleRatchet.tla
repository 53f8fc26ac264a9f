-------------------------- MODULE MCDoubleRatchet --------------------------
(***************************************************************************)
(* The instance of DoubleRatchet for TLC: four lines of each user, with   *)
(* every condition.                                                        *)
(***************************************************************************)
EXTENDS DoubleRatchet

Everything == Conditions
=============================================================================
