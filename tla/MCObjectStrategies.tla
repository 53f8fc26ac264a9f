------------------------- MODULE MCObjectStrategies -------------------------
(***************************************************************************)
(* Instances of ObjectStrategies for TLC: every strategy at once, one      *)
(* object where calls race for it, two where rounds are interrupted.       *)
(***************************************************************************)
EXTENDS ObjectStrategies

CONSTANTS o1, o2

One == {o1}
Two == {o1, o2}
All == {"strawman", "keywrap", "csek", "cmek"}
Crashes == {"crash"}
Everything == Conditions
=============================================================================
