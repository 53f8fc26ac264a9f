--------------------------- MODULE MCGroupSetup ---------------------------
(***************************************************************************)
(* An instance of GroupSetup for TLC.  Objects are interchangeable, and no *)
(* property is a liveness property.                                        *)
(***************************************************************************)
EXTENDS GroupSetup, TLC

CONSTANTS o1, o2

Two == {o1, o2}
Both == {"pem", "der"}
Symmetry == Permutations(Two)
=============================================================================
