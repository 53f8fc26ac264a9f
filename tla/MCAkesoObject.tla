--------------------------- MODULE MCAkesoObject ---------------------------
(***************************************************************************)
(* Instances of AkesoObject for TLC.                                       *)
(***************************************************************************)
EXTENDS AkesoObject

CONSTANTS o1, o2

One == {o1}
Two == {o1, o2}

\* The faults of processes and calls, with messages delivered once and in rounds.
Faults == {"crash", "put_fault", "notif_fault"}
\* No fault at all; users read.
Downloads == {"download"}
\* Everything, with operators that rotate no object that is being rotated.
KeepsClear == Conditions \ {"manual_race"}
=============================================================================
