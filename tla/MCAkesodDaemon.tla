-------------------------- MODULE MCAkesodDaemon --------------------------
(***************************************************************************)
(* Instances of AkesodDaemon for TLC.                                      *)
(***************************************************************************)
EXTENDS AkesodDaemon

CONSTANTS o1, o2, o3

Two == {o1, o2}
Three == {o1, o2, o3}

Everything == Conditions
\* Members wait for each round to be over and nothing fails.
Nothing == {}
=============================================================================
