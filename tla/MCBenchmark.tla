---------------------------- MODULE MCBenchmark ----------------------------
(***************************************************************************)
(* An instance of Benchmark for TLC.                                       *)
(***************************************************************************)
EXTENDS Benchmark

CONSTANTS s1, s2

Two == {s1, s2}
=============================================================================
