------------------------------- MODULE MCSdk -------------------------------
(***************************************************************************)
(* Instances of Sdk for TLC.                                               *)
(***************************************************************************)
EXTENDS Sdk, TLC

\* Goroutines are interchangeable.
GoroutineSymmetry == Permutations(Goroutines)
=============================================================================
