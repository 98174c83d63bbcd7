--------------------------- MODULE MCCorrelation ---------------------------
(***************************************************************************)
(* Correlation for TLC.  Files and IRPs are interchangeable, and the       *)
(* properties checked are invariants.                                      *)
(***************************************************************************)
EXTENDS Correlation, TLC

Interchangeable == Permutations(Files) \cup Permutations(Irps)
=============================================================================
