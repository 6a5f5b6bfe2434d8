----------------------------- MODULE MCReading -------------------------------
(* Reading with small sets, for TLC.                                       *)
EXTENDS Reading, TLC

Symmetric == Permutations(Slots)
=============================================================================
