----------------------------- MODULE MCUserData ------------------------------
(* UserData with small sets, for TLC.                                      *)
EXTENDS UserData, TLC

Symmetric == Permutations(Users) \cup Permutations(Slots)
=============================================================================
