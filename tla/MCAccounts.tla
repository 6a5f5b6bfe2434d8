----------------------------- MODULE MCAccounts -----------------------------
(* Model values and symmetry for the runs of Accounts.                     *)
EXTENDS Accounts, TLC

UserSymmetry == Permutations(Users)
SlotSymmetry == Permutations(Requests)
Symmetric == UserSymmetry \cup SlotSymmetry
=============================================================================
