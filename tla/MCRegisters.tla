----------------------------- MODULE MCRegisters -----------------------------
(***************************************************************************)
(* Registers over the tables of the API.  Four rows: two pairs that clash; *)
(* three requests between look-up and commit.                              *)
(***************************************************************************)
EXTENDS Registers, RegisterTables, TLC

Symmetry == Permutations(Ids) \cup Permutations(Reqs)
=============================================================================
