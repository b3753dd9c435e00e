------------------------------ MODULE MCUploads ------------------------------
(***************************************************************************)
(* Uploads with two rows and two requests in flight; three names of files  *)
(* are an image that both requests replace.                                *)
(***************************************************************************)
EXTENDS Uploads, TLC

Symmetry == Permutations(Files) \cup Permutations(Ids) \cup Permutations(Reqs)
=============================================================================
