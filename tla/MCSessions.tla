----------------------------- MODULE MCSessions -----------------------------
(***************************************************************************)
(* Sessions for TLC: the sets are model values, given in the cfg files.    *)
(***************************************************************************)
EXTENDS Sessions, TLC

\* Keys, requests and app users are interchangeable.  Used for safety only.
Symmetry == Permutations(WebKeys) \cup Permutations(AppKeys)
               \cup Permutations(Reqs) \cup Permutations(AppUsers)

=============================================================================
