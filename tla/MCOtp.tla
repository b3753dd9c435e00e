------------------------------- MODULE MCOtp -------------------------------
(***************************************************************************)
(* Otp for TLC.                                                            *)
(***************************************************************************)
EXTENDS Otp, TLC

\* Mobiles, codes and requests are interchangeable.
Symmetry == Permutations(Mobiles) \cup Permutations(Codes) \cup Permutations(Reqs)

=============================================================================
