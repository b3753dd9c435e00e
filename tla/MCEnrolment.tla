---------------------------- MODULE MCEnrolment ----------------------------
(***************************************************************************)
(* Enrolment for TLC: three classes in a row, the last one without a       *)
(* section.                                                                *)
(***************************************************************************)
EXTENDS Enrolment, TLC

CONSTANTS c1, c2, c3, x1

School == {<<c1, "B">>, <<c2, "A">>, <<c2, "B">>}
Following == c1 :> c2 @@ c2 :> c3 @@ c3 :> None

Bodies ==
    {[Blank EXCEPT !.roll = x1, !.class = c1, !.section = <<c1, "B">>],
     [Blank EXCEPT !.is_active = 0],
     [Blank EXCEPT !.status = "inactive", !.is_active = 1, !.class = c2, !.section = <<c2, "A">>]}
\* A roll that comes twice, and one whose first row breaks.
Uploads == {<<[roll |-> x1, whole |-> TRUE], [roll |-> x1, whole |-> TRUE]>>,
            <<[roll |-> x1, whole |-> FALSE], [roll |-> x1, whole |-> TRUE]>>}

\* Students, mappings and requests are interchangeable.
Symmetry == Permutations(StudentIds) \cup Permutations(MapIds) \cup Permutations(Reqs)

=============================================================================
