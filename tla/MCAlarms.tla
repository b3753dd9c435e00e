------------------------------ MODULE MCAlarms ------------------------------
(***************************************************************************)
(* Alarms for TLC: a day with one fire job beside the reset.  The proofs    *)
(* of AlarmsProofs hold for any number of them.                            *)
(***************************************************************************)
EXTENDS Alarms, TLC

OneSlot == <<"8.00">>

\* An alarm to all on the first day, and one to the class on the second.
TwoPlans ==
    {[class |-> None, date |-> 0, slot |-> "8.00"]}
    \cup {[class |-> c, date |-> 1, slot |-> "8.00"] : c \in Classes}

\* Students, tokens and requests are interchangeable.  Staff ids are not: some
\* equal a student's.
Symmetry == Permutations(StudentIds \ StaffIds) \cup Permutations(Tokens)
               \cup Permutations(Reqs)

=============================================================================
