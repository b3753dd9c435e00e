---------------------------- MODULE OneTimeCode ----------------------------
(***************************************************************************)
(* What one-time passwords promise to the owner of a mobile, with neither  *)
(* rows, snapshots nor transactions: at most one code is in force, the one *)
(* sent last; an answer is judged against it only within its deadline and  *)
(* while it has tries left; a wrong answer costs a try, a right one ends   *)
(* the code.  To a mobile that is lost nothing is promised any more.       *)
(***************************************************************************)
EXTENDS Naturals

CONSTANTS Mobiles, Codes, MaxTries, Lifetime, None

VARIABLES
    now,      \* the clock
    inForce,  \* the code in force for each mobile, None if there is none
    verdict,  \* what was judged of an answer and not yet said, else None
    lost      \* mobiles nothing is promised to

vars == <<now, inForce, verdict, lost>>

Init ==
    /\ now = 0
    /\ inForce = [m \in Mobiles |-> None]
    /\ verdict = [m \in Mobiles |-> None]
    /\ lost = {}

\* A new code replaces the one in force and starts with every try.
NewCode == [code : Codes, deadline : 0 .. now + Lifetime, tries : {0}]

Send(m) ==
    /\ verdict[m] = None
    /\ inForce'[m] \in NewCode
    /\ inForce' = [inForce EXCEPT ![m] = inForce'[m]]
    /\ UNCHANGED <<now, verdict, lost>>

Judge(m, c) ==
    /\ verdict[m] = None
    /\ inForce[m] # None
    /\ inForce[m].tries < MaxTries
    /\ inForce[m].deadline >= now
    /\ verdict' = [verdict EXCEPT ![m] = IF c = inForce[m].code THEN "right" ELSE "wrong"]
    /\ UNCHANGED <<now, inForce, lost>>

SayWrong(m) ==
    /\ verdict[m] = "wrong"
    /\ inForce' = [inForce EXCEPT ![m].tries = @ + 1]
    /\ verdict' = [verdict EXCEPT ![m] = None]
    /\ UNCHANGED <<now, lost>>

SayRight(m) ==
    /\ verdict[m] = "right"
    /\ inForce' = [inForce EXCEPT ![m] = None]
    /\ verdict' = [verdict EXCEPT ![m] = None]
    /\ UNCHANGED <<now, lost>>

\* The answer is never given: nothing was judged.
Withdraw(m) ==
    /\ verdict' = [verdict EXCEPT ![m] = None]
    /\ UNCHANGED <<now, inForce, lost>>

Lose(m) ==
    /\ lost' = lost \cup {m}
    /\ inForce' = [inForce EXCEPT ![m] = None]
    /\ verdict' = [verdict EXCEPT ![m] = None]
    /\ UNCHANGED now

Tick == now' = now + 1 /\ UNCHANGED <<inForce, verdict, lost>>

Next ==
    \/ \E m \in Mobiles \ lost :
          \/ Send(m)
          \/ \E c \in Codes : Judge(m, c)
          \/ SayWrong(m) \/ SayRight(m) \/ Withdraw(m)
          \/ Lose(m)
    \/ Tick

Spec == Init /\ [][Next]_vars

=============================================================================
