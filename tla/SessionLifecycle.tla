-------------------------- MODULE SessionLifecycle --------------------------
(***************************************************************************)
(* What a login session promises, with neither table nor cache: it is      *)
(* opened once with a deadline, admits requests while it is open and       *)
(* within the deadline, and is closed for ever.                            *)
(***************************************************************************)
EXTENDS Naturals

CONSTANTS Keys, Reqs, None

VARIABLES
    now,       \* the clock
    deadline,  \* the deadline each session was opened with, None before
    closed,    \* the sessions that are over
    admitted   \* the session each request was let in with, None if not let in

vars == <<now, deadline, closed, admitted>>

Opened == {k \in Keys : deadline[k] # None}
Open == Opened \ closed

Init ==
    /\ now = 0
    /\ deadline = [k \in Keys |-> None]
    /\ closed = {}
    /\ admitted = [r \in Reqs |-> None]

\* Any step may close open sessions: a logout, a login elsewhere, expiry.
Closing == closed \subseteq closed' /\ closed' \subseteq Opened

Login(k) ==
    /\ deadline[k] = None
    /\ deadline'[k] \in Nat
    /\ deadline' = [deadline EXCEPT ![k] = deadline'[k]]
    /\ UNCHANGED <<now, admitted>>

Admit(r, k) ==
    /\ k \in Open
    /\ deadline[k] >= now
    /\ admitted[r] = None
    /\ admitted' = [admitted EXCEPT ![r] = k]
    /\ UNCHANGED <<now, deadline>>

Answer(r) ==
    /\ admitted[r] # None
    /\ admitted' = [admitted EXCEPT ![r] = None]
    /\ UNCHANGED <<now, deadline>>

Tick == now' = now + 1 /\ UNCHANGED <<deadline, admitted>>

Rest == UNCHANGED <<now, deadline, admitted>>

Next ==
    /\ Closing
    /\ \/ \E k \in Keys : Login(k)
       \/ \E r \in Reqs, k \in Keys : Admit(r, k)
       \/ \E r \in Reqs : Answer(r)
       \/ Tick
       \/ Rest

Spec == Init /\ [][Next]_vars

=============================================================================
