-------------------------------- MODULE Otp --------------------------------
(***************************************************************************)
(* One-time passwords: the table "otp_verification" and the two helpers    *)
(* that send and verify a code, as the handlers of app login, resend-otp   *)
(* and verify-otp call them.                                               *)
(*                                                                         *)
(* A request takes three steps: its transaction opens (at its first        *)
(* SELECT, REPEATABLE READ fixes what it will see), the helper decides on  *)
(* what it read, and the transaction commits.  Other requests run in       *)
(* between.  The ORM writes only the columns the helper assigned, into the *)
(* row as it is at that moment.                                            *)
(***************************************************************************)
EXTENDS Naturals, Sequences, FiniteSets

CONSTANTS
    Mobiles,         \* identifiers (mobile numbers)
    Codes,           \* codes generate_otp may draw
    Reqs,            \* requests that may be in flight at the same time
    MAX_ATTEMPTS,
    OTP_EXPIRE,      \* OTP_EXPIRE_MINUTES, in units of the clock
    MaxOtps,         \* bound on the number of codes sent
    MaxTime,         \* bound on the clock
    None

ASSUME ExpireAssumption == OTP_EXPIRE \in Nat /\ MAX_ATTEMPTS \in Nat \ {0}
ASSUME NoneAssumption ==
    /\ None \notin Mobiles \cup Codes \cup {"right", "wrong"}
    /\ None \notin [code : Codes, deadline : Nat, tries : Nat]
ASSUME BoundAssumption == MaxOtps \in Nat /\ MaxTime \in Nat

OtpVerification == [identifier : Mobiles, otp : Codes, expires_at : Nat,
                    is_used : {0, 1}, attempts : Nat]

Request == [pc : {"idle", "sending", "send", "verifying", "reject", "accept"},
            mobile : Mobiles \cup {None},
            code : Codes \cup {None},    \* the code drawn, or the code given
            seen : SUBSET (Nat \ {0}),   \* active codes of the mobile, in the snapshot
            attempts : Nat,              \* of the active code, in the snapshot
            expires_at : Nat]

Idle == [pc |-> "idle", mobile |-> None, code |-> None, seen |-> {},
         attempts |-> 0, expires_at |-> 0]

VARIABLES
    now,       \* the clock
    otps,      \* the table, in commit order
    req,       \* the requests in flight
    wrong,     \* history: wrong codes answered for each row, up to MAX_ATTEMPTS + 1
    accepted,  \* history: rows whose code was accepted
    raced      \* history: mobiles two requests in flight worked on at once

vars == <<now, otps, req, wrong, accepted, raced>>

Init ==
    /\ now = 0
    /\ otps = <<>>
    /\ req = [r \in Reqs |-> Idle]
    /\ wrong = <<>>
    /\ accepted = {}
    /\ raced = {}

---------------------------------------------------------------------------

\* What _get_active_otp selects; scalar_one_or_none raises if there are two.
\* (The column is_used is a TINYINT.)
Active(m) == {i \in DOMAIN otps : otps[i].identifier = m /\ otps[i].is_used = 0}

Ambiguous(q) == \E i, j \in q.seen : i # j

Finish(r) == req' = [req EXCEPT ![r] = Idle]

\* The first SELECT of a request that will look up the codes of mobile m.
Snapshot(r, pc, m, c) ==
    /\ req[r] = Idle
    /\ req' = [req EXCEPT ![r] =
                  [Idle EXCEPT !.pc = pc, !.mobile = m, !.code = c,
                               !.seen = Active(m),
                               !.attempts = IF \E i \in Active(m) : Active(m) = {i}
                                            THEN otps[CHOOSE i \in Active(m) : TRUE].attempts
                                            ELSE 0]]
    /\ UNCHANGED <<now, otps, wrong, accepted>>

\* The UPDATEs of the row a request has seen: is_used = True, and attempts += 1,
\* which was computed from the row as it was read.
MarkNothing(q) == otps                        \* mutant: the old code stays active

MarkUsed(q) ==
    [i \in DOMAIN otps |-> IF i \in q.seen THEN [otps[i] EXCEPT !.is_used = 1] ELSE otps[i]]

CountNothing(q) == otps                       \* mutant: the attempt is not counted

\* mutant: every column of the row is written back as it was read
WriteWholeRow(q) ==
    [i \in DOMAIN otps |->
       IF i \in q.seen
       THEN [otps[i] EXCEPT !.attempts = q.attempts + 1, !.is_used = 0] ELSE otps[i]]

CountAttempt(q) ==
    [i \in DOMAIN otps |->
       IF i \in q.seen THEN [otps[i] EXCEPT !.attempts = q.attempts + 1] ELSE otps[i]]

---------------------------------------------------------------------------
(* _send_otp_logic: POST /android/login/, POST /android/resend-otp/ *)

BeginSend(r, m) == Len(otps) < MaxOtps /\ Snapshot(r, "sending", m, None)

\* Two active codes: MultipleResultsFound, 500.
SendAmbiguous(r) ==
    /\ req[r].pc = "sending"
    /\ Ambiguous(req[r])
    /\ Finish(r)
    /\ UNCHANGED <<now, otps, wrong, accepted>>

DrawNoCode(r, c) ==                           \* mutant: the row gets no code
    /\ req[r].pc = "sending"
    /\ ~Ambiguous(req[r])
    /\ req' = [req EXCEPT ![r] = [@ EXCEPT !.pc = "send", !.expires_at = now + OTP_EXPIRE]]
    /\ UNCHANGED <<now, otps, wrong, accepted>>

DrawCode(r, c) ==
    /\ req[r].pc = "sending"
    /\ ~Ambiguous(req[r])
    /\ req' = [req EXCEPT ![r] = [@ EXCEPT !.pc = "send", !.code = c,
                                           !.expires_at = now + OTP_EXPIRE]]
    /\ UNCHANGED <<now, otps, wrong, accepted>>

\* UPDATE of the code it saw, INSERT of the new one.  The push message that
\* follows changes nothing: its failure is caught.
CommitSend(r) ==
    LET q == req[r] IN
    /\ q.pc = "send"
    /\ Len(otps) < MaxOtps
    /\ otps' = Append(MarkUsed(q),
                      [identifier |-> q.mobile, otp |-> q.code, expires_at |-> q.expires_at,
                       is_used |-> 0, attempts |-> 0])
    /\ wrong' = Append(wrong, 0)
    /\ Finish(r)
    /\ UNCHANGED <<now, accepted>>

---------------------------------------------------------------------------
(* _verify_otp_logic: POST /android/verify-otp/ *)

BeginVerify(r, m, c) == Snapshot(r, "verifying", m, c)

\* No active code (404), two of them (500), no attempt left (429), too late (410).
VerifyRefused(r) ==
    LET q == req[r] IN
    /\ q.pc = "verifying"
    /\ \/ q.seen = {}
       \/ Ambiguous(q)
       \/ \E i \in q.seen :
             /\ ~Ambiguous(q)
             /\ q.attempts >= MAX_ATTEMPTS \/ otps[i].expires_at < now
    /\ Finish(r)
    /\ UNCHANGED <<now, otps, wrong, accepted>>

\* mutant: a code is compared however late the answer
CompareAnyTime(r) ==
    LET q == req[r] IN
    /\ q.pc = "verifying"
    /\ \E i \in q.seen :
          /\ ~Ambiguous(q)
          /\ q.attempts < MAX_ATTEMPTS
          /\ req' = [req EXCEPT ![r] = [@ EXCEPT !.pc =
                        IF otps[i].otp = q.code THEN "accept" ELSE "reject"]]
    /\ UNCHANGED <<now, otps, wrong, accepted>>

\* The one active code still has attempts and time left: compare.
Compare(r) ==
    LET q == req[r] IN
    /\ q.pc = "verifying"
    /\ \E i \in q.seen :
          /\ ~Ambiguous(q)
          /\ q.attempts < MAX_ATTEMPTS
          /\ otps[i].expires_at >= now
          /\ req' = [req EXCEPT ![r] = [@ EXCEPT !.pc =
                        IF otps[i].otp = q.code THEN "accept" ELSE "reject"]]
    /\ UNCHANGED <<now, otps, wrong, accepted>>

CommitReject(r) ==
    LET q == req[r] IN
    /\ q.pc = "reject"
    /\ otps' = CountAttempt(q)
    /\ wrong' = [i \in DOMAIN wrong |->
                   IF i \in q.seen /\ wrong[i] <= MAX_ATTEMPTS THEN wrong[i] + 1 ELSE wrong[i]]
    /\ Finish(r)
    /\ UNCHANGED <<now, accepted>>

CommitAccept(r) ==
    LET q == req[r] IN
    /\ q.pc = "accept"
    /\ otps' = MarkUsed(q)
    /\ accepted' = accepted \cup q.seen
    /\ Finish(r)
    /\ UNCHANGED <<now, wrong>>

---------------------------------------------------------------------------

\* A failed await, a dropped client or a restart: the transaction rolls back.
Abort(r) ==
    /\ req[r].pc # "idle"
    /\ Finish(r)
    /\ UNCHANGED <<now, otps, wrong, accepted>>

Tick == now < MaxTime /\ now' = now + 1 /\ UNCHANGED <<otps, req, wrong, accepted>>

Overlap(q) == {m \in Mobiles : \E r1, r2 \in Reqs :
                  r1 # r2 /\ q[r1].mobile = m /\ q[r2].mobile = m}

Step ==
    \/ \E r \in Reqs, m \in Mobiles : BeginSend(r, m)
    \/ \E r \in Reqs, m \in Mobiles, c \in Codes : BeginVerify(r, m, c)
    \/ \E r \in Reqs, c \in Codes : DrawCode(r, c)
    \/ \E r \in Reqs : \/ SendAmbiguous(r) \/ CommitSend(r)
                       \/ VerifyRefused(r) \/ Compare(r)
                       \/ CommitReject(r) \/ CommitAccept(r)
                       \/ Abort(r)
    \/ Tick

Next == Step /\ raced' = raced \cup Overlap(req')

Spec == Init /\ [][Next]_vars

---------------------------------------------------------------------------
(* Properties *)

\* Every variable holds a value of its kind, and the histories follow the table.
TypeOK ==
    /\ now \in Nat
    /\ otps \in Seq(OtpVerification)
    /\ req \in [Reqs -> Request]
    /\ wrong \in Seq(Nat) /\ Len(wrong) = Len(otps)
    /\ accepted \subseteq DOMAIN otps
    /\ raced \subseteq Mobiles

\* A used or superseded code stays used: a wrong answer in flight, which read
\* the row before, must not bring it back when it writes the attempts.
UsedIsFinal ==
    [][\A i \in DOMAIN otps : otps[i].is_used = 1 => otps'[i].is_used = 1]_vars

\* A mobile has two active codes, with which neither helper can work any more,
\* only if two requests for it were in flight at once.
OneActiveUnlessOverlap ==
    \A m \in Mobiles \ raced : \A i, j \in Active(m) : i = j

\* Unless requests for the mobile overlap, at most MAX_ATTEMPTS wrong codes are
\* answered for a code that was sent, however verifies, failures and other
\* mobiles' requests mix.
BudgetUnlessOverlap ==
    \A i \in DOMAIN otps :
        otps[i].identifier \notin raced => wrong[i] <= MAX_ATTEMPTS

\* Unless requests for the mobile overlap, a code is accepted only once, and
\* only while it is the one sent last.
AcceptsLatestOnce ==
    [][\A r \in Reqs : CommitAccept(r) /\ req[r].mobile \notin raced =>
         \A i \in req[r].seen :
            /\ i \notin accepted
            /\ \A j \in DOMAIN otps : otps[j].identifier = req[r].mobile => j <= i]_vars

---------------------------------------------------------------------------
(* What one-time codes promise: OneTimeCode, of the mobiles whose requests *)
(* never overlapped.                                                       *)

\* The one active row of a mobile is its code in force; the tries it has cost
\* are the wrong answers really given for it, not the column that counts them.
InForce(m) ==
    IF m \in raced \/ Active(m) = {} THEN None
    ELSE LET i == CHOOSE i \in Active(m) : TRUE
         IN  [code |-> otps[i].otp, deadline |-> otps[i].expires_at, tries |-> wrong[i]]

\* What a request in flight has found out about the code it was given.
Verdict(m) ==
    IF m \in raced THEN None
    ELSE IF \E r \in Reqs : req[r].mobile = m /\ req[r].pc = "accept" THEN "right"
    ELSE IF \E r \in Reqs : req[r].mobile = m /\ req[r].pc = "reject" THEN "wrong"
    ELSE None

Promise == INSTANCE OneTimeCode WITH
    MaxTries <- MAX_ATTEMPTS,
    Lifetime <- OTP_EXPIRE,
    inForce  <- [m \in Mobiles |-> InForce(m)],
    verdict  <- [m \in Mobiles |-> Verdict(m)],
    lost     <- raced

\* Rows, snapshots and transactions that roll back keep the promise of
\* OneTimeCode: an answer is judged against the code sent last, within its
\* deadline and while fewer than MAX_ATTEMPTS wrong answers were given for it,
\* and a right answer ends the code.
ImplementsOneTimeCode == Promise!Spec

=============================================================================
