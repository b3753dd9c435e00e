------------------------------ MODULE OtpProofs ------------------------------
(***************************************************************************)
(* Theorems about Otp, for every set of mobiles, codes and requests, every *)
(* number of attempts and every lifetime of a code.                        *)
(***************************************************************************)
EXTENDS Otp, TLAPS, SequenceTheorems

---------------------------------------------------------------------------
(* The inductive invariant *)

\* A request only knows rows of its own mobile; one that has compared a code has
\* seen exactly one of them, and one that has drawn a code gives it its lifetime.
Shape(q) ==
    /\ q.pc # "idle" => q.mobile \in Mobiles
    /\ q.pc \in {"send", "verifying", "reject", "accept"} => q.code \in Codes
    /\ \A i \in q.seen : i \in DOMAIN otps /\ otps[i].identifier = q.mobile
    /\ q.pc \in {"reject", "accept"} =>
          q.seen # {} /\ ~Ambiguous(q) /\ q.attempts < MAX_ATTEMPTS
    /\ q.pc = "send" => q.expires_at <= now + OTP_EXPIRE

Core ==
    /\ TypeOK
    /\ \A r \in Reqs : Shape(req[r])
    /\ \A i \in accepted : otps[i].is_used = 1

\* What holds of a mobile while no two requests for it have met: one active
\* code, the last of the mobile; what a request in flight has read of it is
\* still so; and every wrong answer was counted.
Orderly(m) ==
    /\ \A i \in Active(m), j \in DOMAIN otps : otps[j].identifier = m => j <= i
    /\ \A r \in Reqs : req[r].mobile = m => req[r].seen = Active(m)
    /\ \A r \in Reqs : req[r].mobile = m =>
          \A i \in req[r].seen : req[r].attempts = otps[i].attempts
    /\ \A i \in DOMAIN otps : otps[i].identifier = m =>
          /\ wrong[i] = otps[i].attempts
          /\ otps[i].attempts <= MAX_ATTEMPTS

Inv ==
    /\ Core
    /\ Overlap(req) \subseteq raced
    /\ \A m \in Mobiles \ raced : Orderly(m)

---------------------------------------------------------------------------
(* Type correctness *)

LEMMA IdleType == Idle \in Request /\ Shape(Idle)
  BY DEF Idle, Request, Shape

\* Updating the rows of a table in place.
LEMMA MapSeq ==
    ASSUME NEW S, NEW s \in Seq(S), NEW f \in [DOMAIN s -> S]
    PROVE  f \in Seq(S) /\ Len(f) = Len(s)
  <1>1. DOMAIN s = 1 .. Len(s) /\ Len(s) \in Nat
    OBVIOUS
  <1> QED
    BY <1>1, SeqDef

LEMMA StepType ==
    ASSUME Core, Step, raced' \subseteq Mobiles
    PROVE  Core'
  <1> USE DEF Core
  <1>1. /\ \A r \in Reqs : req[r] \in Request /\ Shape(req[r])
        /\ \A i \in DOMAIN otps : otps[i] \in OtpVerification
        /\ DOMAIN otps = 1 .. Len(otps) /\ Len(otps) \in Nat
    BY DEF TypeOK
  <1>2. ASSUME NEW r \in Reqs, NEW q \in Request, Shape(q),
               req' = [req EXCEPT ![r] = q], UNCHANGED <<otps, wrong, accepted>>, now' = now
        PROVE  Core'
    BY <1>1, <1>2 DEF TypeOK, Shape
  <1>3. ASSUME NEW r \in Reqs, Finish(r), UNCHANGED <<otps, wrong, accepted>>, now' = now
        PROVE  Core'
    BY <1>2, <1>3, IdleType DEF Finish
  <1>4. ASSUME NEW r \in Reqs, NEW pc \in {"sending", "verifying"}, NEW m \in Mobiles,
               NEW c \in Codes \cup {None}, pc = "verifying" => c \in Codes, Snapshot(r, pc, m, c)
        PROVE  Core'
    <2> DEFINE a == IF \E i \in Active(m) : Active(m) = {i}
                    THEN otps[CHOOSE i \in Active(m) : TRUE].attempts ELSE 0
               q == [Idle EXCEPT !.pc = pc, !.mobile = m, !.code = c,
                                 !.seen = Active(m), !.attempts = a]
    <2>1. Active(m) \subseteq DOMAIN otps /\ \A i \in Active(m) : otps[i].identifier = m
      BY DEF Active
    <2>2. a \in Nat
      <3>1. CASE \E i \in Active(m) : Active(m) = {i}
        <4>1. (CHOOSE i \in Active(m) : TRUE) \in Active(m)
          BY <3>1
        <4> QED
          BY <1>1, <2>1, <4>1, <3>1 DEF OtpVerification
      <3> QED
        BY <3>1
    <2> HIDE DEF a
    <2>3. q \in Request
      <3>1. Active(m) \in SUBSET (Nat \ {0})
        BY <1>1, <2>1
      <3> QED
        BY <1>4, <2>2, <3>1 DEF Idle, Request
    <2>5. Shape(q)
      BY <1>4, <2>1 DEF Idle, Shape
    <2>4. req' = [req EXCEPT ![r] = q] /\ UNCHANGED <<now, otps, wrong, accepted>>
      BY <1>4 DEF Snapshot, a
    <2> QED
      BY <1>2, <2>3, <2>4, <2>5 DEF TypeOK
  <1>5. ASSUME NEW r \in Reqs, NEW c \in Codes, DrawCode(r, c)
        PROVE  Core'
    <2> DEFINE q == [req[r] EXCEPT !.pc = "send", !.code = c, !.expires_at = now + OTP_EXPIRE]
    <2>1. now + OTP_EXPIRE \in Nat
      BY ExpireAssumption DEF TypeOK
    <2>2. q \in Request
      BY <1>1, <2>1 DEF Request
    <2>3. Shape(q)
      <3>1. q.expires_at <= now + OTP_EXPIRE
        BY <1>1, <2>1 DEF Request
      <3> QED
        BY <1>1, <1>5, <3>1 DEF DrawCode, Request, Shape
    <2> QED
      BY <1>2, <1>5, <2>2, <2>3 DEF DrawCode, TypeOK
  <1>6. ASSUME NEW r \in Reqs, Compare(r)
        PROVE  Core'
    <2> PICK i \in req[r].seen : /\ ~Ambiguous(req[r])
                                 /\ req[r].attempts < MAX_ATTEMPTS
                                 /\ req' = [req EXCEPT ![r] = [@ EXCEPT !.pc =
                                      IF otps[i].otp = req[r].code THEN "accept" ELSE "reject"]]
      BY <1>6 DEF Compare
    <2> DEFINE p == IF otps[i].otp = req[r].code THEN "accept" ELSE "reject"
               q == [req[r] EXCEPT !.pc = p]
    <2>1. q \in Request /\ Shape(q)
      BY <1>1, <1>6 DEF Compare, Request, Shape, Ambiguous
    <2> QED
      BY <1>2, <1>6, <2>1 DEF Compare, TypeOK
  <1>7. ASSUME NEW r \in Reqs, CommitReject(r)
        PROVE  Core'
    <2>1. req[r].attempts + 1 \in Nat
      BY <1>1 DEF Request
    <2>2. otps' \in Seq(OtpVerification) /\ Len(otps') = Len(otps)
      <3>1. otps' \in [DOMAIN otps -> OtpVerification]
        BY <1>1, <1>7, <2>1 DEF CommitReject, CountAttempt, OtpVerification
      <3> QED
        BY <3>1, MapSeq DEF TypeOK
    <2>3. wrong' \in Seq(Nat) /\ Len(wrong') = Len(otps)
      <3>1. wrong' \in [DOMAIN wrong -> Nat]
        BY <1>1, <1>7 DEF CommitReject, CountAttempt, TypeOK
      <3> QED
        BY <3>1, MapSeq DEF TypeOK
    <2>4. \A j \in DOMAIN otps : /\ otps'[j].identifier = otps[j].identifier
                                 /\ otps'[j].is_used = otps[j].is_used
      BY <1>1, <1>7 DEF CommitReject, CountAttempt, OtpVerification
    <2>5. req' \in [Reqs -> Request] /\ \A i \in Reqs : req'[i] = Idle \/ req'[i] = req[i]
      BY <1>7, IdleType DEF CommitReject, CountAttempt, Finish, TypeOK
    <2>6. DOMAIN otps' = DOMAIN otps
      BY <1>7 DEF CommitReject, CountAttempt
    <2>n. now' = now
      BY <1>7 DEF CommitReject, CountAttempt
    <2>7. \A i \in Reqs : Shape(req[i])'
      BY <1>1, <2>n, <2>4, <2>5, <2>6 DEF Shape, Idle, Ambiguous
    <2>8. \A i \in accepted' : otps'[i].is_used = 1
      BY <1>7, <2>4 DEF CommitReject, TypeOK
    <2> QED
      BY <1>7, <2>2, <2>3, <2>5, <2>6, <2>7, <2>8 DEF CommitReject, TypeOK
  <1>8. ASSUME NEW r \in Reqs, CommitAccept(r)
        PROVE  Core'
    <2>2. otps' \in Seq(OtpVerification) /\ Len(otps') = Len(otps)
      <3>1. otps' \in [DOMAIN otps -> OtpVerification]
        BY <1>1, <1>8 DEF CommitAccept, MarkUsed, OtpVerification
      <3> QED
        BY <3>1, MapSeq DEF TypeOK
    <2>4. \A j \in DOMAIN otps : otps'[j].identifier = otps[j].identifier
      BY <1>1, <1>8 DEF CommitAccept, MarkUsed, OtpVerification
    <2>5. req' \in [Reqs -> Request] /\ \A i \in Reqs : req'[i] = Idle \/ req'[i] = req[i]
      BY <1>8, IdleType DEF CommitAccept, MarkUsed, Finish, TypeOK
    <2>6. DOMAIN otps' = DOMAIN otps
      BY <1>8 DEF CommitAccept, MarkUsed
    <2>n. now' = now
      BY <1>8 DEF CommitAccept, MarkUsed
    <2>7. \A i \in Reqs : Shape(req[i])'
      BY <1>1, <2>n, <2>4, <2>5, <2>6 DEF Shape, Idle, Ambiguous
    <2>8. req[r].seen \subseteq DOMAIN otps
      BY <1>1 DEF Shape
    <2>9. accepted' \subseteq DOMAIN otps' /\ \A i \in accepted' : otps'[i].is_used = 1
      BY <1>1, <1>8, <2>6, <2>8 DEF CommitAccept, MarkUsed, TypeOK, OtpVerification
    <2> QED
      BY <1>8, <2>2, <2>5, <2>7, <2>9 DEF CommitAccept, TypeOK
  <1>9. ASSUME NEW r \in Reqs, CommitSend(r)
        PROVE  Core'
    <2> DEFINE q == req[r]
               old == [i \in DOMAIN otps |->
                         IF i \in q.seen THEN [otps[i] EXCEPT !.is_used = 1] ELSE otps[i]]
               new == [identifier |-> q.mobile, otp |-> q.code, expires_at |-> q.expires_at,
                       is_used |-> 0, attempts |-> 0]
    <2>1. new \in OtpVerification
      BY <1>1, <1>9 DEF CommitSend, MarkUsed, Shape, Request, OtpVerification
    <2>2. old \in Seq(OtpVerification) /\ Len(old) = Len(otps)
      <3>1. old \in [DOMAIN otps -> OtpVerification]
        BY <1>1 DEF OtpVerification
      <3> QED
        BY <3>1, MapSeq DEF TypeOK
    <2>3. otps' = Append(old, new)
      BY <1>9 DEF CommitSend, MarkUsed
    <2>4. \A j \in DOMAIN otps : /\ old[j].identifier = otps[j].identifier
                                 /\ otps[j].is_used = 1 => old[j].is_used = 1
      BY <1>1 DEF OtpVerification
    <2> HIDE DEF old, new
    <2>5. /\ otps' \in Seq(OtpVerification) /\ Len(otps') = Len(otps) + 1
          /\ \A j \in DOMAIN otps : j \in DOMAIN otps' /\ otps'[j] = old[j]
      BY <1>1, <2>1, <2>2, <2>3
    <2>6. req' \in [Reqs -> Request] /\ \A i \in Reqs : req'[i] = Idle \/ req'[i] = req[i]
      BY <1>9, IdleType DEF CommitSend, MarkUsed, Finish, TypeOK
    <2>n. now' = now
      BY <1>9 DEF CommitSend, MarkUsed
    <2>7. \A i \in Reqs : Shape(req[i])'
      BY <1>1, <2>n, <2>4, <2>5, <2>6 DEF Shape, Idle, Ambiguous
    <2>8. wrong' \in Seq(Nat) /\ Len(wrong') = Len(otps) + 1
      BY <1>9 DEF CommitSend, MarkUsed, TypeOK
    <2>9. accepted' \subseteq DOMAIN otps' /\ \A i \in accepted' : otps'[i].is_used = 1
      BY <1>9, <2>4, <2>5 DEF CommitSend, TypeOK
    <2> QED
      BY <1>9, <2>5, <2>6, <2>7, <2>8, <2>9 DEF CommitSend, TypeOK
  <1>10. ASSUME NEW r \in Reqs, SendAmbiguous(r) \/ VerifyRefused(r) \/ Abort(r)
         PROVE  Core'
    BY <1>3, <1>10 DEF SendAmbiguous, VerifyRefused, Abort, TypeOK
  <1>11. CASE Tick
    <2>1. \A r \in Reqs : req[r].expires_at <= now + OTP_EXPIRE =>
             req[r].expires_at <= (now + 1) + OTP_EXPIRE
      BY <1>1, ExpireAssumption DEF TypeOK, Request
    <2> QED
      BY <1>11, <2>1 DEF Tick, TypeOK, Shape, Ambiguous
  <1> QED
    BY <1>4, <1>5, <1>6, <1>7, <1>8, <1>9, <1>10, <1>11 DEF Step, BeginSend, BeginVerify

---------------------------------------------------------------------------
(* Order while no two requests for a mobile meet *)

LEMMA FinishEffect ==
    ASSUME Core, NEW r \in Reqs, Finish(r)
    PROVE  /\ \A i \in Reqs : i # r => req'[i] = req[i]
           /\ req'[r] = Idle
  BY DEF Core, TypeOK, Finish

LEMMA OrderlyStep ==
    ASSUME Core, Core', Step, Overlap(req) \subseteq raced, raced' = raced \cup Overlap(req'),
           NEW m \in Mobiles, m \notin raced', Orderly(m)
    PROVE  Orderly(m)'
  <1>1. \A r1, r2 \in Reqs : r1 # r2 /\ req[r1].mobile = m => req[r2].mobile # m
    BY DEF Overlap
  <1>2. /\ \A r \in Reqs : req[r] \in Request /\ Shape(req[r])
        /\ \A i \in DOMAIN otps : otps[i] \in OtpVerification
        /\ DOMAIN otps = 1 .. Len(otps) /\ Len(otps) \in Nat
        /\ DOMAIN wrong = DOMAIN otps
    BY DEF Core, TypeOK
  <1>3. Idle.mobile = None
    BY DEF Idle
  <1>o. \A i \in DOMAIN otps : otps[i].identifier = m =>
            wrong[i] = otps[i].attempts /\ otps[i].attempts <= MAX_ATTEMPTS
    BY DEF Orderly
  <1>a. \A i : i \in Active(m) <=> /\ i \in DOMAIN otps /\ otps[i].identifier = m
                                   /\ otps[i].is_used = 0
    BY <1>2 DEF Active, OtpVerification
  <1>b. \A i : i \in Active(m)' <=> /\ i \in DOMAIN otps' /\ otps'[i].identifier = m
                                    /\ otps'[i].is_used = 0
    <2>1. \A i \in DOMAIN otps' : otps'[i] \in OtpVerification
      BY DEF Core, TypeOK
    <2> QED
      BY <2>1 DEF Active, OtpVerification
  <1>4. m # None
    BY NoneAssumption
  \* A step that leaves the table alone and, of the requests, changes only r.
  <1>5. ASSUME NEW r \in Reqs, UNCHANGED <<otps, wrong, accepted>>,
               \A i \in Reqs : i # r => req'[i] = req[i],
               \/ req'[r].mobile # m
               \/ /\ req'[r].mobile = req[r].mobile /\ req'[r].seen = req[r].seen
                  /\ req'[r].attempts = req[r].attempts
        PROVE  Orderly(m)'
    BY <1>5 DEF Orderly, Active
  <1>6. ASSUME NEW r \in Reqs, UNCHANGED <<otps, wrong, accepted>>, Finish(r)
        PROVE  Orderly(m)'
    BY <1>3, <1>4, <1>5, <1>6, FinishEffect
  <1>7. ASSUME NEW r \in Reqs, NEW pc \in {"sending", "verifying"}, NEW u \in Mobiles,
               NEW c \in Codes \cup {None}, Snapshot(r, pc, u, c)
        PROVE  Orderly(m)'
    <2>1. CASE u # m
      <3>1. /\ req'[r].mobile = u /\ \A i \in Reqs : i # r => req'[i] = req[i]
            /\ UNCHANGED <<otps, wrong, accepted>>
        BY <1>7 DEF Snapshot, Idle, Core, TypeOK
      <3> QED
        BY <1>5, <2>1, <3>1
    <2>2. CASE u = m
      <3>1. /\ req'[r].mobile = m /\ req'[r].seen = Active(m)
            /\ \A i \in Reqs : i # r => req'[i] = req[i]
            /\ UNCHANGED <<otps, wrong, accepted>>
        BY <1>2, <1>7, <2>2 DEF Snapshot, Idle, Core, TypeOK
      <3>2. ASSUME NEW i \in Active(m)
            PROVE  req'[r].attempts = otps[i].attempts
        <4>1. \A j \in Active(m) : j = i
          <5>1. \A j \in Active(m) : j <= i /\ i <= j /\ j \in Nat /\ i \in Nat
            BY <1>2 DEF Orderly, Active
          <5> QED
            BY <5>1
        <4>2. Active(m) = {i} /\ (CHOOSE j \in Active(m) : TRUE) = i
          BY <4>1
        <4>3. \E j \in Active(m) : Active(m) = {j}
          BY <4>2
        <4> QED
          BY <1>2, <1>7, <2>2, <4>2, <4>3 DEF Snapshot, Idle, Core, TypeOK
      <3> QED
        BY <3>1, <3>2 DEF Orderly, Active
    <2> QED
      BY <2>1, <2>2
  <1>8. ASSUME NEW r \in Reqs, NEW c \in Codes, DrawCode(r, c)
        PROVE  Orderly(m)'
    BY <1>2, <1>5, <1>8 DEF DrawCode, Request
  <1>9. ASSUME NEW r \in Reqs, Compare(r)
        PROVE  Orderly(m)'
    BY <1>2, <1>5, <1>9 DEF Compare, Request
  <1>10. ASSUME NEW r \in Reqs, CommitReject(r)
         PROVE  Orderly(m)'
    <2>1. /\ DOMAIN otps' = DOMAIN otps
          /\ \A i \in DOMAIN otps : /\ otps'[i].identifier = otps[i].identifier
                                    /\ otps'[i].is_used = otps[i].is_used
      BY <1>2, <1>10 DEF CommitReject, CountAttempt, OtpVerification
    <2>2. Active(m)' = Active(m)
      BY <2>1 DEF Active
    <2>3. CASE req[r].mobile # m
      <3>1. \A i \in DOMAIN otps : otps[i].identifier = m => otps'[i] = otps[i] /\ wrong'[i] = wrong[i]
        BY <1>2, <1>10, <2>3 DEF CommitReject, CountAttempt, Shape
      <3>2. \A i \in Reqs : req'[i].mobile = m => req'[i] = req[i]
        BY <1>3, <1>4, <1>10, FinishEffect DEF CommitReject, CountAttempt
      <3>3. \A i \in Reqs : req'[i].mobile = m => \A j \in req[i].seen : otps'[j] = otps[j]
        BY <1>2, <3>1, <3>2 DEF Shape
      <3> QED
        BY <2>1, <2>2, <3>1, <3>2, <3>3 DEF Orderly
    <2>4. CASE req[r].mobile = m
      <3>1. \A i \in Reqs : req'[i].mobile # m
        BY <1>1, <1>3, <1>4, <1>10, <2>4, FinishEffect DEF CommitReject, CountAttempt
      <3>2. ASSUME NEW i \in DOMAIN otps, otps[i].identifier = m
            PROVE  wrong'[i] = otps'[i].attempts /\ otps'[i].attempts <= MAX_ATTEMPTS
        <4>1. wrong[i] = otps[i].attempts /\ otps[i].attempts <= MAX_ATTEMPTS
          BY <3>2 DEF Orderly
        <4>2. CASE i \notin req[r].seen
          BY <1>2, <1>10, <4>1, <4>2 DEF CommitReject, CountAttempt
        <4>3. CASE i \in req[r].seen
          <5>1. req[r].attempts = otps[i].attempts /\ req[r].attempts < MAX_ATTEMPTS
            BY <1>2, <1>10, <2>4, <4>3 DEF Orderly, Shape, CommitReject, CountAttempt
          <5>2. otps'[i].attempts = req[r].attempts + 1 /\ wrong'[i] = wrong[i] + 1
            BY <1>2, <1>10, <4>1, <4>3, <5>1 DEF CommitReject, CountAttempt, OtpVerification
          <5> QED
            BY <1>2, <4>1, <5>1, <5>2, ExpireAssumption DEF Request
        <4> QED
          BY <4>2, <4>3
      <3> QED
        BY <2>1, <2>2, <3>1, <3>2 DEF Orderly
    <2> QED
      BY <2>3, <2>4
  <1>11. ASSUME NEW r \in Reqs, CommitAccept(r)
         PROVE  Orderly(m)'
    <2>1. /\ DOMAIN otps' = DOMAIN otps
          /\ \A i \in DOMAIN otps : /\ otps'[i].identifier = otps[i].identifier
                                    /\ otps'[i].attempts = otps[i].attempts
                                    /\ otps[i].is_used = 1 => otps'[i].is_used = 1
      BY <1>2, <1>11 DEF CommitAccept, MarkUsed, OtpVerification
    <2>2. Active(m)' \subseteq Active(m)
      <3>1. SUFFICES ASSUME NEW i \in Active(m)'
                     PROVE  i \in Active(m)
        OBVIOUS
      <3>2. i \in DOMAIN otps /\ otps'[i].identifier = m /\ otps'[i].is_used = 0
        BY <1>b, <2>1
      <3>3. otps[i].identifier = m /\ otps[i].is_used # 1
        BY <2>1, <3>2
      <3>4. otps[i].is_used \in {0, 1}
        BY <1>2, <3>2 DEF OtpVerification
      <3> QED
        BY <1>a, <3>2, <3>3, <3>4
    <2>3. CASE req[r].mobile # m
      <3>1. \A i \in DOMAIN otps : otps[i].identifier = m => otps'[i] = otps[i]
        BY <1>2, <1>11, <2>3 DEF CommitAccept, MarkUsed, Shape
      <3>2. \A i \in Reqs : req'[i].mobile = m => req'[i] = req[i]
        BY <1>3, <1>4, <1>11, FinishEffect DEF CommitAccept, MarkUsed
      <3>3. Active(m)' = Active(m)
        <4>1. \A i \in Active(m) : i \in Active(m)'
          BY <1>a, <1>b, <2>1, <3>1
        <4> QED
          BY <2>2, <4>1
      <3>4. \A i \in Reqs : req'[i].mobile = m => \A j \in req[i].seen : otps'[j] = otps[j]
        BY <1>2, <3>1, <3>2 DEF Shape
      <3> QED
        <4>1. UNCHANGED wrong
          BY <1>11 DEF CommitAccept, MarkUsed
        <4>2. \A i \in Reqs : req'[i].mobile = m => req'[i].seen = Active(m)'
          BY <3>2, <3>3 DEF Orderly
        <4>3. \A i \in Reqs : req'[i].mobile = m =>
                 \A j \in req'[i].seen : req'[i].attempts = otps'[j].attempts
          BY <3>2, <3>4 DEF Orderly
        <4>4. \A i \in Active(m)', j \in DOMAIN otps' : otps'[j].identifier = m => j <= i
          BY <2>1, <3>3 DEF Orderly
        <4>5. \A i \in DOMAIN otps' : otps'[i].identifier = m =>
                 wrong'[i] = otps'[i].attempts /\ otps'[i].attempts <= MAX_ATTEMPTS
          BY <1>o, <2>1, <4>1
        <4> QED
          BY <4>2, <4>3, <4>4, <4>5 DEF Orderly
    <2>4. CASE req[r].mobile = m
      <3>1. \A i \in Reqs : req'[i].mobile # m
        BY <1>1, <1>3, <1>4, <1>11, <2>4, FinishEffect DEF CommitAccept, MarkUsed
      <3> QED
        BY <1>11, <2>1, <2>2, <3>1 DEF Orderly, CommitAccept, MarkUsed
    <2> QED
      BY <2>3, <2>4
  <1>12. ASSUME NEW r \in Reqs, CommitSend(r)
         PROVE  Orderly(m)'
    <2> DEFINE q == req[r]
               n == Len(otps) + 1
               old == [i \in DOMAIN otps |->
                         IF i \in q.seen THEN [otps[i] EXCEPT !.is_used = 1] ELSE otps[i]]
               new == [identifier |-> q.mobile, otp |-> q.code, expires_at |-> q.expires_at,
                       is_used |-> 0, attempts |-> 0]
    <2>1. old \in Seq(OtpVerification) /\ Len(old) = Len(otps)
      <3>1. old \in [DOMAIN otps -> OtpVerification]
        BY <1>2 DEF OtpVerification
      <3> QED
        BY <3>1, MapSeq DEF Core, TypeOK
    <2>2. \A i \in DOMAIN otps : /\ old[i].identifier = otps[i].identifier
                                 /\ old[i].attempts = otps[i].attempts
                                 /\ i \notin q.seen => old[i] = otps[i]
                                 /\ i \in q.seen => old[i].is_used = 1
      BY <1>2 DEF OtpVerification
    <2>3. /\ new.identifier = q.mobile /\ new.is_used = 0 /\ new.attempts = 0
      OBVIOUS
    <2>4. otps' = Append(old, new) /\ wrong' = Append(wrong, 0)
      BY <1>12 DEF CommitSend, MarkUsed
    <2> HIDE DEF old, new
    <2>5. /\ DOMAIN otps' = 1 .. n
          /\ \A i \in DOMAIN otps : otps'[i] = old[i]
          /\ otps'[n] = new
      BY <1>2, <2>1, <2>4
    <2>6. /\ \A i \in DOMAIN otps : wrong'[i] = wrong[i]
          /\ wrong'[n] = 0
      BY <1>2, <2>4 DEF Core, TypeOK
    <2>7. \A i \in DOMAIN otps' : i \in DOMAIN otps \/ i = n
      BY <1>2, <2>5
    <2>8. /\ \A i \in Reqs : i # r => req'[i] = req[i]
          /\ req'[r].mobile # m
      BY <1>3, <1>4, <1>12, FinishEffect DEF CommitSend, MarkUsed
    <2>9. CASE q.mobile # m
      <3>1. \A i \in DOMAIN otps : otps[i].identifier = m => otps'[i] = otps[i]
        <4>1. \A i \in q.seen : otps[i].identifier = q.mobile
          BY <1>2 DEF Shape
        <4> QED
          BY <2>2, <2>5, <2>9, <4>1
      <3>2. Active(m)' = Active(m)
        <4>1. \A i \in Active(m)' : i \in Active(m)
          BY <1>a, <1>b, <2>2, <2>3, <2>5, <2>7, <2>9, <3>1
        <4>2. \A i \in Active(m) : i \in Active(m)'
          BY <1>2, <1>a, <1>b, <2>5, <3>1
        <4> QED
          BY <4>1, <4>2
      <3>3. \A i \in Reqs : req'[i].mobile = m => req'[i] = req[i]
        BY <2>8
      <3>4. \A i \in Reqs : req'[i].mobile = m => \A j \in req[i].seen : otps'[j] = otps[j]
        BY <1>2, <3>1, <3>3 DEF Shape
      <3>5. \A i \in DOMAIN otps' : otps'[i].identifier = m => i \in DOMAIN otps /\ otps[i].identifier = m
        BY <2>2, <2>3, <2>5, <2>7, <2>9
      <3> QED
        BY <2>6, <3>1, <3>2, <3>3, <3>4, <3>5 DEF Orderly
    <2>10. CASE q.mobile = m
      <3>1. q.seen = Active(m)
        BY <2>10 DEF Orderly
      <3>2. \A i \in Reqs : req'[i].mobile # m
        BY <1>1, <2>8, <2>10
      <3>3. \A i \in Active(m)' : i = n
        <4>1. ASSUME NEW i \in DOMAIN otps, otps[i].identifier = m
              PROVE  otps'[i].is_used = 1
          <5>1. CASE i \in q.seen
            BY <2>2, <2>5, <5>1
          <5>2. CASE i \notin q.seen
            <6>1. otps[i].is_used \in {0, 1}
              BY <1>2, <4>1 DEF OtpVerification
            <6>2. otps[i].is_used # 0
              BY <1>a, <3>1, <4>1, <5>2
            <6> QED
              BY <2>2, <2>5, <4>1, <5>2, <6>1, <6>2
          <5> QED
            BY <5>1, <5>2
        <4> QED
          BY <1>b, <2>2, <2>5, <2>7, <4>1
      <3>4. \A j \in DOMAIN otps' : j <= n
        BY <1>2, <2>5
      <3>5. ASSUME NEW i \in DOMAIN otps', otps'[i].identifier = m
            PROVE  wrong'[i] = otps'[i].attempts /\ otps'[i].attempts <= MAX_ATTEMPTS
        <4>1. CASE i = n
          BY <2>3, <2>5, <2>6, <4>1, ExpireAssumption
        <4>2. CASE i \in DOMAIN otps
          BY <1>o, <2>2, <2>5, <2>6, <3>5, <4>2
        <4> QED
          BY <2>7, <4>1, <4>2
      <3> QED
        BY <3>2, <3>3, <3>4, <3>5 DEF Orderly
    <2> QED
      BY <2>9, <2>10
  <1>13. ASSUME NEW r \in Reqs, SendAmbiguous(r) \/ VerifyRefused(r) \/ Abort(r)
         PROVE  Orderly(m)'
    BY <1>6, <1>13 DEF SendAmbiguous, VerifyRefused, Abort
  <1>14. CASE Tick
    BY <1>14 DEF Tick, Orderly, Active
  <1> QED
    BY <1>7, <1>8, <1>9, <1>10, <1>11, <1>12, <1>13, <1>14 DEF Step, BeginSend, BeginVerify

LEMMA InvNext == Inv /\ [Next]_vars => Inv'
  <1> SUFFICES ASSUME Inv, [Next]_vars
               PROVE  Inv'
    OBVIOUS
  <1>1. CASE Next
    <2>1. raced' \subseteq Mobiles
      BY <1>1 DEF Next, Inv, Core, TypeOK, Overlap
    <2>2. Core'
      BY <1>1, <2>1, StepType DEF Next, Inv
    <2>3. ASSUME NEW m \in Mobiles, m \notin raced'
          PROVE  Orderly(m)'
      BY <1>1, <2>2, <2>3, OrderlyStep DEF Next, Inv
    <2> QED
      BY <1>1, <2>2, <2>3 DEF Next, Inv
  <1>2. CASE UNCHANGED vars
    BY <1>2 DEF vars, Inv, Core, TypeOK, Shape, Ambiguous, Overlap, Orderly, Active
  <1> QED
    BY <1>1, <1>2

LEMMA Invariance == Spec => []Inv
  <1>1. Init => Inv
    <2> SUFFICES ASSUME Init
                 PROVE  Inv
      OBVIOUS
    <2>1. Core
      BY IdleType DEF Init, Core, TypeOK
    <2>2. Overlap(req) = {}
      BY NoneAssumption DEF Init, Idle, Overlap
    <2>3. \A m \in Mobiles : Orderly(m)
      BY NoneAssumption DEF Init, Idle, Orderly, Active
    <2> QED
      BY <2>1, <2>2, <2>3 DEF Inv
  <1> QED
    BY <1>1, InvNext, PTL DEF Spec

---------------------------------------------------------------------------
(* Theorems *)

\* Every variable keeps its type in every reachable state.
THEOREM TypeCorrect == Spec => []TypeOK
  <1>1. Inv => TypeOK
    BY DEF Inv, Core
  <1> QED
    BY <1>1, Invariance, PTL

\* A mobile has two active codes only if requests for it overlapped.
THEOREM OneActiveHolds == Spec => []OneActiveUnlessOverlap
  <1>1. Inv => OneActiveUnlessOverlap
    <2> SUFFICES ASSUME Inv, NEW m \in Mobiles \ raced, NEW i \in Active(m), NEW j \in Active(m)
                 PROVE  i = j
      BY DEF OneActiveUnlessOverlap
    <2>1. i <= j /\ j <= i
      BY DEF Inv, Orderly, Active
    <2>2. i \in Nat /\ j \in Nat
      BY DEF Inv, Core, TypeOK, Active
    <2> QED
      BY <2>1, <2>2
  <1> QED
    BY <1>1, Invariance, PTL

\* Unless requests for the mobile overlap, no more than MAX_ATTEMPTS wrong codes
\* are answered for a code.
THEOREM BudgetHolds == Spec => []BudgetUnlessOverlap
  <1>1. Inv => BudgetUnlessOverlap
    <2> SUFFICES ASSUME Inv, NEW i \in DOMAIN otps, otps[i].identifier \notin raced
                 PROVE  wrong[i] <= MAX_ATTEMPTS
      BY DEF BudgetUnlessOverlap
    <2>1. otps[i] \in OtpVerification
      BY DEF Inv, Core, TypeOK
    <2>2. otps[i].identifier \in Mobiles
      BY <2>1 DEF OtpVerification
    <2> QED
      BY <2>2 DEF Inv, Orderly
  <1> QED
    BY <1>1, Invariance, PTL

\* Unless requests for the mobile overlap, a code is accepted once, and only
\* while it is the one sent last.
THEOREM AcceptsLatestOnceHolds == Spec => AcceptsLatestOnce
  <1>1. Inv => [\A r \in Reqs : CommitAccept(r) /\ req[r].mobile \notin raced =>
                  \A i \in req[r].seen :
                     /\ i \notin accepted
                     /\ \A j \in DOMAIN otps : otps[j].identifier = req[r].mobile => j <= i]_vars
    <2> SUFFICES ASSUME Inv, NEW r \in Reqs, CommitAccept(r), req[r].mobile \notin raced,
                        NEW i \in req[r].seen
                 PROVE  /\ i \notin accepted
                        /\ \A j \in DOMAIN otps : otps[j].identifier = req[r].mobile => j <= i
      OBVIOUS
    <2>1. req[r].mobile \in Mobiles
      BY DEF Inv, Core, Shape, CommitAccept, MarkUsed
    <2>2. req[r].seen = Active(req[r].mobile)
      BY <2>1 DEF Inv, Orderly
    <2>3. i \in DOMAIN otps /\ otps[i].is_used = 0
      BY <2>2 DEF Active
    <2> QED
      BY <2>1, <2>2, <2>3 DEF Inv, Core, Orderly
  <1> QED
    BY <1>1, Invariance, PTL DEF AcceptsLatestOnce

\* A used code stays used, however requests interleave.
THEOREM UsedIsFinalHolds == Spec => UsedIsFinal
  <1>1. Inv /\ [Next]_vars => [\A i \in DOMAIN otps : otps[i].is_used = 1 => otps'[i].is_used = 1]_vars
    <2> SUFFICES ASSUME Inv, Next, NEW i \in DOMAIN otps, otps[i].is_used = 1
                 PROVE  otps'[i].is_used = 1
      OBVIOUS
    <2>1. otps \in Seq(OtpVerification) /\ \A j \in DOMAIN otps : otps[j] \in OtpVerification
      BY DEF Inv, Core, TypeOK
    <2>2. ASSUME NEW r \in Reqs, CommitReject(r) \/ CommitAccept(r)
          PROVE  otps'[i].is_used = 1
      BY <2>1, <2>2 DEF CommitReject, CountAttempt, CommitAccept, MarkUsed, OtpVerification
    <2>3. ASSUME NEW r \in Reqs, CommitSend(r)
          PROVE  otps'[i].is_used = 1
      <3> DEFINE old == [j \in DOMAIN otps |->
                           IF j \in req[r].seen THEN [otps[j] EXCEPT !.is_used = 1] ELSE otps[j]]
      <3>1. old \in Seq(OtpVerification) /\ Len(old) = Len(otps) /\ old[i].is_used = 1
        <4>1. old \in [DOMAIN otps -> OtpVerification]
          BY <2>1 DEF OtpVerification
        <4>2. old[i].is_used = 1
          BY <2>1 DEF OtpVerification
        <4> QED
          BY <2>1, <4>1, <4>2, MapSeq
      <3>2. PICK new : otps' = Append(old, new)
        BY <2>3 DEF CommitSend, MarkUsed
      <3> HIDE DEF old
      <3>3. otps'[i] = old[i]
        BY <2>1, <3>1, <3>2
      <3> QED
        BY <3>1, <3>3
    <2>4. CASE UNCHANGED otps
      BY <2>4
    <2> QED
      BY <2>2, <2>3, <2>4 DEF Next, Step, BeginSend, BeginVerify, Snapshot, SendAmbiguous,
         DrawCode, VerifyRefused, Compare, Abort, Tick
  <1> QED
    BY <1>1, Invariance, PTL DEF Spec, UsedIsFinal

---------------------------------------------------------------------------
(* Otp implements OneTimeCode *)

InForceNow == [m \in Mobiles |-> InForce(m)]
VerdictNow == [m \in Mobiles |-> Verdict(m)]

\* The answer a request is about to give.
Answer(q) == IF q.pc = "accept" THEN "right" ELSE IF q.pc = "reject" THEN "wrong" ELSE None

\* The rows of a mobile that are in force, and what was answered for them, stay.
SameRows(m) ==
    /\ Active(m)' = Active(m)
    /\ \A i \in Active(m) : otps'[i] = otps[i] /\ wrong'[i] = wrong[i]

LEMMA SameInForce ==
    ASSUME NEW m, SameRows(m), m \in raced' <=> m \in raced
    PROVE  InForce(m)' = InForce(m)
  <1>1. CASE Active(m) = {}
    BY <1>1 DEF SameRows, InForce
  <1>2. CASE Active(m) # {}
    <2>1. (CHOOSE i \in Active(m) : TRUE) \in Active(m)
      BY <1>2
    <2> QED
      BY <1>2, <2>1 DEF SameRows, InForce
  <1> QED
    BY <1>1, <1>2

\* The one row of an orderly mobile is the code in force.
LEMMA TheRow ==
    ASSUME Inv, NEW m \in Mobiles, m \notin raced, NEW i \in Active(m)
    PROVE  /\ Active(m) = {i}
           /\ InForce(m) = [code |-> otps[i].otp, deadline |-> otps[i].expires_at,
                            tries |-> wrong[i]]
  <1>1. \A j \in Active(m) : j = i
    <2>1. \A j \in Active(m) : j <= i /\ i <= j /\ j \in Nat /\ i \in Nat
      BY DEF Inv, Core, TypeOK, Orderly, Active
    <2> QED
      BY <2>1
  <1>2. Active(m) = {i} /\ (CHOOSE j \in Active(m) : TRUE) = i
    BY <1>1
  <1> QED
    BY <1>2 DEF InForce

\* Only request r, if any, works on mobile m.
LEMMA TheVerdict ==
    ASSUME NEW m, m \notin raced, NEW r \in Reqs, \A i \in Reqs : i # r => req[i].mobile # m
    PROVE  Verdict(m) = IF req[r].mobile = m THEN Answer(req[r]) ELSE None
  BY DEF Verdict, Answer

\* What a step of the program can be for one mobile, in the words of OneTimeCode.
Outcome(u) ==
    \/ /\ InForce(u)' = InForce(u) /\ Verdict(u)' = Verdict(u)
       /\ raced' = raced
    \/ /\ u \notin raced
       /\ \/ /\ Verdict(u) = None
             /\ InForce(u)' \in [code : Codes, deadline : 0 .. now + OTP_EXPIRE, tries : {0}]
             /\ Verdict(u)' = None
             /\ raced' = raced
          \/ /\ Verdict(u) = None
             /\ InForce(u) # None
             /\ InForce(u).tries < MAX_ATTEMPTS
             /\ InForce(u).deadline >= now
             /\ \E c \in Codes :
                   Verdict(u)' = IF c = InForce(u).code THEN "right" ELSE "wrong"
             /\ InForce(u)' = InForce(u)
             /\ raced' = raced
          \/ /\ Verdict(u) = "wrong"
             /\ InForce(u)' = [InForce(u) EXCEPT !.tries = @ + 1]
             /\ Verdict(u)' = None
             /\ raced' = raced
          \/ /\ Verdict(u) = "right"
             /\ InForce(u)' = None
             /\ Verdict(u)' = None
             /\ raced' = raced
          \/ /\ InForce(u)' = InForce(u)
             /\ Verdict(u)' = None
             /\ raced' = raced
          \/ /\ raced' = raced \cup {u}
             /\ InForce(u)' = None
             /\ Verdict(u)' = None

\* A step of request r for mobile u leaves the other mobiles as they were.
Elsewhere(u) ==
    \A m \in Mobiles : m # u => InForce(m)' = InForce(m) /\ Verdict(m)' = Verdict(m)

LEMMA OutcomeMaps ==
    ASSUME NEW u \in Mobiles, now' = now, Elsewhere(u), Outcome(u)
    PROVE  Promise!Next \/ UNCHANGED Promise!vars
  <1> DEFINE f == InForceNow
             v == VerdictNow
  <1>1. /\ f' = [f EXCEPT ![u] = f'[u]]
        /\ v' = [v EXCEPT ![u] = v'[u]]
    BY DEF Elsewhere, InForceNow, VerdictNow
  <1>2. f[u] = InForce(u) /\ v[u] = Verdict(u) /\ f'[u] = InForce(u)' /\ v'[u] = Verdict(u)'
    BY DEF InForceNow, VerdictNow
  <1>3. ASSUME InForce(u)' = InForce(u)
        PROVE  f' = f
    BY <1>1, <1>2, <1>3 DEF InForceNow
  <1>4. ASSUME Verdict(u)' = Verdict(u)
        PROVE  v' = v
    BY <1>1, <1>2, <1>4 DEF VerdictNow
  <1>5. CASE InForce(u)' = InForce(u) /\ Verdict(u)' = Verdict(u) /\ raced' = raced
    BY <1>3, <1>4, <1>5 DEF Promise!vars, InForceNow, VerdictNow
  <1>6. CASE /\ u \notin raced /\ Verdict(u) = None
             /\ InForce(u)' \in [code : Codes, deadline : 0 .. now + OTP_EXPIRE, tries : {0}]
             /\ Verdict(u)' = None
             /\ raced' = raced
    <2>1. f'[u] \in [code : Codes, deadline : 0 .. now + OTP_EXPIRE, tries : {0}]
      BY <1>2, <1>6
    <2>2. v[u] = None /\ v' = v
      BY <1>2, <1>4, <1>6
    <2>3. Promise!Send(u)
      BY <1>1, <1>6, <2>1, <2>2 DEF Promise!Send, Promise!NewCode, InForceNow, VerdictNow
    <2> QED
      BY <1>6, <2>3 DEF Promise!Next
  <1>7. ASSUME u \notin raced, Verdict(u) = None, InForce(u) # None,
               InForce(u).tries < MAX_ATTEMPTS, InForce(u).deadline >= now,
               NEW c \in Codes, Verdict(u)' = IF c = InForce(u).code THEN "right" ELSE "wrong",
               InForce(u)' = InForce(u), raced' = raced
        PROVE  Promise!Next
    <2>1. f' = f
      BY <1>3, <1>7
    <2>2. v' = [v EXCEPT ![u] = IF c = f[u].code THEN "right" ELSE "wrong"]
      BY <1>1, <1>2, <1>7
    <2>3. v[u] = None /\ f[u] # None /\ f[u].tries < MAX_ATTEMPTS /\ f[u].deadline >= now
      BY <1>2, <1>7
    <2>4. Promise!Judge(u, c)
      BY <1>7, <2>1, <2>2, <2>3 DEF Promise!Judge, InForceNow, VerdictNow
    <2> QED
      BY <1>7, <2>4 DEF Promise!Next
  <1>8. CASE /\ u \notin raced /\ Verdict(u) = "wrong"
             /\ InForce(u)' = [InForce(u) EXCEPT !.tries = @ + 1]
             /\ Verdict(u)' = None
             /\ raced' = raced
    <2>1. v[u] = "wrong" /\ v' = [v EXCEPT ![u] = None]
      BY <1>1, <1>2, <1>8
    <2>2. f' = [f EXCEPT ![u].tries = @ + 1]
      BY <1>1, <1>2, <1>8
    <2>3. Promise!SayWrong(u)
      BY <1>8, <2>1, <2>2 DEF Promise!SayWrong, InForceNow, VerdictNow
    <2> QED
      BY <1>8, <2>3 DEF Promise!Next
  <1>9. CASE /\ u \notin raced /\ Verdict(u) = "right" /\ InForce(u)' = None
             /\ Verdict(u)' = None
             /\ raced' = raced
    <2>1. v[u] = "right" /\ v' = [v EXCEPT ![u] = None] /\ f' = [f EXCEPT ![u] = None]
      BY <1>1, <1>2, <1>9
    <2>2. Promise!SayRight(u)
      BY <1>9, <2>1 DEF Promise!SayRight, InForceNow, VerdictNow
    <2> QED
      BY <1>9, <2>2 DEF Promise!Next
  <1>10. CASE /\ u \notin raced /\ InForce(u)' = InForce(u) /\ Verdict(u)' = None
              /\ raced' = raced
    <2>1. v' = [v EXCEPT ![u] = None] /\ f' = f
      BY <1>1, <1>2, <1>3, <1>10
    <2>2. Promise!Withdraw(u)
      BY <1>10, <2>1 DEF Promise!Withdraw, InForceNow, VerdictNow
    <2> QED
      BY <1>10, <2>2 DEF Promise!Next
  <1>11. CASE /\ u \notin raced /\ raced' = raced \cup {u} /\ InForce(u)' = None
              /\ Verdict(u)' = None
    <2>1. v' = [v EXCEPT ![u] = None] /\ f' = [f EXCEPT ![u] = None]
      BY <1>1, <1>2, <1>11
    <2>2. Promise!Lose(u)
      BY <1>11, <2>1 DEF Promise!Lose, InForceNow, VerdictNow
    <2> QED
      BY <1>11, <2>2 DEF Promise!Next
  <1> QED
    BY <1>5, <1>6, <1>7, <1>8, <1>9, <1>10, <1>11 DEF Outcome

\* Request r works on mobile u: it touches neither other requests nor the rows
\* of other mobiles.
Acts(r, u) ==
    /\ \A i \in Reqs : i # r => req'[i] = req[i]
    /\ {req[r].mobile, req'[r].mobile} \subseteq {u, None}
    /\ req[r].mobile = u \/ req'[r].mobile = u
    /\ \A m \in Mobiles : m # u => SameRows(m)

LEMMA OthersStay ==
    ASSUME Inv, NEW r \in Reqs, NEW u \in Mobiles, Acts(r, u), raced' = raced \cup Overlap(req')
    PROVE  Elsewhere(u) /\ raced' \subseteq raced \cup {u}
  <1>1. \A m \in Mobiles : m # None
    BY NoneAssumption
  <1>2. ASSUME NEW m \in Mobiles, m # u
        PROVE  /\ \A i \in Reqs : req[i].mobile = m \/ req'[i].mobile = m => i # r /\ req'[i] = req[i]
               /\ m \in raced' <=> m \in raced
    <2>1. \A i \in Reqs : req[i].mobile = m \/ req'[i].mobile = m => i # r /\ req'[i] = req[i]
      BY <1>1, <1>2 DEF Acts
    <2>2. m \in Overlap(req') => m \in Overlap(req)
      BY <2>1 DEF Overlap
    <2> QED
      BY <2>1, <2>2 DEF Inv
  <1>3. ASSUME NEW m \in Mobiles, m # u
        PROVE  InForce(m)' = InForce(m) /\ Verdict(m)' = Verdict(m)
    <2>1. InForce(m)' = InForce(m)
      BY <1>2, <1>3, SameInForce DEF Acts
    <2>2. Verdict(m)' = Verdict(m)
      BY <1>2, <1>3 DEF Verdict
    <2> QED
      BY <2>1, <2>2
  <1>4. raced' \subseteq raced \cup {u}
    <2>1. Overlap(req') \subseteq Mobiles
      BY DEF Overlap
    <2> QED
      BY <1>2, <2>1
  <1> QED
    BY <1>3, <1>4 DEF Elsewhere

\* While nobody else works on u, its verdict is what r found.
LEMMA Alone ==
    ASSUME Inv, NEW r \in Reqs, NEW u \in Mobiles, Acts(r, u), raced' = raced \cup Overlap(req'),
           u \notin raced'
    PROVE  /\ u \notin raced
           /\ raced' = raced
           /\ Verdict(u) = IF req[r].mobile = u THEN Answer(req[r]) ELSE None
           /\ Verdict(u)' = IF req'[r].mobile = u THEN Answer(req'[r]) ELSE None
  <1>1. u \notin raced /\ raced' = raced
    BY OthersStay
  <1>2. \A i \in Reqs : i # r => req[i].mobile # u /\ req'[i].mobile # u
    BY <1>1 DEF Acts, Overlap, Inv
  <1>3. Verdict(u) = IF req[r].mobile = u THEN Answer(req[r]) ELSE None
    BY <1>1, <1>2, TheVerdict
  <1>4. Verdict(u)' = IF req'[r].mobile = u THEN Answer(req'[r]) ELSE None
    BY <1>2 DEF Verdict, Answer
  <1> QED
    BY <1>1, <1>3, <1>4

\* A mobile on which requests have met is promised nothing.
LEMMA LostOutcome ==
    ASSUME Inv, NEW r \in Reqs, NEW u \in Mobiles, Acts(r, u), raced' = raced \cup Overlap(req'),
           u \in raced'
    PROVE  Outcome(u)
  <1>1. InForce(u)' = None /\ Verdict(u)' = None
    BY DEF InForce, Verdict
  <1>2. CASE u \in raced
    <2>1. InForce(u) = None /\ Verdict(u) = None
      BY <1>2 DEF InForce, Verdict
    <2>2. raced' = raced
      BY <1>2, OthersStay
    <2> QED
      BY <1>1, <2>1, <2>2 DEF Outcome
  <1>3. CASE u \notin raced
    <2>1. raced' = raced \cup {u}
      BY OthersStay
    <2> QED
      BY <1>1, <1>3, <2>1 DEF Outcome
  <1> QED
    BY <1>2, <1>3

\* A step that leaves the table alone, of a request that has nothing to say
\* before it, or after it.
LEMMA QuietOutcome ==
    ASSUME Inv, NEW r \in Reqs, NEW u \in Mobiles, UNCHANGED <<otps, wrong, accepted>>,
           \A i \in Reqs : i # r => req'[i] = req[i],
           {req[r].mobile, req'[r].mobile} \subseteq {u, None},
           req[r].mobile = u \/ req'[r].mobile = u,
           raced' = raced \cup Overlap(req'),
           req'[r].pc \notin {"accept", "reject"}
    PROVE  Elsewhere(u) /\ Outcome(u)
  <1>1. Acts(r, u)
    BY DEF Acts, SameRows, Active
  <1>2. ASSUME u \notin raced'
        PROVE  Outcome(u)
    <2>1. u \notin raced /\ raced' = raced /\ Verdict(u)' = None
      BY <1>1, <1>2, Alone DEF Answer
    <2>2. InForce(u)' = InForce(u)
      BY <2>1, SameInForce DEF SameRows, Active
    <2> QED
      BY <2>1, <2>2 DEF Outcome
  <1> QED
    BY <1>1, <1>2, OthersStay, LostOutcome

\* What a commit writes, it writes into rows of the request's own mobile.
LEMMA CommitActs ==
    ASSUME Inv, Inv', NEW r \in Reqs, CommitSend(r) \/ CommitReject(r) \/ CommitAccept(r),
           NEW u, u = req[r].mobile
    PROVE  u \in Mobiles /\ req'[r] = Idle /\ Acts(r, u)
  <1> DEFINE q == req[r]
  <1>1. /\ \A i \in Reqs : req[i] \in Request /\ Shape(req[i])
        /\ \A i \in DOMAIN otps : otps[i] \in OtpVerification
        /\ DOMAIN otps = 1 .. Len(otps) /\ Len(otps) \in Nat
        /\ DOMAIN wrong = DOMAIN otps /\ wrong \in Seq(Nat)
        /\ otps \in Seq(OtpVerification)
    BY DEF Inv, Core, TypeOK
  <1>2. q.pc \in {"send", "reject", "accept"}
    BY DEF CommitSend, CommitReject, CommitAccept
  <1>3. q.mobile \in Mobiles
    BY <1>1, <1>2 DEF Shape
  <1>4. Finish(r)
    BY DEF CommitSend, CommitReject, CommitAccept
  <1>5. (\A i \in Reqs : i # r => req'[i] = req[i]) /\ req'[r] = Idle
    BY <1>4, FinishEffect DEF Inv
  <1>6. ASSUME NEW i \in DOMAIN otps, otps[i].identifier # q.mobile
        PROVE  i \in DOMAIN otps' /\ otps'[i] = otps[i] /\ wrong'[i] = wrong[i]
    <2>1. i \notin q.seen
      BY <1>1, <1>6 DEF Shape
    <2>2. CASE CommitReject(r) \/ CommitAccept(r)
      BY <1>1, <2>1, <2>2 DEF CommitReject, CommitAccept, CountAttempt, MarkUsed
    <2>3. CASE CommitSend(r)
      <3> DEFINE old == [j \in DOMAIN otps |->
                           IF j \in q.seen THEN [otps[j] EXCEPT !.is_used = 1] ELSE otps[j]]
      <3>1. old \in Seq(OtpVerification) /\ Len(old) = Len(otps) /\ old[i] = otps[i]
        <4>1. old \in [DOMAIN otps -> OtpVerification]
          BY <1>1 DEF OtpVerification
        <4>2. old[i] = otps[i]
          BY <2>1
        <4> HIDE DEF old
        <4>3. old \in Seq(OtpVerification) /\ Len(old) = Len(otps)
          BY <1>1, <4>1, MapSeq
        <4> QED
          BY <4>2, <4>3
      <3>2. PICK new : otps' = Append(old, new) /\ wrong' = Append(wrong, 0)
        BY <2>3 DEF CommitSend, MarkUsed
      <3> HIDE DEF old
      <3>3. i \in DOMAIN otps' /\ otps'[i] = old[i] /\ wrong'[i] = wrong[i]
        BY <1>1, <3>1, <3>2
      <3> QED
        BY <3>1, <3>3
    <2> QED
      BY <2>2, <2>3
  <1>7. ASSUME NEW i \in DOMAIN otps', otps'[i].identifier # q.mobile
        PROVE  i \in DOMAIN otps /\ otps[i].identifier # q.mobile
    <2>2. CASE CommitReject(r) \/ CommitAccept(r)
      <3>1. i \in DOMAIN otps /\ otps'[i].identifier = otps[i].identifier
        BY <1>1, <2>2 DEF CommitReject, CommitAccept, CountAttempt, MarkUsed, OtpVerification
      <3> QED
        BY <1>7, <3>1
    <2>3. CASE CommitSend(r)
      <3> DEFINE old == [j \in DOMAIN otps |->
                           IF j \in q.seen THEN [otps[j] EXCEPT !.is_used = 1] ELSE otps[j]]
                 new == [identifier |-> q.mobile, otp |-> q.code, expires_at |-> q.expires_at,
                         is_used |-> 0, attempts |-> 0]
      <3>1. /\ old \in Seq(OtpVerification) /\ Len(old) = Len(otps)
            /\ \A j \in DOMAIN otps : old[j].identifier = otps[j].identifier
        <4>1. /\ old \in [DOMAIN otps -> OtpVerification]
              /\ \A j \in DOMAIN otps : old[j].identifier = otps[j].identifier
          BY <1>1 DEF OtpVerification
        <4> HIDE DEF old
        <4>2. old \in Seq(OtpVerification) /\ Len(old) = Len(otps)
          BY <1>1, <4>1, MapSeq
        <4> QED
          BY <4>1, <4>2
      <3>2. otps' = Append(old, new) /\ new.identifier = q.mobile
        BY <2>3 DEF CommitSend, MarkUsed
      <3> HIDE DEF old, new
      <3>3. \/ i = Len(otps) + 1 /\ otps'[i] = new
            \/ i \in DOMAIN otps /\ otps'[i] = old[i]
        BY <1>1, <3>1, <3>2
      <3> QED
        BY <1>7, <3>1, <3>2, <3>3
    <2> QED
      BY <2>2, <2>3
  <1>8. ASSUME NEW m \in Mobiles, m # q.mobile
        PROVE  SameRows(m)
    <2>1. \A i : i \in Active(m)' <=> i \in Active(m)
      BY <1>6, <1>7, <1>8 DEF Active
    <2>2. Active(m)' = Active(m)
      BY <2>1
    <2>3. \A i \in Active(m) : otps'[i] = otps[i] /\ wrong'[i] = wrong[i]
      BY <1>6, <1>8 DEF Active
    <2> QED
      BY <2>2, <2>3 DEF SameRows
  <1> QED
    BY <1>3, <1>5, <1>8 DEF Acts, Idle

LEMMA CompareOutcome ==
    ASSUME Inv, NEW r \in Reqs, Compare(r),
           NEW u, u = req[r].mobile, raced' = raced \cup Overlap(req')
    PROVE  u \in Mobiles /\ Elsewhere(u) /\ Outcome(u)
  <1>1. /\ req[r] \in Request /\ Shape(req[r]) /\ req \in [Reqs -> Request]
        /\ \A i \in DOMAIN otps : otps[i] \in OtpVerification
    BY DEF Inv, Core, TypeOK
  <1>2. PICK i \in req[r].seen :
             /\ req[r].attempts < MAX_ATTEMPTS
             /\ otps[i].expires_at >= now
             /\ req' = [req EXCEPT ![r] = [@ EXCEPT !.pc =
                           IF otps[i].otp = req[r].code THEN "accept" ELSE "reject"]]
    BY DEF Compare
  <1>3. u \in Mobiles /\ req[r].code \in Codes /\ UNCHANGED <<otps, wrong>>
    BY <1>1 DEF Compare, Shape
  <1>4. /\ \A j \in Reqs : j # r => req'[j] = req[j]
        /\ req'[r].mobile = u
        /\ req'[r].pc = IF otps[i].otp = req[r].code THEN "accept" ELSE "reject"
    BY <1>1, <1>2 DEF Request
  <1>5. Acts(r, u)
    BY <1>3, <1>4 DEF Acts, SameRows, Active
  <1>6. ASSUME u \notin raced'
        PROVE  Outcome(u)
    <2>1. /\ u \notin raced /\ raced' = raced
          /\ Verdict(u) = Answer(req[r])
          /\ Verdict(u)' = Answer(req'[r])
      BY <1>3, <1>4, <1>5, <1>6, Alone
    <2>2. Verdict(u) = None
      BY <2>1 DEF Compare, Answer
    <2>3. i \in Active(u) /\ req[r].attempts = otps[i].attempts
      BY <1>2, <1>3, <2>1 DEF Inv, Orderly
    <2>4. wrong[i] = req[r].attempts
      BY <1>3, <2>1, <2>3 DEF Inv, Orderly, Active
    <2>n. /\ otps[i] \in OtpVerification
          /\ i \in DOMAIN wrong /\ wrong[i] \in Nat
      BY <1>1, <2>3 DEF Active, Inv, Core, TypeOK
    <2>5. /\ InForce(u) # None
          /\ InForce(u).code = otps[i].otp /\ InForce(u).deadline = otps[i].expires_at
          /\ InForce(u).tries = wrong[i]
      <3> DEFINE row == [code |-> otps[i].otp, deadline |-> otps[i].expires_at,
                         tries |-> wrong[i]]
      <3>1. InForce(u) = row
        BY <1>3, <2>1, <2>3, TheRow
      <3>2. row # None
        BY <2>n, NoneAssumption DEF OtpVerification
      <3> QED
        BY <3>1, <3>2
    <2>6. InForce(u)' = InForce(u)
      <3>1. SameRows(u)
        BY <1>3 DEF SameRows, Active
      <3> QED
        BY <2>1, <3>1, SameInForce
    <2>7. Verdict(u)' = IF req[r].code = InForce(u).code THEN "right" ELSE "wrong"
      BY <1>4, <2>1, <2>5 DEF Answer
    <2> QED
      BY <1>2, <1>3, <2>1, <2>2, <2>4, <2>5, <2>6, <2>7 DEF Outcome
  <1> QED
    BY <1>3, <1>5, <1>6, OthersStay, LostOutcome

\* A new code is in force as soon as it is committed.
LEMMA SendOutcome ==
    ASSUME Inv, Inv', NEW r \in Reqs, CommitSend(r),
           NEW u, u = req[r].mobile, raced' = raced \cup Overlap(req')
    PROVE  u \in Mobiles /\ Elsewhere(u) /\ Outcome(u)
  <1> DEFINE n == Len(otps) + 1
  <1>1. u \in Mobiles /\ Acts(r, u) /\ req'[r] = Idle
    BY CommitActs
  <1>2. /\ req[r] \in Request /\ Shape(req[r])
        /\ Len(otps) \in Nat /\ wrong \in Seq(Nat) /\ Len(wrong) = Len(otps)
        /\ otps \in Seq(OtpVerification) /\ \A i \in DOMAIN otps : otps[i] \in OtpVerification
    BY DEF Inv, Core, TypeOK
  <1>3. ASSUME u \notin raced'
        PROVE  Outcome(u)
    <2>1. /\ u \notin raced /\ raced' = raced
          /\ Verdict(u) = Answer(req[r])
          /\ Verdict(u)' = None
      <3>1. req'[r].mobile # u
        BY <1>1, NoneAssumption DEF Idle
      <3> QED
        BY <1>1, <1>3, <3>1, Alone
    <2>2. Verdict(u) = None
      BY <2>1 DEF CommitSend, Answer
    <2>3. /\ n \in DOMAIN otps' /\ wrong'[n] = 0
          /\ otps'[n] = [identifier |-> u, otp |-> req[r].code, expires_at |-> req[r].expires_at,
                         is_used |-> 0, attempts |-> 0]
      <3> DEFINE old == [i \in DOMAIN otps |->
                           IF i \in req[r].seen THEN [otps[i] EXCEPT !.is_used = 1] ELSE otps[i]]
      <3>1. old \in [DOMAIN otps -> OtpVerification]
        BY <1>2 DEF OtpVerification
      <3>2. /\ otps' = Append(old, [identifier |-> u, otp |-> req[r].code,
                                    expires_at |-> req[r].expires_at,
                                    is_used |-> 0, attempts |-> 0])
            /\ wrong' = Append(wrong, 0)
        BY DEF CommitSend, MarkUsed
      <3> HIDE DEF old
      <3>3. old \in Seq(OtpVerification) /\ Len(old) = Len(otps)
        BY <1>2, <3>1, MapSeq
      <3> QED
        BY <1>2, <3>2, <3>3
    <2>4. n \in Active(u)'
      BY <2>3 DEF Active
    <2>5. \A i \in Active(u)' : i = n
      <3>1. \A i \in Active(u)' : i <= n /\ n <= i /\ i \in Nat
        <4>1. DOMAIN otps' \subseteq Nat /\ u \notin raced'
          BY <1>3 DEF Inv, Core, TypeOK
        <4>2. \A i \in Active(u)', j \in DOMAIN otps' : otps'[j].identifier = u => j <= i
          BY <1>1, <4>1 DEF Inv, Orderly
        <4> QED
          BY <2>3, <2>4, <4>1, <4>2 DEF Active
      <3> QED
        BY <1>2, <3>1
    <2>6. InForce(u)' = [code |-> req[r].code, deadline |-> req[r].expires_at, tries |-> 0]
      <3>1. Active(u)' # {} /\ (CHOOSE i \in Active(u)' : TRUE) = n
        BY <2>4, <2>5
      <3>2. InForce(u)' = [code |-> otps'[n].otp, deadline |-> otps'[n].expires_at,
                           tries |-> wrong'[n]]
        BY <1>3, <3>1 DEF InForce
      <3> QED
        BY <2>3, <3>2
    <2>7. req[r].code \in Codes /\ req[r].expires_at \in 0 .. now + OTP_EXPIRE
      <3>1. req[r].code \in Codes /\ req[r].expires_at <= now + OTP_EXPIRE
        BY <1>2 DEF CommitSend, Shape
      <3>2. req[r].expires_at \in Nat /\ now + OTP_EXPIRE \in Nat
        BY <1>2, ExpireAssumption DEF Request, Inv, Core, TypeOK
      <3> QED
        BY <3>1, <3>2
    <2> QED
      BY <2>1, <2>2, <2>6, <2>7 DEF Outcome
  <1> QED
    BY <1>1, <1>3, OthersStay, LostOutcome

\* A wrong answer costs a try of the code in force.
LEMMA RejectOutcome ==
    ASSUME Inv, Inv', NEW r \in Reqs, CommitReject(r),
           NEW u, u = req[r].mobile, raced' = raced \cup Overlap(req')
    PROVE  u \in Mobiles /\ Elsewhere(u) /\ Outcome(u)
  <1>1. u \in Mobiles /\ Acts(r, u) /\ req'[r] = Idle
    BY CommitActs
  <1>2. /\ req[r] \in Request /\ Shape(req[r])
        /\ DOMAIN wrong = DOMAIN otps
        /\ \A i \in DOMAIN otps : otps[i] \in OtpVerification /\ wrong[i] \in Nat
    BY DEF Inv, Core, TypeOK
  <1>3. ASSUME u \notin raced'
        PROVE  Outcome(u)
    <2>1. /\ u \notin raced /\ raced' = raced
          /\ Verdict(u) = Answer(req[r])
          /\ Verdict(u)' = None
      <3>1. req'[r].mobile # u
        BY <1>1, NoneAssumption DEF Idle
      <3> QED
        BY <1>1, <1>3, <3>1, Alone
    <2>2. Verdict(u) = "wrong"
      BY <2>1 DEF CommitReject, Answer
    <2>3. req[r].seen = Active(u) /\ req[r].seen # {}
      BY <1>1, <1>2, <2>1 DEF Inv, Orderly, CommitReject, Shape
    <2>4. PICK i : i \in Active(u)
      BY <2>3
    <2>5. /\ i \in DOMAIN otps /\ wrong[i] <= MAX_ATTEMPTS /\ wrong[i] \in Nat
          /\ Active(u) = {i}
          /\ InForce(u) = [code |-> otps[i].otp, deadline |-> otps[i].expires_at,
                           tries |-> wrong[i]]
      <3>1. i \in DOMAIN otps /\ otps[i].identifier = u
        BY <2>4 DEF Active
      <3>2. wrong[i] <= MAX_ATTEMPTS /\ wrong[i] \in Nat
        BY <1>1, <1>2, <2>1, <3>1 DEF Inv, Orderly
      <3> QED
        BY <1>1, <2>1, <2>4, <3>1, <3>2, TheRow
    <2>6. /\ DOMAIN otps' = DOMAIN otps
          /\ \A j \in DOMAIN otps : /\ otps'[j].identifier = otps[j].identifier
                                    /\ otps'[j].is_used = otps[j].is_used
                                    /\ otps'[j].otp = otps[j].otp
                                    /\ otps'[j].expires_at = otps[j].expires_at
      BY <1>2 DEF CommitReject, CountAttempt, OtpVerification
    <2>7. Active(u)' = {i}
      <3>1. Active(u)' = Active(u)
        BY <2>6 DEF Active
      <3> QED
        BY <2>5, <3>1
    <2>8. wrong'[i] = wrong[i] + 1
      BY <1>2, <2>3, <2>4, <2>5 DEF CommitReject
    <2>9. InForce(u)' = [code |-> otps[i].otp, deadline |-> otps[i].expires_at,
                         tries |-> wrong[i] + 1]
      <3>1. Active(u)' # {} /\ (CHOOSE j \in Active(u)' : TRUE) = i
        BY <2>7
      <3> QED
        BY <1>3, <2>5, <2>6, <2>8, <3>1 DEF InForce
    <2>10. InForce(u)' = [InForce(u) EXCEPT !.tries = @ + 1]
      BY <2>5, <2>9
    <2> QED
      BY <2>1, <2>2, <2>10 DEF Outcome
  <1> QED
    BY <1>1, <1>3, OthersStay, LostOutcome

\* A right answer ends the code in force.
LEMMA AcceptOutcome ==
    ASSUME Inv, Inv', NEW r \in Reqs, CommitAccept(r),
           NEW u, u = req[r].mobile, raced' = raced \cup Overlap(req')
    PROVE  u \in Mobiles /\ Elsewhere(u) /\ Outcome(u)
  <1>1. u \in Mobiles /\ Acts(r, u) /\ req'[r] = Idle
    BY CommitActs
  <1>2. \A i \in DOMAIN otps : otps[i] \in OtpVerification
    BY DEF Inv, Core, TypeOK
  <1>3. ASSUME u \notin raced'
        PROVE  Outcome(u)
    <2>1. /\ u \notin raced /\ raced' = raced
          /\ Verdict(u) = Answer(req[r])
          /\ Verdict(u)' = None
      <3>1. req'[r].mobile # u
        BY <1>1, NoneAssumption DEF Idle
      <3> QED
        BY <1>1, <1>3, <3>1, Alone
    <2>2. Verdict(u) = "right"
      BY <2>1 DEF CommitAccept, Answer
    <2>3. req[r].seen = Active(u)
      BY <1>1, <2>1 DEF Inv, Orderly
    <2>4. Active(u)' = {}
      <3>1. ASSUME NEW i \in DOMAIN otps, otps'[i].identifier = u
            PROVE  otps'[i].is_used # 0
        <4>1. CASE i \in req[r].seen
          BY <1>2, <4>1 DEF CommitAccept, MarkUsed, OtpVerification
        <4>2. CASE i \notin req[r].seen
          <5>1. otps'[i] = otps[i]
            BY <4>2 DEF CommitAccept, MarkUsed
          <5> QED
            BY <2>3, <3>1, <4>2, <5>1 DEF Active
        <4> QED
          BY <4>1, <4>2
      <3>2. DOMAIN otps' = DOMAIN otps
        BY DEF CommitAccept, MarkUsed
      <3> QED
        BY <3>1, <3>2 DEF Active
    <2>5. InForce(u)' = None
      BY <2>4 DEF InForce
    <2> QED
      BY <2>1, <2>2, <2>5 DEF Outcome
  <1> QED
    BY <1>1, <1>3, OthersStay, LostOutcome

\* Every step of the program is a step of OneTimeCode, or none.
LEMMA StepMaps ==
    ASSUME Inv, Inv', Step, raced' = raced \cup Overlap(req')
    PROVE  Promise!Next \/ UNCHANGED Promise!vars
  <1>1. \A r \in Reqs : req[r] \in Request /\ Shape(req[r]) /\ req \in [Reqs -> Request]
    BY DEF Inv, Core, TypeOK
  <1>2. ASSUME NEW r \in Reqs, NEW pc \in {"sending", "verifying"}, NEW u \in Mobiles,
               NEW c \in Codes \cup {None}, Snapshot(r, pc, u, c)
        PROVE  Promise!Next \/ UNCHANGED Promise!vars
    <2>1. /\ req[r].mobile = None /\ req'[r].mobile = u /\ req'[r].pc = pc
          /\ \A i \in Reqs : i # r => req'[i] = req[i]
          /\ UNCHANGED <<now, otps, wrong, accepted>>
      <3> DEFINE a == IF \E i \in Active(u) : Active(u) = {i}
                      THEN otps[CHOOSE i \in Active(u) : TRUE].attempts ELSE 0
                 q == [Idle EXCEPT !.pc = pc, !.mobile = u, !.code = c,
                                   !.seen = Active(u), !.attempts = a]
      <3>1. /\ req[r] = Idle /\ req' = [req EXCEPT ![r] = q]
            /\ UNCHANGED <<now, otps, wrong, accepted>>
        BY <1>2 DEF Snapshot
      <3> HIDE DEF a
      <3>2. q.mobile = u /\ q.pc = pc /\ Idle.mobile = None
        BY DEF Idle
      <3> HIDE DEF q
      <3> QED
        BY <1>1, <3>1, <3>2
    <2>2. Elsewhere(u) /\ Outcome(u)
      BY <2>1, QuietOutcome
    <2> QED
      BY <2>1, <2>2, OutcomeMaps
  <1>3. ASSUME NEW r \in Reqs, req[r].pc # "idle", req'[r].mobile \in {req[r].mobile, None},
               req'[r].pc \in {"idle", "send"}, \A i \in Reqs : i # r => req'[i] = req[i],
               UNCHANGED <<now, otps, wrong, accepted>>
        PROVE  Promise!Next \/ UNCHANGED Promise!vars
    <2>1. PICK u \in Mobiles : u = req[r].mobile
      BY <1>1, <1>3 DEF Shape
    <2>2. Elsewhere(u) /\ Outcome(u)
      BY <1>3, <2>1, QuietOutcome
    <2> QED
      BY <1>3, <2>1, <2>2, OutcomeMaps
  <1>4. ASSUME NEW r \in Reqs, SendAmbiguous(r) \/ VerifyRefused(r) \/ Abort(r)
        PROVE  Promise!Next \/ UNCHANGED Promise!vars
    <2>1. /\ req'[r].mobile = None /\ req'[r].pc = "idle"
          /\ \A i \in Reqs : i # r => req'[i] = req[i]
      BY <1>4, FinishEffect DEF SendAmbiguous, VerifyRefused, Abort, Idle, Inv
    <2>2. req[r].pc # "idle" /\ UNCHANGED <<now, otps, wrong, accepted>>
      BY <1>4 DEF SendAmbiguous, VerifyRefused, Abort
    <2> QED
      BY <1>3, <2>1, <2>2
  <1>5. ASSUME NEW r \in Reqs, NEW c \in Codes, DrawCode(r, c)
        PROVE  Promise!Next \/ UNCHANGED Promise!vars
    <2>1. /\ req'[r].mobile = req[r].mobile /\ req'[r].pc = "send"
          /\ \A i \in Reqs : i # r => req'[i] = req[i]
      BY <1>1, <1>5 DEF DrawCode, Request
    <2> QED
      BY <1>3, <1>5, <2>1 DEF DrawCode
  <1>6. ASSUME NEW r \in Reqs, \/ Compare(r)
                               \/ CommitSend(r) \/ CommitReject(r) \/ CommitAccept(r)
        PROVE  Promise!Next \/ UNCHANGED Promise!vars
    <2>1. now' = now
      BY <1>6 DEF Compare, CommitSend, CommitReject, CommitAccept
    <2>n. PICK u : u = req[r].mobile
      OBVIOUS
    <2>2. u \in Mobiles /\ Elsewhere(u) /\ Outcome(u)
      BY <1>6, <2>n, CompareOutcome, SendOutcome, RejectOutcome, AcceptOutcome
    <2> QED
      BY <2>1, <2>2, OutcomeMaps
  <1>7. CASE Tick
    <2>1. raced' = raced
      BY <1>7 DEF Tick, Inv
    <2>2. \A m \in Mobiles : InForce(m)' = InForce(m) /\ Verdict(m)' = Verdict(m)
      BY <1>7, <2>1 DEF Tick, InForce, Verdict, Active
    <2>3. Promise!Tick
      BY <1>7, <2>1, <2>2 DEF Tick, Promise!Tick
    <2> QED
      BY <2>3 DEF Promise!Next
  <1> QED
    BY <1>2, <1>4, <1>5, <1>6, <1>7 DEF Step, BeginSend, BeginVerify

\* Otp implements OneTimeCode: for a mobile whose requests never overlapped,
\* rows, snapshots and rolled back transactions come to one code in force, the
\* one sent last, judged only within its deadline and its tries, and ended by
\* the first right answer.
THEOREM Refinement == Spec => ImplementsOneTimeCode
  <1>1. Init => Promise!Init
    <2> SUFFICES ASSUME Init
                 PROVE  Promise!Init
      OBVIOUS
    <2>1. \A m \in Mobiles : InForce(m) = None
      BY DEF Init, InForce, Active
    <2>2. \A m \in Mobiles : Verdict(m) = None
      BY DEF Init, Idle, Verdict
    <2> QED
      BY <2>1, <2>2 DEF Init, Promise!Init
  <1>2. Inv /\ Inv' /\ [Next]_vars => [Promise!Next]_(Promise!vars)
    <2> SUFFICES ASSUME Inv, Inv', [Next]_vars
                 PROVE  [Promise!Next]_(Promise!vars)
      OBVIOUS
    <2>1. CASE UNCHANGED vars
      BY <2>1 DEF vars, Promise!vars, InForce, Verdict, Active
    <2>2. CASE Next
      BY <2>2, StepMaps DEF Next
    <2> QED
      BY <2>1, <2>2
  <1> QED
    BY <1>1, <1>2, Invariance, PTL DEF Spec, ImplementsOneTimeCode, Promise!Spec

=============================================================================
