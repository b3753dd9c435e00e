------------------------ MODULE MonitoringAgentProofs ------------------------
(***************************************************************************)
(* Theorems about MonitoringAgent, for any number of rules and any times.  *)
(***************************************************************************)
EXTENDS MonitoringAgent, TLAPS

-----------------------------------------------------------------------------
(* The inductive invariant.                                                *)

(* The first i checks of a cycle take at most this long. *)
Until(i) == i * QUERY_TIMEOUT

(* At most this long has passed since the cycle began. *)
Position ==
  IF pc = "check" THEN Until(rule) - left
  ELSE Until(NRules) + MAIL_TIME - left + (IF pc = "sleep" THEN POLL_INTERVAL_SECONDS ELSE 0)

ToCheck(r) == pc = "check" /\ rule <= r

(* At most this long has passed since the last check of rule r. *)
Elapsed(r) ==
  Position - Until(r) + (IF ToCheck(r) THEN Cycle + POLL_INTERVAL_SECONDS ELSE 0)

(* How long the wait may take, and what has been gathered, at each place   *)
(* of the loop.                                                            *)
Places ==
  /\ pc = "check" => left <= QUERY_TIMEOUT /\ \A r \in triggered_alerts : r < rule
  /\ pc = "mail" => left <= MAIL_TIME
  /\ pc = "sleep" => left <= POLL_INTERVAL_SECONDS /\ rule = 1 /\ triggered_alerts = {}
  /\ pc = "hung" => left = 0

(* Silence lasts while the rule fires, and ends with a mail. *)
Silences ==
  \A r \in Rules :
    /\ r \notin firing => silent[r] = 0 /\ died[r] = 0
    /\ since[r] < ALERT_COOLDOWN_SECONDS => silent[r] <= since[r]
    /\ died[r] <= restarts

(* A rule in the coming mail has been marked since its last check, and was *)
(* not in cooldown then.                                                   *)
Gathered(r) ==
  /\ r \in overran \/ age[r] <= Elapsed(r)
  /\ r \in forgotten \cup late \/ since[r] >= ALERT_COOLDOWN_SECONDS - Cycle
  /\ died[r] = 0 =>
       silent[r] <= (ALERT_COOLDOWN_SECONDS - 1) + Cycle + POLL_INTERVAL_SECONDS + Elapsed(r)

(* Another one was in cooldown at its last check, or does not fire; its    *)
(* last mail was tried within a cycle of its mark.                         *)
Passed(r) ==
  /\ r \in forgotten \cup late \/ since[r] >= age[r] - Cycle
  /\ died[r] = 0 => silent[r] <= (ALERT_COOLDOWN_SECONDS - 1) + Elapsed(r)

(* A rule that is silent since before the last restart is in the first     *)
(* mail after it: the restart has cleared its mark.                        *)
Restarted(r) ==
  died[r] > 0 =>
    /\ pc # "sleep"
    /\ r \in triggered_alerts \/ (ToCheck(r) /\ age[r] = ALERT_COOLDOWN_SECONDS)
    /\ silent[r] <= MostSilence(died[r] - 1) + Position

Inv ==
  /\ TypeOK
  /\ Places
  /\ Silences
  /\ MarkedIsMailed
  /\ pc = "hung" => BoundedSilence
  /\ pc # "hung" =>
       \A r \in Rules : /\ IF r \in triggered_alerts THEN Gathered(r) ELSE Passed(r)
                        /\ Restarted(r)
-----------------------------------------------------------------------------
(* Arithmetic.                                                             *)

LEMMA Numbers ==
  /\ ALERT_COOLDOWN_SECONDS \in Nat /\ ALERT_COOLDOWN_SECONDS >= 1
  /\ POLL_INTERVAL_SECONDS \in Nat /\ POLL_INTERVAL_SECONDS >= 1
  /\ QUERY_TIMEOUT \in Nat /\ MAIL_TIME \in Nat /\ MaxRestarts \in Nat
  /\ NRules \in Nat /\ NRules >= 1 /\ 1 \in Rules /\ NRules \in Rules /\ Rules \subseteq Nat
  BY RulesAssumption, TimesAssumption, RestartsAssumption DEF Rules

LEMMA UntilSteps ==
  ASSUME NEW i \in Rules
  PROVE  /\ Until(i) \in Nat
         /\ Until(i) >= QUERY_TIMEOUT
         /\ Until(1) = QUERY_TIMEOUT
         /\ Until(i + 1) = Until(i) + QUERY_TIMEOUT
  <1>1. i \in Nat /\ i >= 1
    BY Numbers DEF Rules
  <1>2. PICK n \in Nat : i = n + 1
    BY <1>1
  <1>3. n * QUERY_TIMEOUT \in Nat
    BY Numbers
  <1>4. (n + 1) * QUERY_TIMEOUT = n * QUERY_TIMEOUT + QUERY_TIMEOUT
    BY Numbers
  <1>5. (i + 1) * QUERY_TIMEOUT = i * QUERY_TIMEOUT + QUERY_TIMEOUT
    BY Numbers, <1>1
  <1>6. 1 * QUERY_TIMEOUT = QUERY_TIMEOUT
    BY Numbers
  <1> QED
    BY Numbers, <1>2, <1>3, <1>4, <1>5, <1>6 DEF Until

LEMMA UntilGrows ==
  ASSUME NEW i \in Rules, NEW j \in Rules, i <= j
  PROVE  Until(i) <= Until(j)
  <1>1. i \in Nat /\ j \in Nat
    BY Numbers
  <1>2. PICK k \in Nat : j = i + k
    <2>1. j - i \in Nat /\ j = i + (j - i)
      BY <1>1
    <2> QED
      BY <2>1
  <1>3. (i + k) * QUERY_TIMEOUT = i * QUERY_TIMEOUT + k * QUERY_TIMEOUT
    BY Numbers, <1>1
  <1>4. k * QUERY_TIMEOUT \in Nat /\ i * QUERY_TIMEOUT \in Nat
    BY Numbers, <1>1
  <1> QED
    BY <1>2, <1>3, <1>4 DEF Until

LEMMA Lengths ==
  /\ Until(NRules) \in Nat
  /\ Cycle \in Nat
  /\ Cycle = Until(NRules) + MAIL_TIME
  /\ Cycle >= QUERY_TIMEOUT
  /\ MaxSilence \in Nat
  /\ MaxSilence =
       (ALERT_COOLDOWN_SECONDS - 1) + POLL_INTERVAL_SECONDS + 2 * Cycle - QUERY_TIMEOUT
  <1>1. Until(NRules) \in Nat /\ Until(NRules) >= QUERY_TIMEOUT
    BY Numbers, UntilSteps
  <1>2. Cycle = Until(NRules) + MAIL_TIME
    BY DEF Cycle, Until
  <1> QED
    BY Numbers, <1>1, <1>2 DEF MaxSilence

(* What each restart may add to the silence. *)
LEMMA MostSteps ==
  /\ MostSilence(0) = MaxSilence
  /\ \A k \in Nat : MostSilence(k) \in Nat /\ MostSilence(k) >= MaxSilence
  /\ \A k \in Nat : k > 0 => MostSilence(k) = MostSilence(k - 1) + Cycle
  /\ Uncounted \in Nat
  <1> DEFINE c == Cycle
  <1>1. c \in Nat /\ MaxSilence \in Nat
    BY Lengths
  <1>2. \A k \in Nat : MostSilence(k) = MaxSilence + k * c
    BY DEF MostSilence
  <1> HIDE DEF c
  <1>3. 0 * c = 0
    BY <1>1
  <1>4. \A k \in Nat : k * c \in Nat
    BY <1>1
  <1>5. ASSUME NEW k \in Nat, k > 0 PROVE k - 1 \in Nat /\ k * c = (k - 1) * c + c
    BY <1>1, <1>5
  <1>6. MostSilence(0) = MaxSilence
    BY <1>1, <1>2, <1>3
  <1>7. \A k \in Nat : MostSilence(k) \in Nat /\ MostSilence(k) >= MaxSilence
    BY <1>1, <1>2, <1>4
  <1>8. ASSUME NEW k \in Nat, k > 0 PROVE MostSilence(k) = MostSilence(k - 1) + c
    BY <1>1, <1>2, <1>4, <1>5, <1>8
  <1>9. Uncounted \in Nat
    BY <1>7, Numbers DEF Uncounted
  <1> QED
    BY <1>6, <1>7, <1>8, <1>9 DEF c

(* The values of the counters. *)
LEMMA Counters ==
  ASSUME TypeOK, NEW r \in Rules
  PROVE  /\ age[r] \in Nat /\ age[r] <= ALERT_COOLDOWN_SECONDS
         /\ since[r] \in Nat /\ since[r] <= ALERT_COOLDOWN_SECONDS
         /\ silent[r] \in Nat /\ silent[r] <= Uncounted
         /\ died[r] \in Nat /\ died[r] <= MaxRestarts
         /\ left \in Nat
  BY Numbers, Lengths, MostSteps DEF TypeOK

(* Less than a cycle and a sleep has passed since a rule was checked. *)
LEMMA ElapsedBounds ==
  ASSUME TypeOK, Places, pc # "hung", NEW r \in Rules
  PROVE  /\ Elapsed(r) \in Nat
         /\ Elapsed(r) <= Cycle + POLL_INTERVAL_SECONDS
         /\ ~ToCheck(r) /\ pc # "sleep" => Elapsed(r) + QUERY_TIMEOUT <= Cycle
         /\ Position \in Nat
         /\ pc # "sleep" => Position <= Cycle
  <1>1. /\ Until(r) \in Nat /\ Until(r) >= QUERY_TIMEOUT /\ Until(r) <= Until(NRules)
        /\ Until(rule) \in Nat /\ Until(rule) >= QUERY_TIMEOUT /\ Until(rule) <= Until(NRules)
        /\ rule \in Nat /\ r \in Nat /\ left \in Nat
    <2>1. rule \in Rules /\ rule <= NRules /\ r <= NRules /\ left \in Nat
      BY Numbers DEF TypeOK, Rules
    <2> QED
      BY <2>1, Numbers, UntilSteps, UntilGrows
  <1>2. rule <= r => Until(rule) <= Until(r)
    BY UntilGrows DEF TypeOK
  <1>3. rule > r => Until(rule) >= Until(r) + QUERY_TIMEOUT
    <2> SUFFICES ASSUME rule > r PROVE Until(rule) >= Until(r) + QUERY_TIMEOUT
      OBVIOUS
    <2>1. r + 1 \in Rules /\ r + 1 <= rule
      BY <1>1, Numbers DEF TypeOK, Rules
    <2>2. Until(r + 1) <= Until(rule)
      BY <2>1, UntilGrows DEF TypeOK
    <2> QED
      BY <2>2, UntilSteps, <1>1
  <1>4. CASE pc = "check"
    BY <1>1, <1>2, <1>3, <1>4, Lengths, Numbers DEF Elapsed, Position, ToCheck, Places
  <1>5. CASE pc = "mail"
    BY <1>1, <1>5, Lengths, Numbers DEF Elapsed, Position, ToCheck, Places
  <1>6. CASE pc = "sleep"
    BY <1>1, <1>6, Lengths, Numbers DEF Elapsed, Position, ToCheck, Places
  <1> QED
    BY <1>4, <1>5, <1>6 DEF TypeOK

-----------------------------------------------------------------------------
(* The invariant holds at first and is kept by each action.                *)

LEMMA InitInv == Init => Inv
  <1> SUFFICES ASSUME Init PROVE Inv
    OBVIOUS
  <1>1. TypeOK
    BY Numbers, Lengths, MostSteps DEF Init, TypeOK, LongAgo
  <1>2. Places
    BY Numbers DEF Init, Places
  <1>3. \A r \in Rules : /\ age[r] = ALERT_COOLDOWN_SECONDS
                         /\ since[r] = ALERT_COOLDOWN_SECONDS
                         /\ silent[r] = 0 /\ died[r] = 0
    BY DEF Init, LongAgo
  <1>4. Silences /\ MarkedIsMailed
    BY <1>3, Numbers DEF Init, Silences, MarkedIsMailed
  <1>5. pc # "hung" /\ triggered_alerts = {}
    BY DEF Init
  <1>6. \A r \in Rules : Passed(r) /\ Restarted(r)
    BY <1>1, <1>2, <1>3, <1>5, ElapsedBounds, Lengths, Numbers DEF Passed, Restarted
  <1> QED
    BY <1>1, <1>2, <1>4, <1>5, <1>6 DEF Inv

(* What the invariant says of the silence. *)
LEMMA InvBounded == Inv => BoundedSilence
  <1> SUFFICES ASSUME Inv, pc # "hung", NEW r \in Rules
               PROVE  silent[r] <= MostSilence(died[r])
    BY DEF Inv, BoundedSilence
  <1>1. TypeOK /\ Places /\ Restarted(r)
    BY DEF Inv
  <1>2. IF r \in triggered_alerts THEN Gathered(r) ELSE Passed(r)
    BY DEF Inv
  <1>3. silent[r] \in Nat /\ died[r] \in Nat
    BY <1>1, Counters
  <1>4. CASE died[r] > 0
    <2>1. pc # "sleep" /\ silent[r] <= MostSilence(died[r] - 1) + Position
      BY <1>1, <1>4 DEF Restarted
    <2>2. Position \in Nat /\ Position <= Cycle
      BY <1>1, <2>1, ElapsedBounds
    <2>3. /\ MostSilence(died[r]) = MostSilence(died[r] - 1) + Cycle
          /\ MostSilence(died[r] - 1) \in Nat
      BY <1>3, <1>4, MostSteps
    <2> QED
      BY <1>3, <2>1, <2>2, <2>3, Lengths
  <1>5. CASE died[r] = 0 /\ r \in triggered_alerts
    <2>1. ~ToCheck(r) /\ pc # "sleep"
      <3>1. pc = "check" => r < rule /\ r \in Nat /\ rule \in Nat
        BY <1>1, <1>5, Numbers DEF Places, TypeOK
      <3> QED
        BY <1>1, <1>5, <3>1 DEF Places, ToCheck
    <2>2. Elapsed(r) \in Nat /\ Elapsed(r) + QUERY_TIMEOUT <= Cycle
      BY <1>1, <2>1, ElapsedBounds
    <2> QED
      BY <1>2, <1>3, <1>5, <2>2, Lengths, MostSteps, Numbers DEF Gathered
  <1>6. CASE died[r] = 0 /\ r \notin triggered_alerts
    <2>1. Elapsed(r) \in Nat /\ Elapsed(r) <= Cycle + POLL_INTERVAL_SECONDS
      BY <1>1, ElapsedBounds
    <2> QED
      BY <1>2, <1>3, <1>6, <2>1, Lengths, MostSteps, Numbers DEF Passed
  <1> QED
    BY <1>3, <1>4, <1>5, <1>6

LEMMA RestartInv ==
  ASSUME Inv, Restart
  PROVE  Inv'
  <1>1. /\ pc' = "check" /\ rule' = 1 /\ left' = QUERY_TIMEOUT /\ triggered_alerts' = {}
        /\ age' = LongAgo /\ mailed' = {}
        /\ forgotten' = Rules /\ overran' = {}
        /\ UNCHANGED << firing, silent, since, late >>
    BY DEF Restart
  <1>2. restarts' \in 0 .. MaxRestarts /\ restarts' = restarts + 1 /\ restarts \in Nat
    BY Numbers DEF Restart, Inv, TypeOK
  <1>3. TypeOK /\ Silences /\ BoundedSilence
    BY InvBounded DEF Inv
  <1>4. ASSUME NEW r \in Rules
        PROVE  /\ died'[r] = IF r \in firing THEN died[r] + 1 ELSE 0
               /\ died[r] \in Nat /\ died[r] <= restarts
               /\ silent[r] \in Nat /\ silent[r] <= MostSilence(died[r])
               /\ r \notin firing => silent[r] = 0
    BY <1>3, Counters DEF Restart, Silences, BoundedSilence
  <1>5. TypeOK'
    <2>1. died' \in [Rules -> 0 .. MaxRestarts]
      <3>1. died' = [r \in Rules |-> IF r \in firing THEN died[r] + 1 ELSE 0]
        BY DEF Restart
      <3>2. \A r \in Rules : (IF r \in firing THEN died[r] + 1 ELSE 0) \in 0 .. MaxRestarts
        BY <1>2, <1>4, Numbers
      <3> QED
        BY <3>1, <3>2
    <2>2. age' \in [Rules -> 0 .. ALERT_COOLDOWN_SECONDS]
      BY <1>1, Numbers DEF LongAgo
    <2>3. left' \in 0 .. POLL_INTERVAL_SECONDS + QUERY_TIMEOUT + MAIL_TIME
      BY <1>1, Numbers
    <2> QED
      BY <1>1, <1>2, <1>3, <2>1, <2>2, <2>3, Numbers DEF TypeOK
  <1>6. Places'
    BY <1>1, Numbers DEF Places
  <1>7. \A r \in Rules : age'[r] = ALERT_COOLDOWN_SECONDS
    BY <1>1 DEF LongAgo
  <1>8. Silences'
    BY <1>1, <1>2, <1>3, <1>4 DEF Silences
  <1>9. MarkedIsMailed'
    BY <1>7, Numbers DEF MarkedIsMailed
  <1>10. ASSUME NEW r \in Rules PROVE Passed(r)' /\ Restarted(r)'
    <2>1. /\ Elapsed(r)' =
               QUERY_TIMEOUT - QUERY_TIMEOUT - Until(r) + (Cycle + POLL_INTERVAL_SECONDS)
          /\ Position' = QUERY_TIMEOUT - QUERY_TIMEOUT
      BY <1>1, UntilSteps, Numbers DEF Elapsed, Position, ToCheck, Rules
    <2>2. Until(r) \in Nat /\ Until(r) <= Cycle
      <3>1. r <= NRules
        BY DEF Rules
      <3> QED
        BY <3>1, UntilSteps, UntilGrows, Lengths, Numbers
    <2>3. died'[r] = 0 => silent'[r] = 0
      BY <1>1, <1>4
    <2>4. Passed(r)'
      BY <1>1, <2>1, <2>2, <2>3, Lengths, Numbers DEF Passed
    <2>5. Restarted(r)'
      <3> SUFFICES ASSUME died'[r] > 0 PROVE silent'[r] <= MostSilence(died'[r] - 1) + Position'
        BY <1>1, <1>7, Numbers DEF Restarted, ToCheck, Rules
      <3>1. died'[r] = died[r] + 1
        BY <1>4
      <3>2. died'[r] - 1 = died[r]
        BY <1>4, <3>1
      <3>3. silent'[r] <= MostSilence(died[r]) /\ MostSilence(died[r]) \in Nat
        BY <1>1, <1>4, MostSteps
      <3> QED
        BY <1>1, <1>4, <2>1, <3>2, <3>3, Numbers
    <2> QED
      BY <2>4, <2>5
  <1> QED
    BY <1>1, <1>5, <1>6, <1>8, <1>9, <1>10 DEF Inv

(* A rule is checked. *)
LEMMA CheckInv ==
  ASSUME Inv, NEW answer, Check(answer)
  PROVE  Inv'
  <1> DEFINE on == Triggered(rule, answer)
             new == IF on /\ ~_is_in_cooldown(rule) THEN {rule} ELSE {}
             alerts == triggered_alerts \cup new
  <1>1. /\ pc = "check"
        /\ age' = Marked(new)
        /\ IF on THEN firing' = firing \cup {rule} /\ UNCHANGED << silent, died >>
                 ELSE /\ firing' = firing \ {rule}
                      /\ silent' = [silent EXCEPT ![rule] = 0]
                      /\ died' = [died EXCEPT ![rule] = 0]
        /\ UNCHANGED << since, forgotten, late, mailed, restarts >>
    BY DEF Check
  <1>2. \/ /\ rule < NRules /\ rule' = rule + 1 /\ left' = QUERY_TIMEOUT
           /\ triggered_alerts' = alerts /\ pc' = "check" /\ overran' = overran
        \/ /\ rule = NRules /\ pc' = "mail" /\ left' = MAIL_TIME
           /\ triggered_alerts' = alerts /\ rule' = rule /\ overran' = overran
        \/ /\ rule = NRules /\ alerts = {} /\ triggered_alerts' = {} /\ overran' = {}
           /\ pc' = "sleep" /\ left' = POLL_INTERVAL_SECONDS /\ rule' = 1
    BY <1>1 DEF Check, Sleep
  <1>3. TypeOK /\ Places /\ Silences /\ MarkedIsMailed
    BY DEF Inv
  <1>4. /\ rule \in Rules /\ rule \notin triggered_alerts /\ left \in Nat
        /\ rule \in Nat /\ triggered_alerts \subseteq Rules
        /\ \A s \in triggered_alerts : s < rule
    <2>1. rule \in Rules /\ triggered_alerts \subseteq Rules /\ left \in Nat
      BY <1>3, Numbers DEF TypeOK
    <2>2. \A s \in triggered_alerts : s < rule
      BY <1>1, <1>3 DEF Places
    <2>3. rule \in Nat
      BY <2>1, Numbers
    <2> QED
      BY <2>1, <2>2, <2>3
  <1>5. new \subseteq {rule} /\ (rule \in new <=> on /\ age[rule] = ALERT_COOLDOWN_SECONDS)
    <2>1. age[rule] \in Nat /\ age[rule] <= ALERT_COOLDOWN_SECONDS
      BY <1>3, <1>4, Counters
    <2>2. ~_is_in_cooldown(rule) <=> age[rule] = ALERT_COOLDOWN_SECONDS
      BY <2>1, Numbers DEF _is_in_cooldown
    <2> QED
      BY <2>2
  <1>6. \A s \in Rules : age'[s] = IF s \in new THEN 0 ELSE age[s]
    BY <1>1 DEF Marked
  <1>7. \A s \in Rules : /\ silent'[s] = IF s = rule /\ ~on THEN 0 ELSE silent[s]
                         /\ died'[s] = IF s = rule /\ ~on THEN 0 ELSE died[s]
    BY <1>1, <1>3 DEF TypeOK
  <1>8. triggered_alerts' = alerts
    BY <1>2
  <1>9. firing' = IF on THEN firing \cup {rule} ELSE firing \ {rule}
    BY <1>1
  <1> HIDE DEF on, new
  <1>10. TypeOK'
    <2>1. age' \in [Rules -> 0 .. ALERT_COOLDOWN_SECONDS]
      BY <1>1, <1>3, Numbers DEF TypeOK, Marked
    <2>2. silent' \in [Rules -> 0 .. Uncounted] /\ died' \in [Rules -> 0 .. MaxRestarts]
      BY <1>1, <1>3, MostSteps, Numbers DEF TypeOK
    <2>3. pc' \in {"check", "mail", "sleep", "hung"} /\ rule' \in Rules
      BY <1>2, <1>4, Numbers DEF Rules
    <2>4. left' \in 0 .. POLL_INTERVAL_SECONDS + QUERY_TIMEOUT + MAIL_TIME
      BY <1>2, Numbers
    <2>5. triggered_alerts' \subseteq Rules /\ firing' \subseteq Rules
      BY <1>3, <1>4, <1>5, <1>8, <1>9 DEF TypeOK
    <2>6. overran' \subseteq triggered_alerts'
      BY <1>2, <1>3, <1>8 DEF TypeOK
    <2> QED
      BY <1>1, <1>3, <2>1, <2>2, <2>3, <2>4, <2>5, <2>6 DEF TypeOK
  <1>11. Places'
    <2>1. \A s \in alerts : s <= rule /\ s \in Nat
      BY <1>4, <1>5, Numbers DEF Rules
    <2>2. CASE pc' = "check"
      BY <1>2, <1>4, <1>8, <2>1, <2>2, Numbers DEF Places
    <2>3. CASE pc' # "check"
      BY <1>2, <2>3, Numbers DEF Places
    <2> QED
      BY <2>2, <2>3
  <1>12. Silences'
    <2> SUFFICES ASSUME NEW s \in Rules
                 PROVE  /\ s \notin firing' => silent'[s] = 0 /\ died'[s] = 0
                        /\ since[s] < ALERT_COOLDOWN_SECONDS => silent'[s] <= since[s]
                        /\ died'[s] <= restarts
      BY <1>1 DEF Silences
    <2>1. /\ since[s] \in Nat /\ silent[s] \in Nat /\ died[s] \in Nat /\ restarts \in Nat
      BY <1>3, Counters, Numbers DEF TypeOK
    <2>2. /\ s \notin firing => silent[s] = 0 /\ died[s] = 0
          /\ since[s] < ALERT_COOLDOWN_SECONDS => silent[s] <= since[s]
          /\ died[s] <= restarts
      BY <1>3 DEF Silences
    <2> QED
      BY <1>7, <1>9, <2>1, <2>2
  <1>13. MarkedIsMailed'
    <2> SUFFICES ASSUME NEW s \in Rules, age'[s] < ALERT_COOLDOWN_SECONDS, s \notin alerts
                 PROVE  since[s] <= age'[s]
      BY <1>1, <1>8 DEF MarkedIsMailed
    <2>1. age'[s] = age[s]
      BY <1>6
    <2> QED
      BY <1>3, <2>1 DEF MarkedIsMailed
  <1>14. \A s \in Rules : s # rule => Elapsed(s)' \in Int /\ Elapsed(s)' >= Elapsed(s)
    <2> SUFFICES ASSUME NEW s \in Rules, s # rule
                 PROVE  Elapsed(s)' \in Int /\ Elapsed(s)' >= Elapsed(s)
      OBVIOUS
    <2>1. /\ Until(s) \in Nat /\ Until(rule) \in Nat /\ Until(rule) <= Until(NRules)
          /\ Until(rule + 1) = Until(rule) + QUERY_TIMEOUT
          /\ s \in Nat /\ s <= NRules /\ rule <= NRules
      BY <1>4, UntilSteps, UntilGrows, Numbers DEF Rules
    <2> QED
      BY <1>1, <1>2, <1>4, <2>1, Lengths, Numbers DEF Elapsed, Position, ToCheck
  <1>15. /\ Elapsed(rule) <= Cycle + POLL_INTERVAL_SECONDS
         /\ Elapsed(rule) \in Nat
    BY <1>1, <1>3, <1>4, ElapsedBounds
  <1>16. \A s \in Rules : s = rule => Elapsed(s)' \in Nat
    <2>1. /\ Until(rule) \in Nat /\ rule < rule + 1
          /\ Until(rule + 1) = Until(rule) + QUERY_TIMEOUT
      BY <1>4, UntilSteps
    <2> QED
      BY <1>2, <2>1, Lengths, Numbers DEF Elapsed, Position, ToCheck
  <1>17. ASSUME NEW s \in Rules
         PROVE  IF s \in alerts THEN Gathered(s)' ELSE Passed(s)'
    <2> DEFINE later == Elapsed(s)'
    <2>1. /\ age[s] \in Nat /\ age[s] <= ALERT_COOLDOWN_SECONDS
          /\ since[s] \in Nat /\ since[s] <= ALERT_COOLDOWN_SECONDS
          /\ silent[s] \in Nat /\ died[s] \in Nat
          /\ since'[s] = since[s]
          /\ s \in (forgotten \cup late)' <=> s \in forgotten \cup late
      BY <1>1, <1>3, Counters
    <2>2. CASE s # rule
      <3>1. s \in alerts <=> s \in triggered_alerts
        BY <1>5, <2>2
      <3>2. age'[s] = age[s] /\ silent'[s] = silent[s] /\ died'[s] = died[s]
        BY <1>5, <1>6, <1>7, <2>2
      <3>3. IF s \in triggered_alerts THEN Gathered(s) ELSE Passed(s)
        BY <1>1 DEF Inv
      <3>4. later >= Elapsed(s) /\ later \in Nat /\ Elapsed(s) \in Nat
        <4>1. Elapsed(s) \in Nat
          BY <1>1, <1>3, ElapsedBounds
        <4> QED
          BY <1>14, <2>2, <4>1
      <3>5. s \in triggered_alerts => overran' = overran
        BY <1>2, <3>1
      <3> QED
        BY <2>1, <3>1, <3>2, <3>3, <3>4, <3>5, Lengths, Numbers DEF Gathered, Passed
    <2>3. CASE s = rule
      <3>1. Passed(rule)
        BY <1>1, <1>4 DEF Inv
      <3>2. later \in Nat
        BY <1>16, <2>3
      <3>3. CASE s \in new
        BY <1>1, <1>5, <1>6, <1>7, <1>15, <2>1, <2>3, <3>1, <3>2, <3>3, Lengths, Numbers
           DEF Gathered, Passed
      <3>4. CASE s \notin new
        <4>1. age'[s] = age[s] /\ s \notin alerts
          BY <1>4, <1>6, <2>3, <3>4
        <4>2. silent'[s] \in Nat /\ silent'[s] <= ALERT_COOLDOWN_SECONDS - 1
          <5>1. CASE on
            BY <1>3, <1>4, <1>5, <1>7, <2>1, <2>3, <3>4, <5>1, Numbers
               DEF MarkedIsMailed, Silences
          <5>2. CASE ~on
            BY <1>7, <2>3, <5>2, Numbers
          <5> QED
            BY <5>1, <5>2
        <4> QED
          BY <2>1, <2>3, <3>1, <3>2, <4>1, <4>2, Numbers DEF Passed
      <3> QED
        BY <3>3, <3>4
    <2> QED
      BY <2>2, <2>3
  <1>18. Position' \in Int /\ Position \in Nat /\ Position' >= Position
    <2>1. Position \in Nat
      BY <1>1, <1>3, <1>4, ElapsedBounds
    <2>2. /\ Until(rule) \in Nat /\ Until(rule) <= Until(NRules)
          /\ Until(rule + 1) = Until(rule) + QUERY_TIMEOUT
          /\ rule <= NRules
      BY <1>4, UntilSteps, UntilGrows, Numbers DEF Rules
    <2> QED
      BY <1>1, <1>2, <1>4, <2>1, <2>2, Lengths, Numbers DEF Position
  <1>19. ASSUME NEW s \in Rules, died'[s] > 0
         PROVE  Restarted(s)'
    <2>1. /\ died'[s] = died[s] /\ silent'[s] = silent[s] /\ died[s] > 0
          /\ s = rule => on
      BY <1>3, <1>7, <1>19, Counters
    <2>2. /\ s \in triggered_alerts \/ (ToCheck(s) /\ age[s] = ALERT_COOLDOWN_SECONDS)
          /\ silent[s] <= MostSilence(died[s] - 1) + Position
      BY <1>1, <2>1 DEF Inv, Restarted
    <2>3. s \in alerts \/ (rule < s /\ age[s] = ALERT_COOLDOWN_SECONDS)
      BY <1>4, <1>5, <2>1, <2>2, Numbers DEF ToCheck, Rules
    <2>4. s <= NRules /\ s \in Nat
      BY Numbers DEF Rules
    <2>5. pc' # "sleep"
      <3> SUFFICES ASSUME pc' = "sleep" PROVE FALSE
        OBVIOUS
      <3>1. rule = NRules /\ alerts = {}
        BY <1>2
      <3> QED
        BY <2>3, <2>4, <3>1, Numbers
    <2>6. s \in alerts \/ (ToCheck(s)' /\ age'[s] = ALERT_COOLDOWN_SECONDS)
      BY <1>2, <1>4, <1>5, <1>6, <2>3, <2>4, Numbers DEF ToCheck
    <2>7. MostSilence(died[s] - 1) \in Nat /\ silent[s] \in Nat
      BY <1>3, <2>1, Counters, MostSteps
    <2> QED
      BY <1>8, <1>18, <2>1, <2>2, <2>5, <2>6, <2>7 DEF Restarted
  <1> QED
    BY <1>2, <1>8, <1>10, <1>11, <1>12, <1>13, <1>17, <1>19 DEF Inv, Restarted

(* The mail of the cycle is out, or has failed. *)
LEMMA MailTriedInv ==
  ASSUME Inv, NEW delivered, delivered \subseteq Rules, MailTried(delivered)
  PROVE  Inv'
  <1>1. /\ pc = "mail"
        /\ pc' = "sleep" /\ left' = POLL_INTERVAL_SECONDS /\ rule' = 1 /\ triggered_alerts' = {}
        /\ mailed' = delivered /\ overran' = {}
        /\ forgotten' = forgotten \ triggered_alerts
        /\ late' = (late \ triggered_alerts) \cup overran
        /\ UNCHANGED << age, firing, restarts >>
    BY DEF MailTried, Sleep
  <1>2. \A s \in Rules : /\ silent'[s] = IF s \in triggered_alerts THEN 0 ELSE silent[s]
                         /\ died'[s] = IF s \in triggered_alerts THEN 0 ELSE died[s]
                         /\ since'[s] = IF s \in triggered_alerts THEN 0 ELSE since[s]
    BY DEF MailTried
  <1>3. TypeOK /\ Places /\ Silences /\ MarkedIsMailed
    BY DEF Inv
  <1>4. TypeOK'
    <2>1. silent' \in [Rules -> 0 .. Uncounted] /\ died' \in [Rules -> 0 .. MaxRestarts]
      BY <1>3, MostSteps, Numbers DEF MailTried, TypeOK
    <2>2. since' \in [Rules -> 0 .. ALERT_COOLDOWN_SECONDS]
      BY <1>3, Numbers DEF MailTried, TypeOK
    <2> QED
      BY <1>1, <1>3, <2>1, <2>2, Numbers DEF TypeOK
  <1>5. Places'
    BY <1>1, Numbers DEF Places
  <1>6. Silences'
    <2> SUFFICES ASSUME NEW s \in Rules
                 PROVE  /\ s \notin firing' => silent'[s] = 0 /\ died'[s] = 0
                        /\ since'[s] < ALERT_COOLDOWN_SECONDS => silent'[s] <= since'[s]
                        /\ died'[s] <= restarts
      BY <1>1 DEF Silences
    <2>1. restarts \in Nat /\ died[s] \in Nat /\ died[s] <= restarts
      BY <1>3, Counters, Numbers DEF TypeOK, Silences
    <2> QED
      BY <1>1, <1>2, <1>3, <2>1 DEF Silences
  <1>7. MarkedIsMailed'
    BY <1>1, <1>2, <1>3, Counters DEF MarkedIsMailed
  <1>8. ASSUME NEW s \in Rules PROVE Passed(s)' /\ Restarted(s)'
    <2>1. /\ age[s] \in Nat /\ since[s] \in Nat /\ silent[s] \in Nat /\ died[s] \in Nat
          /\ left \in Nat
      BY <1>3, Counters
    <2>2. Until(s) \in Nat
      BY UntilSteps
    <2>3. /\ Elapsed(s) = Until(NRules) + MAIL_TIME - left - Until(s)
          /\ Elapsed(s)' = Until(NRules) + MAIL_TIME + POLL_INTERVAL_SECONDS
                             - POLL_INTERVAL_SECONDS - Until(s)
      BY <1>1, <2>1, <2>2, Lengths, Numbers DEF Elapsed, Position, ToCheck
    <2>4. Elapsed(s) \in Nat /\ Elapsed(s) <= Cycle
      BY <1>1, <2>1, <2>2, <2>3, <1>3, ElapsedBounds, Lengths, Numbers
    <2>5. /\ IF s \in triggered_alerts THEN Gathered(s) ELSE Passed(s)
          /\ Restarted(s)
      BY <1>1 DEF Inv
    <2>6. died[s] > 0 => s \in triggered_alerts
      BY <1>1, <2>5 DEF Restarted, ToCheck
    <2>7. died'[s] = 0
      BY <1>2, <2>1, <2>6
    <2>8. CASE s \in triggered_alerts
      <3>1. silent'[s] = 0 /\ since'[s] = 0
        BY <1>2, <2>8
      <3>2. s \in late' \/ age'[s] <= Elapsed(s)
        BY <1>1, <2>5, <2>8 DEF Gathered
      <3>3. s \in (forgotten \cup late)' \/ since'[s] >= age'[s] - Cycle
        BY <1>1, <2>1, <2>4, <3>1, <3>2, Lengths
      <3> QED
        BY <2>1, <2>2, <2>3, <2>4, <2>7, <3>1, <3>3, Lengths, Numbers DEF Passed, Restarted
    <2>9. CASE s \notin triggered_alerts
      <3>1. silent'[s] = silent[s] /\ since'[s] = since[s] /\ died[s] = 0
        BY <1>2, <2>1, <2>6, <2>9
      <3>2. Passed(s)
        BY <2>5, <2>9
      <3>3. s \in (forgotten \cup late)' \/ since'[s] >= age'[s] - Cycle
        BY <1>1, <2>9, <3>1, <3>2 DEF Passed
      <3> QED
        BY <2>1, <2>2, <2>3, <2>4, <2>7, <3>1, <3>2, <3>3, Lengths, Numbers DEF Passed, Restarted
    <2> QED
      BY <2>8, <2>9
  <1> QED
    BY <1>1, <1>4, <1>5, <1>6, <1>7, <1>8 DEF Inv

LEMMA HangInv ==
  ASSUME Inv, Hang
  PROVE  Inv'
  <1>1. /\ pc' = "hung" /\ left = 0
        /\ UNCHANGED << rule, triggered_alerts, age, left, firing, silent, died, since,
                        forgotten, overran, late, mailed, restarts >>
    BY DEF Hang, past
  <1>2. TypeOK' /\ Silences' /\ MarkedIsMailed'
    BY <1>1 DEF Inv, TypeOK, Silences, MarkedIsMailed
  <1>3. BoundedSilence'
    BY <1>1, InvBounded DEF BoundedSilence
  <1> QED
    BY <1>1, <1>2, <1>3 DEF Inv, Places

LEMMA WakeInv ==
  ASSUME Inv, Wake
  PROVE  Inv'
  <1>1. /\ pc = "sleep" /\ left = 0
        /\ pc' = "check" /\ left' = QUERY_TIMEOUT /\ mailed' = {}
        /\ UNCHANGED << rule, triggered_alerts, age, firing, silent, died, since,
                        forgotten, overran, late, restarts >>
    BY DEF Wake
  <1>2. rule = 1 /\ triggered_alerts = {}
    BY <1>1 DEF Inv, Places
  <1>3. TypeOK' /\ Silences' /\ MarkedIsMailed'
    BY <1>1, Numbers DEF Inv, TypeOK, Silences, MarkedIsMailed
  <1>4. Places'
    BY <1>1, <1>2, Numbers DEF Places
  <1>5. ASSUME NEW s \in Rules PROVE Passed(s)' /\ Restarted(s)'
    <2>1. Until(s) \in Nat /\ Until(1) = QUERY_TIMEOUT /\ s >= 1
      BY UntilSteps, Numbers DEF Rules
    <2>2. Elapsed(s)' = Elapsed(s)
      BY <1>1, <1>2, <2>1, Lengths, Numbers DEF Elapsed, Position, ToCheck
    <2>3. Passed(s) /\ ~(died[s] > 0)
      BY <1>1, <1>2 DEF Inv, Restarted
    <2> QED
      BY <1>1, <2>2, <2>3 DEF Passed, Restarted
  <1> QED
    BY <1>1, <1>2, <1>3, <1>4, <1>5 DEF Inv

(* A tick lets every time grow by one, up to its limit. *)
LEMMA AgesGrow ==
  ASSUME TypeOK, Ages
  PROVE  /\ \A s \in Rules :
              /\ age'[s] = IF age[s] < ALERT_COOLDOWN_SECONDS THEN age[s] + 1
                                                              ELSE ALERT_COOLDOWN_SECONDS
              /\ since'[s] = IF since[s] < ALERT_COOLDOWN_SECONDS THEN since[s] + 1
                                                                  ELSE ALERT_COOLDOWN_SECONDS
         /\ age' \in [Rules -> 0 .. ALERT_COOLDOWN_SECONDS]
         /\ since' \in [Rules -> 0 .. ALERT_COOLDOWN_SECONDS]
  <1>1. ASSUME NEW s \in Rules
        PROVE  /\ age'[s] = Grow(age[s], ALERT_COOLDOWN_SECONDS)
               /\ since'[s] = Grow(since[s], ALERT_COOLDOWN_SECONDS)
               /\ age'[s] \in 0 .. ALERT_COOLDOWN_SECONDS
               /\ since'[s] \in 0 .. ALERT_COOLDOWN_SECONDS
    <2>1. /\ age'[s] = Grow(age[s], ALERT_COOLDOWN_SECONDS)
          /\ since'[s] = Grow(since[s], ALERT_COOLDOWN_SECONDS)
      BY DEF Ages
    <2> QED
      BY <2>1, Counters, Numbers DEF Grow
  <1>2. age' = [s \in Rules |-> age'[s]] /\ since' = [s \in Rules |-> since'[s]]
    BY DEF Ages
  <1> QED
    BY <1>1, <1>2 DEF Grow

LEMMA TickInv ==
  ASSUME Inv, Tick
  PROVE  Inv'
  <1>1. /\ left > 0
        /\ left' = left - 1
        /\ UNCHANGED << pc, rule, triggered_alerts, firing, died, forgotten, overran, late,
                        mailed, restarts >>
    BY DEF Tick
  <1>2. TypeOK /\ Places /\ Silences /\ MarkedIsMailed /\ pc # "hung"
    BY <1>1, Numbers DEF Inv, Places, TypeOK
  <1>3. ASSUME NEW s \in Rules
        PROVE  /\ age'[s] = IF age[s] < ALERT_COOLDOWN_SECONDS THEN age[s] + 1
                                                              ELSE ALERT_COOLDOWN_SECONDS
               /\ since'[s] = IF since[s] < ALERT_COOLDOWN_SECONDS THEN since[s] + 1
                                                                  ELSE ALERT_COOLDOWN_SECONDS
               /\ silent'[s] \in 0 .. Uncounted
               /\ silent'[s] <= silent[s] + 1
               /\ s \notin firing => silent'[s] = 0
    <2>1. silent'[s] = IF s \in firing THEN Grow(silent[s], Uncounted) ELSE 0
      BY DEF Tick
    <2> QED
      BY <1>2, <2>1, AgesGrow, Counters, MostSteps DEF Tick, Grow
  <1>4. TypeOK'
    <2>1. silent' \in [Rules -> 0 .. Uncounted]
      <3>1. silent' = [s \in Rules |-> silent'[s]]
        BY DEF Tick
      <3> QED
        BY <1>3, <3>1
    <2>2. left' \in 0 .. POLL_INTERVAL_SECONDS + QUERY_TIMEOUT + MAIL_TIME
      BY <1>1, <1>2, Numbers DEF TypeOK
    <2> QED
      BY <1>1, <1>2, <2>1, <2>2, AgesGrow DEF Tick, TypeOK
  <1>5. left \in Nat /\ left' \in Nat /\ left' <= left
    BY <1>1, <1>2, Numbers DEF TypeOK
  <1>6. Places'
    BY <1>1, <1>2, <1>5, Numbers DEF Places
  <1>7. Silences'
    BY <1>1, <1>2, <1>3, Counters, Lengths, Numbers DEF Silences
  <1>8. MarkedIsMailed'
    BY <1>1, <1>2, <1>3, Counters, Numbers DEF MarkedIsMailed
  <1>9. ASSUME NEW s \in Rules
        PROVE  /\ IF s \in triggered_alerts THEN Gathered(s)' ELSE Passed(s)'
               /\ Restarted(s)'
    <2>1. Until(s) \in Nat /\ Until(rule) \in Nat
      BY <1>2, UntilSteps DEF TypeOK
    <2>2. Elapsed(s)' = Elapsed(s) + 1 /\ Position' = Position + 1
      BY <1>1, <1>5, <2>1, Lengths, Numbers DEF Elapsed, Position, ToCheck
    <2>3. Elapsed(s) \in Nat /\ Position \in Nat
      BY <1>2, ElapsedBounds
    <2>4. /\ IF s \in triggered_alerts THEN Gathered(s) ELSE Passed(s)
          /\ Restarted(s)
      BY <1>2 DEF Inv
    <2>5. silent'[s] \in Nat
      BY <1>3, MostSteps
    <2>6. IF s \in triggered_alerts THEN Gathered(s)' ELSE Passed(s)'
      BY <1>1, <1>2, <1>3, <2>2, <2>3, <2>4, <2>5, Counters, Lengths, Numbers
         DEF Gathered, Passed
    <2>7. Restarted(s)'
      <3> SUFFICES ASSUME died[s] > 0 PROVE Restarted(s)'
        BY <1>1 DEF Restarted
      <3>1. died[s] \in Nat /\ silent[s] \in Nat /\ MostSilence(died[s] - 1) \in Nat
        BY <1>2, Counters, MostSteps
      <3>2. silent'[s] <= MostSilence(died'[s] - 1) + Position'
        BY <1>1, <1>3, <2>2, <2>3, <2>4, <2>5, <3>1 DEF Restarted
      <3>3. age[s] = ALERT_COOLDOWN_SECONDS => age'[s] = ALERT_COOLDOWN_SECONDS
        BY <1>3, Numbers
      <3> QED
        BY <1>1, <2>4, <3>2, <3>3 DEF Restarted, ToCheck
    <2> QED
      BY <2>6, <2>7
  <1> QED
    BY <1>1, <1>2, <1>4, <1>6, <1>7, <1>8, <1>9 DEF Inv

(* A wait that has reached its limit goes on. *)
LEMMA OverrunInv ==
  ASSUME Inv, Overrun
  PROVE  Inv'
  <1>1. /\ pc \in {"check", "mail", "hung"} /\ left = 0
        /\ overran' = overran \cup triggered_alerts
        /\ UNCHANGED << pc, rule, triggered_alerts, left, firing, silent, died, forgotten,
                        late, mailed, restarts >>
    BY DEF Overrun
  <1>2. TypeOK /\ Places /\ Silences /\ MarkedIsMailed
    BY DEF Inv
  <1>3. ASSUME NEW s \in Rules
        PROVE  /\ age'[s] = IF age[s] < ALERT_COOLDOWN_SECONDS THEN age[s] + 1
                                                              ELSE ALERT_COOLDOWN_SECONDS
               /\ since'[s] = IF since[s] < ALERT_COOLDOWN_SECONDS THEN since[s] + 1
                                                                  ELSE ALERT_COOLDOWN_SECONDS
    BY <1>2, AgesGrow DEF Overrun
  <1>4. TypeOK'
    BY <1>1, <1>2, AgesGrow DEF Overrun, TypeOK
  <1>5. Places'
    BY <1>1, <1>2 DEF Places
  <1>6. Silences'
    BY <1>1, <1>2, <1>3, Counters, Numbers DEF Silences
  <1>7. MarkedIsMailed'
    BY <1>1, <1>2, <1>3, Counters, Numbers DEF MarkedIsMailed
  <1>8. pc = "hung" => BoundedSilence'
    BY <1>1 DEF Inv, BoundedSilence
  <1>9. ASSUME pc # "hung", NEW s \in Rules
        PROVE  /\ IF s \in triggered_alerts THEN Gathered(s)' ELSE Passed(s)'
               /\ Restarted(s)'
    <2>1. Elapsed(s)' = Elapsed(s) /\ Position' = Position
      BY <1>1 DEF Elapsed, Position, ToCheck
    <2>2. /\ IF s \in triggered_alerts THEN Gathered(s) ELSE Passed(s)
          /\ Restarted(s)
      BY <1>9 DEF Inv
    <2>3. IF s \in triggered_alerts THEN Gathered(s)' ELSE Passed(s)'
      BY <1>1, <1>2, <1>3, <2>1, <2>2, Counters, Lengths, Numbers DEF Gathered, Passed
    <2>4. age[s] = ALERT_COOLDOWN_SECONDS => age'[s] = ALERT_COOLDOWN_SECONDS
      BY <1>3, Numbers
    <2> QED
      BY <1>1, <2>1, <2>2, <2>3, <2>4 DEF Restarted, ToCheck
  <1> QED
    BY <1>1, <1>4, <1>5, <1>6, <1>7, <1>8, <1>9 DEF Inv

LEMMA NextInv ==
  ASSUME Inv, [Next]_vars
  PROVE  Inv'
  <1>1. ASSUME NEW answer, Check(answer) PROVE Inv'
    BY <1>1, CheckInv
  <1>2. CASE Deliver
    BY <1>2, MailTriedInv DEF Deliver, Inv, TypeOK
  <1>3. CASE MailFails
    BY <1>3, MailTriedInv DEF MailFails
  <1>4. CASE Hang
    BY <1>4, HangInv
  <1>5. CASE Wake
    BY <1>5, WakeInv
  <1>6. CASE Restart
    BY <1>6, RestartInv
  <1>7. CASE Tick
    BY <1>7, TickInv
  <1>8. CASE Overrun
    BY <1>8, OverrunInv
  <1>9. CASE UNCHANGED vars
    BY <1>9 DEF vars, past, Inv, TypeOK, Places, Silences, MarkedIsMailed, BoundedSilence,
                Gathered, Passed, Restarted, Elapsed, Position, ToCheck
  <1> QED
    BY <1>1, <1>2, <1>3, <1>4, <1>5, <1>6, <1>7, <1>8, <1>9 DEF Next

-----------------------------------------------------------------------------
(* A mail is tried only about rules that are gathered. *)
LEMMA InvApart ==
  ASSUME Inv, pc = "mail", NEW r \in triggered_alerts \ (forgotten \cup late)
  PROVE  since[r] >= ALERT_COOLDOWN_SECONDS - Cycle
  BY DEF Inv, TypeOK, Gathered

-----------------------------------------------------------------------------
(* The theorems.                                                           *)

(* The invariant, for every number of rules and every length of the waits. *)
THEOREM InvHolds == Spec => []Inv
  <1>1. Init => Inv
    BY InitInv
  <1>2. Inv /\ [Next]_vars => Inv'
    BY NextInv
  <1> QED
    BY <1>1, <1>2, PTL DEF Spec

(* The variables of the agent keep their kinds, and its waits their limits. *)
THEOREM AgentTyped == Spec => []TypeOK
  <1>1. Inv => TypeOK
    BY DEF Inv
  <1> QED
    BY InvHolds, <1>1, PTL

(* The cooldown swallows no alert: a rule that keeps firing has a mail     *)
(* tried about it within MaxSilence and a cycle for each restart in        *)
(* between, whatever the intervals are, the overruns of its waits aside.   *)
THEOREM BoundedSilenceHolds == Spec => []BoundedSilence
  BY InvHolds, InvBounded, PTL

(* A rule in cooldown has been in a mail that was tried or is in the next. *)
THEOREM MarkedIsMailedHolds == Spec => []MarkedIsMailed
  <1>1. Inv => MarkedIsMailed
    BY DEF Inv
  <1> QED
    BY InvHolds, <1>1, PTL

(* Two mails about a rule are a cooldown apart, less at most one cycle,    *)
(* unless the process has restarted between them or the first one had      *)
(* waited for an overrun.                                                  *)
THEOREM MailsApartHolds == Spec => MailsApart
  <1>1. Inv /\ [Next]_vars =>
          [pc = "mail" /\ pc' = "sleep" =>
             \A r \in triggered_alerts \ (forgotten \cup late) :
                 since[r] >= ALERT_COOLDOWN_SECONDS - Cycle]_vars
    BY InvApart
  <1> QED
    BY InvHolds, <1>1, PTL DEF Spec, MailsApart
=============================================================================
