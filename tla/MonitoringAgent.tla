--------------------------- MODULE MonitoringAgent ---------------------------
(***************************************************************************)
(* The monitoring agent: a process of one thread that polls Prometheus     *)
(* rule by rule, keeps in memory when it last alerted about each rule, and *)
(* sends one mail per poll cycle with the rules that are not in cooldown.  *)
(*                                                                         *)
(* Time passes in ticks while the process waits: for Prometheus, for the   *)
(* mail server, or in its sleep.  "left" is how long the wait usually may  *)
(* still take.  Nothing in the code bounds a wait for an answer: the       *)
(* timeout of requests.get is one for the connection and one for each      *)
(* read, and smtplib.SMTP is opened without any.  So a wait may outlast    *)
(* its limit (Overrun), or never end (Hang).  The times since something    *)
(* happened are kept instead of the instants, and stop growing once they   *)
(* no longer make a difference.                                            *)
(***************************************************************************)
EXTENDS Integers

CONSTANTS
    NRules,                   \* length of ALL_RULES
    ALERT_COOLDOWN_SECONDS,   \* in ticks, as the next three
    POLL_INTERVAL_SECONDS,
    QUERY_TIMEOUT,            \* longest query that does not overrun
    MAIL_TIME,                \* longest SMTP exchange that does not overrun
    MaxRestarts               \* bound on the restarts of the process

ASSUME RulesAssumption == NRules \in Nat \ {0}
ASSUME TimesAssumption == /\ ALERT_COOLDOWN_SECONDS \in Nat \ {0}
                          /\ POLL_INTERVAL_SECONDS \in Nat \ {0}
                          /\ QUERY_TIMEOUT \in Nat /\ MAIL_TIME \in Nat
ASSUME RestartsAssumption == MaxRestarts \in Nat

Rules == 1 .. NRules
AppDown == 1                  \* check_app_up is the first rule

VARIABLES
    pc,        \* where the loop is: "check", "mail", "sleep", or "hung" in a wait
    rule,      \* the rule being checked
    triggered_alerts,
    age,       \* _last_alerted: time since each rule was marked, up to the cooldown
    left,      \* longest time the current wait may still take
    firing,    \* history: the rules whose last check triggered
    silent,    \* history: time a rule has been firing with no mail tried about it,
               \* the overruns of the waits not counted
    died,      \* history: the restarts of the process while the rule was silent
    since,     \* history: time since a mail about the rule was tried, up to the cooldown
    forgotten, \* history: rules whose last mail an earlier process tried
    overran,   \* history: rules of the coming mail that have waited for an overrun
    late,      \* history: rules whose last mail had waited for an overrun
    mailed,    \* history: the rules of the mail delivered in this cycle
    restarts   \* number of restarts

past == <<firing, silent, died, since, forgotten, overran, late, mailed>>

vars == <<pc, rule, triggered_alerts, age, left, past, restarts>>

\* A cycle takes at most this long, its sleep and its overruns excluded.
Cycle == NRules * QUERY_TIMEOUT + MAIL_TIME

\* The longest a rule can fire without a mail being tried: its last check in
\* cooldown, the rest of that cycle, a sleep, and a cycle up to its mail.
MaxSilence ==
    (ALERT_COOLDOWN_SECONDS - 1) + POLL_INTERVAL_SECONDS + 2 * Cycle - QUERY_TIMEOUT

\* Silence is counted up to just past the most that k restarts may make of it.
MostSilence(k) == MaxSilence + k * Cycle
Uncounted == MostSilence(MaxRestarts) + 1

\* No mark and no mail that still counts.
LongAgo == [r \in Rules |-> ALERT_COOLDOWN_SECONDS]

Init ==
    /\ pc = "check" /\ rule = 1 /\ left = QUERY_TIMEOUT
    /\ triggered_alerts = {}
    /\ age = LongAgo
    /\ firing = {} /\ silent = [r \in Rules |-> 0] /\ died = [r \in Rules |-> 0]
    /\ since = LongAgo /\ mailed = {}
    /\ forgotten = {} /\ overran = {} /\ late = {}
    /\ restarts = 0

---------------------------------------------------------------------------
(* One poll cycle *)

_is_in_cooldown(r) == age[r] < ALERT_COOLDOWN_SECONDS

\* What the rule makes of the answer: no answer (Prometheus unreachable, an
\* error, an empty result) triggers check_app_up and no other rule.
Triggered(r, answer) == answer = "bad" \/ (answer = "none" /\ r = AppDown)

NeverMarked(alerts) == age                    \* mutant: _mark_alerted is not called

\* mutant: a triggered rule is marked even while it is in cooldown
MarkedAgain(alerts) ==
    [r \in Rules |-> IF r \in alerts \/ (r = rule /\ _is_in_cooldown(r)) THEN 0 ELSE age[r]]

\* _mark_alerted, of the rules that enter the mail.
Marked(alerts) == [r \in Rules |-> IF r \in alerts THEN 0 ELSE age[r]]

\* mutant: the next cycle starts after the last rule
SleepPast ==
    /\ pc' = "sleep" /\ left' = POLL_INTERVAL_SECONDS /\ rule' = rule + 1
    /\ triggered_alerts' = {} /\ overran' = {}

Sleep ==
    /\ pc' = "sleep" /\ left' = POLL_INTERVAL_SECONDS /\ rule' = 1
    /\ triggered_alerts' = {} /\ overran' = {}

\* One rule is checked; after the last one run_once mails or goes to sleep.
Check(answer) ==
    LET new == IF Triggered(rule, answer) /\ ~_is_in_cooldown(rule) THEN {rule} ELSE {}
        alerts == triggered_alerts \cup new IN
    /\ pc = "check"
    /\ age' = Marked(new)
    /\ IF Triggered(rule, answer)
       THEN firing' = firing \cup {rule} /\ UNCHANGED <<silent, died>>
       ELSE /\ firing' = firing \ {rule}
            /\ silent' = [silent EXCEPT ![rule] = 0]
            /\ died' = [died EXCEPT ![rule] = 0]
    /\ \/ /\ rule < NRules
          /\ rule' = rule + 1 /\ left' = QUERY_TIMEOUT
          /\ triggered_alerts' = alerts
          /\ UNCHANGED <<pc, overran>>
       \/ /\ rule = NRules /\ alerts # {}
          /\ pc' = "mail" /\ left' = MAIL_TIME
          /\ triggered_alerts' = alerts
          /\ UNCHANGED <<rule, overran>>
       \/ /\ rule = NRules /\ alerts = {}
          /\ Sleep
    /\ UNCHANGED <<since, forgotten, late, mailed, restarts>>

\* send_alert_email returns: the mail is out, or the exception is swallowed.
MailTried(delivered) ==
    /\ pc = "mail"
    /\ silent' = [r \in Rules |-> IF r \in triggered_alerts THEN 0 ELSE silent[r]]
    /\ died' = [r \in Rules |-> IF r \in triggered_alerts THEN 0 ELSE died[r]]
    /\ since' = [r \in Rules |-> IF r \in triggered_alerts THEN 0 ELSE since[r]]
    /\ forgotten' = forgotten \ triggered_alerts
    /\ late' = (late \ triggered_alerts) \cup overran
    /\ mailed' = delivered
    /\ Sleep
    /\ UNCHANGED <<age, firing, restarts>>

Deliver == MailTried(triggered_alerts)
MailFails == MailTried({})

\* The wait is past its limit and will not end: a mail server that accepts and
\* then says nothing, a Prometheus whose answer never comes to its end.
Hang ==
    /\ pc \in {"check", "mail"} /\ left = 0
    /\ pc' = "hung"
    /\ UNCHANGED <<rule, triggered_alerts, age, left, past, restarts>>

Wake ==
    /\ pc = "sleep"
    /\ left = 0
    /\ pc' = "check" /\ left' = QUERY_TIMEOUT
    /\ mailed' = {}
    /\ UNCHANGED <<rule, triggered_alerts, age, firing, silent, died, since,
                   forgotten, overran, late, restarts>>

---------------------------------------------------------------------------
(* The environment *)

\* mutant: the marks outlive the process, what it had gathered does not
RestartMarked ==
    /\ restarts < MaxRestarts
    /\ restarts' = restarts + 1
    /\ pc' = "check" /\ rule' = 1 /\ left' = QUERY_TIMEOUT
    /\ triggered_alerts' = {}
    /\ died' = [r \in Rules |-> IF r \in firing THEN died[r] + 1 ELSE 0]
    /\ forgotten' = Rules /\ overran' = {}
    /\ mailed' = {}
    /\ UNCHANGED <<age, firing, silent, since, late>>

\* The process dies and is started again; its memory is gone, what it has been
\* silent about and what it has mailed is not.
Restart ==
    /\ restarts < MaxRestarts
    /\ restarts' = restarts + 1
    /\ pc' = "check" /\ rule' = 1 /\ left' = QUERY_TIMEOUT
    /\ triggered_alerts' = {}
    /\ age' = LongAgo
    /\ died' = [r \in Rules |-> IF r \in firing THEN died[r] + 1 ELSE 0]
    /\ forgotten' = Rules /\ overran' = {}
    /\ mailed' = {}
    /\ UNCHANGED <<firing, silent, since, late>>

Grow(t, limit) == IF t < limit THEN t + 1 ELSE limit

\* What a tick does to the times that are measured.
Ages ==
    /\ age' = [r \in Rules |-> Grow(age[r], ALERT_COOLDOWN_SECONDS)]
    /\ since' = [r \in Rules |-> Grow(since[r], ALERT_COOLDOWN_SECONDS)]

Tick ==
    /\ left > 0
    /\ left' = left - 1
    /\ Ages
    /\ silent' = [r \in Rules |-> IF r \in firing THEN Grow(silent[r], Uncounted) ELSE 0]
    /\ UNCHANGED <<pc, rule, triggered_alerts, firing, died, forgotten, overran, late,
                   mailed, restarts>>

\* Time passes in a wait that has reached its limit.
Overrun ==
    /\ pc \in {"check", "mail", "hung"} /\ left = 0
    /\ Ages
    /\ overran' = overran \cup triggered_alerts
    /\ UNCHANGED <<pc, rule, triggered_alerts, left, firing, silent, died, forgotten, late,
                   mailed, restarts>>

Next ==
    \/ \E answer \in {"ok", "bad", "none"} : Check(answer)
    \/ Deliver \/ MailFails
    \/ Hang
    \/ Wake
    \/ Restart
    \/ Tick
    \/ Overrun

Spec == Init /\ [][Next]_vars

\* The process runs and time passes.  A wait that is not hung ends, overrun or
\* not, and a mail that is tried again and again about a rule gets through.
Fairness ==
    /\ WF_vars(\E answer \in {"ok", "bad", "none"} : Check(answer))
    /\ WF_vars(Wake) /\ WF_vars(Tick)
    /\ \A r \in Rules : SF_vars(Deliver /\ r \in triggered_alerts)

FairSpec == Spec /\ Fairness

---------------------------------------------------------------------------
(* Properties *)

\* Every variable holds a value of its kind.
TypeOK ==
    /\ pc \in {"check", "mail", "sleep", "hung"}
    /\ rule \in Rules
    /\ triggered_alerts \subseteq Rules
    /\ age \in [Rules -> 0 .. ALERT_COOLDOWN_SECONDS]
    /\ left \in 0 .. POLL_INTERVAL_SECONDS + QUERY_TIMEOUT + MAIL_TIME
    /\ firing \subseteq Rules
    /\ silent \in [Rules -> 0 .. Uncounted]
    /\ died \in [Rules -> 0 .. MaxRestarts]
    /\ since \in [Rules -> 0 .. ALERT_COOLDOWN_SECONDS]
    /\ forgotten \subseteq Rules /\ overran \subseteq triggered_alerts /\ late \subseteq Rules
    /\ mailed \subseteq Rules
    /\ restarts \in 0 .. MaxRestarts

\* The cooldown is not allowed to swallow an alert: while a rule keeps firing,
\* flapping before or not, a mail about it is tried within MaxSilence.  Each
\* restart of the process in the meantime costs a cycle more, and the time by
\* which waits overrun their limits, a hang among them, comes on top: it is not
\* counted in "silent".
BoundedSilence == \A r \in Rules : silent[r] <= MostSilence(died[r])

\* A rule in cooldown has been in a mail that was tried, or is in the one being
\* prepared: marking before sending loses no alert inside the process.
MarkedIsMailed ==
    \A r \in Rules : age[r] < ALERT_COOLDOWN_SECONDS =>
        r \in triggered_alerts \/ since[r] <= age[r]

\* Marking before sending makes the interval between two mails about a rule
\* shorter than the cooldown by no more than the length of one cycle, with two
\* exceptions: the first of them was tried before a restart, which forgets the
\* cooldown, or it was held up by an overrun after its rule had been marked.
MailsApart ==
    [][pc = "mail" /\ pc' = "sleep" =>
         \A r \in triggered_alerts \ (forgotten \cup late) :
             since[r] >= ALERT_COOLDOWN_SECONDS - Cycle]_vars

\* A rule that fires for ever is mailed about again and again, although mails
\* fail, waits overrun, other rules come and go and the process restarts, unless
\* it hangs.
LastingAlertMailed ==
    \A r \in Rules :
        <>[](r \in firing /\ pc # "hung") => []<>(r \in mailed)

=============================================================================
