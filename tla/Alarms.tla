------------------------------- MODULE Alarms -------------------------------
(***************************************************************************)
(* Custom alarms: the tables "custom_alarm" and "fcm_token", the jobs of   *)
(* the in-process scheduler that push alarms to the devices, and the       *)
(* handlers that write the two tables.                                     *)
(*                                                                         *)
(* Jobs and requests are coroutines of one event loop.  A job reads alarms *)
(* and tokens in one transaction, so all it reads is the snapshot of its   *)
(* first SELECT.  A push is a blocking call, of a login's code as well as   *)
(* of an alarm: while it lasts nothing else runs, but the clock does.      *)
(***************************************************************************)
EXTENDS Naturals, Sequences, FiniteSets

CONSTANTS
    StudentIds,   \* student ids
    StaffIds,     \* employee ids, numbered independently of the students'
    Tokens,       \* FCM tokens of the devices
    Classes,
    AlarmIds,
    Plans,        \* the alarms one may write
    Reqs,         \* verify-otp requests that may be in flight at the same time
    ALARM_SLOTS,  \* the slot each fire job of a day asks for
    MaxRows,      \* bound on the rows of fcm_token
    MaxDays,      \* bound on the days
    OtpPush,      \* the push of a login's code
    None

Slots == {ALARM_SLOTS[i] : i \in DOMAIN ALARM_SLOTS}
Jobs == 0 .. Len(ALARM_SLOTS)    \* 0 is the reset job
Fires == Jobs \ {0}
Ids == StudentIds \cup StaffIds

\* class_id and section_id are copied and compared alike; one field stands for both.
FcmToken == [user : StudentIds, class : Classes \cup {None}, token : Tokens, status : {0, 1}]
CustomAlarm == [class : Classes \cup {None}, date : Nat, slot : Slots]
Seen == [id : Nat, class : Classes \cup {None}, token : Tokens]
Request ==
    [user : StudentIds, class : Classes \cup {None}, token : Tokens, seen : SUBSET Seen]
Fire == [todo : SUBSET (AlarmIds \X Nat), acked : SUBSET Ids]

ASSUME SlotsAssumption == ALARM_SLOTS \in Seq(Slots)
ASSUME NoneAssumption == None \notin Classes \cup CustomAlarm \cup Request \cup (Jobs \X AlarmIds)
ASSUME PlansAssumption == Plans \subseteq CustomAlarm
ASSUME PushAssumption == OtpPush \notin {None} \cup (Jobs \X AlarmIds)
ASSUME BoundAssumption == MaxRows \in Nat /\ MaxDays \in Nat

VARIABLES
    day,       \* the date
    time,      \* last of the day's job times that has passed: none (0), 7:50 (1), ...
    up,        \* the server process runs
    rows,      \* the table fcm_token
    alarms,    \* the table custom_alarm
    current,   \* the class of each student's current stay (table of Enrolment)
    req,       \* the verify-otp requests in flight
    due,       \* jobs the scheduler has to start
    fire,      \* per fire job, what it still has to send
    sending,   \* what is pushed and blocks the loop: a job's alarm, or OtpPush
    acked,     \* history: ids that stopped their alarm since 7:50 or the reset
    raced,     \* history: students two verify-otp requests were mapping at once
    moved,     \* history: students who have changed class since a login read it
    missed     \* history: the day's reset failed, or came due with the server down or blocked

tables == <<rows, alarms>>
clock == <<day, time, up, due, missed>>
stays == <<current, moved>>
vars == <<day, time, up, rows, alarms, current, req, due, fire, sending, acked, raced, moved,
          missed>>

NoFire == [todo |-> {}, acked |-> {}]

Init ==
    /\ day = 0 /\ time = 0 /\ up = TRUE
    /\ rows = <<>>
    /\ alarms = [a \in AlarmIds |-> None]
    /\ req = [r \in Reqs |-> None]
    /\ due = {} /\ fire = [j \in Fires |-> NoFire] /\ sending = None
    /\ current \in [StudentIds -> Classes \cup {None}] /\ moved = {}
    /\ acked = {} /\ raced = {} /\ missed = FALSE

Running == up /\ sending = None
RowsOf(u) == {i \in DOMAIN rows : rows[i].user = u}
Stored(a) == alarms[a] # None

---------------------------------------------------------------------------
(* /custom-alarm/: create, update, delete *)

WriteAlarm(a, alarm) ==
    /\ Running
    /\ alarms' = [alarms EXCEPT ![a] = alarm]
    /\ UNCHANGED <<clock, stays, rows, req, fire, sending, acked>>

CreateAlarm(a, alarm) == ~Stored(a) /\ WriteAlarm(a, alarm)
UpdateAlarm(a, alarm) == Stored(a) /\ WriteAlarm(a, alarm)
DeleteAlarm(a) == Stored(a) /\ WriteAlarm(a, None)

---------------------------------------------------------------------------
(* POST /custom-alarm/stop-alarm *)

\* mutant: stops are counted
StopCounted(id) ==
    [i \in DOMAIN rows |-> IF rows[i].user = id THEN [rows[i] EXCEPT !.status = @ + 1] ELSE rows[i]]

\* One UPDATE of all rows with the session's user_id, whatever the role.
Stopped(id) ==
    [i \in DOMAIN rows |-> IF rows[i].user = id THEN [rows[i] EXCEPT !.status = 1] ELSE rows[i]]

\* 404 if no row matched.
StopAlarm(role, id) ==
    /\ Running
    /\ rows' = Stopped(id)
    /\ acked' = IF RowsOf(id) = {} THEN acked ELSE acked \cup {id}
    /\ UNCHANGED <<clock, stays, alarms, req, fire, sending>>

---------------------------------------------------------------------------
(* verify-otp of a student whose device has a token: the upsert of fcm_token *)

\* The transaction's snapshot: the student's class, and the student's rows as they are.
BeginMap(r, u, t) ==
    /\ Running
    /\ req[r] = None
    /\ req' = [req EXCEPT ![r] =
                 [user |-> u, class |-> current[u], token |-> t,
                  seen |-> {[id |-> i, class |-> rows[i].class, token |-> rows[i].token] :
                              i \in RowsOf(u)}]]
    /\ UNCHANGED <<clock, stays, tables, fire, sending, acked>>

Done(r) == req' = [req EXCEPT ![r] = None]

\* fcm_token is unique: writing one that another row has fails.
Taken(q) ==
    /\ \A s \in q.seen : s.token # q.token
    /\ \E i \in DOMAIN rows : rows[i].token = q.token /\ \A s \in q.seen : s.id # i

\* mutant: the row is written back whole, as a new one
Rewrite(row, q, s) == [user |-> q.user, class |-> q.class, token |-> q.token, status |-> 0]

\* mutant: an old row keeps its class
Retokened(row, q, s) == [row EXCEPT !.token = IF s.token = q.token THEN @ ELSE q.token]

\* The columns the handler assigns, those the ORM finds changed; status is not one.
Remapped(row, q, s) ==
    [row EXCEPT !.token = IF s.token = q.token THEN @ ELSE q.token,
                !.class = IF s.class = q.class THEN @ ELSE q.class]

\* The class that the login has read is the student's.
Caught(q) == IF q.class = current[q.user] THEN moved \ {q.user} ELSE moved

\* Two rows for the student (MultipleResultsFound) or a duplicate token
\* (IntegrityError): 500, nothing is written.
MapRefused(r) ==
    /\ Running
    /\ req[r] # None
    /\ Cardinality(req[r].seen) > 1 \/ Taken(req[r])
    /\ Done(r)
    /\ UNCHANGED <<clock, stays, tables, fire, sending, acked>>

MapUpdate(r) ==
    LET q == req[r] IN
    /\ Running
    /\ q # None
    /\ ~Taken(q)
    /\ \E s \in q.seen : q.seen = {s} /\ rows' = [rows EXCEPT ![s.id] = Remapped(@, q, s)]
    /\ moved' = Caught(q)
    /\ Done(r)
    /\ UNCHANGED <<clock, current, alarms, fire, sending, acked>>

\* mutant: a login always adds a row
MapInsertAlways(r) ==
    LET q == req[r] IN
    /\ Running
    /\ q # None
    /\ ~Taken(q)
    /\ Len(rows) < MaxRows
    /\ rows' = Append(rows, [user |-> q.user, class |-> q.class, token |-> q.token,
                             status |-> 0])
    /\ moved' = Caught(q)
    /\ Done(r)
    /\ UNCHANGED <<clock, current, alarms, fire, sending, acked>>

MapInsert(r) ==
    LET q == req[r] IN
    /\ Running
    /\ q # None
    /\ q.seen = {}
    /\ ~Taken(q)
    /\ Len(rows) < MaxRows
    /\ rows' = Append(rows, [user |-> q.user, class |-> q.class, token |-> q.token,
                             status |-> 0])
    /\ moved' = Caught(q)
    /\ Done(r)
    /\ UNCHANGED <<clock, current, alarms, fire, sending, acked>>

\* The request fails elsewhere or its client is gone: rolled back.
MapAbort(r) ==
    /\ Running
    /\ req[r] # None
    /\ Done(r)
    /\ UNCHANGED <<clock, stays, tables, fire, sending, acked>>

\* A commit of Enrolment gives the student another class, or none.
Move(u, c) ==
    /\ Running
    /\ c # current[u]
    /\ current' = [current EXCEPT ![u] = c]
    /\ moved' = moved \cup {u}
    /\ UNCHANGED <<clock, tables, req, fire, sending, acked>>

---------------------------------------------------------------------------
(* The scheduler's jobs *)

NotCommitted == rows              \* mutant: the reset is rolled back

Reset == [i \in DOMAIN rows |-> [rows[i] EXCEPT !.status = 0]]

reset_alarm_status ==
    /\ Running
    /\ 0 \in due
    /\ due' = due \ {0}
    /\ rows' = Reset
    /\ acked' = {}
    /\ UNCHANGED <<day, time, up, alarms, stays, req, fire, sending, missed>>

\* The UPDATE or the commit raises: rolled back, and the scheduler does not retry.
ResetFails ==
    /\ Running
    /\ 0 \in due
    /\ due' = due \ {0}
    /\ missed' = TRUE
    /\ UNCHANGED <<day, time, up, tables, stays, req, fire, sending, acked>>

\* The alarms of today and of the slot, each with the unstopped rows of its class.
Recipients(a) ==
    {i \in DOMAIN rows : rows[i].status = 0 /\ alarms[a].class \in {None, rows[i].class}}

Due(j) ==
    {p \in AlarmIds \X DOMAIN rows :
        /\ Stored(p[1])
        /\ alarms[p[1]].date = day
        /\ alarms[p[1]].slot = ALARM_SLOTS[j]
        /\ p[2] \in Recipients(p[1])}

fire_alarm_slot(j) ==
    /\ Running
    /\ j \in due
    /\ due' = due \ {j}
    /\ fire' = [fire EXCEPT ![j] = [todo |-> Due(j), acked |-> acked]]
    /\ UNCHANGED <<day, time, up, tables, stays, req, sending, acked, missed>>

\* The rows of one alarm are sent to without an await in between.
BeginSend(j, a) ==
    /\ Running
    /\ \E i \in DOMAIN rows : <<a, i>> \in fire[j].todo
    /\ sending' = <<j, a>>
    /\ UNCHANGED <<clock, stays, tables, req, fire, acked>>

\* What the job sends now, and what remains.
Batch(j, a) == {i \in DOMAIN rows : <<a, i>> \in fire[j].todo}

EndSend(j, a) ==
    /\ up
    /\ sending = <<j, a>>
    /\ sending' = None
    /\ fire' = [fire EXCEPT ![j].todo = @ \ ({a} \X Batch(j, a))]
    /\ UNCHANGED <<clock, stays, tables, req, acked>>

---------------------------------------------------------------------------
(* send-otp: the code is committed, then pushed in the same blocking way *)

BeginOtpPush ==
    /\ Running
    /\ sending' = OtpPush
    /\ UNCHANGED <<clock, stays, tables, req, fire, acked>>

EndOtpPush ==
    /\ up
    /\ sending = OtpPush
    /\ sending' = None
    /\ UNCHANGED <<clock, stays, tables, req, fire, acked>>

---------------------------------------------------------------------------
(* The environment *)

\* Time reaches the next job time, or midnight.  A job that is due is started
\* at once; if the loop is blocked it is started late, or skipped when the
\* scheduler's grace of one second has run out; if the server is down, never.
Tick ==
    /\ Running => due = {}
    /\ \/ /\ time \in Jobs
          /\ time' = time + 1
          /\ day' = day
          /\ acked' = IF time = 0 THEN {} ELSE acked
          /\ \/ up /\ due' = {time} /\ missed' = (missed \/ 0 \in due)
             \/ /\ up /\ sending # None
                /\ due' = {} /\ missed' = (missed \/ 0 \in due \cup {time})
             \/ ~up /\ missed' = (missed \/ time = 0) /\ UNCHANGED due
       \/ /\ time \notin Jobs
          /\ day < MaxDays
          /\ day' = day + 1 /\ time' = 0
          /\ due' = {} /\ missed' = FALSE
          /\ UNCHANGED acked
    /\ UNCHANGED <<up, stays, tables, req, fire, sending>>

\* The process dies: its requests and jobs with it.
Crash ==
    /\ up
    /\ up' = FALSE
    /\ req' = [r \in Reqs |-> None]
    /\ fire' = [j \in Fires |-> NoFire]
    /\ sending' = None
    /\ due' = {} /\ missed' = (missed \/ 0 \in due)
    /\ UNCHANGED <<day, time, stays, tables, acked>>

\* The scheduler is built anew; the jobs it missed are not made up for.
Start ==
    /\ ~up
    /\ up' = TRUE
    /\ UNCHANGED <<day, time, due, missed, stays, tables, req, fire, sending, acked>>

Overlap(q) == {u \in StudentIds : \E r1, r2 \in Reqs :
                  r1 # r2 /\ q[r1] # None /\ q[r2] # None /\ q[r1].user = u /\ q[r2].user = u}

Step ==
    \/ \E a \in AlarmIds : \/ \E alarm \in Plans : CreateAlarm(a, alarm) \/ UpdateAlarm(a, alarm)
                           \/ DeleteAlarm(a)
                           \/ \E j \in Fires : BeginSend(j, a) \/ EndSend(j, a)
    \/ \E u \in StudentIds : StopAlarm("student", u)
    \/ \E u \in StaffIds : StopAlarm("staff", u)
    \/ \E u \in StudentIds, c \in Classes \cup {None} : Move(u, c)
    \/ \E r \in Reqs : \/ \E u \in StudentIds, t \in Tokens : BeginMap(r, u, t)
                       \/ MapRefused(r) \/ MapUpdate(r) \/ MapInsert(r) \/ MapAbort(r)
    \/ reset_alarm_status \/ ResetFails
    \/ BeginOtpPush \/ EndOtpPush
    \/ \E j \in Fires : fire_alarm_slot(j)
    \/ Tick \/ Crash \/ Start

Next == Step /\ raced' = raced \cup Overlap(req')

Spec == Init /\ [][Next]_vars

---------------------------------------------------------------------------
(* Properties *)

\* Every variable holds a value of its kind.
TypeOK ==
    /\ day \in 0 .. MaxDays /\ time \in 0 .. Len(ALARM_SLOTS) + 1 /\ up \in BOOLEAN
    /\ rows \in Seq(FcmToken)
    /\ alarms \in [AlarmIds -> CustomAlarm \cup {None}]
    /\ current \in [StudentIds -> Classes \cup {None}]
    /\ req \in [Reqs -> Request \cup {None}]
    /\ due \subseteq Jobs /\ fire \in [Fires -> Fire]
    /\ sending \in (Fires \X AlarmIds) \cup {None, OtpPush}
    /\ acked \subseteq Ids /\ raced \subseteq StudentIds /\ moved \subseteq StudentIds
    /\ missed \in BOOLEAN

\* Once a student has stopped the alarm, no reminder that is fired later that day
\* reaches one of the student's devices, although logins rewrite the row in the
\* meantime; two logins of the student at once may break this.
StopRespected ==
    [][\A j \in Fires, a \in AlarmIds : EndSend(j, a) =>
         \A i \in Batch(j, a) : rows[i].user \in fire[j].acked => rows[i].user \in raced]_vars

\* A student has two rows, with which no login of the student can end well any
\* more, only if two of the student's logins were in flight at once.
OneRowPerStudentUnlessRaced ==
    \A i, j \in DOMAIN rows : i # j /\ rows[i].user = rows[j].user => rows[i].user \in raced

\* A stop of an earlier day silences no one today, unless the reset job did not
\* run, because the server was down or busy with pushes at 7:50, or ran and
\* failed on the database.
FreshDay ==
    time > 0 /\ 0 \notin due /\ ~missed =>
        \A i \in DOMAIN rows : rows[i].status = 1 => rows[i].user \in acked

\* The class by which a student is sent alarms is the student's, but for one who has
\* changed class and not logged in since, or has logged in twice at once: moves,
\* logins and failed logins in any order keep a row behind no longer than that.
ClassAsAtLogin ==
    \A i \in DOMAIN rows :
        LET u == rows[i].user IN rows[i].class = current[u] \/ u \in moved \cup raced

\* What the docstring of stop_alarm says: it marks the alarm of the current user.
StopsOwnAlarm ==
    [][\A u \in StaffIds : StopAlarm("staff", u) => rows' = rows]_vars

=============================================================================
