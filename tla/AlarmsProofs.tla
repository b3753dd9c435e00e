----------------------------- MODULE AlarmsProofs -----------------------------
(***************************************************************************)
(* Theorems about Alarms, for any number of students, devices, alarms,     *)
(* requests and days.                                                      *)
(***************************************************************************)
EXTENDS Alarms, TLAPS

-----------------------------------------------------------------------------
(* The inductive invariant.                                                *)

(* A request has read the rows of its student and the student's class; it  *)
(* has missed a row, or is behind one, only if another request of the      *)
(* student overlaps, and is behind the class only if the student moved.    *)
Reads ==
  \A r \in Reqs : req[r] # None =>
    LET u == req[r].user
    IN  /\ \A s \in req[r].seen :
             /\ s.id \in DOMAIN rows
             /\ rows[s.id].user = u
             /\ rows[s.id].class = s.class \/ u \in raced
        /\ \A i \in DOMAIN rows : rows[i].user = u =>
             (\E s \in req[r].seen : s.id = i) \/ u \in raced
        /\ req[r].class = current[u] \/ u \in moved \cup raced

(* Whoever has stopped the alarm has rows, and they are all stopped. *)
Stops ==
  /\ \A u \in acked : \E i \in DOMAIN rows : rows[i].user = u
  /\ \A i \in DOMAIN rows :
       rows[i].user \in acked /\ rows[i].status = 0 => rows[i].user \in raced

(* A job sends to nobody who had stopped the alarm when it began. *)
Sends ==
  \A j \in Fires : \A p \in fire[j].todo :
    /\ p[2] \in DOMAIN rows
    /\ rows[p[2]].user \in fire[j].acked => rows[p[2]].user \in raced

Inv ==
  /\ TypeOK
  /\ Overlap(req) \subseteq raced
  /\ Reads
  /\ OneRowPerStudentUnlessRaced
  /\ ClassAsAtLogin
  /\ FreshDay
  /\ Stops
  /\ Sends

-----------------------------------------------------------------------------
(* Steps.                                                                  *)

(* The same rows, of the same students in the same classes. *)
Steady ==
  /\ DOMAIN rows' = DOMAIN rows
  /\ \A i \in DOMAIN rows : rows'[i].user = rows[i].user /\ rows'[i].class = rows[i].class
  /\ UNCHANGED stays

(* No request begins. *)
Fewer == \A r \in Reqs : req'[r] = None \/ req'[r] = req[r]

Racing ==
  /\ raced \subseteq raced'
  /\ Overlap(req') \subseteq raced'
  /\ raced' \subseteq StudentIds

(* No job takes up anything new. *)
Narrower ==
  \A j \in Fires : /\ fire'[j].todo \subseteq fire[j].todo
                   /\ fire'[j].todo # {} => fire'[j].acked = fire[j].acked

LEMMA Races ==
  ASSUME Inv, raced' = raced \cup Overlap(req')
  PROVE  Racing
  BY DEF Inv, TypeOK, Racing, Overlap

LEMMA RowsTyped ==
  ASSUME TypeOK
  PROVE  \A i \in DOMAIN rows : rows[i] \in FcmToken /\ i \in Nat
  BY DEF TypeOK

LEMMA SameLength ==
  ASSUME TypeOK, NEW t \in [DOMAIN rows -> FcmToken]
  PROVE  t \in Seq(FcmToken)
  <1>1. DOMAIN rows = 1 .. Len(rows) /\ Len(rows) \in Nat
    BY DEF TypeOK
  <1> QED
    BY <1>1

LEMMA QuietStep ==
  ASSUME Inv, Steady, Fewer, Racing
  PROVE  Reads' /\ OneRowPerStudentUnlessRaced' /\ ClassAsAtLogin'
  <1>1. Reads'
    BY DEF Inv, Reads, Steady, Fewer, Racing, stays
  <1>2. OneRowPerStudentUnlessRaced'
    BY DEF Inv, OneRowPerStudentUnlessRaced, Steady, Racing
  <1>3. ClassAsAtLogin'
    BY DEF Inv, ClassAsAtLogin, Steady, Racing, stays
  <1> QED
    BY <1>1, <1>2, <1>3

LEMMA SendsKept ==
  ASSUME Inv, DOMAIN rows \subseteq DOMAIN rows',
         \A i \in DOMAIN rows : rows'[i].user = rows[i].user,
         Racing, Narrower
  PROVE  Sends'
  <1> SUFFICES ASSUME NEW j \in Fires, NEW p \in fire'[j].todo
               PROVE  /\ p[2] \in DOMAIN rows'
                      /\ rows'[p[2]].user \in fire'[j].acked => rows'[p[2]].user \in raced'
    BY DEF Sends
  <1>1. p \in fire[j].todo /\ fire'[j].acked = fire[j].acked
    BY DEF Narrower
  <1>2. /\ p[2] \in DOMAIN rows
        /\ rows[p[2]].user \in fire[j].acked => rows[p[2]].user \in raced
    BY <1>1 DEF Inv, Sends
  <1> QED
    BY <1>1, <1>2 DEF Racing

(* A step that changes neither the rows, nor who has stopped, nor whether  *)
(* the reset has run.                                                      *)
LEMMA IdleStep ==
  ASSUME Inv, TypeOK', Fewer, Racing, Narrower,
         UNCHANGED << rows, acked, time, due, missed, current, moved >>
  PROVE  Inv'
  <1>1. Steady
    BY DEF Steady, stays
  <1>2. Reads' /\ OneRowPerStudentUnlessRaced' /\ ClassAsAtLogin'
    BY <1>1, QuietStep
  <1>3. Sends'
    BY SendsKept
  <1>4. FreshDay'
    BY DEF Inv, FreshDay
  <1>5. Stops'
    BY DEF Inv, Stops, Racing
  <1> QED
    BY <1>2, <1>3, <1>4, <1>5 DEF Inv, Racing

-----------------------------------------------------------------------------
(* The invariant holds at first and is kept by each action.                *)

LEMMA InitInv == Init => Inv
  <1> SUFFICES ASSUME Init PROVE Inv
    OBVIOUS
  <1>1. DOMAIN rows = {}
    BY DEF Init
  <1>2. TypeOK
    <2>1. 0 \in 0 .. MaxDays /\ 0 \in 0 .. Len(ALARM_SLOTS) + 1
      BY SlotsAssumption, BoundAssumption
    <2>2. rows \in Seq(FcmToken)
      BY DEF Init
    <2>3. fire \in [Fires -> Fire]
      BY DEF Init, NoFire, Fire
    <2>4. alarms \in [AlarmIds -> CustomAlarm \cup {None}] /\ req \in [Reqs -> Request \cup {None}]
      BY DEF Init
    <2> QED
      BY <2>1, <2>2, <2>3, <2>4 DEF Init, TypeOK
  <1>3. Overlap(req) \subseteq raced
    BY DEF Init, Overlap
  <1>4. \A r \in Reqs : req[r] = None
    BY DEF Init
  <1>5. \A j \in Fires : fire[j].todo = {}
    BY DEF Init, NoFire
  <1>6. acked = {} /\ time = 0
    BY DEF Init
  <1> QED
    BY <1>1, <1>2, <1>3, <1>4, <1>5, <1>6
       DEF Inv, Reads, OneRowPerStudentUnlessRaced, ClassAsAtLogin, FreshDay, Stops, Sends

LEMMA WriteAlarmInv ==
  ASSUME Inv, Racing, NEW a \in AlarmIds, NEW alarm \in CustomAlarm \cup {None},
         WriteAlarm(a, alarm)
  PROVE  Inv'
  <1>1. /\ alarms' = [alarms EXCEPT ![a] = alarm]
        /\ UNCHANGED << day, time, up, rows, req, due, fire, sending, acked, missed, current, moved >>
    BY DEF WriteAlarm, clock, stays
  <1>2. TypeOK'
    BY <1>1 DEF Inv, TypeOK, Racing
  <1>3. Fewer /\ Narrower
    BY <1>1 DEF Fewer, Narrower
  <1> QED
    BY <1>1, <1>2, <1>3, IdleStep

(* A request ends without a write. *)
LEMMA EndedInv ==
  ASSUME Inv, Racing, NEW r \in Reqs, Done(r),
         UNCHANGED << clock, stays, tables, fire, sending, acked >>
  PROVE  Inv'
  <1>1. /\ req' = [req EXCEPT ![r] = None]
        /\ UNCHANGED << day, time, up, rows, alarms, due, fire, sending, acked, missed, current,
                        moved >>
    BY DEF Done, clock, tables, stays
  <1>2. TypeOK'
    BY <1>1 DEF Inv, TypeOK, Racing
  <1>3. Fewer /\ Narrower
    BY <1>1 DEF Fewer, Narrower, Inv, TypeOK
  <1> QED
    BY <1>1, <1>2, <1>3, IdleStep

LEMMA BeginSendInv ==
  ASSUME Inv, Racing, NEW j \in Fires, NEW a \in AlarmIds, BeginSend(j, a)
  PROVE  Inv'
  <1>1. /\ sending' = << j, a >>
        /\ UNCHANGED << day, time, up, rows, alarms, req, due, fire, acked, missed, current, moved >>
    BY DEF BeginSend, clock, tables, stays
  <1>2. TypeOK'
    BY <1>1 DEF Inv, TypeOK, Racing
  <1>3. Fewer /\ Narrower
    BY <1>1 DEF Fewer, Narrower
  <1> QED
    BY <1>1, <1>2, <1>3, IdleStep

LEMMA EndSendInv ==
  ASSUME Inv, Racing, NEW j \in Fires, NEW a \in AlarmIds, EndSend(j, a)
  PROVE  Inv'
  <1> DEFINE sent == {a} \X Batch(j, a)
  <1>1. /\ sending' = None
        /\ fire' = [fire EXCEPT ![j].todo = @ \ sent]
        /\ UNCHANGED << day, time, up, rows, alarms, req, due, acked, missed, current, moved >>
    BY DEF EndSend, clock, tables, stays
  <1> HIDE DEF sent
  <1>2. fire \in [Fires -> Fire]
    BY DEF Inv, TypeOK
  <1>3. /\ fire' \in [Fires -> Fire]
        /\ \A k \in Fires : /\ fire'[k].todo \subseteq fire[k].todo
                            /\ fire'[k].acked = fire[k].acked
    BY <1>1, <1>2 DEF Fire
  <1>4. TypeOK'
    BY <1>1, <1>3 DEF Inv, TypeOK, Racing
  <1>5. Fewer /\ Narrower
    BY <1>1, <1>3 DEF Fewer, Narrower
  <1> QED
    BY <1>1, <1>4, <1>5, IdleStep

LEMMA OtpPushInv ==
  ASSUME Inv, Racing, BeginOtpPush \/ EndOtpPush
  PROVE  Inv'
  <1>1. /\ sending' \in {None, OtpPush}
        /\ UNCHANGED << day, time, up, rows, alarms, req, due, fire, acked, missed, current, moved >>
    BY DEF BeginOtpPush, EndOtpPush, clock, tables, stays
  <1>2. TypeOK'
    BY <1>1 DEF Inv, TypeOK, Racing
  <1>3. Fewer /\ Narrower
    BY <1>1 DEF Fewer, Narrower
  <1> QED
    BY <1>1, <1>2, <1>3, IdleStep

LEMMA StartInv ==
  ASSUME Inv, Racing, Start
  PROVE  Inv'
  <1>1. /\ up' = TRUE
        /\ UNCHANGED << day, time, rows, alarms, req, due, fire, sending, acked, missed, current,
                        moved >>
    BY DEF Start, tables, stays
  <1>2. TypeOK'
    BY <1>1 DEF Inv, TypeOK, Racing
  <1>3. Fewer /\ Narrower
    BY <1>1 DEF Fewer, Narrower
  <1> QED
    BY <1>1, <1>2, <1>3, IdleStep

LEMMA StopAlarmInv ==
  ASSUME Inv, Racing, NEW role, NEW id \in Ids, StopAlarm(role, id)
  PROVE  Inv'
  <1>1. /\ rows' = Stopped(id)
        /\ acked' = IF RowsOf(id) = {} THEN acked ELSE acked \cup {id}
        /\ UNCHANGED << day, time, up, alarms, req, due, fire, sending, missed, current, moved >>
    BY DEF StopAlarm, clock, stays
  <1>2. \A i \in DOMAIN rows : rows[i] \in FcmToken
    BY RowsTyped DEF Inv
  <1>3. Stopped(id) \in [DOMAIN rows -> FcmToken]
    BY <1>2 DEF Stopped, FcmToken
  <1>4. \A i \in DOMAIN rows :
           /\ rows'[i].user = rows[i].user /\ rows'[i].class = rows[i].class
           /\ rows'[i].status = IF rows[i].user = id THEN 1 ELSE rows[i].status
    BY <1>1, <1>2 DEF Stopped, FcmToken
  <1>5. Steady
    BY <1>1, <1>3, <1>4 DEF Steady, stays
  <1>6. TypeOK'
    BY <1>1, <1>3, SameLength DEF Inv, TypeOK, Racing
  <1>7. Fewer /\ Narrower
    BY <1>1 DEF Fewer, Narrower
  <1>8. Reads' /\ OneRowPerStudentUnlessRaced' /\ ClassAsAtLogin' /\ Sends'
    BY <1>5, <1>7, QuietStep, SendsKept DEF Steady
  <1>9. \A i \in DOMAIN rows : rows[i].user = id => id \in acked'
    BY <1>1 DEF RowsOf
  <1>10. FreshDay'
    BY <1>1, <1>4, <1>5, <1>9 DEF Inv, FreshDay, Steady
  <1>11. Stops'
    BY <1>1, <1>4, <1>5 DEF Inv, Stops, Steady, Racing, RowsOf
  <1> QED
    BY <1>6, <1>8, <1>10, <1>11 DEF Inv, Racing

LEMMA ResetInv ==
  ASSUME Inv, Racing, reset_alarm_status
  PROVE  Inv'
  <1>1. /\ due' = due \ {0}
        /\ rows' = Reset
        /\ acked' = {}
        /\ UNCHANGED << day, time, up, alarms, req, fire, sending, missed, current, moved >>
    BY DEF reset_alarm_status, stays
  <1>2. \A i \in DOMAIN rows : rows[i] \in FcmToken
    BY RowsTyped DEF Inv
  <1>3. Reset \in [DOMAIN rows -> FcmToken]
    BY <1>2 DEF Reset, FcmToken
  <1>4. \A i \in DOMAIN rows :
           /\ rows'[i].user = rows[i].user /\ rows'[i].class = rows[i].class
           /\ rows'[i].status = 0
    BY <1>1, <1>2 DEF Reset, FcmToken
  <1>5. Steady
    BY <1>1, <1>3, <1>4 DEF Steady, stays
  <1>6. TypeOK'
    BY <1>1, <1>3, SameLength DEF Inv, TypeOK, Racing
  <1>7. Fewer /\ Narrower
    BY <1>1 DEF Fewer, Narrower
  <1>8. Reads' /\ OneRowPerStudentUnlessRaced' /\ ClassAsAtLogin' /\ Sends'
    BY <1>5, <1>7, QuietStep, SendsKept DEF Steady
  <1>9. FreshDay'
    BY <1>4, <1>5 DEF FreshDay, Steady
  <1>10. Stops'
    BY <1>1 DEF Stops
  <1> QED
    BY <1>6, <1>8, <1>9, <1>10 DEF Inv, Racing

(* A reset that fails is one that the day has missed. *)
LEMMA ResetFailsInv ==
  ASSUME Inv, Racing, ResetFails
  PROVE  Inv'
  <1>1. /\ due' = due \ {0} /\ missed' = TRUE
        /\ UNCHANGED << day, time, up, rows, alarms, req, fire, sending, acked, current, moved >>
    BY DEF ResetFails, tables, stays
  <1>2. TypeOK'
    BY <1>1 DEF Inv, TypeOK, Racing
  <1>3. Steady /\ Fewer /\ Narrower
    BY <1>1 DEF Steady, Fewer, Narrower, stays
  <1>4. Reads' /\ OneRowPerStudentUnlessRaced' /\ ClassAsAtLogin' /\ Sends'
    BY <1>3, QuietStep, SendsKept DEF Steady
  <1>5. FreshDay'
    BY <1>1 DEF FreshDay
  <1>6. Stops'
    BY <1>1 DEF Inv, Stops, Racing
  <1> QED
    BY <1>2, <1>4, <1>5, <1>6 DEF Inv, Racing

(* The rows that a job takes up are not stopped. *)
LEMMA FireInv ==
  ASSUME Inv, Racing, NEW j \in Fires, fire_alarm_slot(j)
  PROVE  Inv'
  <1>1. /\ due' = due \ {j}
        /\ fire' = [fire EXCEPT ![j] = [todo |-> Due(j), acked |-> acked]]
        /\ UNCHANGED << day, time, up, rows, alarms, req, sending, acked, missed, current, moved >>
    BY DEF fire_alarm_slot, tables, stays
  <1>2. j # 0
    BY DEF Fires
  <1>3. \A p \in Due(j) : /\ p \in AlarmIds \X Nat
                          /\ p[2] \in DOMAIN rows
                          /\ rows[p[2]].status = 0
    BY RowsTyped DEF Inv, Due, Recipients
  <1>4. fire' \in [Fires -> Fire]
    BY <1>1, <1>3 DEF Inv, TypeOK, Fire
  <1>5. TypeOK'
    BY <1>1, <1>4 DEF Inv, TypeOK, Racing
  <1>6. Steady /\ Fewer
    BY <1>1 DEF Steady, Fewer, stays
  <1>7. Reads' /\ OneRowPerStudentUnlessRaced' /\ ClassAsAtLogin'
    BY <1>6, QuietStep
  <1>8. FreshDay'
    BY <1>1, <1>2 DEF Inv, FreshDay
  <1>9. Stops'
    BY <1>1 DEF Inv, Stops, Racing
  <1>10. Sends'
    <2> SUFFICES ASSUME NEW k \in Fires, NEW p \in fire'[k].todo
                 PROVE  /\ p[2] \in DOMAIN rows
                        /\ rows[p[2]].user \in fire'[k].acked => rows[p[2]].user \in raced'
      BY <1>1 DEF Sends
    <2>1. fire \in [Fires -> Fire]
      BY DEF Inv, TypeOK
    <2>2. CASE k = j
      <3>1. fire'[k].todo = Due(j) /\ fire'[k].acked = acked
        BY <1>1, <2>1, <2>2
      <3> QED
        BY <1>3, <3>1 DEF Inv, Stops, Racing
    <2>3. CASE k # j
      <3>1. fire'[k] = fire[k]
        BY <1>1, <2>1, <2>3
      <3> QED
        BY <3>1 DEF Inv, Sends, Racing
    <2> QED
      BY <2>2, <2>3
  <1> QED
    BY <1>5, <1>7, <1>8, <1>9, <1>10 DEF Inv, Racing

LEMMA TickInv ==
  ASSUME Inv, Racing, Tick
  PROVE  Inv'
  <1>1. UNCHANGED << up, rows, alarms, req, fire, sending, current, moved >>
    BY DEF Tick, tables, stays
  <1>2. acked' = acked \/ acked' = {}
    BY DEF Tick
  <1>3. 0 \in Jobs /\ Jobs \subseteq Nat /\ Len(ALARM_SLOTS) \in Nat /\ MaxDays \in Nat
    BY SlotsAssumption, BoundAssumption DEF Jobs
  <1>4. TypeOK'
    <2>1. due' \subseteq Jobs /\ missed' \in BOOLEAN
      BY DEF Inv, TypeOK, Tick
    <2>2. day' \in 0 .. MaxDays
      BY <1>3 DEF Inv, TypeOK, Tick
    <2>3. time' \in 0 .. Len(ALARM_SLOTS) + 1
      BY <1>3 DEF Inv, TypeOK, Tick, Jobs
    <2> QED
      BY <1>1, <1>2, <2>1, <2>2, <2>3 DEF Inv, TypeOK, Racing
  <1>5. Steady /\ Fewer /\ Narrower
    BY <1>1 DEF Steady, Fewer, Narrower, stays
  <1>6. Reads' /\ OneRowPerStudentUnlessRaced' /\ ClassAsAtLogin' /\ Sends'
    BY <1>5, QuietStep, SendsKept DEF Steady
  <1>7. FreshDay'
    <2> SUFFICES ASSUME time' > 0, 0 \notin due', ~missed'
                 PROVE  time > 0 /\ 0 \notin due /\ ~missed /\ acked' = acked
      BY <1>1, <1>3 DEF Inv, FreshDay
    <2>1. time \in Jobs /\ time \in Nat
      <3>1. time' # 0
        OBVIOUS
      <3>2. time \in Jobs
        BY <3>1 DEF Tick
      <3> QED
        BY <1>3, <3>2
    <2>2. time # 0
      BY <2>1, <1>3 DEF Tick
    <2>3. acked' = acked
      BY <2>1, <2>2 DEF Tick
    <2>4. ~missed
      BY <2>1 DEF Tick
    <2>5. 0 \notin due
      BY <2>1, <2>2 DEF Tick, Running
    <2> QED
      BY <2>1, <2>2, <2>3, <2>4, <2>5
  <1>8. Stops'
    BY <1>1, <1>2 DEF Inv, Stops, Racing
  <1> QED
    BY <1>4, <1>6, <1>7, <1>8 DEF Inv, Racing

LEMMA CrashInv ==
  ASSUME Inv, Racing, Crash
  PROVE  Inv'
  <1>1. /\ up' = FALSE
        /\ req' = [r \in Reqs |-> None]
        /\ fire' = [j \in Fires |-> NoFire]
        /\ sending' = None
        /\ due' = {}
        /\ missed' = (missed \/ 0 \in due)
        /\ UNCHANGED << day, time, rows, alarms, acked, current, moved >>
    BY DEF Crash, tables, stays
  <1>2. fire' \in [Fires -> Fire] /\ \A j \in Fires : fire'[j].todo = {}
    BY <1>1 DEF NoFire, Fire
  <1>3. TypeOK'
    BY <1>1, <1>2 DEF Inv, TypeOK, Racing
  <1>4. Steady /\ Fewer /\ Narrower
    BY <1>1, <1>2 DEF Steady, Fewer, Narrower, stays
  <1>5. Reads' /\ OneRowPerStudentUnlessRaced' /\ ClassAsAtLogin' /\ Sends'
    BY <1>4, QuietStep, SendsKept DEF Steady
  <1>6. FreshDay'
    BY <1>1 DEF Inv, FreshDay
  <1>7. Stops'
    BY <1>1 DEF Inv, Stops, Racing
  <1> QED
    BY <1>3, <1>5, <1>6, <1>7 DEF Inv, Racing

-----------------------------------------------------------------------------
(* The logins.                                                             *)

LEMMA BeginMapInv ==
  ASSUME Inv, Racing, NEW r \in Reqs, NEW u \in StudentIds, NEW t \in Tokens, BeginMap(r, u, t)
  PROVE  Inv'
  <1> DEFINE seen == {[id |-> i, class |-> rows[i].class, token |-> rows[i].token] :
                        i \in RowsOf(u)}
             q == [user |-> u, class |-> current[u], token |-> t, seen |-> seen]
  <1>1. /\ req' = [req EXCEPT ![r] = q]
        /\ UNCHANGED << day, time, up, rows, alarms, due, fire, sending, acked, missed,
                        current, moved >>
    BY DEF BeginMap, clock, tables, stays
  <1>2. /\ \A s \in seen : s \in Seen /\ s.id \in RowsOf(u) /\ s.class = rows[s.id].class
        /\ \A i \in RowsOf(u) : \E s \in seen : s.id = i
    <2>1. ASSUME NEW i \in RowsOf(u)
          PROVE  i \in Nat /\ rows[i].class \in Classes \cup {None} /\ rows[i].token \in Tokens
      BY RowsTyped DEF Inv, RowsOf, FcmToken
    <2>2. ASSUME NEW i \in RowsOf(u)
          PROVE  [id |-> i, class |-> rows[i].class, token |-> rows[i].token] \in Seen
      BY <2>1 DEF Seen
    <2>3. ASSUME NEW s \in seen
          PROVE  s \in Seen /\ s.id \in RowsOf(u) /\ s.class = rows[s.id].class
      <3>1. PICK i \in RowsOf(u) :
                   s = [id |-> i, class |-> rows[i].class, token |-> rows[i].token]
        OBVIOUS
      <3> HIDE DEF seen
      <3>2. s.id = i /\ s.class = rows[i].class
        BY <3>1
      <3>3. s \in Seen
        BY <2>2, <3>1
      <3> QED
        BY <3>2, <3>3
    <2>4. ASSUME NEW i \in RowsOf(u)
          PROVE  \E s \in seen : s.id = i
      <3>1. [id |-> i, class |-> rows[i].class, token |-> rows[i].token] \in seen
        OBVIOUS
      <3> HIDE DEF seen
      <3> QED
        BY <3>1
    <2> QED
      BY <2>3, <2>4
  <1> HIDE DEF seen
  <1>3. current[u] \in Classes \cup {None}
    BY DEF Inv, TypeOK
  <1>4. q \in Request /\ q.user = u /\ q.seen = seen /\ q.class = current[u]
    BY <1>2, <1>3 DEF Request
  <1> HIDE DEF q
  <1>5. TypeOK'
    BY <1>1, <1>4 DEF Inv, TypeOK, Racing
  <1>6. req'[r] = q /\ \A s \in Reqs \ {r} : req'[s] = req[s]
    BY <1>1 DEF Inv, TypeOK
  <1>7. Reads'
    <2> SUFFICES ASSUME NEW p \in Reqs, req'[p] # None
                 PROVE  LET v == req'[p].user
                        IN  /\ \A s \in req'[p].seen :
                                 /\ s.id \in DOMAIN rows
                                 /\ rows[s.id].user = v
                                 /\ rows[s.id].class = s.class \/ v \in raced'
                            /\ \A i \in DOMAIN rows : rows[i].user = v =>
                                 (\E s \in req'[p].seen : s.id = i) \/ v \in raced'
                            /\ req'[p].class = current[v] \/ v \in moved \cup raced'
      BY <1>1 DEF Reads
    <2>1. CASE p = r
      BY <1>2, <1>4, <1>6, <2>1 DEF RowsOf
    <2>2. CASE p # r
      BY <1>6, <2>2 DEF Inv, Reads, Racing
    <2> QED
      BY <2>1, <2>2
  <1>8. OneRowPerStudentUnlessRaced' /\ ClassAsAtLogin' /\ FreshDay' /\ Stops'
    BY <1>1 DEF Inv, OneRowPerStudentUnlessRaced, ClassAsAtLogin, FreshDay, Stops, Racing
  <1>9. Sends'
    BY <1>1, SendsKept DEF Narrower
  <1> QED
    BY <1>5, <1>7, <1>8, <1>9 DEF Inv, Racing

(* A student moves: the rows and the logins in flight may be behind. *)
LEMMA MoveInv ==
  ASSUME Inv, Racing, NEW u \in StudentIds, NEW c \in Classes \cup {None}, Move(u, c)
  PROVE  Inv'
  <1>1. /\ current' = [current EXCEPT ![u] = c]
        /\ moved' = moved \cup {u}
        /\ UNCHANGED << day, time, up, rows, alarms, req, due, fire, sending, acked, missed >>
    BY DEF Move, clock, tables
  <1>2. TypeOK'
    BY <1>1 DEF Inv, TypeOK, Racing
  <1>3. \A v \in StudentIds : current'[v] = current[v] \/ v \in moved'
    BY <1>1 DEF Inv, TypeOK
  <1>4. \A r \in Reqs : req[r] # None => req[r].user \in StudentIds
    BY DEF Inv, TypeOK, Request
  <1>5. Reads'
    BY <1>1, <1>3, <1>4 DEF Inv, Reads, Racing
  <1>6. ClassAsAtLogin'
    BY <1>1, <1>3, RowsTyped DEF Inv, ClassAsAtLogin, Racing, FcmToken
  <1>7. OneRowPerStudentUnlessRaced' /\ FreshDay' /\ Stops'
    BY <1>1 DEF Inv, OneRowPerStudentUnlessRaced, FreshDay, Stops, Racing
  <1>8. Sends'
    BY <1>1, SendsKept DEF Narrower
  <1> QED
    BY <1>2, <1>5, <1>6, <1>7, <1>8 DEF Inv, Racing

(* What a login that ends leaves of the other logins, and of who has moved. *)
LEMMA Landing ==
  ASSUME Inv, NEW r \in Reqs, req[r] # None, Done(r), moved' = Caught(req[r])
  PROVE  /\ req[r] \in Request
         /\ req' \in [Reqs -> Request \cup {None}]
         /\ Fewer
         /\ \A p \in Reqs : req'[p] # None => /\ p # r /\ req'[p] = req[p]
                                              /\ req[p].user = req[r].user =>
                                                   req[r].user \in raced
         /\ moved' \subseteq moved
         /\ \A v \in moved : v # req[r].user => v \in moved'
         /\ req[r].class = current[req[r].user] \/ req[r].user \in moved' \cup raced
  <1>1. req \in [Reqs -> Request \cup {None}] /\ req[r] \in Request
    BY DEF Inv, TypeOK
  <1>2. req' = [req EXCEPT ![r] = None]
    BY DEF Done
  <1>3. \A p \in Reqs : req'[p] # None => p # r /\ req'[p] = req[p] /\ req[p] \in Request
    BY <1>1, <1>2
  <1>4. \A p \in Reqs : req'[p] # None /\ req[p].user = req[r].user => req[r].user \in raced
    BY <1>1, <1>3 DEF Inv, Overlap, Request
  <1>5. req[r].class = current[req[r].user] \/ req[r].user \in moved \cup raced
    BY DEF Inv, Reads
  <1>6. /\ moved' \subseteq moved
        /\ \A v \in moved : v # req[r].user => v \in moved'
        /\ req[r].class # current[req[r].user] => moved' = moved
    BY DEF Caught
  <1> QED
    BY <1>1, <1>2, <1>3, <1>4, <1>5, <1>6 DEF Fewer

(* The row keeps its student and its status, and takes the class that the  *)
(* login has read, unless another login has changed it meanwhile.          *)
LEMMA MapUpdateInv ==
  ASSUME Inv, Racing, NEW r \in Reqs, MapUpdate(r)
  PROVE  Inv'
  <1> DEFINE q == req[r]
             u == req[r].user
  <1>1. /\ q # None
        /\ Done(r)
        /\ moved' = Caught(q)
        /\ UNCHANGED << day, time, up, alarms, due, fire, sending, acked, missed, current >>
    BY DEF MapUpdate, clock
  <1>2. PICK s \in q.seen : q.seen = {s} /\ rows' = [rows EXCEPT ![s.id] = Remapped(@, q, s)]
    BY DEF MapUpdate
  <1>3. /\ q \in Request
        /\ req' \in [Reqs -> Request \cup {None}]
        /\ Fewer
        /\ \A p \in Reqs : req'[p] # None => /\ p # r /\ req'[p] = req[p]
                                             /\ req[p].user = u => u \in raced
        /\ moved' \subseteq moved
        /\ \A v \in moved : v # u => v \in moved'
        /\ q.class = current[u] \/ u \in moved' \cup raced
    BY <1>1, Landing
  <1>4. /\ s.id \in DOMAIN rows
        /\ rows[s.id].user = u
        /\ rows[s.id].class = s.class \/ u \in raced
        /\ \A k \in DOMAIN rows : rows[k].user = u => k = s.id \/ u \in raced
        /\ \A k \in DOMAIN rows : rows[k] \in FcmToken
    BY <1>1, <1>2, RowsTyped DEF Inv, Reads
  <1>5. /\ Remapped(rows[s.id], q, s) \in FcmToken
        /\ Remapped(rows[s.id], q, s).user = u
        /\ Remapped(rows[s.id], q, s).status = rows[s.id].status
        /\ Remapped(rows[s.id], q, s).class = q.class \/ u \in raced
    BY <1>3, <1>4 DEF Remapped, FcmToken, Request
  <1>6. /\ rows' \in [DOMAIN rows -> FcmToken]
        /\ \A k \in DOMAIN rows :
             /\ rows'[k].user = rows[k].user
             /\ rows'[k].status = rows[k].status
             /\ k # s.id => rows'[k] = rows[k]
        /\ rows'[s.id].class = q.class \/ u \in raced
    BY <1>2, <1>4, <1>5
  <1>7. rows' \in Seq(FcmToken) /\ DOMAIN rows' = DOMAIN rows
    BY <1>6, SameLength DEF Inv
  <1>8. TypeOK'
    BY <1>1, <1>3, <1>7 DEF Inv, TypeOK, Racing
  <1> HIDE DEF q, u
  <1>9. Reads'
    <2> SUFFICES ASSUME NEW p \in Reqs, req'[p] # None
                 PROVE  LET v == req[p].user
                        IN  /\ \A a \in req[p].seen :
                                 /\ a.id \in DOMAIN rows
                                 /\ rows'[a.id].user = v
                                 /\ rows'[a.id].class = a.class \/ v \in raced'
                            /\ \A i \in DOMAIN rows : rows'[i].user = v =>
                                 (\E a \in req[p].seen : a.id = i) \/ v \in raced'
                            /\ req[p].class = current[v] \/ v \in moved' \cup raced'
      BY <1>1, <1>3, <1>7 DEF Reads
    <2>1. CASE req[p].user = u
      BY <1>3, <1>4, <1>6, <2>1 DEF Inv, Reads, Racing
    <2>2. CASE req[p].user # u
      BY <1>3, <1>4, <1>6, <2>2 DEF Inv, Reads, Racing
    <2> QED
      BY <2>1, <2>2
  <1>10. ClassAsAtLogin'
    BY <1>1, <1>3, <1>4, <1>6, <1>7 DEF Inv, ClassAsAtLogin, Racing
  <1>11. OneRowPerStudentUnlessRaced' /\ FreshDay' /\ Stops'
    BY <1>1, <1>6, <1>7 DEF Inv, OneRowPerStudentUnlessRaced, FreshDay, Stops, Racing
  <1>12. Sends'
    BY <1>1, <1>6, <1>7, SendsKept DEF Narrower
  <1> QED
    BY <1>8, <1>9, <1>10, <1>11, <1>12 DEF Inv, Racing

(* Any earlier row of the student was inserted by another login since.     *)
LEMMA MapInsertInv ==
  ASSUME Inv, Racing, NEW r \in Reqs, MapInsert(r)
  PROVE  Inv'
  <1> DEFINE q == req[r]
             u == req[r].user
             new == [user |-> q.user, class |-> q.class, token |-> q.token, status |-> 0]
             n == Len(rows) + 1
  <1>1. /\ q # None
        /\ q.seen = {}
        /\ rows' = Append(rows, new)
        /\ Done(r)
        /\ moved' = Caught(q)
        /\ UNCHANGED << day, time, up, alarms, due, fire, sending, acked, missed, current >>
    BY DEF MapInsert, clock
  <1>2. /\ q \in Request
        /\ req' \in [Reqs -> Request \cup {None}]
        /\ Fewer
        /\ \A p \in Reqs : req'[p] # None => /\ p # r /\ req'[p] = req[p]
                                             /\ req[p].user = u => u \in raced
        /\ moved' \subseteq moved
        /\ \A v \in moved : v # u => v \in moved'
        /\ q.class = current[u] \/ u \in moved' \cup raced
    BY <1>1, Landing
  <1>3. rows \in Seq(FcmToken)
    BY DEF Inv, TypeOK
  <1>4. new \in FcmToken /\ new.user = u /\ new.class = q.class /\ new.status = 0
    BY <1>2 DEF FcmToken, Request
  <1>5. \A k \in DOMAIN rows : rows[k].user = u => u \in raced
    BY <1>1 DEF Inv, Reads
  <1> HIDE DEF new, q, u
  <1>6. /\ rows' \in Seq(FcmToken)
        /\ DOMAIN rows' = DOMAIN rows \cup {n}
        /\ n \notin DOMAIN rows
        /\ rows'[n] = new
        /\ \A k \in DOMAIN rows : rows'[k] = rows[k]
    BY <1>1, <1>3, <1>4
  <1> HIDE DEF n
  <1>7. TypeOK'
    BY <1>1, <1>2, <1>6 DEF Inv, TypeOK, Racing
  <1>8. Reads'
    <2> SUFFICES ASSUME NEW p \in Reqs, req'[p] # None
                 PROVE  LET v == req[p].user
                        IN  /\ \A a \in req[p].seen :
                                 /\ a.id \in DOMAIN rows'
                                 /\ rows'[a.id].user = v
                                 /\ rows'[a.id].class = a.class \/ v \in raced'
                            /\ \A i \in DOMAIN rows' : rows'[i].user = v =>
                                 (\E a \in req[p].seen : a.id = i) \/ v \in raced'
                            /\ req[p].class = current[v] \/ v \in moved' \cup raced'
      BY <1>1, <1>2 DEF Reads
    <2> QED
      BY <1>2, <1>4, <1>6 DEF Inv, Reads, Racing
  <1>9. OneRowPerStudentUnlessRaced'
    BY <1>4, <1>5, <1>6 DEF Inv, OneRowPerStudentUnlessRaced, Racing
  <1>10. ClassAsAtLogin'
    BY <1>1, <1>2, <1>4, <1>5, <1>6 DEF Inv, ClassAsAtLogin, Racing
  <1>11. FreshDay'
    BY <1>1, <1>4, <1>6 DEF Inv, FreshDay
  <1>12. Stops'
    BY <1>1, <1>4, <1>5, <1>6 DEF Inv, Stops, Racing
  <1>13. Sends'
    BY <1>1, <1>6, SendsKept DEF Narrower
  <1> QED
    BY <1>7, <1>8, <1>9, <1>10, <1>11, <1>12, <1>13 DEF Inv, Racing

LEMMA StepInv ==
  ASSUME Inv, Racing, Step
  PROVE  Inv'
  <1>1. \A alarm \in Plans : alarm \in CustomAlarm
    BY PlansAssumption
  <1>2. ASSUME NEW a \in AlarmIds, NEW alarm \in Plans, CreateAlarm(a, alarm) PROVE Inv'
    BY <1>1, <1>2, WriteAlarmInv DEF CreateAlarm
  <1>3. ASSUME NEW a \in AlarmIds, NEW alarm \in Plans, UpdateAlarm(a, alarm) PROVE Inv'
    BY <1>1, <1>3, WriteAlarmInv DEF UpdateAlarm
  <1>4. ASSUME NEW a \in AlarmIds, DeleteAlarm(a) PROVE Inv'
    BY <1>4, WriteAlarmInv DEF DeleteAlarm
  <1>5. ASSUME NEW a \in AlarmIds, NEW j \in Fires, BeginSend(j, a) PROVE Inv'
    BY <1>5, BeginSendInv
  <1>6. ASSUME NEW a \in AlarmIds, NEW j \in Fires, EndSend(j, a) PROVE Inv'
    BY <1>6, EndSendInv
  <1>7. ASSUME NEW u \in StudentIds, StopAlarm("student", u) PROVE Inv'
    BY <1>7, StopAlarmInv DEF Ids
  <1>8. ASSUME NEW u \in StaffIds, StopAlarm("staff", u) PROVE Inv'
    BY <1>8, StopAlarmInv DEF Ids
  <1>9. ASSUME NEW r \in Reqs, NEW u \in StudentIds, NEW t \in Tokens, BeginMap(r, u, t)
        PROVE  Inv'
    BY <1>9, BeginMapInv
  <1>10. ASSUME NEW r \in Reqs, MapRefused(r) PROVE Inv'
    BY <1>10, EndedInv DEF MapRefused
  <1>11. ASSUME NEW r \in Reqs, MapUpdate(r) PROVE Inv'
    BY <1>11, MapUpdateInv
  <1>12. ASSUME NEW r \in Reqs, MapInsert(r) PROVE Inv'
    BY <1>12, MapInsertInv
  <1>13. ASSUME NEW r \in Reqs, MapAbort(r) PROVE Inv'
    BY <1>13, EndedInv DEF MapAbort
  <1>14. CASE reset_alarm_status
    BY <1>14, ResetInv
  <1>15. ASSUME NEW j \in Fires, fire_alarm_slot(j) PROVE Inv'
    BY <1>15, FireInv
  <1>16. CASE Tick
    BY <1>16, TickInv
  <1>17. CASE Crash
    BY <1>17, CrashInv
  <1>18. CASE Start
    BY <1>18, StartInv
  <1>19. ASSUME NEW u \in StudentIds, NEW c \in Classes \cup {None}, Move(u, c) PROVE Inv'
    BY <1>19, MoveInv
  <1>20. CASE ResetFails
    BY <1>20, ResetFailsInv
  <1>21. CASE BeginOtpPush \/ EndOtpPush
    BY <1>21, OtpPushInv
  <1> QED
    BY <1>2, <1>3, <1>4, <1>5, <1>6, <1>7, <1>8, <1>9, <1>10, <1>11, <1>12, <1>13,
       <1>14, <1>15, <1>16, <1>17, <1>18, <1>19, <1>20, <1>21 DEF Step

LEMMA NextInv ==
  ASSUME Inv, [Next]_vars
  PROVE  Inv'
  <1>1. CASE Next
    BY <1>1, Races, StepInv DEF Next
  <1>2. CASE UNCHANGED vars
    BY <1>2 DEF vars, Inv, TypeOK, Reads, OneRowPerStudentUnlessRaced, ClassAsAtLogin,
                FreshDay, Stops, Sends
  <1> QED
    BY <1>1, <1>2

(* A job sends nothing to a student who had stopped the alarm. *)
LEMMA InvRespected ==
  ASSUME Inv, NEW j \in Fires, NEW a \in AlarmIds, EndSend(j, a), NEW i \in Batch(j, a),
         rows[i].user \in fire[j].acked
  PROVE  rows[i].user \in raced
  <1>1. << a, i >> \in fire[j].todo
    BY DEF Batch
  <1>2. << a, i >>[2] = i
    OBVIOUS
  <1> QED
    BY <1>1, <1>2 DEF Inv, Sends

-----------------------------------------------------------------------------
(* The theorems.                                                           *)

(* The invariant, for any number of students, devices, jobs and requests. *)
THEOREM InvHolds == Spec => []Inv
  <1>1. Init => Inv
    BY InitInv
  <1>2. Inv /\ [Next]_vars => Inv'
    BY NextInv
  <1> QED
    BY <1>1, <1>2, PTL DEF Spec

(* The tables and the jobs of the scheduler keep their kinds. *)
THEOREM AlarmsTyped == Spec => []TypeOK
  <1>1. Inv => TypeOK
    BY DEF Inv
  <1> QED
    BY InvHolds, <1>1, PTL

(* A student gets a second row only from two logins in flight at once. *)
THEOREM OneRowHolds == Spec => []OneRowPerStudentUnlessRaced
  <1>1. Inv => OneRowPerStudentUnlessRaced
    BY DEF Inv
  <1> QED
    BY InvHolds, <1>1, PTL

(* The class a student is sent alarms by is the student's, but for a move  *)
(* since the last login, or two logins at once.                            *)
THEOREM ClassAsAtLoginHolds == Spec => []ClassAsAtLogin
  <1>1. Inv => ClassAsAtLogin
    BY DEF Inv
  <1> QED
    BY InvHolds, <1>1, PTL

(* After 7:50 a stopped row is one that was stopped today, unless the      *)
(* reset did not run, the server being down or blocked by a push when it   *)
(* was due, or ran and failed on the database.                             *)
THEOREM FreshDayHolds == Spec => []FreshDay
  <1>1. Inv => FreshDay
    BY DEF Inv
  <1> QED
    BY InvHolds, <1>1, PTL

(* A reminder fired after a student's stop reaches none of the student's   *)
(* devices, unless two of the student's logins were in flight at once.     *)
THEOREM StopRespectedHolds == Spec => StopRespected
  <1>1. Inv /\ [Next]_vars =>
          [\A j \in Fires, a \in AlarmIds : EndSend(j, a) =>
             \A i \in Batch(j, a) :
               rows[i].user \in fire[j].acked => rows[i].user \in raced]_vars
    BY InvRespected
  <1> QED
    BY InvHolds, <1>1, PTL DEF Spec, StopRespected
=============================================================================
