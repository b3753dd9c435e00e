# School management: a TLA+ model of the backend

The repository is the backend of a school: a FastAPI application
(`src/school_app`, one process, one event loop) over MySQL (SQLAlchemy with
aiomysql) and Redis, an in-process scheduler that pushes alarms to the students'
phones, and a separate monitoring agent (`src/infra/monitoring-agent`) that
polls Prometheus and sends mails. It has no tests. This directory holds TLA+
modules of its parts, TLC configurations that check them on small instances,
and proofs that TLAPS checks for every value of the constants.
`PROJECT.json` lists the runs, the lines each definition models, the mutants
each property was tried on, and the hazards.

## The system

| part | state | operations that change it | code |
|---|---|---|---|
| Session authentication | MySQL `session`, Redis `session:<client_key>` | `valid_session` (the dependency of every authenticated endpoint): Redis first; expired copy: evict, delete the row; miss: SELECT, warm the cache | `security/valid_session.py`, `database/redis_cache.py` |
| Web login | `session`, Redis | replaces the user's sessions, one `cache.delete` per old one, commit, `cache.set` | `api/web_login.py` |
| App login, OTP | `otp_verification`, `session`, `fcm_token`, Redis | login and resend (new code, old one superseded), verify (attempts, use up), mapping of the user onto the session, upsert of the device's token | `api/android_login.py`, `helper/optmessage.py` |
| Logout | `session`, Redis | drops the copy, deletes the row and the device's abandoned rows | `api/profile.py` |
| Alarms and scheduler | `custom_alarm`, `fcm_token.status`, the job store (memory) | CRUD, stop-alarm, the reset job of 7:50, three fire jobs per slot, blocking pushes | `scheduler/alarm_scheduler.py`, `api/custom_alarm.py`, `helper/pushnotification.py` |
| Students and enrolment | `student`, `school_class_student_mapping` | create, bulk upload, update, mapping update, transfer, promotion | `api/student.py` |
| Monitoring agent | `_last_alerted` (memory) | poll, cooldown, mail, sleep | `infra/monitoring-agent/*.py` |
| Cached answers: groups, classes, sections, subjects, teachers, employees, students, attendance, leaves, exams, timetable, transport, holidays, notices, diary, dashboard | one table or a few each, Redis items, lists, dropdowns and counts with a TTL | GET: Redis, else MySQL and store; write: commit, then set the item, delete it, delete lists by pattern | the routers of `api/` |
| Registers: names of groups to subjects, roles, employees, inquiries, holidays, notices, diary, grades, exams, marks, vehicles of students, attendance, leaves, teachers of classes, devices, submissions | one table each, a unique key for employees and devices only | look up, then insert, move or update | the same routers, `api/auth.py`, and the two apps |
| Images | files in one directory, a link in a row | create, replace, delete, submit, `/upload/` | `api/gallery_banner.py`, `api/notification.py`, `api/school_stream_subject.py`, `api/android_student.py` |
| Student app, teacher app | rows of the tables above | attendance, results, leaves, announcements, tasks, diary entries, submissions; assignments, micro schedule, chat; no cache | `api/android_student.py`, `api/android_teacher.py` |
| Admin panel | none of its own | creates, edits and deletes the rows of 27 tables through sqladmin; no look-up, no cache, no files | `admin/db_admin.py` |
| Middleware, schemas, deployment | none of their own | filters around a request; declarations | `middleware/`, `schemas/`, `infra/` |

How they interact. Every endpoint runs behind `valid_session`. verify-otp is the
hub: it consumes a code (module `Otp`), maps a session (`Sessions`), and writes
the student's row of `fcm_token` (`Alarms`), copying the class from the current
stay (`Enrolment`). The scheduler's jobs run on the same event loop as the
requests, and their pushes block it. The routers share Redis: a handler removes
entries of other routers that show its rows, by name, and forgets some. The apps
and the admin panel write the same tables and know nothing of the entries or the
look-ups. MySQL, Redis and the disk are written one after the other and never
together.

What is hard. Requests are coroutines: they interleave at every `await`, and any
await can fail. MySQL runs at REPEATABLE READ, so a request decides on the
snapshot of its first SELECT and writes into rows as they are at the COMMIT; the
ORM writes only the columns whose value was changed. Redis is a second copy
outside the transaction. Redis restarts empty; the server restarts and loses its
scheduler and requests; time passes between any two steps.

What makes each part correct. A session admits nobody after its `valid_till` and,
once revoked, never comes back; a code is accepted once, while it is the last one
sent, after at most MAX_ATTEMPTS wrong answers; a stopped alarm stays silent that
day and that day only; a student has exactly one current stay, and past ones are
history; an alert that lasts is mailed about again and again; a cached answer is
the one of the database, or outdated for a reason one can name and for a TTL at
most; a table keeps the one row per key its handlers check for; a link leads to a
file. Where the code
promises something only as long as requests do not overlap, the property says so,
and a history variable (`raced`; for the logins of one user, `rivals`) records exactly
which overlaps excuse it.

## Modules

| module | models | extends |
|---|---|---|
| `Sessions` | `valid_session`, the session side of web login, app login, verify-otp, logout; Redis, its restarts and its TTLs | |
| `SessionLifecycle` | abstract: a session is opened once with a deadline, admits while open, and is closed for ever | |
| `Otp` | the two helpers of `optmessage.py` with the transactions around them | |
| `OneTimeCode` | abstract: at most one code in force per mobile, judged within its deadline and its tries, ended by the right answer; nothing is promised to a mobile that is lost | |
| `Alarms` | alarms, token rows and the class they copy, the jobs of the day, blocking pushes, crashes, midnight | |
| `Enrolment` | stays and roll ids: every endpoint of `student.py` that writes them | |
| `MonitoringAgent` | the loop, the cooldown, mails, restarts | |
| `CacheAside` | one Redis entry under the readers that fill it and the handlers that write what it shows | |
| `CachedRoutes` | what a cached answer and a writing handler are: rows shown, key and the fields rendered into it, filters of the query; rows written, Redis calls in order | |
| `SchoolRoutes`, `PeopleRoutes`, `NoticeRoutes`, `TransportRoutes`, `ExamRoutes`, `AppRoutes` | the table of every cached answer and every writing handler of the API, a line each | `CachedRoutes` |
| `ApiRoutes` | the tables of the whole API together, the two keys that leave a filter out, and which filters are free text | the six above |
| `Registers` | a table with one row per key by look-up alone, under the handlers that write it | |
| `RegisterTables` | the table of every such register and its handlers: what each looks for, and what it does | |
| `Uploads` | images on the disk and the rows that link to them | |
| `SessionsProofs`, `OtpProofs`, `EnrolmentProofs`, `AlarmsProofs`, `MonitoringAgentProofs`, `CacheAsideProofs`, `RegistersProofs`, `UploadsProofs` | theorems | their module, `TLAPS` |
| `MC...` | definitions for TLC (symmetry, small tables) | their module |

**State and code.** Tables are functions or sequences of records named after
their columns (`otps`, `rows`, `maps`, `alarms`); Redis is a function of the key;
`req` holds, per request in flight, what its handler holds in local variables
between two awaits. In `Sessions` `pc` names the await the request is at, and
one action is the code from that await to the next that touches shared state
(`get` -> `CacheHit` / `CacheMiss`, `select` -> `SelectValid` / `SelectRefused`,
`warm` -> `WarmCache`, ...). In `Otp`, `Alarms` (verify-otp) and `Enrolment`
only the transaction matters: `Begin...` is the first SELECT and fixes the
snapshot, `Commit...` writes, `Abort` is a failure at any await in between.
Requests that end in an error without a write are actions of their own where
the refusal says something (`SelectRefused`, `VerifyRefused`, `MapRefused`,
`SendAmbiguous`, `CommitMappingStale`) and are left out where nothing happens
(404 and 409 in `Enrolment`, whose look-ups are the guards of `Begin...`).

**Protocols and tables.** Most of the API is two protocols said over and over:
cache-aside, and look-up-then-insert. Each is one module (`CacheAside`,
`Registers`), parameterised by a table that says of every handler what
distinguishes it; `Init` picks the answer (or the register) that the behaviour
follows, so that one run checks them all. A *view* of `CachedRoutes` is a cached
answer: the tables whose rows it lists, those whose columns it only shows
(`labels`), its key with the fields the f-string renders into it, in its order, and
the filters of its query, which the code writes in another place. A question is a
value for each filter; its key is what the f-string makes of it, where a filter that
is not given becomes the word None and a text with a colon becomes two segments
(`Words`). Whether two questions meet in one key is computed from this. A
*route* is a writing handler: the tables into which it inserts and which it
updates, and its calls of `redis_cache.py` in order. Whether a call reaches a key
is computed (`Concerns`), so that a sweep by a prefix that another router happens
to share is what it is in the code. Following one entry loses nothing, since no
handler moves anything from one entry to another.

A *register* of `RegisterTables` is a table around one key: the places a row can
have there, which of them exclude each other, and for every handler the places it
looks at before it writes at one. Most have the place `key` and the place `else`
(all other keys, and rows for which the look-up is skipped). Leaves have two days
and the leave over both; marks have two classes, because some look-ups name the
class and others do not; student attendance has two classes of a day and another day,
because the update may leave the day out; announcements have two classes and "all".
A handler that inserts a row per entry of a list may insert the key twice
(`insert_each`). In `Uploads`, too, `Init` picks the table: they differ in which of the
operations they have.

`CacheAside` goes from await to await (`get`, `select`, `fill`; the commit; one
`purge` per call, with the two awaits of `delete_pattern` apart). In `Registers`
the look-up (`Look`) fixes the snapshot and `Commit` writes; handlers that do not
look are one step (`Append`, `Delete`), and so is the teacher's delete-and-insert
(`Replace`), whose DELETE locks what it read. In `Uploads` every file operation is
a step of its own, as the handler awaits between them.

**What the data became.** Keys, users, tokens, classes and roll ids are model
values. `user_id` and `role` of a session are set and cleared together and are
one field; class and section of a token row, likewise. Times are small numbers.
The OTP's digits, hashes, messages, encryption, pagination and every column that
no property tells apart are left out. In `Enrolment` a client leaves a field out
or sends a value; an explicit null is not among the inputs.

## Runs

| run | instance | checks |
|---|---|---|
| `MCSessionsApp` | 2 app sessions of 1 device and user, 2 requests in flight, clock 0..2, TTL 1 (2.05 million states) | `TypeOK`, `ZombieOnlyAfterOverlap`, `AdmittedInTime`, `RevocationFinal` |
| `MCSessionsSeq` | 2 web sessions and 1 app session, 1 request at a time with aborts, `FairSpec` (34 thousand) | `ImplementsLifecycle` (refinement), `WebLoginLogsOutEverywhere`, `EverySessionEnds` (liveness) |
| `MCSessionsOld`, `MCSessionsMap` | 1 request | findings 1 and 2 |
| `MCOtp` | 2 mobiles, 2 codes, 2 requests, 2 attempts, 2 codes sent (1.4 million) | `TypeOK`, `OneActiveUnlessOverlap`, `BudgetUnlessOverlap`, `UsedIsFinal`, `AcceptsLatestOnce`, `ImplementsOneTimeCode` (refinement) |
| `MCAlarms` | 1 student and an employee of the same number, 1 class, 2 tokens, 1 alarm with 2 plans for it, 2 logins in flight, 2 days, 1 fire job (1.3 million) | `TypeOK`, `OneRowPerStudentUnlessRaced`, `FreshDay`, `ClassAsAtLogin`, `StopRespected` |
| `MCAlarmsOwn` | 1 request | finding 4 |
| `MCEnrolment` | 2 students, 3 stays, 3 classes in a row (the second with two sections, the last with none), 3 bodies, 2 upload files (a roll id twice; a broken row before a whole one), 2 requests (581 thousand) | `TypeOK`, `OneStayUnlessRaced`, `StaysEnrolled`, `LookupsAgree`, `RollsUnique`, `HistoryKept`, `MovesFromStay` |
| `MCMonitoringAgent` | 2 rules, cooldown of 6 ticks, every wait up to 1 tick and its overruns, 1 restart, `FairSpec` (203 thousand) | `TypeOK`, `BoundedSilence`, `MarkedIsMailed`, `MailsApart`, `LastingAlertMailed` (liveness) |
| `MCCache` | every cached answer and writing handler of the API, 1 entry, 2 requests in flight, `Spec` with fairness (176 thousand) | `TypeOK`, `StaleExcused`, `AnswersAsAsked`, `Converges` (liveness) |
| `MCRegisters` | every register, 4 rows, 3 requests between look-up and commit (36 thousand) | `TypeOK`, `OneRowUnlessExcused`, `AnswersUnlessClash` |
| `MCUploads` | 4 tables in turn, 3 files, 2 rows, 2 requests (1.3 million) | `TypeOK`, `LinksServed`, `NoLitter` |

`StaleExcused` is the inventory of invalidation: of all pairs of an answer and a
handler that changes it, every one is either removed by the handler or listed (a
handler of another resource, an app, the panel, or `PeopleForgotten` and
`ExamForgotten`), and among those that are removed no interleaving leaves an
outdated entry except by the two overlaps it names: a reader that stores what it
read before the commit, and a handler that ends between commit and removal.
`AnswersAsAsked` finds the keys that leave out a filter: two (finding 7). Questions
with an odd text, the word None or one with a colon, are no part of its promise: with
them the keys do collide, and `Confused` computes for which answers.
`OneRowUnlessExcused` does the same for look-ups, with `AllUnchecked` as the list
of the handlers that write without one, and `repeated` for a body that names a subject
twice; `AnswersUnlessClash` asks when `scalar_one_or_none` raises: only where two rows
already clash, except in the three handlers of `AllWide` (finding 9). `LinksServed` and
`NoLitter` say in which cases a link and a file part; two requests on one row at once
never break a link, and leave a file behind. A link that the panel or update_subject has
typed in (`SetLink`) is promised nothing: no handler asks whether the file is there, or
whether it is another row's.

**Bounds.** `MaxTime`, `MaxOtps`, `MaxRows`, `MaxDays`, `MaxRestarts` and the finite
sets of ids are the only bounds, and each one is a guard of the action that would
pass it. They are enough in this sense: two requests in flight are what an overlap
needs, two sessions of one user are what replacing and logging out need, a second
code is what superseding needs, three stays are what a transfer, a promotion and a
racing third write need, a class with two sections beside one with one is what
promotion needs to choose, a second day is what a left-over stop needs, and a class beside
none what a move needs; the proof of `Alarms` has any number of each, fire jobs
included. In `MCCache`
an outdated entry takes one reader or writer that holds data and one writer that
commits; the proof has any number. In `MCRegisters` four rows are two pairs that
clash, or two that do and two beside them, and three requests two that race and one
that looks. In `MCUploads` a replacement of a replaced image by two requests
takes three files. In `MCEnrolment` the bodies are one that sends everything, one that
clears a flag alone, and one that contradicts itself; the upload files are one that
takes a roll id twice and one whose first row breaks after its student was flushed. The
`Plans` of `MCAlarms` are an alarm to all today, which is yesterday's tomorrow, and one
to a class tomorrow.
The clock passes every lifetime
at least once. Every property has a mutant of the code, in the same run, that
violates it, so no property holds because its case never comes up.
`CHECK_DEADLOCK` is off in `MCUploads` only, whose names are not drawn twice: it
stops when all are used up and no row is left. Symmetry is used in the safety runs only. In
`MCSessionsSeq` employees and students have different numbers; see "Numbers of
users" below. Its one request at a time is for the liveness and the refinement; that
a web login logs out everywhere is proved for any number of requests.

**Fairness.** Safety runs assume none. `Sessions!FairSpec`: the event loop goes on
with every request that has arrived (`WF` on `Advance`) and time passes; nothing is
assumed of clients, of Redis staying up, or of a request not being aborted.
`MonitoringAgent!FairSpec`: the process checks, wakes up and time passes; a wait that does
not hang ends, however far it overruns; mail is strongly fair per rule, since the network
delivers again and again what is tried again and again; `Hang`, `Overrun` and `Restart`
have no fairness and may always happen. Nothing in the code bounds a wait: the timeout of
`requests.get` is one for the connection and one for each read, and SMTP has none.
`QUERY_TIMEOUT` and `MAIL_TIME` are the lengths beyond which a wait counts as overrun, and
`BoundedSilence` does not count the time by which it does.
`CacheAside!Spec`: the event loop goes on with each request and Redis
drops an entry after its TTL (every `cache.set` of the API passes `expire`); clients
need not send anything, and `Converges` is about the time after they stop writing.

## Proofs

`tlapm` checks every theorem for all values of the constants under their
`ASSUME`s (None is neither a value of a column nor a record; TTLs and attempts are
positive; sections belong to classes).

*SessionsProofs.* `TypeCorrect` from `Core`: types together with `Shape`, what a
request carries at each `pc`. `ZombieOnlyAfterOverlapHolds`: alone, a request that
deletes a row has dropped its copy, or is about to and is the only one to work on
that key; the strengthening says, for each `pc`, in which of the two stores the
request's keys can be as long as nobody else works on them. `AdmittedInTimeHolds`:
every `till` anywhere (row, copy, request) is the `issued` one, so the comparison
with the copy is a comparison with the truth, whatever TTL Redis was given.
`RevocationFinalHolds`: only the requests in `MayFill` write Redis, only fresh keys
are inserted. `Refinement`: the mapping of `Sessions` to `SessionLifecycle` (closed
= dead for good), initial states to initial states, steps to steps or stutters.
`WebLoginLogsOutEverywhereHolds`: `LoginInv` says of a user who is none of `rivals` that, until the login replaces the
rows, all the user's rows are among those it has read, and afterwards only its own is
left. For the copies, `OwnInv` says that app sessions and verify-otp belong to
`AppUsers` only, so that the copy of any other user has a row of the same user or none
at all, and with none it is a zombie, which only the keys in `raced` have. Each of the
three exemptions is needed: TLC finds the property violated without it.

*OtpProofs.* `Inv` says of a mobile that no two requests have met on: its active
code is its last one, what a request in flight has read of it is still so, and every
wrong answer was counted (`Orderly`). From it `OneActiveHolds`, `BudgetHolds`,
`AcceptsLatestOnceHolds`; `UsedIsFinalHolds` needs no condition on overlaps,
because no write assigns `is_used` anything but 1. `Inv` is needed: it is not inductive
that a mobile has one active code, without knowing that a request about to commit has
seen that very code. `Refinement`: `Otp` implements `OneTimeCode`. The one active row of a
mobile is its code in force; its tries are the wrong answers really given (`wrong`), not
the column, so that the two must agree for the step to map; what a request has found out
is the verdict; a mobile is lost as soon as two of its requests overlap (`Lose`).
`Outcome(m)` says what a step did to the mobile of the request that took it, `OthersStay`
that it did nothing to the others, `Alone` that the request is the only one of its
mobile, so that what it has read is what the table still says. A send, a rejection and
an acceptance are each one step there, and an abort withdraws the verdict.

*EnrolmentProofs.* `Inv` adds to the invariants what relates a request in flight to
the tables: `Shape` (what each operation has read and checked when it begins), `Kept`
(a stay it has read is still there, belongs to the same student, and is unchanged
unless the student is in `raced`), `NotInUse` (a roll id it has looked up is still
free unless raced or assigned by an update), `Known` (stays belong to enrolled
students), and that the present overlaps are recorded in `raced`. `BeginInv` does the
six first steps at once; each commit has a lemma that proves `Inv'` by way of
`EndInv`: a commit that changes only rows of its own concern does not touch what
another, unraced, request has read. `OneStayHolds` and `RollsUniqueHolds` are not inductive without `Kept`
and `NotInUse`. `StaysEnrolledHolds` and `LookupsAgreeHolds` need no condition on
overlaps: a commit that closes a stay always opens one for the same student, and
closes it in both columns. `StaysEnrolledHolds` and `RollsUniqueHolds` exempt `stray` students, whom a broken
row of an upload has left in the table: they have a roll id that the upload did not
note, and no stay. `HistoryKeptHolds` and `MovesFromStayHolds` are action
properties from the same invariant. For the second, transfer and promotion write what
they decided on a snapshot: by `Kept` the stay is still that one, by `Shape` it was one
of the class they were asked about, and `SectionFacts` says that the section they chose
belongs to the new class (and is the old one's, where the new class has one of the
same code). `NewcomersOnly`: no other commit opens a stay for a student who is
already enrolled.

*CacheAsideProofs.* `CacheTyped` and `StaleOnlyExcused`, for any tables of views and
routes and any number of requests. The hypothesis `Covered` is about the tables alone: an
effect that changes an answer has something to remove or is counted as a leak. `Inv`
accounts not only for the entry but for every outdated answer a request still holds,
which is what may become the entry. `ApiStaleExcused` discharges `Covered` for the whole
API: one lemma per resource (`ClassKeeps`, `StudentKeeps`, ...) goes through its handlers
and answers and shows of each pair that one of the handler's calls reaches the key, that
the handler does not change the answer, or that the pair is in `AllForgotten`; since
different resources never meet in it, every other change is the leak of a handler of
another resource. `AnswersRight`: where each key renders what its query filters by
(`Told`), an entry that is found answers what was asked. `ToldApart` is why: two plain
questions that differ in a filter have different words at its place in the key, and None
is not the word of a value. `ApiTold` compares, answer by answer, the fields of the
f-string with the filters of the query, of all but the list of groups and the dashboard,
and so `ApiAnswersRight`. `OnlyCommitsOutdate`:
no order of readers, sweeps, failures and expiries makes an answer outdated, only a
commit does. `EveryAnswerExpires`: whatever is in Redis has a TTL. The last two are the
safety half of `Converges`.

*RegistersProofs.* `RegistersTyped` and `OneRow`, for any registers in which the
handlers outside `Unchecked` look for every row that excludes the one they write
(`Guarded`). `Inv`: a request that has looked and is not `late` would write next to
no row it excludes; late ones are the excuse. `ApiOneRow` discharges `Guarded`, and with
it `OneRow`, for the tables of this API: one lemma per group of registers
(`SchoolSound` ... `WideSound`). `AnswersHold` and `ApiAnswers` do the same for
`AnswersUnlessClash`: a look-up that finds two rows finds two that exclude each other,
for every handler but the three of `AllWide`. `Repeats` is where a body that names its
key twice comes in: such a commit adds to the excuses what it does to the rows.

*UploadsProofs.* `UploadsTyped`, `LinksServedHolds` and `NoLitterHolds`. `Inv` says who
owns a file: the new files of a request are on the disk, no row links to them and no
other request has them; the old file of a request is linked to by no row but its own;
and a file that the request has not removed yet is still linked to, unless another
request changed the row and left it in `excused`. A file somebody has typed a link to
(`typed`) is one that was saved before, so that no request counts on it as new. Neither
property is inductive without `Inv`, since both are about files whose owner has yet to act.

*MonitoringAgentProofs.* `AgentTyped`, `BoundedSilenceHolds`, `MarkedIsMailedHolds` and
`MailsApartHolds`, for any number of rules and any times. `Position` is the longest the
cycle can have lasted at each place of the loop and `Elapsed(r)` the longest since the
last check of rule r; `Inv` bounds, by `Elapsed`, the age of the mark and the silence of
a rule that is in the coming mail (`Gathered`) and of one that is not (`Passed`). A restart
clears the marks and not the histories: `Restarted` says that a rule silent since before
the last restart is in the first mail after it, so that k restarts cost k cycles
(`MostSilence(k)`). `MailsApartHolds` has the two exceptions the code has: a mail that was
tried before a restart (`forgotten`) and one that waited for an overrun (`late`).

*AlarmsProofs.* `AlarmsTyped`, `OneRowHolds`, `FreshDayHolds`, `ClassAsAtLoginHolds` and
`StopRespectedHolds`, for any number of students, devices, jobs and days. `Reads` relates
what a login has read (rows, class) to the tables: it is behind them only if another
login of the student overlaps or the student has moved. `Stops`: whoever has stopped the
alarm has rows, all of them stopped. `FreshDay` is
inductive beside them: every way by which a reset is left out sets `missed`. `Sends`: what a fire job still has to send is for
nobody who had stopped when it began; `StopRespected` follows from it.

*Model-checked only:* the liveness properties (`EverySessionEnds`, `LastingAlertMailed`,
`Converges`), as liveness under fairness is out of the prover's reach. Every invariant and
every action property of the passing runs, and both refinements, are theorems; those
about `CacheAside` and `Registers` that are about the tables of this API take, as their only
hypothesis, that the constants are those tables.

## Findings

1. `android_login.py:175-178`: verify-otp is to "logout old sessions" but leaves
   their Redis copies, which `valid_session` asks first (`MCSessionsOld`).
2. `android_login.py:187-188`: the user is assigned to a `Session` that is not
   attached to the database session when `valid_session` answered from Redis; the
   row never gets the user (`MCSessionsMap`).
3. `email_sender.py:76`: SMTP without a timeout can stop the "24/7 polling loop" for
   ever, and a query is bounded per read only (`Hang` and `Overrun`; `LastingAlertMailed`
   exempts a hung process, `BoundedSilence` does not count overruns).
4. `custom_alarm.py:193`: an employee's stop-alarm stops the alarm of the student of
   the same number (`MCAlarmsOwn`).
5. `android_login.py:210`: the token's row is looked up by student while the token
   is the unique key: a second student on a device cannot log in, and the code is
   used up (`MapRefused` in `Alarms`).
6. `school_group.py:170`: deleting a group uses a name the file does not define;
   every call ends in a 500 and no group is ever deleted.
7. `school_group.py:31`: the key of the list of groups leaves `school_id` out: one
   school is shown the groups of another; the key of the dashboard leaves out the month
   (`AllCollapsed` in `ApiRoutes`).
8. `employee.py:133`, `exam.py:362` and the bulk upload of employees leave entries of
   their own resource outdated (`PeopleForgotten`, `ExamForgotten`).
9. `emp_leave_request.py:99` and `announcement.py:122`: where the documented answer is
   409, two rows that may well stand next to each other make it a 500; so does an update
   of a student's attendance without a day (`attendance.py:381`), where the student has
   been present on two (`AllWide`).
10. `employee.py:509`: assigning an employee to a class and subject always fails, for
    `section_id` may not be NULL and is not in the payload.
11. `android_teacher.py:1261`: the upsert of exam results does not look at the exam:
    the marks of a second exam overwrite those of the first.
12. `android_teacher.py:1450`: a task may have "any time string", but only three slots
    ever ring.

Seen while modelling, without a run of their own:
- two sends at once leave two active codes, although `optmessage.py:30` says that any
  existing code is invalidated; `OneActiveUnlessOverlap` says that only such an
  overlap can do it;
- a reminder that comes due while the pushes of another block the loop for more than
  a second, or while the server is down, is skipped (`alarm_scheduler.py:15` promises
  three per slot; `Tick` in `Alarms`);
- two concurrent web logins of one employee both stay logged in (`rivals` exempts
  exactly them);
- reading a chat (`android_teacher.py:1766`) marks all its messages read, those on
  other pages and those that came after the SELECT included;
- exam timetables and timetables share the prefix `timetable:list`, so that each
  removes the other's lists (harmless, and in the tables as it is);
- a student who moves gets the alarms of the old class until the next login, for only
  verify-otp writes the class of a token row (`ClassAsAtLogin` exempts `moved`);
- transfer does not check that the section belongs to the student's class, and a
  mapping update that clears `is_active`, or sets `status` alone, leaves a student
  whom no endpoint can enrol again (`StaysEnrolled` and `LookupsAgree` exempt exactly
  those students);
- a row of a bulk upload with a class that is no number is reported as skipped, but its
  student was flushed before (`student.py:702-722`): the commit keeps the student, without
  a stay, and the file may give the same roll id again (`stray` in `Enrolment`);
- `create_marks` inserts two rows for a subject that its body names twice
  (`exam.py:346-360`; `repeated` in `Registers`);
- a reset of the alarms that fails on the database is not tried again that day: those who
  stopped yesterday are not reminded today (`ResetFails` in `Alarms`);
- the push of a one-time code blocks the event loop as the alarms' do, and a reminder due
  meanwhile may be skipped (`OtpPush` in `Alarms`);
- a restarted agent forgets its cooldowns and may mail at once what it has just mailed
  (`forgotten` in `MonitoringAgent`);
- a search for the word None is answered with the unfiltered list, and the reverse, until
  the entry expires (`holiday.py:32`; `Confused` in `CacheAside`);
- `update_subject` and the panel take any text for a link (`school_stream_subject.py:179`):
  a file that was removed, or that another row will remove (`typed` in `Uploads`);
- *numbers of users*: `session.user_id` holds numbers of employees and of students, so
  a web login of employee 7 ends the app sessions of student 7 (`web_login.py:66`).

## Plan

1. (done) `Sessions`, `Otp`, `MonitoringAgent`, `Alarms`, `Enrolment`; their theorems.
2. (done) `CacheAside` over the route tables; its theorems.
3. (done) `Registers` over the tables without a unique key; its theorems.
4. (done) `Uploads`.
5. (done) Proofs of `Uploads`, `MonitoringAgent` and `Alarms`; the class of a token row
   against the student's (`Move`, `ClassAsAtLogin`).
6. (done) `OneTimeCode` and its refinement by `Otp`; `WebLoginLogsOutEverywhere` for any
   number of requests; `MovesFromStay`; the theorems about the tables of this API.
7. `Alarms` over an INSTANCE of `Enrolment` in place of `Move`: the requests of
   `student.py` in flight while a login reads the stay.
8. The chat: which messages are marked read without having been shown.

## Not modelled, and why

Middleware, encryption and metrics filter a request and keep counters only. Schemas
and the response envelope are declarations; `others.py` is commented out. Docker,
Prometheus and Loki are configuration. Assignments, the micro schedule and the chat
of the teacher app insert, update and delete rows that no key and no cached answer
is about (plan 8). The dashboard, the listings and most of the student app read;
where what they read is cached they are views. Guardians are written together with
their student and are left out of `Enrolment`. sqladmin is a library: its writes are
an environment (`AppRoutes`, `Panel`, `SetLink`). The columns a handler writes beside
those of a key or a link (marks, times, reasons, approvals) are abstracted away.
