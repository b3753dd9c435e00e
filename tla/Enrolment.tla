----------------------------- MODULE Enrolment -----------------------------
(***************************************************************************)
(* Enrolment of students: the table "student" (its roll ids) and the table *)
(* "school_class_student_mapping", with one row per stay of a student in a *)
(* class and section.  A stay is closed by clearing is_active, never       *)
(* deleted; transfer and promotion close one and open the next.            *)
(*                                                                         *)
(* A request takes two steps: its first SELECT fixes the snapshot that all *)
(* its checks read (REPEATABLE READ), and its COMMIT writes.  The ORM      *)
(* writes a column only if the handler assigned a value other than the one *)
(* it had read, into the row as it is by then.  A request that is refused  *)
(* (404, 409, or 500 where scalar_one_or_none finds two rows) writes       *)
(* nothing and is left out.                                                *)
(***************************************************************************)
EXTENDS Naturals, Sequences, FiniteSets

CONSTANTS
    StudentIds,   \* ids the table "student" will draw
    MapIds,       \* ids the table of mappings will draw
    Rolls,        \* roll ids
    Classes,
    Codes,        \* section codes
    Sections,     \* the sections there are, each named by its class and its code
    NextClass,    \* the class of the same group whose code is one higher, or None
    Payloads,     \* bodies that clients send
    Files,        \* rows of the files that clients upload
    Reqs,         \* requests that may be in flight at the same time
    None          \* SQL NULL, a field the client left out, a row not drawn yet

ASSUME SchoolAssumption == /\ Sections \subseteq Classes \X Codes
                           /\ NextClass \in [Classes -> Classes \cup {None}]

Mapping == [student : StudentIds, class : Classes, section : Sections,
            status : {"active", "inactive"}, is_active : {0, 1}]

\* One record for all bodies: StudentCreate, StudentUpdate, StudentMappingUpdate,
\* and the query parameters of transfer.
Payload == [roll : Rolls \cup {None}, class : Classes \cup {None},
            section : Sections \cup {None},
            status : {"active", "inactive", None}, is_active : {0, 1, None}]

\* A row of a file: "whole" says that its class_id and section_id are integers.
Row == [roll : Rolls, whole : BOOLEAN]

ASSUME InputAssumption == Payloads \subseteq Payload /\ Files \subseteq Seq(Row)

VARIABLES
    enrolled,   \* students in the table
    roll,       \* their roll ids
    maps,       \* the table of mappings
    req,        \* the requests in flight
    raced,      \* history: students and rolls two requests in flight worked on at once
    loose,      \* history: rolls that an update has assigned
    patched,    \* history: students whose flags a mapping update has set
    stray       \* history: students of rows that an upload has reported as skipped

vars == <<enrolled, roll, maps, req, raced, loose, patched, stray>>

Ops == {"create", "bulk", "update", "patch", "transfer", "promote"}

\* "seen" holds the mappings as the request has read them.
Request == [op : Ops, who : StudentIds \cup {None}, payload : Payload,
            seen : UNION {[M -> Mapping] : M \in SUBSET MapIds},
            file : Seq(Row), known : SUBSET Rolls]

ASSUME NoneAssumption == /\ None \notin Rolls \cup Classes \cup Sections \cup StudentIds
                         /\ None \notin {0, 1} /\ None \notin {"active", "inactive"}
                         /\ None \notin Mapping /\ None \notin Request

Init ==
    /\ enrolled = {}
    /\ roll = [s \in StudentIds |-> None]
    /\ maps = [i \in MapIds |-> None]
    /\ req = [r \in Reqs |-> None]
    /\ raced = {} /\ loose = {} /\ patched = {} /\ stray = {}

---------------------------------------------------------------------------
(* Look-ups *)

Free == {i \in MapIds : maps[i] = None}
\* What transfer, verify-otp and the apps look for.
Current(s) == {i \in MapIds : maps[i] # None /\ maps[i].student = s /\ maps[i].is_active = 1}

\* What the two update endpoints look for.
ByStatus(s) == {i \in Current(s) : maps[i].status = "active"}

InClass(c) == {i \in MapIds : maps[i] # None /\ maps[i].class = c /\ maps[i].is_active = 1}

RollsInUse == {roll[s] : s \in enrolled} \ {None}

AtMostOne(S) == \A i, j \in S : i = j

Read(S) == [i \in S |-> maps[i]]

---------------------------------------------------------------------------
(* What a request writes *)

\* mutant: every column that was read is written back
WrittenBack(v, read, now) == IF v = None THEN read ELSE v

\* mutant: a field the client left out is written as NULL
Sent(v, read, now) == v

\* A column the handler assigned v to (None: it did not), read as "read", now "now".
Written(v, read, now) == IF v = None \/ v = read THEN now ELSE v

Assigned(row, read, p) ==
    [row EXCEPT !.class = Written(p.class, read.class, @),
                !.section = Written(p.section, read.section, @),
                !.status = Written(p.status, read.status, @),
                !.is_active = Written(p.is_active, read.is_active, @)]

\* mutant: a stay that ends keeps is_active
StatusCleared(row, read) == [row EXCEPT !.status = Written("inactive", read.status, @)]

\* The end of a stay.
Closed(row, read) ==
    [row EXCEPT !.is_active = Written(0, read.is_active, @),
                !.status = Written("inactive", read.status, @)]

NewMapping(s, c, x) ==
    [student |-> s, class |-> c, section |-> x, status |-> "active", is_active |-> 1]

\* mutant: everyone goes to the first section of the class
SectionFirst(c, x) == CHOOSE y \in Sections : y[1] = c

\* The section of class c with the same code, else the first one of the class.
SectionIn(c, x) ==
    IF <<c, x[2]>> \in Sections THEN <<c, x[2]>> ELSE CHOOSE y \in Sections : y[1] = c

Injective(f) == \A i, j \in DOMAIN f : f[i] = f[j] => i = j

Begin(r, q) ==
    /\ req[r] = None
    /\ req' = [req EXCEPT ![r] = q]
    /\ UNCHANGED <<enrolled, roll, maps, loose, patched, stray>>

NoRows == [i \in {} |-> None]
Blank == [roll |-> None, class |-> None, section |-> None, status |-> None, is_active |-> None]

New(op, who, p, seen) ==
    [op |-> op, who |-> who, payload |-> p, seen |-> seen, file |-> <<>>, known |-> {}]

Pending(r, op) == req[r] # None /\ req[r].op = op

Finish(r) == req' = [req EXCEPT ![r] = None]

---------------------------------------------------------------------------
(* POST /student/create and POST /student/bulk_upload *)

BeginCreate(r, p) ==
    /\ p.class # None /\ p.section # None /\ p.status = None /\ p.is_active = None
    /\ p.roll \notin RollsInUse
    /\ Begin(r, New("create", None, p, NoRows))

\* A student and the student's first mapping, in one transaction.
CommitCreate(r, s, i) ==
    LET p == req[r].payload IN
    /\ Pending(r, "create")
    /\ s \in StudentIds \ enrolled
    /\ i \in Free
    /\ enrolled' = enrolled \cup {s}
    /\ roll' = [roll EXCEPT ![s] = p.roll]
    /\ maps' = [maps EXCEPT ![i] = NewMapping(s, p.class, p.section)]
    /\ Finish(r)
    /\ UNCHANGED <<loose, patched, stray>>

RollsOf(file) == {file[n].roll : n \in DOMAIN file}

\* Every whole row of the file names the class and section of p.
BeginBulk(r, p, file) ==
    /\ p.class # None /\ p.section # None /\ p.status = None /\ p.is_active = None
    /\ Begin(r, [New("bulk", None, p, NoRows) EXCEPT
                   !.file = file, !.known = RollsInUse \cap RollsOf(file)])

\* mutant: a roll that comes twice in the file is taken twice
InsertedAll(q) == {n \in DOMAIN q.file : q.file[n].roll \notin q.known}

\* The rows whose student is flushed.  A roll is remembered at the end of the
\* row's turn, so only if the row is whole.
Inserted(q) ==
    {n \in DOMAIN q.file : /\ q.file[n].roll \notin q.known
                           /\ \A m \in 1 .. n - 1 :
                                 q.file[m].whole => q.file[m].roll # q.file[n].roll}

\* The rows that also get a mapping: int() of the class or the section raises in
\* the others, which counts them as skipped and leaves their student in the
\* transaction.
Placed(q) == {n \in Inserted(q) : q.file[n].whole}

\* All of it is committed, or nothing (Abort): a flush that fails leaves the
\* database session unusable, for the rows that follow and for the commit.
CommitBulk(r) ==
    LET q == req[r]
        row(f, x) == CHOOSE n \in DOMAIN f : f[n] = x IN
    /\ Pending(r, "bulk")
    /\ \E who \in [Inserted(q) -> StudentIds \ enrolled], id \in [Placed(q) -> Free] :
          /\ Injective(who) /\ Injective(id)
          /\ enrolled' = enrolled \cup {who[n] : n \in Inserted(q)}
          /\ roll' = [s \in StudentIds |->
                IF \E n \in Inserted(q) : who[n] = s THEN q.file[row(who, s)].roll ELSE roll[s]]
          /\ maps' = [i \in MapIds |->
                IF \E n \in Placed(q) : id[n] = i
                THEN NewMapping(who[row(id, i)], q.payload.class, q.payload.section)
                ELSE maps[i]]
          /\ stray' = stray \cup {who[n] : n \in Inserted(q) \ Placed(q)}
    /\ Finish(r)
    /\ UNCHANGED <<loose, patched>>

---------------------------------------------------------------------------
(* PUT /student/update and PUT /student/mapping/update *)

\* The mapping is looked up only if a field of it is sent; without one the
\* student is updated alone.
BeginUpdate(r, s, p) ==
    /\ s \in enrolled
    /\ p.status = None /\ p.is_active = None
    /\ LET S == IF p.class = None /\ p.section = None THEN {} ELSE ByStatus(s)
           new == [p EXCEPT !.roll = IF p.roll = roll[s] THEN None ELSE p.roll] IN
       AtMostOne(S) /\ Begin(r, New("update", s, new, Read(S)))

\* The roll id, if it is not the one read, is assigned without a check.
CommitUpdate(r) ==
    LET q == req[r] IN
    /\ Pending(r, "update")
    /\ roll' = IF q.payload.roll = None THEN roll ELSE [roll EXCEPT ![q.who] = q.payload.roll]
    /\ loose' = loose \cup ({q.payload.roll} \ {None})
    /\ maps' = [i \in MapIds |-> IF i \in DOMAIN q.seen
                                 THEN Assigned(maps[i], q.seen[i], q.payload) ELSE maps[i]]
    /\ Finish(r)
    /\ UNCHANGED <<enrolled, patched, stray>>

BeginPatch(r, s, p) ==
    /\ ByStatus(s) # {} /\ AtMostOne(ByStatus(s))
    /\ p.roll = None
    /\ Begin(r, New("patch", s, p, Read(ByStatus(s))))

\* Any column may be set, the two flags independently of each other.
CommitPatch(r) ==
    LET q == req[r] IN
    /\ Pending(r, "patch")
    /\ maps' = [i \in MapIds |-> IF i \in DOMAIN q.seen
                                 THEN Assigned(maps[i], q.seen[i], q.payload) ELSE maps[i]]
    /\ patched' = IF q.payload.status = None /\ q.payload.is_active = None
                  THEN patched ELSE patched \cup {q.who}
    /\ Finish(r)
    /\ UNCHANGED <<enrolled, roll, loose, stray>>

---------------------------------------------------------------------------
(* POST /student/transfer and POST /student/promote *)

\* The section is not checked against the class.
BeginTransfer(r, s, x) ==
    /\ Current(s) # {} /\ AtMostOne(Current(s))
    /\ Begin(r, New("transfer", s, [Blank EXCEPT !.section = x], Read(Current(s))))

CommitTransfer(r, new) ==
    LET q == req[r] IN
    /\ Pending(r, "transfer")
    /\ new \in Free
    /\ \E old \in DOMAIN q.seen :
          maps' = [maps EXCEPT ![old] = Closed(@, q.seen[old]),
                               ![new] = NewMapping(q.who, q.seen[old].class, q.payload.section)]
    /\ Finish(r)
    /\ UNCHANGED <<enrolled, roll, loose, patched, stray>>

BeginPromote(r, c) ==
    /\ NextClass[c] # None
    /\ InClass(c) # {}
    /\ Begin(r, New("promote", None, [Blank EXCEPT !.class = c], Read(InClass(c))))

\* Without a section in the next class every student is skipped.
Skipped(q) == IF \E x \in Sections : x[1] = NextClass[q.payload.class] THEN {} ELSE DOMAIN q.seen

\* mutant: the stay is closed before the section of the new class is looked up
EveryoneLeaves(q) == DOMAIN q.seen

NobodyLeaves(q) == {}                 \* mutant: promotion closes no stay

Leaving(q) == DOMAIN q.seen \ Skipped(q)

CommitPromote(r) ==
    LET q == req[r]
        to == NextClass[q.payload.class]
        old(new, i) == CHOOSE o \in DOMAIN new : new[o] = i IN
    /\ Pending(r, "promote")
    /\ \E new \in [DOMAIN q.seen \ Skipped(q) -> Free] :
          /\ Injective(new)
          /\ maps' = [i \in MapIds |->
                IF \E o \in DOMAIN new : new[o] = i
                THEN NewMapping(q.seen[old(new, i)].student, to,
                                SectionIn(to, q.seen[old(new, i)].section))
                ELSE IF i \in Leaving(q) THEN Closed(maps[i], q.seen[i]) ELSE maps[i]]
    /\ Finish(r)
    /\ UNCHANGED <<enrolled, roll, loose, patched, stray>>

---------------------------------------------------------------------------

\* A failed await, a dropped client or a restart: the transaction rolls back.
Abort(r) ==
    /\ req[r] # None
    /\ Finish(r)
    /\ UNCHANGED <<enrolled, roll, maps, loose, patched, stray>>

Step ==
    \E r \in Reqs :
        \/ \E p \in Payloads : \/ BeginCreate(r, p)
                               \/ \E f \in Files : BeginBulk(r, p, f)
                               \/ \E s \in StudentIds : BeginUpdate(r, s, p) \/ BeginPatch(r, s, p)
        \/ \E s \in StudentIds, x \in Sections : BeginTransfer(r, s, x)
        \/ \E c \in Classes : BeginPromote(r, c)
        \/ \E s \in StudentIds, i \in MapIds : CommitCreate(r, s, i)
        \/ \E i \in MapIds : CommitTransfer(r, i)
        \/ CommitBulk(r) \/ CommitUpdate(r) \/ CommitPatch(r) \/ CommitPromote(r) \/ Abort(r)

\* The students a request works on, and the roll ids it will insert.
Concern(q) == {q.who} \cup {q.seen[i].student : i \in DOMAIN q.seen}
                \cup RollsOf(q.file)
                \cup (IF q.op = "create" THEN {q.payload.roll} ELSE {})

Overlap(q) == {x \in StudentIds \cup Rolls : \E r1, r2 \in Reqs :
                 /\ r1 # r2 /\ q[r1] # None /\ q[r2] # None
                 /\ x \in Concern(q[r1]) /\ x \in Concern(q[r2])}

Next == Step /\ raced' = raced \cup Overlap(req')

Spec == Init /\ [][Next]_vars

---------------------------------------------------------------------------
(* Properties *)

\* Every variable holds a value of its kind.
TypeOK ==
    /\ enrolled \subseteq StudentIds
    /\ roll \in [StudentIds -> Rolls \cup {None}]
    /\ maps \in [MapIds -> Mapping \cup {None}]
    /\ req \in [Reqs -> Request \cup {None}]
    /\ raced \subseteq StudentIds \cup Rolls /\ loose \subseteq Rolls
    /\ patched \subseteq StudentIds /\ stray \subseteq StudentIds

\* A student has two current stays, on which transfer, verify-otp and the apps
\* fail with MultipleResultsFound, only if two requests for the student were in
\* flight at once.
OneStayUnlessRaced == \A s \in StudentIds \ raced : AtMostOne(Current(s))

\* A student without a current stay, whom no endpoint can enrol again, was taken
\* out by a mapping update or comes from a row that an upload has reported as
\* skipped: transfer and promotion never drop anyone, not those whom they skip
\* either.
StaysEnrolled == \A s \in enrolled \ (patched \cup stray) : Current(s) # {}

\* The update endpoints and the transfer find the same stay of a student, although
\* they look for different flags, unless a mapping update has set one of them.
LookupsAgree == \A s \in StudentIds \ patched : ByStatus(s) = Current(s)

\* A stay that is over stays over, and what it records is not rewritten by a
\* request that read it before it ended, unless the student's requests overlapped.
HistoryKept ==
    [][\A i \in MapIds : maps[i] # None /\ maps[i].is_active = 0 =>
         /\ maps'[i].is_active = 0
         /\ maps[i].student \notin raced => maps'[i] = maps[i]]_vars

\* A stay after another: in the same class, or in the next one, there in the
\* section of the same code if there is one.
Follows(old, new) ==
    \/ new.class = old.class
    \/ /\ new.class = NextClass[old.class] /\ new.section[1] = new.class
       /\ <<new.class, old.section[2]>> \in Sections => new.section[2] = old.section[2]

\* The student of the new stay j leaves a current one for it.
Moves(j) ==
    \E i \in MapIds :
        /\ maps[i] # None /\ maps[i].student = maps'[j].student
        /\ maps[i].is_active = 1 /\ maps'[i].is_active = 0
        /\ Follows(maps[i], maps'[j])

\* An enrolled student gets a new stay only as the current one ends, in the same
\* commit, and from where the student is by then: what transfer and promotion have
\* read of a class that changes meanwhile never decides it, unless the student's
\* requests overlapped.
MovesFromStay ==
    [][\A j \in MapIds :
         maps[j] = None /\ maps'[j] # None /\ maps'[j].student \in enrolled \ raced
            => Moves(j)]_vars

\* Two students share a roll id only if two requests were inserting it at once,
\* an update assigned it, or one of them comes from a row that an upload has
\* reported as skipped: of the rows that succeed, one upload takes it once.
RollsUnique ==
    \A s, t \in enrolled \ stray : s # t /\ roll[s] = roll[t] /\ roll[s] # None
        => roll[s] \in raced \cup loose

=============================================================================
