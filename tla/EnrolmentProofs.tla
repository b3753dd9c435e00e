--------------------------- MODULE EnrolmentProofs ---------------------------
(***************************************************************************)
(* Theorems about Enrolment, for every school, every set of bodies and     *)
(* files, and every number of requests in flight.                          *)
(***************************************************************************)
EXTENDS Enrolment, TLAPS

---------------------------------------------------------------------------
(* The inductive invariant *)

\* What a request carries, by its endpoint.
Shape(q) ==
    /\ \A i \in DOMAIN q.seen : q.seen[i].is_active = 1
    /\ q.op \in {"create", "bulk"} =>
          DOMAIN q.seen = {} /\ q.payload.class \in Classes /\ q.payload.section \in Sections
    /\ q.op # "bulk" => DOMAIN q.file = {}
    /\ q.op \in {"update", "patch", "transfer"} =>
          /\ q.who \in enrolled
          /\ \A i \in DOMAIN q.seen : q.seen[i].student = q.who
    /\ q.op \in {"update", "patch"} => AtMostOne(DOMAIN q.seen)
    /\ q.op = "transfer" => q.payload.section \in Sections
    /\ q.op = "update" => q.payload.status = None /\ q.payload.is_active = None
    /\ q.op = "promote" =>
          /\ q.payload.class \in Classes /\ NextClass[q.payload.class] \in Classes
          /\ \A i \in DOMAIN q.seen : q.seen[i].class = q.payload.class

\* The roll ids a request has looked up, not found, and will insert.
Inserting(q) ==
    CASE q.op = "create" -> {q.payload.roll} \ {None}
      [] q.op = "bulk" -> RollsOf(q.file) \ q.known
      [] OTHER -> {}

Known == \A i \in MapIds : maps[i] # None => maps[i].student \in enrolled

\* What a request has read of a student whose requests never met is still so.
Kept(q) ==
    \A i \in DOMAIN q.seen :
        /\ maps[i] # None /\ maps[i].student = q.seen[i].student
        /\ maps[i].student \notin raced => maps[i] = q.seen[i]

NotInUse(q) == \A x \in Inserting(q) : x \notin raced \cup loose => x \notin RollsInUse

Inv ==
    /\ TypeOK
    /\ Overlap(req) \subseteq raced
    /\ \A r \in Reqs : req[r] # None => Shape(req[r]) /\ Kept(req[r]) /\ NotInUse(req[r])
    /\ Known
    /\ OneStayUnlessRaced /\ StaysEnrolled /\ LookupsAgree /\ RollsUnique

---------------------------------------------------------------------------
(* The records the handlers build *)

\* The stays a request may have read.
PartialTable == UNION {[M -> Mapping] : M \in SUBSET MapIds}

\* What a request has read is a partial table.
LEMMA SeenType ==
    ASSUME NEW q \in Request
    PROVE  /\ DOMAIN q.seen \subseteq MapIds
           /\ \A i \in DOMAIN q.seen : q.seen[i] \in Mapping
           /\ q.seen = [i \in DOMAIN q.seen |-> q.seen[i]]
  <1>1. PICK M \in SUBSET MapIds : q.seen \in [M -> Mapping]
    BY DEF Request
  <1> QED
    BY <1>1

\* A look-up yields a partial table.
LEMMA ReadType ==
    ASSUME TypeOK, NEW S \in SUBSET MapIds, \A i \in S : maps[i] # None
    PROVE  /\ Read(S) \in PartialTable
           /\ DOMAIN Read(S) = S /\ \A i \in S : Read(S)[i] = maps[i]
  <1>1. Read(S) \in [S -> Mapping]
    BY DEF Read, TypeOK
  <1> QED
    BY <1>1 DEF Read, PartialTable

\* A handler that assigns columns moves no stay to another student, ends it or
\* not as told, and never revives it.
LEMMA AssignedFacts ==
    ASSUME NEW row \in Mapping, NEW read \in Mapping, NEW p \in Payload
    PROVE  /\ Assigned(row, read, p) \in Mapping
           /\ Assigned(row, read, p).student = row.student
           /\ read.is_active = 1 /\ row.is_active = 0 => Assigned(row, read, p).is_active = 0
           /\ p.is_active = None => Assigned(row, read, p).is_active = row.is_active
           /\ p.status = None => Assigned(row, read, p).status = row.status
  <1>1. /\ Written(p.class, read.class, row.class) \in Classes
        /\ Written(p.section, read.section, row.section) \in Sections
        /\ Written(p.status, read.status, row.status) \in {"active", "inactive"}
        /\ Written(p.is_active, read.is_active, row.is_active) \in {0, 1}
    BY DEF Mapping, Payload, Written
  <1>2. Assigned(row, read, p) =
           [row EXCEPT !.class = Written(p.class, read.class, row.class),
                       !.section = Written(p.section, read.section, row.section),
                       !.status = Written(p.status, read.status, row.status),
                       !.is_active = Written(p.is_active, read.is_active, row.is_active)]
    BY DEF Assigned, Mapping
  <1>3. /\ read.is_active = 1 /\ row.is_active = 0
              => Written(p.is_active, read.is_active, row.is_active) = 0
        /\ p.is_active = None => Written(p.is_active, read.is_active, row.is_active) = row.is_active
        /\ p.status = None => Written(p.status, read.status, row.status) = row.status
    BY DEF Written, Payload
  <1> QED
    BY <1>1, <1>2, <1>3 DEF Mapping

\* A stay that a handler ends was current when it was read, and is not any more.
LEMMA ClosedFacts ==
    ASSUME NEW row \in Mapping, NEW read \in Mapping, read.is_active = 1
    PROVE  /\ Closed(row, read) \in Mapping
           /\ Closed(row, read).student = row.student
           /\ Closed(row, read).is_active = 0
  <1>1. /\ Written(0, read.is_active, row.is_active) = 0
        /\ Written("inactive", read.status, row.status) \in {"active", "inactive"}
    BY NoneAssumption DEF Written, Mapping
  <1>2. Closed(row, read) =
           [row EXCEPT !.is_active = Written(0, read.is_active, row.is_active),
                       !.status = Written("inactive", read.status, row.status)]
    BY DEF Closed, Mapping
  <1> QED
    BY <1>1, <1>2 DEF Mapping

\* A new stay is a current one of the student it is made for.
LEMMA NewFacts ==
    ASSUME NEW s \in StudentIds, NEW c \in Classes, NEW x \in Sections
    PROVE  /\ NewMapping(s, c, x) \in Mapping /\ NewMapping(s, c, x).student = s
           /\ NewMapping(s, c, x).is_active = 1 /\ NewMapping(s, c, x).status = "active"
  BY DEF NewMapping, Mapping

\* Promotion finds a section as soon as the class has one.
LEMMA SectionFacts ==
    ASSUME NEW c \in Classes, NEW x \in Sections, \E y \in Sections : y[1] = c
    PROVE  /\ SectionIn(c, x) \in Sections /\ SectionIn(c, x)[1] = c
           /\ <<c, x[2]>> \in Sections => SectionIn(c, x)[2] = x[2]
  BY DEF SectionIn

---------------------------------------------------------------------------
(* A request begins or ends *)

\* What a request inserts is among its concerns.
LEMMA InsertingConcern ==
    ASSUME NEW q \in Request
    PROVE  Inserting(q) \subseteq Rolls \cap Concern(q)
  <1>1. q.file \in Seq(Row) /\ q.payload.roll \in Rolls \cup {None}
    BY DEF Request, Payload
  <1>2. \A n \in DOMAIN q.file : q.file[n].roll \in Rolls
    <2>1. \A n \in DOMAIN q.file : q.file[n] \in Row
      BY <1>1
    <2> QED
      BY <2>1 DEF Row
  <1> QED
    BY <1>1, <1>2 DEF Inserting, Concern, Request, RollsOf

\* A request has read the tables and checked what it will insert.
LEMMA BeginInv ==
    ASSUME Inv, NEW r \in Reqs, NEW q \in Request, Shape(q), Begin(r, q),
           \A i \in DOMAIN q.seen : maps[i] # None /\ maps[i] = q.seen[i],
           \A x \in Inserting(q) : x \notin RollsInUse,
           raced' = raced \cup Overlap(req')
    PROVE  Inv'
  <1>1. /\ req' = [req EXCEPT ![r] = q] /\ UNCHANGED <<enrolled, roll, maps, loose, patched, stray>>
        /\ req \in [Reqs -> Request \cup {None}]
    BY DEF Begin, Inv, TypeOK
  <1>2. Overlap(req') \subseteq StudentIds \cup Rolls
    BY DEF Overlap
  <1>3. TypeOK'
    BY <1>1, <1>2 DEF Inv, TypeOK
  <1>4. \A s \in Reqs : (req[s] # None => Shape(req[s]) /\ Kept(req[s]) /\ NotInUse(req[s]))'
    <2>1. Shape(q)' /\ Kept(q)' /\ NotInUse(q)'
      BY <1>1 DEF Shape, Kept, NotInUse, RollsInUse
    <2>2. ASSUME NEW s \in Reqs, s # r, req[s] # None
          PROVE  Shape(req[s])' /\ Kept(req[s])' /\ NotInUse(req[s])'
      <3>1. Shape(req[s]) /\ Kept(req[s]) /\ NotInUse(req[s]) /\ req'[s] = req[s]
        BY <1>1, <2>2 DEF Inv
      <3>2. Shape(req[s])'
        BY <1>1, <3>1 DEF Shape
      <3>3. Kept(req[s])'
        BY <1>1, <3>1 DEF Kept
      <3>4. NotInUse(req[s])'
        <4>1. Inserting(req[s])' = Inserting(req[s])
          BY <3>1 DEF Inserting
        <4> QED
          BY <1>1, <3>1, <4>1 DEF NotInUse, RollsInUse
      <3> QED
        BY <3>2, <3>3, <3>4
    <2> QED
      BY <1>1, <2>1, <2>2
  <1>5. /\ Known' /\ OneStayUnlessRaced' /\ StaysEnrolled' /\ LookupsAgree' /\ RollsUnique'
    BY <1>1 DEF Inv, Known, OneStayUnlessRaced, StaysEnrolled, LookupsAgree, RollsUnique,
                Current, ByStatus
  <1> QED
    BY <1>3, <1>4, <1>5 DEF Inv

\* What the commit of request q may do to the tables, whatever it is: rows it
\* has not read stay as they are, those that are over stay over, and new rows
\* are current ones of new students or of students it has read.
Effect(q) ==
    /\ enrolled \subseteq enrolled' /\ enrolled' \subseteq StudentIds
    /\ roll' \in [StudentIds -> Rolls \cup {None}]
    /\ maps' \in [MapIds -> Mapping \cup {None}]
    /\ loose \subseteq loose' /\ loose' \subseteq Rolls
    /\ patched \subseteq patched' /\ patched' \subseteq StudentIds
    /\ stray \subseteq stray' /\ stray' \subseteq StudentIds
    /\ \A i \in MapIds : maps[i] # None =>
          /\ maps'[i] # None /\ maps'[i].student = maps[i].student
          /\ maps[i].is_active = 0 => maps'[i].is_active = 0
          /\ i \notin DOMAIN q.seen => maps'[i] = maps[i]
    /\ \A i \in MapIds : maps[i] = None /\ maps'[i] # None =>
          /\ maps'[i].is_active = 1 /\ maps'[i].status = "active"
          /\ maps'[i].student \in enrolled'

\* What it may do to the roll ids.
RollEffect(q) ==
    /\ RollsInUse' \subseteq RollsInUse \cup Inserting(q) \cup loose'
    /\ RollsUnique'

\* Two requests in flight that both work on x have raced on it.
LEMMA Raced ==
    ASSUME Inv, NEW r1 \in Reqs, NEW r2 \in Reqs, r1 # r2, req[r1] # None, req[r2] # None,
           NEW x \in StudentIds \cup Rolls, x \in Concern(req[r1]), x \in Concern(req[r2])
    PROVE  x \in raced
  BY DEF Inv, Overlap

\* The commit of one request does not touch what another has read or looked up.
LEMMA EndInv ==
    ASSUME Inv, NEW r \in Reqs, req[r] # None, Finish(r), raced' = raced \cup Overlap(req'),
           Effect(req[r]), RollEffect(req[r]),
           \A s \in StudentIds \ raced : AtMostOne(Current(s)'),
           StaysEnrolled', LookupsAgree'
    PROVE  Inv'
  <1> DEFINE q == req[r]
  <1>1. /\ req' = [req EXCEPT ![r] = None] /\ req \in [Reqs -> Request \cup {None}]
        /\ q \in Request /\ q # None /\ raced \subseteq raced'
        /\ maps \in [MapIds -> Mapping \cup {None}]
    BY DEF Finish, Inv, TypeOK
  <1> HIDE DEF q
  <1>2. Overlap(req') \subseteq StudentIds \cup Rolls
    BY DEF Overlap
  <1>3. TypeOK'
    BY <1>1, <1>2 DEF Inv, TypeOK, Effect, q
  <1>4. Known'
    BY <1>1 DEF Inv, Known, Effect, q
  <1>5. OneStayUnlessRaced'
    BY <1>1 DEF OneStayUnlessRaced
  <1>6. ASSUME NEW s \in Reqs, req'[s] # None
        PROVE  (Shape(req[s]) /\ Kept(req[s]) /\ NotInUse(req[s]))'
    <2> DEFINE p == req[s]
    <2>1. s # r /\ req'[s] = p /\ p \in Request /\ p # None
      BY <1>1, <1>6
    <2>2. Shape(p) /\ Kept(p) /\ NotInUse(p)
      BY <2>1 DEF Inv
    <2>3. Shape(p)'
      BY <2>1, <2>2 DEF Shape, Effect
    <2>4. Kept(p)'
      <3>1. SUFFICES ASSUME NEW i \in DOMAIN p.seen
                     PROVE  /\ maps'[i] # None /\ maps'[i].student = p.seen[i].student
                            /\ maps'[i].student \notin raced' => maps'[i] = p.seen[i]
        BY <2>1 DEF Kept
      <3>2. i \in MapIds /\ maps[i] # None /\ maps[i].student = p.seen[i].student
        BY <2>1, <2>2, SeenType DEF Kept
      <3>3. maps'[i] # None /\ maps'[i].student = maps[i].student
        BY <3>2 DEF Effect
      <3>4. ASSUME maps'[i].student \notin raced'
            PROVE  maps'[i] = p.seen[i]
        <4>1. maps[i].student \notin raced /\ maps[i].student \in StudentIds
          BY <1>1, <3>2, <3>3, <3>4 DEF Mapping
        <4>2. i \notin DOMAIN q.seen
          <5>1. SUFFICES ASSUME i \in DOMAIN q.seen
                         PROVE  FALSE
            OBVIOUS
          <5>2. maps[i].student = q.seen[i].student
            BY <1>1, <5>1 DEF Inv, Kept, q
          <5>3. maps[i].student \in Concern(q) /\ maps[i].student \in Concern(p)
            BY <3>2, <5>1, <5>2 DEF Concern
          <5> QED
            BY <1>1, <2>1, <4>1, <5>3, Raced DEF q
        <4>3. maps'[i] = maps[i]
          BY <3>2, <4>2 DEF Effect, q
        <4> QED
          BY <2>2, <4>1, <4>3 DEF Kept
      <3> QED
        BY <3>2, <3>3, <3>4
    <2>5. NotInUse(p)'
      <3>1. SUFFICES ASSUME NEW x \in Inserting(p), x \notin raced' \cup loose', x \in RollsInUse'
                     PROVE  FALSE
        <4>1. Inserting(p)' = Inserting(p)
          BY <2>1 DEF Inserting
        <4> QED
          BY <4>1 DEF NotInUse
      <3>2. x \notin raced \cup loose
        BY <1>1, <3>1 DEF Effect
      <3>3. x \notin RollsInUse
        BY <2>2, <3>2 DEF NotInUse
      <3>4. x \in Inserting(q)
        BY <3>1, <3>3 DEF RollEffect, q
      <3>5. x \in Rolls /\ x \in Concern(p) /\ x \in Concern(q)
        BY <1>1, <2>1, <3>4, InsertingConcern
      <3> QED
        BY <1>1, <2>1, <3>2, <3>5, Raced DEF q
    <2> QED
      BY <2>1, <2>3, <2>4, <2>5
  <1> QED
    BY <1>3, <1>4, <1>5, <1>6 DEF Inv, RollEffect

---------------------------------------------------------------------------
(* The steps that begin a request, or end it without a write *)

\* An idle request holds the empty payload.
LEMMA BlankType == Blank \in Payload /\ DOMAIN NoRows = {}
                   /\ NoRows \in PartialTable
  <1>1. NoRows \in [{} -> Mapping] /\ {} \in SUBSET MapIds
    BY DEF NoRows
  <1> QED
    BY <1>1 DEF Blank, Payload, NoRows, PartialTable

\* A request that is begun has the type of a request.
LEMMA NewType ==
    ASSUME NEW op \in Ops, NEW who \in StudentIds \cup {None}, NEW p \in Payload,
           NEW seen \in PartialTable
    PROVE  /\ New(op, who, p, seen) \in Request
           /\ New(op, who, p, seen).op = op /\ New(op, who, p, seen).who = who
           /\ New(op, who, p, seen).payload = p /\ New(op, who, p, seen).seen = seen
           /\ DOMAIN New(op, who, p, seen).file = {}
  <1>1. <<>> \in Seq(Row) /\ DOMAIN <<>> = {}
    OBVIOUS
  <1> QED
    BY <1>1 DEF New, Request, PartialTable

\* The invariant holds initially: nothing is in flight and nobody is enrolled.
LEMMA InitInv == Init => Inv
  <1> SUFFICES ASSUME Init
               PROVE  Inv
    OBVIOUS
  <1>1. TypeOK /\ Overlap(req) = {}
    BY DEF Init, TypeOK, Overlap
  <1>2. \A s : Current(s) = {} /\ ByStatus(s) = {}
    BY DEF Init, Current, ByStatus
  <1>3. \A r \in Reqs : req[r] = None
    BY DEF Init
  <1>4. Known /\ RollsUnique
    BY DEF Init, Known, RollsUnique
  <1>5. OneStayUnlessRaced /\ StaysEnrolled /\ LookupsAgree
    BY <1>2 DEF Init, OneStayUnlessRaced, StaysEnrolled, LookupsAgree, AtMostOne
  <1> QED
    BY <1>1, <1>3, <1>4, <1>5 DEF Inv

\* Student creation reads nothing and has looked its roll id up.
LEMMA BeginCreateInv ==
    ASSUME Inv, raced' = raced \cup Overlap(req'), NEW r \in Reqs, NEW p \in Payloads, BeginCreate(r, p)
    PROVE  Inv'
  <1> DEFINE q == New("create", None, p, NoRows)
  <1>1. p \in Payload /\ p.class \in Classes /\ p.section \in Sections
    BY InputAssumption DEF BeginCreate, Payload
  <1>2. /\ q \in Request /\ q.op = "create" /\ q.payload = p /\ DOMAIN q.seen = {} /\ DOMAIN q.file = {}
    BY <1>1, BlankType, NewType DEF Ops
  <1>3. Begin(r, q) /\ p.roll \notin RollsInUse
    BY DEF BeginCreate
  <1> HIDE DEF q
  <1>4. Shape(q)
    BY <1>1, <1>2 DEF Shape
  <1>5. \A x \in Inserting(q) : x \notin RollsInUse
    BY <1>2, <1>3 DEF Inserting
  <1> QED
    BY <1>2, <1>3, <1>4, <1>5, BeginInv

\* The bulk upload reads nothing and has looked the roll id of every row up.
LEMMA BeginBulkInv ==
    ASSUME Inv, raced' = raced \cup Overlap(req'), NEW r \in Reqs, NEW p \in Payloads,
           NEW f \in Files, BeginBulk(r, p, f)
    PROVE  Inv'
  <1> DEFINE known == RollsInUse \cap RollsOf(f)
             new == New("bulk", None, p, NoRows)
             q == [new EXCEPT !.file = f, !.known = known]
  <1>1. p \in Payload /\ p.class \in Classes /\ p.section \in Sections
    BY InputAssumption DEF BeginBulk, Payload
  <1>2. f \in Seq(Row) /\ known \subseteq Rolls
    <2>1. f \in Seq(Row)
      BY InputAssumption
    <2>2. \A n \in DOMAIN f : f[n] \in Row
      BY <2>1
    <2> QED
      BY <2>1, <2>2 DEF RollsOf, Row
  <1>3. new \in Request /\ new.op = "bulk" /\ new.payload = p /\ DOMAIN new.seen = {}
    BY <1>1, BlankType, NewType DEF Ops
  <1>4. Begin(r, q)
    BY DEF BeginBulk
  <1> HIDE DEF new
  <1>5. /\ q \in Request /\ q.op = "bulk" /\ q.payload = p /\ DOMAIN q.seen = {}
        /\ q.file = f /\ q.known = known
    BY <1>2, <1>3 DEF Request
  <1> HIDE DEF q
  <1>6. Shape(q)
    BY <1>1, <1>5 DEF Shape
  <1>7. \A x \in Inserting(q) : x \notin RollsInUse
    BY <1>5 DEF Inserting
  <1> QED
    BY <1>4, <1>5, <1>6, <1>7, BeginInv

\* The look-ups yield current stays, of the student asked for.
LEMMA Lookups ==
    ASSUME Inv, NEW S \in SUBSET MapIds,
           \A i \in S : maps[i] # None /\ maps[i].is_active = 1
    PROVE  /\ Read(S) \in PartialTable /\ DOMAIN Read(S) = S
           /\ \A i \in S : maps[i] # None /\ Read(S)[i] = maps[i] /\ Read(S)[i].is_active = 1
  BY ReadType DEF Inv

\* Update, mapping update, transfer and promotion insert no roll id.
LEMMA BeginReadInv ==
    ASSUME Inv, raced' = raced \cup Overlap(req'), NEW r \in Reqs,
           NEW op \in {"update", "patch", "transfer", "promote"},
           NEW who \in StudentIds \cup {None}, NEW p \in Payload, NEW S \in SUBSET MapIds,
           Begin(r, New(op, who, p, Read(S))),
           \A i \in S : maps[i] # None /\ maps[i].is_active = 1,
           op # "promote" => who \in enrolled /\ \A i \in S : maps[i].student = who,
           op \in {"update", "patch"} => AtMostOne(S),
           op = "transfer" => p.section \in Sections,
           op = "update" => p.status = None /\ p.is_active = None,
           op = "promote" => /\ p.class \in Classes /\ NextClass[p.class] \in Classes
                             /\ \A i \in S : maps[i].class = p.class
    PROVE  Inv'
  <1> DEFINE q == New(op, who, p, Read(S))
  <1>1. /\ q \in Request /\ q.op = op /\ q.who = who /\ q.payload = p /\ q.seen = Read(S)
        /\ DOMAIN q.file = {}
    BY Lookups, NewType DEF Ops
  <1>2. /\ DOMAIN q.seen = S
        /\ \A i \in S : maps[i] # None /\ q.seen[i] = maps[i] /\ q.seen[i].is_active = 1
    BY <1>1, Lookups
  <1>3. Begin(r, q)
    OBVIOUS
  <1> HIDE DEF q
  <1>4. Shape(q)
    BY <1>1, <1>2 DEF Shape
  <1>5. Inserting(q) = {}
    BY <1>1 DEF Inserting
  <1> QED
    BY <1>1, <1>2, <1>3, <1>4, <1>5, BeginInv

\* A student update has read the current stay, by the status or by the flag.
LEMMA BeginUpdateInv ==
    ASSUME Inv, raced' = raced \cup Overlap(req'), NEW r \in Reqs, NEW s \in StudentIds,
           NEW p \in Payloads, BeginUpdate(r, s, p)
    PROVE  Inv'
  <1> DEFINE S == IF p.class = None /\ p.section = None THEN {} ELSE ByStatus(s)
             new == [p EXCEPT !.roll = IF p.roll = roll[s] THEN None ELSE p.roll]
  <1>1. p \in Payload /\ new \in Payload /\ new.status = None /\ new.is_active = None
    BY InputAssumption DEF BeginUpdate, Payload
  <1>2. /\ S \in SUBSET MapIds
        /\ \A i \in S : maps[i] # None /\ maps[i].is_active = 1 /\ maps[i].student = s
    BY DEF ByStatus, Current
  <1>3. s \in enrolled /\ AtMostOne(S) /\ Begin(r, New("update", s, new, Read(S)))
    BY DEF BeginUpdate
  <1> HIDE DEF S, new
  <1> QED
    BY <1>1, <1>2, <1>3, BeginReadInv

\* A mapping update has read the stay that is named.
LEMMA BeginPatchInv ==
    ASSUME Inv, raced' = raced \cup Overlap(req'), NEW r \in Reqs, NEW s \in StudentIds,
           NEW p \in Payloads, BeginPatch(r, s, p)
    PROVE  Inv'
  <1>1. p \in Payload
    BY InputAssumption
  <1>2. /\ ByStatus(s) \in SUBSET MapIds
        /\ \A i \in ByStatus(s) : maps[i] # None /\ maps[i].is_active = 1 /\ maps[i].student = s
    BY DEF ByStatus, Current
  <1>3. s \in enrolled
    BY <1>2 DEF BeginPatch, Inv, Known
  <1>4. AtMostOne(ByStatus(s)) /\ Begin(r, New("patch", s, p, Read(ByStatus(s))))
    BY DEF BeginPatch
  <1> QED
    BY <1>1, <1>2, <1>3, <1>4, BeginReadInv

\* A transfer has read the active stay of its student.
LEMMA BeginTransferInv ==
    ASSUME Inv, raced' = raced \cup Overlap(req'), NEW r \in Reqs, NEW s \in StudentIds,
           NEW x \in Sections, BeginTransfer(r, s, x)
    PROVE  Inv'
  <1> DEFINE p == [Blank EXCEPT !.section = x]
  <1>1. p \in Payload /\ p.section = x
    BY BlankType DEF Payload, Blank
  <1>2. /\ Current(s) \in SUBSET MapIds
        /\ \A i \in Current(s) : maps[i] # None /\ maps[i].is_active = 1 /\ maps[i].student = s
    BY DEF Current
  <1>3. s \in enrolled
    BY <1>2 DEF BeginTransfer, Inv, Known
  <1>4. Begin(r, New("transfer", s, p, Read(Current(s))))
    BY DEF BeginTransfer
  <1> HIDE DEF p
  <1> QED
    BY <1>1, <1>2, <1>3, <1>4, BeginReadInv

\* A promotion has read the active stays of the students in a class.
LEMMA BeginPromoteInv ==
    ASSUME Inv, raced' = raced \cup Overlap(req'), NEW r \in Reqs, NEW c \in Classes,
           BeginPromote(r, c)
    PROVE  Inv'
  <1> DEFINE p == [Blank EXCEPT !.class = c]
  <1>1. p \in Payload /\ p.class = c
    BY BlankType DEF Payload, Blank
  <1>2. /\ InClass(c) \in SUBSET MapIds
        /\ \A i \in InClass(c) : maps[i] # None /\ maps[i].is_active = 1 /\ maps[i].class = c
    BY DEF InClass
  <1>3. NextClass[c] \in Classes
    BY SchoolAssumption DEF BeginPromote
  <1>4. Begin(r, New("promote", None, p, Read(InClass(c))))
    BY DEF BeginPromote
  <1> HIDE DEF p
  <1> QED
    BY <1>1, <1>2, <1>3, <1>4, BeginReadInv

\* An aborted request writes nothing: the others keep what they know.
LEMMA AbortInv ==
    ASSUME Inv, raced' = raced \cup Overlap(req'), NEW r \in Reqs, Abort(r)
    PROVE  Inv'
  <1>1. Effect(req[r])
    BY DEF Abort, Effect, Inv, TypeOK
  <1>2. RollEffect(req[r])
    BY DEF Abort, RollEffect, RollsInUse, RollsUnique, Inv
  <1>3. \A s : Current(s)' = Current(s) /\ ByStatus(s)' = ByStatus(s)
    BY DEF Abort, Current, ByStatus
  <1>4. StaysEnrolled' /\ LookupsAgree' /\ \A s \in StudentIds \ raced : AtMostOne(Current(s)')
    BY <1>3 DEF Abort, StaysEnrolled, LookupsAgree, OneStayUnlessRaced, Inv
  <1> QED
    BY <1>1, <1>2, <1>4, EndInv DEF Abort

---------------------------------------------------------------------------
(* The commits *)

\* What is known of a request that is about to commit, and of the stays.
LEMMA RequestFacts ==
    ASSUME Inv, NEW r \in Reqs, req[r] # None
    PROVE  /\ req[r] \in Request /\ Shape(req[r]) /\ Kept(req[r]) /\ NotInUse(req[r])
           /\ req[r].payload \in Payload
           /\ DOMAIN req[r].seen \subseteq MapIds
           /\ \A i \in DOMAIN req[r].seen :
                 /\ req[r].seen[i] \in Mapping /\ req[r].seen[i].is_active = 1
                 /\ maps[i] # None /\ maps[i].student = req[r].seen[i].student
                 /\ maps[i].student \notin raced => maps[i] = req[r].seen[i]
           /\ maps \in [MapIds -> Mapping \cup {None}]
           /\ \A i \in MapIds : maps[i] # None => maps[i] \in Mapping
  <1>1. req \in [Reqs -> Request \cup {None}] /\ maps \in [MapIds -> Mapping \cup {None}]
    BY DEF Inv, TypeOK
  <1>2. req[r] \in Request /\ Shape(req[r]) /\ Kept(req[r]) /\ NotInUse(req[r])
    BY <1>1 DEF Inv
  <1>3. /\ DOMAIN req[r].seen \subseteq MapIds
        /\ \A i \in DOMAIN req[r].seen : req[r].seen[i] \in Mapping
    BY <1>2, SeenType
  <1> QED
    BY <1>1, <1>2, <1>3 DEF Shape, Kept, Request

\* LookupsAgree, said of the stays.
RowsAgree ==
    \A i \in MapIds : maps[i] # None /\ maps[i].is_active = 1
        /\ maps[i].student \in StudentIds \ patched => maps[i].status = "active"

\* That the look-ups agree is a statement about the rows alone.
LEMMA LookupsRows == (LookupsAgree <=> RowsAgree) /\ (LookupsAgree' <=> RowsAgree')
  BY DEF LookupsAgree, RowsAgree, ByStatus, Current

\* A commit that leaves the roll ids alone.
LEMMA SameRolls ==
    ASSUME Inv, NEW q, UNCHANGED <<enrolled, roll, stray>>, loose \subseteq loose', raced \subseteq raced'
    PROVE  RollEffect(q)
  BY DEF RollEffect, RollsInUse, RollsUnique, Inv

\* The commit of a student creation gives a new student their first stay.
LEMMA CommitCreateInv ==
    ASSUME Inv, raced' = raced \cup Overlap(req'), NEW r \in Reqs, NEW s \in StudentIds,
           NEW i \in MapIds, CommitCreate(r, s, i)
    PROVE  Inv' /\ Effect(req[r])
  <1> DEFINE q == req[r]
             p == q.payload
             new == NewMapping(s, p.class, p.section)
  <1>1. /\ q # None /\ q.op = "create" /\ s \notin enrolled /\ maps[i] = None
        /\ enrolled' = enrolled \cup {s} /\ roll' = [roll EXCEPT ![s] = p.roll]
        /\ maps' = [maps EXCEPT ![i] = new] /\ Finish(r) /\ UNCHANGED <<loose, patched, stray>>
    BY DEF CommitCreate, Pending, Free
  <1>2. /\ Shape(q) /\ NotInUse(q) /\ p \in Payload
        /\ maps \in [MapIds -> Mapping \cup {None}]
        /\ \A j \in MapIds : maps[j] # None => maps[j] \in Mapping
    BY <1>1, RequestFacts
  <1>3. /\ new \in Mapping /\ new # None /\ new.student = s /\ new.is_active = 1 /\ new.status = "active"
    BY <1>1, <1>2, NewFacts, NoneAssumption DEF Shape
  <1>t. roll \in [StudentIds -> Rolls \cup {None}] /\ enrolled \subseteq StudentIds /\ raced \subseteq raced'
    BY DEF Inv, TypeOK
  <1> HIDE DEF q, p, new
  <1>4. \A j \in MapIds : maps'[j] = IF j = i THEN new ELSE maps[j]
    BY <1>1, <1>2
  <1>5. Effect(q)
    <2>1. roll' \in [StudentIds -> Rolls \cup {None}]
      BY <1>1, <1>2, <1>t DEF Payload
    <2>2. maps' \in [MapIds -> Mapping \cup {None}]
      BY <1>1, <1>2, <1>3
    <2> QED
      BY <1>1, <1>3, <1>4, <2>1, <2>2 DEF Effect, Inv, TypeOK
  <1>6. RollEffect(q)
    <2>1. /\ \A a \in enrolled : roll'[a] = roll[a]
          /\ roll'[s] = p.roll
      BY <1>1, <1>t
    <2>2. p.roll # None => p.roll \in Inserting(q)
      BY <1>1 DEF Inserting, p
    <2>3. \A a \in enrolled : roll[a] # None => roll[a] \in RollsInUse
      BY DEF RollsInUse
    <2>4. RollsInUse' \subseteq RollsInUse \cup Inserting(q)
      BY <1>1, <2>1, <2>2, <2>3 DEF RollsInUse
    <2>5. p.roll # None /\ p.roll \in RollsInUse => p.roll \in raced \cup loose
      BY <1>2, <2>2 DEF NotInUse
    <2>6. RollsUnique'
      BY <1>1, <1>t, <2>1, <2>3, <2>5 DEF RollsUnique, Inv
    <2> QED
      BY <2>4, <2>6 DEF RollEffect
  <1>7. \A t \in StudentIds : Current(t)' = IF t = s THEN {i} ELSE Current(t)
    <2>1. \A j \in MapIds : maps[j] # None => maps[j].student # s
      BY <1>1 DEF Inv, Known
    <2> QED
      BY <1>1, <1>3, <1>4, <2>1 DEF Current
  <1>8. StaysEnrolled' /\ \A t \in StudentIds \ raced : AtMostOne(Current(t)')
    BY <1>1, <1>7, <1>t DEF StaysEnrolled, OneStayUnlessRaced, AtMostOne, Inv
  <1>9. LookupsAgree'
    BY <1>1, <1>3, <1>4, LookupsRows DEF Inv, RowsAgree
  <1> QED
    BY <1>1, <1>5, <1>6, <1>8, <1>9, EndInv DEF q

\* The commit of an upload gives each of its new students their first stay.
LEMMA CommitBulkInv ==
    ASSUME Inv, raced' = raced \cup Overlap(req'), NEW r \in Reqs, CommitBulk(r)
    PROVE  Inv' /\ Effect(req[r])
  <1> DEFINE q == req[r]
             p == q.payload
             row(f, x) == CHOOSE n \in DOMAIN f : f[n] = x
             T == Inserted(q)
             P == Placed(q)
             new(s) == NewMapping(s, p.class, p.section)
  <1>1. q # None /\ q.op = "bulk" /\ Finish(r) /\ UNCHANGED <<loose, patched>>
    BY DEF CommitBulk, Pending
  <1>2. PICK who \in [T -> StudentIds \ enrolled], id \in [P -> Free] :
           /\ Injective(who) /\ Injective(id)
           /\ enrolled' = enrolled \cup {who[n] : n \in T}
           /\ roll' = [s \in StudentIds |->
                 IF \E n \in T : who[n] = s THEN q.file[row(who, s)].roll ELSE roll[s]]
           /\ maps' = [i \in MapIds |->
                 IF \E n \in P : id[n] = i THEN new(who[row(id, i)]) ELSE maps[i]]
           /\ stray' = stray \cup {who[n] : n \in T \ P}
    BY DEF CommitBulk
  <1>3. /\ Shape(q) /\ NotInUse(q) /\ p \in Payload /\ q \in Request
        /\ maps \in [MapIds -> Mapping \cup {None}]
        /\ \A j \in MapIds : maps[j] # None => maps[j] \in Mapping
    BY <1>1, RequestFacts
  <1>4. \A s \in StudentIds : /\ new(s) \in Mapping /\ new(s) # None /\ new(s).student = s
                              /\ new(s).is_active = 1 /\ new(s).status = "active"
    BY <1>1, <1>3, NewFacts, NoneAssumption DEF Shape
  <1>t. /\ roll \in [StudentIds -> Rolls \cup {None}] /\ enrolled \subseteq StudentIds
        /\ loose \subseteq Rolls /\ patched \subseteq StudentIds /\ stray \subseteq StudentIds
        /\ raced \subseteq raced' /\ q.file \in Seq(Row)
        /\ T \subseteq DOMAIN q.file /\ P \subseteq T
    BY <1>3 DEF Inv, TypeOK, Request, Inserted, Placed
  <1>f. /\ \A n \in T : who[n] \in StudentIds \ enrolled
        /\ \A n \in P : who[n] \in StudentIds \ enrolled /\ id[n] \in MapIds /\ maps[id[n]] = None
    BY <1>2, <1>t DEF Free
  <1>u. /\ \A n, m \in T : who[n] = who[m] => n = m
        /\ \A n, m \in P : id[n] = id[m] => n = m
    BY <1>2 DEF Injective
  \* The roll ids of whole rows differ from each other; all were looked up.
  <1>5. /\ \A n \in T : q.file[n].roll \in Rolls /\ q.file[n].roll \in Inserting(q)
        /\ \A n, m \in P : q.file[n].roll = q.file[m].roll => n = m
    <2>1. \A n \in T : q.file[n].roll \in Rolls /\ q.file[n].roll \in Inserting(q)
      <3>1. \A n \in T : q.file[n] \in Row /\ q.file[n].roll \notin q.known
        BY <1>t DEF Inserted
      <3> QED
        BY <1>1, <1>t, <3>1 DEF Inserting, RollsOf, Row
    <2>2. ASSUME NEW n \in P, NEW m \in P, n < m
          PROVE  q.file[n].roll # q.file[m].roll
      <3>1. n \in 1 .. m - 1
        BY <1>t, <2>2
      <3>2. q.file[n].whole
        BY <2>2 DEF Placed
      <3> QED
        BY <1>t, <3>1, <3>2, <2>2 DEF Inserted
    <2>3. \A n, m \in P : n = m \/ n < m \/ m < n
      BY <1>t
    <2> QED
      BY <2>1, <2>2, <2>3
  <1>6. \A s \in StudentIds : \/ roll'[s] = roll[s] /\ \A n \in T : who[n] # s
                              \/ \E n \in T : who[n] = s /\ roll'[s] = q.file[n].roll
    <2>1. SUFFICES ASSUME NEW s \in StudentIds, NEW n \in T, who[n] = s
                   PROVE  roll'[s] = q.file[n].roll
      BY <1>2
    <2>2. row(who, s) \in T /\ who[row(who, s)] = s
      BY <1>2, <2>1
    <2>3. row(who, s) = n
      BY <1>u, <2>1, <2>2
    <2> QED
      BY <1>2, <2>1, <2>3
  <1>7. \A i \in MapIds : \/ maps'[i] = maps[i] /\ \A n \in P : id[n] # i
                          \/ \E n \in P : id[n] = i /\ maps'[i] = new(who[n])
    <2>1. SUFFICES ASSUME NEW i \in MapIds, NEW n \in P, id[n] = i
                   PROVE  maps'[i] = new(who[n])
      BY <1>2
    <2>2. row(id, i) \in P /\ id[row(id, i)] = i
      BY <1>2, <2>1
    <2>3. row(id, i) = n
      BY <1>u, <2>1, <2>2
    <2> QED
      BY <1>2, <2>1, <2>3
  <1>8. /\ roll' \in [StudentIds -> Rolls \cup {None}]
        /\ maps' \in [MapIds -> Mapping \cup {None}]
    <2>1. \A s \in StudentIds : roll'[s] \in Rolls \cup {None}
      BY <1>5, <1>6, <1>t
    <2>2. \A i \in MapIds : maps'[i] \in Mapping \cup {None}
      BY <1>3, <1>4, <1>7, <1>f, <1>t
    <2> QED
      BY <1>2, <2>1, <2>2
  <1>9. enrolled' = enrolled \cup {who[n] : n \in T}
    BY <1>2
  <1> HIDE DEF q, p, T, P, new, row
  <1>10. Effect(q)
    <2>1. enrolled' \subseteq StudentIds
      BY <1>9, <1>f, <1>t
    <2>2. \A i \in MapIds : maps[i] # None => maps'[i] = maps[i]
      BY <1>7, <1>f
    <2>3. \A i \in MapIds : maps[i] = None /\ maps'[i] # None =>
             /\ maps'[i].is_active = 1 /\ maps'[i].status = "active" /\ maps'[i].student \in enrolled'
      BY <1>4, <1>7, <1>9, <1>f, <1>t
    <2>4. stray \subseteq stray' /\ stray' \subseteq StudentIds
      BY <1>2, <1>f, <1>t
    <2> QED
      BY <1>1, <1>8, <1>9, <1>t, <2>1, <2>2, <2>3, <2>4 DEF Effect
  <1>11. RollEffect(q)
    <2>1. \A a \in enrolled : roll'[a] = roll[a] /\ roll[a] \in RollsInUse \cup {None}
      BY <1>6, <1>f, <1>t DEF RollsInUse
    <2>2. \A a \in enrolled' : a \in enrolled \/ \E n \in T : who[n] = a /\ roll'[a] = q.file[n].roll
      BY <1>6, <1>9, <1>f
    <2>3. RollsInUse' \subseteq RollsInUse \cup Inserting(q)
      BY <1>5, <2>1, <2>2 DEF RollsInUse
    <2>s. \A n \in T : who[n] \notin stray' => n \in P
      BY <1>2
    <2>4. ASSUME NEW a \in enrolled' \ stray', NEW b \in enrolled' \ stray', a # b,
                 roll'[a] = roll'[b], roll'[a] # None, roll'[a] \notin raced \cup loose
          PROVE  FALSE
      <3>1. CASE a \in enrolled /\ b \in enrolled
        <4>1. a \notin stray /\ b \notin stray
          BY <1>2, <2>4
        <4> QED
          BY <2>1, <2>4, <3>1, <4>1 DEF RollsUnique, Inv
      <3>2. ASSUME NEW c \in enrolled, roll'[c] = roll'[a], NEW n \in T, roll'[a] = q.file[n].roll
            PROVE  FALSE
        BY <1>3, <1>5, <2>1, <2>4, <3>2 DEF NotInUse
      <3>3. CASE a \notin enrolled /\ b \notin enrolled
        BY <1>5, <2>2, <2>4, <2>s, <3>3
      <3> QED
        BY <2>2, <2>4, <3>1, <3>2, <3>3
    <2>5. RollsUnique'
      BY <1>1, <1>t, <2>4 DEF RollsUnique
    <2> QED
      BY <2>3, <2>5 DEF RollEffect
  <1>12. \A s \in StudentIds : \/ Current(s)' = Current(s) /\ (s \in enrolled' \ enrolled => s \in stray')
                               \/ \E n \in P : who[n] = s /\ Current(s)' = {id[n]}
    <2> SUFFICES ASSUME NEW s \in StudentIds
                 PROVE  \/ Current(s)' = Current(s) /\ (s \in enrolled' \ enrolled => s \in stray')
                        \/ \E n \in P : who[n] = s /\ Current(s)' = {id[n]}
      OBVIOUS
    <2>1. CASE \A n \in P : who[n] # s
      <3>1. s \in enrolled' \ enrolled => s \in stray'
        BY <1>2, <1>9, <2>1
      <3>2. Current(s)' = Current(s)
        BY <1>4, <1>7, <1>f, <2>1 DEF Current
      <3> QED
        BY <3>1, <3>2
    <2>2. CASE \E n \in P : who[n] = s
      <3>1. PICK n \in P : who[n] = s
        BY <2>2
      <3>2. \A i \in MapIds : maps[i] # None => maps[i].student # s
        BY <1>f, <3>1 DEF Inv, Known
      <3>3. maps'[id[n]] = new(s)
        BY <1>7, <1>f, <1>u, <3>1
      <3>4. \A i \in MapIds : maps'[i] # None /\ maps'[i].student = s => i = id[n]
        BY <1>4, <1>7, <1>f, <1>t, <1>u, <3>1, <3>2
      <3> QED
        BY <1>4, <1>f, <3>1, <3>3, <3>4 DEF Current
    <2> QED
      BY <2>1, <2>2
  <1>13. StaysEnrolled' /\ \A s \in StudentIds \ raced : AtMostOne(Current(s)')
    <2>1. enrolled' \subseteq StudentIds /\ patched' = patched /\ stray \subseteq stray'
      BY <1>1, <1>10 DEF Effect
    <2>2. \A s \in enrolled' \ (patched \cup stray') : Current(s)' # {}
      BY <1>12, <2>1 DEF StaysEnrolled, Inv
    <2>3. \A s \in StudentIds \ raced : AtMostOne(Current(s)')
      BY <1>12 DEF OneStayUnlessRaced, AtMostOne, Inv
    <2> QED
      BY <2>1, <2>2, <2>3 DEF StaysEnrolled
  <1>14. LookupsAgree'
    <2>1. RowsAgree
      BY LookupsRows DEF Inv
    <2>2. ASSUME NEW i \in MapIds, maps'[i] # None, maps'[i].is_active = 1,
                 maps'[i].student \in StudentIds \ patched
          PROVE  maps'[i].status = "active"
      <3>1. CASE maps'[i] = maps[i]
        BY <2>1, <2>2, <3>1 DEF RowsAgree
      <3>2. CASE \E n \in P : id[n] = i /\ maps'[i] = new(who[n])
        BY <1>4, <1>f, <3>2
      <3> QED
        BY <1>7, <3>1, <3>2
    <2> QED
      BY <1>1, <2>2, LookupsRows DEF RowsAgree
  <1> QED
    BY <1>1, <1>10, <1>11, <1>13, <1>14, EndInv DEF q

\* The table after an update or a mapping update: only the columns of the stay
\* that was read change, and no stay is revived.
LEMMA AssignedRows ==
    ASSUME Inv, NEW r \in Reqs, req[r] # None,
           maps' = [i \in MapIds |->
                      IF i \in DOMAIN req[r].seen
                      THEN Assigned(maps[i], req[r].seen[i], req[r].payload) ELSE maps[i]]
    PROVE  /\ maps' \in [MapIds -> Mapping \cup {None}]
           /\ \A i \in MapIds :
                 /\ maps[i] = None <=> maps'[i] = None
                 /\ i \notin DOMAIN req[r].seen => maps'[i] = maps[i]
                 /\ maps[i] # None =>
                       /\ maps'[i].student = maps[i].student
                       /\ maps[i].is_active = 0 => maps'[i].is_active = 0
                       /\ req[r].payload.is_active = None => maps'[i].is_active = maps[i].is_active
                       /\ req[r].payload.status = None => maps'[i].status = maps[i].status
           /\ \A s : Current(s)' \subseteq Current(s)
           /\ req[r].payload.is_active = None => \A s : Current(s)' = Current(s)
  <1> DEFINE q == req[r]
             new(i) == Assigned(maps[i], q.seen[i], q.payload)
  <1>1. /\ q.payload \in Payload /\ DOMAIN q.seen \subseteq MapIds
        /\ maps \in [MapIds -> Mapping \cup {None}]
        /\ \A i \in MapIds : maps[i] # None => maps[i] \in Mapping
        /\ \A i \in DOMAIN q.seen :
              maps[i] # None /\ q.seen[i] \in Mapping /\ q.seen[i].is_active = 1
    BY RequestFacts
  <1>2. \A i \in DOMAIN q.seen :
           /\ new(i) \in Mapping /\ new(i) # None /\ new(i).student = maps[i].student
           /\ maps[i].is_active = 0 => new(i).is_active = 0
           /\ q.payload.is_active = None => new(i).is_active = maps[i].is_active
           /\ q.payload.status = None => new(i).status = maps[i].status
    <2> SUFFICES ASSUME NEW i \in DOMAIN q.seen
                 PROVE  /\ new(i) \in Mapping /\ new(i) # None /\ new(i).student = maps[i].student
                        /\ maps[i].is_active = 0 => new(i).is_active = 0
                        /\ q.payload.is_active = None => new(i).is_active = maps[i].is_active
                        /\ q.payload.status = None => new(i).status = maps[i].status
      OBVIOUS
    <2>1. /\ maps[i] \in Mapping /\ q.seen[i] \in Mapping /\ q.payload \in Payload
          /\ q.seen[i].is_active = 1
      BY <1>1
    <2>2. None \notin Mapping
      BY NoneAssumption
    <2> HIDE DEF q
    <2> QED
      BY <2>1, <2>2, AssignedFacts
  <1>3. \A i \in MapIds : maps'[i] = IF i \in DOMAIN q.seen THEN new(i) ELSE maps[i]
    OBVIOUS
  <1> HIDE DEF q, new
  <1>4. maps' \in [MapIds -> Mapping \cup {None}]
    <2>1. \A i \in MapIds : maps'[i] \in Mapping \cup {None}
      BY <1>1, <1>2, <1>3
    <2> QED
      BY <2>1
  <1>5. \A i \in MapIds :
           /\ maps[i] = None <=> maps'[i] = None
           /\ i \notin DOMAIN q.seen => maps'[i] = maps[i]
           /\ maps[i] # None =>
                 /\ maps'[i].student = maps[i].student
                 /\ maps[i].is_active = 0 => maps'[i].is_active = 0
                 /\ q.payload.is_active = None => maps'[i].is_active = maps[i].is_active
                 /\ q.payload.status = None => maps'[i].status = maps[i].status
    BY <1>1, <1>2, <1>3
  <1>6. \A i \in MapIds : maps[i] # None => maps[i].is_active \in {0, 1}
    BY <1>1 DEF Mapping
  <1>7. \A s : Current(s)' \subseteq Current(s)
    BY <1>5, <1>6 DEF Current
  <1>8. q.payload.is_active = None => \A s : Current(s)' = Current(s)
    BY <1>5 DEF Current
  <1> QED
    BY <1>4, <1>5, <1>7, <1>8 DEF q

\* The commit of a student update assigns columns of the current stay.
LEMMA CommitUpdateInv ==
    ASSUME Inv, raced' = raced \cup Overlap(req'), NEW r \in Reqs, CommitUpdate(r)
    PROVE  Inv' /\ Effect(req[r])
  <1> DEFINE q == req[r]
             x == q.payload.roll
  <1>1. /\ q # None /\ q.op = "update" /\ Finish(r) /\ UNCHANGED <<enrolled, patched, stray>>
        /\ roll' = IF x = None THEN roll ELSE [roll EXCEPT ![q.who] = x]
        /\ loose' = loose \cup ({x} \ {None})
    BY DEF CommitUpdate, Pending
  <1>2. /\ Shape(q) /\ q.payload \in Payload
        /\ q.who \in enrolled /\ q.payload.status = None /\ q.payload.is_active = None
    BY <1>1, RequestFacts DEF Shape
  <1>3. /\ maps' \in [MapIds -> Mapping \cup {None}]
        /\ \A i \in MapIds :
              /\ maps[i] = None <=> maps'[i] = None
              /\ i \notin DOMAIN q.seen => maps'[i] = maps[i]
              /\ maps[i] # None =>
                    /\ maps'[i].student = maps[i].student
                    /\ maps[i].is_active = 0 => maps'[i].is_active = 0
                    /\ maps'[i].is_active = maps[i].is_active
                    /\ maps'[i].status = maps[i].status
        /\ \A s : Current(s)' = Current(s)
    BY <1>1, <1>2, AssignedRows DEF CommitUpdate
  <1>t. /\ roll \in [StudentIds -> Rolls \cup {None}] /\ enrolled \subseteq StudentIds
        /\ loose \subseteq Rolls /\ patched \cup stray \subseteq StudentIds /\ raced \subseteq raced'
        /\ x \in Rolls \cup {None}
    BY <1>2 DEF Inv, TypeOK, Payload
  <1> HIDE DEF q, x
  <1>4. roll' \in [StudentIds -> Rolls \cup {None}] /\ loose' \subseteq Rolls
    BY <1>1, <1>2, <1>t
  <1>5. Effect(q)
    BY <1>1, <1>3, <1>4, <1>t DEF Effect
  <1>6. RollEffect(q)
    <2>1. \A a \in enrolled : roll'[a] # None => roll'[a] = roll[a] \/ roll'[a] \in loose'
      BY <1>1, <1>2, <1>t
    <2> QED
      BY <1>1, <1>t, <2>1 DEF RollEffect, RollsInUse, RollsUnique, Inv
  <1>7. StaysEnrolled' /\ \A s \in StudentIds \ raced : AtMostOne(Current(s)')
    BY <1>1, <1>3 DEF StaysEnrolled, OneStayUnlessRaced, Inv
  <1>8. LookupsAgree'
    BY <1>1, <1>3, LookupsRows DEF RowsAgree, Inv
  <1> QED
    BY <1>1, <1>5, <1>6, <1>7, <1>8, EndInv DEF q

\* The commit of a mapping update assigns columns, the status among them, of a stay.
LEMMA CommitPatchInv ==
    ASSUME Inv, raced' = raced \cup Overlap(req'), NEW r \in Reqs, CommitPatch(r)
    PROVE  Inv' /\ Effect(req[r])
  <1> DEFINE q == req[r]
             p == q.payload
  <1>1. /\ q # None /\ q.op = "patch" /\ Finish(r) /\ UNCHANGED <<enrolled, roll, loose, stray>>
        /\ patched' = IF p.status = None /\ p.is_active = None THEN patched
                      ELSE patched \cup {q.who}
    BY DEF CommitPatch, Pending
  <1>2. /\ Shape(q) /\ q.who \in enrolled
        /\ DOMAIN q.seen \subseteq MapIds
        /\ \A i \in DOMAIN q.seen : maps[i] # None /\ maps[i].student = q.who
    BY <1>1, RequestFacts DEF Shape
  <1>3. /\ maps' \in [MapIds -> Mapping \cup {None}]
        /\ \A i \in MapIds :
              /\ maps[i] = None <=> maps'[i] = None
              /\ i \notin DOMAIN q.seen => maps'[i] = maps[i]
              /\ maps[i] # None =>
                    /\ maps'[i].student = maps[i].student
                    /\ maps[i].is_active = 0 => maps'[i].is_active = 0
                    /\ p.is_active = None => maps'[i].is_active = maps[i].is_active
                    /\ p.status = None => maps'[i].status = maps[i].status
        /\ \A s : Current(s)' \subseteq Current(s)
        /\ p.is_active = None => \A s : Current(s)' = Current(s)
    BY <1>1, AssignedRows DEF CommitPatch
  <1>t. /\ roll \in [StudentIds -> Rolls \cup {None}] /\ enrolled \subseteq StudentIds
        /\ loose \subseteq Rolls /\ patched \cup stray \subseteq StudentIds /\ raced \subseteq raced'
    BY DEF Inv, TypeOK
  <1> HIDE DEF q, p
  <1>5. Effect(q)
    BY <1>1, <1>2, <1>3, <1>t DEF Effect
  <1>6. RollEffect(q)
    BY <1>1, <1>t, SameRolls
  <1>7. \A s \in StudentIds \ raced : AtMostOne(Current(s)')
    BY <1>3 DEF OneStayUnlessRaced, AtMostOne, Inv
  <1>8. StaysEnrolled'
    <2>1. SUFFICES ASSUME NEW s \in enrolled \ (patched' \cup stray)
                   PROVE  Current(s)' # {}
      BY <1>1 DEF StaysEnrolled
    <2>2. CASE p.is_active = None
      BY <1>1, <1>3, <2>1, <2>2 DEF StaysEnrolled, Inv
    <2>3. CASE p.is_active # None
      <3>1. s # q.who /\ s \notin patched
        BY <1>1, <2>1, <2>3
      <3>2. \A i \in Current(s) : i \in Current(s)'
        BY <1>2, <1>3, <3>1 DEF Current
      <3> QED
        BY <2>1, <3>1, <3>2 DEF StaysEnrolled, Inv
    <2> QED
      BY <2>2, <2>3
  <1>9. LookupsAgree'
    <2>1. SUFFICES ASSUME NEW i \in MapIds, maps'[i] # None, maps'[i].is_active = 1,
                          maps'[i].student \in StudentIds \ patched'
                   PROVE  maps'[i].status = "active"
      BY LookupsRows DEF RowsAgree
    <2>2. maps[i] # None /\ maps'[i].student = maps[i].student
      BY <1>3, <2>1
    <2>3. maps[i].is_active = 1
      <3>1. maps[i].is_active \in {0, 1}
        BY <2>2 DEF Inv, TypeOK, Mapping
      <3>2. maps[i].is_active # 0
        BY <1>3, <2>1, <2>2
      <3> QED
        BY <3>1, <3>2
    <2>4. maps[i].status = "active"
      BY <1>1, <2>1, <2>2, <2>3, LookupsRows DEF RowsAgree, Inv
    <2>5. maps'[i].status = maps[i].status
      BY <1>1, <1>2, <1>3, <2>1, <2>2
    <2> QED
      BY <2>4, <2>5
  <1> QED
    BY <1>1, <1>5, <1>6, <1>7, <1>8, <1>9, EndInv DEF q

\* The commit of a transfer closes the stay that was read and opens a new one.
LEMMA CommitTransferInv ==
    ASSUME Inv, raced' = raced \cup Overlap(req'), NEW r \in Reqs, NEW i \in MapIds,
           CommitTransfer(r, i)
    PROVE  Inv' /\ Effect(req[r])
  <1> DEFINE q == req[r]
  <1>1. /\ q # None /\ q.op = "transfer" /\ Finish(r) /\ maps[i] = None
        /\ UNCHANGED <<enrolled, roll, loose, patched, stray>>
    BY DEF CommitTransfer, Pending, Free
  <1>2. PICK old \in DOMAIN q.seen :
           maps' = [maps EXCEPT ![old] = Closed(@, q.seen[old]),
                                ![i] = NewMapping(q.who, q.seen[old].class, q.payload.section)]
    BY DEF CommitTransfer
  <1> DEFINE closed == Closed(maps[old], q.seen[old])
             new == NewMapping(q.who, q.seen[old].class, q.payload.section)
  <1>3. /\ q.who \in enrolled /\ q.payload.section \in Sections
        /\ old \in MapIds /\ maps[old] \in Mapping /\ maps[old] # None /\ old # i
        /\ q.seen[old] \in Mapping /\ q.seen[old].is_active = 1
        /\ maps[old].student = q.who
        /\ q.who \notin raced => maps[old] = q.seen[old]
        /\ maps \in [MapIds -> Mapping \cup {None}]
    BY <1>1, RequestFacts DEF Shape
  <1>t. /\ roll \in [StudentIds -> Rolls \cup {None}] /\ enrolled \subseteq StudentIds
        /\ loose \subseteq Rolls /\ patched \cup stray \subseteq StudentIds /\ raced \subseteq raced'
    BY DEF Inv, TypeOK
  <1>4. /\ closed \in Mapping /\ closed # None /\ closed.student = q.who /\ closed.is_active = 0
    BY <1>3, ClosedFacts, NoneAssumption
  <1>5. /\ new \in Mapping /\ new # None /\ new.student = q.who
        /\ new.is_active = 1 /\ new.status = "active"
    <2>1. q.who \in StudentIds /\ q.seen[old].class \in Classes
      BY <1>3, <1>t DEF Mapping
    <2> QED
      BY <1>3, <2>1, NewFacts, NoneAssumption
  <1>6. \A j \in MapIds : maps'[j] = IF j = i THEN new ELSE IF j = old THEN closed ELSE maps[j]
    BY <1>2, <1>3
  <1> HIDE DEF q, closed, new
  <1>7. maps' \in [MapIds -> Mapping \cup {None}]
    BY <1>2, <1>3, <1>4, <1>5 DEF closed, new
  <1>8. Effect(q)
    BY <1>1, <1>2, <1>3, <1>4, <1>5, <1>6, <1>7, <1>t DEF Effect
  <1>9. RollEffect(q)
    BY <1>1, <1>t, SameRolls
  <1>10. /\ \A k, t : k \in Current(t)' <=> \/ k = i /\ t = q.who
                                            \/ k \in Current(t) /\ k # old
         /\ \A t : t # q.who => old \notin Current(t)
    BY <1>1, <1>3, <1>4, <1>5, <1>6 DEF Current
  <1>11. StaysEnrolled'
    <2>1. ASSUME NEW s \in enrolled \ (patched \cup stray)
          PROVE  Current(s)' # {}
      <3>1. PICK j \in Current(s) : TRUE
        BY DEF StaysEnrolled, Inv
      <3>2. CASE s = q.who
        <4>1. i \in Current(s)'
          BY <1>10, <3>2
        <4> QED
          BY <4>1
      <3>3. CASE s # q.who
        BY <1>10, <3>1, <3>3
      <3> QED
        BY <3>2, <3>3
    <2> QED
      BY <1>1, <2>1 DEF StaysEnrolled
  <1>12. ASSUME NEW s \in StudentIds \ raced
         PROVE  AtMostOne(Current(s)')
    <2>1. AtMostOne(Current(s))
      BY DEF OneStayUnlessRaced, Inv
    <2>2. s = q.who => old \in Current(s)
      BY <1>3, <1>12 DEF Current
    <2>3. SUFFICES ASSUME NEW j \in Current(s)', NEW k \in Current(s)'
                   PROVE  j = k
      BY DEF AtMostOne
    <2> QED
      BY <1>10, <2>1, <2>2, <2>3 DEF AtMostOne
  <1>13. LookupsAgree'
    BY <1>1, <1>4, <1>5, <1>6, LookupsRows DEF RowsAgree, Inv
  <1> QED
    BY <1>1, <1>8, <1>9, <1>11, <1>12, <1>13, EndInv DEF q

\* The commit of a promotion closes the stays that were read and opens new ones.
LEMMA CommitPromoteInv ==
    ASSUME Inv, raced' = raced \cup Overlap(req'), NEW r \in Reqs, CommitPromote(r)
    PROVE  Inv' /\ Effect(req[r])
  <1> DEFINE q == req[r]
             to == NextClass[q.payload.class]
             L == DOMAIN q.seen \ Skipped(q)
             old(f, i) == CHOOSE o \in DOMAIN f : f[o] = i
             next(o) == NewMapping(q.seen[o].student, to, SectionIn(to, q.seen[o].section))
  <1>1. q # None /\ q.op = "promote" /\ Finish(r) /\ UNCHANGED <<enrolled, roll, loose, patched, stray>>
    BY DEF CommitPromote, Pending
  <1>2. PICK new \in [L -> Free] :
           /\ Injective(new)
           /\ maps' = [i \in MapIds |->
                 IF \E o \in DOMAIN new : new[o] = i THEN next(old(new, i))
                 ELSE IF i \in L THEN Closed(maps[i], q.seen[i]) ELSE maps[i]]
    BY DEF CommitPromote, Leaving
  <1>3. /\ Shape(q) /\ to \in Classes /\ DOMAIN q.seen \subseteq MapIds
        /\ maps \in [MapIds -> Mapping \cup {None}]
        /\ \A j \in MapIds : maps[j] # None => maps[j] \in Mapping
        /\ \A o \in DOMAIN q.seen :
              /\ q.seen[o] \in Mapping /\ q.seen[o].is_active = 1
              /\ maps[o] # None /\ maps[o].student = q.seen[o].student
              /\ maps[o].student \notin raced => maps[o] = q.seen[o]
    BY <1>1, RequestFacts DEF Shape
  <1>t. /\ roll \in [StudentIds -> Rolls \cup {None}] /\ enrolled \subseteq StudentIds
        /\ loose \subseteq Rolls /\ patched \cup stray \subseteq StudentIds /\ raced \subseteq raced'
    BY DEF Inv, TypeOK
  <1>f. \A o \in L : new[o] \in MapIds /\ maps[new[o]] = None
    BY <1>2 DEF Free
  <1>u. \A o, p \in L : new[o] = new[p] => o = p
    BY <1>2 DEF Injective
  \* Whoever leaves is current, and has a next stay.
  <1>4. \A o \in L : /\ o \in MapIds /\ maps[o] # None
                     /\ next(o) \in Mapping /\ next(o) # None
                     /\ next(o).student = maps[o].student
                     /\ next(o).is_active = 1 /\ next(o).status = "active"
    <2> SUFFICES ASSUME NEW o \in L
                 PROVE  /\ o \in MapIds /\ maps[o] # None
                        /\ next(o) \in Mapping /\ next(o) # None
                        /\ next(o).student = maps[o].student
                        /\ next(o).is_active = 1 /\ next(o).status = "active"
      OBVIOUS
    <2>1. \E x \in Sections : x[1] = to
      BY DEF Skipped
    <2>2. /\ q.seen[o].student \in StudentIds /\ q.seen[o].section \in Sections
          /\ q.seen[o].student = maps[o].student /\ o \in MapIds /\ maps[o] # None
      BY <1>3 DEF Mapping
    <2>3. SectionIn(to, q.seen[o].section) \in Sections
      BY <1>3, <2>1, <2>2, SectionFacts
    <2> QED
      BY <1>3, <2>2, <2>3, NewFacts, NoneAssumption
  <1>5. \A o \in L : /\ Closed(maps[o], q.seen[o]) \in Mapping
                     /\ Closed(maps[o], q.seen[o]) # None
                     /\ Closed(maps[o], q.seen[o]).student = maps[o].student
                     /\ Closed(maps[o], q.seen[o]).is_active = 0
    BY <1>3, ClosedFacts, NoneAssumption
  <1>6. /\ \A o \in L : maps'[new[o]] = next(o)
        /\ \A i \in L : maps'[i] = Closed(maps[i], q.seen[i])
        /\ \A i \in MapIds : maps'[i] = maps[i] \/ i \in L \/ \E o \in L : new[o] = i
    <2>1. ASSUME NEW o \in L
          PROVE  maps'[new[o]] = next(o)
      <3>1. old(new, new[o]) \in L /\ new[old(new, new[o])] = new[o]
        BY <1>2
      <3>2. old(new, new[o]) = o
        BY <1>u, <3>1
      <3> QED
        BY <1>2, <1>f, <3>2
    <2>2. \A i \in L : maps'[i] = Closed(maps[i], q.seen[i])
      BY <1>2, <1>4, <1>f
    <2>3. \A i \in MapIds : maps'[i] = maps[i] \/ i \in L \/ \E o \in L : new[o] = i
      BY <1>2
    <2> QED
      BY <2>1, <2>2, <2>3
  <1>7. maps' \in [MapIds -> Mapping \cup {None}]
    <2>1. \A i \in MapIds : maps'[i] \in Mapping \cup {None}
      BY <1>3, <1>4, <1>5, <1>6
    <2> QED
      BY <1>2, <2>1
  <1>s. L \subseteq DOMAIN q.seen
    OBVIOUS
  <1> DEFINE closed(o) == Closed(maps[o], q.seen[o])
  <1> HIDE DEF q, to, L, old, next, closed
  <1>8. \A i \in MapIds : maps[i] # None =>
           /\ maps'[i] # None /\ maps'[i].student = maps[i].student
           /\ maps[i].is_active = 0 => maps'[i].is_active = 0
           /\ i \notin L => maps'[i] = maps[i]
           /\ i \in L => maps'[i].is_active = 0
    BY <1>5, <1>6, <1>f
  <1>9. \A i \in MapIds : maps[i] = None /\ maps'[i] # None =>
           \E o \in L : new[o] = i /\ maps'[i] = next(o)
    BY <1>4, <1>6
  <1>10. Effect(q)
    <2>1. \A i \in MapIds : maps[i] # None => maps[i].student \in enrolled
      BY DEF Inv, Known
    <2>2. \A i \in MapIds : maps[i] = None /\ maps'[i] # None =>
             /\ maps'[i].is_active = 1 /\ maps'[i].status = "active" /\ maps'[i].student \in enrolled
      BY <1>4, <1>9, <2>1
    <2> QED
      BY <1>1, <1>7, <1>8, <1>s, <1>t, <2>2 DEF Effect
  <1>11. RollEffect(q)
    BY <1>1, <1>t, SameRolls
  <1>12. StaysEnrolled'
    <2>1. SUFFICES ASSUME NEW s \in enrolled \ (patched \cup stray)
                   PROVE  Current(s)' # {}
      BY <1>1 DEF StaysEnrolled
    <2>2. PICK i \in Current(s) : TRUE
      BY <2>1 DEF StaysEnrolled, Inv
    <2>3. i \in MapIds /\ maps[i] # None /\ maps[i].student = s /\ maps[i].is_active = 1
      BY <2>2 DEF Current
    <2>4. CASE i \in L
      <3>1. new[i] \in Current(s)'
        BY <1>4, <1>6, <1>f, <2>3, <2>4 DEF Current
      <3> QED
        BY <3>1
    <2>5. CASE i \notin L
      <3>1. i \in Current(s)'
        BY <1>8, <2>3, <2>5 DEF Current
      <3> QED
        BY <3>1
    <2> QED
      BY <2>4, <2>5
  <1>13. ASSUME NEW s \in StudentIds \ raced
         PROVE  AtMostOne(Current(s)')
    <2>1. AtMostOne(Current(s))
      BY DEF OneStayUnlessRaced, Inv
    \* The stays of s that were read are still current.
    <2>2. \A o \in L : maps[o].student = s => o \in Current(s)
      BY <1>3, <1>s DEF Current
    <2>3. \A i \in Current(s)' : \/ i \in Current(s) /\ i \notin L
                                 \/ \E o \in L : new[o] = i /\ maps[o].student = s
      <3>1. SUFFICES ASSUME NEW i \in MapIds, maps'[i] # None, maps'[i].student = s,
                            maps'[i].is_active = 1
                     PROVE  \/ i \in Current(s) /\ i \notin L
                            \/ \E o \in L : new[o] = i /\ maps[o].student = s
        BY DEF Current
      <3>2. CASE maps[i] = None
        BY <1>4, <1>9, <3>1, <3>2
      <3>3. CASE maps[i] # None
        BY <1>8, <3>1, <3>3 DEF Current
      <3> QED
        BY <3>2, <3>3
    <2> QED
      BY <2>1, <2>2, <2>3 DEF AtMostOne
  <1>14. LookupsAgree'
    <2>1. \A i \in MapIds : maps'[i] # None /\ maps'[i].is_active = 1 =>
             maps'[i] = maps[i] \/ maps'[i].status = "active"
      BY <1>4, <1>8, <1>9
    <2> QED
      BY <1>1, <2>1, LookupsRows DEF RowsAgree, Inv
  <1> QED
    BY <1>1, <1>10, <1>11, <1>12, <1>13, <1>14, EndInv DEF q

---------------------------------------------------------------------------
(* The theorems *)

\* The invariant is inductive.
THEOREM Inductive == Spec => []Inv
  <1>1. ASSUME Inv, Next
        PROVE  Inv'
    <2> USE <1>1
    <2>1. Step /\ raced' = raced \cup Overlap(req')
      BY DEF Next
    <2>2. ASSUME NEW r \in Reqs, NEW p \in Payloads,
                 \/ BeginCreate(r, p)
                 \/ \E f \in Files : BeginBulk(r, p, f)
                 \/ \E s \in StudentIds : BeginUpdate(r, s, p) \/ BeginPatch(r, s, p)
          PROVE  Inv'
      BY <2>1, <2>2, BeginCreateInv, BeginBulkInv, BeginUpdateInv, BeginPatchInv
    <2>3. ASSUME NEW r \in Reqs,
                 \/ \E s \in StudentIds, x \in Sections : BeginTransfer(r, s, x)
                 \/ \E c \in Classes : BeginPromote(r, c)
          PROVE  Inv'
      BY <2>1, <2>3, BeginTransferInv, BeginPromoteInv
    <2>4. ASSUME NEW r \in Reqs,
                 \/ \E s \in StudentIds, i \in MapIds : CommitCreate(r, s, i)
                 \/ \E i \in MapIds : CommitTransfer(r, i)
                 \/ CommitBulk(r) \/ CommitUpdate(r) \/ CommitPatch(r) \/ CommitPromote(r)
                 \/ Abort(r)
          PROVE  Inv'
      BY <2>1, <2>4, CommitCreateInv, CommitTransferInv, CommitBulkInv, CommitUpdateInv,
         CommitPatchInv, CommitPromoteInv, AbortInv
    <2> QED
      BY <2>1, <2>2, <2>3, <2>4 DEF Step
  <1>2. ASSUME Inv, UNCHANGED vars
        PROVE  Inv'
    BY <1>2 DEF vars, Inv, TypeOK, Overlap, Concern, Shape, Kept, NotInUse, Inserting, Known,
       RollsInUse, OneStayUnlessRaced, StaysEnrolled, LookupsAgree, RollsUnique, Current, ByStatus
  <1> QED
    BY <1>1, <1>2, InitInv, PTL DEF Spec

\* Every variable of Enrolment keeps its type.
THEOREM TypeCorrect == Spec => []TypeOK
  <1>1. Inv => TypeOK
    BY DEF Inv
  <1> QED
    BY <1>1, Inductive, PTL

\* Transfers, promotions, mapping updates, creations and uploads leave a student
\* at most one current stay, unless two requests for the student overlapped.
THEOREM OneStayHolds == Spec => []OneStayUnlessRaced
  <1>1. Inv => OneStayUnlessRaced
    BY DEF Inv
  <1> QED
    BY <1>1, Inductive, PTL

\* Only a mapping update can take a student out of the school, whatever overlaps,
\* and only a row that an upload reports as skipped leaves one outside it.
THEOREM StaysEnrolledHolds == Spec => []StaysEnrolled
  <1>1. Inv => StaysEnrolled
    BY DEF Inv
  <1> QED
    BY <1>1, Inductive, PTL

\* The two look-ups of the current stay agree unless a mapping update set a flag,
\* whatever overlaps.
THEOREM LookupsAgreeHolds == Spec => []LookupsAgree
  <1>1. Inv => LookupsAgree
    BY DEF Inv
  <1> QED
    BY <1>1, Inductive, PTL

\* A roll id is shared only after two insertions raced, an update assigned it, or
\* with a student of a row that an upload reports as skipped.
THEOREM RollsUniqueHolds == Spec => []RollsUnique
  <1>1. Inv => RollsUnique
    BY DEF Inv
  <1> QED
    BY <1>1, Inductive, PTL

\* No step rewrites a stay that is over.
LEMMA HistoryStep ==
    ASSUME Inv, [Next]_vars, NEW i \in MapIds, maps[i] # None, maps[i].is_active = 0
    PROVE  /\ maps'[i].is_active = 0
           /\ maps[i].student \notin raced => maps'[i] = maps[i]
  <1>1. ASSUME UNCHANGED maps
        PROVE  /\ maps'[i].is_active = 0
               /\ maps[i].student \notin raced => maps'[i] = maps[i]
    BY <1>1
  \* Whatever a commit has read was current when it was read.
  <1>2. ASSUME NEW r \in Reqs, req[r] # None, Effect(req[r])
        PROVE  /\ maps'[i].is_active = 0
               /\ maps[i].student \notin raced => maps'[i] = maps[i]
    <2>1. maps'[i].is_active = 0 /\ (i \notin DOMAIN req[r].seen => maps'[i] = maps[i])
      BY <1>2 DEF Effect
    <2>2. i \in DOMAIN req[r].seen /\ maps[i].student \notin raced => maps[i].is_active = 1
      BY <1>2, RequestFacts
    <2> QED
      BY <2>1, <2>2
  <1>3. CASE UNCHANGED vars
    BY <1>1, <1>3 DEF vars
  <1>4. CASE Next
    <2>1. Step /\ raced' = raced \cup Overlap(req')
      BY <1>4 DEF Next
    <2>2. ASSUME NEW r \in Reqs,
                 \/ \E p \in Payloads : \/ BeginCreate(r, p)
                                        \/ \E f \in Files : BeginBulk(r, p, f)
                                        \/ \E s \in StudentIds : BeginUpdate(r, s, p) \/ BeginPatch(r, s, p)
                 \/ \E s \in StudentIds, x \in Sections : BeginTransfer(r, s, x)
                 \/ \E c \in Classes : BeginPromote(r, c)
                 \/ Abort(r)
          PROVE  UNCHANGED maps
      BY <2>2 DEF BeginCreate, BeginBulk, BeginUpdate, BeginPatch, BeginTransfer, BeginPromote,
         Begin, Abort
    <2>3. ASSUME NEW r \in Reqs,
                 \/ \E s \in StudentIds, k \in MapIds : CommitCreate(r, s, k)
                 \/ \E k \in MapIds : CommitTransfer(r, k)
                 \/ CommitBulk(r) \/ CommitUpdate(r) \/ CommitPatch(r) \/ CommitPromote(r)
          PROVE  req[r] # None /\ Effect(req[r])
      <3>1. req[r] # None
        BY <2>3 DEF CommitCreate, CommitTransfer, CommitBulk, CommitUpdate, CommitPatch,
           CommitPromote, Pending
      <3> QED
        BY <2>1, <2>3, <3>1, CommitCreateInv, CommitTransferInv, CommitBulkInv, CommitUpdateInv,
           CommitPatchInv, CommitPromoteInv
    <2> QED
      BY <1>1, <1>2, <2>1, <2>2, <2>3 DEF Step
  <1> QED
    BY <1>3, <1>4

\* A stay that is over stays over, and no request that read it while it lasted
\* rewrites it, unless the student's requests overlapped.
THEOREM HistoryKeptHolds == Spec => HistoryKept
  <1>1. Inv /\ [Next]_vars =>
           [\A i \in MapIds : maps[i] # None /\ maps[i].is_active = 0 =>
               /\ maps'[i].is_active = 0
               /\ maps[i].student \notin raced => maps'[i] = maps[i]]_vars
    BY HistoryStep
  <1> QED
    BY <1>1, Inductive, PTL DEF Spec, HistoryKept

\* A transfer closes the stay it has read, and opens one in the same class.
LEMMA TransferMoves ==
    ASSUME Inv, NEW r \in Reqs, NEW k \in MapIds, CommitTransfer(r, k),
           NEW j \in MapIds, maps[j] = None, maps'[j] # None, maps'[j].student \notin raced
    PROVE  Moves(j)
  <1> DEFINE q == req[r]
  <1>1. q # None /\ q.op = "transfer" /\ maps[k] = None
    BY DEF CommitTransfer, Pending, Free
  <1>2. PICK old \in DOMAIN q.seen :
           maps' = [maps EXCEPT ![old] = Closed(@, q.seen[old]),
                                ![k] = NewMapping(q.who, q.seen[old].class, q.payload.section)]
    BY DEF CommitTransfer
  <1>3. /\ old \in MapIds /\ maps[old] \in Mapping /\ maps[old] # None /\ old # k
        /\ q.seen[old] \in Mapping /\ q.seen[old].is_active = 1
        /\ maps[old].student = q.who
        /\ q.who \notin raced => maps[old] = q.seen[old]
        /\ maps \in [MapIds -> Mapping \cup {None}]
    BY <1>1, RequestFacts DEF Shape
  <1>4. j = k /\ maps'[k] = NewMapping(q.who, q.seen[old].class, q.payload.section)
        /\ maps'[old] = Closed(maps[old], q.seen[old])
    BY <1>2, <1>3
  <1>5. maps'[j].student = q.who /\ maps'[j].class = q.seen[old].class
    BY <1>4 DEF NewMapping
  <1>6. maps[old].class = maps'[j].class /\ maps[old].is_active = 1
    BY <1>3, <1>5
  <1>7. maps'[old].is_active = 0
    BY <1>3, <1>4, ClosedFacts
  <1> QED
    BY <1>3, <1>5, <1>6, <1>7 DEF Moves, Follows

\* A promotion closes the stays it has read, and opens theirs in the next class.
LEMMA PromoteMoves ==
    ASSUME Inv, NEW r \in Reqs, CommitPromote(r),
           NEW j \in MapIds, maps[j] = None, maps'[j] # None, maps'[j].student \notin raced
    PROVE  Moves(j)
  <1> DEFINE q == req[r]
             to == NextClass[q.payload.class]
             L == DOMAIN q.seen \ Skipped(q)
             old(f, i) == CHOOSE o \in DOMAIN f : f[o] = i
             next(o) == NewMapping(q.seen[o].student, to, SectionIn(to, q.seen[o].section))
  <1>1. q # None /\ q.op = "promote"
    BY DEF CommitPromote, Pending
  <1>2. PICK new \in [L -> Free] :
           maps' = [i \in MapIds |->
                 IF \E o \in DOMAIN new : new[o] = i THEN next(old(new, i))
                 ELSE IF i \in L THEN Closed(maps[i], q.seen[i]) ELSE maps[i]]
    BY DEF CommitPromote, Leaving
  <1>3. /\ Shape(q) /\ to \in Classes /\ DOMAIN q.seen \subseteq MapIds
        /\ \A o \in DOMAIN q.seen :
              /\ q.seen[o] \in Mapping /\ q.seen[o].is_active = 1
              /\ maps[o] # None /\ maps[o].student = q.seen[o].student /\ maps[o] \in Mapping
              /\ maps[o].student \notin raced => maps[o] = q.seen[o]
    BY <1>1, RequestFacts DEF Shape
  <1>f. \A o \in L : new[o] \in MapIds /\ maps[new[o]] = None
    BY <1>2 DEF Free
  <1>4. j \notin L
    BY <1>3
  <1>5. PICK o \in L : new[o] = j /\ maps'[j] = next(o)
    <2>1. \E o \in L : new[o] = j
      BY <1>2, <1>4
    <2>2. old(new, j) \in L /\ new[old(new, j)] = j
      BY <1>2, <2>1
    <2> QED
      BY <1>2, <2>1, <2>2
  <1>6. maps'[o] = Closed(maps[o], q.seen[o])
    BY <1>2, <1>3, <1>f
  <1>7. /\ maps'[j].student = q.seen[o].student /\ maps'[j].class = to
        /\ maps'[j].section = SectionIn(to, q.seen[o].section)
    BY <1>5 DEF NewMapping
  <1>8. maps[o] = q.seen[o] /\ q.seen[o].section \in Sections
    BY <1>3, <1>7 DEF Mapping
  <1>9. q.seen[o].class = q.payload.class
    BY <1>1, <1>3 DEF Shape
  <1>10. \E y \in Sections : y[1] = to
    BY DEF Skipped
  <1> HIDE DEF q, to, next
  <1>11. /\ maps'[j].section[1] = to
         /\ <<to, maps[o].section[2]>> \in Sections => maps'[j].section[2] = maps[o].section[2]
    BY <1>3, <1>7, <1>8, <1>10, SectionFacts
  <1>12. Follows(maps[o], maps'[j])
    <2>1. to = NextClass[maps[o].class]
      BY <1>8, <1>9 DEF to
    <2> QED
      BY <1>7, <1>11, <2>1 DEF Follows
  <1>13. maps'[o].is_active = 0
    BY <1>3, <1>6, ClosedFacts
  <1> QED
    BY <1>3, <1>7, <1>8, <1>12, <1>13 DEF Moves

\* Whoever is created, or comes with a file, was not enrolled.
LEMMA NewcomersOnly ==
    ASSUME Inv, Step, NEW j \in MapIds, maps[j] = None, maps'[j] # None,
           maps'[j].student \in enrolled
    PROVE  \E r \in Reqs : CommitPromote(r) \/ \E k \in MapIds : CommitTransfer(r, k)
  <1> SUFFICES ASSUME ~ \E r \in Reqs : CommitPromote(r) \/ \E k \in MapIds : CommitTransfer(r, k)
               PROVE  FALSE
    OBVIOUS
  <1>t. maps \in [MapIds -> Mapping \cup {None}]
    BY DEF Inv, TypeOK
  <1>1. maps' # maps
    OBVIOUS
  <1>2. ASSUME NEW r \in Reqs,
               \/ \E p \in Payloads : \/ BeginCreate(r, p)
                                      \/ \E f \in Files : BeginBulk(r, p, f)
                                      \/ \E s \in StudentIds : BeginUpdate(r, s, p) \/ BeginPatch(r, s, p)
               \/ \E s \in StudentIds, x \in Sections : BeginTransfer(r, s, x)
               \/ \E c \in Classes : BeginPromote(r, c)
               \/ Abort(r)
        PROVE  FALSE
    BY <1>1, <1>2 DEF BeginCreate, BeginBulk, BeginUpdate, BeginPatch, BeginTransfer, BeginPromote,
       Begin, Abort
  <1>3. ASSUME NEW r \in Reqs, CommitUpdate(r) \/ CommitPatch(r)
        PROVE  FALSE
    <2>1. req[r] # None
      BY <1>3 DEF CommitUpdate, CommitPatch, Pending
    <2>2. j \notin DOMAIN req[r].seen
      BY <2>1, RequestFacts
    <2>3. maps'[j] = maps[j]
      BY <1>3, <2>2 DEF CommitUpdate, CommitPatch
    <2> QED
      BY <2>3
  <1>4. ASSUME NEW r \in Reqs, NEW s \in StudentIds, NEW k \in MapIds, CommitCreate(r, s, k)
        PROVE  FALSE
    <2>1. /\ s \notin enrolled
          /\ maps' = [maps EXCEPT ![k] = NewMapping(s, req[r].payload.class, req[r].payload.section)]
      BY <1>4 DEF CommitCreate
    <2>2. maps'[j] = NewMapping(s, req[r].payload.class, req[r].payload.section)
      BY <1>t, <2>1
    <2> QED
      BY <2>1, <2>2 DEF NewMapping
  <1>5. ASSUME NEW r \in Reqs, CommitBulk(r)
        PROVE  FALSE
    <2> DEFINE q == req[r]
               row(f, x) == CHOOSE n \in DOMAIN f : f[n] = x
    <2>1. PICK who \in [Inserted(q) -> StudentIds \ enrolled], id \in [Placed(q) -> Free] :
             /\ Injective(who) /\ Injective(id)
             /\ enrolled' = enrolled \cup {who[n] : n \in Inserted(q)}
             /\ roll' = [s \in StudentIds |->
                   IF \E n \in Inserted(q) : who[n] = s THEN q.file[row(who, s)].roll ELSE roll[s]]
             /\ maps' = [i \in MapIds |->
                   IF \E n \in Placed(q) : id[n] = i
                   THEN NewMapping(who[row(id, i)], q.payload.class, q.payload.section)
                   ELSE maps[i]]
             /\ stray' = stray \cup {who[n] : n \in Inserted(q) \ Placed(q)}
      BY <1>5 DEF CommitBulk
    <2>2. \E n \in Placed(q) : id[n] = j
      BY <2>1
    <2>3. row(id, j) \in Inserted(q)
      BY <2>1, <2>2 DEF Placed
    <2>4. who[row(id, j)] \notin enrolled
      BY <2>1, <2>3
    <2>5. maps'[j].student = who[row(id, j)]
      BY <2>1, <2>2 DEF NewMapping
    <2> QED
      BY <2>4, <2>5
  <1> QED
    BY <1>2, <1>3, <1>4, <1>5 DEF Step

\* An enrolled student gets a new stay only as the current one ends, in the same
\* commit, and from the class the student is in by then, unless the student's
\* requests overlapped.
THEOREM MovesFromStayHolds == Spec => MovesFromStay
  <1>1. Inv /\ [Next]_vars =>
           [\A j \in MapIds :
              maps[j] = None /\ maps'[j] # None /\ maps'[j].student \in enrolled \ raced
                 => Moves(j)]_vars
    <2> SUFFICES ASSUME Inv, Next, NEW j \in MapIds, maps[j] = None, maps'[j] # None,
                        maps'[j].student \in enrolled \ raced
                 PROVE  Moves(j)
      OBVIOUS
    <2> QED
      BY NewcomersOnly, TransferMoves, PromoteMoves DEF Next
  <1> QED
    BY <1>1, Inductive, PTL DEF Spec, MovesFromStay

=============================================================================
