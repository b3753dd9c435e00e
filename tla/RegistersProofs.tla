--------------------------- MODULE RegistersProofs ---------------------------
(***************************************************************************)
(* Theorems about Registers, for every table, any number of rows and of    *)
(* requests in flight.                                                     *)
(***************************************************************************)
EXTENDS Registers, RegisterTables, TLAPS

-----------------------------------------------------------------------------
(* What the tables must give: a handler that brings a row to a place, and  *)
(* is not known to do without, has looked for every row that may not stand *)
(* next to one there.                                                      *)
Guarded ==
  \A t \in Tables : \A h \in t.handlers :
    h.does \in Lookers \cup {"replace"} /\ << t, h >> \notin Unchecked =>
      /\ Waits(h)
      /\ \A p \in DOMAIN h.looks : t.keeps[p] \subseteq h.looks[p]

-----------------------------------------------------------------------------
(* The inductive invariant.                                                *)

(* What a request found is still so, unless it is late. *)
Upheld(q, table) ==
  /\ Waits(q.h)
  /\ q.at \in DOMAIN q.h.looks
  /\ ~q.late => \A i \in Ids \ {q.own} : table[i] \notin q.h.looks[q.at]
  /\ q.h.does # "move" => q.own = None

Excused == Clash(rows) => excuse # {} /\ ~register.unique

Inv ==
  /\ TypeOK
  /\ \A r \in Reqs : reqs[r] # None => Upheld(reqs[r], rows)
  /\ Guarded => Excused

-----------------------------------------------------------------------------
(* The register followed is one of the tables, and as they are. *)
LEMMA RegisterType ==
  ASSUME TypeOK
  PROVE  TableType(register) /\ None \notin register.places
  BY TablesType DEF TypeOK

(* A row that comes to a place at which no other row is ruled out does not *)
(* clash with any.                                                         *)
LEMMA NoNewClash ==
  ASSUME TypeOK, NEW i \in Ids, NEW p \in register.places,
         ~Clash(rows),
         \A j \in Ids \ {i} : rows[j] \notin register.keeps[p]
  PROVE  ~Clash([rows EXCEPT ![i] = p])
  <1> DEFINE table == [rows EXCEPT ![i] = p]
  <1>1. \A a, b \in register.places :
           a \in register.keeps[b] => b \in register.keeps[a]
    BY RegisterType DEF TableType
  <1>2. \A j \in Ids : table[j] = IF j = i THEN p ELSE rows[j]
    BY DEF TypeOK
  <1> HIDE DEF table
  <1> SUFFICES ASSUME NEW a \in Ids, NEW b \in Ids, a # b,
                      table[a] # None, table[b] # None,
                      table[a] \in register.keeps[table[b]]
               PROVE  FALSE
    BY DEF Clash, table
  <1>3. CASE a = i
    <2>1. table[a] = p /\ table[b] = rows[b] /\ b \in Ids \ {i}
      BY <1>2, <1>3
    <2>2. rows[b] \in register.places
      BY <2>1 DEF TypeOK
    <2>3. rows[b] \in register.keeps[p]
      BY <1>1, <2>1, <2>2
    <2> QED BY <2>1, <2>3
  <1>4. CASE b = i
    <2>1. table[b] = p /\ table[a] = rows[a] /\ a \in Ids \ {i}
      BY <1>2, <1>4
    <2> QED BY <2>1
  <1>5. CASE a # i /\ b # i
    <2>1. table[a] = rows[a] /\ table[b] = rows[b]
      BY <1>2, <1>5
    <2> QED BY <2>1 DEF Clash
  <1> QED BY <1>3, <1>4, <1>5

(* Taking a row away makes no two clash. *)
LEMMA NoClashByDelete ==
  ASSUME TypeOK, NEW i \in Ids, Clash([rows EXCEPT ![i] = None])
  PROVE  Clash(rows)
  <1> DEFINE table == [rows EXCEPT ![i] = None]
  <1>1. \A j \in Ids : table[j] = IF j = i THEN None ELSE rows[j]
    BY DEF TypeOK
  <1>2. PICK a \in Ids, b \in Ids : /\ a # b /\ table[a] # None /\ table[b] # None
                                    /\ table[a] \in register.keeps[table[b]]
    BY DEF Clash
  <1> HIDE DEF table
  <1>3. table[a] = rows[a] /\ table[b] = rows[b]
    BY <1>1, <1>2
  <1> QED BY <1>2, <1>3 DEF Clash

(* A request that has become late is otherwise what it was. *)
LEMMA LateType ==
  ASSUME NEW q \in Pending
  PROVE  /\ [q EXCEPT !.late = TRUE] \in Pending
         /\ [q EXCEPT !.late = TRUE].late = TRUE
         /\ [q EXCEPT !.late = TRUE].h = q.h
         /\ [q EXCEPT !.late = TRUE].at = q.at
         /\ [q EXCEPT !.late = TRUE].own = q.own
  <1>1. [q EXCEPT !.late = TRUE] \in Pending
    BY DEF Pending
  <1>2. [q EXCEPT !.late = TRUE].late = TRUE
    BY DEF Pending
  <1>3. /\ [q EXCEPT !.late = TRUE].h = q.h
        /\ [q EXCEPT !.late = TRUE].at = q.at
        /\ [q EXCEPT !.late = TRUE].own = q.own
    BY DEF Pending
  <1> QED BY <1>1, <1>2, <1>3

(* What a write must bring along to keep the invariant. *)
LEMMA WriteKeeps ==
  ASSUME Inv, NEW table \in [Ids -> register.places \cup {None}],
         NEW others, NEW why, Write(table, others, why),
         \A r \in Reqs : others[r] = None \/ others[r] = reqs[r],
         why \subseteq Excuses,
         Guarded /\ Clash(table) => Clash(rows) \/ why # {}
  PROVE  Inv'
  <1>1. /\ rows' = table
        /\ register' = register
        /\ excuse' = IF Clash(table) THEN excuse \cup why ELSE {}
        /\ reqs' = [q \in Reqs |-> IF others[q] = None THEN None
                                     ELSE [others[q] EXCEPT !.late = TRUE]]
    BY DEF Write
  <1>2. ~(register.unique /\ Clash(table))
    BY DEF Write, Refused
  <1>3. \A r \in Reqs : reqs'[r] # None =>
           reqs[r] # None /\ reqs'[r] = [reqs[r] EXCEPT !.late = TRUE]
    BY <1>1
  <1>4. ASSUME NEW r \in Reqs, reqs'[r] # None
        PROVE  /\ reqs'[r] \in Pending
               /\ reqs'[r].h = reqs[r].h /\ reqs'[r].at = reqs[r].at
               /\ reqs'[r].own = reqs[r].own /\ reqs'[r].late = TRUE
               /\ Upheld(reqs[r], rows)
               /\ reqs[r].h.does \in Lookers
    <2>1. reqs[r] # None /\ reqs'[r] = [reqs[r] EXCEPT !.late = TRUE]
      BY <1>3, <1>4
    <2>2. /\ reqs[r] \in Pending
          /\ reqs[r].h.does \in Lookers
          /\ Upheld(reqs[r], rows)
      BY <2>1 DEF Inv, TypeOK
    <2> QED BY <2>1, <2>2, LateType
  <1>5. Pending' = Pending
    BY <1>1 DEF Pending
  <1>6. TypeOK'
    BY <1>1, <1>4, <1>5 DEF TypeOK, Inv
  <1>7. (\A r \in Reqs : reqs[r] # None => Upheld(reqs[r], rows))'
    BY <1>4 DEF Upheld
  <1>8. Guarded' = Guarded
    BY DEF Guarded
  <1>9. Clash(rows)' = Clash(table)
    BY <1>1 DEF Clash
  <1>10. Guarded => Excused'
    BY <1>1, <1>2, <1>9 DEF Excused, Inv
  <1> QED BY <1>6, <1>7, <1>8, <1>10 DEF Inv

-----------------------------------------------------------------------------
LEMMA InitInv == Init => Inv
  <1> SUFFICES ASSUME Init PROVE Inv
    OBVIOUS
  <1>1. TypeOK
    BY DEF Init, TypeOK
  <1>2. ~Clash(rows)
    BY DEF Init, Clash
  <1>3. \A r \in Reqs : reqs[r] = None
    BY DEF Init
  <1> QED BY <1>1, <1>2, <1>3 DEF Inv, Excused

(* A look-up finds the rows as they are. *)
LEMMA LookKeeps ==
  ASSUME Inv, NEW r \in Reqs, Look(r)
  PROVE  Inv'
  <1>1. PICK h \in register.handlers, own \in Ids \cup {None} : \E p \in DOMAIN h.looks :
           /\ Waits(h)
           /\ IF h.does = "move" THEN own # None /\ rows[own] # None ELSE own = None
           /\ Found(h, p, own) = {}
           /\ reqs' = [reqs EXCEPT ![r] = [h |-> h, at |-> p, own |-> own, late |-> FALSE]]
    BY DEF Look
  <1>2. PICK p \in DOMAIN h.looks :
           /\ Waits(h)
           /\ IF h.does = "move" THEN own # None /\ rows[own] # None ELSE own = None
           /\ Found(h, p, own) = {}
           /\ reqs' = [reqs EXCEPT ![r] = [h |-> h, at |-> p, own |-> own, late |-> FALSE]]
    BY <1>1
  <1> DEFINE q == [h |-> h, at |-> p, own |-> own, late |-> FALSE]
  <1>3. UNCHANGED << register, rows, excuse >>
    BY DEF Look
  <1>4. p \in register.places
    BY RegisterType DEF Inv, TableType
  <1>5. q \in Pending /\ q.h.does \in Lookers
    BY <1>2, <1>4 DEF Pending, Waits
  <1>6. Upheld(q, rows)
    BY <1>2 DEF Upheld, Found
  <1> HIDE DEF q
  <1>7. \A s \in Reqs : reqs'[s] = q \/ reqs'[s] = reqs[s]
    BY <1>2 DEF q, Inv, TypeOK
  <1>8. Pending' = Pending
    BY <1>3 DEF Pending
  <1>9. TypeOK'
    BY <1>3, <1>5, <1>7, <1>8 DEF TypeOK, Inv
  <1>10. (\A s \in Reqs : reqs[s] # None => Upheld(reqs[s], rows))'
    BY <1>3, <1>6, <1>7 DEF Inv, Upheld
  <1>11. (Guarded => Excused)'
    BY <1>3 DEF Inv, Guarded, Excused, Clash
  <1> QED BY <1>9, <1>10, <1>11 DEF Inv

(* A commit on time writes next to no row that its register rules out. *)
LEMMA CommitKeeps ==
  ASSUME Inv, NEW r \in Reqs, Commit(r)
  PROVE  Inv'
  <1> DEFINE q == reqs[r]
  <1>1. q # None
    BY DEF Commit
  <1>2. PICK I \in SUBSET Ids :
           /\ Writable(q, I)
           /\ Write([i \in Ids |-> IF i \in I THEN q.at ELSE rows[i]],
                    [reqs EXCEPT ![r] = None],
                    Race(q) \cup Flaw(q.h) \cup Repeats(I))
    BY DEF Commit
  <1>3. /\ q.h \in register.handlers
        /\ q.h.does \in Lookers
        /\ q.at \in register.places
        /\ q.late \in BOOLEAN
        /\ Upheld(q, rows)
    BY <1>1 DEF Inv, TypeOK, Pending
  <1> HIDE DEF q
  <1> DEFINE table == [i \in Ids |-> IF i \in I THEN q.at ELSE rows[i]]
             others == [reqs EXCEPT ![r] = None]
             why == Race(q) \cup Flaw(q.h) \cup Repeats(I)
  <1>4. table \in [Ids -> register.places \cup {None}]
    BY <1>3 DEF Inv, TypeOK
  <1>5. \A s \in Reqs : others[s] = None \/ others[s] = reqs[s]
    <2>1. SUFFICES ASSUME NEW s \in Reqs PROVE others[s] = None \/ others[s] = reqs[s]
      OBVIOUS
    <2>2. s \in DOMAIN reqs => others[s] = IF s = r THEN None ELSE reqs[s]
      OBVIOUS
    <2> QED BY <2>2 DEF Inv, TypeOK
  <1>6. why \subseteq Excuses
    BY DEF Race, Flaw, Repeats, Excuses
  <1>7. ASSUME Guarded, ~Clash(rows), why = {} PROVE ~Clash(table)
    <2>1. ~q.late /\ << register, q.h >> \notin Unchecked /\ ~Several(I)
      BY <1>7 DEF Race, Flaw, Repeats
    <2>a. PICK i \in Ids : I = {i}
      BY <1>2, <2>1 DEF Writable, Several
    <2>b. q.h.does = "move" => i = q.own
      BY <1>2, <2>a DEF Writable
    <2>c. table = [rows EXCEPT ![i] = q.at]
      BY <2>a DEF Inv, TypeOK
    <2>2. register.keeps[q.at] \subseteq q.h.looks[q.at]
      BY <1>3, <1>7, <2>1 DEF Guarded, Inv, TypeOK, Upheld
    <2> HIDE DEF table
    <2>3. \A j \in Ids \ {i} : rows[j] \notin q.h.looks[q.at]
      <3>1. CASE q.h.does = "move"
        BY <1>3, <2>1, <2>b, <3>1 DEF Upheld
      <3>2. CASE q.h.does # "move"
        <4>1. q.own = None
          BY <1>3, <3>2 DEF Upheld
        <4>2. SUFFICES ASSUME NEW j \in Ids \ {i}, rows[j] \in q.h.looks[q.at]
                       PROVE  FALSE
          OBVIOUS
        <4>3. j = None
          BY <1>3, <2>1, <4>1, <4>2 DEF Upheld
        <4> QED BY <4>3, IdsType, <4>2
      <3> QED BY <3>1, <3>2
    <2>4. \A j \in Ids \ {i} : rows[j] \notin register.keeps[q.at]
      BY <2>2, <2>3
    <2> QED BY <1>3, <1>7, <2>4, <2>c, NoNewClash DEF Inv
  <1>8. Write(table, others, why)
    BY <1>2
  <1> HIDE DEF table, others, why
  <1> QED BY <1>4, <1>5, <1>6, <1>7, <1>8, WriteKeeps

(* Every step keeps the invariant. *)
LEMMA NextKeeps ==
  ASSUME Inv, [Next]_vars
  PROVE  Inv'
  <1>1. CASE UNCHANGED vars
    <2>1. /\ register' = register /\ rows' = rows
          /\ reqs' = reqs /\ excuse' = excuse
      BY <1>1 DEF vars
    <2> QED BY <2>1 DEF Inv, TypeOK, Pending, Upheld, Guarded, Excused, Clash
  <1>2. ASSUME NEW r \in Reqs, Abort(r) PROVE Inv'
    <2>1. /\ reqs' = [reqs EXCEPT ![r] = None]
          /\ UNCHANGED << register, rows, excuse >>
      BY <1>2 DEF Abort
    <2>2. \A s \in Reqs : reqs'[s] # None => reqs[s] # None /\ reqs'[s] = reqs[s]
      BY <2>1
    <2>3. TypeOK'
      BY <2>1, <2>2 DEF Inv, TypeOK, Pending
    <2>4. (\A s \in Reqs : reqs[s] # None => Upheld(reqs[s], rows))'
      BY <2>1, <2>2 DEF Inv, Upheld
    <2>5. (Guarded => Excused)'
      BY <2>1 DEF Inv, Guarded, Excused, Clash
    <2> QED BY <2>3, <2>4, <2>5 DEF Inv
  <1>3. CASE Append
    <2>1. PICK h \in register.handlers, i \in Ids : \E p \in DOMAIN h.looks :
            /\ h.asks = "nothing"
            /\ h.does \in {"insert", "move"}
            /\ h.does = "insert" <=> rows[i] = None
            /\ Write([rows EXCEPT ![i] = p], reqs, Flaw(h))
      BY <1>3 DEF Append
    <2>2. PICK p \in DOMAIN h.looks :
            /\ h.asks = "nothing"
            /\ h.does \in {"insert", "move"}
            /\ Write([rows EXCEPT ![i] = p], reqs, Flaw(h))
      BY <2>1
    <2>3. p \in register.places
      BY RegisterType DEF Inv, TableType
    <2>4. [rows EXCEPT ![i] = p] \in [Ids -> register.places \cup {None}]
      BY <2>3 DEF Inv, TypeOK
    <2>5. Guarded => Flaw(h) # {}
      BY <2>2 DEF Guarded, Waits, Lookers, Flaw, Inv, TypeOK
    <2>6. Flaw(h) \subseteq Excuses
      BY DEF Flaw, Excuses
    <2> QED BY <2>2, <2>4, <2>5, <2>6, WriteKeeps
  <1>4. CASE Replace
    <2>1. PICK h \in register.handlers, I \in SUBSET Ids : \E p \in DOMAIN h.looks :
            LET gone == [i \in Ids |-> IF rows[i] \in h.looks[p] THEN None ELSE rows[i]]
            IN  /\ h.does = "replace"
                /\ Cardinality(I) <= 2
                /\ \A i \in I : gone[i] = None
                /\ Write([i \in Ids |-> IF i \in I THEN p ELSE gone[i]], reqs,
                         Flaw(h) \cup Repeats(I))
      BY <1>4 DEF Replace
    <2>2. PICK p \in DOMAIN h.looks :
            LET gone == [i \in Ids |-> IF rows[i] \in h.looks[p] THEN None ELSE rows[i]]
            IN  /\ h.does = "replace"
                /\ Write([i \in Ids |-> IF i \in I THEN p ELSE gone[i]], reqs,
                         Flaw(h) \cup Repeats(I))
      BY <2>1
    <2> DEFINE gone == [i \in Ids |-> IF rows[i] \in h.looks[p] THEN None ELSE rows[i]]
               table == [i \in Ids |-> IF i \in I THEN p ELSE gone[i]]
    <2>3. p \in register.places
      BY RegisterType DEF Inv, TableType
    <2>4. table \in [Ids -> register.places \cup {None}]
      BY <2>3 DEF Inv, TypeOK
    <2>5. h.does = "replace" /\ Write(table, reqs, Flaw(h) \cup Repeats(I))
      BY <2>2
    <2>6. Guarded => Flaw(h) \cup Repeats(I) # {}
      BY <2>5 DEF Guarded, Waits, Lookers, Flaw, Inv, TypeOK
    <2>7. Flaw(h) \cup Repeats(I) \subseteq Excuses
      BY DEF Flaw, Repeats, Excuses
    <2> HIDE DEF table
    <2> QED BY <2>4, <2>5, <2>6, <2>7, WriteKeeps
  <1>5. CASE Delete
    <2>1. PICK i \in Ids : Write([rows EXCEPT ![i] = None], reqs, {})
      BY <1>5 DEF Delete
    <2> DEFINE table == [rows EXCEPT ![i] = None]
    <2>2. table \in [Ids -> register.places \cup {None}]
      BY DEF Inv, TypeOK
    <2>3. Clash(table) => Clash(rows)
      BY NoClashByDelete DEF Inv
    <2>4. Write(table, reqs, {})
      BY <2>1
    <2> HIDE DEF table
    <2>5. \A r \in Reqs : reqs[r] = None \/ reqs[r] = reqs[r]
      OBVIOUS
    <2>6. {} \subseteq Excuses
      OBVIOUS
    <2>7. Guarded /\ Clash(table) => Clash(rows) \/ {} # {}
      BY <2>3
    <2> QED BY <2>2, <2>4, <2>5, <2>6, <2>7, WriteKeeps
  <1> QED BY <1>1, <1>2, <1>3, <1>4, <1>5, LookKeeps, CommitKeeps DEF Next

-----------------------------------------------------------------------------
LEMMA Invariance == Spec => []Inv
  <1>1. Inv /\ [Next]_vars => Inv'
    BY NextKeeps
  <1> QED BY InitInv, <1>1, PTL DEF Spec

(* Rows, requests and excuses are what they are said to be; a request that *)
(* waits to write has looked first.                                        *)
THEOREM RegistersTyped == Spec => []TypeOK
  <1>1. Inv => TypeOK
    BY DEF Inv
  <1> QED BY <1>1, Invariance, PTL

(* Where every handler that is not listed looks for all the rows that its  *)
(* register rules out, two rows clash only after a race or an unchecked    *)
(* write, and under a UNIQUE index never.                                  *)
THEOREM OneRow == ASSUME Guarded PROVE Spec => []OneRowUnlessExcused
  <1>1. Inv => OneRowUnlessExcused
    BY DEF Inv, Excused, OneRowUnlessExcused
  <1> QED BY <1>1, Invariance, PTL

-----------------------------------------------------------------------------
(* The registers of the API.                                               *)

(* Every handler that looks and then brings a row has looked for all that  *)
(* its register rules out.                                                 *)
Looks(t) ==
  \A h \in t.handlers :
    h.does \in Lookers \cup {"replace"} /\ h.asks # "nothing" =>
      /\ h.does # "replace"
      /\ \A p \in DOMAIN h.looks : t.keeps[p] \subseteq h.looks[p]

(* A handler that expects one row looks only at places of which no two may *)
(* be taken.                                                               *)
Narrow(t, h) ==
  h.asks = "one" =>
    \A p \in DOMAIN h.looks : \A a, b \in h.looks[p] : a \in t.keeps[b]

Sound(t) ==
  /\ Looks(t)
  /\ \A h \in t.handlers : << t, h >> \in AllWide \/ Narrow(t, h)

(* Most handlers are about one key: they do not look, or look there. *)
AtSlot(h) == h.asks = "nothing" \/ (h.does # "replace" /\ h.looks = AtKey)

LEMMA SlotTable ==
  ASSUME NEW t, t.keeps = AtKey, \A h \in t.handlers : AtSlot(h)
  PROVE  Sound(t)
  <1>1. Looks(t)
    BY DEF Looks, AtSlot, AtKey
  <1>2. ASSUME NEW h \in t.handlers, h.asks = "one",
               NEW p \in DOMAIN h.looks, NEW a \in h.looks[p], NEW b \in h.looks[p]
        PROVE  a \in t.keeps[b]
    <2>1. h.looks = AtKey
      BY <1>2 DEF AtSlot
    <2>2. a = "key" /\ b = "key"
      BY <1>2, <2>1 DEF AtKey
    <2> QED
      BY <2>2 DEF AtKey, Slot
  <1>3. \A h \in t.handlers : Narrow(t, h)
    BY <1>2 DEF Narrow
  <1> QED
    BY <1>1, <1>3 DEF Sound

LEMMA PanelUnlooked ==
  ASSUME NEW places, NEW h \in Panel(places)
  PROVE  h.asks = "nothing"
  BY DEF Panel, Handler

LEMMA SchoolSound == \A t \in SchoolTables : Sound(t)
  <1> SUFFICES ASSUME NEW t \in SchoolTables PROVE t.keeps = AtKey /\ \A h \in t.handlers : AtSlot(h)
    BY SlotTable
  <1>1. t.keeps = AtKey
    BY DEF SchoolTables, SlotRegister, Register
  <1>2. \A h \in t.handlers : AtSlot(h)
    BY PanelUnlooked DEF SchoolTables, SlotRegister, Register, AtSlot, Handler, OneAtKey,
       AnyAtKey, Unlooked, create_school_group, update_school_group, create_class, update_class, create_section,
       update_section, create_subject, update_subject
  <1> QED
    BY <1>1, <1>2

LEMMA PeopleSound == \A t \in PeopleTables : Sound(t)
  <1> SUFFICES ASSUME NEW t \in PeopleTables PROVE t.keeps = AtKey /\ \A h \in t.handlers : AtSlot(h)
    BY SlotTable
  <1>1. t.keeps = AtKey
    BY DEF PeopleTables, SlotRegister, Register
  <1>2. \A h \in t.handlers : AtSlot(h)
    BY PanelUnlooked DEF PeopleTables, SlotRegister, Register, AtSlot, Handler, OneAtKey,
       AnyAtKey, Unlooked, create_role, update_role, create_employee, bulk_upload_employees,
       create_inquiry, update_inquiry, delete_inquiry
  <1> QED
    BY <1>1, <1>2

LEMMA NoticeSound == \A t \in NoticeTables : Sound(t)
  <1> SUFFICES ASSUME NEW t \in NoticeTables PROVE t.keeps = AtKey /\ \A h \in t.handlers : AtSlot(h)
    BY SlotTable
  <1>1. t.keeps = AtKey
    BY DEF NoticeTables, SlotRegister, Register
  <1>2. \A h \in t.handlers : AtSlot(h)
    BY PanelUnlooked DEF NoticeTables, SlotRegister, Register, AtSlot, Handler, OneAtKey,
       AnyAtKey, Unlooked, create_holiday, update_holiday, delete_holiday, create_notification,
       update_notification, delete_notification, create_diary, update_diary, delete_diary,
       create_diary_entry
  <1> QED
    BY <1>1, <1>2

LEMMA TransportSound == \A t \in TransportTables : Sound(t)
  <1> SUFFICES ASSUME NEW t \in TransportTables PROVE t.keeps = AtKey /\ \A h \in t.handlers : AtSlot(h)
    BY SlotTable
  <1>1. t.keeps = AtKey
    BY DEF TransportTables, SlotRegister, Register
  <1>2. \A h \in t.handlers : AtSlot(h)
    BY PanelUnlooked DEF TransportTables, SlotRegister, Register, AtSlot, Handler, OneAtKey,
       AnyAtKey, Unlooked, create_vehicle_route_map, update_vehicle_route_map,
       delete_vehicle_route_map, create_transportation_student, update_transportation_student,
       delete_transportation_student
  <1> QED
    BY <1>1, <1>2

LEMMA UpsertSound == \A t \in UpsertTables : Sound(t)
  <1> SUFFICES ASSUME NEW t \in UpsertTables PROVE t.keeps = AtKey /\ \A h \in t.handlers : AtSlot(h)
    BY SlotTable
  <1>1. t.keeps = AtKey
    BY DEF UpsertTables, SlotRegister, Register
  <1>2. \A h \in t.handlers : AtSlot(h)
    BY PanelUnlooked DEF UpsertTables, SlotRegister, Register, AtSlot, Handler, OneAtKey,
       AnyAtKey, Unlooked, register_device, student_submit_assignment
  <1> QED
    BY <1>1, <1>2

LEMMA ExamSound == \A t \in ExamTables : Sound(t)
  <1> DEFINE marks == Register("marks", TwoClasses, SamePlace(TwoClasses), FALSE,
                               {create_marks, teacher_submit_exam_results} \cup Panel(TwoClasses))
  <1>1. ASSUME NEW t \in ExamTables, t # marks
        PROVE  t.keeps = AtKey /\ \A h \in t.handlers : AtSlot(h)
    <2>1. t.keeps = AtKey
      BY <1>1 DEF ExamTables, SlotRegister, Register
    <2>2. \A h \in t.handlers : AtSlot(h)
      BY <1>1, PanelUnlooked DEF ExamTables, SlotRegister, Register, AtSlot, Handler, OneAtKey,
         AnyAtKey, Unlooked, create_grade, create_grades_bulk, create_grade_unrounded,
         delete_grade, create_exam, update_exam, delete_exam, create_exam_timetable, update_exam_timetable,
         delete_exam_timetable, create_online_exam, update_online_exam, delete_online_exam
    <2> QED
      BY <2>1, <2>2
  <1>2. Looks(marks)
    BY PanelUnlooked DEF Looks, Register, Handler, SamePlace, Anywhere, TwoClasses, create_marks,
       teacher_submit_exam_results
  <1>3. \A h \in marks.handlers : Narrow(marks, h)
    BY PanelUnlooked DEF Narrow, Register, Handler, SamePlace, Anywhere, TwoClasses, create_marks,
       teacher_submit_exam_results
  <1> QED
    BY <1>1, <1>2, <1>3, SlotTable DEF Sound

LEMMA AttendanceSound == \A t \in AttendanceTables : Sound(t)
  <1> DEFINE employees == SlotRegister("emp_attendance",
                            {create_bulk_employee_attendance, delete_employee_attendance}
                            \cup Panel(Slot))
  <1>1. employees.keeps = AtKey /\ \A h \in employees.handlers : AtSlot(h)
    BY PanelUnlooked DEF SlotRegister, Register, AtSlot, Handler, AnyAtKey, Unlooked,
       create_bulk_employee_attendance, delete_employee_attendance
  <1>2. Looks(student_attendance)
    <2>1. \A h \in student_attendance.handlers :
             \/ h.asks = "nothing" \/ h.does = "touch"
             \/ h = create_bulk_student_attendance
      BY PanelUnlooked DEF student_attendance, Register, Handler, teacher_mark_attendance,
         update_student_attendance, update_student_attendance_any_day,
         delete_student_attendance
    <2>2. /\ create_bulk_student_attendance.does = "insert"
          /\ create_bulk_student_attendance.looks = OneADay
          /\ student_attendance.keeps = OneADay
      BY DEF create_bulk_student_attendance, student_attendance, Register, Handler
    <2>3. "touch" \notin Lookers \cup {"replace"}
      BY DEF Lookers
    <2> QED
      BY <2>1, <2>2, <2>3 DEF Looks
  <1>3. Narrow(student_attendance, update_student_attendance)
    BY DEF Narrow, student_attendance, Register, Handler, OneADay, update_student_attendance,
       Attended, ThatDay
  <1>4. \A h \in student_attendance.handlers :
           \/ h.asks # "one"
           \/ h \in {update_student_attendance, update_student_attendance_any_day}
    BY PanelUnlooked DEF student_attendance, Register, Handler, create_bulk_student_attendance,
       teacher_mark_attendance, delete_student_attendance
  <1>5. Sound(student_attendance)
    BY <1>2, <1>3, <1>4 DEF Sound, Narrow, AllWide
  <1> QED
    BY <1>1, <1>5, SlotTable DEF AttendanceTables

LEMMA TeacherSound == \A t \in TeacherTables : Sound(t)
  <1> DEFINE class == SlotRegister("class_teacher",
                        {create_class_teacher, update_mapping, delete_mapping})
             subject == Register("subject_teacher", Teachers, Anywhere(Teachers), FALSE,
                          {create_subject_teacher, create_class_teacher_of_subject,
                           update_subject_mapping, delete_subject_mapping})
  <1>1. class.keeps = AtKey /\ \A h \in class.handlers : AtSlot(h)
    BY DEF SlotRegister, Register, AtSlot, Handler, OneAtKey, Unlooked, create_class_teacher,
       update_mapping, delete_mapping
  <1>2. Looks(subject)
    BY DEF Looks, Register, Handler, Anywhere, Nowhere, Teachers, create_subject_teacher,
       create_class_teacher_of_subject, update_subject_mapping, delete_subject_mapping
  <1>3. \A h \in subject.handlers : Narrow(subject, h)
    BY DEF Narrow, Register, Handler, Anywhere, Nowhere, Teachers, create_subject_teacher,
       create_class_teacher_of_subject, update_subject_mapping, delete_subject_mapping
  <1> QED
    BY <1>1, <1>2, <1>3, SlotTable DEF TeacherTables, Sound

LEMMA WideSound == Sound(leaves) /\ Sound(announcements)
  <1>1. Looks(leaves)
    BY PanelUnlooked DEF Looks, leaves, Register, Handler, Overlap, Nowhere, Days,
       create_leave_request, update_leave_request, delete_leave_request, teacher_apply_leave
  <1>2. Looks(announcements)
    BY PanelUnlooked DEF Looks, announcements, Register, Handler, SamePlace, Named, Nowhere,
       Audience, create_announcement, update_announcement, delete_announcement,
       teacher_create_announcement
  <1>3. \A h \in leaves.handlers : h.asks = "one" => h = create_leave_request
    BY PanelUnlooked DEF leaves, Register, Handler, update_leave_request, delete_leave_request,
       teacher_apply_leave
  <1>4. \A h \in announcements.handlers : h.asks = "one" => h = create_announcement
    BY PanelUnlooked DEF announcements, Register, Handler, update_announcement,
       delete_announcement, teacher_create_announcement
  <1> QED
    BY <1>1, <1>2, <1>3, <1>4 DEF Sound, Narrow, AllWide

LEMMA AllSound == \A t \in AllTables : Sound(t)
  BY SchoolSound, PeopleSound, NoticeSound, ExamSound, TransportSound, AttendanceSound,
     TeacherSound, UpsertSound, WideSound DEF AllTables

(* The handlers of the API are as the theorem OneRow asks for: whoever     *)
(* does not look for all that a register rules out is in AllUnchecked.     *)
LEMMA ApiGuarded ==
  ASSUME Tables = AllTables, Unchecked = AllUnchecked
  PROVE  Guarded
  <1> SUFFICES ASSUME NEW t \in AllTables, NEW h \in t.handlers,
                      h.does \in Lookers \cup {"replace"},
                      << t, h >> \notin AllUnchecked
               PROVE  /\ Waits(h)
                      /\ \A p \in DOMAIN h.looks : t.keeps[p] \subseteq h.looks[p]
    BY DEF Guarded
  <1>1. h.asks # "nothing"
    BY DEF AllUnchecked, Lookers
  <1> QED
    BY <1>1, AllSound DEF Sound, Looks, Waits, Lookers

-----------------------------------------------------------------------------
(* Theorem: over the registers of the API and the handlers that write to   *)
(* them, two rows of one key always have an excuse: a handler of           *)
(* AllUnchecked wrote, or one wrote behind the look-up of another.         *)
THEOREM ApiOneRow ==
  ASSUME Tables = AllTables, Unchecked = AllUnchecked
  PROVE  Spec => []OneRowUnlessExcused
  BY ApiGuarded, OneRow

(* Two rows a look-up finds clash where it looks at places of which no two *)
(* may be taken.                                                           *)
LEMMA FoundClash ==
  ASSUME TypeOK, NEW h \in register.handlers, Narrow(register, h),
         NEW p \in DOMAIN h.looks, h.asks = "one", Several(Found(h, p, None))
  PROVE  Clash(rows)
  <1>1. PICK i, j \in Found(h, p, None) : i # j
    BY DEF Several
  <1>2. /\ i \in Ids /\ rows[i] \in h.looks[p]
        /\ j \in Ids /\ rows[j] \in h.looks[p]
    BY DEF Found
  <1>3. rows[i] \in register.keeps[rows[j]]
    BY <1>2 DEF Narrow
  <1>4. h.looks[p] \subseteq register.places /\ None \notin register.places
    BY RegisterType DEF TableType
  <1> QED BY <1>1, <1>2, <1>3, <1>4 DEF Clash

(* Theorem: a look-up that expects one row fails only where two rows are   *)
(* there that may not stand next to each other, if all handlers outside    *)
(* Wide look only where no two rows may be.                                *)
THEOREM AnswersHold ==
  ASSUME \A t \in Tables : \A h \in t.handlers : << t, h >> \in Wide \/ Narrow(t, h)
  PROVE  Spec => []AnswersUnlessClash
  <1>1. TypeOK => AnswersUnlessClash
    BY FoundClash DEF AnswersUnlessClash, TypeOK
  <1> QED BY <1>1, RegistersTyped, PTL

(* Theorem: the handlers of the API do, but for those of AllWide, which    *)
(* look for the leaves of an employee, for the announcements of a title    *)
(* and for the attendance of a student on any day.                         *)
THEOREM ApiAnswers ==
  ASSUME Tables = AllTables, Wide = AllWide
  PROVE  Spec => []AnswersUnlessClash
  BY AllSound, AnswersHold DEF Sound
=============================================================================
