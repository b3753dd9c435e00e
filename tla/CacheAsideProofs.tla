-------------------------- MODULE CacheAsideProofs --------------------------
(***************************************************************************)
(* Theorems about CacheAside, for every table of views and routes and any  *)
(* number of requests.                                                     *)
(***************************************************************************)
EXTENDS CacheAside, ApiRoutes, FiniteSetTheorems, TLAPS

-----------------------------------------------------------------------------
(* What the route tables must give: every route that changes a view either *)
(* goes for its entry after the commit, or is one of those known not to.   *)
Covered ==
  \A view \in Views : \A e \in Effects[view] : e.touches => e.leaks \/ e.todo # << >>

-----------------------------------------------------------------------------
(* The inductive invariant.                                                *)

(* Where a request stands says what it holds and what it has still to do.  *)
Shape(q) ==
  /\ q.pc = "idle" => q.held = "none"
  /\ q.pc \in {"fill", "put"} => q.held # "none"
  /\ q.pc \in {"purge", "put", "sweep"} <=> q.todo # << >>

(* Data a request holds became outdated under its hands: that is a race.   *)
HeldExcused == \A r \in Reqs : reqs[r].held = "stale" => excuse # {}

Inv ==
  /\ TypeOK
  /\ \A r \in Reqs : Shape(reqs[r])
  /\ HeldExcused
  /\ Covered => StaleExcused

-----------------------------------------------------------------------------
(* How Settle keeps the excuses: what it is asked of a step's new entry    *)
(* and requests.                                                           *)
Accounted(e, rs, why) ==
  /\ \A r \in Reqs : rs[r].held = "stale" => why # {}
  /\ Covered /\ e.is = "stale" => why # {} \/ \E r \in Reqs : rs[r].todo # << >>

LEMMA SettleKeeps ==
  ASSUME NEW e, NEW rs, NEW why, Settle(e, rs, why),
         watched \in Views,
         e \in [is : Ages, asked : Asks, ttl : BOOLEAN],
         rs \in [Reqs -> Request],
         why \subseteq Excuses,
         \A r \in Reqs : Shape(rs[r]),
         Accounted(e, rs, why)
  PROVE  Inv'
  <1>1. entry' = e /\ reqs' = rs /\ watched' = watched
    BY DEF Settle
  <1>2. excuse' = IF Stale(e, rs) THEN why ELSE {}
    BY DEF Settle
  <1>3. TypeOK'
    BY <1>1, <1>2 DEF TypeOK
  <1>4. (\A r \in Reqs : Shape(reqs[r]))'
    BY <1>1 DEF Shape
  <1>5. HeldExcused'
    BY <1>1, <1>2 DEF HeldExcused, Accounted, Stale
  <1>6. Covered => StaleExcused'
    BY <1>1, <1>2 DEF StaleExcused, Accounted, Stale
  <1>7. Covered' = Covered
    BY DEF Covered
  <1> QED BY <1>3, <1>4, <1>5, <1>6, <1>7 DEF Inv

(* A step of one request that leaves the entry, and all it does is go on   *)
(* without calls to make.                                                  *)
LEMMA ReqStep ==
  ASSUME NEW r \in Reqs, Inv,
         NEW q \in Request, Shape(q), q.held # "stale" \/ excuse # {},
         reqs[r].todo = << >> \/ q.todo # << >>,
         Settle(entry, To(r, q), excuse)
  PROVE  Inv'
  <1>1. To(r, q) \in [Reqs -> Request]
    BY DEF To, Inv, TypeOK
  <1>2. /\ To(r, q)[r] = q
        /\ \A p \in Reqs \ {r} : To(r, q)[p] = reqs[p]
    BY DEF To, Inv, TypeOK
  <1>3. \A p \in Reqs : Shape(To(r, q)[p])
    BY <1>2 DEF Inv
  <1>4. \A p \in Reqs : reqs[p].todo # << >> => To(r, q)[p].todo # << >>
    BY <1>2
  <1>5. Accounted(entry, To(r, q), excuse)
    BY <1>2, <1>4 DEF Accounted, Inv, HeldExcused, StaleExcused
  <1> QED BY <1>1, <1>3, <1>5, SettleKeeps DEF Inv, TypeOK

(* A step of one request that replaces the entry by one that is absent, or *)
(* whose age is what the request held.                                     *)
LEMMA EntryStep ==
  ASSUME NEW r \in Reqs, Inv,
         NEW q \in Request, Shape(q), q.held # "stale",
         NEW e \in [is : Ages, asked : Asks, ttl : BOOLEAN],
         e.is # "stale" \/ reqs[r].held = "stale",
         Settle(e, To(r, q), excuse)
  PROVE  Inv'
  <1>1. To(r, q) \in [Reqs -> Request]
    BY DEF To, Inv, TypeOK
  <1>2. /\ To(r, q)[r] = q
        /\ \A p \in Reqs \ {r} : To(r, q)[p] = reqs[p]
    BY DEF To, Inv, TypeOK
  <1>3. \A p \in Reqs : Shape(To(r, q)[p])
    BY <1>2 DEF Inv
  <1>4. Accounted(e, To(r, q), excuse)
    BY <1>2 DEF Accounted, Inv, HeldExcused
  <1> QED BY <1>1, <1>3, <1>4, SettleKeeps DEF Inv, TypeOK

-----------------------------------------------------------------------------
(* The records the handlers build.                                         *)

LEMMA IdleReqType == IdleReq \in Request /\ Shape(IdleReq) /\ IdleReq.held = "none"
                     /\ IdleReq.todo = << >>
  <1>1. << >> \in Seq(Steps)
    OBVIOUS
  <1> QED BY <1>1 DEF IdleReq, Request, Shape, Held, Asks

LEMMA PurgeType ==
  ASSUME NEW todo \in Seq(Steps), todo # << >>
  PROVE  LET q == [IdleReq EXCEPT !.pc = "purge", !.todo = todo]
         IN  q \in Request /\ Shape(q) /\ q.held = "none" /\ q.todo = todo
  BY DEF IdleReq, Request, Shape, Held, Asks

LEMMA DoneType ==
  ASSUME Inv, NEW r \in Reqs, reqs[r].todo # << >>
  PROVE  Done(r) \in Request /\ Shape(Done(r)) /\ Done(r).held = "none"
  <1>1. reqs[r].todo \in Seq(Steps)
    BY DEF Inv, TypeOK, Request
  <1>2. Tail(reqs[r].todo) \in Seq(Steps)
    BY <1>1
  <1>3. CASE Tail(reqs[r].todo) = << >>
    BY <1>3, IdleReqType DEF Done
  <1>4. CASE Tail(reqs[r].todo) # << >>
    BY <1>2, <1>4, PurgeType DEF Done
  <1> QED BY <1>3, <1>4

LEMMA EntryType ==
  /\ Absent \in [is : Ages, asked : Asks, ttl : BOOLEAN]
  /\ Absent.is = "absent"
  /\ \A age \in {"fresh", "stale"}, asked \in Asks :
        /\ Filled(age, asked) \in [is : Ages, asked : Asks, ttl : BOOLEAN]
        /\ Filled(age, asked).is = age
  BY DEF Absent, Filled, Ages, Asks

-----------------------------------------------------------------------------
LEMMA InitInv == Init => Inv
  <1> SUFFICES ASSUME Init PROVE Inv
    OBVIOUS
  <1>1. TypeOK
    BY IdleReqType, EntryType DEF Init, TypeOK
  <1>2. \A r \in Reqs : reqs[r] = IdleReq
    BY DEF Init
  <1>3. HeldExcused
    BY <1>2, IdleReqType DEF HeldExcused
  <1>4. StaleExcused
    BY EntryType DEF Init, StaleExcused
  <1> QED BY <1>1, <1>2, <1>3, <1>4, IdleReqType DEF Inv

(* A commit is where an answer becomes wrong: the writer has the entry on  *)
(* its list, or leaks; every other holder of data makes it a race.         *)
LEMMA CommitKeeps ==
  ASSUME Inv, NEW r \in Reqs, Commit(r)
  PROVE  Inv'
  <1>1. PICK e \in Effects[watched] :
          LET shown == IF e.touches THEN [entry EXCEPT !.is = Outdated(@)] ELSE entry
              others == IF e.touches
                          THEN [q \in Reqs |-> [reqs[q] EXCEPT !.held = Outdated(@)]]
                          ELSE reqs
              mine == IF e.todo = << >>
                        THEN IdleReq
                        ELSE [IdleReq EXCEPT !.pc = "purge", !.todo = e.todo]
              why == (IF e.touches /\ \E q \in Reqs : reqs[q].held # "none"
                        THEN {"race"} ELSE {})
                     \cup (IF e.leaks THEN {"leak"} ELSE {})
          IN  Settle(shown, [others EXCEPT ![r] = mine], excuse \cup why)
    BY DEF Commit
  <1> DEFINE shown == IF e.touches THEN [entry EXCEPT !.is = Outdated(@)] ELSE entry
             others == IF e.touches
                         THEN [q \in Reqs |-> [reqs[q] EXCEPT !.held = Outdated(@)]]
                         ELSE reqs
             mine == IF e.todo = << >>
                       THEN IdleReq
                       ELSE [IdleReq EXCEPT !.pc = "purge", !.todo = e.todo]
             race == IF e.touches /\ \E q \in Reqs : reqs[q].held # "none"
                       THEN {"race"} ELSE {}
             leak == IF e.leaks THEN {"leak"} ELSE {}
             why == excuse \cup (race \cup leak)
             rs == [others EXCEPT ![r] = mine]
  <1>2. e.touches \in BOOLEAN /\ e.leaks \in BOOLEAN /\ e.todo \in Seq(Steps)
    BY EffectsType DEF Inv, TypeOK, EffectType
  <1>3. Covered => (e.touches => e.leaks \/ e.todo # << >>)
    BY DEF Covered, Inv, TypeOK
  <1>4. mine \in Request /\ Shape(mine) /\ mine.held = "none" /\ mine.todo = e.todo
    <2>1. CASE e.todo = << >>
      BY <2>1, IdleReqType
    <2>2. CASE e.todo # << >>
      BY <1>2, <2>2, PurgeType
    <2> QED BY <2>1, <2>2
  <1>5. shown \in [is : Ages, asked : Asks, ttl : BOOLEAN]
    BY DEF Inv, TypeOK, Outdated, Ages
  <1>6. \A q \in Reqs : /\ others[q] \in Request
                        /\ Shape(others[q])
                        /\ others[q].todo = reqs[q].todo
    <2> SUFFICES ASSUME NEW q \in Reqs
                 PROVE  /\ others[q] \in Request
                        /\ Shape(others[q])
                        /\ others[q].todo = reqs[q].todo
      OBVIOUS
    <2>1. reqs[q] \in Request /\ Shape(reqs[q])
      BY DEF Inv, TypeOK
    <2>2. CASE e.touches
      <3>1. others[q] = [reqs[q] EXCEPT !.held = Outdated(reqs[q].held)]
        BY <2>2
      <3>2. /\ Outdated(reqs[q].held) \in Held
            /\ Outdated(reqs[q].held) = "none" <=> reqs[q].held = "none"
        BY <2>1 DEF Outdated, Request, Held
      <3> QED BY <2>1, <3>1, <3>2 DEF Request, Shape
    <2>3. CASE ~e.touches
      BY <2>1, <2>3
    <2> QED BY <1>2, <2>2, <2>3
  <1>7. others = [q \in Reqs |-> others[q]]
    BY DEF Inv, TypeOK
  <1>8. others \in [Reqs -> Request]
    BY <1>6, <1>7
  <1>9. /\ rs \in [Reqs -> Request]
        /\ rs[r] = mine
        /\ \A q \in Reqs \ {r} : rs[q] = others[q]
    <2> HIDE DEF others, mine
    <2> QED BY <1>4, <1>8
  <1>10. \A q \in Reqs : Shape(rs[q])
    <2> HIDE DEF rs, others, mine
    <2> QED BY <1>4, <1>6, <1>9
  <1>11. why \subseteq Excuses
    BY DEF Inv, TypeOK, Excuses
  <1>12. reqs[r].todo = << >> /\ reqs[r].held = "none"
    BY DEF Commit, Inv, Shape
  <1>13. \A q \in Reqs : rs[q].held = "stale" => why # {}
    <2> SUFFICES ASSUME NEW q \in Reqs, rs[q].held = "stale" PROVE why # {}
      OBVIOUS
    <2>1. q # r /\ others[q].held = "stale"
      <3> HIDE DEF rs, others, mine
      <3> QED BY <1>4, <1>9
    <2>2. CASE reqs[q].held = "stale"
      BY <2>2 DEF Inv, HeldExcused
    <2>3. CASE reqs[q].held # "stale"
      <3>1. e.touches
        BY <1>2, <2>1, <2>3
      <3>2. others[q] = [reqs[q] EXCEPT !.held = Outdated(reqs[q].held)]
        BY <3>1
      <3>3. reqs[q] \in Request
        BY DEF Inv, TypeOK
      <3>4. Outdated(reqs[q].held) = "stale"
        BY <2>1, <3>2, <3>3 DEF Request
      <3>5. reqs[q].held # "none"
        BY <3>4 DEF Outdated
      <3> QED BY <3>1, <3>5
    <2> QED BY <2>2, <2>3
  <1>14. Covered /\ shown.is = "stale" => why # {} \/ \E q \in Reqs : rs[q].todo # << >>
    <2> SUFFICES ASSUME Covered, shown.is = "stale", why = {}
                 PROVE  \E q \in Reqs : rs[q].todo # << >>
      OBVIOUS
    <2>1. excuse = {} /\ ~e.leaks
      BY <1>2
    <2>2. CASE e.touches
      <3>1. rs[r].todo # << >>
        <4> HIDE DEF rs, mine
        <4> QED BY <1>3, <1>4, <1>9, <2>1, <2>2
      <3> QED BY <3>1
    <2>3. CASE ~e.touches
      <3>1. entry.is = "stale"
        BY <2>3
      <3>2. PICK q \in Reqs : reqs[q].todo # << >>
        BY <2>1, <3>1 DEF Inv, StaleExcused
      <3>3. q # r
        BY <1>12, <3>2
      <3>4. rs[q].todo # << >>
        <4> HIDE DEF rs, others, mine
        <4> QED BY <1>6, <1>9, <3>2, <3>3
      <3> QED BY <3>4
    <2> QED BY <1>2, <2>2, <2>3
  <1>15. Settle(shown, rs, why)
    BY <1>1
  <1>16. watched \in Views
    BY DEF Inv, TypeOK
  <1> HIDE DEF shown, rs, why
  <1> QED BY <1>5, <1>9, <1>10, <1>11, <1>13, <1>14, <1>15, <1>16, SettleKeeps DEF Accounted

(* Every step of the system keeps the invariant. *)
LEMMA NextKeeps ==
  ASSUME Inv, [Next]_vars
  PROVE  Inv'
  <1>1. CASE UNCHANGED vars
    BY <1>1 DEF vars, Inv, TypeOK, HeldExcused, StaleExcused, Shape
  <1>2. ASSUME NEW r \in Reqs, Begin(r) PROVE Inv'
    <2>1. PICK asked \in AsksOf[watched], held \in {"none", "fresh"} :
            Settle(entry, To(r, [pc |-> "get", held |-> held, asked |-> asked,
                                 todo |-> << >>]), excuse)
      BY <1>2 DEF Begin
    <2> DEFINE q == [pc |-> "get", held |-> held, asked |-> asked, todo |-> << >>]
    <2>2. asked \in Asks
      BY DEF AsksOf, Asks, Inv, TypeOK
    <2>3. q \in Request /\ Shape(q) /\ q.held # "stale" /\ q.todo = << >>
      BY <2>2 DEF Request, Shape, Held
    <2>4. reqs[r].todo = << >>
      BY <1>2 DEF Begin, Inv, Shape
    <2> HIDE DEF q
    <2> QED BY <2>1, <2>3, <2>4, ReqStep DEF q
  <1>3. ASSUME NEW r \in Reqs, Hit(r) \/ NoRows(r) PROVE Inv'
    <2>1. reqs[r].todo = << >> /\ Settle(entry, To(r, IdleReq), excuse)
      BY <1>3 DEF Hit, NoRows, Inv, Shape
    <2> QED BY <2>1, IdleReqType, ReqStep
  <1>4. ASSUME NEW r \in Reqs, Miss(r) PROVE Inv'
    <2> DEFINE q == [reqs[r] EXCEPT !.pc = "select"]
    <2>1. reqs[r] \in Request /\ Shape(reqs[r]) /\ reqs[r].todo = << >>
      BY <1>4 DEF Miss, Inv, TypeOK, Shape
    <2>2. q \in Request /\ Shape(q) /\ q.held = reqs[r].held
      BY <2>1 DEF Request, Shape
    <2>3. Settle(entry, To(r, q), excuse)
      BY <1>4 DEF Miss
    <2>4. reqs[r].held # "stale" \/ excuse # {}
      BY DEF Inv, HeldExcused
    <2> HIDE DEF q
    <2> QED BY <2>1, <2>2, <2>3, <2>4, ReqStep
  <1>5. ASSUME NEW r \in Reqs, Select(r) PROVE Inv'
    <2> DEFINE h == IF reqs[r].held = "none" THEN "fresh" ELSE reqs[r].held
               q == [reqs[r] EXCEPT !.pc = "fill", !.held = h]
    <2>1. reqs[r] \in Request /\ Shape(reqs[r]) /\ reqs[r].todo = << >>
      BY <1>5 DEF Select, Inv, TypeOK, Shape
    <2>2. h \in {"fresh", "stale"} /\ (h = "stale" => reqs[r].held = "stale")
      BY <2>1 DEF Request, Held
    <2>3. Settle(entry, To(r, q), excuse)
      BY <1>5 DEF Select
    <2> HIDE DEF h
    <2>4. q \in Request /\ Shape(q) /\ q.held = h
      BY <2>1, <2>2 DEF Request, Shape, Held
    <2>5. h # "stale" \/ excuse # {}
      BY <2>2 DEF Inv, HeldExcused
    <2> HIDE DEF q
    <2> QED BY <2>1, <2>3, <2>4, <2>5, ReqStep
  <1>6. ASSUME NEW r \in Reqs, Fill(r) PROVE Inv'
    <2>1. reqs[r] \in Request /\ Shape(reqs[r]) /\ reqs[r].pc = "fill"
      BY <1>6 DEF Fill, Inv, TypeOK
    <2>2. reqs[r].held \in {"fresh", "stale"} /\ reqs[r].asked \in Asks
      BY <2>1 DEF Request, Shape, Held
    <2>3. Settle(Filled(reqs[r].held, reqs[r].asked), To(r, IdleReq), excuse)
      BY <1>6 DEF Fill
    <2> QED BY <2>2, <2>3, IdleReqType, EntryType, EntryStep
  <1>7. ASSUME NEW r \in Reqs, Reread(r) PROVE Inv'
    <2> DEFINE q == [reqs[r] EXCEPT !.pc = "put", !.held = "fresh"]
    <2>1. reqs[r] \in Request /\ Shape(reqs[r]) /\ reqs[r].todo # << >>
      BY <1>7 DEF Reread, Purging, Inv, TypeOK, Shape
    <2>2. q \in Request /\ Shape(q) /\ q.held = "fresh" /\ q.todo # << >>
      BY <2>1 DEF Request, Shape, Held
    <2>3. Settle(entry, To(r, q), excuse)
      BY <1>7 DEF Reread
    <2> HIDE DEF q
    <2> QED BY <2>1, <2>2, <2>3, ReqStep
  <1>8. ASSUME NEW r \in Reqs, PutSet(r) PROVE Inv'
    <2>1. reqs[r] \in Request /\ Shape(reqs[r]) /\ reqs[r].pc = "put"
      BY <1>8 DEF PutSet, Inv, TypeOK
    <2>2. reqs[r].held \in {"fresh", "stale"} /\ reqs[r].todo # << >>
      BY <2>1 DEF Request, Shape, Held
    <2>3. Settle(Filled(reqs[r].held, "this"), To(r, Done(r)), excuse)
      BY <1>8 DEF PutSet
    <2>4. "this" \in Asks
      BY DEF Asks
    <2> QED BY <2>2, <2>3, <2>4, DoneType, EntryType, EntryStep
  <1>9. ASSUME NEW r \in Reqs, Delete(r) \/ SweepKeys(r) PROVE Inv'
    <2>1. reqs[r].todo # << >>
      BY <1>9 DEF Delete, SweepKeys, Purging, Inv, Shape
    <2>2. Settle(Absent, To(r, Done(r)), excuse)
      BY <1>9 DEF Delete, SweepKeys
    <2> QED BY <2>1, <2>2, DoneType, EntryType, EntryStep
  <1>10. ASSUME NEW r \in Reqs, Keys(r) PROVE Inv'
    <2>1. reqs[r] \in Request /\ Shape(reqs[r]) /\ reqs[r].todo # << >>
      BY <1>10 DEF Keys, Purging, Inv, TypeOK, Shape
    <2>2. CASE entry.is = "absent"
      <3>1. Settle(entry, To(r, Done(r)), excuse)
        BY <1>10, <2>2 DEF Keys
      <3> QED BY <2>1, <2>2, <3>1, DoneType, EntryStep DEF Inv, TypeOK
    <2>3. CASE entry.is # "absent"
      <3> DEFINE q == [reqs[r] EXCEPT !.pc = "sweep"]
      <3>1. Settle(entry, To(r, q), excuse)
        BY <1>10, <2>3 DEF Keys
      <3>2. /\ q \in Request /\ Shape(q) /\ q.held = reqs[r].held
            /\ q.todo # << >>
        BY <2>1 DEF Request, Shape
      <3>3. reqs[r].held # "stale" \/ excuse # {}
        BY DEF Inv, HeldExcused
      <3> HIDE DEF q
      <3> QED BY <3>1, <3>2, <3>3, ReqStep
    <2> QED BY <2>2, <2>3
  <1>11. ASSUME NEW r \in Reqs, Abort(r) PROVE Inv'
    <2>1. CASE reqs[r].todo = << >>
      <3>1. Settle(entry, To(r, IdleReq), excuse)
        BY <1>11, <2>1 DEF Abort
      <3> QED BY <2>1, <3>1, IdleReqType, ReqStep
    <2>2. CASE reqs[r].todo # << >>
      <3>1. Settle(entry, To(r, IdleReq), excuse \cup {"death"})
        BY <1>11, <2>2 DEF Abort
      <3>2. To(r, IdleReq) \in [Reqs -> Request]
        BY IdleReqType DEF To, Inv, TypeOK
      <3>3. \A p \in Reqs : Shape(To(r, IdleReq)[p])
        BY IdleReqType DEF To, Inv, TypeOK
      <3>4. excuse \cup {"death"} \subseteq Excuses
        BY DEF Inv, TypeOK, Excuses
      <3>5. Accounted(entry, To(r, IdleReq), excuse \cup {"death"})
        BY DEF Accounted
      <3> QED BY <3>1, <3>2, <3>3, <3>4, <3>5, SettleKeeps DEF Inv, TypeOK
    <2> QED BY <2>1, <2>2
  <1>12. CASE Expire
    <2>1. Settle(Absent, reqs, excuse)
      BY <1>12 DEF Expire
    <2>2. Accounted(Absent, reqs, excuse)
      BY EntryType DEF Accounted, Inv, HeldExcused
    <2> QED BY <2>1, <2>2, EntryType, SettleKeeps DEF Inv, TypeOK
  <1> QED
    BY <1>1, <1>2, <1>3, <1>4, <1>5, <1>6, <1>7, <1>8, <1>9, <1>10, <1>11, <1>12, CommitKeeps
    DEF Next, CommitStep, Reader, Writer

-----------------------------------------------------------------------------
LEMMA Invariance == Spec => []Inv
  <1>1. Inv /\ [Next]_vars => Inv'
    BY NextKeeps
  <1> QED BY InitInv, <1>1, PTL DEF Spec

(* The entry, the requests and the excuses are what they are said to be:   *)
(* in particular an answer in Redis is always a whole one.                 *)
THEOREM CacheTyped == Spec => []TypeOK
  <1>1. Inv => TypeOK
    BY DEF Inv
  <1> QED BY <1>1, Invariance, PTL

(* Where every handler is covered, an outdated answer in Redis always has  *)
(* a reason: a handler on its way, a race, a death, or a known leak.       *)
THEOREM StaleOnlyExcused == ASSUME Covered PROVE Spec => []StaleExcused
  <1>1. Inv => StaleExcused
    BY DEF Inv
  <1> QED BY <1>1, Invariance, PTL

-----------------------------------------------------------------------------
(* What an entry answers, and how long it stays.                           *)

(* The f-string of the view's key has a field for every filter. *)
Told(view) == view.filters \subseteq Range(view.fields)

(* Then no two plain questions are given the same key: where two differ,   *)
(* so do the words of that field.                                          *)
LEMMA ToldApart ==
  ASSUME NEW view, Told(view)
  PROVE  ~Collapses(view)
  <1> DEFINE keyOf == [q \in PlainQuestions(view) |-> Words(view, q)]
  <1> SUFFICES ASSUME NEW p \in PlainQuestions(view), NEW q \in PlainQuestions(view),
                      keyOf[p] = keyOf[q]
               PROVE  p = q
    BY DEF Collapses, IsInjective
  <1>1. Words(view, p) = Words(view, q)
    OBVIOUS
  <1>2. ASSUME NEW filter \in view.filters PROVE p[filter] = q[filter]
    <2>1. PICK i \in DOMAIN view.fields : view.fields[i] = filter
      BY DEF Told, Range
    <2>2. Words(view, p)[i] = Words(view, q)[i]
      BY <1>1
    <2>3. Word(p[filter]) = Word(q[filter])
      BY <2>1, <2>2 DEF Words
    <2>4. p[filter] \in Plain /\ q[filter] \in Plain
      BY DEF PlainQuestions
    <2>5. << >> # <<"1">> /\ <<"None">> # <<"1">>
      OBVIOUS
    <2> QED BY <2>3, <2>4, <2>5 DEF Word, Plain
  <1> QED BY <1>2 DEF PlainQuestions

(* What is asked under such a key. *)
Ours == {"this", "odd"}

(* Under such a key everybody asks the same, odd texts aside, and every    *)
(* entry is stored with a time to live.                                    *)
Answers ==
  /\ Told(watched) => entry.asked \in Ours /\ \A r \in Reqs : reqs[r].asked \in Ours
  /\ entry.ttl

(* What a step leaves behind: the answer to the same question, and nothing *)
(* outdated that was not so before.                                        *)
Following(x) == Told(watched) => x.asked \in Ours

LEMMA OneReqFollows ==
  ASSUME TypeOK, Answers, NEW r \in Reqs, NEW e, NEW q, NEW why,
         Settle(e, To(r, q), why),
         Following(e), Following(q), e.ttl,
         e.is = "stale" \/ q.held = "stale" => Stale(entry, reqs)
  PROVE  Answers' /\ (Stale(entry, reqs)' => Stale(entry, reqs))
  <1>1. /\ To(r, q)[r] = q
        /\ \A p \in Reqs \ {r} : To(r, q)[p] = reqs[p]
    BY DEF To, TypeOK
  <1>2. entry' = e /\ reqs' = To(r, q) /\ watched' = watched
    BY DEF Settle
  <1>3. Answers'
    BY <1>1, <1>2 DEF Answers, Following, Told
  <1>4. Stale(e, To(r, q)) => Stale(entry, reqs)
    BY <1>1 DEF Stale
  <1> QED BY <1>2, <1>3, <1>4

LEMMA RecordsFollow ==
  /\ Absent.asked \in Ours /\ Absent.ttl /\ Absent.is = "absent"
  /\ IdleReq.asked \in Ours /\ IdleReq.held = "none"
  /\ "this" \in Ours
  /\ \A age, asked : /\ Filled(age, asked).asked = asked
                     /\ Filled(age, asked).ttl
                     /\ Filled(age, asked).is = age
  BY DEF Absent, IdleReq, Filled, Ours

LEMMA DoneFollows ==
  ASSUME NEW r \in Reqs
  PROVE  Done(r).asked \in Ours /\ Done(r).held = "none"
  BY DEF Done, IdleReq, Ours

(* No step but a commit makes an answer outdated. *)
LEMMA StepFollows ==
  ASSUME Inv, Answers, NEW r \in Reqs, Begin(r) \/ Reader(r) \/ Writer(r) \/ Abort(r)
  PROVE  Answers' /\ (Stale(entry, reqs)' => Stale(entry, reqs))
  <1> USE DEF Following
  <1>1. /\ TypeOK /\ reqs[r] \in Request
        /\ entry.ttl /\ Following(entry) /\ Following(reqs[r])
        /\ entry.is = "stale" \/ reqs[r].held = "stale" => Stale(entry, reqs)
    BY DEF Inv, TypeOK, Answers, Stale
  <1>2. CASE Begin(r)
    <2>1. PICK asked \in AsksOf[watched], held \in {"none", "fresh"} :
            Settle(entry, To(r, [pc |-> "get", held |-> held, asked |-> asked,
                                 todo |-> << >>]), excuse)
      BY <1>2 DEF Begin
    <2> DEFINE q == [pc |-> "get", held |-> held, asked |-> asked, todo |-> << >>]
    <2>2. Following(q) /\ q.held # "stale"
      BY ToldApart DEF AsksOf, Ours, Inv, TypeOK
    <2> HIDE DEF q
    <2> QED BY <1>1, <2>1, <2>2, OneReqFollows DEF q
  <1>3. CASE Hit(r) \/ NoRows(r)
    <2>1. Settle(entry, To(r, IdleReq), excuse)
      BY <1>3 DEF Hit, NoRows
    <2> QED BY <1>1, <2>1, RecordsFollow, OneReqFollows
  <1>4. CASE Miss(r)
    <2> DEFINE q == [reqs[r] EXCEPT !.pc = "select"]
    <2>1. q.asked = reqs[r].asked /\ q.held = reqs[r].held
      BY <1>1 DEF Request
    <2>2. Settle(entry, To(r, q), excuse)
      BY <1>4 DEF Miss
    <2> HIDE DEF q
    <2> QED BY <1>1, <2>1, <2>2, OneReqFollows
  <1>5. CASE Select(r)
    <2> DEFINE h == IF reqs[r].held = "none" THEN "fresh" ELSE reqs[r].held
               q == [reqs[r] EXCEPT !.pc = "fill", !.held = h]
    <2>1. q.asked = reqs[r].asked /\ q.held = h
      BY <1>1 DEF Request
    <2>2. h = "stale" => reqs[r].held = "stale"
      OBVIOUS
    <2>3. Settle(entry, To(r, q), excuse)
      BY <1>5 DEF Select
    <2> HIDE DEF q, h
    <2> QED BY <1>1, <2>1, <2>2, <2>3, OneReqFollows
  <1>6. CASE Fill(r)
    <2>1. Settle(Filled(reqs[r].held, reqs[r].asked), To(r, IdleReq), excuse)
      BY <1>6 DEF Fill
    <2> QED BY <1>1, <2>1, RecordsFollow, OneReqFollows
  <1>7. CASE Reread(r)
    <2> DEFINE q == [reqs[r] EXCEPT !.pc = "put", !.held = "fresh"]
    <2>1. q.asked = reqs[r].asked /\ q.held = "fresh"
      BY <1>1 DEF Request
    <2>2. Settle(entry, To(r, q), excuse)
      BY <1>7 DEF Reread
    <2> HIDE DEF q
    <2> QED BY <1>1, <2>1, <2>2, OneReqFollows
  <1>8. CASE PutSet(r)
    <2>1. Settle(Filled(reqs[r].held, "this"), To(r, Done(r)), excuse)
      BY <1>8 DEF PutSet
    <2> QED BY <1>1, <2>1, RecordsFollow, DoneFollows, OneReqFollows
  <1>9. CASE Delete(r) \/ SweepKeys(r)
    <2>1. Settle(Absent, To(r, Done(r)), excuse)
      BY <1>9 DEF Delete, SweepKeys
    <2> QED BY <1>1, <2>1, RecordsFollow, DoneFollows, OneReqFollows
  <1>10. CASE Keys(r) /\ entry.is = "absent"
    <2>1. Settle(entry, To(r, Done(r)), excuse)
      BY <1>10 DEF Keys
    <2> QED BY <1>1, <2>1, DoneFollows, OneReqFollows
  <1>11. CASE Keys(r) /\ entry.is # "absent"
    <2> DEFINE q == [reqs[r] EXCEPT !.pc = "sweep"]
    <2>1. q.asked = reqs[r].asked /\ q.held = reqs[r].held
      BY <1>1 DEF Request
    <2>2. Settle(entry, To(r, q), excuse)
      BY <1>11 DEF Keys
    <2> HIDE DEF q
    <2> QED BY <1>1, <2>1, <2>2, OneReqFollows
  <1>12. CASE Abort(r)
    <2>1. PICK why \in {excuse, excuse \cup {"death"}} : Settle(entry, To(r, IdleReq), why)
      BY <1>12 DEF Abort
    <2> QED BY <1>1, <2>1, RecordsFollow, OneReqFollows
  <1> QED
    BY <1>2, <1>3, <1>4, <1>5, <1>6, <1>7, <1>8, <1>9, <1>10, <1>11, <1>12
    DEF Reader, Writer

(* Nor does an entry that expires. *)
LEMMA ExpireFollows ==
  ASSUME Answers, Expire
  PROVE  Answers' /\ (Stale(entry, reqs)' => Stale(entry, reqs))
  <1>1. entry' = Absent /\ reqs' = reqs /\ watched' = watched
    BY DEF Expire, Settle
  <1> QED BY <1>1, RecordsFollow DEF Answers, Told, Stale

(* A commit changes what is right, not what was asked. *)
LEMMA CommitFollows ==
  ASSUME TypeOK, Answers, NEW r \in Reqs, Commit(r)
  PROVE  Answers'
  <1>1. PICK e \in Effects[watched] :
          LET shown == IF e.touches THEN [entry EXCEPT !.is = Outdated(@)] ELSE entry
              others == IF e.touches
                          THEN [q \in Reqs |-> [reqs[q] EXCEPT !.held = Outdated(@)]]
                          ELSE reqs
              mine == IF e.todo = << >>
                        THEN IdleReq
                        ELSE [IdleReq EXCEPT !.pc = "purge", !.todo = e.todo]
          IN  entry' = shown /\ reqs' = [others EXCEPT ![r] = mine] /\ watched' = watched
    BY DEF Commit, Settle
  <1> DEFINE others == IF e.touches
                         THEN [q \in Reqs |-> [reqs[q] EXCEPT !.held = Outdated(@)]]
                         ELSE reqs
             mine == IF e.todo = << >>
                       THEN IdleReq
                       ELSE [IdleReq EXCEPT !.pc = "purge", !.todo = e.todo]
  <1>2. mine.asked = "this" /\ "this" \in Ours
    BY DEF IdleReq, Ours
  <1>3. \A q \in Reqs : others[q].asked = reqs[q].asked
    <2>1. \A q \in Reqs : reqs[q] \in Request
      BY DEF TypeOK
    <2> QED BY <2>1 DEF Request
  <1>4. others = [q \in Reqs |-> others[q]]
    BY DEF TypeOK
  <1>5. entry'.asked = entry.asked /\ entry'.ttl = entry.ttl
    BY <1>1 DEF TypeOK
  <1>6. reqs' = [others EXCEPT ![r] = mine] /\ watched' = watched
    BY <1>1
  <1> HIDE DEF others, mine
  <1>7. \A q \in Reqs : reqs'[q].asked = IF q = r THEN "this" ELSE reqs[q].asked
    BY <1>2, <1>3, <1>4, <1>6
  <1> QED BY <1>2, <1>5, <1>6, <1>7 DEF Answers, Told

LEMMA AnswersInvariant == Spec => []Answers
  <1>1. Init => Answers
    BY RecordsFollow DEF Init, Answers
  <1>2. Inv /\ Answers /\ [Next]_vars => Answers'
    <2> SUFFICES ASSUME Inv, Answers, [Next]_vars PROVE Answers'
      OBVIOUS
    <2>1. CASE UNCHANGED vars
      BY <2>1 DEF vars, Answers, Told
    <2> QED
      BY <2>1, StepFollows, ExpireFollows, CommitFollows DEF Next, CommitStep, Inv
  <1> QED BY <1>1, <1>2, Invariance, PTL DEF Spec

(* Theorem: where the f-string of every key outside Collapsed has a field  *)
(* for each filter of its query, in whatever order, an entry that is found *)
(* answers what was asked, odd texts aside.                                *)
THEOREM AnswersRight ==
  ASSUME \A v \in Views \ Collapsed : Told(v)
  PROVE  Spec => []AnswersAsAsked
  <1>1. TypeOK /\ Answers => AnswersAsAsked
    BY DEF TypeOK, Answers, AnswersAsAsked, Ours
  <1> QED BY <1>1, AnswersInvariant, CacheTyped, PTL

(* What the f-strings of one to nine fields render. *)
LEMMA Fields ==
  /\ \A a : Range(<<a>>) = {a}
  /\ \A a, b : Range(<<a, b>>) = {a, b}
  /\ \A a, b, c : Range(<<a, b, c>>) = {a, b, c}
  /\ \A a, b, c, d : Range(<<a, b, c, d>>) = {a, b, c, d}
  /\ \A a, b, c, d, e : Range(<<a, b, c, d, e>>) = {a, b, c, d, e}
  /\ \A a, b, c, d, e, f : Range(<<a, b, c, d, e, f>>) = {a, b, c, d, e, f}
  /\ \A a, b, c, d, e, f, g : Range(<<a, b, c, d, e, f, g>>) = {a, b, c, d, e, f, g}
  /\ \A a, b, c, d, e, f, g, h : Range(<<a, b, c, d, e, f, g, h>>) = {a, b, c, d, e, f, g, h}
  /\ \A a, b, c, d, e, f, g, h, i : Range(<<a, b, c, d, e, f, g, h, i>>) = {a, b, c, d, e, f, g, h, i}
  <1>1. ASSUME NEW a
        PROVE  Range(<<a>>) = {a}
    <2>1. DOMAIN <<a>> = {1}
      OBVIOUS
    <2> QED BY <2>1 DEF Range
  <1>2. ASSUME NEW a, NEW b
        PROVE  Range(<<a, b>>) = {a, b}
    <2>1. DOMAIN <<a, b>> = {1, 2}
      OBVIOUS
    <2> QED BY <2>1 DEF Range
  <1>3. ASSUME NEW a, NEW b, NEW c
        PROVE  Range(<<a, b, c>>) = {a, b, c}
    <2>1. DOMAIN <<a, b, c>> = {1, 2, 3}
      OBVIOUS
    <2> QED BY <2>1 DEF Range
  <1>4. ASSUME NEW a, NEW b, NEW c, NEW d
        PROVE  Range(<<a, b, c, d>>) = {a, b, c, d}
    <2>1. DOMAIN <<a, b, c, d>> = {1, 2, 3, 4}
      OBVIOUS
    <2> QED BY <2>1 DEF Range
  <1>5. ASSUME NEW a, NEW b, NEW c, NEW d, NEW e
        PROVE  Range(<<a, b, c, d, e>>) = {a, b, c, d, e}
    <2>1. DOMAIN <<a, b, c, d, e>> = {1, 2, 3, 4, 5}
      OBVIOUS
    <2> QED BY <2>1 DEF Range
  <1>6. ASSUME NEW a, NEW b, NEW c, NEW d, NEW e, NEW f
        PROVE  Range(<<a, b, c, d, e, f>>) = {a, b, c, d, e, f}
    <2>1. DOMAIN <<a, b, c, d, e, f>> = {1, 2, 3, 4, 5, 6}
      OBVIOUS
    <2> QED BY <2>1 DEF Range
  <1>7. ASSUME NEW a, NEW b, NEW c, NEW d, NEW e, NEW f, NEW g
        PROVE  Range(<<a, b, c, d, e, f, g>>) = {a, b, c, d, e, f, g}
    <2>1. DOMAIN <<a, b, c, d, e, f, g>> = {1, 2, 3, 4, 5, 6, 7}
      OBVIOUS
    <2> QED BY <2>1 DEF Range
  <1>8. ASSUME NEW a, NEW b, NEW c, NEW d, NEW e, NEW f, NEW g, NEW h
        PROVE  Range(<<a, b, c, d, e, f, g, h>>) = {a, b, c, d, e, f, g, h}
    <2>1. DOMAIN <<a, b, c, d, e, f, g, h>> = {1, 2, 3, 4, 5, 6, 7, 8}
      OBVIOUS
    <2> QED BY <2>1 DEF Range
  <1>9. ASSUME NEW a, NEW b, NEW c, NEW d, NEW e, NEW f, NEW g, NEW h, NEW i
        PROVE  Range(<<a, b, c, d, e, f, g, h, i>>) = {a, b, c, d, e, f, g, h, i}
    <2>1. DOMAIN <<a, b, c, d, e, f, g, h, i>> = {1, 2, 3, 4, 5, 6, 7, 8, 9}
      OBVIOUS
    <2> QED BY <2>1 DEF Range
  <1> QED BY <1>1, <1>2, <1>3, <1>4, <1>5, <1>6, <1>7, <1>8, <1>9

(* The keys of the API have a field for every filter, but for two. *)
LEMMA ApiTold == \A v \in AllViews \ AllCollapsed : Told(v)
  <1>1. \A resource, key, fields, filters, rows, labels :
          filters \subseteq Range(fields)
            => Told(List(resource, key, fields, filters, rows, labels))
    BY DEF Told, List
  <1>2. \A resource, key, labels : Told(Item(resource, key, labels))
    BY Fields DEF Told, Item
  <1>3. \A v \in SchoolViews \ {list_school_groups} : Told(v)
    <2>1. Told(get_school_group)
      BY <1>2 DEF get_school_group
    <2>2. Told(dropdown_school_groups)
      BY <1>1, Fields DEF dropdown_school_groups, Pages
    <2>3. Told(list_classes)
      BY <1>1, Fields DEF list_classes, Pages
    <2>4. Told(get_class)
      BY <1>2 DEF get_class
    <2>5. Told(dropdown_classes)
      BY <1>1, Fields DEF dropdown_classes, Pages
    <2>6. Told(list_sections)
      BY <1>1, Fields DEF list_sections, Pages
    <2>7. Told(get_section)
      BY <1>2 DEF get_section
    <2>8. Told(dropdown_sections)
      BY <1>1, Fields DEF dropdown_sections, Pages
    <2>9. Told(list_subjects)
      BY <1>1, Fields DEF list_subjects, Pages
    <2>10. Told(get_subject)
      BY <1>2 DEF get_subject
    <2>11. Told(dropdown_subjects)
      BY <1>1, Fields DEF dropdown_subjects, Pages
    <2>12. Told(get_timetable)
      BY <1>2 DEF get_timetable
    <2>13. Told(list_timetables)
      BY <1>1, Fields DEF list_timetables, Pages
    <2>14. Told(list_class_section_teachers)
      BY <1>1, Fields DEF list_class_section_teachers, Pages
    <2> QED
      BY <2>1, <2>2, <2>3, <2>4, <2>5, <2>6, <2>7, <2>8, <2>9, <2>10, <2>11, <2>12, <2>13, <2>14
      DEF SchoolViews
  <1>4. \A v \in PeopleViews : Told(v)
    <2>1. Told(list_roles)
      BY <1>1, Fields DEF list_roles, Pages
    <2>2. Told(get_role)
      BY <1>2 DEF get_role
    <2>3. Told(dropdown_roles)
      BY <1>1, Fields DEF dropdown_roles, Pages
    <2>4. Told(get_employee)
      BY <1>2 DEF get_employee
    <2>5. Told(list_employees)
      BY <1>1, Fields DEF list_employees, Pages
    <2>6. Told(dropdown_employees)
      BY <1>1, Fields DEF dropdown_employees, Pages
    <2>7. Told(list_mappings)
      BY <1>1, Fields DEF list_mappings, Pages
    <2>8. Told(list_inquiries)
      BY <1>1, Fields DEF list_inquiries, Pages
    <2>9. Told(get_inquiry)
      BY <1>2 DEF get_inquiry
    <2>10. Told(get_student)
      BY <1>2 DEF get_student
    <2>11. Told(list_students)
      BY <1>1, Fields DEF list_students, Pages
    <2>12. Told(dropdown_students)
      BY <1>1, Fields DEF dropdown_students, Pages
    <2>13. Told(get_guardian_list_by_class)
      BY <1>1, Fields DEF get_guardian_list_by_class, Pages
    <2>14. Told(list_employee_attendance)
      BY <1>1, Fields DEF list_employee_attendance, Pages
    <2>15. Told(get_employee_attendance)
      BY <1>2 DEF get_employee_attendance
    <2>16. Told(employee_attendance_count_today)
      BY <1>1, Fields DEF employee_attendance_count_today, Pages
    <2>17. Told(list_student_attendance)
      BY <1>1, Fields DEF list_student_attendance, Pages
    <2>18. Told(student_attendance_count_today)
      BY <1>1, Fields DEF student_attendance_count_today, Pages
    <2>19. Told(list_leave_requests)
      BY <1>1, Fields DEF list_leave_requests, Pages
    <2>20. Told(get_leave_request)
      BY <1>2 DEF get_leave_request
    <2> QED
      BY <2>1, <2>2, <2>3, <2>4, <2>5, <2>6, <2>7, <2>8, <2>9, <2>10, <2>11, <2>12, <2>13, <2>14, <2>15, <2>16, <2>17, <2>18, <2>19, <2>20
      DEF PeopleViews
  <1>5. \A v \in NoticeViews \ {get_dashboard} : Told(v)
    <2>1. Told(list_holidays)
      BY <1>1, Fields DEF list_holidays, Pages
    <2>2. Told(get_holiday)
      BY <1>2 DEF get_holiday
    <2>3. Told(list_notifications)
      BY <1>1, Fields DEF list_notifications, Pages
    <2>4. Told(get_notification)
      BY <1>2 DEF get_notification
    <2>5. Told(list_announcements)
      BY <1>1, Fields DEF list_announcements, Pages
    <2>6. Told(get_announcement)
      BY <1>2 DEF get_announcement
    <2>7. Told(list_diaries)
      BY <1>1, Fields DEF list_diaries, Pages
    <2>8. Told(get_diary)
      BY <1>2 DEF get_diary
    <2>9. Told(get_today_birthdays)
      BY <1>1, Fields DEF get_today_birthdays, Pages
    <2> QED
      BY <2>1, <2>2, <2>3, <2>4, <2>5, <2>6, <2>7, <2>8, <2>9
      DEF NoticeViews
  <1>6. \A v \in TransportViews : Told(v)
    <2>1. Told(dropdown_vehicles)
      BY <1>1, Fields DEF dropdown_vehicles, Pages
    <2>2. Told(list_vehicles)
      BY <1>1, Fields DEF list_vehicles, Pages
    <2>3. Told(get_vehicle)
      BY <1>2 DEF get_vehicle
    <2>4. Told(dropdown_routes)
      BY <1>1, Fields DEF dropdown_routes, Pages
    <2>5. Told(list_routes)
      BY <1>1, Fields DEF list_routes, Pages
    <2>6. Told(get_route)
      BY <1>2 DEF get_route
    <2>7. Told(dropdown_vehicle_route_maps)
      BY <1>1, Fields DEF dropdown_vehicle_route_maps, Pages
    <2>8. Told(list_vehicle_route_maps)
      BY <1>1, Fields DEF list_vehicle_route_maps, Pages
    <2>9. Told(get_vehicle_route_map)
      BY <1>2 DEF get_vehicle_route_map
    <2>10. Told(dropdown_transportation_students)
      BY <1>1, Fields DEF dropdown_transportation_students, Pages
    <2>11. Told(list_transportation_students)
      BY <1>1, Fields DEF list_transportation_students, Pages
    <2>12. Told(get_transportation_student)
      BY <1>2 DEF get_transportation_student
    <2>13. Told(dropdown_vehicle_expenses)
      BY <1>1, Fields DEF dropdown_vehicle_expenses, Pages
    <2>14. Told(list_vehicle_expenses)
      BY <1>1, Fields DEF list_vehicle_expenses, Pages
    <2>15. Told(get_vehicle_expense)
      BY <1>2 DEF get_vehicle_expense
    <2> QED
      BY <2>1, <2>2, <2>3, <2>4, <2>5, <2>6, <2>7, <2>8, <2>9, <2>10, <2>11, <2>12, <2>13, <2>14, <2>15
      DEF TransportViews
  <1>7. \A v \in ExamViews : Told(v)
    <2>1. Told(list_grades)
      BY <1>1, Fields DEF list_grades, Pages
    <2>2. Told(get_grade)
      BY <1>2 DEF get_grade
    <2>3. Told(list_exams)
      BY <1>1, Fields DEF list_exams, Pages
    <2>4. Told(get_exam)
      BY <1>2 DEF get_exam
    <2>5. Told(list_exam_timetables)
      BY <1>1, Fields DEF list_exam_timetables, Pages
    <2>6. Told(list_marks)
      BY <1>1, Fields DEF list_marks, Pages
    <2>7. Told(list_offline_marks)
      BY <1>1, Fields DEF list_offline_marks, Pages
    <2>8. Told(list_online_marks)
      BY <1>1, Fields DEF list_online_marks, Pages
    <2>9. Told(list_online_exams)
      BY <1>1, Fields DEF list_online_exams, Pages
    <2>10. Told(list_online_classes)
      BY <1>1, Fields DEF list_online_classes, Pages
    <2> QED
      BY <2>1, <2>2, <2>3, <2>4, <2>5, <2>6, <2>7, <2>8, <2>9, <2>10
      DEF ExamViews
  <1> QED BY <1>3, <1>4, <1>5, <1>6, <1>7 DEF AllViews, AllCollapsed

(* Theorem: every cached answer of the API answers what was asked, the     *)
(* list of school groups, the dashboard and odd texts aside.               *)
THEOREM ApiAnswersRight ==
  ASSUME Views = AllViews, Collapsed = AllCollapsed
  PROVE  Spec => []AnswersAsAsked
  BY ApiTold, AnswersRight

(* Theorem: only a commit makes an answer outdated that is in Redis or on  *)
(* its way there: once writes stop, nothing becomes outdated any more, in  *)
(* whatever order requests read, store, sweep, fail and expire.            *)
THEOREM OnlyCommitsOutdate ==
  Spec => [][Stale(entry, reqs)' => Stale(entry, reqs) \/ CommitStep]_vars
  <1>1. Inv /\ Answers /\ [Next]_vars
          => [Stale(entry, reqs)' => Stale(entry, reqs) \/ CommitStep]_vars
    BY StepFollows, ExpireFollows DEF Next
  <1> QED BY <1>1, Invariance, AnswersInvariant, PTL DEF Spec

(* Theorem: whatever is in Redis has a time to live, so that what races    *)
(* and forgotten invalidations leave there does not stay.                  *)
THEOREM EveryAnswerExpires == Spec => [](entry.ttl)
  <1>1. Answers => entry.ttl
    BY DEF Answers
  <1> QED BY <1>1, AnswersInvariant, PTL

-----------------------------------------------------------------------------
(* The route tables of the API are covered.                                *)

(* The resources of each module of tables.                                 *)
SchoolNames ==
  {"school_group", "class", "section", "subject", "timetable", "class_teacher"}
PeopleNames ==
  {"role", "employee", "emp_mapping", "inquiry", "emp_leave_request",
   "student", "emp_attendance", "student_attendance"}
NoticeNames ==
  {"holiday", "notification", "announcement", "student_diary", "dashboard"}
TransportNames ==
  {"vehicle_details", "routes", "vehicle_routes_map", "transportation_student",
   "vehicle_expenses"}
ExamNames ==
  {"grade", "exam", "exam_timetable", "marks", "online_exam", "online_class"}

(* One of the calls reaches the key. *)
Hits(ops, key) ==
  /\ \E n \in Nat : DOMAIN ops = 1 .. n
  /\ \E i \in DOMAIN ops : Concerns(ops[i], key)

(* A handler that goes for the key has a call to make. *)
LEMMA HitTodo ==
  ASSUME NEW w, NEW v, Hits(w.ops, v.key)
  PROVE  Todo(w, v) # << >>
  <1> DEFINE calls == Reaching(w, v)
  <1>1. PICK n \in Nat : DOMAIN w.ops = 1 .. n
    BY DEF Hits
  <1>2. calls \subseteq 1 .. n /\ calls # {}
    BY <1>1 DEF Reaching, Hits
  <1>3. IsFiniteSet(1 .. n)
    BY FS_Interval
  <1>4. IsFiniteSet(calls)
    BY <1>2, <1>3, FS_Subset
  <1>5. Cardinality(calls) \in Nat /\ Cardinality(calls) # 0
    BY <1>2, <1>4, FS_CardinalityType, FS_EmptySet
  <1>6. DOMAIN Todo(w, v) = 1 .. Cardinality(calls)
    BY DEF Todo
  <1>7. 1 \in DOMAIN Todo(w, v)
    BY <1>5, <1>6
  <1> QED BY <1>7

(* A handler that changes an answer goes for its entry, or is known not to. *)
Kept(w, v) ==
  Touches(w, v) => Todo(w, v) # << >> \/ << w, v >> \in AllForgotten

(* The handlers W and the answers V are those of a resource, and the       *)
(* handlers keep the answers.                                              *)
Keeps(resource, W, V) ==
  /\ \A w \in W : w.resource = resource
  /\ \A v \in V : v.resource = resource
  /\ \A w \in W, v \in V : Kept(w, v)

LEMMA Names ==
  /\ \A resource, key, fields, filters, rows, labels :
        List(resource, key, fields, filters, rows, labels).resource = resource
  /\ \A resource, key, labels :
        Item(resource, key, labels).resource = resource
  /\ \A resource, inserts, updates, ops :
        Route(resource, inserts, updates, ops).resource = resource
  BY DEF List, Item, Route

(* Which calls concern a key of two segments. *)
LEMMA Matches ==
  \A a, b :
    /\ Concerns(Set(<< a, b >>), << a, b >>)
    /\ Concerns(Del(<< a, b >>), << a, b >>)
    /\ Concerns(Sweep(<< a, b >>), << a, b >>)
    /\ Concerns(Sweep(<< a >>), << a, b >>)
  BY DEF Concerns, Set, Del, Sweep, IsPrefix

LEMMA Hitting ==
  /\ \A a, key : Concerns(a, key) => Hits(<< a >>, key)
  /\ \A a, b, key : Concerns(a, key) \/ Concerns(b, key) => Hits(<< a, b >>, key)
  /\ \A a, b, c, key : Concerns(a, key) \/ Concerns(b, key) \/ Concerns(c, key)
                          => Hits(<< a, b, c >>, key)
  BY DEF Hits

LEMMA HittingEight ==
  \A a, b, c, d, e, f, g, h, key :
    Concerns(a, key) \/ Concerns(b, key) \/ Concerns(c, key)
      => Hits(<< a, b, c, d, e, f, g, h >>, key)
  BY DEF Hits

(* A list is kept by a handler that writes nothing or goes for its key; an *)
(* item also by one that only inserts.                                     *)
LEMMA ListKept ==
  \A owner, inserts, updates, ops, resource, key, fields, filters, rows, labels :
    (inserts = {} /\ updates = {}) \/ Hits(ops, key)
      => Kept(Route(owner, inserts, updates, ops),
              List(resource, key, fields, filters, rows, labels))
  BY HitTodo DEF Kept, Touches, Route, List

LEMMA ItemKept ==
  \A owner, inserts, updates, ops, resource, key, labels :
    updates = {} \/ Hits(ops, key)
      => Kept(Route(owner, inserts, updates, ops), Item(resource, key, labels))
  BY HitTodo DEF Kept, Touches, Route, Item

LEMMA GroupsKept ==
  \A owner, inserts, updates, ops :
    (inserts = {} /\ updates = {}) \/ Hits(ops, << "school_groups", "list" >>)
      => Kept(Route(owner, inserts, updates, ops), list_school_groups)
  BY HitTodo DEF Kept, Touches, Route, List, list_school_groups

LEMMA ForgottenKept == \A w, v : << w, v >> \in AllForgotten => Kept(w, v)
  BY DEF Kept

-----------------------------------------------------------------------------
(* SchoolRoutes *)
LEMMA SchoolGroupKeeps ==
  Keeps("school_group",
    {create_school_group, update_school_group, delete_school_group},
    {list_school_groups, get_school_group, dropdown_school_groups})
  <1>1. /\ Kept(create_school_group, list_school_groups)
        /\ Kept(create_school_group, get_school_group)
        /\ Kept(create_school_group, dropdown_school_groups)
        /\ Kept(update_school_group, list_school_groups)
        /\ Kept(update_school_group, get_school_group)
        /\ Kept(update_school_group, dropdown_school_groups)
        /\ Kept(delete_school_group, list_school_groups)
        /\ Kept(delete_school_group, get_school_group)
        /\ Kept(delete_school_group, dropdown_school_groups)
    BY GroupsKept, ListKept, ItemKept, Hitting, Matches, Zenon
    DEF create_school_group, update_school_group, delete_school_group,
        get_school_group, dropdown_school_groups
  <1>2. /\ \A w \in {create_school_group, update_school_group, delete_school_group} :
              w.resource = "school_group"
        /\ \A v \in {list_school_groups, get_school_group, dropdown_school_groups} :
              v.resource = "school_group"
    BY Names DEF create_school_group, update_school_group, delete_school_group,
                 list_school_groups, get_school_group, dropdown_school_groups
  <1> QED BY <1>1, <1>2 DEF Keeps

LEMMA ClassKeeps ==
  Keeps("class",
    {create_class, update_class, delete_class},
    {list_classes, get_class, dropdown_classes})
  <1>1. /\ Kept(create_class, list_classes) /\ Kept(create_class, get_class)
        /\ Kept(create_class, dropdown_classes) /\ Kept(update_class, list_classes)
        /\ Kept(update_class, get_class) /\ Kept(update_class, dropdown_classes)
        /\ Kept(delete_class, list_classes) /\ Kept(delete_class, get_class)
        /\ Kept(delete_class, dropdown_classes)
    BY ListKept, ItemKept, Hitting, HittingEight, Matches, Zenon
    DEF create_class, update_class, delete_class, list_classes, get_class,
        dropdown_classes
  <1>2. /\ \A w \in {create_class, update_class, delete_class} :
              w.resource = "class"
        /\ \A v \in {list_classes, get_class, dropdown_classes} :
              v.resource = "class"
    BY Names DEF create_class, update_class, delete_class, list_classes,
                 get_class, dropdown_classes
  <1> QED BY <1>1, <1>2 DEF Keeps

LEMMA SectionKeeps ==
  Keeps("section",
    {create_section, update_section, delete_section},
    {list_sections, get_section, dropdown_sections})
  <1>1. /\ Kept(create_section, list_sections) /\ Kept(create_section, get_section)
        /\ Kept(create_section, dropdown_sections)
        /\ Kept(update_section, list_sections) /\ Kept(update_section, get_section)
        /\ Kept(update_section, dropdown_sections)
        /\ Kept(delete_section, list_sections) /\ Kept(delete_section, get_section)
        /\ Kept(delete_section, dropdown_sections)
    BY ListKept, ItemKept, Hitting, Matches, Zenon
    DEF create_section, update_section, delete_section, list_sections,
        get_section, dropdown_sections
  <1>2. /\ \A w \in {create_section, update_section, delete_section} :
              w.resource = "section"
        /\ \A v \in {list_sections, get_section, dropdown_sections} :
              v.resource = "section"
    BY Names DEF create_section, update_section, delete_section, list_sections,
                 get_section, dropdown_sections
  <1> QED BY <1>1, <1>2 DEF Keeps

LEMMA SubjectKeeps ==
  Keeps("subject",
    {create_subject, update_subject, delete_subject},
    {list_subjects, get_subject, dropdown_subjects})
  <1>1. /\ Kept(create_subject, list_subjects) /\ Kept(create_subject, get_subject)
        /\ Kept(create_subject, dropdown_subjects)
        /\ Kept(update_subject, list_subjects) /\ Kept(update_subject, get_subject)
        /\ Kept(update_subject, dropdown_subjects)
        /\ Kept(delete_subject, list_subjects) /\ Kept(delete_subject, get_subject)
        /\ Kept(delete_subject, dropdown_subjects)
    BY ListKept, ItemKept, Hitting, Matches, Zenon
    DEF create_subject, update_subject, delete_subject, list_subjects,
        get_subject, dropdown_subjects
  <1>2. /\ \A w \in {create_subject, update_subject, delete_subject} :
              w.resource = "subject"
        /\ \A v \in {list_subjects, get_subject, dropdown_subjects} :
              v.resource = "subject"
    BY Names DEF create_subject, update_subject, delete_subject, list_subjects,
                 get_subject, dropdown_subjects
  <1> QED BY <1>1, <1>2 DEF Keeps

LEMMA TimetableKeeps ==
  Keeps("timetable",
    {create_timetable, update_timetable, delete_timetable},
    {get_timetable, list_timetables})
  <1>1. /\ Kept(create_timetable, get_timetable)
        /\ Kept(create_timetable, list_timetables)
        /\ Kept(update_timetable, get_timetable)
        /\ Kept(update_timetable, list_timetables)
        /\ Kept(delete_timetable, get_timetable)
        /\ Kept(delete_timetable, list_timetables)
    BY ListKept, ItemKept, Hitting, Matches, Zenon
    DEF create_timetable, update_timetable, delete_timetable, get_timetable,
        list_timetables
  <1>2. /\ \A w \in {create_timetable, update_timetable, delete_timetable} :
              w.resource = "timetable"
        /\ \A v \in {get_timetable, list_timetables} :
              v.resource = "timetable"
    BY Names DEF create_timetable, update_timetable, delete_timetable,
                 get_timetable, list_timetables
  <1> QED BY <1>1, <1>2 DEF Keeps

LEMMA ClassTeacherKeeps ==
  Keeps("class_teacher",
    {create_class_teacher, create_subject_teacher, update_class_teacher,
     delete_class_teacher},
    {list_class_section_teachers})
  <1>1. /\ Kept(create_class_teacher, list_class_section_teachers)
        /\ Kept(create_subject_teacher, list_class_section_teachers)
        /\ Kept(update_class_teacher, list_class_section_teachers)
        /\ Kept(delete_class_teacher, list_class_section_teachers)
    BY ListKept, ItemKept, Hitting, Matches, Zenon
    DEF create_class_teacher, create_subject_teacher, update_class_teacher,
        delete_class_teacher, list_class_section_teachers
  <1>2. /\ \A w \in {create_class_teacher, create_subject_teacher,
               update_class_teacher, delete_class_teacher} :
              w.resource = "class_teacher"
        /\ \A v \in {list_class_section_teachers} :
              v.resource = "class_teacher"
    BY Names DEF create_class_teacher, create_subject_teacher,
                 update_class_teacher, delete_class_teacher,
                 list_class_section_teachers
  <1> QED BY <1>1, <1>2 DEF Keeps

LEMMA SchoolRoutesKeep ==
  /\ \A w \in SchoolWrites, v \in SchoolViews :
        w.resource = v.resource => Kept(w, v)
  /\ \A x \in SchoolWrites \cup SchoolViews : x.resource \in SchoolNames
  <1> USE SchoolGroupKeeps, ClassKeeps, SectionKeeps, SubjectKeeps, TimetableKeeps,
          ClassTeacherKeeps
          DEF Keeps, SchoolWrites, SchoolViews
  <1>1. ASSUME NEW w \in SchoolWrites, NEW v \in SchoolViews, w.resource = v.resource
        PROVE  Kept(w, v)
    BY <1>1, SMTT(30)
  <1>2. \A x \in SchoolWrites \cup SchoolViews : x.resource \in SchoolNames
    BY SMTT(30) DEF SchoolNames
  <1> QED BY <1>1, <1>2

-----------------------------------------------------------------------------
(* PeopleRoutes *)
LEMMA RoleKeeps ==
  Keeps("role",
    {create_role, update_role},
    {list_roles, get_role, dropdown_roles})
  <1>1. << update_role, get_role >> \in AllForgotten
    BY DEF AllForgotten, PeopleForgotten, StudentWrites,
           EmployeeAttendanceWrites, StudentAttendanceWrites
  <1>2. /\ Kept(create_role, list_roles) /\ Kept(create_role, get_role)
        /\ Kept(create_role, dropdown_roles) /\ Kept(update_role, list_roles)
        /\ Kept(update_role, get_role) /\ Kept(update_role, dropdown_roles)
    BY <1>1, ForgottenKept, ListKept, ItemKept, Hitting, Matches, Zenon
    DEF create_role, update_role, list_roles, get_role, dropdown_roles
  <1>3. /\ \A w \in {create_role, update_role} :
              w.resource = "role"
        /\ \A v \in {list_roles, get_role, dropdown_roles} :
              v.resource = "role"
    BY Names DEF create_role, update_role, list_roles, get_role, dropdown_roles
  <1> QED BY <1>2, <1>3 DEF Keeps

LEMMA EmployeeKeeps ==
  Keeps("employee",
    {create_employee, update_employee, delete_employee, bulk_upload_employees},
    {get_employee, list_employees, dropdown_employees})
  <1>1. << bulk_upload_employees, get_employee >> \in AllForgotten
    BY DEF AllForgotten, PeopleForgotten, StudentWrites,
           EmployeeAttendanceWrites, StudentAttendanceWrites
  <1>2. /\ Kept(create_employee, get_employee)
        /\ Kept(create_employee, list_employees)
        /\ Kept(create_employee, dropdown_employees)
        /\ Kept(update_employee, get_employee)
        /\ Kept(update_employee, list_employees)
        /\ Kept(update_employee, dropdown_employees)
        /\ Kept(delete_employee, get_employee)
        /\ Kept(delete_employee, list_employees)
        /\ Kept(delete_employee, dropdown_employees)
        /\ Kept(bulk_upload_employees, get_employee)
        /\ Kept(bulk_upload_employees, list_employees)
        /\ Kept(bulk_upload_employees, dropdown_employees)
    BY <1>1, ForgottenKept, ListKept, ItemKept, Hitting, Matches, Zenon
    DEF create_employee, update_employee, delete_employee,
        bulk_upload_employees, get_employee, list_employees, dropdown_employees
  <1>3. /\ \A w \in {create_employee, update_employee, delete_employee,
               bulk_upload_employees} :
              w.resource = "employee"
        /\ \A v \in {get_employee, list_employees, dropdown_employees} :
              v.resource = "employee"
    BY Names DEF create_employee, update_employee, delete_employee,
                 bulk_upload_employees, get_employee, list_employees,
                 dropdown_employees
  <1> QED BY <1>2, <1>3 DEF Keeps

LEMMA EmpMappingKeeps ==
  Keeps("emp_mapping",
    {create_mapping, update_mapping, delete_mapping},
    {list_mappings})
  <1>1. /\ Kept(create_mapping, list_mappings) /\ Kept(update_mapping, list_mappings)
        /\ Kept(delete_mapping, list_mappings)
    BY ListKept, ItemKept, Hitting, Matches, Zenon
    DEF create_mapping, update_mapping, delete_mapping, list_mappings
  <1>2. /\ \A w \in {create_mapping, update_mapping, delete_mapping} :
              w.resource = "emp_mapping"
        /\ \A v \in {list_mappings} :
              v.resource = "emp_mapping"
    BY Names DEF create_mapping, update_mapping, delete_mapping, list_mappings
  <1> QED BY <1>1, <1>2 DEF Keeps

LEMMA InquiryKeeps ==
  Keeps("inquiry",
    {create_inquiry, update_inquiry, delete_inquiry},
    {list_inquiries, get_inquiry})
  <1>1. /\ Kept(create_inquiry, list_inquiries) /\ Kept(create_inquiry, get_inquiry)
        /\ Kept(update_inquiry, list_inquiries) /\ Kept(update_inquiry, get_inquiry)
        /\ Kept(delete_inquiry, list_inquiries) /\ Kept(delete_inquiry, get_inquiry)
    BY ListKept, ItemKept, Hitting, Matches, Zenon
    DEF create_inquiry, update_inquiry, delete_inquiry, list_inquiries,
        get_inquiry
  <1>2. /\ \A w \in {create_inquiry, update_inquiry, delete_inquiry} :
              w.resource = "inquiry"
        /\ \A v \in {list_inquiries, get_inquiry} :
              v.resource = "inquiry"
    BY Names DEF create_inquiry, update_inquiry, delete_inquiry,
                 list_inquiries, get_inquiry
  <1> QED BY <1>1, <1>2 DEF Keeps

LEMMA EmpLeaveRequestKeeps ==
  Keeps("emp_leave_request",
    {create_leave_request, update_leave_request, approve_leave_request,
     reject_leave_request, delete_leave_request},
    {list_leave_requests, get_leave_request})
  <1>1. /\ Kept(create_leave_request, list_leave_requests)
        /\ Kept(create_leave_request, get_leave_request)
        /\ Kept(update_leave_request, list_leave_requests)
        /\ Kept(update_leave_request, get_leave_request)
        /\ Kept(approve_leave_request, list_leave_requests)
        /\ Kept(approve_leave_request, get_leave_request)
        /\ Kept(reject_leave_request, list_leave_requests)
        /\ Kept(reject_leave_request, get_leave_request)
        /\ Kept(delete_leave_request, list_leave_requests)
        /\ Kept(delete_leave_request, get_leave_request)
    BY ListKept, ItemKept, Hitting, Matches, Zenon
    DEF LeaveSet, create_leave_request, update_leave_request,
        approve_leave_request, reject_leave_request, delete_leave_request,
        list_leave_requests, get_leave_request
  <1>2. /\ \A w \in {create_leave_request, update_leave_request,
               approve_leave_request, reject_leave_request,
               delete_leave_request} :
              w.resource = "emp_leave_request"
        /\ \A v \in {list_leave_requests, get_leave_request} :
              v.resource = "emp_leave_request"
    BY Names DEF create_leave_request, update_leave_request,
                 approve_leave_request, reject_leave_request,
                 delete_leave_request, list_leave_requests, get_leave_request
  <1> QED BY <1>1, <1>2 DEF Keeps

LEMMA StudentKeeps ==
  Keeps("student",
    {create_student, bulk_upload_students, update_student,
     update_student_mapping, transfer_student, promote_students},
    {get_student, list_students, dropdown_students, get_guardian_list_by_class})
  <1>1. /\ << create_student, dropdown_students >> \in AllForgotten
        /\ << create_student, get_guardian_list_by_class >> \in AllForgotten
        /\ << bulk_upload_students, dropdown_students >> \in AllForgotten
        /\ << bulk_upload_students, get_guardian_list_by_class >> \in AllForgotten
        /\ << update_student, get_guardian_list_by_class >> \in AllForgotten
        /\ << update_student_mapping, get_guardian_list_by_class >> \in AllForgotten
        /\ << transfer_student, dropdown_students >> \in AllForgotten
        /\ << transfer_student, get_guardian_list_by_class >> \in AllForgotten
        /\ << promote_students, get_student >> \in AllForgotten
        /\ << promote_students, get_guardian_list_by_class >> \in AllForgotten
    BY DEF AllForgotten, PeopleForgotten, StudentWrites,
           EmployeeAttendanceWrites, StudentAttendanceWrites
  <1>2. /\ Kept(create_student, get_student) /\ Kept(create_student, list_students)
        /\ Kept(create_student, dropdown_students)
        /\ Kept(create_student, get_guardian_list_by_class)
        /\ Kept(bulk_upload_students, get_student)
        /\ Kept(bulk_upload_students, list_students)
        /\ Kept(bulk_upload_students, dropdown_students)
        /\ Kept(bulk_upload_students, get_guardian_list_by_class)
        /\ Kept(update_student, get_student) /\ Kept(update_student, list_students)
        /\ Kept(update_student, dropdown_students)
        /\ Kept(update_student, get_guardian_list_by_class)
        /\ Kept(update_student_mapping, get_student)
        /\ Kept(update_student_mapping, list_students)
        /\ Kept(update_student_mapping, dropdown_students)
        /\ Kept(update_student_mapping, get_guardian_list_by_class)
        /\ Kept(transfer_student, get_student)
        /\ Kept(transfer_student, list_students)
        /\ Kept(transfer_student, dropdown_students)
        /\ Kept(transfer_student, get_guardian_list_by_class)
        /\ Kept(promote_students, get_student)
        /\ Kept(promote_students, list_students)
        /\ Kept(promote_students, dropdown_students)
        /\ Kept(promote_students, get_guardian_list_by_class)
    BY <1>1, ForgottenKept, ListKept, ItemKept, Hitting, Matches, Zenon
    DEF create_student, bulk_upload_students, update_student,
        update_student_mapping, transfer_student, promote_students,
        get_student, list_students, dropdown_students,
        get_guardian_list_by_class
  <1>3. /\ \A w \in {create_student, bulk_upload_students, update_student,
               update_student_mapping, transfer_student, promote_students} :
              w.resource = "student"
        /\ \A v \in {get_student, list_students, dropdown_students,
               get_guardian_list_by_class} :
              v.resource = "student"
    BY Names DEF create_student, bulk_upload_students, update_student,
                 update_student_mapping, transfer_student, promote_students,
                 get_student, list_students, dropdown_students,
                 get_guardian_list_by_class
  <1> QED BY <1>2, <1>3 DEF Keeps

LEMMA EmpAttendanceKeeps ==
  Keeps("emp_attendance",
    {create_bulk_employee_attendance, update_employee_attendance,
     delete_employee_attendance},
    {list_employee_attendance, get_employee_attendance,
     employee_attendance_count_today})
  <1>1. /\ << create_bulk_employee_attendance, employee_attendance_count_today >> \in AllForgotten
        /\ << update_employee_attendance, employee_attendance_count_today >> \in AllForgotten
        /\ << delete_employee_attendance, employee_attendance_count_today >> \in AllForgotten
    BY DEF AllForgotten, PeopleForgotten, StudentWrites,
           EmployeeAttendanceWrites, StudentAttendanceWrites
  <1>2. /\ Kept(create_bulk_employee_attendance, list_employee_attendance)
        /\ Kept(create_bulk_employee_attendance, get_employee_attendance)
        /\ Kept(create_bulk_employee_attendance, employee_attendance_count_today)
        /\ Kept(update_employee_attendance, list_employee_attendance)
        /\ Kept(update_employee_attendance, get_employee_attendance)
        /\ Kept(update_employee_attendance, employee_attendance_count_today)
        /\ Kept(delete_employee_attendance, list_employee_attendance)
        /\ Kept(delete_employee_attendance, get_employee_attendance)
        /\ Kept(delete_employee_attendance, employee_attendance_count_today)
    BY <1>1, ForgottenKept, ListKept, ItemKept, Hitting, Matches, Zenon
    DEF create_bulk_employee_attendance, update_employee_attendance,
        delete_employee_attendance, list_employee_attendance,
        get_employee_attendance, employee_attendance_count_today
  <1>3. /\ \A w \in {create_bulk_employee_attendance, update_employee_attendance,
               delete_employee_attendance} :
              w.resource = "emp_attendance"
        /\ \A v \in {list_employee_attendance, get_employee_attendance,
               employee_attendance_count_today} :
              v.resource = "emp_attendance"
    BY Names DEF create_bulk_employee_attendance, update_employee_attendance,
                 delete_employee_attendance, list_employee_attendance,
                 get_employee_attendance, employee_attendance_count_today
  <1> QED BY <1>2, <1>3 DEF Keeps

LEMMA StudentAttendanceKeeps ==
  Keeps("student_attendance",
    {create_bulk_student_attendance, update_student_attendance,
     delete_student_attendance},
    {list_student_attendance, student_attendance_count_today})
  <1>1. /\ << create_bulk_student_attendance, student_attendance_count_today >> \in AllForgotten
        /\ << update_student_attendance, student_attendance_count_today >> \in AllForgotten
        /\ << delete_student_attendance, student_attendance_count_today >> \in AllForgotten
    BY DEF AllForgotten, PeopleForgotten, StudentWrites,
           EmployeeAttendanceWrites, StudentAttendanceWrites
  <1>2. /\ Kept(create_bulk_student_attendance, list_student_attendance)
        /\ Kept(create_bulk_student_attendance, student_attendance_count_today)
        /\ Kept(update_student_attendance, list_student_attendance)
        /\ Kept(update_student_attendance, student_attendance_count_today)
        /\ Kept(delete_student_attendance, list_student_attendance)
        /\ Kept(delete_student_attendance, student_attendance_count_today)
    BY <1>1, ForgottenKept, ListKept, ItemKept, Hitting, Matches, Zenon
    DEF create_bulk_student_attendance, update_student_attendance,
        delete_student_attendance, list_student_attendance,
        student_attendance_count_today
  <1>3. /\ \A w \in {create_bulk_student_attendance, update_student_attendance,
               delete_student_attendance} :
              w.resource = "student_attendance"
        /\ \A v \in {list_student_attendance, student_attendance_count_today} :
              v.resource = "student_attendance"
    BY Names DEF create_bulk_student_attendance, update_student_attendance,
                 delete_student_attendance, list_student_attendance,
                 student_attendance_count_today
  <1> QED BY <1>2, <1>3 DEF Keeps

LEMMA PeopleRoutesKeep ==
  /\ \A w \in PeopleWrites, v \in PeopleViews :
        w.resource = v.resource => Kept(w, v)
  /\ \A x \in PeopleWrites \cup PeopleViews : x.resource \in PeopleNames
  <1> USE RoleKeeps, EmployeeKeeps, EmpMappingKeeps, InquiryKeeps, EmpLeaveRequestKeeps,
          StudentKeeps, EmpAttendanceKeeps, StudentAttendanceKeeps
          DEF Keeps, StudentWrites, EmployeeAttendanceWrites, StudentAttendanceWrites
  <1>1. ASSUME NEW w \in StudentWrites \cup EmployeeAttendanceWrites \cup StudentAttendanceWrites,
               NEW v \in PeopleViews, w.resource = v.resource
        PROVE  Kept(w, v)
    BY <1>1, SMTT(30) DEF PeopleViews
  <1>2. ASSUME NEW w \in PeopleWrites \ (StudentWrites \cup EmployeeAttendanceWrites
                                           \cup StudentAttendanceWrites),
               NEW v \in PeopleViews, w.resource = v.resource
        PROVE  Kept(w, v)
    BY <1>2, SMTT(30) DEF PeopleViews, PeopleWrites
  <1>3. \A x \in PeopleWrites \cup PeopleViews : x.resource \in PeopleNames
    BY SMTT(30) DEF PeopleWrites, PeopleViews, PeopleNames
  <1> QED BY <1>1, <1>2, <1>3

-----------------------------------------------------------------------------
(* NoticeRoutes *)
LEMMA HolidayKeeps ==
  Keeps("holiday",
    {create_holiday, update_holiday, delete_holiday},
    {list_holidays, get_holiday})
  <1>1. /\ Kept(create_holiday, list_holidays) /\ Kept(create_holiday, get_holiday)
        /\ Kept(update_holiday, list_holidays) /\ Kept(update_holiday, get_holiday)
        /\ Kept(delete_holiday, list_holidays) /\ Kept(delete_holiday, get_holiday)
    BY ListKept, ItemKept, Hitting, Matches, Zenon
    DEF AfterSave, AfterDelete, create_holiday, update_holiday, delete_holiday,
        list_holidays, get_holiday
  <1>2. /\ \A w \in {create_holiday, update_holiday, delete_holiday} :
              w.resource = "holiday"
        /\ \A v \in {list_holidays, get_holiday} :
              v.resource = "holiday"
    BY Names DEF create_holiday, update_holiday, delete_holiday, list_holidays,
                 get_holiday
  <1> QED BY <1>1, <1>2 DEF Keeps

LEMMA NotificationKeeps ==
  Keeps("notification",
    {create_notification, update_notification, delete_notification},
    {list_notifications, get_notification})
  <1>1. /\ Kept(create_notification, list_notifications)
        /\ Kept(create_notification, get_notification)
        /\ Kept(update_notification, list_notifications)
        /\ Kept(update_notification, get_notification)
        /\ Kept(delete_notification, list_notifications)
        /\ Kept(delete_notification, get_notification)
    BY ListKept, ItemKept, Hitting, Matches, Zenon
    DEF AfterSave, AfterDelete, create_notification, update_notification,
        delete_notification, list_notifications, get_notification
  <1>2. /\ \A w \in {create_notification, update_notification, delete_notification} :
              w.resource = "notification"
        /\ \A v \in {list_notifications, get_notification} :
              v.resource = "notification"
    BY Names DEF create_notification, update_notification, delete_notification,
                 list_notifications, get_notification
  <1> QED BY <1>1, <1>2 DEF Keeps

LEMMA AnnouncementKeeps ==
  Keeps("announcement",
    {create_announcement, update_announcement, delete_announcement},
    {list_announcements, get_announcement})
  <1>1. /\ Kept(create_announcement, list_announcements)
        /\ Kept(create_announcement, get_announcement)
        /\ Kept(update_announcement, list_announcements)
        /\ Kept(update_announcement, get_announcement)
        /\ Kept(delete_announcement, list_announcements)
        /\ Kept(delete_announcement, get_announcement)
    BY ListKept, ItemKept, Hitting, Matches, Zenon
    DEF AfterSave, AfterDelete, create_announcement, update_announcement,
        delete_announcement, list_announcements, get_announcement
  <1>2. /\ \A w \in {create_announcement, update_announcement, delete_announcement} :
              w.resource = "announcement"
        /\ \A v \in {list_announcements, get_announcement} :
              v.resource = "announcement"
    BY Names DEF create_announcement, update_announcement, delete_announcement,
                 list_announcements, get_announcement
  <1> QED BY <1>1, <1>2 DEF Keeps

LEMMA StudentDiaryKeeps ==
  Keeps("student_diary",
    {create_diary, update_diary, delete_diary},
    {list_diaries, get_diary})
  <1>1. /\ Kept(create_diary, list_diaries) /\ Kept(create_diary, get_diary)
        /\ Kept(update_diary, list_diaries) /\ Kept(update_diary, get_diary)
        /\ Kept(delete_diary, list_diaries) /\ Kept(delete_diary, get_diary)
    BY ListKept, ItemKept, Hitting, Matches, Zenon
    DEF AfterSave, AfterDelete, create_diary, update_diary, delete_diary,
        list_diaries, get_diary
  <1>2. /\ \A w \in {create_diary, update_diary, delete_diary} :
              w.resource = "student_diary"
        /\ \A v \in {list_diaries, get_diary} :
              v.resource = "student_diary"
    BY Names DEF create_diary, update_diary, delete_diary, list_diaries,
                 get_diary
  <1> QED BY <1>1, <1>2 DEF Keeps

LEMMA DashboardKeeps ==
  Keeps("dashboard",
    {},
    {get_dashboard, get_today_birthdays})
  BY Names DEF Keeps, get_dashboard, get_today_birthdays

LEMMA NoticeRoutesKeep ==
  /\ \A w \in NoticeWrites, v \in NoticeViews :
        w.resource = v.resource => Kept(w, v)
  /\ \A x \in NoticeWrites \cup NoticeViews : x.resource \in NoticeNames
  <1> USE HolidayKeeps, NotificationKeeps, AnnouncementKeeps, StudentDiaryKeeps,
          DashboardKeeps
          DEF Keeps, NoticeWrites, NoticeViews
  <1>1. ASSUME NEW w \in NoticeWrites, NEW v \in NoticeViews, w.resource = v.resource
        PROVE  Kept(w, v)
    BY <1>1, SMTT(30)
  <1>2. \A x \in NoticeWrites \cup NoticeViews : x.resource \in NoticeNames
    BY SMTT(30) DEF NoticeNames
  <1> QED BY <1>1, <1>2

-----------------------------------------------------------------------------
(* TransportRoutes *)
LEMMA VehicleDetailsKeeps ==
  Keeps("vehicle_details",
    {create_vehicle, update_vehicle, delete_vehicle},
    {dropdown_vehicles, list_vehicles, get_vehicle})
  <1>1. /\ Kept(create_vehicle, dropdown_vehicles)
        /\ Kept(create_vehicle, list_vehicles) /\ Kept(create_vehicle, get_vehicle)
        /\ Kept(update_vehicle, dropdown_vehicles)
        /\ Kept(update_vehicle, list_vehicles) /\ Kept(update_vehicle, get_vehicle)
        /\ Kept(delete_vehicle, dropdown_vehicles)
        /\ Kept(delete_vehicle, list_vehicles) /\ Kept(delete_vehicle, get_vehicle)
    BY ListKept, ItemKept, Hitting, Matches, Zenon
    DEF AfterDeleteOf, AfterVehicle, AfterSaveOf, create_vehicle,
        update_vehicle, delete_vehicle, dropdown_vehicles, list_vehicles,
        get_vehicle
  <1>2. /\ \A w \in {create_vehicle, update_vehicle, delete_vehicle} :
              w.resource = "vehicle_details"
        /\ \A v \in {dropdown_vehicles, list_vehicles, get_vehicle} :
              v.resource = "vehicle_details"
    BY Names DEF create_vehicle, update_vehicle, delete_vehicle,
                 dropdown_vehicles, list_vehicles, get_vehicle
  <1> QED BY <1>1, <1>2 DEF Keeps

LEMMA RoutesKeeps ==
  Keeps("routes",
    {create_route, update_route, delete_route},
    {dropdown_routes, list_routes, get_route})
  <1>1. /\ Kept(create_route, dropdown_routes) /\ Kept(create_route, list_routes)
        /\ Kept(create_route, get_route) /\ Kept(update_route, dropdown_routes)
        /\ Kept(update_route, list_routes) /\ Kept(update_route, get_route)
        /\ Kept(delete_route, dropdown_routes) /\ Kept(delete_route, list_routes)
        /\ Kept(delete_route, get_route)
    BY ListKept, ItemKept, Hitting, Matches, Zenon
    DEF AfterDeleteOf, AfterRoute, AfterSaveOf, create_route, update_route,
        delete_route, dropdown_routes, list_routes, get_route
  <1>2. /\ \A w \in {create_route, update_route, delete_route} :
              w.resource = "routes"
        /\ \A v \in {dropdown_routes, list_routes, get_route} :
              v.resource = "routes"
    BY Names DEF create_route, update_route, delete_route, dropdown_routes,
                 list_routes, get_route
  <1> QED BY <1>1, <1>2 DEF Keeps

LEMMA VehicleRoutesMapKeeps ==
  Keeps("vehicle_routes_map",
    {create_vehicle_route_map, update_vehicle_route_map,
     delete_vehicle_route_map},
    {dropdown_vehicle_route_maps, list_vehicle_route_maps,
     get_vehicle_route_map})
  <1>1. /\ Kept(create_vehicle_route_map, dropdown_vehicle_route_maps)
        /\ Kept(create_vehicle_route_map, list_vehicle_route_maps)
        /\ Kept(create_vehicle_route_map, get_vehicle_route_map)
        /\ Kept(update_vehicle_route_map, dropdown_vehicle_route_maps)
        /\ Kept(update_vehicle_route_map, list_vehicle_route_maps)
        /\ Kept(update_vehicle_route_map, get_vehicle_route_map)
        /\ Kept(delete_vehicle_route_map, dropdown_vehicle_route_maps)
        /\ Kept(delete_vehicle_route_map, list_vehicle_route_maps)
        /\ Kept(delete_vehicle_route_map, get_vehicle_route_map)
    BY ListKept, ItemKept, Hitting, Matches, Zenon
    DEF AfterDeleteOf, AfterRouteMap, AfterSaveOf, create_vehicle_route_map,
        update_vehicle_route_map, delete_vehicle_route_map,
        dropdown_vehicle_route_maps, list_vehicle_route_maps,
        get_vehicle_route_map
  <1>2. /\ \A w \in {create_vehicle_route_map, update_vehicle_route_map,
               delete_vehicle_route_map} :
              w.resource = "vehicle_routes_map"
        /\ \A v \in {dropdown_vehicle_route_maps, list_vehicle_route_maps,
               get_vehicle_route_map} :
              v.resource = "vehicle_routes_map"
    BY Names DEF create_vehicle_route_map, update_vehicle_route_map,
                 delete_vehicle_route_map, dropdown_vehicle_route_maps,
                 list_vehicle_route_maps, get_vehicle_route_map
  <1> QED BY <1>1, <1>2 DEF Keeps

LEMMA TransportationStudentKeeps ==
  Keeps("transportation_student",
    {create_transportation_student, update_transportation_student,
     delete_transportation_student},
    {dropdown_transportation_students, list_transportation_students,
     get_transportation_student})
  <1>1. /\ Kept(create_transportation_student, dropdown_transportation_students)
        /\ Kept(create_transportation_student, list_transportation_students)
        /\ Kept(create_transportation_student, get_transportation_student)
        /\ Kept(update_transportation_student, dropdown_transportation_students)
        /\ Kept(update_transportation_student, list_transportation_students)
        /\ Kept(update_transportation_student, get_transportation_student)
        /\ Kept(delete_transportation_student, dropdown_transportation_students)
        /\ Kept(delete_transportation_student, list_transportation_students)
        /\ Kept(delete_transportation_student, get_transportation_student)
    BY ListKept, ItemKept, Hitting, Matches, Zenon
    DEF AfterDeleteOf, AfterTransport, AfterSaveOf,
        create_transportation_student, update_transportation_student,
        delete_transportation_student, dropdown_transportation_students,
        list_transportation_students, get_transportation_student
  <1>2. /\ \A w \in {create_transportation_student, update_transportation_student,
               delete_transportation_student} :
              w.resource = "transportation_student"
        /\ \A v \in {dropdown_transportation_students, list_transportation_students,
               get_transportation_student} :
              v.resource = "transportation_student"
    BY Names DEF create_transportation_student, update_transportation_student,
                 delete_transportation_student,
                 dropdown_transportation_students,
                 list_transportation_students, get_transportation_student
  <1> QED BY <1>1, <1>2 DEF Keeps

LEMMA VehicleExpensesKeeps ==
  Keeps("vehicle_expenses",
    {create_vehicle_expense, update_vehicle_expense, delete_vehicle_expense},
    {dropdown_vehicle_expenses, list_vehicle_expenses, get_vehicle_expense})
  <1>1. /\ Kept(create_vehicle_expense, dropdown_vehicle_expenses)
        /\ Kept(create_vehicle_expense, list_vehicle_expenses)
        /\ Kept(create_vehicle_expense, get_vehicle_expense)
        /\ Kept(update_vehicle_expense, dropdown_vehicle_expenses)
        /\ Kept(update_vehicle_expense, list_vehicle_expenses)
        /\ Kept(update_vehicle_expense, get_vehicle_expense)
        /\ Kept(delete_vehicle_expense, dropdown_vehicle_expenses)
        /\ Kept(delete_vehicle_expense, list_vehicle_expenses)
        /\ Kept(delete_vehicle_expense, get_vehicle_expense)
    BY ListKept, ItemKept, Hitting, Matches, Zenon
    DEF AfterDeleteOf, AfterExpense, AfterSaveOf, create_vehicle_expense,
        update_vehicle_expense, delete_vehicle_expense,
        dropdown_vehicle_expenses, list_vehicle_expenses, get_vehicle_expense
  <1>2. /\ \A w \in {create_vehicle_expense, update_vehicle_expense,
               delete_vehicle_expense} :
              w.resource = "vehicle_expenses"
        /\ \A v \in {dropdown_vehicle_expenses, list_vehicle_expenses,
               get_vehicle_expense} :
              v.resource = "vehicle_expenses"
    BY Names DEF create_vehicle_expense, update_vehicle_expense,
                 delete_vehicle_expense, dropdown_vehicle_expenses,
                 list_vehicle_expenses, get_vehicle_expense
  <1> QED BY <1>1, <1>2 DEF Keeps

LEMMA TransportRoutesKeep ==
  /\ \A w \in TransportWrites, v \in TransportViews :
        w.resource = v.resource => Kept(w, v)
  /\ \A x \in TransportWrites \cup TransportViews : x.resource \in TransportNames
  <1> USE VehicleDetailsKeeps, RoutesKeeps, VehicleRoutesMapKeeps,
          TransportationStudentKeeps, VehicleExpensesKeeps
          DEF Keeps, TransportWrites, TransportViews
  <1>1. ASSUME NEW w \in TransportWrites, NEW v \in TransportViews, w.resource = v.resource
        PROVE  Kept(w, v)
    BY <1>1, SMTT(30)
  <1>2. \A x \in TransportWrites \cup TransportViews : x.resource \in TransportNames
    BY SMTT(30) DEF TransportNames
  <1> QED BY <1>1, <1>2

-----------------------------------------------------------------------------
(* ExamRoutes *)
LEMMA GradeKeeps ==
  Keeps("grade",
    {create_grade, create_grades_bulk, delete_grade},
    {list_grades, get_grade})
  <1>1. /\ Kept(create_grade, list_grades) /\ Kept(create_grade, get_grade)
        /\ Kept(create_grades_bulk, list_grades)
        /\ Kept(create_grades_bulk, get_grade) /\ Kept(delete_grade, list_grades)
        /\ Kept(delete_grade, get_grade)
    BY ListKept, ItemKept, Hitting, Matches, Zenon
    DEF create_grade, create_grades_bulk, delete_grade, list_grades, get_grade
  <1>2. /\ \A w \in {create_grade, create_grades_bulk, delete_grade} :
              w.resource = "grade"
        /\ \A v \in {list_grades, get_grade} :
              v.resource = "grade"
    BY Names DEF create_grade, create_grades_bulk, delete_grade, list_grades,
                 get_grade
  <1> QED BY <1>1, <1>2 DEF Keeps

LEMMA ExamKeeps ==
  Keeps("exam",
    {create_exam, update_exam, delete_exam},
    {list_exams, get_exam})
  <1>1. /\ Kept(create_exam, list_exams) /\ Kept(create_exam, get_exam)
        /\ Kept(update_exam, list_exams) /\ Kept(update_exam, get_exam)
        /\ Kept(delete_exam, list_exams) /\ Kept(delete_exam, get_exam)
    BY ListKept, ItemKept, Hitting, Matches, Zenon
    DEF create_exam, update_exam, delete_exam, list_exams, get_exam
  <1>2. /\ \A w \in {create_exam, update_exam, delete_exam} :
              w.resource = "exam"
        /\ \A v \in {list_exams, get_exam} :
              v.resource = "exam"
    BY Names DEF create_exam, update_exam, delete_exam, list_exams, get_exam
  <1> QED BY <1>1, <1>2 DEF Keeps

LEMMA ExamTimetableKeeps ==
  Keeps("exam_timetable",
    {create_exam_timetable, update_exam_timetable, delete_exam_timetable},
    {list_exam_timetables})
  <1>1. /\ Kept(create_exam_timetable, list_exam_timetables)
        /\ Kept(update_exam_timetable, list_exam_timetables)
        /\ Kept(delete_exam_timetable, list_exam_timetables)
    BY ListKept, ItemKept, Hitting, Matches, Zenon
    DEF create_exam_timetable, update_exam_timetable, delete_exam_timetable,
        list_exam_timetables
  <1>2. /\ \A w \in {create_exam_timetable, update_exam_timetable,
               delete_exam_timetable} :
              w.resource = "exam_timetable"
        /\ \A v \in {list_exam_timetables} :
              v.resource = "exam_timetable"
    BY Names DEF create_exam_timetable, update_exam_timetable,
                 delete_exam_timetable, list_exam_timetables
  <1> QED BY <1>1, <1>2 DEF Keeps

LEMMA MarksKeeps ==
  Keeps("marks",
    {create_marks},
    {list_marks, list_offline_marks, list_online_marks})
  <1>1. /\ << create_marks, list_offline_marks >> \in AllForgotten
        /\ << create_marks, list_online_marks >> \in AllForgotten
    BY DEF AllForgotten, ExamForgotten
  <1>2. /\ Kept(create_marks, list_marks) /\ Kept(create_marks, list_offline_marks)
        /\ Kept(create_marks, list_online_marks)
    BY <1>1, ForgottenKept, ListKept, ItemKept, Hitting, Matches, Zenon
    DEF create_marks, list_marks, list_offline_marks, list_online_marks
  <1>3. /\ \A w \in {create_marks} :
              w.resource = "marks"
        /\ \A v \in {list_marks, list_offline_marks, list_online_marks} :
              v.resource = "marks"
    BY Names DEF create_marks, list_marks, list_offline_marks,
                 list_online_marks
  <1> QED BY <1>2, <1>3 DEF Keeps

LEMMA OnlineExamKeeps ==
  Keeps("online_exam",
    {create_online_exam, update_online_exam, delete_online_exam},
    {list_online_exams})
  <1>1. /\ Kept(create_online_exam, list_online_exams)
        /\ Kept(update_online_exam, list_online_exams)
        /\ Kept(delete_online_exam, list_online_exams)
    BY ListKept, ItemKept, Hitting, Matches, Zenon
    DEF create_online_exam, update_online_exam, delete_online_exam,
        list_online_exams
  <1>2. /\ \A w \in {create_online_exam, update_online_exam, delete_online_exam} :
              w.resource = "online_exam"
        /\ \A v \in {list_online_exams} :
              v.resource = "online_exam"
    BY Names DEF create_online_exam, update_online_exam, delete_online_exam,
                 list_online_exams
  <1> QED BY <1>1, <1>2 DEF Keeps

LEMMA OnlineClassKeeps ==
  Keeps("online_class",
    {create_online_class, update_online_class, delete_online_class},
    {list_online_classes})
  <1>1. /\ Kept(create_online_class, list_online_classes)
        /\ Kept(update_online_class, list_online_classes)
        /\ Kept(delete_online_class, list_online_classes)
    BY ListKept, ItemKept, Hitting, Matches, Zenon
    DEF create_online_class, update_online_class, delete_online_class,
        list_online_classes
  <1>2. /\ \A w \in {create_online_class, update_online_class, delete_online_class} :
              w.resource = "online_class"
        /\ \A v \in {list_online_classes} :
              v.resource = "online_class"
    BY Names DEF create_online_class, update_online_class, delete_online_class,
                 list_online_classes
  <1> QED BY <1>1, <1>2 DEF Keeps

LEMMA ExamRoutesKeep ==
  /\ \A w \in ExamWrites, v \in ExamViews :
        w.resource = v.resource => Kept(w, v)
  /\ \A x \in ExamWrites \cup ExamViews : x.resource \in ExamNames
  <1> USE GradeKeeps, ExamKeeps, ExamTimetableKeeps, MarksKeeps, OnlineExamKeeps,
          OnlineClassKeeps
          DEF Keeps, ExamWrites, ExamViews
  <1>1. ASSUME NEW w \in ExamWrites, NEW v \in ExamViews, w.resource = v.resource
        PROVE  Kept(w, v)
    BY <1>1, SMTT(30)
  <1>2. \A x \in ExamWrites \cup ExamViews : x.resource \in ExamNames
    BY SMTT(30) DEF ExamNames
  <1> QED BY <1>1, <1>2

-----------------------------------------------------------------------------
(* The API. *)
LEMMA ApiKept ==
  \A w \in AllRoutes, v \in AllViews : w.resource = v.resource => Kept(w, v)
  <1>1. \A w \in AppWrites : w.resource \in {"app", "admin"}
    <2>1. ASSUME NEW w \in AdminWrites PROVE w.resource = "admin"
      <3>1. PICK table \in AdminTables :
                w = Route("admin", {table}, {}, << >>) \/ w = Route("admin", {}, {table}, << >>)
        BY Zenon DEF AdminWrites
      <3> QED BY <3>1, Names
    <2>2. \A inserts, updates : AppWrite(inserts, updates).resource = "app"
      BY Names DEF AppWrite
    <2> QED
      BY <2>1, <2>2 DEF AppWrites, teacher_mark_attendance, teacher_submit_exam_results,
         teacher_create_announcement, teacher_update_announcement,
         teacher_delete_announcement, teacher_apply_leave, create_diary_entry
  <1>2. /\ {"app", "admin"} \cap (SchoolNames \cup PeopleNames \cup NoticeNames
                                   \cup TransportNames \cup ExamNames) = {}
        /\ SchoolNames \cap (PeopleNames \cup NoticeNames \cup TransportNames
                              \cup ExamNames) = {}
        /\ PeopleNames \cap (NoticeNames \cup TransportNames \cup ExamNames) = {}
        /\ NoticeNames \cap (TransportNames \cup ExamNames) = {}
        /\ TransportNames \cap ExamNames = {}
    BY DEF SchoolNames, PeopleNames, NoticeNames, TransportNames, ExamNames
  <1> QED
    BY <1>1, <1>2, SchoolRoutesKeep, PeopleRoutesKeep, NoticeRoutesKeep,
       TransportRoutesKeep, ExamRoutesKeep DEF AllRoutes, AllViews

LEMMA ApiCovered ==
  ASSUME Views = AllViews, Routes = AllRoutes, Forgotten = AllForgotten
  PROVE  Covered
  <1> SUFFICES ASSUME NEW view \in Views, NEW e \in Effects[view],
                      e.touches, e.todo = << >>
               PROVE  e.leaks
    BY DEF Covered
  <1>1. PICK route \in Routes : e = Effect(route, view)
    BY DEF Effects
  <1>2. /\ e.touches = Touches(route, view) /\ e.todo = Todo(route, view)
        /\ e.leaks = (/\ Touches(route, view)
                      /\ Todo(route, view) = << >>
                      /\ \/ route.resource # view.resource
                         \/ << route, view >> \in Forgotten)
    BY <1>1 DEF Effect
  <1>3. route.resource = view.resource => Kept(route, view)
    BY ApiKept
  <1> QED BY <1>2, <1>3 DEF Kept

(* Theorem: over every cached answer and every writing handler of the API, *)
(* an outdated answer in Redis always has a reason: a handler on its way   *)
(* to remove it, a race, a death, or a leak, which is the write of another *)
(* resource, of an app, of the panel, or one of the pairs of AllForgotten. *)
THEOREM ApiStaleExcused ==
  ASSUME Views = AllViews, Routes = AllRoutes, Forgotten = AllForgotten
  PROVE  Spec => []StaleExcused
  BY ApiCovered, StaleOnlyExcused
=============================================================================
