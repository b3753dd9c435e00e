----------------------------- MODULE CacheAside -----------------------------
(***************************************************************************)
(* One Redis entry of one cached answer, under every handler that reads    *)
(* or writes what it shows.                                                *)
(*                                                                         *)
(* A GET handler asks Redis first and on a miss reads MySQL, then stores   *)
(* the answer for CACHE_TTL seconds.  A writing handler commits first and  *)
(* then goes through its calls of redis_cache.py.  Each await lets the     *)
(* other requests run, a request may fail or be cancelled at any of them,  *)
(* and MySQL reads see the snapshot of the transaction's first one.        *)
(*                                                                         *)
(* Every view of the constant Views is watched in turn: Init picks it.     *)
(* Entries of different keys do not influence one another, so that one     *)
(* entry at a time loses nothing; that different views have different      *)
(* keys is an assumption of ApiRoutes.                                     *)
(***************************************************************************)
EXTENDS Naturals, Sequences, SequencesExt

CONSTANTS
  Views,      \* the cached answers, as CachedRoutes describes them
  Routes,     \* the writing handlers
  Forgotten,  \* the pairs <<route, view>> in which a resource's own handler
              \* changes an answer of the resource and leaves its entry
  Collapsed,  \* the views whose key leaves out a filter of their query
  Texts,      \* the filters that are free text
  Reqs        \* requests in flight; an identity is used again when idle

VARIABLES
  watched,  \* the view whose entry the behaviour follows
  entry,    \* what Redis holds for it
  reqs,     \* each request's progress
  excuse    \* why an outdated answer may be there: "race", "death", "leak"

vars == << watched, entry, reqs, excuse >>

-----------------------------------------------------------------------------
(* What a route means to a view.                                           *)

(* Its commit may change the answer. *)
Touches(route, view) ==
  \/ route.inserts \cap view.rows # {}
  \/ route.updates \cap (view.rows \cup view.labels) # {}

(* The call reaches the view's key: delete_pattern(prefix:* ) by prefix,   *)
(* delete and set by the very key.                                         *)
Concerns(call, key) ==
  IF call.op = "sweep" THEN IsPrefix(call.key, key) ELSE call.key = key

(* The calls of the route that reach the view's key, in the route's order. *)
Reaching(route, view) == {i \in DOMAIN route.ops : Concerns(route.ops[i], view.key)}

Todo(route, view) ==
  LET calls == Reaching(route, view)
      Nth(n) == CHOOSE i \in calls : Cardinality({j \in calls : j <= i}) = n
  IN  [n \in 1 .. Cardinality(calls) |-> route.ops[Nth(n)].op]

Effect(route, view) ==
  LET touches == Touches(route, view)
      todo == Todo(route, view)
  IN  [touches |-> touches, todo |-> todo,
       leaks |-> /\ touches
                 /\ todo = << >>
                 /\ \/ route.resource # view.resource
                    \/ << route, view >> \in Forgotten]

Idle(e) == ~e.touches /\ e.todo = << >>

(* The distinct effects of the routes on each view, computed once.         *)
Effects ==
  [view \in Views |->
     {e \in {Effect(route, view) : route \in Routes} : ~Idle(e)}]

Steps == {"set", "del", "sweep"}
EffectType == [touches : BOOLEAN, todo : Seq(Steps), leaks : BOOLEAN]

ASSUME EffectsType == \A view \in Views : \A e \in Effects[view] : e \in EffectType

-----------------------------------------------------------------------------
(* The questions one may ask a view, and the keys they are given.  A value *)
(* is the sequence of the segments it makes up in a key, and << >> is the  *)
(* None of a filter that is not given; for one that always is, any second  *)
(* value.  Two values are enough to tell whether a filter is in the key.   *)
Plain == {<< >>, <<"1">>}

(* Free text may also be the word None, or have a colon in it; where       *)
(* clean_search looks at it, it trims blanks and quotes and no more.       *)
Odd == {<<"None">>, <<"1", "1">>}

PlainQuestions(view) == [view.filters -> Plain]

Questions(view) ==
  {q \in [view.filters -> Plain \cup Odd] :
     \A filter \in view.filters \ Texts : q[filter] \in Plain}

(* An f-string writes None for a filter that is not given. *)
Word(value) == IF value = << >> THEN <<"None">> ELSE value

Words(view, q) == [i \in DOMAIN view.fields |-> Word(q[view.fields[i]])]

(* Two plain questions with one key.  Their values are a segment each, so  *)
(* that putting the words together makes no two keys the same.             *)
Collapses(view) == ~IsInjective([q \in PlainQuestions(view) |-> Words(view, q)])

(* An odd text and another question with one key. *)
Confused(view) ==
  LET keyOf == [q \in Questions(view) |-> FlattenSeq(Words(view, q))]
  IN  \E odd \in Questions(view) \ PlainQuestions(view), q \in Questions(view) :
         odd # q /\ keyOf[odd] = keyOf[q]

Ages == {"absent", "fresh", "stale"}
Held == {"none", "fresh", "stale"}
Asks == {"this", "other", "odd"}
Excuses == {"race", "death", "leak"}

(* A request that comes to the key asks the question we follow, another    *)
(* plain one that is given the same key, or one of those where an odd text *)
(* is in play.                                                             *)
AsksOf ==
  [view \in Views |->
     {"this"} \cup (IF Collapses(view) THEN {"other"} ELSE {})
              \cup (IF Confused(view) THEN {"odd"} ELSE {})]

Absent == [is |-> "absent", asked |-> "this", ttl |-> TRUE]
(* mutant: stored without expire *)
FilledForEver(age, asked) == [is |-> age, asked |-> asked, ttl |-> FALSE]
Filled(age, asked) == [is |-> age, asked |-> asked, ttl |-> TRUE]
IdleReq == [pc |-> "idle", held |-> "none", asked |-> "this", todo |-> << >>]

Request ==
  [pc : {"idle", "get", "select", "fill", "purge", "put", "sweep"},
   held : Held, asked : Asks, todo : Seq(Steps)]

(* Redis holds a whole answer or nothing: never the outcome of a miss that *)
(* found no row.                                                           *)
TypeOK ==
  /\ watched \in Views
  /\ entry \in [is : Ages, asked : Asks, ttl : BOOLEAN]
  /\ reqs \in [Reqs -> Request]
  /\ excuse \subseteq Excuses

Init ==
  /\ watched \in Views
  /\ entry = Absent
  /\ reqs = [r \in Reqs |-> IdleReq]
  /\ excuse = {}

(* What is shown or held no longer agrees with MySQL. *)
Stale(e, rs) == e.is = "stale" \/ \E r \in Reqs : rs[r].held = "stale"

(* Every step that changes the entry or a request ends this way: an excuse *)
(* is kept only as long as something outdated is about.                    *)
Settle(e, rs, why) ==
  /\ entry' = e
  /\ reqs' = rs
  /\ excuse' = IF Stale(e, rs) THEN why ELSE {}
  /\ UNCHANGED watched

To(r, req) == [reqs EXCEPT ![r] = req]

-----------------------------------------------------------------------------
(* A GET handler.                                                          *)

(* valid_session shares the handler's database session: when it has to     *)
(* read MySQL itself, the snapshot is taken before the cache is asked.     *)
Begin(r) ==
  /\ reqs[r].pc = "idle"
  /\ \E asked \in AsksOf[watched], held \in {"none", "fresh"} :
       Settle(entry, To(r, [pc |-> "get", held |-> held, asked |-> asked, todo |-> << >>]),
              excuse)

Hit(r) ==
  /\ reqs[r].pc = "get"
  /\ entry.is # "absent"
  /\ Settle(entry, To(r, IdleReq), excuse)

Miss(r) ==
  /\ reqs[r].pc = "get"
  /\ entry.is = "absent"
  /\ Settle(entry, To(r, [reqs[r] EXCEPT !.pc = "select"]), excuse)

Select(r) ==
  /\ reqs[r].pc = "select"
  /\ Settle(entry,
            To(r, [reqs[r] EXCEPT !.pc = "fill",
                                  !.held = IF @ = "none" THEN "fresh" ELSE @]),
            excuse)

(* mutant: what was found is stored, nothing included *)
StoreNothing(r) ==
  /\ reqs[r].pc = "select"
  /\ Settle(Filled(reqs[r].held, reqs[r].asked), To(r, IdleReq), excuse)

(* The row is not there (404), or the list is empty: nothing is stored.    *)
NoRows(r) ==
  /\ reqs[r].pc = "select"
  /\ Settle(entry, To(r, IdleReq), excuse)

Fill(r) ==
  /\ reqs[r].pc = "fill"
  /\ Settle(Filled(reqs[r].held, reqs[r].asked), To(r, IdleReq), excuse)

-----------------------------------------------------------------------------
(* A writing handler.  The checks and early returns before its commit      *)
(* leave entry and rows as they are: a request they end never commits.     *)

Outdated(age) == IF age = "fresh" THEN "stale" ELSE age

Commit(r) ==
  /\ reqs[r].pc = "idle"
  /\ \E e \in Effects[watched] :
       LET shown == IF e.touches THEN [entry EXCEPT !.is = Outdated(@)] ELSE entry
           others == IF e.touches
                       THEN [q \in Reqs |-> [reqs[q] EXCEPT !.held = Outdated(@)]]
                       ELSE reqs
           mine == IF e.todo = << >> THEN IdleReq
                                     ELSE [IdleReq EXCEPT !.pc = "purge", !.todo = e.todo]
           why == (IF e.touches /\ \E q \in Reqs : reqs[q].held # "none"
                     THEN {"race"} ELSE {})
                  \cup (IF e.leaks THEN {"leak"} ELSE {})
       IN  Settle(shown, [others EXCEPT ![r] = mine], excuse \cup why)

(* The call at the head of todo has returned. *)
Done(r) ==
  LET rest == Tail(reqs[r].todo)
  IN  IF rest = << >> THEN IdleReq
                      ELSE [IdleReq EXCEPT !.pc = "purge", !.todo = rest]

Purging(r, call) == reqs[r].pc = "purge" /\ Head(reqs[r].todo) = call

(* db.refresh reads the row in a new transaction; cache.set follows. *)
Reread(r) ==
  /\ Purging(r, "set")
  /\ Settle(entry, To(r, [reqs[r] EXCEPT !.pc = "put", !.held = "fresh"]), excuse)

PutSet(r) ==
  /\ reqs[r].pc = "put"
  /\ Settle(Filled(reqs[r].held, "this"), To(r, Done(r)), excuse)

Delete(r) ==
  /\ Purging(r, "del")
  /\ Settle(Absent, To(r, Done(r)), excuse)

(* delete_pattern asks Redis for the keys, and deletes the ones it got.    *)
Keys(r) ==
  /\ Purging(r, "sweep")
  /\ Settle(entry,
            To(r, IF entry.is = "absent" THEN Done(r) ELSE [reqs[r] EXCEPT !.pc = "sweep"]),
            excuse)

SweepKeys(r) ==
  /\ reqs[r].pc = "sweep"
  /\ Settle(Absent, To(r, Done(r)), excuse)

(* The request is cancelled, Redis refuses a call, or the process stops:   *)
(* what it had still to do in Redis is lost.                               *)
Abort(r) ==
  /\ reqs[r].pc # "idle"
  /\ Settle(entry, To(r, IdleReq),
            IF reqs[r].todo # << >> THEN excuse \cup {"death"} ELSE excuse)

-----------------------------------------------------------------------------
(* Redis drops the entry CACHE_TTL seconds after it was stored.            *)
Expire ==
  /\ entry.is # "absent"
  /\ entry.ttl
  /\ Settle(Absent, reqs, excuse)

Reader(r) == Hit(r) \/ Miss(r) \/ Select(r) \/ NoRows(r) \/ Fill(r)
Writer(r) == Reread(r) \/ PutSet(r) \/ Delete(r) \/ Keys(r) \/ SweepKeys(r)
CommitStep == \E r \in Reqs : Commit(r)

Next ==
  \/ \E r \in Reqs : Begin(r) \/ Reader(r) \/ Writer(r) \/ Abort(r)
  \/ CommitStep
  \/ Expire

(* The event loop takes up every request that has not ended; Redis expires *)
(* what is due.  Clients need not send anything.                           *)
Fairness ==
  /\ \A r \in Reqs : WF_vars(Reader(r) \/ Writer(r))
  /\ WF_vars(Expire)

Spec == Init /\ [][Next]_vars /\ Fairness

-----------------------------------------------------------------------------
(* Properties.                                                             *)

(* An answer in Redis that MySQL no longer agrees with has a reason one    *)
(* can name: a handler that committed is still on its way to remove it, a  *)
(* request that held older data stored it (race), a handler ended between  *)
(* its commit and its invalidation (death), or the change was made by a    *)
(* handler that never removes this entry (leak): one of another resource,  *)
(* of the apps or of the admin panel, or a pair listed in Forgotten.       *)
(* Every other handler removes every entry it makes wrong, in whatever     *)
(* order the requests interleave.                                          *)
StaleExcused ==
  entry.is = "stale" =>
    \/ \E r \in Reqs : reqs[r].todo # << >>
    \/ excuse # {}

(* A request that finds an entry gets the answer to the filters it asked   *)
(* with: no key outside Collapsed leaves out a filter of its query.  Free  *)
(* text that is the word None or has a colon in it is no part of the       *)
(* promise: nothing in the keys keeps it from looking like other filters.  *)
AnswersAsAsked ==
  watched \notin Collapsed =>
    \A r \in Reqs :
      /\ reqs[r].pc = "get" /\ entry.is # "absent"
      /\ "odd" \notin {entry.asked, reqs[r].asked}
      => entry.asked = reqs[r].asked

(* Once writes stop, the entry is in the end never outdated: what races    *)
(* and forgotten invalidations leave behind lasts CACHE_TTL at most.       *)
Converges == <>[][~CommitStep]_vars => <>[](entry.is # "stale")
=============================================================================
