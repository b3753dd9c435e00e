--------------------------- MODULE SessionsProofs ---------------------------
(***************************************************************************)
(* Theorems about Sessions, for every set of keys, users and requests and  *)
(* every pair of session lifetimes.                                        *)
(***************************************************************************)
EXTENDS Sessions, TLAPS

---------------------------------------------------------------------------
(* The inductive invariant *)

\* What a request carries at each point of its handler.
Shape(q) ==
    /\ q.pc \notin {"idle", "replace"} => q.key \in Keys
    /\ q.pc \in {"warm", "admitted", "map", "remap", "replace", "publish"} => q.copy \in Copy
    /\ q.pc \in {"idle", "get", "evict", "purge", "select", "find", "clean"} => q.copy = None
    /\ q.pc \in {"get", "evict", "purge", "select", "warm", "admitted"} => q.op \in {"use", "verify"}
    /\ q.pc \in {"map", "remap"} => q.op = "verify"
    /\ q.pc \in {"replace", "publish"} => q.op = "web"
    /\ q.pc \in {"find", "clean"} => q.op = "logout"
    /\ q.op \in {"verify", "web"} => q.who \in Users
    /\ q.drop \subseteq q.olds
    /\ q.pc \notin {"replace", "clean"} => q.drop = {}

\* TypeOK without the history of overlaps, which Next adds to every step.
Core ==
    /\ now \in Nat
    /\ rows \in [Keys -> Session \cup {None}]
    /\ cache \in [Keys -> Entry \cup {None}]
    /\ issued \in [Keys -> Nat \cup {None}]
    /\ req \in [Reqs -> Request]
    /\ \A r \in Reqs : Shape(req[r])

---------------------------------------------------------------------------
(* Types of the records the handlers build *)

\* A request record starts empty, and well-shaped.
LEMMA IdleType == Idle \in Request /\ Shape(Idle)
  BY DEF Idle, Request, PCs, Shape

\* What a handler copies out of a row or a cache entry is a Copy.
LEMMA CopyType ==
    ASSUME NEW s \in Session \cup Entry
    PROVE  CopyOf(s) \in Copy
  BY DEF CopyOf, Session, Entry, Copy

\* What a handler sends to Redis is an Entry.
LEMMA EntryType ==
    ASSUME now \in Nat, NEW c \in Copy, NEW u \in Users \cup {None}, NEW life \in Nat
    PROVE  CacheEntry(c, u, life) \in Entry
  BY DEF CacheEntry, Entry, Copy

\* Replacing one request by a well-shaped record keeps the requests typed.
LEMMA RequestsType ==
    ASSUME Core, NEW r \in Reqs, NEW q \in Request, Shape(q),
           req' = [req EXCEPT ![r] = q]
    PROVE  req' \in [Reqs -> Request] /\ \A i \in Reqs : Shape(req'[i])
  BY DEF Core

\* A request that ends.
LEMMA FinishType ==
    ASSUME Core, NEW r \in Reqs, Finish(r)
    PROVE  req' \in [Reqs -> Request] /\ \A i \in Reqs : Shape(req'[i])
  BY IdleType, RequestsType DEF Finish

---------------------------------------------------------------------------
(* Type correctness *)

LEMMA ReadStepType ==
    ASSUME Core, NEW r \in Reqs,
           \/ CacheHit(r) \/ CacheHitExpired(r) \/ EvictExpired(r) \/ PurgeExpired(r)
           \/ CacheMiss(r) \/ SelectRefused(r) \/ SelectValid(r) \/ WarmCache(r) \/ Serve(r)
    PROVE  Core'
  <1> DEFINE q == req[r]
             k == req[r].key
  <1> USE DEF Core
  <1>q. q \in Request /\ Shape(q)
    OBVIOUS
  <1>1. CASE CacheHit(r)
    <2> DEFINE p == [q EXCEPT !.pc = "admitted", !.copy = CopyOf(cache[k])]
    <2>1. k \in Keys
      BY <1>1, <1>q DEF CacheHit, Shape
    <2>2. CopyOf(cache[k]) \in Copy
      BY <1>1, <2>1, CopyType DEF CacheHit
    <2>3. p \in Request /\ Shape(p)
      BY <1>1, <1>q, <2>2 DEF CacheHit, Request, Shape, PCs
    <2>4. req' = [req EXCEPT ![r] = p]
      BY <1>1 DEF CacheHit
    <2> QED
      BY <1>1, <2>3, <2>4, RequestsType DEF CacheHit
  <1>2. CASE CacheHitExpired(r)
    <2> DEFINE p == [q EXCEPT !.pc = "evict"]
    <2>1. p \in Request /\ Shape(p)
      BY <1>2, <1>q DEF CacheHitExpired, Request, Shape, PCs
    <2>2. req' = [req EXCEPT ![r] = p]
      BY <1>2 DEF CacheHitExpired
    <2> QED
      BY <1>2, <2>1, <2>2, RequestsType DEF CacheHitExpired
  <1>3. CASE EvictExpired(r)
    <2> DEFINE p == [q EXCEPT !.pc = "purge"]
    <2>1. p \in Request /\ Shape(p)
      BY <1>3, <1>q DEF EvictExpired, Request, Shape, PCs
    <2>2. req' = [req EXCEPT ![r] = p]
      BY <1>3 DEF EvictExpired
    <2> QED
      BY <1>3, <2>1, <2>2, RequestsType DEF EvictExpired
  <1>4. CASE PurgeExpired(r)
    BY <1>4, FinishType DEF PurgeExpired
  <1>5. CASE CacheMiss(r)
    <2> DEFINE p == [q EXCEPT !.pc = "select"]
    <2>1. p \in Request /\ Shape(p)
      BY <1>5, <1>q DEF CacheMiss, Request, Shape, PCs
    <2>2. req' = [req EXCEPT ![r] = p]
      BY <1>5 DEF CacheMiss
    <2> QED
      BY <1>5, <2>1, <2>2, RequestsType DEF CacheMiss
  <1>6. CASE SelectRefused(r)
    BY <1>6, FinishType DEF SelectRefused
  <1>7. CASE SelectValid(r)
    <2> DEFINE s == rows[k]
               p == [q EXCEPT !.pc = "warm", !.copy = CopyOf(s),
                              !.attached = TRUE, !.ttl = s.till - now]
    <2>1. s \in Session
      BY <1>7, <1>q DEF SelectValid, Shape
    <2>2. CopyOf(s) \in Copy
      BY <2>1, CopyType
    <2>3. s.till - now \in Nat
      BY <1>7, <2>1 DEF SelectValid, Live, Session
    <2>4. p \in Request /\ Shape(p)
      BY <1>7, <1>q, <2>2, <2>3 DEF SelectValid, Request, Shape, PCs
    <2>5. req' = [req EXCEPT ![r] = p]
      BY <1>7 DEF SelectValid
    <2> QED
      BY <1>7, <2>4, <2>5, RequestsType DEF SelectValid
  <1>8. CASE WarmCache(r)
    <2> DEFINE p == [q EXCEPT !.pc = "admitted"]
    <2>1. p \in Request /\ Shape(p)
      BY <1>8, <1>q DEF WarmCache, Request, Shape, PCs
    <2>2. req' = [req EXCEPT ![r] = p]
      BY <1>8 DEF WarmCache
    <2>3. q.copy \in Copy /\ q.copy.user \in Users \cup {None} /\ q.ttl \in Nat
      BY <1>8, <1>q DEF WarmCache, Shape, Request, Copy
    <2>4. CacheEntry(q.copy, q.copy.user, q.ttl) \in Entry
      BY <2>3, EntryType
    <2> QED
      BY <1>8, <2>1, <2>2, <2>4, RequestsType DEF WarmCache
  <1>9. CASE Serve(r)
    BY <1>9, FinishType DEF Serve
  <1> QED
    BY <1>1, <1>2, <1>3, <1>4, <1>5, <1>6, <1>7, <1>8, <1>9

LEMMA VerifyStepType ==
    ASSUME Core, NEW r \in Reqs,
           \/ OtpRefused(r) \/ OtpAccepted(r)
           \/ CommitMappingStale(r) \/ CommitMapping(r) \/ CacheMapped(r)
    PROVE  Core'
  <1> DEFINE q == req[r]
             k == req[r].key
  <1> USE DEF Core
  <1>q. q \in Request /\ Shape(q)
    OBVIOUS
  <1>1. CASE OtpRefused(r)
    BY <1>1, FinishType DEF OtpRefused
  <1>2. CASE OtpAccepted(r)
    <2> DEFINE p == [q EXCEPT !.pc = "map", !.olds = SessionsOf(q.who) \ {k}]
    <2>1. SessionsOf(q.who) \subseteq Keys
      BY DEF SessionsOf
    <2>2. q.drop = {}
      BY <1>2, <1>q DEF OtpAccepted, Shape
    <2>3. p \in Request /\ Shape(p)
      BY <1>2, <1>q, <2>1, <2>2 DEF OtpAccepted, Request, Shape, PCs
    <2>4. req' = [req EXCEPT ![r] = p]
      BY <1>2 DEF OtpAccepted
    <2> QED
      BY <1>2, <2>3, <2>4, RequestsType DEF OtpAccepted
  <1>3. CASE CommitMappingStale(r)
    BY <1>3, FinishType DEF CommitMappingStale
  <1>4. CASE CommitMapping(r)
    <2> DEFINE left == IF q.copy.till > now THEN q.copy.till - now ELSE 1
               p == [q EXCEPT !.pc = "remap", !.ttl = left]
    <2>1. q.who \in Users /\ q.copy \in Copy
      BY <1>4, <1>q DEF CommitMapping, Shape
    <2>2. left \in Nat
      BY <2>1 DEF Copy
    <2>3. p \in Request /\ Shape(p)
      BY <1>4, <1>q, <2>1, <2>2 DEF CommitMapping, Request, Shape, PCs
    <2>4. req' = [req EXCEPT ![r] = p]
      BY <1>4 DEF CommitMapping, Remaining
    <2>5. ASSUME NEW j \in Keys, rows[j] # None, NEW u \in Users \cup {None}
          PROVE  [rows[j] EXCEPT !.user = u] \in Session
      BY <2>5 DEF Session
    <2>6. rows' \in [Keys -> Session \cup {None}]
      BY <1>4, <2>1, <2>5 DEF CommitMapping, Mapped, Updates
    <2> QED
      BY <1>4, <2>3, <2>4, <2>6, RequestsType DEF CommitMapping
  <1>5. CASE CacheMapped(r)
    <2>1. q.copy \in Copy /\ q.who \in Users /\ q.ttl \in Nat
      BY <1>5, <1>q DEF CacheMapped, Shape, Request
    <2>2. CacheEntry(q.copy, q.who, q.ttl) \in Entry
      BY <2>1, EntryType
    <2> QED
      BY <1>5, <2>2, FinishType DEF CacheMapped
  <1> QED
    BY <1>1, <1>2, <1>3, <1>4, <1>5

LEMMA DropCachedType ==
    ASSUME Core, NEW r \in Reqs, NEW k \in Keys, DropCached(r, k)
    PROVE  Core'
  <1> DEFINE p == [req[r] EXCEPT !.drop = @ \ {k}]
  <1>1. req[r] \in Request /\ Shape(req[r])
    BY DEF Core
  <1>2. p \in Request /\ Shape(p)
    BY <1>1 DEF DropCached, Request, Shape, PCs
  <1>3. req' = [req EXCEPT ![r] = p]
    BY DEF DropCached
  <1> QED
    BY <1>2, <1>3, RequestsType DEF DropCached, Core

LEMMA WebStepType ==
    ASSUME Core, NEW r \in Reqs,
           \/ \E k \in Keys : CommitWebLogin(r, k)
           \/ CacheWebSession(r)
    PROVE  Core'
  <1> DEFINE q == req[r]
  <1> USE DEF Core
  <1>q. q \in Request /\ Shape(q)
    OBVIOUS
  <1>1. ASSUME NEW k \in Keys, CommitWebLogin(r, k)
        PROVE  Core'
    <2> DEFINE p == [q EXCEPT !.pc = "publish", !.key = k]
    <2>1. q.who \in Users /\ q.copy \in Copy
      BY <1>1, <1>q DEF CommitWebLogin, Shape
    <2>2. p \in Request /\ Shape(p)
      BY <1>1, <1>q, <2>1 DEF CommitWebLogin, Request, Shape, PCs
    <2>3. req' = [req EXCEPT ![r] = p]
      BY <1>1 DEF CommitWebLogin
    <2>4. q.copy.till \in Nat
      BY <2>1 DEF Copy
    <2>5. [device |-> None, user |-> q.who, till |-> q.copy.till, created |-> now] \in Session
      BY <2>1, <2>4 DEF Session
    <2>6. rows' \in [Keys -> Session \cup {None}] /\ issued' \in [Keys -> Nat \cup {None}]
      BY <1>1, <2>4, <2>5 DEF CommitWebLogin
    <2> QED
      BY <1>1, <2>2, <2>3, <2>6, RequestsType DEF CommitWebLogin
  <1>2. CASE CacheWebSession(r)
    <2>1. q.copy \in Copy /\ q.who \in Users
      BY <1>2, <1>q DEF CacheWebSession, Shape
    <2>2. CacheEntry(q.copy, q.who, WebTTL) \in Entry
      BY <2>1, EntryType, TTLAssumption
    <2> QED
      BY <1>2, <2>2, FinishType DEF CacheWebSession
  <1> QED
    BY <1>1, <1>2

LEMMA LogoutStepType ==
    ASSUME Core, NEW r \in Reqs,
           \/ LogoutUnknown(r) \/ CommitLogout(r)
           \/ \E midnight \in 0 .. now : LogoutFind(r, midnight)
    PROVE  Core'
  <1> USE DEF Core
  <1>1. CASE LogoutUnknown(r)
    BY <1>1, FinishType DEF LogoutUnknown
  <1>2. ASSUME NEW midnight \in 0 .. now, LogoutFind(r, midnight)
        PROVE  Core'
    <2> DEFINE q == req[r]
               k == req[r].key
               abandoned == IF rows[k].device = None THEN {}
                            ELSE AbandonedOn(rows[k].device, midnight) \ {k}
               p == [q EXCEPT !.pc = "clean", !.olds = {k} \cup abandoned, !.drop = abandoned]
    <2>1. q \in Request /\ Shape(q)
      OBVIOUS
    <2>2. abandoned \subseteq Keys /\ k \in Keys
      BY <1>2, <2>1 DEF AbandonedOn, LogoutFind, Shape
    <2> HIDE DEF abandoned
    <2>3. p \in Request /\ Shape(p)
      BY <1>2, <2>1, <2>2 DEF LogoutFind, Request, Shape, PCs
    <2>4. req' = [req EXCEPT ![r] = p]
      BY <1>2 DEF LogoutFind, abandoned
    <2> QED
      BY <1>2, <2>3, <2>4, RequestsType DEF LogoutFind
  <1>3. CASE CommitLogout(r)
    BY <1>3, FinishType DEF CommitLogout
  <1> QED
    BY <1>1, <1>2, <1>3

LEMMA StartStepType ==
    ASSUME Core, NEW r \in Reqs,
           \/ \E k \in Keys : StartUse(r, k) \/ StartLogout(r, k)
           \/ \E k \in Keys, u \in AppUsers : StartVerify(r, k, u)
           \/ \E u \in WebUsers : StartWebLogin(r, u)
    PROVE  Core'
  <1> USE DEF Core
  <1>1. ASSUME NEW k \in Keys, StartUse(r, k)
        PROVE  Core'
    <2> DEFINE p == [Idle EXCEPT !.pc = "get", !.op = "use", !.key = k]
    <2>1. p \in Request /\ Shape(p)
      BY DEF Idle, Request, Shape, PCs
    <2> QED
      BY <1>1, <2>1, RequestsType DEF StartUse
  <1>2. ASSUME NEW k \in Keys, StartLogout(r, k)
        PROVE  Core'
    <2> DEFINE p == [Idle EXCEPT !.pc = "find", !.op = "logout", !.key = k]
    <2>1. p \in Request /\ Shape(p)
      BY DEF Idle, Request, Shape, PCs
    <2> QED
      BY <1>2, <2>1, RequestsType DEF StartLogout
  <1>3. ASSUME NEW k \in Keys, NEW u \in AppUsers, StartVerify(r, k, u)
        PROVE  Core'
    <2> DEFINE p == [Idle EXCEPT !.pc = "get", !.op = "verify", !.key = k, !.who = u]
    <2>1. p \in Request /\ Shape(p)
      BY DEF Idle, Request, Shape, PCs, Users
    <2> QED
      BY <1>3, <2>1, RequestsType DEF StartVerify
  <1>4. ASSUME NEW u \in WebUsers, StartWebLogin(r, u)
        PROVE  Core'
    <2> DEFINE c == [device |-> None, user |-> u, till |-> now + WebTTL]
               p == [Idle EXCEPT !.pc = "replace", !.op = "web", !.who = u, !.copy = c,
                                 !.olds = SessionsOf(u), !.drop = SessionsOf(u)]
    <2>1. c \in Copy /\ SessionsOf(u) \subseteq Keys
      BY TTLAssumption DEF Copy, Users, SessionsOf
    <2> HIDE DEF c
    <2>2. p \in Request /\ Shape(p)
      BY <2>1 DEF Idle, Request, Shape, PCs, Users
    <2>3. req' = [req EXCEPT ![r] = p]
      BY <1>4 DEF StartWebLogin, c
    <2> QED
      BY <1>4, <2>2, <2>3, RequestsType DEF StartWebLogin
  <1> QED
    BY <1>1, <1>2, <1>3, <1>4

LEMMA StepType == Core /\ Step => Core'
  <1> SUFFICES ASSUME Core, Step
               PROVE  Core'
    OBVIOUS
  <1>1. ASSUME NEW k \in Keys, NEW d \in Devices, AndroidLogin(k, d)
        PROVE  Core'
    BY <1>1, TTLAssumption DEF AndroidLogin, Core, Session
  <1>2. ASSUME NEW r \in Reqs, Advance(r)
        PROVE  Core'
    BY <1>2, ReadStepType, VerifyStepType, DropCachedType, WebStepType, LogoutStepType DEF Advance
  <1>3. ASSUME NEW r \in Reqs, Abort(r)
        PROVE  Core'
    BY <1>3, FinishType DEF Abort, Core
  <1>4. CASE RedisRestart
    BY <1>4 DEF RedisRestart, Core
  <1>5. CASE Tick
    BY <1>5 DEF Tick, Core
  <1> QED
    BY <1>1, <1>2, <1>3, <1>4, <1>5, StartStepType DEF Step

LEMMA NextType == TypeOK /\ Core /\ [Next]_vars => TypeOK' /\ Core'
  <1> SUFFICES ASSUME TypeOK, Core, [Next]_vars
               PROVE  TypeOK' /\ Core'
    OBVIOUS
  <1>1. CASE Next
    <2>1. Core'
      BY <1>1, StepType DEF Next
    <2>2. raced' \subseteq Keys /\ rivals' \subseteq Users
      BY <1>1 DEF Next, Overlap, Rivalry, TypeOK
    <2> QED
      BY <2>1, <2>2 DEF Core, TypeOK
  <1>2. CASE UNCHANGED vars
    BY <1>2 DEF vars, TypeOK, Core
  <1> QED
    BY <1>1, <1>2

\* Every variable keeps its type in every reachable state, and every request in
\* flight carries what its handler needs at that point.
THEOREM TypeCorrect == Spec => [](TypeOK /\ Core)
  <1>1. Init => TypeOK /\ Core
    BY IdleType DEF Init, TypeOK, Core
  <1>2. QED
    BY <1>1, NextType, PTL DEF Spec

---------------------------------------------------------------------------
(* A deleted session leaves no copy behind unless requests overlapped *)

\* The handler of q has seen or made the cache entry of k absent, and has not
\* let go of k since.
Cleared(q, k) ==
    \/ q.key = k /\ q.pc \in {"select", "purge", "find"}
    \/ q.pc \in {"replace", "clean"} /\ k \in q.olds \ q.drop

\* While requests do not meet on k: its copy goes before its row does, and
\* nobody is about to write the copy of a row that is gone.
Orderly(k) ==
    /\ rows[k] = None => cache[k] = None
    /\ rows[k] = None => \A r \in Reqs : req[r].key = k => ~MayFill(req[r])
    /\ \A r \in Reqs : Cleared(req[r], k) => cache[k] = None

OrderInv ==
    /\ Overlap(req) \subseteq raced
    /\ \A k \in Keys \ raced : Orderly(k)

LEMMA OrderlyStep ==
    ASSUME Core, Overlap(req) \subseteq raced, Step, raced' = raced \cup Overlap(req'),
           NEW k \in Keys, k \notin raced', Orderly(k)
    PROVE  Orderly(k)'
  <1> USE DEF Core
  <1>1. k \notin raced /\ k \notin Overlap(req')
    OBVIOUS
  <1>2. \A r1, r2 \in Reqs :
            r1 # r2 /\ req[r1].key = k => req[r2].key # k /\ k \notin req[r2].olds
    BY <1>1 DEF Overlap, Concern
  <1>3. \A r1, r2 \in Reqs : r1 # r2 /\ k \in req[r1].olds => req[r2].key # k
    BY <1>1 DEF Overlap, Concern
  <1>4. \A r \in Reqs : req[r] \in Request /\ Shape(req[r])
    OBVIOUS
  <1>f. ASSUME NEW r \in Reqs, Finish(r)
        PROVE  /\ \A i \in Reqs : i # r => req'[i] = req[i]
               /\ req'[r].pc = "idle" /\ req'[r].key = None /\ req'[r].op = "none"
    BY <1>f DEF Finish, Idle
  <1>5. ASSUME NEW r \in Reqs, CacheHit(r)
        PROVE  Orderly(k)'
    BY <1>2, <1>3, <1>4, <1>5 DEF CacheHit, Orderly, Cleared, MayFill, Request, Shape
  <1>6. ASSUME NEW r \in Reqs, CacheHitExpired(r)
        PROVE  Orderly(k)'
    BY <1>2, <1>3, <1>4, <1>6 DEF CacheHitExpired, Orderly, Cleared, MayFill, Request, Shape
  <1>7. ASSUME NEW r \in Reqs, EvictExpired(r)
        PROVE  Orderly(k)'
    BY <1>2, <1>3, <1>4, <1>7 DEF EvictExpired, Orderly, Cleared, MayFill, Request, Shape
  <1>8. ASSUME NEW r \in Reqs, PurgeExpired(r)
        PROVE  Orderly(k)'
    BY <1>2, <1>3, <1>4, <1>8, <1>f DEF PurgeExpired, Orderly, Cleared, MayFill, Request, Shape
  <1>9. ASSUME NEW r \in Reqs, CacheMiss(r)
        PROVE  Orderly(k)'
    BY <1>2, <1>3, <1>4, <1>9 DEF CacheMiss, Orderly, Cleared, MayFill, Request, Shape
  <1>10. ASSUME NEW r \in Reqs, SelectRefused(r)
        PROVE  Orderly(k)'
    <2>1. /\ UNCHANGED cache
          /\ \A i \in Reqs : i # r => req'[i] = req[i]
          /\ req'[r].pc = "idle" /\ req'[r].key = None
      BY <1>10, <1>f DEF SelectRefused
    <2>2. CASE req[r].key = k
      <3>1. cache[k] = None
        BY <1>10, <2>2 DEF SelectRefused, Orderly, Cleared
      <3> QED
        BY <2>1, <2>2, <3>1, <1>2 DEF Orderly, Cleared, MayFill
    <2>3. CASE req[r].key # k
      <3>1. rows'[k] = rows[k]
        BY <1>10, <2>3 DEF SelectRefused
      <3> QED
        BY <2>1, <3>1 DEF Orderly, Cleared, MayFill
    <2> QED
      BY <2>2, <2>3
  <1>11. ASSUME NEW r \in Reqs, SelectValid(r)
        PROVE  Orderly(k)'
    BY <1>2, <1>3, <1>4, <1>11 DEF SelectValid, Orderly, Cleared, MayFill, Request, Shape
  <1>12. ASSUME NEW r \in Reqs, WarmCache(r)
        PROVE  Orderly(k)'
    BY <1>2, <1>3, <1>4, <1>12 DEF WarmCache, CacheEntry, Orderly, Cleared, MayFill, Request, Shape
  <1>13. ASSUME NEW r \in Reqs, Serve(r)
        PROVE  Orderly(k)'
    BY <1>2, <1>3, <1>4, <1>13, <1>f DEF Serve, Orderly, Cleared, MayFill, Request, Shape
  <1>14. ASSUME NEW r \in Reqs, OtpRefused(r)
        PROVE  Orderly(k)'
    BY <1>2, <1>3, <1>4, <1>14, <1>f DEF OtpRefused, Orderly, Cleared, MayFill, Request, Shape
  <1>15. ASSUME NEW r \in Reqs, OtpAccepted(r)
        PROVE  Orderly(k)'
    BY <1>2, <1>3, <1>4, <1>15 DEF OtpAccepted, Orderly, Cleared, MayFill, Request, Shape
  <1>16. ASSUME NEW r \in Reqs, CommitMappingStale(r)
        PROVE  Orderly(k)'
    BY <1>2, <1>3, <1>4, <1>16, <1>f DEF CommitMappingStale, Orderly, Cleared, MayFill, Request, Shape
  <1>17. ASSUME NEW r \in Reqs, CommitMapping(r)
        PROVE  Orderly(k)'
    <2>1. req[r].who \in Users
      BY <1>4, <1>17 DEF CommitMapping, Shape
    <2>2. ASSUME NEW u \in Users \cup {None}, rows[k] # None
          PROVE  [rows[k] EXCEPT !.user = u] # None
      BY <2>2, NoneAssumption DEF Session
    <2>3. rows'[k] = None <=> rows[k] = None
      BY <1>17, <2>1, <2>2 DEF CommitMapping, Mapped, Updates
    <2> QED
      BY <1>4, <1>17, <2>3 DEF CommitMapping, Orderly, Cleared, MayFill, Request, Shape
  <1>18. ASSUME NEW r \in Reqs, CacheMapped(r)
        PROVE  Orderly(k)'
    BY <1>2, <1>3, <1>4, <1>18, <1>f DEF CacheMapped, CacheEntry, Orderly, Cleared, MayFill, Request, Shape
  <1>19. ASSUME NEW r \in Reqs, NEW j \in Keys, DropCached(r, j)
        PROVE  Orderly(k)'
    BY <1>2, <1>3, <1>4, <1>19 DEF DropCached, Orderly, Cleared, MayFill, Request, Shape
  <1>20. ASSUME NEW r \in Reqs, NEW j \in Keys, CommitWebLogin(r, j)
        PROVE  Orderly(k)'
    <2> DEFINE new == [device |-> None, user |-> req[r].who,
                       till |-> req[r].copy.till, created |-> now]
    <2>1. req[r].who \in Users /\ req[r].copy.till \in Nat
      BY <1>4, <1>20 DEF CommitWebLogin, Shape, Copy
    <2>2. new # None
      BY <2>1, NoneAssumption DEF Session
    <2>3. CASE k = j
      <3>1. rows'[k] # None
        BY <1>20, <2>2, <2>3 DEF CommitWebLogin
      <3> QED
        BY <1>4, <1>20, <3>1 DEF CommitWebLogin, Orderly, Cleared, MayFill, Request, Shape
    <2>4. CASE k # j
      BY <1>2, <1>3, <1>4, <1>20, <2>4 DEF CommitWebLogin, Orderly, Cleared, MayFill, Request, Shape
    <2> QED
      BY <2>3, <2>4
  <1>21. ASSUME NEW r \in Reqs, CacheWebSession(r)
        PROVE  Orderly(k)'
    BY <1>2, <1>3, <1>4, <1>21, <1>f DEF CacheWebSession, CacheEntry, Orderly, Cleared, MayFill, Request, Shape
  <1>22. ASSUME NEW r \in Reqs, LogoutUnknown(r)
        PROVE  Orderly(k)'
    BY <1>2, <1>3, <1>4, <1>22, <1>f DEF LogoutUnknown, Orderly, Cleared, MayFill, Request, Shape
  <1>23. ASSUME NEW r \in Reqs, NEW midnight \in 0 .. now, LogoutFind(r, midnight)
        PROVE  Orderly(k)'
    BY <1>2, <1>3, <1>4, <1>23 DEF LogoutFind, Orderly, Cleared, MayFill, Request, Shape
  <1>24. ASSUME NEW r \in Reqs, CommitLogout(r)
        PROVE  Orderly(k)'
    BY <1>2, <1>3, <1>4, <1>24, <1>f DEF CommitLogout, Orderly, Cleared, MayFill, Request, Shape
  <1>25. ASSUME NEW r \in Reqs, Abort(r)
        PROVE  Orderly(k)'
    BY <1>2, <1>3, <1>4, <1>25, <1>f DEF Abort, Orderly, Cleared, MayFill, Request, Shape
  <1>26. ASSUME NEW r \in Reqs, NEW j \in Keys, StartUse(r, j)
        PROVE  Orderly(k)'
    BY <1>2, <1>3, <1>4, <1>26 DEF StartUse, Idle, Orderly, Cleared, MayFill, Request, Shape
  <1>27. ASSUME NEW r \in Reqs, NEW j \in Keys, StartLogout(r, j)
        PROVE  Orderly(k)'
    BY <1>2, <1>3, <1>4, <1>27 DEF StartLogout, Idle, Orderly, Cleared, MayFill, Request, Shape
  <1>28. ASSUME NEW r \in Reqs, NEW j \in Keys, NEW u \in Users, StartVerify(r, j, u)
        PROVE  Orderly(k)'
    BY <1>2, <1>3, <1>4, <1>28 DEF StartVerify, Idle, Orderly, Cleared, MayFill, Request, Shape
  <1>29. ASSUME NEW r \in Reqs, NEW u \in Users, StartWebLogin(r, u)
        PROVE  Orderly(k)'
    BY <1>2, <1>3, <1>4, <1>29 DEF StartWebLogin, Idle, Orderly, Cleared, MayFill, Request, Shape
  <1>30. ASSUME NEW j \in Keys, NEW d \in Devices, AndroidLogin(j, d)
        PROVE  Orderly(k)'
    <2>1. [device |-> d, user |-> None, till |-> now + AppTTL, created |-> now] # None
      BY NoneAssumption, TTLAssumption DEF Session
    <2>2. rows[k] # None => rows'[k] # None
      BY <1>30, <2>1 DEF AndroidLogin
    <2> QED
      BY <1>30, <2>2 DEF AndroidLogin, Orderly, Cleared, MayFill
  <1>31. CASE RedisRestart
    BY <1>31 DEF RedisRestart, Orderly, Cleared, MayFill, Request, Shape
  <1>32. CASE Tick
    BY <1>32 DEF Tick, Orderly, Cleared, MayFill, Request, Shape
  <1> QED
    BY <1>5, <1>6, <1>7, <1>8, <1>9, <1>10, <1>11, <1>12, <1>13, <1>14, <1>15, <1>16, <1>17, <1>18, <1>19, <1>20, <1>21, <1>22, <1>23, <1>24, <1>25, <1>26, <1>27, <1>28, <1>29, <1>30, <1>31, <1>32 DEF Step, Advance, Users

LEMMA OrderInvariant == Spec => [](Core /\ OrderInv)
  <1>1. Init => OrderInv
    <2> SUFFICES ASSUME Init
                 PROVE  OrderInv
      OBVIOUS
    <2>1. \A r \in Reqs : req[r].key = None /\ req[r].olds = {} /\ req[r].pc = "idle"
      BY DEF Init, Idle
    <2>2. Overlap(req) = {}
      BY <2>1, NoneAssumption DEF Overlap, Concern
    <2>3. ASSUME NEW k \in Keys
          PROVE  Orderly(k)
      BY <2>1, NoneAssumption DEF Init, Orderly, Cleared
    <2> QED
      BY <2>2, <2>3 DEF OrderInv
  <1>2. Core /\ OrderInv /\ [Next]_vars => OrderInv'
    <2> SUFFICES ASSUME Core, OrderInv, [Next]_vars
                 PROVE  OrderInv'
      OBVIOUS
    <2>1. CASE Next
      BY <2>1, OrderlyStep DEF Next, OrderInv
    <2>2. CASE UNCHANGED vars
      BY <2>2 DEF vars, OrderInv, Orderly, Cleared, MayFill, Overlap, Concern
    <2> QED
      BY <2>1, <2>2
  <1> QED
    BY <1>1, <1>2, TypeCorrect, PTL DEF Spec

\* When MySQL has deleted a session, Redis holds a copy of it only if two
\* requests in flight worked on the session at once.
THEOREM ZombieOnlyAfterOverlapHolds == Spec => []ZombieOnlyAfterOverlap
  <1>1. OrderInv => ZombieOnlyAfterOverlap
    BY DEF OrderInv, Orderly, ZombieOnlyAfterOverlap
  <1> QED
    BY <1>1, OrderInvariant, PTL

---------------------------------------------------------------------------
(* Nobody is admitted past the valid_till the session was created with *)

\* Every copy of a session, in MySQL, in Redis or in a handler, carries the
\* valid_till it was created with.
TillInv ==
    /\ \A k \in Keys : rows[k] # None => issued[k] = rows[k].till
    /\ \A k \in Keys : cache[k] # None => issued[k] = cache[k].till
    /\ \A r \in Reqs :
          req[r].pc \notin {"idle", "replace"} => issued[req[r].key] # None
    /\ \A r \in Reqs :
          req[r].pc \in {"warm", "admitted", "map", "remap", "publish"}
             => issued[req[r].key] = req[r].copy.till

LEMMA TillStep == Core /\ TillInv /\ Step => TillInv'
  <1> SUFFICES ASSUME Core, TillInv, Step
               PROVE  TillInv'
    OBVIOUS
  <1> USE DEF Core, TillInv
  <1>1. \A r \in Reqs : req[r] \in Request /\ Shape(req[r])
    OBVIOUS
  <1>2. \A k \in Keys : /\ rows[k] # None => rows[k].till \in Nat
                        /\ cache[k] # None => cache[k].till \in Nat
    BY DEF Session, Entry
  <1>3. \A n \in Nat : n # None
    BY NoneAssumption
  <1>f. ASSUME NEW r \in Reqs, Finish(r)
        PROVE  /\ \A i \in Reqs : i # r => req'[i] = req[i]
               /\ req'[r].pc = "idle"
    BY <1>f DEF Finish, Idle
  <1>4. ASSUME NEW r \in Reqs, CacheHit(r)
        PROVE  TillInv'
    BY <1>1, <1>2, <1>3, <1>4 DEF CacheHit, CopyOf, Request, Shape
  <1>5. ASSUME NEW r \in Reqs, CacheHitExpired(r)
        PROVE  TillInv'
    BY <1>1, <1>2, <1>3, <1>5 DEF CacheHitExpired, Request, Shape
  <1>6. ASSUME NEW r \in Reqs, EvictExpired(r)
        PROVE  TillInv'
    BY <1>1, <1>2, <1>3, <1>6 DEF EvictExpired, Request, Shape
  <1>7. ASSUME NEW r \in Reqs, PurgeExpired(r)
        PROVE  TillInv'
    BY <1>1, <1>2, <1>3, <1>7, <1>f DEF PurgeExpired, Request, Shape
  <1>8. ASSUME NEW r \in Reqs, CacheMiss(r)
        PROVE  TillInv'
    BY <1>1, <1>2, <1>3, <1>8 DEF CacheMiss, Request, Shape
  <1>9. ASSUME NEW r \in Reqs, SelectRefused(r)
        PROVE  TillInv'
    BY <1>1, <1>2, <1>3, <1>9, <1>f DEF SelectRefused, Request, Shape
  <1>10. ASSUME NEW r \in Reqs, SelectValid(r)
        PROVE  TillInv'
    BY <1>1, <1>2, <1>3, <1>10 DEF SelectValid, CopyOf, Request, Shape
  <1>11. ASSUME NEW r \in Reqs, WarmCache(r)
        PROVE  TillInv'
    BY <1>1, <1>2, <1>3, <1>11 DEF WarmCache, CacheEntry, Request, Shape
  <1>12. ASSUME NEW r \in Reqs, Serve(r)
        PROVE  TillInv'
    BY <1>12, <1>f DEF Serve
  <1>13. ASSUME NEW r \in Reqs, OtpRefused(r)
        PROVE  TillInv'
    BY <1>13, <1>f DEF OtpRefused
  <1>14. ASSUME NEW r \in Reqs, OtpAccepted(r)
        PROVE  TillInv'
    BY <1>1, <1>2, <1>3, <1>14 DEF OtpAccepted, Request, Shape
  <1>15. ASSUME NEW r \in Reqs, CommitMappingStale(r)
        PROVE  TillInv'
    BY <1>15, <1>f DEF CommitMappingStale
  <1>16. ASSUME NEW r \in Reqs, CommitMapping(r)
        PROVE  TillInv'
    BY <1>1, <1>2, <1>3, <1>16 DEF CommitMapping, Mapped, Updates, Request, Shape
  <1>17. ASSUME NEW r \in Reqs, CacheMapped(r)
        PROVE  TillInv'
    BY <1>1, <1>2, <1>3, <1>17, <1>f DEF CacheMapped, CacheEntry, Request, Shape
  <1>18. ASSUME NEW r \in Reqs, NEW j \in Keys, DropCached(r, j)
        PROVE  TillInv'
    BY <1>1, <1>2, <1>3, <1>18 DEF DropCached, Request, Shape
  <1>19. ASSUME NEW r \in Reqs, NEW j \in Keys, CommitWebLogin(r, j)
        PROVE  TillInv'
    BY <1>1, <1>2, <1>3, <1>19, TTLAssumption DEF CommitWebLogin, Fresh, Copy, Request, Shape
  <1>20. ASSUME NEW r \in Reqs, CacheWebSession(r)
        PROVE  TillInv'
    <2> DEFINE e == CacheEntry(req[r].copy, req[r].who, WebTTL)
    <2>1. req[r].key \in Keys /\ issued[req[r].key] = e.till
      BY <1>1, <1>20 DEF CacheWebSession, Shape, CacheEntry
    <2>2. cache' = [cache EXCEPT ![req[r].key] = e] /\ UNCHANGED <<rows, issued>>
      BY <1>20 DEF CacheWebSession
    <2> HIDE DEF e
    <2> QED
      BY <1>20, <1>f, <2>1, <2>2 DEF CacheWebSession
  <1>21. ASSUME NEW r \in Reqs, LogoutUnknown(r)
        PROVE  TillInv'
    BY <1>21, <1>f DEF LogoutUnknown
  <1>22. ASSUME NEW r \in Reqs, NEW midnight \in 0 .. now, LogoutFind(r, midnight)
        PROVE  TillInv'
    BY <1>1, <1>2, <1>3, <1>22 DEF LogoutFind, Request, Shape
  <1>23. ASSUME NEW r \in Reqs, CommitLogout(r)
        PROVE  TillInv'
    BY <1>1, <1>2, <1>3, <1>23, <1>f DEF CommitLogout, Request, Shape
  <1>24. ASSUME NEW r \in Reqs, Abort(r)
        PROVE  TillInv'
    BY <1>24, <1>f DEF Abort
  <1>25. ASSUME NEW r \in Reqs, NEW j \in Keys, StartUse(r, j)
        PROVE  TillInv'
    BY <1>1, <1>2, <1>3, <1>25 DEF StartUse, Idle, Request, Shape
  <1>26. ASSUME NEW r \in Reqs, NEW j \in Keys, StartLogout(r, j)
        PROVE  TillInv'
    BY <1>1, <1>2, <1>3, <1>26 DEF StartLogout, Idle, Request, Shape
  <1>27. ASSUME NEW r \in Reqs, NEW j \in Keys, NEW u \in Users, StartVerify(r, j, u)
        PROVE  TillInv'
    BY <1>1, <1>2, <1>3, <1>27 DEF StartVerify, Idle, Request, Shape
  <1>28. ASSUME NEW r \in Reqs, NEW u \in Users, StartWebLogin(r, u)
        PROVE  TillInv'
    BY <1>1, <1>2, <1>3, <1>28 DEF StartWebLogin, Idle, Request, Shape
  <1>29. ASSUME NEW j \in Keys, NEW d \in Devices, AndroidLogin(j, d)
        PROVE  TillInv'
    BY <1>1, <1>2, <1>3, <1>29, TTLAssumption DEF AndroidLogin, Fresh, Copy, Request, Shape
  <1>30. CASE RedisRestart
    BY <1>30 DEF RedisRestart
  <1>31. CASE Tick
    BY <1>31 DEF Tick
  <1> QED
    BY <1>4, <1>5, <1>6, <1>7, <1>8, <1>9, <1>10, <1>11, <1>12, <1>13, <1>14, <1>15, <1>16, <1>17, <1>18, <1>19, <1>20, <1>21, <1>22, <1>23, <1>24, <1>25, <1>26, <1>27, <1>28, <1>29, <1>30, <1>31 DEF Step, Advance, Users

LEMMA TillInvariant == Spec => [](Core /\ TillInv)
  <1>1. Init => TillInv
    BY DEF Init, TillInv, Idle
  <1>2. Core /\ TillInv /\ [Next]_vars => TillInv'
    <2>1. Core /\ TillInv /\ Next => TillInv'
      BY TillStep DEF Next
    <2>2. Core /\ TillInv /\ UNCHANGED vars => TillInv'
      BY DEF vars, TillInv
    <2> QED
      BY <2>1, <2>2
  <1> QED
    BY <1>1, <1>2, TypeCorrect, PTL DEF Spec

LEMMA FinishEffect ==
    ASSUME Core, NEW r \in Reqs, Finish(r)
    PROVE  /\ \A i \in Reqs : i # r => req'[i] = req[i]
           /\ req'[r].pc = "idle" /\ req'[r].op = "none"
           /\ req'[r].key = None /\ req'[r].copy = None
  BY DEF Core, Finish, Idle

\* A request that is let in presents a session within its valid_till.
LEMMA AdmissionInTime ==
    ASSUME Core, TillInv, Step, NEW i \in Reqs,
           req[i].pc \in {"get", "select"}, req'[i].copy # None
    PROVE  issued[req[i].key] >= now
  <1> USE DEF Core
  <1>1. req[i] \in Request /\ Shape(req[i]) /\ req[i].key \in Keys /\ req[i].copy = None
    BY DEF Shape
  <1>2. CASE CacheHit(i)
    BY <1>1, <1>2 DEF CacheHit, Live, TillInv
  <1>3. CASE SelectValid(i)
    BY <1>1, <1>3 DEF SelectValid, Live, TillInv
  <1>4. ASSUME NEW r \in Reqs, Advance(r), ~CacheHit(i), ~SelectValid(i)
        PROVE  req'[i].copy = None
    <2>1. CASE r # i
      BY <1>1, <1>4, <2>1, FinishEffect
         DEF Advance, CacheHit, CacheHitExpired, EvictExpired, PurgeExpired, CacheMiss,
             SelectRefused, SelectValid, WarmCache, Serve, OtpRefused, OtpAccepted,
             CommitMappingStale, CommitMapping, CacheMapped, DropCached, CommitWebLogin,
             CacheWebSession, LogoutUnknown, LogoutFind, CommitLogout
    <2>2. CASE r = i
      <3>1. CacheHitExpired(i) \/ CacheMiss(i) \/ SelectRefused(i)
        BY <1>4, <2>2
           DEF Advance, EvictExpired, PurgeExpired, WarmCache, Serve, OtpRefused, OtpAccepted,
               CommitMappingStale, CommitMapping, CacheMapped, DropCached, CommitWebLogin,
               CacheWebSession, LogoutUnknown, LogoutFind, CommitLogout
      <3> QED
        BY <1>1, <3>1, FinishEffect DEF CacheHitExpired, CacheMiss, SelectRefused, Request
    <2> QED
      BY <2>1, <2>2
  <1>5. ASSUME NEW r \in Reqs,
               \/ \E k \in Keys : StartUse(r, k) \/ StartLogout(r, k)
               \/ \E k \in Keys, u \in AppUsers : StartVerify(r, k, u)
               \/ \E u \in WebUsers : StartWebLogin(r, u)
        PROVE  req'[i].copy = None
    <2>1. ASSUME NEW k \in Keys, StartUse(r, k)
          PROVE  req'[i].copy = None
      BY <1>1, <2>1 DEF StartUse, Idle
    <2>2. ASSUME NEW k \in Keys, StartLogout(r, k)
          PROVE  req'[i].copy = None
      BY <1>1, <2>2 DEF StartLogout, Idle
    <2>3. ASSUME NEW k \in Keys, NEW u \in AppUsers, StartVerify(r, k, u)
          PROVE  req'[i].copy = None
      BY <1>1, <2>3 DEF StartVerify, Idle
    <2>4. ASSUME NEW u \in WebUsers, StartWebLogin(r, u)
          PROVE  req'[i].copy = None
      BY <1>1, <2>4 DEF StartWebLogin, Idle
    <2> QED
      BY <1>5, <2>1, <2>2, <2>3, <2>4
  <1>6. ASSUME NEW r \in Reqs, Abort(r)
        PROVE  req'[i].copy = None
    BY <1>1, <1>6, FinishEffect DEF Abort
  <1>7. ASSUME NEW k \in Keys, NEW d \in Devices, AndroidLogin(k, d)
        PROVE  req'[i].copy = None
    BY <1>1, <1>7 DEF AndroidLogin
  <1>8. CASE RedisRestart \/ Tick
    BY <1>1, <1>8 DEF RedisRestart, Tick
  <1> QED
    BY <1>2, <1>3, <1>4, <1>5, <1>6, <1>7, <1>8 DEF Step

\* valid_session admits a request only within the valid_till its session was
\* created with.
THEOREM AdmittedInTimeHolds == Spec => AdmittedInTime
  <1>1. Core /\ TillInv /\ [Next]_vars
           => [\A r \in Reqs : req[r].pc \in {"get", "select"} /\ req'[r].copy # None
                 => issued[req[r].key] >= now]_vars
    BY AdmissionInTime DEF Next
  <1> QED
    BY <1>1, TillInvariant, PTL DEF Spec, AdmittedInTime

---------------------------------------------------------------------------
(* Revocation is final *)

\* No step brings a dead session back: a handler writes the cache only for a
\* key it may fill, and inserts a row only under a key never used.
LEMMA DeadStays ==
    ASSUME Core, Step, NEW k \in Keys, Dead(k)
    PROVE  Dead(k)'
  <1> USE DEF Core, Dead
  <1>1. \A r \in Reqs : req[r] \in Request /\ Shape(req[r])
    OBVIOUS
  <1>2. ASSUME NEW r \in Reqs, CacheHit(r)
        PROVE  Dead(k)'
    BY <1>1, <1>2 DEF CacheHit, MayFill, Request, Shape
  <1>3. ASSUME NEW r \in Reqs, CacheHitExpired(r)
        PROVE  Dead(k)'
    BY <1>1, <1>3 DEF CacheHitExpired, MayFill, Request, Shape
  <1>4. ASSUME NEW r \in Reqs, EvictExpired(r)
        PROVE  Dead(k)'
    BY <1>1, <1>4 DEF EvictExpired, MayFill, Request, Shape
  <1>5. ASSUME NEW r \in Reqs, PurgeExpired(r)
        PROVE  Dead(k)'
    BY <1>1, <1>5, FinishEffect DEF PurgeExpired, MayFill
  <1>6. ASSUME NEW r \in Reqs, CacheMiss(r)
        PROVE  Dead(k)'
    BY <1>1, <1>6 DEF CacheMiss, MayFill, Request, Shape
  <1>7. ASSUME NEW r \in Reqs, SelectRefused(r)
        PROVE  Dead(k)'
    BY <1>1, <1>7, FinishEffect DEF SelectRefused, MayFill
  <1>8. ASSUME NEW r \in Reqs, SelectValid(r)
        PROVE  Dead(k)'
    BY <1>1, <1>8 DEF SelectValid, MayFill, Request, Shape
  <1>9. ASSUME NEW r \in Reqs, WarmCache(r)
        PROVE  Dead(k)'
    BY <1>1, <1>9 DEF WarmCache, MayFill, Request, Shape
  <1>10. ASSUME NEW r \in Reqs, Serve(r)
        PROVE  Dead(k)'
    BY <1>1, <1>10, FinishEffect DEF Serve, MayFill
  <1>11. ASSUME NEW r \in Reqs, OtpRefused(r)
        PROVE  Dead(k)'
    BY <1>1, <1>11, FinishEffect DEF OtpRefused, MayFill
  <1>12. ASSUME NEW r \in Reqs, OtpAccepted(r)
        PROVE  Dead(k)'
    BY <1>1, <1>12 DEF OtpAccepted, MayFill, Request, Shape
  <1>13. ASSUME NEW r \in Reqs, CommitMappingStale(r)
        PROVE  Dead(k)'
    BY <1>1, <1>13, FinishEffect DEF CommitMappingStale, MayFill
  <1>14. ASSUME NEW r \in Reqs, CommitMapping(r)
        PROVE  Dead(k)'
    BY <1>1, <1>14 DEF CommitMapping, Updates, MayFill, Request, Shape
  <1>15. ASSUME NEW r \in Reqs, CacheMapped(r)
        PROVE  Dead(k)'
    BY <1>1, <1>15, FinishEffect DEF CacheMapped, MayFill, Request, Shape
  <1>16. ASSUME NEW r \in Reqs, NEW j \in Keys, DropCached(r, j)
        PROVE  Dead(k)'
    BY <1>1, <1>16 DEF DropCached, MayFill, Request, Shape
  <1>17. ASSUME NEW r \in Reqs, NEW j \in Keys, CommitWebLogin(r, j)
        PROVE  Dead(k)'
    BY <1>1, <1>17, TTLAssumption DEF CommitWebLogin, Fresh, MayFill, Request, Shape
  <1>18. ASSUME NEW r \in Reqs, CacheWebSession(r)
        PROVE  Dead(k)'
    BY <1>1, <1>18, FinishEffect DEF CacheWebSession, MayFill, Request, Shape
  <1>19. ASSUME NEW r \in Reqs, LogoutUnknown(r)
        PROVE  Dead(k)'
    BY <1>1, <1>19, FinishEffect DEF LogoutUnknown, MayFill
  <1>20. ASSUME NEW r \in Reqs, NEW midnight \in 0 .. now, LogoutFind(r, midnight)
        PROVE  Dead(k)'
    BY <1>1, <1>20 DEF LogoutFind, MayFill, Request, Shape
  <1>21. ASSUME NEW r \in Reqs, CommitLogout(r)
        PROVE  Dead(k)'
    BY <1>1, <1>21, FinishEffect DEF CommitLogout, MayFill
  <1>22. ASSUME NEW r \in Reqs, Abort(r)
        PROVE  Dead(k)'
    BY <1>1, <1>22, FinishEffect DEF Abort, MayFill
  <1>23. ASSUME NEW r \in Reqs, NEW j \in Keys, StartUse(r, j)
        PROVE  Dead(k)'
    BY <1>1, <1>23 DEF StartUse, Idle, MayFill, Request, Shape
  <1>24. ASSUME NEW r \in Reqs, NEW j \in Keys, StartLogout(r, j)
        PROVE  Dead(k)'
    BY <1>1, <1>24 DEF StartLogout, Idle, MayFill, Request, Shape
  <1>25. ASSUME NEW r \in Reqs, NEW j \in Keys, NEW u \in Users, StartVerify(r, j, u)
        PROVE  Dead(k)'
    BY <1>1, <1>25 DEF StartVerify, Idle, MayFill, Request, Shape
  <1>26. ASSUME NEW r \in Reqs, NEW u \in Users, StartWebLogin(r, u)
        PROVE  Dead(k)'
    BY <1>1, <1>26 DEF StartWebLogin, Idle, MayFill, Request, Shape
  <1>27. ASSUME NEW j \in Keys, NEW d \in Devices, AndroidLogin(j, d)
        PROVE  Dead(k)'
    BY <1>1, <1>27, TTLAssumption DEF AndroidLogin, Fresh, MayFill, Request, Shape
  <1>28. CASE RedisRestart
    BY <1>28 DEF RedisRestart, MayFill
  <1>29. CASE Tick
    BY <1>29 DEF Tick, MayFill
  <1> QED
    BY <1>2, <1>3, <1>4, <1>5, <1>6, <1>7, <1>8, <1>9, <1>10, <1>11, <1>12, <1>13, <1>14, <1>15, <1>16, <1>17, <1>18, <1>19, <1>20, <1>21, <1>22, <1>23, <1>24, <1>25, <1>26, <1>27, <1>28, <1>29 DEF Step, Advance, Users

\* Once no handler that had read a deleted session is left, nothing brings the
\* session back.
THEOREM RevocationFinalHolds == Spec => RevocationFinal
  <1>1. Core /\ [Next]_vars => [\A k \in Keys : Dead(k) => Dead(k)']_vars
    BY DeadStays DEF Next
  <1> QED
    BY <1>1, TypeCorrect, PTL DEF Spec, RevocationFinal

---------------------------------------------------------------------------
(* A web login leaves no other session of its user *)

\* Whoever gives a session to a user is logging the user in, and is not done.
LEMMA NewOwner ==
    ASSUME Core, Step, NEW k \in Keys, NEW w \in Users,
           rows'[k] # None, rows'[k].user = w,
           rows[k] = None \/ rows[k].user # w
    PROVE  \E i \in Reqs : /\ LogsIn(req[i]) /\ req[i].who = w
                           /\ req[i].pc = "map" \/ CommitWebLogin(i, k)
  <1> DEFINE Gives(i) == /\ LogsIn(req[i]) /\ req[i].who = w
                         /\ req[i].pc = "map" \/ CommitWebLogin(i, k)
  <1> SUFFICES \E i \in Reqs : Gives(i)
    OBVIOUS
  <1> USE DEF Core
  <1>1. rows' # rows
    OBVIOUS
  <1>2. ASSUME NEW i \in Reqs, CommitMapping(i)
        PROVE  Gives(i)
    <2>1. req[i].op = "verify" /\ req[i].pc = "map"
      BY <1>2 DEF CommitMapping, Shape
    <2>2. rows'[k] = IF k \in req[i].olds THEN Mapped(rows[k], None)
                     ELSE IF k \in Updates(req[i]) THEN Mapped(rows[k], req[i].who)
                     ELSE rows[k]
      BY <1>2 DEF CommitMapping
    <2>3. k \in Updates(req[i]) => rows[k] \in Session
      BY <1>2 DEF CommitMapping
    <2>4. k \in req[i].olds => k \in Updates(req[i])
      BY DEF Updates
    <2>5. k \notin req[i].olds
      <3> SUFFICES ASSUME k \in req[i].olds PROVE FALSE
        OBVIOUS
      <3>1. rows'[k].user = None
        BY <2>2, <2>3, <2>4 DEF Mapped, Session
      <3> QED
        BY <3>1, NoneAssumption
    <2>6. k \in Updates(req[i])
      BY <2>2, <2>5
    <2>7. rows'[k].user = req[i].who
      BY <2>2, <2>3, <2>5, <2>6 DEF Mapped, Session
    <2> QED
      BY <2>1, <2>7 DEF LogsIn
  <1>3. ASSUME NEW i \in Reqs, NEW j \in Keys, CommitWebLogin(i, j)
        PROVE  Gives(i)
    <2>1. req[i].op = "web"
      BY <1>3 DEF CommitWebLogin, Shape
    <2>2. k = j /\ rows'[k].user = req[i].who
      BY <1>3 DEF CommitWebLogin
    <2> QED
      BY <1>3, <2>1, <2>2 DEF LogsIn
  <1>4. ASSUME NEW j \in Keys, NEW d \in Devices, AndroidLogin(j, d)
        PROVE  FALSE
    BY <1>4, NoneAssumption DEF AndroidLogin
  <1>5. ASSUME NEW i \in Reqs, PurgeExpired(i) \/ SelectRefused(i) \/ CommitLogout(i)
        PROVE  FALSE
    BY <1>5 DEF PurgeExpired, SelectRefused, CommitLogout
  <1> HIDE DEF Gives
  <1> QED
    BY <1>1, <1>2, <1>3, <1>4, <1>5
       DEF Step, Advance, StartUse, StartLogout, StartVerify, StartWebLogin, Abort, RedisRestart,
           Tick, CacheHit, CacheHitExpired, EvictExpired, CacheMiss, SelectValid, WarmCache,
           Serve, OtpRefused, OtpAccepted, CommitMappingStale, CacheMapped, DropCached,
           CacheWebSession, LogoutUnknown, LogoutFind

\* How a request gets to the two points of a web login that matter here.
WebProgress(r) ==
    \/ /\ req[r].pc = req'[r].pc /\ req[r].who = req'[r].who
       /\ req[r].olds = req'[r].olds /\ req[r].key = req'[r].key
    \/ /\ req'[r].pc = "replace" /\ req'[r].olds = SessionsOf(req'[r].who)
       /\ UNCHANGED rows
    \/ \E k \in Keys : CommitWebLogin(r, k)

LEMMA WebStep ==
    ASSUME Core, Step, NEW r \in Reqs, req'[r].pc \in {"replace", "publish"}
    PROVE  WebProgress(r)
  <1> USE DEF Core
  <1>1. \A i \in Reqs : req[i] \in Request
    OBVIOUS
  <1>f. ASSUME NEW i \in Reqs, Finish(i)
        PROVE  req'[i].pc = "idle" /\ (i # r => req'[r] = req[r])
    BY <1>f DEF Finish, Idle
  <1>2. ASSUME NEW i \in Reqs, CacheHit(i)
        PROVE  WebProgress(r)
    BY <1>1, <1>2 DEF CacheHit, Request, WebProgress
  <1>3. ASSUME NEW i \in Reqs, CacheHitExpired(i)
        PROVE  WebProgress(r)
    BY <1>1, <1>3 DEF CacheHitExpired, Request, WebProgress
  <1>4. ASSUME NEW i \in Reqs, EvictExpired(i)
        PROVE  WebProgress(r)
    BY <1>1, <1>4 DEF EvictExpired, Request, WebProgress
  <1>5. ASSUME NEW i \in Reqs, PurgeExpired(i)
        PROVE  WebProgress(r)
    BY <1>f, <1>5 DEF PurgeExpired, WebProgress
  <1>6. ASSUME NEW i \in Reqs, CacheMiss(i)
        PROVE  WebProgress(r)
    BY <1>1, <1>6 DEF CacheMiss, Request, WebProgress
  <1>7. ASSUME NEW i \in Reqs, SelectRefused(i)
        PROVE  WebProgress(r)
    BY <1>f, <1>7 DEF SelectRefused, WebProgress
  <1>8. ASSUME NEW i \in Reqs, SelectValid(i)
        PROVE  WebProgress(r)
    BY <1>1, <1>8 DEF SelectValid, Request, WebProgress
  <1>9. ASSUME NEW i \in Reqs, WarmCache(i)
        PROVE  WebProgress(r)
    BY <1>1, <1>9 DEF WarmCache, Request, WebProgress
  <1>10. ASSUME NEW i \in Reqs, Serve(i)
        PROVE  WebProgress(r)
    BY <1>f, <1>10 DEF Serve, WebProgress
  <1>11. ASSUME NEW i \in Reqs, OtpRefused(i)
        PROVE  WebProgress(r)
    BY <1>f, <1>11 DEF OtpRefused, WebProgress
  <1>12. ASSUME NEW i \in Reqs, OtpAccepted(i)
        PROVE  WebProgress(r)
    BY <1>1, <1>12 DEF OtpAccepted, Request, WebProgress
  <1>13. ASSUME NEW i \in Reqs, CommitMappingStale(i)
        PROVE  WebProgress(r)
    BY <1>f, <1>13 DEF CommitMappingStale, WebProgress
  <1>14. ASSUME NEW i \in Reqs, CommitMapping(i)
        PROVE  WebProgress(r)
    BY <1>1, <1>14 DEF CommitMapping, Request, WebProgress
  <1>15. ASSUME NEW i \in Reqs, CacheMapped(i)
        PROVE  WebProgress(r)
    BY <1>f, <1>15 DEF CacheMapped, WebProgress
  <1>16. ASSUME NEW i \in Reqs, NEW j \in Keys, DropCached(i, j)
        PROVE  WebProgress(r)
    BY <1>1, <1>16 DEF DropCached, Request, WebProgress
  <1>17. ASSUME NEW i \in Reqs, NEW j \in Keys, CommitWebLogin(i, j)
        PROVE  WebProgress(r)
    <2>1. i # r => req'[r] = req[r]
      BY <1>17 DEF CommitWebLogin
    <2> QED
      BY <1>17, <2>1 DEF WebProgress
  <1>18. ASSUME NEW i \in Reqs, CacheWebSession(i)
        PROVE  WebProgress(r)
    BY <1>f, <1>18 DEF CacheWebSession, WebProgress
  <1>19. ASSUME NEW i \in Reqs, LogoutUnknown(i)
        PROVE  WebProgress(r)
    BY <1>f, <1>19 DEF LogoutUnknown, WebProgress
  <1>20. ASSUME NEW i \in Reqs, NEW midnight \in 0 .. now, LogoutFind(i, midnight)
        PROVE  WebProgress(r)
    BY <1>1, <1>20 DEF LogoutFind, Request, WebProgress
  <1>21. ASSUME NEW i \in Reqs, CommitLogout(i)
        PROVE  WebProgress(r)
    BY <1>f, <1>21 DEF CommitLogout, WebProgress
  <1>22. ASSUME NEW i \in Reqs, Abort(i)
        PROVE  WebProgress(r)
    BY <1>f, <1>22 DEF Abort, WebProgress
  <1>23. ASSUME NEW i \in Reqs, NEW j \in Keys, StartUse(i, j)
        PROVE  WebProgress(r)
    BY <1>1, <1>23 DEF StartUse, Idle, Request, WebProgress
  <1>24. ASSUME NEW i \in Reqs, NEW j \in Keys, StartLogout(i, j)
        PROVE  WebProgress(r)
    BY <1>1, <1>24 DEF StartLogout, Idle, Request, WebProgress
  <1>25. ASSUME NEW i \in Reqs, NEW j \in Keys, NEW u \in AppUsers, StartVerify(i, j, u)
        PROVE  WebProgress(r)
    BY <1>1, <1>25 DEF StartVerify, Idle, Request, WebProgress
  <1>26. ASSUME NEW i \in Reqs, NEW u \in WebUsers, StartWebLogin(i, u)
        PROVE  WebProgress(r)
    BY <1>1, <1>26 DEF StartWebLogin, Idle, Request, WebProgress
  <1>27. ASSUME NEW j \in Keys, NEW d \in Devices, AndroidLogin(j, d)
        PROVE  WebProgress(r)
    BY <1>27 DEF AndroidLogin, WebProgress
  <1>28. CASE RedisRestart
    BY <1>28 DEF RedisRestart, WebProgress
  <1>29. CASE Tick
    BY <1>29 DEF Tick, WebProgress
  <1> QED
    BY <1>2, <1>3, <1>4, <1>5, <1>6, <1>7, <1>8, <1>9, <1>10, <1>11, <1>12, <1>13,
       <1>14, <1>15, <1>16, <1>17, <1>18, <1>19, <1>20, <1>21, <1>22, <1>23, <1>24,
       <1>25, <1>26, <1>27, <1>28, <1>29
    DEF Step, Advance

\* A web login that is the only login of its user has read all the sessions of
\* the user, and when it has committed its own is the only one.
LoginInv ==
    /\ Rivalry(req) \subseteq rivals
    /\ \A r \in Reqs, k \in Keys :
          /\ req[r].who \notin rivals
          /\ rows[k] # None
          /\ rows[k].user = req[r].who
          => /\ req[r].pc = "replace" => k \in req[r].olds
             /\ req[r].pc = "publish" => k = req[r].key

LEMMA LoginStep ==
    ASSUME Core, LoginInv, Next
    PROVE  LoginInv'
  <1>1. rivals' = rivals \cup Rivalry(req') /\ Step
    BY DEF Next
  <1>2. Rivalry(req)' \subseteq rivals'
    BY <1>1 DEF Rivalry
  <1>3. ASSUME NEW r \in Reqs, NEW k \in Keys, NEW w, w = req'[r].who, w \notin rivals',
               req'[r].pc \in {"replace", "publish"},
               rows'[k] # None, rows'[k].user = w
        PROVE  /\ req'[r].pc = "replace" => k \in req'[r].olds
               /\ req'[r].pc = "publish" => k = req'[r].key
    <2>1. WebProgress(r) /\ w \notin rivals
      BY <1>1, <1>3, WebStep
    <2>2. req[r] \in Request /\ Shape(req[r])
      BY DEF Core
    <2>3. CASE UNCHANGED rows /\ req'[r].pc = "replace" /\ req'[r].olds = SessionsOf(w)
      BY <1>3, <2>3 DEF SessionsOf
    <2>4. CASE \/ \E j \in Keys : CommitWebLogin(r, j)
               \/ /\ req[r].pc = req'[r].pc /\ req[r].who = w
                  /\ req[r].olds = req'[r].olds /\ req[r].key = req'[r].key
      <3>1. req[r].pc \in {"replace", "publish"} /\ req[r].who = w
        <4>1. ASSUME NEW j \in Keys, CommitWebLogin(r, j)
              PROVE  req[r].pc = "replace" /\ req'[r].who = req[r].who
          BY <2>2, <4>1 DEF CommitWebLogin, Request, Core
        <4> QED
          BY <1>3, <2>4, <4>1
      <3>2. w \in Users /\ LogsIn(req[r]) /\ req[r].pc # "map"
        BY <2>2, <3>1 DEF Shape, LogsIn
      <3>3. \A i \in Reqs \ {r} : ~(LogsIn(req[i]) /\ req[i].who = w)
        BY <2>1, <3>1, <3>2 DEF LoginInv, Rivalry
      <3>4. (rows[k] # None /\ rows[k].user = w) \/ CommitWebLogin(r, k)
        <4>1. SUFFICES ASSUME rows[k] = None \/ rows[k].user # w
                       PROVE  CommitWebLogin(r, k)
          OBVIOUS
        <4>2. PICK i \in Reqs : /\ LogsIn(req[i]) /\ req[i].who = w
                                /\ req[i].pc = "map" \/ CommitWebLogin(i, k)
          BY <1>1, <1>3, <3>2, <4>1, NewOwner
        <4> QED
          BY <3>2, <3>3, <4>2
      <3>5. ASSUME NEW j \in Keys, CommitWebLogin(r, j)
            PROVE  req'[r].pc = "publish" /\ k = req'[r].key
        <4>1. /\ req[r].pc = "replace" /\ req'[r].pc = "publish" /\ req'[r].key = j
              /\ k # j /\ k \in req[r].olds => rows'[k] = None
          BY <2>2, <3>5 DEF CommitWebLogin, Request, Core
        <4>2. CASE CommitWebLogin(r, k)
          BY <2>2, <4>1, <4>2 DEF CommitWebLogin, Request, Core
        <4>3. CASE rows[k] # None /\ rows[k].user = w
          <5>1. k \in req[r].olds
            BY <2>1, <3>1, <4>1, <4>3 DEF LoginInv
          <5> QED
            BY <1>3, <4>1, <5>1
        <4> QED
          BY <3>4, <4>1, <4>2, <4>3
      <3>6. CASE ~\E j \in Keys : CommitWebLogin(r, j)
        <4>1. /\ rows[k] # None /\ rows[k].user = w
              /\ req[r].pc = req'[r].pc
              /\ req[r].olds = req'[r].olds /\ req[r].key = req'[r].key
          BY <2>4, <3>4, <3>6
        <4> QED
          BY <2>1, <3>1, <4>1 DEF LoginInv
      <3> QED
        BY <3>5, <3>6
    <2> QED
      BY <1>3, <2>1, <2>3, <2>4 DEF WebProgress
  <1> QED
    BY <1>2, <1>3 DEF LoginInv

\* A copy that names a user of the web login alone names the user of the row,
\* as long as there is a row.
Agrees(k, u) == u \in AppUsers \cup {None} \/ rows[k] = None \/ rows[k].user = u

CopyAgrees(k) == cache[k] # None => Agrees(k, cache[k].user)

\* Nobody a session is mapped to by verify-otp, or taken from, is such a user.
AppOwned(k) == rows[k] # None => rows[k].user \in AppUsers \cup {None}

OwnReq(r) ==
    /\ req[r].op = "verify" => req[r].key \in AppKeys /\ req[r].who \in AppUsers
    /\ req[r].pc = "map" => \A k \in req[r].olds : issued[k] # None /\ AppOwned(k)
    /\ req[r].pc = "warm" => Agrees(req[r].key, req[r].copy.user)
    /\ req[r].pc = "publish" => Agrees(req[r].key, req[r].who)

OwnInv ==
    /\ \A k \in AppKeys : AppOwned(k)
    /\ \A r \in Reqs : OwnReq(r)
    /\ \A k \in Keys : CopyAgrees(k)

\* What can happen to a row: it stays, goes, is new, or changes from one user
\* of the app, or none, to another.
RowStep(k) ==
    \/ rows'[k] = rows[k]
    \/ rows'[k] = None
    \/ issued[k] = None /\ (k \in AppKeys => AppOwned(k)')
    \/ rows[k] # None /\ AppOwned(k) /\ AppOwned(k)'

LEMMA RowsStep ==
    ASSUME Core, TillInv, OwnInv, Step, NEW k \in Keys
    PROVE  RowStep(k) /\ (issued[k] # None => issued'[k] # None)
  <1> USE DEF Core
  <1>1. \A n \in Nat : n # None
    BY NoneAssumption
  <1>2. CASE rows' = rows /\ issued' = issued
    BY <1>2 DEF RowStep
  <1>3. ASSUME NEW i \in Reqs, PurgeExpired(i) \/ SelectRefused(i) \/ CommitLogout(i)
        PROVE  RowStep(k) /\ issued' = issued
    BY <1>3 DEF PurgeExpired, SelectRefused, CommitLogout, RowStep
  <1>4. ASSUME NEW i \in Reqs, CommitMapping(i)
        PROVE  RowStep(k) /\ issued' = issued
    <2>1. /\ req[i].op = "verify" /\ req[i].pc = "map"
          /\ req[i].key \in AppKeys /\ req[i].who \in AppUsers
      BY <1>4 DEF CommitMapping, Shape, OwnInv, OwnReq
    <2>2. /\ rows'[k] = IF k \in req[i].olds THEN Mapped(rows[k], None)
                        ELSE IF k \in Updates(req[i]) THEN Mapped(rows[k], req[i].who)
                        ELSE rows[k]
          /\ issued' = issued
      BY <1>4 DEF CommitMapping
    <2>3. k \in Updates(req[i]) => rows[k] # None /\ rows[k] \in Session /\ AppOwned(k)
      BY <1>4, <2>1 DEF CommitMapping, Updates, OwnInv, OwnReq
    <2>4. k \in req[i].olds => k \in Updates(req[i])
      BY DEF Updates
    <2>5. ASSUME NEW u \in AppUsers \cup {None}, rows'[k] = Mapped(rows[k], u), rows[k] \in Session
          PROVE  rows'[k].user = u
      BY <2>5 DEF Mapped, Session
    <2> QED
      BY <2>1, <2>2, <2>3, <2>4, <2>5 DEF RowStep, AppOwned
  <1>5. ASSUME NEW i \in Reqs, NEW j \in Keys, CommitWebLogin(i, j)
        PROVE  RowStep(k) /\ (issued[k] # None => issued'[k] # None)
    <2>1. req[i].copy.till \in Nat
      BY <1>5 DEF CommitWebLogin, Shape, Copy
    <2>2. j \notin AppKeys /\ issued[j] = None
      BY <1>5, KeysAssumption DEF CommitWebLogin, Fresh
    <2>3. k # j => issued'[k] = issued[k] /\ rows'[k] \in {rows[k], None}
      BY <1>5 DEF CommitWebLogin
    <2>4. k = j => issued'[k] # None
      BY <1>1, <1>5, <2>1 DEF CommitWebLogin
    <2> QED
      BY <2>2, <2>3, <2>4 DEF RowStep
  <1>6. ASSUME NEW j \in Keys, NEW d \in Devices, AndroidLogin(j, d)
        PROVE  RowStep(k) /\ (issued[k] # None => issued'[k] # None)
    <2>1. k # j => issued'[k] = issued[k] /\ rows'[k] = rows[k]
      BY <1>6 DEF AndroidLogin
    <2>2. k = j => issued[k] = None /\ rows'[k].user = None
      BY <1>6 DEF AndroidLogin, Fresh
    <2>3. k = j => issued'[k] # None
      BY <1>1, <1>6, TTLAssumption DEF AndroidLogin
    <2> QED
      BY <2>1, <2>2, <2>3 DEF RowStep, AppOwned
  <1> QED
    BY <1>2, <1>3, <1>4, <1>5, <1>6
       DEF Step, Advance, StartUse, StartLogout, StartVerify, StartWebLogin, Abort, RedisRestart,
           Tick, CacheHit, CacheHitExpired, EvictExpired, CacheMiss, SelectValid, WarmCache,
           Serve, OtpRefused, OtpAccepted, CommitMappingStale, CacheMapped, DropCached,
           CacheWebSession, LogoutUnknown, LogoutFind

LEMMA OwnStep ==
    ASSUME Core, TillInv, OwnInv, Step
    PROVE  OwnInv'
  <1> USE DEF Core
  <1>1. \A r \in Reqs : req[r] \in Request /\ Shape(req[r])
    OBVIOUS
  <1>2. \A k \in AppKeys : AppOwned(k)'
    BY RowsStep DEF RowStep, AppOwned, OwnInv, Keys
  <1>3. ASSUME NEW k \in Keys, issued[k] # None
        PROVE  /\ issued'[k] # None
               /\ AppOwned(k) => AppOwned(k)'
               /\ \A u : Agrees(k, u) => Agrees(k, u)'
    BY <1>3, RowsStep DEF RowStep, AppOwned, Agrees
  <1>4. ASSUME NEW k \in Keys
        PROVE  /\ rows[k] # None => issued[k] # None
               /\ cache[k] # None => issued[k] # None
    <2>1. rows[k] # None => rows[k].till \in Nat
      BY DEF Session
    <2>2. cache[k] # None => cache[k].till \in Nat
      BY DEF Entry
    <2> QED
      BY <2>1, <2>2, NoneAssumption DEF TillInv
  <1>5. \A r \in Reqs : req[r].pc \notin {"idle", "replace"} => issued[req[r].key] # None
    BY DEF TillInv
  <1>f. ASSUME NEW i \in Reqs, Finish(i)
        PROVE  /\ req'[i].pc = "idle" /\ req'[i].op = "none"
               /\ \A r \in Reqs : r # i => req'[r] = req[r]
    BY <1>f DEF Finish, Idle
  <1>o. ASSUME NEW r \in Reqs, req'[r] = req[r]
        PROVE  OwnReq(r)'
    BY <1>1, <1>3, <1>5, <1>o DEF OwnReq, OwnInv, Shape, Request
  <1>c. ASSUME NEW k \in Keys, cache'[k] = cache[k] \/ cache'[k] = None
        PROVE  CopyAgrees(k)'
    BY <1>3, <1>4, <1>c DEF OwnInv, CopyAgrees, Agrees
  <1> DEFINE Fine(i) == /\ OwnReq(i)'
                        /\ \A r \in Reqs : r # i => req'[r] = req[r]
                        /\ \A k \in Keys : CopyAgrees(k)'
  <1>g. ASSUME NEW i \in Reqs, req'[i].pc = "idle", req'[i].op = "none"
        PROVE  OwnReq(i)'
    BY <1>g DEF OwnReq
  <1>6. ASSUME NEW i \in Reqs, CacheHit(i)
        PROVE  Fine(i)
    BY <1>1, <1>6, <1>c DEF CacheHit, OwnReq, OwnInv, Request
  <1>7. ASSUME NEW i \in Reqs, CacheHitExpired(i)
        PROVE  Fine(i)
    BY <1>1, <1>7, <1>c DEF CacheHitExpired, OwnReq, OwnInv, Request
  <1>8. ASSUME NEW i \in Reqs, EvictExpired(i)
        PROVE  Fine(i)
    BY <1>1, <1>8, <1>c DEF EvictExpired, OwnReq, OwnInv, Request
  <1>9. ASSUME NEW i \in Reqs, PurgeExpired(i)
        PROVE  Fine(i)
    BY <1>9, <1>c, <1>f, <1>g DEF PurgeExpired
  <1>10. ASSUME NEW i \in Reqs, CacheMiss(i)
        PROVE  Fine(i)
    BY <1>1, <1>10, <1>c DEF CacheMiss, OwnReq, OwnInv, Request
  <1>11. ASSUME NEW i \in Reqs, SelectRefused(i)
        PROVE  Fine(i)
    BY <1>11, <1>c, <1>f, <1>g DEF SelectRefused
  <1>12. ASSUME NEW i \in Reqs, SelectValid(i)
        PROVE  Fine(i)
    <2>1. /\ rows' = rows /\ cache' = cache /\ req'[i].op = req[i].op
          /\ req'[i].pc = "warm" /\ req'[i].key = req[i].key /\ req'[i].who = req[i].who
          /\ req'[i].copy.user = rows[req[i].key].user
          /\ \A r \in Reqs : r # i => req'[r] = req[r]
      BY <1>1, <1>12 DEF SelectValid, CopyOf, Request
    <2> QED
      BY <1>c, <2>1 DEF OwnReq, OwnInv, Agrees
  <1>13. ASSUME NEW i \in Reqs, WarmCache(i)
        PROVE  Fine(i)
    <2>1. PICK x \in Keys :
             /\ x = req[i].key /\ issued[x] # None /\ Agrees(x, req[i].copy.user)
             /\ cache' = [cache EXCEPT ![x] = CacheEntry(req[i].copy, req[i].copy.user, req[i].ttl)]
      BY <1>1, <1>5, <1>13 DEF WarmCache, Shape, OwnInv, OwnReq
    <2>2. CopyAgrees(x)'
      BY <1>3, <2>1 DEF CacheEntry, CopyAgrees, Agrees
    <2>3. \A k \in Keys : CopyAgrees(k)'
      BY <1>c, <2>1, <2>2
    <2>4. OwnReq(i)' /\ \A r \in Reqs : r # i => req'[r] = req[r]
      BY <1>1, <1>13 DEF WarmCache, OwnReq, OwnInv, Request
    <2> QED
      BY <2>3, <2>4
  <1>14. ASSUME NEW i \in Reqs, Serve(i)
        PROVE  Fine(i)
    BY <1>14, <1>c, <1>f, <1>g DEF Serve
  <1>15. ASSUME NEW i \in Reqs, OtpRefused(i)
        PROVE  Fine(i)
    BY <1>15, <1>c, <1>f, <1>g DEF OtpRefused
  <1>16. ASSUME NEW i \in Reqs, OtpAccepted(i)
        PROVE  Fine(i)
    <2>1. /\ rows' = rows /\ cache' = cache /\ issued' = issued /\ req'[i].op = req[i].op
          /\ req'[i].pc = "map" /\ req'[i].key = req[i].key /\ req'[i].who = req[i].who
          /\ req'[i].olds = SessionsOf(req[i].who) \ {req[i].key}
          /\ \A r \in Reqs : r # i => req'[r] = req[r]
      BY <1>1, <1>16 DEF OtpAccepted, Request
    <2>2. req[i].who \in AppUsers
      BY <1>16 DEF OtpAccepted, OwnInv, OwnReq
    <2>3. \A k \in SessionsOf(req[i].who) :
            k \in Keys /\ issued[k] # None /\ rows[k].user = req[i].who
      BY <1>4 DEF SessionsOf
    <2>4. \A k \in req'[i].olds : issued'[k] # None /\ AppOwned(k)'
      BY <2>1, <2>2, <2>3 DEF AppOwned
    <2> QED
      BY <1>c, <2>1, <2>4 DEF OwnReq, OwnInv
  <1>17. ASSUME NEW i \in Reqs, CommitMappingStale(i)
        PROVE  Fine(i)
    BY <1>17, <1>c, <1>f, <1>g DEF CommitMappingStale
  <1>18. ASSUME NEW i \in Reqs, CommitMapping(i)
        PROVE  Fine(i)
    <2>1. /\ cache' = cache /\ req'[i].op = req[i].op
          /\ req'[i].pc = "remap" /\ req'[i].key = req[i].key /\ req'[i].who = req[i].who
          /\ \A r \in Reqs : r # i => req'[r] = req[r]
      BY <1>1, <1>18 DEF CommitMapping, Request
    <2> QED
      BY <1>c, <2>1 DEF OwnReq, OwnInv
  <1>19. ASSUME NEW i \in Reqs, CacheMapped(i)
        PROVE  Fine(i)
    <2>1. PICK x \in Keys :
             /\ x = req[i].key /\ req[i].who \in AppUsers
             /\ cache' = [cache EXCEPT ![x] = CacheEntry(req[i].copy, req[i].who, req[i].ttl)]
      BY <1>1, <1>19 DEF CacheMapped, Shape, OwnInv, OwnReq
    <2>2. CopyAgrees(x)'
      BY <2>1 DEF CacheEntry, CopyAgrees, Agrees
    <2>3. \A k \in Keys : CopyAgrees(k)'
      BY <1>c, <2>1, <2>2
    <2> QED
      BY <1>19, <1>f, <1>g, <2>3 DEF CacheMapped
  <1>20. ASSUME NEW i \in Reqs, NEW j \in Keys, DropCached(i, j)
        PROVE  Fine(i)
    <2>1. /\ req'[i].pc = req[i].pc /\ req[i].pc \in {"replace", "clean"}
          /\ req'[i].op = req[i].op /\ req'[i].key = req[i].key /\ req'[i].who = req[i].who
          /\ \A r \in Reqs : r # i => req'[r] = req[r]
      BY <1>1, <1>20 DEF DropCached, Request
    <2>2. \A k \in Keys : cache'[k] \in {cache[k], None}
      BY <1>20 DEF DropCached
    <2> QED
      BY <1>c, <2>1, <2>2 DEF OwnReq, OwnInv
  <1>21. ASSUME NEW i \in Reqs, NEW j \in Keys, CommitWebLogin(i, j)
        PROVE  Fine(i)
    <2>1. /\ rows'[j].user = req[i].who /\ cache' = cache /\ req'[i].op = req[i].op
          /\ req'[i].pc = "publish" /\ req'[i].key = j /\ req'[i].who = req[i].who
          /\ req[i].op = "web"
          /\ \A r \in Reqs : r # i => req'[r] = req[r]
      BY <1>1, <1>21 DEF CommitWebLogin, Request, Shape
    <2> QED
      BY <1>c, <2>1 DEF OwnReq, Agrees
  <1>22. ASSUME NEW i \in Reqs, CacheWebSession(i)
        PROVE  Fine(i)
    <2>1. PICK x \in Keys :
             /\ x = req[i].key /\ issued[x] # None /\ Agrees(x, req[i].who)
             /\ cache' = [cache EXCEPT ![x] = CacheEntry(req[i].copy, req[i].who, WebTTL)]
      BY <1>1, <1>5, <1>22 DEF CacheWebSession, Shape, OwnInv, OwnReq
    <2>2. CopyAgrees(x)'
      BY <1>3, <2>1 DEF CacheEntry, CopyAgrees, Agrees
    <2>3. \A k \in Keys : CopyAgrees(k)'
      BY <1>c, <2>1, <2>2
    <2> QED
      BY <1>22, <1>f, <1>g, <2>3 DEF CacheWebSession
  <1>23. ASSUME NEW i \in Reqs, LogoutUnknown(i)
        PROVE  Fine(i)
    BY <1>23, <1>c, <1>f, <1>g DEF LogoutUnknown
  <1>24. ASSUME NEW i \in Reqs, NEW midnight \in 0 .. now, LogoutFind(i, midnight)
        PROVE  Fine(i)
    BY <1>1, <1>24, <1>c DEF LogoutFind, OwnReq, OwnInv, Request
  <1>25. ASSUME NEW i \in Reqs, CommitLogout(i)
        PROVE  Fine(i)
    BY <1>25, <1>c, <1>f, <1>g DEF CommitLogout
  <1>26. ASSUME NEW i \in Reqs, Abort(i)
        PROVE  Fine(i)
    BY <1>26, <1>c, <1>f, <1>g DEF Abort
  <1>27. ASSUME NEW i \in Reqs, NEW j \in Keys, StartUse(i, j)
        PROVE  Fine(i)
    BY <1>1, <1>27, <1>c DEF StartUse, Idle, OwnReq, OwnInv, Request
  <1>28. ASSUME NEW i \in Reqs, NEW j \in Keys, StartLogout(i, j)
        PROVE  Fine(i)
    BY <1>1, <1>28, <1>c DEF StartLogout, Idle, OwnReq, OwnInv, Request
  <1>29. ASSUME NEW i \in Reqs, NEW j \in Keys, NEW u \in AppUsers, StartVerify(i, j, u)
        PROVE  Fine(i)
    BY <1>1, <1>29, <1>c DEF StartVerify, Idle, OwnReq, OwnInv, Request
  <1>30. ASSUME NEW i \in Reqs, NEW u \in WebUsers, StartWebLogin(i, u)
        PROVE  Fine(i)
    BY <1>1, <1>30, <1>c DEF StartWebLogin, Idle, OwnReq, OwnInv, Request
  <1>31. ASSUME NEW j \in Keys, NEW d \in Devices, AndroidLogin(j, d)
        PROVE  (\A r \in Reqs : OwnReq(r)') /\ \A k \in Keys : CopyAgrees(k)'
    BY <1>31, <1>o, <1>c DEF AndroidLogin
  <1>32. ASSUME RedisRestart
        PROVE  (\A r \in Reqs : OwnReq(r)') /\ \A k \in Keys : CopyAgrees(k)'
    BY <1>32, <1>o, <1>c DEF RedisRestart
  <1>33. ASSUME Tick
        PROVE  (\A r \in Reqs : OwnReq(r)') /\ \A k \in Keys : CopyAgrees(k)'
    BY <1>33, <1>o, <1>c DEF Tick
  <1> HIDE DEF Fine
  <1>s. \/ \E i \in Reqs : Fine(i)
        \/ (\A r \in Reqs : OwnReq(r)') /\ \A k \in Keys : CopyAgrees(k)'
    BY <1>6, <1>7, <1>8, <1>9, <1>10, <1>11, <1>12, <1>13, <1>14, <1>15, <1>16, <1>17,
       <1>18, <1>19, <1>20, <1>21, <1>22, <1>23, <1>24, <1>25, <1>26, <1>27, <1>28,
       <1>29, <1>30, <1>31, <1>32, <1>33
    DEF Step, Advance
  <1>t. (\A r \in Reqs : OwnReq(r)') /\ \A k \in Keys : CopyAgrees(k)'
    BY <1>o, <1>s DEF Fine
  <1> QED
    BY <1>2, <1>t DEF OwnInv

LEMMA LoginInvariant == Spec => [](Core /\ LoginInv /\ OwnInv /\ OrderInv)
  <1>1. Init => LoginInv /\ OwnInv
    <2> SUFFICES ASSUME Init
                 PROVE  LoginInv /\ OwnInv
      OBVIOUS
    <2>1. \A r \in Reqs : req[r].op = "none" /\ req[r].pc = "idle"
      BY DEF Init, Idle
    <2>2. Rivalry(req) = {}
      BY <2>1 DEF Rivalry, LogsIn
    <2> QED
      BY <2>1, <2>2 DEF Init, LoginInv, OwnInv, OwnReq, AppOwned, CopyAgrees, Keys
  <1>2. Core /\ TillInv /\ LoginInv /\ OwnInv /\ [Next]_vars => LoginInv' /\ OwnInv'
    <2> SUFFICES ASSUME Core, TillInv, LoginInv, OwnInv, [Next]_vars
                 PROVE  LoginInv' /\ OwnInv'
      OBVIOUS
    <2>1. CASE Next
      BY <2>1, LoginStep, OwnStep DEF Next
    <2>2. CASE UNCHANGED vars
      BY <2>2 DEF vars, LoginInv, OwnInv, OwnReq, AppOwned, Agrees, CopyAgrees, Rivalry, LogsIn
    <2> QED
      BY <2>1, <2>2
  <1> QED
    BY <1>1, <1>2, OrderInvariant, TillInvariant, PTL DEF Spec

\* A web login that runs to its end leaves its user no other session in MySQL,
\* if the user has had no two logins in flight at once, and no copy of one in
\* Redis either, of a user of the web login alone and a session that no two
\* requests worked on at once.
THEOREM WebLoginLogsOutEverywhereHolds == Spec => WebLoginLogsOutEverywhere
  <1>1. Core /\ LoginInv /\ OwnInv /\ OrderInv
          => \A r \in Reqs : CacheWebSession(r) /\ req[r].who \notin rivals =>
               \A k \in Keys \ {req[r].key} :
                  /\ rows'[k] = None \/ rows'[k].user # req[r].who
                  /\ \/ cache'[k] = None \/ cache'[k].user # req[r].who
                     \/ req[r].who \in AppUsers
                     \/ k \in raced
    <2> SUFFICES ASSUME Core, LoginInv, OwnInv, OrderInv, NEW r \in Reqs, CacheWebSession(r),
                        req[r].who \notin rivals, NEW k \in Keys, k # req[r].key
                 PROVE  /\ rows'[k] = None \/ rows'[k].user # req[r].who
                        /\ \/ cache'[k] = None \/ cache'[k].user # req[r].who
                           \/ req[r].who \in AppUsers
                           \/ k \in raced
      OBVIOUS
    <2>1. /\ req[r].pc = "publish" /\ rows'[k] = rows[k] /\ cache'[k] = cache[k]
          /\ req[r].who # None
      BY NoneAssumption DEF CacheWebSession, Core, Shape
    <2>2. rows[k] = None \/ rows[k].user # req[r].who
      BY <2>1 DEF LoginInv
    <2>3. cache[k] # None /\ k \notin raced => rows[k] # None
      BY DEF OrderInv, Orderly
    <2>4. cache[k] # None => Agrees(k, cache[k].user)
      BY DEF OwnInv, CopyAgrees
    <2> QED
      BY <2>1, <2>2, <2>3, <2>4 DEF Agrees
  <1> QED
    BY <1>1, LoginInvariant, PTL DEF Spec, WebLoginLogsOutEverywhere

---------------------------------------------------------------------------
(* Sessions implements SessionLifecycle *)

Admitted == [r \in Reqs |-> Admission(r)]

\* How a step of the program looks from outside, apart from what it closes.
Outcome ==
    \/ \E k \in Keys : /\ issued[k] = None
                       /\ issued'[k] \in Nat
                       /\ issued' = [issued EXCEPT ![k] = issued'[k]]
                       /\ UNCHANGED <<now, Admitted>>
    \/ \E r \in Reqs, k \in Keys : /\ ~Dead(k) /\ issued[k] \in Nat /\ issued[k] >= now
                                   /\ Admission(r) = None
                                   /\ Admitted' = [Admitted EXCEPT ![r] = k]
                                   /\ UNCHANGED <<now, issued>>
    \/ \E r \in Reqs : /\ Admission(r) # None
                       /\ Admitted' = [Admitted EXCEPT ![r] = None]
                       /\ UNCHANGED <<now, issued>>
    \/ now' = now + 1 /\ UNCHANGED <<issued, Admitted>>
    \/ UNCHANGED <<now, issued, Admitted>>

\* The admission of one request changes, the others' do not.
LEMMA AdmittedFrame ==
    ASSUME Core, NEW r \in Reqs, NEW a, \A i \in Reqs : i # r => req'[i] = req[i],
           Admission(r)' = a
    PROVE  /\ Admitted' = [Admitted EXCEPT ![r] = a]
           /\ a = Admission(r) => UNCHANGED Admitted
  <1>1. \A i \in Reqs : i # r => Admission(i)' = Admission(i)
    BY DEF Admission
  <1> QED
    BY <1>1 DEF Admitted

\* A request that ends answers, if it had been let in.
LEMMA FinishOutcome ==
    ASSUME Core, NEW r \in Reqs, Finish(r), UNCHANGED <<now, issued>>
    PROVE  Outcome
  <1>1. Admission(r)' = None
    BY FinishEffect DEF Admission
  <1> QED
    BY <1>1, FinishEffect, AdmittedFrame DEF Outcome

\* A request that goes on as it was.
LEMMA GoesOnOutcome ==
    ASSUME Core, NEW r \in Reqs, \A i \in Reqs : i # r => req'[i] = req[i],
           req'[r].op = req[r].op, req'[r].copy = req[r].copy, req'[r].key = req[r].key,
           UNCHANGED <<now, issued>>
    PROVE  Outcome
  <1>1. Admission(r)' = Admission(r)
    BY DEF Admission
  <1> QED
    BY <1>1, AdmittedFrame DEF Outcome

\* A request that is not, or not yet, let in.
LEMMA OutsideOutcome ==
    ASSUME Core, NEW r \in Reqs, \A i \in Reqs : i # r => req'[i] = req[i],
           Admission(r) = None, Admission(r)' = None
    PROVE  UNCHANGED Admitted
  BY AdmittedFrame

LEMMA StepOutcome == Core /\ TillInv /\ Step => Outcome
  <1> SUFFICES ASSUME Core, TillInv, Step
               PROVE  Outcome
    OBVIOUS
  <1> USE DEF Core
  <1>1. \A r \in Reqs : req[r] \in Request /\ Shape(req[r])
    OBVIOUS
  <1>2. ASSUME NEW r \in Reqs, CacheHit(r)
        PROVE  Outcome
    <2>1. req[r].key \in Keys /\ req[r].op \in {"use", "verify"} /\ req[r].copy = None
      BY <1>1, <1>2 DEF CacheHit, Shape
    <2>2. cache[req[r].key] \in Entry
      BY <1>2, <2>1 DEF CacheHit
    <2>3. CopyOf(cache[req[r].key]) # None
      BY <2>2, CopyType, NoneAssumption
    <2>4. /\ req'[r].op = req[r].op /\ req'[r].key = req[r].key /\ req'[r].copy # None
          /\ \A i \in Reqs : i # r => req'[i] = req[i]
          /\ UNCHANGED <<now, issued>>
      BY <1>1, <1>2, <2>3 DEF CacheHit, Request
    <2>5. Admission(r) = None /\ Admission(r)' = req[r].key
      BY <2>1, <2>4 DEF Admission
    <2>6. ~Dead(req[r].key) /\ issued[req[r].key] \in Nat /\ issued[req[r].key] >= now
      BY <1>2, <2>1, <2>2 DEF CacheHit, Live, Dead, TillInv, Session, Entry
    <2> QED
      BY <2>1, <2>4, <2>5, <2>6, AdmittedFrame DEF Outcome
  <1>3. ASSUME NEW r \in Reqs, CacheHitExpired(r)
        PROVE  Outcome
    BY <1>1, <1>3, GoesOnOutcome DEF CacheHitExpired, Request
  <1>4. ASSUME NEW r \in Reqs, EvictExpired(r)
        PROVE  Outcome
    BY <1>1, <1>4, GoesOnOutcome DEF EvictExpired, Request
  <1>5. ASSUME NEW r \in Reqs, PurgeExpired(r)
        PROVE  Outcome
    BY <1>5, FinishOutcome DEF PurgeExpired
  <1>6. ASSUME NEW r \in Reqs, CacheMiss(r)
        PROVE  Outcome
    BY <1>1, <1>6, GoesOnOutcome DEF CacheMiss, Request
  <1>7. ASSUME NEW r \in Reqs, SelectRefused(r)
        PROVE  Outcome
    BY <1>7, FinishOutcome DEF SelectRefused
  <1>8. ASSUME NEW r \in Reqs, SelectValid(r)
        PROVE  Outcome
    <2>1. req[r].key \in Keys /\ req[r].op \in {"use", "verify"} /\ req[r].copy = None
      BY <1>1, <1>8 DEF SelectValid, Shape
    <2>2. rows[req[r].key] \in Session
      BY <1>8, <2>1 DEF SelectValid
    <2>3. CopyOf(rows[req[r].key]) # None
      BY <2>2, CopyType, NoneAssumption
    <2>4. /\ req'[r].op = req[r].op /\ req'[r].key = req[r].key /\ req'[r].copy # None
          /\ \A i \in Reqs : i # r => req'[i] = req[i]
          /\ UNCHANGED <<now, issued>>
      BY <1>1, <1>8, <2>3 DEF SelectValid, Request
    <2>5. Admission(r) = None /\ Admission(r)' = req[r].key
      BY <2>1, <2>4 DEF Admission
    <2>6. ~Dead(req[r].key) /\ issued[req[r].key] \in Nat /\ issued[req[r].key] >= now
      BY <1>8, <2>1, <2>2 DEF SelectValid, Live, Dead, TillInv, Session, Entry
    <2> QED
      BY <2>1, <2>4, <2>5, <2>6, AdmittedFrame DEF Outcome
  <1>9. ASSUME NEW r \in Reqs, WarmCache(r)
        PROVE  Outcome
    BY <1>1, <1>9, GoesOnOutcome DEF WarmCache, Request
  <1>10. ASSUME NEW r \in Reqs, Serve(r)
        PROVE  Outcome
    BY <1>10, FinishOutcome DEF Serve
  <1>11. ASSUME NEW r \in Reqs, OtpRefused(r)
        PROVE  Outcome
    BY <1>11, FinishOutcome DEF OtpRefused
  <1>12. ASSUME NEW r \in Reqs, OtpAccepted(r)
        PROVE  Outcome
    BY <1>1, <1>12, GoesOnOutcome DEF OtpAccepted, Request
  <1>13. ASSUME NEW r \in Reqs, CommitMappingStale(r)
        PROVE  Outcome
    BY <1>13, FinishOutcome DEF CommitMappingStale
  <1>14. ASSUME NEW r \in Reqs, CommitMapping(r)
        PROVE  Outcome
    BY <1>1, <1>14, GoesOnOutcome DEF CommitMapping, Request
  <1>15. ASSUME NEW r \in Reqs, CacheMapped(r)
        PROVE  Outcome
    BY <1>15, FinishOutcome DEF CacheMapped
  <1>16. ASSUME NEW r \in Reqs, NEW j \in Keys, DropCached(r, j)
        PROVE  Outcome
    BY <1>1, <1>16, GoesOnOutcome DEF DropCached, Request
  <1>17. ASSUME NEW r \in Reqs, NEW j \in Keys, CommitWebLogin(r, j)
        PROVE  Outcome
    <2>1. Admission(r) = None /\ Admission(r)' = None
      BY <1>1, <1>17 DEF CommitWebLogin, Shape, Request, Admission
    <2>2. \A i \in Reqs : i # r => req'[i] = req[i]
      BY <1>17 DEF CommitWebLogin
    <2>3. UNCHANGED Admitted
      BY <2>1, <2>2, OutsideOutcome
    <2>4. req[r].copy.till \in Nat
      BY <1>1, <1>17 DEF CommitWebLogin, Shape, Copy
    <2> QED
      BY <1>17, <2>3, <2>4 DEF CommitWebLogin, Fresh, Outcome
  <1>18. ASSUME NEW r \in Reqs, CacheWebSession(r)
        PROVE  Outcome
    BY <1>18, FinishOutcome DEF CacheWebSession
  <1>19. ASSUME NEW r \in Reqs, LogoutUnknown(r)
        PROVE  Outcome
    BY <1>19, FinishOutcome DEF LogoutUnknown
  <1>20. ASSUME NEW r \in Reqs, NEW midnight \in 0 .. now, LogoutFind(r, midnight)
        PROVE  Outcome
    BY <1>1, <1>20, GoesOnOutcome DEF LogoutFind, Request
  <1>21. ASSUME NEW r \in Reqs, CommitLogout(r)
        PROVE  Outcome
    BY <1>21, FinishOutcome DEF CommitLogout
  <1>22. ASSUME NEW r \in Reqs, Abort(r)
        PROVE  Outcome
    BY <1>22, FinishOutcome DEF Abort
  <1>23. ASSUME NEW r \in Reqs, NEW j \in Keys, StartUse(r, j)
        PROVE  Outcome
    <2>1. Admission(r) = None /\ Admission(r)' = None
      BY <1>1, <1>23 DEF StartUse, Idle, Admission
    <2>2. \A i \in Reqs : i # r => req'[i] = req[i]
      BY <1>23 DEF StartUse
    <2>3. UNCHANGED Admitted
      BY <2>1, <2>2, OutsideOutcome
    <2> QED
      BY <1>23, <2>3 DEF StartUse, Outcome
  <1>24. ASSUME NEW r \in Reqs, NEW j \in Keys, StartLogout(r, j)
        PROVE  Outcome
    <2>1. Admission(r) = None /\ Admission(r)' = None
      BY <1>1, <1>24 DEF StartLogout, Idle, Admission
    <2>2. \A i \in Reqs : i # r => req'[i] = req[i]
      BY <1>24 DEF StartLogout
    <2>3. UNCHANGED Admitted
      BY <2>1, <2>2, OutsideOutcome
    <2> QED
      BY <1>24, <2>3 DEF StartLogout, Outcome
  <1>25. ASSUME NEW r \in Reqs, NEW j \in Keys, NEW u \in Users, StartVerify(r, j, u)
        PROVE  Outcome
    <2>1. Admission(r) = None /\ Admission(r)' = None
      BY <1>1, <1>25 DEF StartVerify, Idle, Admission
    <2>2. \A i \in Reqs : i # r => req'[i] = req[i]
      BY <1>25 DEF StartVerify
    <2>3. UNCHANGED Admitted
      BY <2>1, <2>2, OutsideOutcome
    <2> QED
      BY <1>25, <2>3 DEF StartVerify, Outcome
  <1>26. ASSUME NEW r \in Reqs, NEW u \in Users, StartWebLogin(r, u)
        PROVE  Outcome
    <2>1. Admission(r) = None /\ Admission(r)' = None
      BY <1>1, <1>26 DEF StartWebLogin, Idle, Admission
    <2>2. \A i \in Reqs : i # r => req'[i] = req[i]
      BY <1>26 DEF StartWebLogin
    <2>3. UNCHANGED Admitted
      BY <2>1, <2>2, OutsideOutcome
    <2> QED
      BY <1>26, <2>3 DEF StartWebLogin, Outcome
  <1>27. ASSUME NEW j \in Keys, NEW d \in Devices, AndroidLogin(j, d)
        PROVE  Outcome
    <2>1. UNCHANGED Admitted
      BY <1>27 DEF AndroidLogin, Admitted, Admission
    <2>2. issued'[j] = now + AppTTL /\ now + AppTTL \in Nat
      BY <1>27, TTLAssumption DEF AndroidLogin
    <2>3. issued[j] = None /\ issued' = [issued EXCEPT ![j] = issued'[j]] /\ now' = now
      BY <1>27, <2>2 DEF AndroidLogin, Fresh
    <2> QED
      BY <2>1, <2>2, <2>3 DEF Outcome
  <1>28. CASE RedisRestart
    BY <1>28 DEF RedisRestart, Outcome, Admitted, Admission
  <1>29. CASE Tick
    BY <1>29 DEF Tick, Outcome, Admitted, Admission
  <1> QED
    BY <1>2, <1>3, <1>4, <1>5, <1>6, <1>7, <1>8, <1>9, <1>10, <1>11, <1>12, <1>13, <1>14, <1>15, <1>16, <1>17, <1>18, <1>19, <1>20, <1>21, <1>22, <1>23, <1>24, <1>25, <1>26, <1>27, <1>28, <1>29 DEF Step, Advance, Users

\* A session is created together with its row.
LEMMA BornAlive ==
    ASSUME Core, Step, NEW k \in Keys, issued[k] = None, issued'[k] # None
    PROVE  rows'[k] # None
  <1> USE DEF Core
  <1>1. issued' # issued
    OBVIOUS
  <1>2. \/ \E j \in Keys, d \in Devices : AndroidLogin(j, d)
        \/ \E r \in Reqs, j \in Keys : CommitWebLogin(r, j)
    BY <1>1
       DEF Step, Advance, StartUse, StartLogout, StartVerify, StartWebLogin, Abort, RedisRestart,
           Tick, CacheHit, CacheHitExpired, EvictExpired, PurgeExpired, CacheMiss,
           SelectRefused, SelectValid, WarmCache, Serve, OtpRefused, OtpAccepted,
           CommitMappingStale, CommitMapping, CacheMapped, DropCached, CacheWebSession,
           LogoutUnknown, LogoutFind, CommitLogout
  <1>3. ASSUME NEW j \in Keys, NEW d \in Devices, AndroidLogin(j, d)
        PROVE  rows'[k] # None
    <2>1. [device |-> d, user |-> None, till |-> now + AppTTL, created |-> now] # None
      BY NoneAssumption, TTLAssumption DEF Session
    <2> QED
      BY <1>1, <1>3, <2>1 DEF AndroidLogin
  <1>4. ASSUME NEW r \in Reqs, NEW j \in Keys, CommitWebLogin(r, j)
        PROVE  rows'[k] # None
    <2>1. req[r].who \in Users /\ req[r].copy.till \in Nat
      BY <1>4 DEF CommitWebLogin, Shape, Copy
    <2>2. [device |-> None, user |-> req[r].who,
           till |-> req[r].copy.till, created |-> now] # None
      BY <2>1, NoneAssumption DEF Session
    <2> QED
      BY <1>1, <1>4, <2>2 DEF CommitWebLogin
  <1> QED
    BY <1>2, <1>3, <1>4

\* Sessions implements SessionLifecycle: whatever Redis loses or keeps and
\* however requests interleave, a session is opened once, admits requests only
\* while open and within its valid_till, and stays closed.
THEOREM Refinement == Spec => ImplementsLifecycle
  <1>1. Init => Lifecycle!Init
    <2> SUFFICES ASSUME Init
                 PROVE  Lifecycle!Init
      OBVIOUS
    <2>1. \A k \in Keys : ~Dead(k)
      BY DEF Init, Dead
    <2>2. \A r \in Reqs : Admission(r) = None
      BY DEF Init, Idle, Admission
    <2> QED
      BY <2>1, <2>2 DEF Init, Lifecycle!Init
  <1>2. Core /\ TillInv /\ [Next]_vars => [Lifecycle!Next]_(Lifecycle!vars)
    <2> SUFFICES ASSUME Core, TillInv, [Next]_vars
                 PROVE  [Lifecycle!Next]_(Lifecycle!vars)
      OBVIOUS
    <2>1. CASE UNCHANGED vars
      BY <2>1 DEF vars, Lifecycle!vars, Admission, Dead, MayFill
    <2>2. CASE Next
      <3>1. Outcome
        BY <2>2, StepOutcome DEF Next
      <3>2. \A k \in Keys : Dead(k) => Dead(k)'
        BY <2>2, DeadStays DEF Next
      <3>3. \A k \in Keys : Dead(k)' => issued[k] # None
        BY <2>2, BornAlive DEF Next, Dead
      <3>4. Lifecycle!Closing
        BY <3>2, <3>3 DEF Lifecycle!Closing, Lifecycle!Opened
      <3>5. ASSUME NEW k \in Keys, issued[k] = None, issued'[k] \in Nat,
                   issued' = [issued EXCEPT ![k] = issued'[k]], UNCHANGED <<now, Admitted>>
            PROVE  Lifecycle!Login(k)
        BY <3>5 DEF Lifecycle!Login, Admitted
      <3>6. ASSUME NEW r \in Reqs, NEW k \in Keys, ~Dead(k), issued[k] \in Nat, issued[k] >= now,
                   Admission(r) = None, Admitted' = [Admitted EXCEPT ![r] = k],
                   UNCHANGED <<now, issued>>
            PROVE  Lifecycle!Admit(r, k)
        BY <3>6, NoneAssumption DEF Lifecycle!Admit, Lifecycle!Open, Lifecycle!Opened, Admitted
      <3>7. ASSUME NEW r \in Reqs, Admission(r) # None,
                   Admitted' = [Admitted EXCEPT ![r] = None], UNCHANGED <<now, issued>>
            PROVE  Lifecycle!Answer(r)
        BY <3>7 DEF Lifecycle!Answer, Admitted
      <3>8. ASSUME now' = now + 1, UNCHANGED <<issued, Admitted>>
            PROVE  Lifecycle!Tick
        BY <3>8 DEF Lifecycle!Tick, Admitted
      <3>9. ASSUME UNCHANGED <<now, issued, Admitted>>
            PROVE  Lifecycle!Rest
        BY <3>9 DEF Lifecycle!Rest, Admitted
      <3>10. \/ \E k \in Keys : Lifecycle!Login(k)
             \/ \E r \in Reqs, k \in Keys : Lifecycle!Admit(r, k)
             \/ \E r \in Reqs : Lifecycle!Answer(r)
             \/ Lifecycle!Tick
             \/ Lifecycle!Rest
        BY <3>1, <3>5, <3>6, <3>7, <3>8, <3>9 DEF Outcome
      <3> QED
        BY <3>4, <3>10 DEF Lifecycle!Next
    <2> QED
      BY <2>1, <2>2
  <1> QED
    BY <1>1, <1>2, TillInvariant, PTL DEF Spec, ImplementsLifecycle, Lifecycle!Spec

=============================================================================
