------------------------------ MODULE Sessions ------------------------------
(***************************************************************************)
(* Login sessions: the MySQL table "session", its Redis copy               *)
(* "session:<client_key>", and the handlers that read and write both.      *)
(*                                                                         *)
(* FastAPI runs every request as a coroutine of one event loop, so         *)
(* requests interleave exactly at their awaits.  A step of this module is  *)
(* the code between two awaits that touch shared state.  The database is   *)
(* MySQL at its default isolation, REPEATABLE READ: a transaction reads    *)
(* the snapshot taken by its first SELECT, and its writes are seen by      *)
(* others when it commits.  A handler therefore reads everything it will   *)
(* read in the step of its first SELECT, and writes in the step of its     *)
(* COMMIT.  Redis commands are atomic and belong to no transaction.        *)
(***************************************************************************)
EXTENDS Naturals, FiniteSets

CONSTANTS
    WebKeys,     \* client_key values (uuid4) that web logins will draw
    AppKeys,     \* client_key values that app logins will draw
    Devices,     \* device_registration ids
    WebUsers,    \* employee ids that may use the web login
    AppUsers,    \* employee and student ids that log in from the app
    Reqs,        \* requests that may be in flight at the same time
    WebTTL,      \* lifetime of a web session
    AppTTL,      \* lifetime of an app session
    MaxTime,     \* bound on the clock
    None         \* SQL NULL, a missing row, a missing cache entry

Keys == WebKeys \cup AppKeys
Users == WebUsers \cup AppUsers

\* A row of the table "session"; "role" is set and cleared together with
\* "user", so one field stands for both.
Session == [device : Devices \cup {None}, user : Users \cup {None},
            till : Nat, created : Nat]

\* A cache entry; expires is the instant Redis drops it, None if it has no TTL.
Entry == [device : Devices \cup {None}, user : Users \cup {None},
          till : Nat, expires : Nat \cup {None}]

\* What the handler holds in memory between two awaits.
Copy == [device : Devices \cup {None}, user : Users \cup {None}, till : Nat]

PCs == {"idle",
        "get", "evict", "purge", "select", "warm", "admitted",  \* valid_session
        "map", "remap",                                         \* verify-otp
        "replace", "publish",                                   \* web login
        "find", "clean"}                                        \* logout

Request == [pc : PCs, op : {"none", "use", "verify", "web", "logout"},
            key : Keys \cup {None}, who : Users \cup {None},
            copy : Copy \cup {None}, attached : BOOLEAN, ttl : Nat,
            olds : SUBSET Keys, drop : SUBSET Keys]

Idle == [pc |-> "idle", op |-> "none", key |-> None, who |-> None,
         copy |-> None, attached |-> FALSE, ttl |-> 0, olds |-> {}, drop |-> {}]

ASSUME TTLAssumption == WebTTL \in Nat \ {0} /\ AppTTL \in Nat \ {0}
ASSUME TimeAssumption == MaxTime \in Nat
ASSUME KeysAssumption == WebKeys \cap AppKeys = {}
ASSUME NoneAssumption ==
    /\ None \notin Keys \cup Devices \cup Users \cup Nat
    /\ None \notin Session \cup Entry \cup Copy

VARIABLES
    now,     \* the clock, in units of at least one second
    rows,    \* the table "session", by client_key
    cache,   \* Redis, by client_key
    req,     \* the requests in flight
    issued,  \* history: the valid_till each key was created with
    raced,   \* history: keys two requests in flight worked on at once
    rivals   \* history: users whom two requests in flight were logging in

vars == <<now, rows, cache, req, issued, raced, rivals>>

Init ==
    /\ now = 0
    /\ rows = [k \in Keys |-> None]
    /\ cache = [k \in Keys |-> None]
    /\ req = [r \in Reqs |-> Idle]
    /\ issued = [k \in Keys |-> None]
    /\ raced = {}
    /\ rivals = {}

---------------------------------------------------------------------------
(* Helpers *)

FreshRow(k) == rows[k] = None                  \* mutant: a key is reused once its row is gone

Fresh(k) == issued[k] = None                   \* uuid4 never repeats

TrustRedis(s) == TRUE                          \* mutant: the copy's valid_till is not compared

\* valid_till is not past: what valid_session asks of a row and of a copy.
Live(s) == s.till >= now

\* mutant: the lifetime of a copy is not kept positive
LifeLeft(till) == till - now

\* What verify-otp leaves a copy to live, at least one second.
Remaining(till) == IF till > now THEN till - now ELSE 1

\* mutant: mapping a user renews the session as well
MappedAndRenewed(s, u) == [s EXCEPT !.user = u, !.till = now + AppTTL]

\* verify-otp changes user_id and role of a row, nothing else.
Mapped(s, u) == [s EXCEPT !.user = u]

SessionsOf(u) == {k \in Keys : rows[k] # None /\ rows[k].user = u}

\* The device's sessions that never got a user, created on an earlier day.
AbandonedOn(d, midnight) ==
    {k \in Keys : /\ rows[k] # None
                  /\ rows[k].device = d
                  /\ rows[k].user = None
                  /\ rows[k].created < midnight}

\* RedisCache.set: "if expire" makes a lifetime of 0 mean no expiry at all.
CacheEntry(c, u, life) ==
    [device |-> c.device, user |-> u, till |-> c.till,
     expires |-> IF life = 0 THEN None ELSE now + life]

\* What a handler keeps of a row or of a cache entry.
CopyOf(s) == [device |-> s.device, user |-> s.user, till |-> s.till]

Finish(r) == req' = [req EXCEPT ![r] = Idle]

\* The keys a request works on, and those that two requests share.
Concern(q) == {q.key} \cup q.olds
Overlap(q) ==
    {k \in Keys : \E r1, r2 \in Reqs :
        r1 # r2 /\ k \in Concern(q[r1]) /\ k \in Concern(q[r2])}

\* The users whom two requests are logging in.
LogsIn(q) == q.op \in {"verify", "web"}
Rivalry(q) ==
    {u \in Users : \E r1, r2 \in Reqs :
        /\ r1 # r2
        /\ LogsIn(q[r1]) /\ q[r1].who = u
        /\ LogsIn(q[r2]) /\ q[r2].who = u}

---------------------------------------------------------------------------
(* valid_session, the dependency of every authenticated endpoint *)

\* A client calls an endpoint; "use" stands for every handler that does not
\* write sessions, "verify" for POST /android/verify-otp/ on behalf of user u,
\* sent with the client_key that the app login answered.
StartUse(r, k) ==
    /\ req[r] = Idle
    /\ issued[k] # None
    /\ req' = [req EXCEPT ![r] = [Idle EXCEPT !.pc = "get", !.op = "use", !.key = k]]
    /\ UNCHANGED <<now, rows, cache, issued>>

StartVerify(r, k, u) ==
    /\ req[r] = Idle
    /\ k \in AppKeys
    /\ issued[k] # None
    /\ req' = [req EXCEPT ![r] =
                  [Idle EXCEPT !.pc = "get", !.op = "verify", !.key = k, !.who = u]]
    /\ UNCHANGED <<now, rows, cache, issued>>

CacheHit(r) ==
    LET e == cache[req[r].key] IN
    /\ req[r].pc = "get"
    /\ e # None
    /\ Live(e)
    /\ req' = [req EXCEPT ![r] = [@ EXCEPT !.pc = "admitted", !.copy = CopyOf(e)]]
    /\ UNCHANGED <<now, rows, cache, issued>>

CacheHitExpired(r) ==
    LET e == cache[req[r].key] IN
    /\ req[r].pc = "get"
    /\ e # None
    /\ ~Live(e)
    /\ req' = [req EXCEPT ![r].pc = "evict"]
    /\ UNCHANGED <<now, rows, cache, issued>>

EvictExpired(r) ==
    /\ req[r].pc = "evict"
    /\ cache' = [cache EXCEPT ![req[r].key] = None]
    /\ req' = [req EXCEPT ![r].pc = "purge"]
    /\ UNCHANGED <<now, rows, issued>>

PurgeExpired(r) ==
    /\ req[r].pc = "purge"
    /\ rows' = [rows EXCEPT ![req[r].key] = None]
    /\ Finish(r)
    /\ UNCHANGED <<now, cache, issued>>

CacheMiss(r) ==
    /\ req[r].pc = "get"
    /\ cache[req[r].key] = None
    /\ req' = [req EXCEPT ![r].pc = "select"]
    /\ UNCHANGED <<now, rows, cache, issued>>

\* Cache miss, no row: 401.  Row past its valid_till: deleted, 401.
SelectRefused(r) ==
    LET k == req[r].key IN
    /\ req[r].pc = "select"
    /\ \/ rows[k] = None /\ UNCHANGED rows
       \/ /\ rows[k] # None
          /\ ~Live(rows[k])
          /\ rows' = [rows EXCEPT ![k] = None]
    /\ Finish(r)
    /\ UNCHANGED <<now, cache, issued>>

\* The row object stays attached to the request's database session; the TTL
\* of the copy is computed here, before the await of cache.set.
SelectValid(r) ==
    LET s == rows[req[r].key] IN
    /\ req[r].pc = "select"
    /\ s # None
    /\ Live(s)
    /\ req' = [req EXCEPT ![r] = [@ EXCEPT !.pc = "warm", !.copy = CopyOf(s),
                                           !.attached = TRUE, !.ttl = s.till - now]]
    /\ UNCHANGED <<now, rows, cache, issued>>

WarmCache(r) ==
    LET q == req[r] IN
    /\ q.pc = "warm"
    /\ cache' = [cache EXCEPT ![q.key] = CacheEntry(q.copy, q.copy.user, q.ttl)]
    /\ req' = [req EXCEPT ![r].pc = "admitted"]
    /\ UNCHANGED <<now, rows, issued>>

\* The handler of an endpoint that does not touch sessions runs and answers.
Serve(r) ==
    /\ req[r].pc = "admitted"
    /\ req[r].op = "use"
    /\ Finish(r)
    /\ UNCHANGED <<now, rows, cache, issued>>

---------------------------------------------------------------------------
(* POST /android/login/ and POST /android/verify-otp/ *)

\* The session row and the new OTP are committed together, user still NULL.
AndroidLogin(k, d) ==
    /\ k \in AppKeys
    /\ Fresh(k)
    /\ now + AppTTL <= MaxTime
    /\ rows' = [rows EXCEPT ![k] = [device |-> d, user |-> None,
                                    till |-> now + AppTTL, created |-> now]]
    /\ issued' = [issued EXCEPT ![k] = now + AppTTL]
    /\ UNCHANGED <<now, cache, req>>

\* _verify_otp_logic (module Otp) refuses the code: the handler answers.
OtpRefused(r) ==
    /\ req[r].pc = "admitted"
    /\ req[r].op = "verify"
    /\ Finish(r)
    /\ UNCHANGED <<now, rows, cache, issued>>

\* It accepts the code, in a transaction of its own; the next one reads the
\* other sessions of the user.
OtpAccepted(r) ==
    LET q == req[r] IN
    /\ q.pc = "admitted"
    /\ q.op = "verify"
    /\ req' = [req EXCEPT ![r] = [@ EXCEPT !.pc = "map",
                                           !.olds = SessionsOf(q.who) \ {q.key}]]
    /\ UNCHANGED <<now, rows, cache, issued>>

\* Rows the unit of work will UPDATE.  Its own is among them only if the session
\* is attached to the database session (not one built from a cache hit) and the
\* assignment changes what was read.
Updates(q) ==
    q.olds \cup (IF q.attached /\ q.copy.user # q.who THEN {q.key} ELSE {})

\* An UPDATE that matches no row raises StaleDataError: 500, rolled back.
CommitMappingStale(r) ==
    /\ req[r].pc = "map"
    /\ \E k \in Updates(req[r]) : rows[k] = None
    /\ Finish(r)
    /\ UNCHANGED <<now, rows, cache, issued>>

CommitMapping(r) ==
    LET q == req[r] IN
    /\ q.pc = "map"
    /\ \A k \in Updates(q) : rows[k] # None
    /\ rows' = [k \in Keys |->
                  IF k \in q.olds THEN Mapped(rows[k], None)
                  ELSE IF k \in Updates(q) THEN Mapped(rows[k], q.who)
                  ELSE rows[k]]
    /\ req' = [req EXCEPT ![r] = [@ EXCEPT !.pc = "remap", !.ttl = Remaining(q.copy.till)]]
    /\ UNCHANGED <<now, cache, issued>>

CacheMapped(r) ==
    LET q == req[r] IN
    /\ q.pc = "remap"
    /\ cache' = [cache EXCEPT ![q.key] = CacheEntry(q.copy, q.who, q.ttl)]
    /\ Finish(r)
    /\ UNCHANGED <<now, rows, issued>>

---------------------------------------------------------------------------
(* POST /web/login/ *)

\* Credentials are good: read the user's sessions, fix the new valid_till.
StartWebLogin(r, u) ==
    /\ req[r] = Idle
    /\ now + WebTTL <= MaxTime
    /\ req' = [req EXCEPT ![r] =
                  [Idle EXCEPT !.pc = "replace", !.op = "web", !.who = u,
                               !.copy = [device |-> None, user |-> u, till |-> now + WebTTL],
                               !.olds = SessionsOf(u), !.drop = SessionsOf(u)]]
    /\ UNCHANGED <<now, rows, cache, issued>>

\* mutant: the copies of old sessions stay in Redis
SkipCached(r, k) ==
    /\ req[r].pc \in {"replace", "clean"}
    /\ k \in req[r].drop
    /\ req' = [req EXCEPT ![r].drop = @ \ {k}]
    /\ UNCHANGED <<now, rows, cache, issued>>

\* One await cache.delete per old session, of web login and of logout.
DropCached(r, k) ==
    /\ req[r].pc \in {"replace", "clean"}
    /\ k \in req[r].drop
    /\ cache' = [cache EXCEPT ![k] = None]
    /\ req' = [req EXCEPT ![r].drop = @ \ {k}]
    /\ UNCHANGED <<now, rows, issued>>

\* DELETE of the old rows (one already gone is only warned about) and INSERT.
CommitWebLogin(r, k) ==
    LET q == req[r] IN
    /\ q.pc = "replace"
    /\ q.drop = {}
    /\ k \in WebKeys
    /\ Fresh(k)
    /\ rows' = [j \in Keys |->
                  IF j = k THEN [device |-> None, user |-> q.who,
                                 till |-> q.copy.till, created |-> now]
                  ELSE IF j \in q.olds THEN None
                  ELSE rows[j]]
    /\ issued' = [issued EXCEPT ![k] = q.copy.till]
    /\ req' = [req EXCEPT ![r] = [@ EXCEPT !.pc = "publish", !.key = k]]
    /\ UNCHANGED <<now, cache>>

CacheWebSession(r) ==
    LET q == req[r] IN
    /\ q.pc = "publish"
    /\ cache' = [cache EXCEPT ![q.key] = CacheEntry(q.copy, q.who, WebTTL)]
    /\ Finish(r)
    /\ UNCHANGED <<now, rows, issued>>

---------------------------------------------------------------------------
(* POST /logout/ *)

\* mutant: the session's own copy stays in Redis
StartLogoutCached(r, k) ==
    /\ req[r] = Idle
    /\ issued[k] # None
    /\ req' = [req EXCEPT ![r] = [Idle EXCEPT !.pc = "find", !.op = "logout", !.key = k]]
    /\ UNCHANGED <<now, rows, cache, issued>>

\* The handler drops the cached copy before it looks at the table.
StartLogout(r, k) ==
    /\ req[r] = Idle
    /\ issued[k] # None
    /\ cache' = [cache EXCEPT ![k] = None]
    /\ req' = [req EXCEPT ![r] = [Idle EXCEPT !.pc = "find", !.op = "logout", !.key = k]]
    /\ UNCHANGED <<now, rows, issued>>

LogoutUnknown(r) ==
    /\ req[r].pc = "find"
    /\ rows[req[r].key] = None
    /\ Finish(r)
    /\ UNCHANGED <<now, rows, cache, issued>>

\* The current day began at some instant: 0 if before the run.
LogoutFind(r, midnight) ==
    LET k == req[r].key
        d == rows[k].device
        abandoned == IF d = None THEN {} ELSE AbandonedOn(d, midnight) \ {k} IN
    /\ req[r].pc = "find"
    /\ rows[k] # None
    /\ req' = [req EXCEPT ![r] = [@ EXCEPT !.pc = "clean",
                                           !.olds = {k} \cup abandoned, !.drop = abandoned]]
    /\ UNCHANGED <<now, rows, cache, issued>>

CommitLogout(r) ==
    LET q == req[r] IN
    /\ q.pc = "clean"
    /\ q.drop = {}
    /\ rows' = [k \in Keys |-> IF k \in q.olds THEN None ELSE rows[k]]
    /\ Finish(r)
    /\ UNCHANGED <<now, cache, issued>>

---------------------------------------------------------------------------
(* The environment *)

\* A Redis or MySQL error, a dropped client or a server restart ends a request
\* at one of its awaits; its open transaction is rolled back.
Abort(r) ==
    /\ req[r].pc # "idle"
    /\ Finish(r)
    /\ UNCHANGED <<now, rows, cache, issued>>

\* Redis restarts empty.
RedisRestart ==
    /\ cache' = [k \in Keys |-> None]
    /\ UNCHANGED <<now, rows, req, issued>>

Expires(e, t) == e # None /\ e.expires # None /\ e.expires <= t

\* Time passes and Redis drops what has expired.
Tick ==
    /\ now < MaxTime
    /\ now' = now + 1
    /\ cache' = [k \in Keys |-> IF Expires(cache[k], now + 1) THEN None ELSE cache[k]]
    /\ UNCHANGED <<rows, req, issued>>

\* What the server does on its own once a request has arrived.
Advance(r) ==
    \/ CacheHit(r) \/ CacheHitExpired(r) \/ EvictExpired(r) \/ PurgeExpired(r)
    \/ CacheMiss(r) \/ SelectRefused(r) \/ SelectValid(r) \/ WarmCache(r) \/ Serve(r)
    \/ OtpRefused(r) \/ OtpAccepted(r) \/ CommitMappingStale(r) \/ CommitMapping(r) \/ CacheMapped(r)
    \/ \E k \in Keys : DropCached(r, k)
    \/ \E k \in Keys : CommitWebLogin(r, k)
    \/ CacheWebSession(r)
    \/ LogoutUnknown(r) \/ CommitLogout(r)
    \/ \E midnight \in 0 .. now : LogoutFind(r, midnight)

Step ==
    \/ \E r \in Reqs, k \in Keys : StartUse(r, k) \/ StartLogout(r, k)
    \/ \E r \in Reqs, k \in Keys, u \in AppUsers : StartVerify(r, k, u)
    \/ \E r \in Reqs, u \in WebUsers : StartWebLogin(r, u)
    \/ \E k \in Keys, d \in Devices : AndroidLogin(k, d)
    \/ \E r \in Reqs : Advance(r) \/ Abort(r)
    \/ RedisRestart
    \/ Tick

Next ==
    /\ Step
    /\ raced' = raced \cup Overlap(req')
    /\ rivals' = rivals \cup Rivalry(req')

Spec == Init /\ [][Next]_vars

\* The event loop keeps running every request, and time passes; nothing is
\* assumed of the clients.
Fairness == WF_vars(Tick /\ Next) /\ \A r \in Reqs : WF_vars(Advance(r) /\ Next)
FairSpec == Spec /\ Fairness

---------------------------------------------------------------------------
(* Properties *)

\* Every variable holds a value of its kind.
TypeOK ==
    /\ now \in Nat
    /\ rows \in [Keys -> Session \cup {None}]
    /\ cache \in [Keys -> Entry \cup {None}]
    /\ req \in [Reqs -> Request]
    /\ issued \in [Keys -> Nat \cup {None}]
    /\ raced \subseteq Keys
    /\ rivals \subseteq Users

\* valid_session lets a request through only while the session it presents is
\* within the valid_till it was created with, whether it is answered from
\* Redis (which may keep the entry longer, or for ever) or from MySQL.
AdmittedInTime ==
    [][\A r \in Reqs :
         req[r].pc \in {"get", "select"} /\ req'[r].copy # None
            => issued[req[r].key] >= now]_vars

\* Redis holds a session that MySQL has deleted only if two requests in flight
\* worked on that session at once: each handler alone, even one that fails
\* half way, removes the copy of every row it deletes.
ZombieOnlyAfterOverlap ==
    \A k \in Keys : cache[k] # None /\ rows[k] = None => k \in raced

\* A request that may still write the cache entry of its key.
MayFill(q) ==
    \/ q.pc \in {"warm", "remap", "publish"}
    \/ q.op = "verify" /\ q.pc \in {"admitted", "map"}

\* A created session that no longer exists in MySQL or in Redis, and that no
\* request in flight can write back.
Dead(k) ==
    /\ issued[k] # None
    /\ rows[k] = None
    /\ cache[k] = None
    /\ \A r \in Reqs : req[r].key = k => ~MayFill(req[r])

\* What the module promises: the life of a session, in SessionLifecycle.
Admission(r) ==
    IF req[r].op \in {"use", "verify"} /\ req[r].copy # None THEN req[r].key ELSE None

Lifecycle == INSTANCE SessionLifecycle WITH
    deadline <- issued,
    closed <- {k \in Keys : Dead(k)},
    admitted <- [r \in Reqs |-> Admission(r)]

\* Through Redis misses, restarts, aborted handlers and any interleaving, a
\* session is opened once, admits requests only while it is open and within its
\* valid_till, and once closed is never opened again.
ImplementsLifecycle == Lifecycle!Spec

\* Revocation is final: once the requests that had read a session before it
\* was deleted are over, nothing brings the session back.
RevocationFinal == [][\A k \in Keys : Dead(k) => Dead(k)']_vars

\* A web login that runs to its end leaves no other session of that user in
\* MySQL, unless the user has had two logins in flight at once.
\* Nor does it leave a copy in Redis, of a user who does not log in from the
\* app (verify-otp may name a user in the copy alone) and of a session no two
\* requests worked on at once.
WebLoginLogsOutEverywhere ==
    [][\A r \in Reqs : CacheWebSession(r) /\ req[r].who \notin rivals =>
         \A k \in Keys \ {req[r].key} :
            /\ rows'[k] = None \/ rows'[k].user # req[r].who
            /\ \/ cache'[k] = None \/ cache'[k].user # req[r].who
               \/ req[r].who \in AppUsers
               \/ k \in raced]_vars

\* Every session whose valid_till the clock of the run passes does end, logged
\* out or not: from some time on no copy is left, in Redis or in MySQL, that
\* valid_session would accept, whatever the requests did to it meanwhile.
EverySessionEnds ==
    \A k \in Keys :
        issued[k] # None /\ issued[k] < MaxTime
            ~> [](/\ cache[k] = None \/ cache[k].till < now
                  /\ rows[k] = None \/ rows[k].till < now)

\* What android_login.py:175 says of verify-otp, "logout old sessions": when it
\* answers, no other session passes valid_session as that user.
OldSessionsLoggedOut ==
    [][\A r \in Reqs : CacheMapped(r) =>
         \A k \in Keys \ {req[r].key} :
            cache'[k] = None \/ cache'[k].user # req[r].who]_vars

\* What android_login.py:187 says of verify-otp, "Map user_id and role onto the
\* current session": when it has committed, the session's row names the user.
MappedOntoSession ==
    [][\A r \in Reqs : CommitMapping(r) =>
         /\ rows'[req[r].key] # None
         /\ rows'[req[r].key].user = req[r].who]_vars

=============================================================================
