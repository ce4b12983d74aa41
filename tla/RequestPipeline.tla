--------------------------- MODULE RequestPipeline ---------------------------
(* The server from its start to its answers: the settings it starts with, and *)
(* the way of a request through CORS, the queue board's middleware, the       *)
(* throttler, JwtAuthGuard, RolesGuard, ValidationPipe, the handler and the   *)
(* exception filters, while accounts change.  A step is what runs between two *)
(* awaits; the throttler keeps its counters in memory.                        *)
EXTENDS Configuration, Integers, FiniteSets

CONSTANTS
  Environments,   \* records of a .env file and a process environment
  Users, Clients, Slots,
  Offers,         \* requests: client, route, origin, bearer, body, key
  Tables,         \* the accounts to begin with
  Throttlers, Limit, Ttl,
  MaxTime,        \* bound: the clock
  MaxHits,        \* bound: requests that reach the throttler
  MaxChanges,     \* bound: changes of accounts
  None

Roles  == {"admin", "user"}
Row    == [role : Roles, active : BOOLEAN]
Routes == {"health", "profile", "files", "users", "board"}

\* A bearer is the account a valid token names, or None for no valid token.
Request == [client : Clients, route : Routes, origin : STRING \union {None},
            bearer : Users \union {None}, body : {"valid", "invalid"}, key : STRING]

ASSUME PipelineAssumption ==
  /\ IsFiniteSet(Throttlers)
  /\ Limit \in [Throttlers -> Nat \ {0}] /\ Ttl \in [Throttlers -> Nat \ {0}]
  /\ \A j, k \in Throttlers : Ttl[j] = Ttl[k] => j = k
  /\ Offers \subseteq Request
  /\ Tables \subseteq [Users -> Row \union {None}]
  /\ None \notin Users \union Row \union Throttlers \union Environments
  /\ None \notin Request /\ None \notin STRING
  /\ {MaxTime, MaxHits, MaxChanges} \subseteq Nat

VARIABLES
  boot,     \* "down", "loaded", "listening" or "refused"
  environ,  \* the environment until the server listens
  settings, \* the settings until the server listens
  front,    \* what it listens with
  now,      \* the clock
  hits,     \* every hit counted by the throttler, of which some have expired
  rows,     \* accounts
  changes,  \* changes of accounts so far
  req,      \* slot -> request under way, or None
  pc,       \* slot -> the step that comes next
  who,      \* slot -> the row the JWT strategy read, or None
  fit,      \* slot -> at one moment since it came the account was fit for it
  answer    \* slot -> status of the answer, or 0 before it

vars == <<boot, environ, settings, front, now, hits, rows, changes, req, pc,
          who, fit, answer>>
server == <<boot, environ, settings, front>>
accounts == <<rows, changes>>

-----------------------------------------------------------------------------
(* Tables of the code.                                                        *)

\* The decorators of the controllers: GET /health, GET /users/profile,
\* POST /storage/upload, GET /admin/users.
Guarded(route) == route \in {"profile", "files", "users"}
RequiredRoles(route) ==
  CASE route = "files" -> {"user", "admin"}
    [] route = "users" -> {"admin"}
    [] OTHER           -> {}

\* The status of the exceptions; the filters answer any other error with 500.
HttpStatus == [BadRequest |-> 400, Unauthorized |-> 401, Forbidden |-> 403, NotFound |-> 404,
               Conflict |-> 409, Validation |-> 422, Throttler |-> 429]
StatusOf(exception) ==
  IF exception \in DOMAIN HttpStatus THEN HttpStatus[exception] ELSE 500

\* Mutant of Counted: a window one tick too short.
CountedLate(k, client, route) ==
  {h \in hits : /\ h.client = client /\ h.route = route
                /\ k \in h.charged /\ h.at > now - Ttl[k] + 1}

\* The counters that have not expired, of one throttler for one client and route.
\* Health checks carry SkipThrottle, whose metadata ThrottlerGuard does not read.
Counted(k, client, route) ==
  {h \in hits : /\ h.client = client /\ h.route = route
                /\ k \in h.charged /\ h.at > now - Ttl[k]}

\* The throttlers the request would exceed, itself included.
Exceeded(client, route) ==
  {k \in Throttlers : Cardinality(Counted(k, client, route)) + 1 > Limit[k]}

\* Mutant of Charged: every throttler counts the request that one refused.
ChargedAll(client, route) == Throttlers

\* They are asked by growing ttl, and the first to refuse ends it: those after it
\* do not count the request.
Refusers(client, route) ==
  {k \in Exceeded(client, route) : \A j \in Exceeded(client, route) : Ttl[k] <= Ttl[j]}
Charged(client, route) ==
  {k \in Throttlers : \A j \in Refusers(client, route) : Ttl[k] <= Ttl[j]}

\* An account that may use a route.
Admissible(row, route) ==
  /\ row # None /\ row.active
  /\ RequiredRoles(route) = {} \/ row.role \in RequiredRoles(route)
Fit(q, table) ==
  q # None /\ q.bearer # None /\ Admissible(table[q.bearer], q.route)

-----------------------------------------------------------------------------
Init ==
  /\ boot = "down"
  /\ environ \in Environments
  /\ settings = None /\ front = None
  /\ now = 0
  /\ hits = {}
  /\ rows \in Tables
  /\ changes = 0
  /\ req = [r \in Slots |-> None]
  /\ pc = [r \in Slots |-> "idle"]
  /\ who = [r \in Slots |-> None]
  /\ fit = [r \in Slots |-> FALSE]
  /\ answer = [r \in Slots |-> 0]

(* The start: the environment is validated and the factories run, or it does  *)
(* not start; then the modules take their settings and the server listens, or *)
(* one of them throws.                                                        *)
Refuse ==
  /\ \/ boot = "down" /\ ~Bootable(environ)
     \/ boot = "loaded" /\ ~Startable(settings)
  /\ boot' = "refused"
  /\ UNCHANGED <<environ, settings, front, now, hits, accounts, req, pc, who, fit, answer>>

Load ==
  /\ boot = "down" /\ Bootable(environ)
  /\ boot' = "loaded"
  /\ settings' = Settings(ProcessEnv(environ))
  /\ UNCHANGED <<environ, front, now, hits, accounts, req, pc, who, fit, answer>>

Listen ==
  /\ boot = "loaded" /\ Startable(settings)
  /\ boot' = "listening"
  /\ front' = Front(settings)
  /\ environ' = None /\ settings' = None
  /\ UNCHANGED <<now, hits, accounts, req, pc, who, fit, answer>>

-----------------------------------------------------------------------------
(* The steps of a request.                                                    *)

Goto(r, step) == pc' = [pc EXCEPT ![r] = step] /\ UNCHANGED answer
Reply(r, status) ==
  pc' = [pc EXCEPT ![r] = "answered"] /\ answer' = [answer EXCEPT ![r] = status]
Throw(r, exception) == Reply(r, StatusOf(exception))

\* An origin that is not listed is an error, and no mere lack of headers.
Foreign(q) == q.origin # None /\ q.origin \notin front.origins

\* The board is mounted in front of the routes of Nest; without it there is none.
ShowBoard(r, q) ==
  IF ~front.board THEN Throw(r, "NotFound")
  ELSE IF front.boardKey # "" /\ q.key # front.boardKey THEN Reply(r, 401)
  ELSE Reply(r, 200)

\* The middlewares, in one go.
Arrive(r) ==
  /\ boot = "listening" /\ pc[r] = "idle"
  /\ \E q \in Offers :
       /\ req' = [req EXCEPT ![r] = q]
       /\ fit' = [fit EXCEPT ![r] = Fit(q, rows)]
       /\ IF Foreign(q) THEN Throw(r, "Error")
          ELSE IF q.route = "board" THEN ShowBoard(r, q)
          ELSE Goto(r, "throttle")
  /\ UNCHANGED <<server, now, hits, accounts, who>>

\* Hits that are refused count like the others.
Throttle(r) ==
  LET client == req[r].client
      route == req[r].route
      refusers == Refusers(client, route)
  IN
  /\ pc[r] = "throttle"
  /\ Cardinality(hits) < MaxHits
  /\ hits' = hits \union
       {[id |-> Cardinality(hits), client |-> client, route |-> route, at |-> now,
         charged |-> Charged(client, route), refused |-> refusers]}
  /\ IF refusers # {} THEN Throw(r, "Throttler")
     ELSE Goto(r, IF Guarded(route) THEN "jwt" ELSE "pipe")
  /\ UNCHANGED <<server, now, accounts, req, who, fit>>

\* Mutant of ValidateJwt: a deleted account gets through.
ValidateJwtDeleted(r) ==
  LET row == rows[req[r].bearer] IN
  /\ pc[r] = "jwt"
  /\ IF req[r].bearer = None THEN Throw(r, "Unauthorized") /\ UNCHANGED who
     ELSE Goto(r, "roles") /\ who' = [who EXCEPT ![r] = row]
  /\ UNCHANGED <<server, now, hits, accounts, req, fit>>

\* The strategy looks the account up whatever the token says of it.
ValidateJwt(r) ==
  LET row == rows[req[r].bearer] IN
  /\ pc[r] = "jwt"
  /\ IF req[r].bearer = None THEN Throw(r, "Unauthorized") /\ UNCHANGED who
     ELSE IF row = None THEN Throw(r, "NotFound") /\ UNCHANGED who
     ELSE IF ~row.active THEN Throw(r, "Unauthorized") /\ UNCHANGED who
     ELSE Goto(r, "roles") /\ who' = [who EXCEPT ![r] = row]
  /\ UNCHANGED <<server, now, hits, accounts, req, fit>>

\* Mutant of CheckRoles: a role that differs is let through.
CheckRolesNot(r) ==
  /\ pc[r] = "roles"
  /\ Goto(r, "pipe")
  /\ UNCHANGED <<server, now, hits, accounts, req, who, fit>>

CheckRoles(r) ==
  /\ pc[r] = "roles"
  /\ IF RequiredRoles(req[r].route) # {} /\ who[r].role \notin RequiredRoles(req[r].route)
     THEN Throw(r, "Forbidden")
     ELSE Goto(r, "pipe")
  /\ UNCHANGED <<server, now, hits, accounts, req, who, fit>>

Validate(r) ==
  /\ pc[r] = "pipe"
  /\ IF req[r].body = "invalid" THEN Throw(r, "Validation") ELSE Goto(r, "handler")
  /\ UNCHANGED <<server, now, hits, accounts, req, who, fit>>

\* What the handler does is the subject of other modules: it returns, or throws
\* an exception with a status, or an error without.
Handle(r) ==
  /\ pc[r] = "handler"
  /\ \/ Reply(r, 200)
     \/ \E e \in {"Conflict", "Error"} : Throw(r, e)
  /\ UNCHANGED <<server, now, hits, accounts, req, who, fit>>

\* The answer is out; the slot is free.
Finish(r) ==
  /\ pc[r] = "answered"
  /\ req' = [req EXCEPT ![r] = None]
  /\ pc' = [pc EXCEPT ![r] = "idle"]
  /\ who' = [who EXCEPT ![r] = None]
  /\ fit' = [fit EXCEPT ![r] = FALSE]
  /\ answer' = [answer EXCEPT ![r] = 0]
  /\ UNCHANGED <<server, now, hits, accounts>>

-----------------------------------------------------------------------------
\* Timers that are due run before the event loop looks for requests again.
Tick ==
  /\ boot = "listening" /\ now < MaxTime
  /\ now' = now + 1
  /\ UNCHANGED <<server, hits, accounts, req, pc, who, fit, answer>>

\* Accounts change under the requests (module Accounts).
Change(u) ==
  /\ boot = "listening" /\ changes < MaxChanges
  /\ \E row \in Row \union {None} : rows' = [rows EXCEPT ![u] = row]
  /\ changes' = changes + 1
  /\ fit' = [r \in Slots |-> fit[r] \/ Fit(req[r], rows')]
  /\ UNCHANGED <<server, now, hits, req, pc, who, answer>>

Next ==
  \/ Refuse \/ Load \/ Listen \/ Tick
  \/ \E u \in Users : Change(u)
  \/ \E r \in Slots :
       \/ Arrive(r) \/ Throttle(r) \/ ValidateJwt(r)
       \/ CheckRoles(r) \/ Validate(r) \/ Handle(r) \/ Finish(r)

Spec == Init /\ [][Next]_vars

-----------------------------------------------------------------------------
Hit == [id : Nat, client : Clients, route : Routes, at : Nat,
        charged : SUBSET Throttlers, refused : SUBSET Throttlers]

\* The variables keep their types.
TypeOK ==
  /\ boot \in {"down", "loaded", "listening", "refused"}
  /\ (environ = None) <=> (boot = "listening")
  /\ now \in 0..MaxTime
  /\ hits \subseteq Hit /\ IsFiniteSet(hits)
  /\ rows \in [Users -> Row \union {None}]
  /\ changes \in 0..MaxChanges
  /\ req \in [Slots -> Request \union {None}]
  /\ pc \in [Slots -> {"idle", "throttle", "jwt", "roles", "pipe", "handler", "answered"}]
  /\ who \in [Slots -> Row \union {None}]
  /\ \A r \in Slots : pc[r] = "roles" => who[r] # None
  /\ fit \in [Slots -> BOOLEAN]
  /\ answer \in [Slots -> Nat]

\* The settings are what the operator asked for, in the process environment, in
\* the .env file or by default: the tables of production are never altered, and the
\* administrator is shown the database in use (validation.schema.ts, configuration.ts,
\* database.module.ts and admin-settings.service.ts agree).  It is not so of numbers
\* with an exponent in the process, which parseInt misreads, of a mail port 0, which
\* becomes 587, and of the settings of the board in the file, which are not read.
SettingsTakeEffect ==
  boot = "loaded" =>
    /\ settings.database.synchronize => Asked(environ, "NODE_ENV") # "production"
    /\ \A v \in DOMAIN Fallback \union DOMAIN BoardFallback \union {"CORS_ORIGINS"} :
         (Asked(environ, v) # "" /\ ~Misread(environ, v) /\ ~Replaced(environ, v))
            => settings.plain[v] = Intended(environ, v)
    /\ LET v == IF Asked(environ, "PORT") # "" THEN "PORT" ELSE "APP_PORT"
       IN  (~Misread(environ, v) /\ Intended(environ, v) # "0")
              => ListenPort(settings) = Intended(environ, v)
    /\ \A x \in {<<"host", "DB_HOST">>, <<"port", "DB_PORT">>, <<"name", "DB_NAME">>} :
         ~Misread(environ, x[2]) => Shown(settings)[x[1]] = Intended(environ, x[2])

\* Hits of one client on one route that a throttler let pass, since t.
Passed(k, client, route, t) ==
  {h \in hits : /\ h.client = client /\ h.route = route /\ h.refused = {}
                /\ t <= h.at /\ h.at < t + Ttl[k]}

\* In no window of a ttl does a client get more requests past the guard than the
\* limit, with whichever hit the window begins (the throttlers of security.module.ts).
AdmittedWithinLimits ==
  \A k \in Throttlers : \A h \in hits :
    Cardinality(Passed(k, h.client, h.route, h.at)) <= Limit[k]

Shortest == {k \in Throttlers : \A j \in Throttlers : Ttl[k] <= Ttl[j]}
OwnBefore(h, k) ==
  {g \in hits : /\ g.client = h.client /\ g.route = h.route
                /\ g.id <= h.id /\ g.at > h.at - Ttl[k]}

RefusedBeyondLimit ==
  \A h \in hits : \A k \in h.refused : Cardinality(OwnBefore(h, k)) > Limit[k]

\* A request is refused only for what its own client sent to the same route within
\* the ttl.  With limits in the proportions of security.module.ts it is always the
\* shortest throttler: the limits per minute and per ten minutes never bite.
RefusalsJustified ==
  RefusedBeyondLimit /\ \A h \in hits : h.refused \subseteq Shortest

\* A handler runs, however the accounts change meanwhile, only for a caller that
\* at one single moment of the request was active with a role for the route; the
\* board is shown only to who has the key it was started with.
HandlersReachedRightly ==
  \A r \in Slots :
    /\ pc[r] = "handler" /\ Guarded(req[r].route) => fit[r]
    /\ answer[r] = 200 /\ req[r].route = "board" =>
         front.board /\ front.boardKey \in {"", req[r].key}

-----------------------------------------------------------------------------
(* What makes the invariants inductive.                                       *)

\* The hits are numbered in the order they came, and what was let pass was
\* counted by every throttler.
HitsInOrder ==
  \A h \in hits :
    /\ h.at <= now /\ h.id < Cardinality(hits)
    /\ h.refused = {} => h.charged = Throttlers

\* How far a request has come says what is known of it and of its account.
StagesFit ==
  \A r \in Slots :
    /\ boot # "listening" => pc[r] = "idle"
    /\ pc[r] # "idle" => req[r] # None
    /\ answer[r] # 0 => pc[r] = "answered"
    /\ pc[r] \notin {"idle", "answered"} => req[r].route # "board"
    /\ Fit(req[r], rows) => fit[r]
    /\ pc[r] = "roles" => (Admissible(who[r], req[r].route) => fit[r]) /\ who[r].active
    /\ pc[r] \in {"pipe", "handler"} /\ Guarded(req[r].route) => fit[r]

IInv ==
  /\ TypeOK
  /\ HitsInOrder /\ AdmittedWithinLimits /\ RefusedBeyondLimit
  /\ StagesFit /\ HandlersReachedRightly

\* Hits of one client on one route that were let pass from t through e.
Between(client, route, t, e) ==
  {h \in hits : h.client = client /\ h.route = route /\ h.refused = {} /\ h.at \in t..e}

\* In any time a client gets no more past the guard than the limit for every ttl
\* that has begun.
WindowsWithin ==
  \A k \in Throttlers, client \in Clients, route \in Routes :
    \A e \in 0..now : \A t \in 0..e :
      Cardinality(Between(client, route, t, e)) <= Limit[k] * (((e - t) \div Ttl[k]) + 1)

\* The longer throttlers do not count what a shorter one refused.
ChargedUpToRefuser ==
  \A h \in hits : \A j \in h.refused, k \in h.charged : Ttl[k] <= Ttl[j]

RefusalInv ==
  WindowsWithin /\ ChargedUpToRefuser /\ \A h \in hits : h.refused \subseteq Shortest

\* The limits of security.module.ts: 10, 100 and 1000 in 10, 60 and 600 seconds.
\* What the shortest throttler lets pass in the time of another stays within its limit.
Proportionate ==
  \A s \in Shortest, k \in Throttlers : Limit[s] * (((Ttl[k] - 1) \div Ttl[s]) + 1) <= Limit[k]
=============================================================================
