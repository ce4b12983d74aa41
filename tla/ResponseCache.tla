---------------------------- MODULE ResponseCache ---------------------------
(***************************************************************************)
(* CacheInterceptor and CacheEvictInterceptor over the users table: GET    *)
(* /users and GET /users/:id are answered from the cache or fill it, and   *)
(* writing routes evict what their @CacheEvict metadata names.             *)
(*                                                                         *)
(* The content of a row is the number of the write that made it.  A        *)
(* response to GET /users shows the whole table, one to GET /users/:id one *)
(* row.  Cache commands leave the process in the order they are issued, on *)
(* one connection, and take effect in that order; a database answer may    *)
(* reach the process long after the query ran.                             *)
(***************************************************************************)
EXTENDS Naturals

CONSTANTS
  Ids,         \* accounts
  Admins,      \* callers of the cached routes
  Readers,     \* slots of GET requests, each serves one (a bound)
  Writers,     \* slots of writing requests, each serves one (a bound)
  Gets,        \* the GET requests that may arrive
  Writes,      \* the writing requests that may arrive
  MaxFaults,   \* failing cache calls (a bound)
  None         \* no row, no entry, no result

Operations == {"create", "update", "remove"}
Channels   == {"users", "admin", "profile"}

GetType   == [route: {"list", "one"}, id: Ids, caller: Admins]
WriteType == [op: Operations, id: Ids, caller: Admins, channel: Channels]

ASSUME CacheAssumption ==
  /\ Gets \subseteq GetType /\ Writes \subseteq WriteType
  /\ MaxFaults \in Nat
  /\ None \notin Nat \union Readers
  /\ \A I \in SUBSET Ids : None \notin [I -> Nat \union {None}]
  /\ <<"users", "list">> \notin Ids \X Admins

VARIABLES
  rows,       \* the table: the write that made each row, None without a row
  writes,     \* writes committed so far
  cache,      \* the response stored under each key, or None
  faults,
  rpc, get,   \* where each GET is, and what it asks for
  got,        \* what a GET has read from the table
  shown,      \* the response of each GET
  wpc, write, \* where each writing request is, and what it asks for
  stamp,      \* the write each writing request made
  filler,     \* history: the GET that last stored the list
  overlapped, \* history: list GETs under way, table read, when a write was answered
  past        \* history: every content each row has had

vars == <<rows, writes, cache, faults, rpc, get, got, shown, wpc, write, stamp,
          filler, overlapped, past>>
-----------------------------------------------------------------------------
Contents == Nat \union {None}
Tables   == [Ids -> Contents]

\* @Cache(300, 'users:list') names its key; @Cache(600) takes the generated one,
\* made of the url with its id and of the caller.
ListKey == <<"users", "list">>

\* Mutant of EntryKey: the url is left out of the generated key.
EntryKeyNoUrl(u, a) == <<CHOOSE v \in Ids : TRUE, a>>

EntryKey(u, a) == <<u, a>>

Keys == {ListKey} \union (Ids \X Admins)

KeyOf(g) == IF g.route = "list" THEN ListKey ELSE EntryKey(g.id, g.caller)

\* A response under key k covers every account, or the one the key names.
Scope(k) == IF k = ListKey THEN Ids ELSE {k[1]}
Views(k) == [Scope(k) -> Contents] \union {None}

\* Mutant of Response: every GET answers with the whole table.
ResponseAll(g) == rows

\* The handler's result.
Response(g) == [u \in Scope(KeyOf(g)) |-> rows[u]]

\* findOne answers 404 for an account without a row.
NotFound(g) == g.route = "one" /\ rows[g.id] = None

\* Mutant of Evicted: the metadata is lost altogether.
EvictedNothing(w) == {}

\* The keys a successful write evicts.  SetMetadata keeps one value per route, so
\* of the two @CacheEvict on update and remove the upper one, the list, is left.
\* Profile updates and the admin module's routes evict nothing.
Evicted(w) == IF w.channel = "users" THEN {ListKey} ELSE {}

\* A cache call: either it takes effect, or its error is logged and swallowed.
Attempt(effect, nothing) ==
  \/ effect /\ UNCHANGED faults
  \/ faults < MaxFaults /\ faults' = faults + 1 /\ nothing

Init ==
  /\ rows \in [Ids -> {0, None}]
  /\ writes = 0
  /\ cache = [k \in Keys |-> None]
  /\ faults = 0
  /\ rpc = [r \in Readers |-> "idle"]
  /\ get \in [Readers -> Gets]
  /\ got = [r \in Readers |-> None]
  /\ shown = [r \in Readers |-> None]
  /\ wpc = [w \in Writers |-> "idle"]
  /\ write \in [Writers -> Writes]
  /\ stamp = [w \in Writers |-> 0]
  /\ filler = None
  /\ overlapped = {}
  /\ past = [u \in Ids |-> {rows[u]}]

reading == <<rows, writes, get, wpc, write, stamp, overlapped, past>>
writing == <<rpc, get, got, shown, write, filler>>

\* cacheService.get: a hit is the response, a miss (or a failing get) runs the
\* handler.
LookUp(r) ==
  LET entry == cache[KeyOf(get[r])]
      miss  == rpc' = [rpc EXCEPT ![r] = "query"] /\ UNCHANGED shown
  IN /\ rpc[r] = "idle"
     /\ Attempt(\/ entry = None /\ miss
                \/ /\ entry # None
                   /\ rpc' = [rpc EXCEPT ![r] = "done"]
                   /\ shown' = [shown EXCEPT ![r] = entry],
                miss)
     /\ UNCHANGED <<reading, cache, got, filler>>

\* The handler's query runs in the database; a row that is missing makes it
\* throw, and then nothing is cached.
Query(r) ==
  /\ rpc[r] = "query"
  /\ got' = [got EXCEPT ![r] = Response(get[r])]
  /\ rpc' = [rpc EXCEPT ![r] = IF NotFound(get[r]) THEN "done" ELSE "answer"]
  /\ UNCHANGED <<reading, cache, faults, shown, filler>>

\* The result reaches the interceptor: tap starts the set and the response leaves.
AnswerGet(r) ==
  LET k == KeyOf(get[r])
  IN /\ rpc[r] = "answer"
     /\ rpc' = [rpc EXCEPT ![r] = "done"]
     /\ shown' = [shown EXCEPT ![r] = got[r]]
     /\ Attempt(/\ cache' = [cache EXCEPT ![k] = got[r]]
                /\ filler' = IF k = ListKey THEN r ELSE filler,
                UNCHANGED <<cache, filler>>)
     /\ UNCHANGED <<reading, got>>

\* The database commits a write; one that finds no row (or, for a creation, finds
\* one) is refused and evicts nothing.
Commit(w) ==
  LET u     == write[w].id
      found == rows[u] # None
      row   == IF write[w].op = "remove" THEN None ELSE writes + 1
  IN /\ wpc[w] = "idle"
     /\ \/ /\ found <=> write[w].op # "create"
           /\ rows' = [rows EXCEPT ![u] = row]
           /\ writes' = writes + 1
           /\ stamp' = [stamp EXCEPT ![w] = writes + 1]
           /\ past' = [past EXCEPT ![u] = @ \union {row}]
           /\ wpc' = [wpc EXCEPT ![w] = "answer"]
        \/ /\ ~(found <=> write[w].op # "create")
           /\ wpc' = [wpc EXCEPT ![w] = "refused"]
           /\ UNCHANGED <<rows, writes, stamp, past>>
     /\ UNCHANGED <<writing, cache, faults, overlapped>>

\* The write's result reaches the evict interceptor: tap starts the deletions and
\* the response leaves.
AnswerWrite(w) ==
  /\ wpc[w] = "answer"
  /\ wpc' = [wpc EXCEPT ![w] = "done"]
  /\ Attempt(cache' = [k \in Keys |-> IF k \in Evicted(write[w]) THEN None ELSE cache[k]],
             UNCHANGED cache)
  /\ overlapped' = overlapped \union {r \in Readers : rpc[r] = "answer"}
  /\ UNCHANGED <<writing, rows, writes, stamp, past>>

\* Mutant of Expire: only the list is stored with a time to live.
ExpireList(k) ==
  /\ k = ListKey /\ cache[k] # None
  /\ cache' = [cache EXCEPT ![k] = None]
  /\ UNCHANGED <<reading, rpc, got, shown, faults, filler>>

\* An entry reaches its time to live.
Expire(k) ==
  /\ cache[k] # None
  /\ cache' = [cache EXCEPT ![k] = None]
  /\ UNCHANGED <<reading, rpc, got, shown, faults, filler>>

ReaderStep(r) == LookUp(r) \/ Query(r) \/ AnswerGet(r)
WriterStep(w) == Commit(w) \/ AnswerWrite(w)

Next ==
  \/ \E r \in Readers : ReaderStep(r)
  \/ \E w \in Writers : WriterStep(w)
  \/ \E k \in Keys : Expire(k)

Spec == Init /\ [][Next]_vars

\* Requests that have come in are served and entries expire.
FairSpec ==
  /\ Spec
  /\ \A r \in Readers : WF_vars(ReaderStep(r))
  /\ \A w \in Writers : WF_vars(WriterStep(w))
  /\ \A k \in Keys : WF_vars(Expire(k))
-----------------------------------------------------------------------------
\* Every variable has its type.
TypeOK ==
  /\ rows \in Tables
  /\ writes \in Nat
  /\ DOMAIN cache = Keys /\ \A k \in Keys : cache[k] \in Views(k)
  /\ faults \in 0..MaxFaults
  /\ rpc \in [Readers -> {"idle", "query", "answer", "done"}]
  /\ get \in [Readers -> Gets]
  /\ DOMAIN got = Readers /\ DOMAIN shown = Readers
  /\ \A r \in Readers : {got[r], shown[r]} \subseteq Views(KeyOf(get[r]))
  /\ wpc \in [Writers -> {"idle", "answer", "done", "refused"}]
  /\ write \in [Writers -> Writes]
  /\ stamp \in [Writers -> Nat]
  /\ filler \in Readers \union {None}
  /\ overlapped \in SUBSET Readers
  /\ past \in [Ids -> SUBSET (Nat \union {None})]

\* Real(g, v): v covers what g asks for and shows contents that really existed.
Real(g, v) ==
  /\ DOMAIN v = IF g.route = "list" THEN Ids ELSE {g.id}
  /\ \A u \in DOMAIN v : v[u] \in past[u]

\* A response shows, for the account asked for and for no other, contents that
\* account really had: no caller is served another entry's data.
ShownWasTrue ==
  \A r \in Readers : shown[r] # None => Real(get[r], shown[r])

\* As long as all writes go through the users routes and no cache call has failed,
\* a cached list is out of date only while some write is committed but not yet
\* answered, or when the GET that stored it had read the table before a write was
\* answered and stored it after.
Excused ==
  \/ faults > 0
  \/ \E w \in Writers : stamp[w] > 0 /\ write[w].channel # "users"
  \/ \E w \in Writers : wpc[w] = "answer"

StaleListHasCause ==
  cache[ListKey] \notin {None, rows} => Excused \/ filler \in overlapped

\* However stale entries came about -- races, failed evictions, routes that evict
\* nothing -- the cache converges: from some time on it holds nothing that
\* differs from the table.
CacheConverges ==
  <>[](\A g \in Gets : cache[KeyOf(g)] # None => cache[KeyOf(g)] = Response(g))

(* What makes ShownWasTrue and StaleListHasCause inductive.                  *)

\* Entries and results under way are as real as the responses made of them, and
\* under way between their steps.
HeldIsReal ==
  /\ \A k \in Keys : cache[k] # None => \A u \in Scope(k) : cache[k][u] \in past[u]
  /\ \A r \in Readers :
       /\ got[r] # None => Real(get[r], got[r])
       /\ rpc[r] = "answer" => got[r] # None
  /\ \A u \in Ids : rows[u] \in past[u]

\* A list read before the table changed is on its way back only with a cause.
StaleReadHasCause ==
  /\ \A r \in Readers : (rpc[r] = "answer" /\ get[r].route = "list" /\ got[r] # rows)
                           => Excused \/ r \in overlapped
  /\ \A w \in Writers : wpc[w] = "answer" => stamp[w] > 0

IInv == TypeOK /\ ShownWasTrue /\ StaleListHasCause /\ HeldIsReal /\ StaleReadHasCause
-----------------------------------------------------------------------------
(* What a comment on a route says and its metadata refutes.                  *)

\* users.controller.ts:161 -- an update evicts the caller's cached GET /users/:id.
EntryEvicted ==
  \A w \in Writers :
    LET k == EntryKey(write[w].id, write[w].caller)
    IN (wpc[w] = "done" /\ write[w].channel = "users" /\ write[w].op = "update"
        /\ cache[k] # None) => cache[k][write[w].id] >= stamp[w]
=============================================================================
