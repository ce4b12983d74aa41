----------------------------- MODULE UserQueries -----------------------------
(* What is read out of the users table while it changes: the pages of the     *)
(* administration's lists and searches, the dashboard, the synchronized       *)
(* statistics.  One query is one step; what a reader puts together from       *)
(* several queries is no snapshot of the table.                               *)
EXTENDS Integers, FiniteSets

CONSTANTS
  Ids,          \* accounts
  Tables,       \* the tables to begin with
  Readers,      \* reading processes
  Asks,         \* what they may begin with
  DefaultPage, DefaultLimit,  \* PAGINATION
  RecentTake,   \* accounts the dashboard shows as recent
  MaxChanges,   \* bound: changes of the table
  MaxPage,      \* bound: pages of a walk
  None

Roles     == {"admin", "user"}
SortKeys  == {"createdAt", "updatedAt", "role", "isActive", "email", "firstName", "lastName"}
Row       == [role : Roles, active : BOOLEAN, born : Nat, touched : Nat]
Figures   == {"total", "active", "inactive", "admin", "regular"}

\* A question: the kind of reader, and for a walk through the pages the query
\* parameters, which may be absent (None).
AskType == [kind : {"walk", "dashboard", "sync"},
            page : Nat \union {None}, limit : Nat \union {None},
            sort : STRING \union {None}, order : STRING \union {None},
            term : {None} \union SUBSET Ids,   \* the accounts that match it
            role : Roles \union {None}, active : STRING \union {None}]

ASSUME QueriesAssumption ==
  /\ IsFiniteSet(Ids)
  /\ {DefaultPage, DefaultLimit, RecentTake} \subseteq Nat \ {0}
  /\ MaxChanges \in Nat /\ MaxPage \in Nat
  /\ Asks \subseteq AskType
  /\ \A t \in Tables : t \in [Ids -> Row \union {None}]
  /\ None \notin Nat \union BOOLEAN \union Row \union Asks

VARIABLES
  table,   \* the users table
  clock,   \* changes made, the time stamp of the last one
  ask,     \* reader -> its question, or None
  pc,      \* reader -> the query it makes next
  page,    \* reader -> the page it is at
  rows,    \* reader -> accounts the last rows query returned
  fig,     \* reader -> figure -> count, or None when not read
  first,   \* reader -> accounts of its view when it began
  seen,    \* reader -> account -> how many pages showed it
  entered, \* reader -> an account came into its view since it began
  left,    \* reader -> an account left its view since it began
  since,   \* reader -> the changes there were when it began to read
  board,   \* the cached dashboard, and since when it was read, or None
  stats    \* the figures cached under stats:users, or None

vars == <<table, clock, ask, pc, page, rows, fig, first, seen, entered,
          left, since, board, stats>>
caches == <<board, stats>>
history == <<first, entered, left, since>>

-----------------------------------------------------------------------------
(* The queries.                                                               *)

Present(t) == {u \in Ids : t[u] # None}

\* Creation is stamped to the microsecond, one insert after the other: no two
\* accounts have the same stamp, and the initial ones are older than any new one.
Apart(t) == \A u, v \in Present(t) : t[u].born = t[v].born => u = v
ASSUME BirthsAssumption ==
  \A t \in Tables : Apart(t) /\ \A u \in Present(t) : t[u].born <= Cardinality(Ids)

\* The controller compares the text of isActive.
Flag(a) == IF a = None THEN None ELSE a \in {"true", "1"}

\* The conditions of searchUsers, each one only when it is given.
Matches(t, u, a) ==
  /\ a.term # None => u \in a.term
  /\ a.role # None => t[u].role = a.role
  /\ a.active # None => t[u].active = Flag(a.active)
View(t, a) == {u \in Present(t) : Matches(t, u, a)}

\* Mutant of Sort: a key that is not allowed sorts by nothing in particular.
SortUnchecked(a) == IF a.sort = None THEN "createdAt" ELSE a.sort

\* Mutant of Page: no default.
PageAsGiven(a) == a.page

\* AdminUsersService fills in what is absent, and nothing else: the query object
\* has an intersection type, which ValidationPipe does not validate.
Page(a)  == IF a.page = None THEN DefaultPage ELSE a.page
Limit(a) == IF a.limit = None THEN DefaultLimit ELSE a.limit
Sort(a)  == IF a.sort # None /\ a.sort \in SortKeys THEN a.sort ELSE "createdAt"
Order(a) == IF a.order \in {"asc", "ASC"} THEN "ASC" ELSE "DESC"

\* Row u is before row v under a key; rows with equal keys come in any order, and so
\* do all rows under a name or the email, which accounts have none of here.
Less(t, u, v, key) ==
  CASE key = "createdAt" -> t[u].born < t[v].born
    [] key = "updatedAt" -> t[u].touched < t[v].touched
    [] key = "role"      -> t[u].role = "admin" /\ t[v].role = "user"
    [] key = "isActive"  -> ~t[u].active /\ t[v].active
    [] OTHER             -> FALSE
Before(t, u, v, key, order) ==
  IF order = "ASC" THEN Less(t, u, v, key) ELSE Less(t, v, u, key)

\* The ways the database may number the rows of S.
Rankings(t, S, key, order) ==
  {f \in [S -> 0..(Cardinality(S) - 1)] :
     \A u, v \in S : /\ u # v => f[u] # f[v]
                     /\ Before(t, u, v, key, order) => f[u] < f[v]}

\* Mutant of Slice: one row too many.
SliceOneMore(f, skip, take) ==
  {u \in DOMAIN f : f[u] >= skip /\ (take > 0 => f[u] <= skip + take)}

\* skip and take of a page, where take 0 is no limit.
Slice(f, skip, take) ==
  {u \in DOMAIN f : f[u] >= skip /\ (take > 0 => f[u] < skip + take)}
Skip(p, limit) == (p - 1) * limit

\* PaginationMetaDto: the ceiling of total / limit.  A limit of 0 makes it
\* infinite, which JSON writes as null: a walk ends there.
TotalPages(total, limit) ==
  IF limit = 0 THEN 0 ELSE (total + limit - 1) \div limit

\* count with and without a condition.
Tally(t, figure) ==
  Cardinality({u \in Present(t) :
    CASE figure = "total"    -> TRUE
      [] figure = "active"   -> t[u].active
      [] figure = "inactive" -> ~t[u].active
      [] figure = "admin"    -> t[u].role = "admin"
      [] OTHER               -> t[u].role = "user"})

-----------------------------------------------------------------------------
Init ==
  /\ table \in Tables
  /\ clock = 0
  /\ ask = [r \in Readers |-> None]
  /\ pc = [r \in Readers |-> "idle"]
  /\ page = [r \in Readers |-> 0]
  /\ rows = [r \in Readers |-> {}]
  /\ fig = [r \in Readers |-> [x \in Figures |-> None]]
  /\ first = [r \in Readers |-> {}]
  /\ seen = [r \in Readers |-> [u \in Ids |-> 0]]
  /\ entered = [r \in Readers |-> FALSE]
  /\ left = [r \in Readers |-> FALSE]
  /\ since = [r \in Readers |-> 0]
  /\ board = None
  /\ stats = None

\* The stamp of the next change; the initial rows have earlier ones.
Now == clock + 1 + Cardinality(Ids)

\* The accounts change under the readers (module Accounts).
Change(t) ==
  /\ clock < MaxChanges
  /\ clock' = clock + 1
  /\ table' = t
  /\ entered' = [r \in Readers |-> ask[r] # None /\
                   (entered[r] \/ View(t, ask[r]) \ View(table, ask[r]) # {})]
  /\ left' = [r \in Readers |-> ask[r] # None /\
                (left[r] \/ View(table, ask[r]) \ View(t, ask[r]) # {})]
  /\ UNCHANGED <<ask, pc, page, rows, fig, first, seen, since, caches>>

Create(u) ==
  /\ table[u] = None
  /\ \E role \in Roles, active \in BOOLEAN :
       Change([table EXCEPT ![u] =
         [role |-> role, active |-> active, born |-> Now, touched |-> Now]])

Update(u) ==
  /\ table[u] # None
  /\ \E role \in Roles, active \in BOOLEAN :
       Change([table EXCEPT ![u].role = role, ![u].active = active, ![u].touched = Now])

Remove(u) ==
  /\ table[u] # None
  /\ Change([table EXCEPT ![u] = None])

-----------------------------------------------------------------------------
FirstQuery(kind) ==
  IF kind = "walk" THEN "rows" ELSE "counts"

Begin(r) ==
  /\ pc[r] = "idle"
  /\ \E a \in Asks :
       /\ ask' = [ask EXCEPT ![r] = a]
       /\ pc' = [pc EXCEPT ![r] = FirstQuery(a.kind)]
       /\ page' = [page EXCEPT ![r] = IF a.kind = "walk" THEN Page(a) ELSE 0]
       /\ first' = [first EXCEPT ![r] = IF a.kind = "walk" THEN View(table, a) ELSE {}]
  /\ since' = [since EXCEPT ![r] = clock]
  /\ UNCHANGED <<table, clock, rows, fig, seen, entered, left, caches>>

\* CacheInterceptor finds the dashboard under a key common to all callers.
BeginCached(r) ==
  /\ pc[r] = "idle" /\ board # None
  /\ \E a \in Asks : a.kind = "dashboard" /\ ask' = [ask EXCEPT ![r] = a]
  /\ pc' = [pc EXCEPT ![r] = "answered"]
  /\ fig' = [fig EXCEPT ![r] = board.fig]
  /\ rows' = [rows EXCEPT ![r] = board.recent]
  /\ since' = [since EXCEPT ![r] = board.since]
  /\ UNCHANGED <<table, clock, page, first, seen, entered, left, caches>>

\* The rows query of findAllUsersPaginated and searchUsers.  An offset below 0 is
\* refused by the database, and answered as an error of the server.
RowsQuery(r) ==
  LET a == ask[r]
      skip == Skip(page[r], Limit(a))
  IN
  /\ pc[r] = "rows"
  /\ IF skip < 0
     THEN /\ pc' = [pc EXCEPT ![r] = "error"]
          /\ UNCHANGED <<rows, seen>>
     ELSE \E f \in Rankings(table, View(table, a), Sort(a), Order(a)) :
            /\ rows' = [rows EXCEPT ![r] = Slice(f, skip, Limit(a))]
            /\ seen' = [seen EXCEPT ![r] =
                 [u \in Ids |-> seen[r][u] + (IF u \in rows'[r] THEN 1 ELSE 0)]]
            /\ pc' = [pc EXCEPT ![r] = "count"]
  /\ UNCHANGED <<table, clock, ask, page, fig, history, caches>>

\* Mutant of CountQuery: it counts without the conditions of the search.
CountQueryAll(r) ==
  /\ pc[r] = "count"
  /\ fig' = [fig EXCEPT ![r].total = Cardinality(Present(table))]
  /\ pc' = [pc EXCEPT ![r] = "answered"]
  /\ UNCHANGED <<table, clock, ask, page, rows, seen, history, caches>>

\* The count, a second query, which TypeORM may leave out when the rows it has
\* end within the page.
CountQuery(r) ==
  LET skip == Skip(page[r], Limit(ask[r]))
      n == Cardinality(rows[r])
  IN
  /\ pc[r] = "count"
  /\ \E total \in {Cardinality(View(table, ask[r]))} \union
                  (IF 0 < n /\ n < Limit(ask[r]) THEN {skip + n} ELSE {}) :
       fig' = [fig EXCEPT ![r].total = total]
  /\ pc' = [pc EXCEPT ![r] = "answered"]
  /\ UNCHANGED <<table, clock, ask, page, rows, seen, history, caches>>

LastPage(r) == page[r] >= TotalPages(fig[r].total, Limit(ask[r]))

\* The client goes on to the next page, as long as the answer says there is one.
NextPage(r) ==
  /\ pc[r] = "answered" /\ ask[r].kind = "walk"
  /\ ~LastPage(r) /\ page[r] < MaxPage
  /\ page' = [page EXCEPT ![r] = @ + 1]
  /\ pc' = [pc EXCEPT ![r] = "rows"]
  /\ rows' = [rows EXCEPT ![r] = {}]
  /\ UNCHANGED <<table, clock, ask, fig, seen, history, caches>>

\* The counts: the dashboard makes them one after the other, the synchronization
\* all at once, in whatever order the connections of the pool run them.
DashboardCounts == <<"total", "active", "admin", "regular">>
SyncCounts      == {"total", "active", "inactive"}

CountStep(r, x) ==
  /\ fig[r][x] = None
  /\ fig' = [fig EXCEPT ![r][x] = Tally(table, x)]
  /\ UNCHANGED <<table, clock, ask, pc, page, rows, seen, history, caches>>

DashboardCount(r) ==
  /\ pc[r] = "counts" /\ ask[r].kind = "dashboard"
  /\ \E i \in 1..4 :
       /\ \A j \in 1..(i - 1) : fig[r][DashboardCounts[j]] # None
       /\ CountStep(r, DashboardCounts[i])

\* The newest accounts; the inactive ones are a difference of two counts.
DashboardShown(r) ==
  /\ pc[r] = "counts" /\ ask[r].kind = "dashboard"
  /\ \A i \in 1..4 : fig[r][DashboardCounts[i]] # None
  /\ \E f \in Rankings(table, Present(table), "createdAt", "DESC") :
       rows' = [rows EXCEPT ![r] = Slice(f, 0, RecentTake)]
  /\ fig' = [fig EXCEPT ![r].inactive = fig[r].total - fig[r].active]
  /\ pc' = [pc EXCEPT ![r] = "answered"]
  /\ board' = [fig |-> fig'[r], recent |-> rows'[r], since |-> since[r]]
  /\ UNCHANGED <<table, clock, ask, page, seen, history, stats>>

SyncCount(r) ==
  /\ pc[r] = "counts" /\ ask[r].kind = "sync"
  /\ \E x \in SyncCounts : CountStep(r, x)

SyncStored(r) ==
  /\ pc[r] = "counts" /\ ask[r].kind = "sync"
  /\ \A x \in SyncCounts : fig[r][x] # None
  /\ pc' = [pc EXCEPT ![r] = "answered"]
  /\ stats' = fig[r]
  /\ UNCHANGED <<table, clock, ask, page, rows, fig, seen, history, board>>

Done(r) == pc[r] \in {"answered", "error"}

Finish(r) ==
  /\ Done(r)
  /\ ask' = [ask EXCEPT ![r] = None]
  /\ pc' = [pc EXCEPT ![r] = "idle"]
  /\ page' = [page EXCEPT ![r] = 0]
  /\ rows' = [rows EXCEPT ![r] = {}]
  /\ fig' = [fig EXCEPT ![r] = [x \in Figures |-> None]]
  /\ first' = [first EXCEPT ![r] = {}]
  /\ seen' = [seen EXCEPT ![r] = [u \in Ids |-> 0]]
  /\ entered' = [entered EXCEPT ![r] = FALSE]
  /\ left' = [left EXCEPT ![r] = FALSE]
  /\ since' = [since EXCEPT ![r] = 0]
  /\ UNCHANGED <<table, clock, caches>>

Next ==
  \/ \E u \in Ids : Create(u) \/ Update(u) \/ Remove(u)
  \/ \E r \in Readers :
       \/ Begin(r) \/ BeginCached(r) \/ RowsQuery(r) \/ CountQuery(r) \/ NextPage(r)
       \/ DashboardCount(r) \/ DashboardShown(r) \/ SyncCount(r) \/ SyncStored(r)
       \/ Finish(r)

Spec == Init /\ [][Next]_vars

-----------------------------------------------------------------------------
\* The variables keep their types.
TypeOK ==
  /\ table \in [Ids -> Row \union {None}]
  /\ clock \in 0..MaxChanges
  /\ ask \in [Readers -> Asks \union {None}]
  /\ pc \in [Readers -> {"idle", "rows", "count", "counts", "answered", "error"}]
  /\ page \in [Readers -> Nat]
  /\ rows \in [Readers -> SUBSET Ids]
  /\ fig \in [Readers -> [Figures -> Int \union {None}]]
  /\ first \in [Readers -> SUBSET Ids]
  /\ seen \in [Readers -> [Ids -> Nat]]
  /\ entered \in [Readers -> BOOLEAN] /\ left \in [Readers -> BOOLEAN]
  /\ since \in [Readers -> 0..MaxChanges]

Walked(r) == pc[r] = "answered" /\ ask[r].kind = "walk" /\ LastPage(r)
\* The question asks for the default order, or for one that is not allowed.
FromStart(r) == Page(ask[r]) = 1 /\ ask[r].sort \notin SortKeys \ {"createdAt"}

\* Accounts that appear while someone walks through the pages, in the order of
\* creation, make the walk repeat accounts but never skip one; accounts that
\* leave make it skip some but never repeat one (skip and take, and two queries
\* for each page, in users.repository.ts).
WalkSkipsOnlyAfterLeaving ==
  \A r \in Readers : Walked(r) /\ FromStart(r) /\ ~left[r] =>
    \A u \in first[r] : seen[r][u] >= 1
WalkRepeatsOnlyAfterEntering ==
  \A r \in Readers : pc[r] # "idle" /\ ask[r].kind = "walk" /\ FromStart(r) /\ ~entered[r] =>
    \A u \in Ids : seen[r][u] <= 1

Distance(x, y) == IF x > y THEN x - y ELSE y - x

\* What is answered -- the total of a page, the figures of the dashboard, of the
\* cached dashboard and of the synchronization -- differs from the table by no
\* more than the changes made since its first query: counts read one after the
\* other are torn by that much and not more, the difference included.
FiguresWithinChanges ==
  \A r \in Readers : pc[r] = "answered" =>
    IF ask[r].kind = "walk"
    THEN Distance(fig[r].total, Cardinality(View(table, ask[r]))) <= clock - since[r]
    ELSE \A x \in Figures : fig[r][x] # None =>
           Distance(fig[r][x], Tally(table, x)) <= clock - since[r]

-----------------------------------------------------------------------------
(* The inductive invariant.                                                   *)

Within(x, y, t) == x \in Int /\ Distance(x, y) <= clock - t

\* A reader is at a query of its kind.
StepOf(r) ==
  /\ since[r] <= clock
  /\ pc[r] = "idle" => \A x \in Figures : fig[r][x] = None
  /\ pc[r] \in {"rows", "count"} => ask[r] \in Asks /\ ask[r].kind = "walk"
  /\ pc[r] = "counts" => ask[r] \in Asks /\ ask[r].kind \in {"dashboard", "sync"}
  /\ pc[r] = "answered" => ask[r] \in Asks

\* Rows that end within their page end the view.
RowsFit(r) ==
  pc[r] = "count" =>
    LET n == Cardinality(rows[r]) IN
    0 < n /\ n < Limit(ask[r]) =>
      Within(Skip(page[r], Limit(ask[r])) + n, Cardinality(View(table, ask[r])), since[r])

Fits(f, t) == \A x \in Figures : f[x] # None => Within(f[x], Tally(table, x), t)

\* Counts fit as soon as they are read, and so will the difference of two.
CountsFit(r) ==
  pc[r] = "counts" =>
    /\ Fits(fig[r], since[r])
    /\ ask[r].kind = "dashboard" =>
         /\ fig[r].inactive = None
         /\ fig[r].active # None =>
              /\ fig[r].total # None
              /\ Within(fig[r].total - fig[r].active, Tally(table, "inactive"), since[r])

AnswerFits(r) ==
  pc[r] = "answered" =>
    IF ask[r].kind = "walk"
    THEN Within(fig[r].total, Cardinality(View(table, ask[r])), since[r])
    ELSE Fits(fig[r], since[r])

ReaderFits(r) == StepOf(r) /\ RowsFit(r) /\ CountsFit(r) /\ AnswerFits(r)

BoardFits ==
  board # None =>
    /\ board.fig \in [Figures -> Int \union {None}] /\ board.recent \subseteq Ids
    /\ board.since \in 0..clock
    /\ Fits(board.fig, board.since)

IInv == TypeOK /\ BoardFits /\ \A r \in Readers : ReaderFits(r)

-----------------------------------------------------------------------------
(* What makes the properties of walks inductive.                              *)

BirthsApart ==
  Apart(table) /\ \A u \in Present(table) : table[u].born <= clock + Cardinality(Ids)

\* A walk in the order of creation, and how many rows its pages have covered.
Walking(r) == pc[r] # "idle" /\ ask[r].kind = "walk" /\ FromStart(r)
Covered(r) == (IF pc[r] = "rows" THEN page[r] - 1 ELSE page[r]) * Limit(ask[r])

\* The rows of the view that come before u.
Ahead(r, u) ==
  {v \in View(table, ask[r]) : Before(table, v, u, "createdAt", Order(ask[r]))}

\* As long as nobody came into the view, what was shown and is still there has not
\* moved behind the pages read, where it would be shown again.
ShownCovered(r) ==
  ~entered[r] => \A u \in Ids :
    /\ seen[r][u] <= 1
    /\ seen[r][u] = 1 /\ u \in View(table, ask[r]) =>
         \/ Limit(ask[r]) = 0 /\ pc[r] # "rows"
         \/ Cardinality(Ahead(r, u)) < Covered(r)

\* As long as nobody left the view, what was not shown has not moved in front of
\* where the next page begins, and the answer says that there is a next page.
MissingAhead(r) ==
  ~left[r] => \A u \in first[r] :
    /\ u \in View(table, ask[r])
    /\ seen[r][u] = 0 =>
         /\ Limit(ask[r]) = 0 => pc[r] = "rows"
         /\ Cardinality(Ahead(r, u)) >= Covered(r)
         /\ pc[r] = "count" => Cardinality(rows[r]) \notin 1..(Limit(ask[r]) - 1)
         /\ pc[r] = "answered" => fig[r].total > Covered(r)

WalkFits(r) ==
  /\ pc[r] = "idle" => \A u \in Ids : seen[r][u] = 0
  /\ pc[r] # "idle" => ask[r] \in Asks
  /\ Walking(r) => page[r] >= 1 /\ pc[r] # "error" /\ ShownCovered(r) /\ MissingAhead(r)

WalkInv == BirthsApart /\ \A r \in Readers : WalkFits(r)

\* As long as nobody came into the view, it is part of what it was in the beginning.
ViewShrinks(r) ==
  pc[r] # "idle" /\ ask[r].kind = "walk" /\ ~entered[r] =>
    /\ View(table, ask[r]) \subseteq first[r]
    /\ \A u \in Ids : seen[r][u] > 0 => u \in first[r]

\* A walk in the order of creation that no change disturbs shows each account of its
\* view once and no other account.
QuietWalksExact ==
  \A r \in Readers : Walked(r) /\ FromStart(r) /\ ~left[r] /\ ~entered[r] =>
    seen[r] = [u \in Ids |-> IF u \in first[r] THEN 1 ELSE 0]

=============================================================================
