-------------------------- MODULE UserQueriesProofs --------------------------
(***************************************************************************)
(* Theorems about UserQueries, for any accounts, tables, readers, questions *)
(* and numbers of changes: what is read by several queries is torn by no    *)
(* more than the changes made in between.                                   *)
(***************************************************************************)
EXTENDS UserQueries, FiniteSetTheorems, TLAPS

-----------------------------------------------------------------------------
(* Counting.                                                                  *)

\* Two sets that differ in one element at most.
LEMMA OneElement ==
  ASSUME NEW S, NEW T, NEW u, IsFiniteSet(S), IsFiniteSet(T), S \ {u} = T \ {u}
  PROVE  Distance(Cardinality(S), Cardinality(T)) <= 1
<1>1. Cardinality(S) \in Nat /\ Cardinality(T) \in Nat
  BY FS_CardinalityType
<1>2. Cardinality(S \ {u}) \in {Cardinality(S), Cardinality(S) - 1}
  BY FS_RemoveElement
<1>3. Cardinality(T \ {u}) \in {Cardinality(T), Cardinality(T) - 1}
  BY FS_RemoveElement
<1>4. QED BY <1>1, <1>2, <1>3 DEF Distance

LEMMA PresentFinite ==
  ASSUME NEW t
  PROVE  /\ IsFiniteSet(Present(t))
         /\ \A S \in SUBSET Present(t) : IsFiniteSet(S) /\ Cardinality(S) \in Nat
<1>1. IsFiniteSet(Ids) /\ Present(t) \subseteq Ids
  BY QueriesAssumption DEF Present
<1>2. \A S \in SUBSET Ids : IsFiniteSet(S)
  BY <1>1, FS_Subset
<1>3. QED BY <1>1, <1>2, FS_CardinalityType

\* The accounts that a figure counts.
Counted(t, x) ==
  {u \in Present(t) :
    CASE x = "total"    -> TRUE
      [] x = "active"   -> t[u].active
      [] x = "inactive" -> ~t[u].active
      [] x = "admin"    -> t[u].role = "admin"
      [] OTHER          -> t[u].role = "user"}

LEMMA TallyCounts ==
  ASSUME NEW t, NEW x
  PROVE  /\ Tally(t, x) = Cardinality(Counted(t, x))
         /\ IsFiniteSet(Counted(t, x)) /\ Tally(t, x) \in Nat
<1>1. Tally(t, x) = Cardinality(Counted(t, x))
  BY DEF Tally, Counted
<1>2. Counted(t, x) \subseteq Present(t)
  BY DEF Counted
<1>3. QED BY <1>1, <1>2, PresentFinite

LEMMA ViewCounts ==
  ASSUME NEW t, NEW a
  PROVE  IsFiniteSet(View(t, a)) /\ Cardinality(View(t, a)) \in Nat
<1>1. View(t, a) \subseteq Present(t)
  BY DEF View
<1>2. QED BY <1>1, PresentFinite

\* A change of one row moves each count by one at most.
LEMMA OneRow ==
  ASSUME NEW t, NEW v, NEW u, \A w \in Ids \ {u} : v[w] = t[w]
  PROVE  /\ \A x : Distance(Tally(t, x), Tally(v, x)) <= 1
         /\ \A a : Distance(Cardinality(View(t, a)), Cardinality(View(v, a))) <= 1
<1>1. Present(t) \ {u} = Present(v) \ {u}
  BY DEF Present
<1>2. ASSUME NEW x PROVE Distance(Tally(t, x), Tally(v, x)) <= 1
  <2>1. Counted(t, x) \ {u} = Counted(v, x) \ {u}
    BY DEF Counted, Present
  <2>2. QED BY <2>1, TallyCounts, OneElement
<1>3. ASSUME NEW a PROVE Distance(Cardinality(View(t, a)), Cardinality(View(v, a))) <= 1
  <2>1. View(t, a) \ {u} = View(v, a) \ {u}
    BY DEF View, Matches, Present
  <2>2. QED BY <2>1, ViewCounts, OneElement
<1>4. QED BY <1>2, <1>3

\* Everybody is active or is not.
LEMMA TotalSplits ==
  ASSUME NEW t \in [Ids -> Row \union {None}]
  PROVE  Tally(t, "total") = Tally(t, "active") + Tally(t, "inactive")
<1> DEFINE A == Counted(t, "active")
           B == Counted(t, "inactive")
<1>1. A \union B = Counted(t, "total") /\ A \intersect B = {}
  BY DEF Counted
<1>2. Cardinality(A \union B) = Cardinality(A) + Cardinality(B) - Cardinality(A \intersect B)
  BY TallyCounts, FS_Union
<1>3. Cardinality(A \intersect B) = 0
  BY <1>1, FS_EmptySet
<1>4. /\ Tally(t, "total") = Cardinality(A \union B)
      /\ Tally(t, "active") = Cardinality(A) /\ Cardinality(A) \in Nat
      /\ Tally(t, "inactive") = Cardinality(B) /\ Cardinality(B) \in Nat
  BY <1>1, TallyCounts
<1> HIDE DEF A, B
<1>5. QED BY <1>2, <1>3, <1>4

LEMMA Below ==
  ASSUME NEW k \in Int, NEW n \in Int
  PROVE  /\ IsFiniteSet(k..(n - 1))
         /\ Cardinality(k..(n - 1)) = IF k < n THEN n - k ELSE 0
<1> DEFINE m == n - 1
<1>1. m \in Int /\ (k > m <=> ~(k < n)) /\ m - k + 1 = n - k
  OBVIOUS
<1> HIDE DEF m
<1>2. IsFiniteSet(k..m) /\ Cardinality(k..m) = IF k > m THEN 0 ELSE m - k + 1
  BY <1>1, FS_Interval
<1>3. IsFiniteSet(k..m) /\ Cardinality(k..m) = IF k < n THEN n - k ELSE 0
  BY <1>1, <1>2
<1>4. QED BY <1>3 DEF m

\* The rows of a page, when they are fewer than its limit, end with the last row.
LEMMA ShortPageIsLast ==
  ASSUME NEW S, IsFiniteSet(S), NEW f \in [S -> 0..(Cardinality(S) - 1)],
         \A u, v \in S : u # v => f[u] # f[v],
         NEW skip \in Nat, NEW take \in Nat,
         0 < Cardinality(Slice(f, skip, take)), Cardinality(Slice(f, skip, take)) < take
  PROVE  skip + Cardinality(Slice(f, skip, take)) = Cardinality(S)
<1> DEFINE n == Cardinality(S)
           P == Slice(f, skip, take)
           Q == IF skip + take < n THEN skip..(skip + take - 1) ELSE skip..(n - 1)
<1>1. n \in Nat
  BY FS_CardinalityType
<1>2. IsFiniteSet(0..(n - 1)) /\ Cardinality(0..(n - 1)) = n
  <2>1. IsFiniteSet(0..(n - 1)) /\ Cardinality(0..(n - 1)) = IF 0 < n THEN n - 0 ELSE 0
    BY <1>1, Below
  <2>2. QED BY <1>1, <2>1
<1>3. f \in Injection(S, 0..(n - 1))
  BY DEF Injection, IsInjective
<1>4. f \in Surjection(S, 0..(n - 1))
  BY <1>2, <1>3, FS_Injection
<1>5. P \subseteq S /\ IsFiniteSet(P)
  <2>1. P \subseteq S
    BY DEF Slice
  <2>2. QED BY <2>1, FS_Subset
<1>6. \A u \in S : u \in P <=> f[u] \in Q
  <2> SUFFICES ASSUME NEW u \in S PROVE u \in P <=> f[u] \in Q
    OBVIOUS
  <2>1. f[u] \in 0..(n - 1)
    OBVIOUS
  <2>2. take > 0
    BY <1>5, FS_CardinalityType
  <2>3. u \in P <=> f[u] >= skip /\ f[u] < skip + take
    BY <2>2 DEF Slice
  <2> HIDE DEF n, P
  <2>4. f[u] \in Q <=> f[u] >= skip /\ f[u] < skip + take
    BY <1>1, <2>1
  <2>5. QED BY <2>3, <2>4
<1>7. [u \in P |-> f[u]] \in Bijection(P, Q)
  <2> DEFINE g == [u \in P |-> f[u]]
  <2>1. g \in [P -> Q]
    BY <1>5, <1>6
  <2>2. \A u, v \in P : g[u] = g[v] => u = v
    BY <1>5
  <2>3. \A q \in Q : \E u \in P : g[u] = q
    <3> SUFFICES ASSUME NEW q \in Q PROVE \E u \in P : g[u] = q
      OBVIOUS
    <3>1. q \in 0..(n - 1)
      BY <1>1
    <3>2. PICK u \in S : f[u] = q
      BY <1>4, <3>1 DEF Surjection
    <3>3. u \in P
      BY <1>6, <3>2
    <3>4. QED BY <3>2, <3>3
  <2>4. QED BY <2>1, <2>2, <2>3 DEF Bijection, Injection, Surjection, IsInjective
<1>8. Cardinality(P) = Cardinality(Q)
  BY <1>5, <1>7, FS_Bijection DEF ExistsBijection
<1>9. Cardinality(P) \in Nat /\ 0 < Cardinality(P) /\ Cardinality(P) < take
  BY <1>5, FS_CardinalityType
<1> DEFINE end == IF skip + take < n THEN skip + take ELSE n
<1>10. end \in Int /\ Q = skip..(end - 1)
  BY <1>1
<1>11. Cardinality(Q) = IF skip < end THEN end - skip ELSE 0
  BY <1>10, Below
<1> HIDE DEF n, P, Q
<1>12. n = skip + Cardinality(P)
  BY <1>1, <1>8, <1>9, <1>11
<1>13. QED BY <1>12 DEF n, P

-----------------------------------------------------------------------------
(* Types.                                                                     *)

\* What a question asks for is a number.
LEMMA AskedNumbers ==
  ASSUME NEW a \in Asks
  PROVE  Page(a) \in Nat /\ Limit(a) \in Nat
<1>1. a \in AskType
  BY QueriesAssumption
<1>2. a.page \in Nat \union {None} /\ a.limit \in Nat \union {None}
  BY <1>1 DEF AskType
<1>3. DefaultPage \in Nat /\ DefaultLimit \in Nat
  BY QueriesAssumption
<1>4. QED BY <1>2, <1>3 DEF Page, Limit

LEMMA ViewType ==
  ASSUME NEW t, NEW a
  PROVE  View(t, a) \subseteq Ids
BY DEF View, Present

LEMMA SliceType ==
  ASSUME NEW t, NEW S \in SUBSET Ids, NEW key, NEW order, NEW f \in Rankings(t, S, key, order),
         NEW skip, NEW take
  PROVE  Slice(f, skip, take) \subseteq Ids
<1>1. DOMAIN f = S
  BY DEF Rankings
<1>2. QED BY <1>1 DEF Slice

LEMMA FinishType ==
  ASSUME TypeOK, NEW r \in Readers, Finish(r)
  PROVE  TypeOK'
BY QueriesAssumption DEF TypeOK, Finish, caches

\* A change of the table, and the row it is about.
Changed(u) ==
  /\ clock < MaxChanges /\ clock' = clock + 1
  /\ table' \in [Ids -> Row \union {None}]
  /\ \A w \in Ids \ {u} : table'[w] = table[w]
  /\ entered' \in [Readers -> BOOLEAN] /\ left' \in [Readers -> BOOLEAN]
  /\ UNCHANGED <<ask, pc, page, rows, fig, first, seen, since, board, stats>>

LEMMA Changing ==
  ASSUME TypeOK, NEW u \in Ids, Create(u) \/ Update(u) \/ Remove(u)
  PROVE  Changed(u)
<1>1. Cardinality(Ids) \in Nat
  BY QueriesAssumption, FS_CardinalityType
<1>2. Now \in Nat
  BY <1>1 DEF Now, TypeOK
<1>3. ASSUME NEW t \in [Ids -> Row \union {None}], Change(t),
             \A w \in Ids \ {u} : t[w] = table[w]
      PROVE  Changed(u)
  <2>1. entered' \in [Readers -> BOOLEAN] /\ left' \in [Readers -> BOOLEAN]
    BY <1>3 DEF Change, TypeOK
  <2>2. QED BY <1>3, <2>1 DEF Change, Changed, caches
<1>4. CASE Create(u)
  <2>1. PICK role \in Roles, active \in BOOLEAN :
          Change([table EXCEPT ![u] =
            [role |-> role, active |-> active, born |-> Now, touched |-> Now]])
    BY <1>4 DEF Create
  <2>2. [role |-> role, active |-> active, born |-> Now, touched |-> Now] \in Row
    BY <1>2 DEF Row
  <2> QED BY <1>3, <2>1, <2>2 DEF TypeOK
<1>5. CASE Update(u)
  <2>1. PICK role \in Roles, active \in BOOLEAN :
          Change([table EXCEPT ![u].role = role, ![u].active = active, ![u].touched = Now])
    BY <1>5 DEF Update
  <2> DEFINE t == [table EXCEPT ![u].role = role, ![u].active = active, ![u].touched = Now]
  <2>2. table[u] \in Row
    BY <1>5 DEF Update, TypeOK
  <2>3. t[u] \in Row
    BY <1>2, <2>2 DEF TypeOK, Row
  <2>4. t \in [Ids -> Row \union {None}] /\ \A w \in Ids \ {u} : t[w] = table[w]
    BY <2>3 DEF TypeOK
  <2> HIDE DEF t
  <2>5. QED BY <1>3, <2>1, <2>4 DEF t
<1>6. CASE Remove(u)
  BY <1>3, <1>6 DEF Remove, TypeOK
<1>7. QED BY <1>4, <1>5, <1>6

\* Every step keeps the types.
LEMMA TypeStep ==
  ASSUME IInv, [Next]_vars
  PROVE  TypeOK'
<1> TypeOK /\ \A r \in Readers : StepOf(r)
  BY DEF IInv, ReaderFits
<1> USE DEF TypeOK
<1>1. ASSUME NEW u \in Ids, Create(u) \/ Update(u) \/ Remove(u) PROVE TypeOK'
  <2>1. Changed(u)
    BY <1>1, Changing
  <2>2. QED BY <2>1, QueriesAssumption DEF Changed
<1>2. ASSUME NEW r \in Readers, Begin(r) PROVE TypeOK'
  <2>1. PICK a \in Asks :
          /\ ask' = [ask EXCEPT ![r] = a]
          /\ pc' = [pc EXCEPT ![r] = FirstQuery(a.kind)]
          /\ page' = [page EXCEPT ![r] = IF a.kind = "walk" THEN Page(a) ELSE 0]
          /\ first' = [first EXCEPT ![r] = IF a.kind = "walk" THEN View(table, a) ELSE {}]
    BY <1>2 DEF Begin
  <2>2. FirstQuery(a.kind) \in {"rows", "counts"}
    BY DEF FirstQuery
  <2>3. Page(a) \in Nat /\ View(table, a) \subseteq Ids
    BY AskedNumbers, ViewType
  <2>4. QED BY <1>2, <2>1, <2>2, <2>3 DEF Begin, caches
<1>3. ASSUME NEW r \in Readers, BeginCached(r) PROVE TypeOK'
  <2>1. /\ board.fig \in [Figures -> Int \union {None}] /\ board.recent \subseteq Ids
        /\ board.since \in 0..MaxChanges
    <3>1. board # None /\ BoardFits
      BY <1>3 DEF BeginCached, IInv
    <3>2. /\ board.fig \in [Figures -> Int \union {None}] /\ board.recent \subseteq Ids
          /\ board.since \in 0..clock
      BY <3>1 DEF BoardFits
    <3>3. MaxChanges \in Nat /\ clock \in 0..MaxChanges
      BY QueriesAssumption
    <3>4. QED BY <3>2, <3>3
  <2>2. PICK a \in Asks : ask' = [ask EXCEPT ![r] = a]
    BY <1>3 DEF BeginCached
  <2>3. QED BY <1>3, <2>1, <2>2 DEF BeginCached, caches
<1>4. ASSUME NEW r \in Readers, RowsQuery(r) PROVE TypeOK'
  <2> DEFINE skip == Skip(page[r], Limit(ask[r]))
  <2>1. CASE skip < 0
    BY <1>4, <2>1 DEF RowsQuery, history, caches
  <2>2. CASE ~(skip < 0)
    <3>1. PICK f \in Rankings(table, View(table, ask[r]), Sort(ask[r]), Order(ask[r])) :
            /\ rows' = [rows EXCEPT ![r] = Slice(f, skip, Limit(ask[r]))]
            /\ seen' = [seen EXCEPT ![r] =
                 [u \in Ids |-> seen[r][u] + (IF u \in rows'[r] THEN 1 ELSE 0)]]
            /\ pc' = [pc EXCEPT ![r] = "count"]
      BY <1>4, <2>2 DEF RowsQuery
    <3>2. Slice(f, skip, Limit(ask[r])) \subseteq Ids
      BY SliceType, ViewType
    <3>3. [u \in Ids |-> seen[r][u] + (IF u \in rows'[r] THEN 1 ELSE 0)] \in [Ids -> Nat]
      OBVIOUS
    <3>4. seen' \in [Readers -> [Ids -> Nat]]
      BY <3>1, <3>3
    <3>5. QED BY <1>4, <3>1, <3>2, <3>4 DEF RowsQuery, history, caches
  <2>3. QED BY <2>1, <2>2
<1>5. ASSUME NEW r \in Readers, CountQuery(r) PROVE TypeOK'
  <2>1. ask[r] \in Asks /\ rows[r] \subseteq Ids /\ IsFiniteSet(rows[r])
    BY <1>5, QueriesAssumption, FS_Subset DEF CountQuery, StepOf
  <2>2. Limit(ask[r]) \in Nat /\ Cardinality(rows[r]) \in Nat
    BY <2>1, AskedNumbers, FS_CardinalityType
  <2>3. Skip(page[r], Limit(ask[r])) \in Int
    BY <2>2 DEF Skip
  <2>4. Cardinality(View(table, ask[r])) \in Nat
    BY ViewCounts
  <2>5. \E total \in Int : fig' = [fig EXCEPT ![r].total = total]
    <3> DEFINE skip == Skip(page[r], Limit(ask[r]))
               n == Cardinality(rows[r])
    <3>1. PICK total \in {Cardinality(View(table, ask[r]))} \union
                         (IF 0 < n /\ n < Limit(ask[r]) THEN {skip + n} ELSE {}) :
            fig' = [fig EXCEPT ![r].total = total]
      BY <1>5 DEF CountQuery
    <3>2. skip \in Int /\ n \in Nat
      BY <2>2, <2>3
    <3> HIDE DEF skip, n
    <3>3. total \in Int
      BY <2>4, <3>1, <3>2
    <3>4. QED BY <3>1, <3>3
  <2>6. fig' \in [Readers -> [Figures -> Int \union {None}]]
    BY <2>5
  <2>7. /\ pc' = [pc EXCEPT ![r] = "answered"]
        /\ UNCHANGED <<table, clock, ask, page, rows, seen, first, entered, left, since>>
    BY <1>5 DEF CountQuery, history
  <2>8. QED BY <2>6, <2>7
<1>6. ASSUME NEW r \in Readers, NextPage(r) PROVE TypeOK'
  BY <1>6 DEF NextPage, history, caches
<1>7. ASSUME NEW r \in Readers, NEW x \in Figures, CountStep(r, x) PROVE TypeOK'
  <2>1. Tally(table, x) \in Int /\ fig' = [fig EXCEPT ![r][x] = Tally(table, x)]
    BY <1>7, TallyCounts DEF CountStep
  <2>2. fig' \in [Readers -> [Figures -> Int \union {None}]]
    BY <2>1
  <2>3. /\ UNCHANGED <<table, clock, ask, pc, page, rows, seen>>
        /\ UNCHANGED <<first, entered, left, since>>
    BY <1>7 DEF CountStep, history
  <2>4. QED BY <2>2, <2>3
<1>8. ASSUME NEW r \in Readers, DashboardCount(r) PROVE TypeOK'
  BY <1>7, <1>8 DEF DashboardCount, DashboardCounts, Figures
<1>9. ASSUME NEW r \in Readers, SyncCount(r) PROVE TypeOK'
  BY <1>7, <1>9 DEF SyncCount, SyncCounts, Figures
<1>10. ASSUME NEW r \in Readers, DashboardShown(r) PROVE TypeOK'
  <2>1. fig[r].total \in Int /\ fig[r].active \in Int
    <3>1. fig[r].total # None /\ fig[r].active # None
      BY <1>10 DEF DashboardShown, DashboardCounts
    <3>2. QED BY <3>1 DEF Figures
  <2>2. PICK f \in Rankings(table, Present(table), "createdAt", "DESC") :
          rows' = [rows EXCEPT ![r] = Slice(f, 0, RecentTake)]
    BY <1>10 DEF DashboardShown
  <2>3. Slice(f, 0, RecentTake) \subseteq Ids
    BY SliceType DEF Present
  <2>4. fig' \in [Readers -> [Figures -> Int \union {None}]]
    <3>1. fig' = [fig EXCEPT ![r].inactive = fig[r].total - fig[r].active]
      BY <1>10 DEF DashboardShown
    <3>2. fig[r].total - fig[r].active \in Int
      BY <2>1
    <3>3. QED BY <3>1, <3>2
  <2>5. QED BY <1>10, <2>2, <2>3, <2>4 DEF DashboardShown, history
<1>11. ASSUME NEW r \in Readers, SyncStored(r) PROVE TypeOK'
  BY <1>11 DEF SyncStored, history
<1>12. ASSUME NEW r \in Readers, Finish(r) PROVE TypeOK'
  BY <1>12, FinishType
<1>13. CASE UNCHANGED vars
  BY <1>13 DEF vars
<1>14. QED
  BY <1>1, <1>2, <1>3, <1>4, <1>5, <1>6, <1>8, <1>9, <1>10, <1>11, <1>12, <1>13 DEF Next

-----------------------------------------------------------------------------
(* Counts stay within the changes.                                            *)

LEMMA Nearer ==
  ASSUME NEW x \in Int, NEW y \in Int, NEW z \in Int, NEW k \in Int,
         Distance(x, y) <= k, Distance(y, z) <= 1
  PROVE  Distance(x, z) <= k + 1
BY DEF Distance

\* A count that is as it was read is within any changes.
LEMMA JustRead ==
  ASSUME NEW x \in Int, NEW t \in Int, clock \in Int, t <= clock
  PROVE  Within(x, x, t)
BY DEF Within, Distance

\* A change of a row.
LEMMA ChangeFits ==
  ASSUME IInv, NEW u \in Ids, Changed(u)
  PROVE  BoardFits' /\ \A r \in Readers : ReaderFits(r)'
<1>1. /\ clock \in Nat /\ clock' = clock + 1
      /\ UNCHANGED <<ask, pc, page, rows, fig, since, board>>
      /\ \A r \in Readers : since[r] \in Nat
  BY DEF Changed, IInv, TypeOK
<1>2. /\ \A x : Distance(Tally(table, x), Tally(table', x)) <= 1
      /\ \A a : Distance(Cardinality(View(table, a)), Cardinality(View(table', a))) <= 1
  BY OneRow DEF Changed
<1>3. ASSUME NEW x, NEW y \in Int, NEW z \in Int, NEW t \in Int,
             Within(x, y, t), Distance(y, z) <= 1
      PROVE  x \in Int /\ Distance(x, z) <= clock' - t
  <2>1. x \in Int /\ Distance(x, y) <= clock - t
    BY <1>3 DEF Within
  <2>2. clock - t \in Int /\ clock' - t = clock - t + 1
    BY <1>1
  <2> DEFINE k == clock - t
  <2> HIDE DEF k
  <2>3. Distance(x, z) <= k + 1
    BY <1>3, <2>1, <2>2, Nearer DEF k
  <2>4. QED BY <2>1, <2>2, <2>3 DEF k
<1>4. ASSUME NEW x, NEW g, NEW t \in Int, Within(x, Tally(table, g), t)
      PROVE  Within(x, Tally(table, g), t)'
  <2>1. Tally(table, g) \in Int /\ Tally(table', g) \in Int
    BY TallyCounts
  <2>2. QED BY <1>2, <1>3, <1>4, <2>1 DEF Within
<1>5. ASSUME NEW x, NEW a, NEW t \in Int, Within(x, Cardinality(View(table, a)), t)
      PROVE  x \in Int /\ Distance(x, Cardinality(View(table', a))) <= clock' - t
  <2>1. Cardinality(View(table, a)) \in Int /\ Cardinality(View(table', a)) \in Int
    BY ViewCounts
  <2>2. QED BY <1>2, <1>3, <1>5, <2>1
<1>6. ASSUME NEW f, NEW t \in Int, Fits(f, t) PROVE Fits(f, t)'
  BY <1>4, <1>6 DEF Fits
<1>7. BoardFits'
  BY <1>1, <1>6 DEF BoardFits, IInv
<1>8. ASSUME NEW r \in Readers PROVE ReaderFits(r)'
  <2>1. ReaderFits(r)
    BY DEF IInv
  <2>2. StepOf(r)'
    BY <1>1, <2>1 DEF ReaderFits, StepOf
  <2>3. RowsFit(r)'
    BY <1>1, <1>5, <2>1 DEF ReaderFits, RowsFit, Within
  <2>4. CountsFit(r)'
    BY <1>1, <1>4, <1>6, <2>1 DEF ReaderFits, CountsFit
  <2>5. AnswerFits(r)'
    BY <1>1, <1>5, <1>6, <2>1 DEF ReaderFits, AnswerFits, Within
  <2>6. QED BY <2>2, <2>3, <2>4, <2>5 DEF ReaderFits
<1>9. QED BY <1>7, <1>8

\* A step of a reader concerns that reader only.
Alone(r) ==
  /\ UNCHANGED <<table, clock>>
  /\ \A s \in Readers \ {r} :
       /\ pc'[s] = pc[s] /\ ask'[s] = ask[s] /\ page'[s] = page[s]
       /\ rows'[s] = rows[s] /\ fig'[s] = fig[s] /\ since'[s] = since[s]

LEMMA OthersFit ==
  ASSUME IInv, NEW r \in Readers, Alone(r), NEW s \in Readers \ {r}
  PROVE  ReaderFits(s)'
<1>1. ReaderFits(s)
  BY DEF IInv
<1>2. /\ pc'[s] = pc[s] /\ ask'[s] = ask[s] /\ page'[s] = page[s]
      /\ rows'[s] = rows[s] /\ fig'[s] = fig[s] /\ since'[s] = since[s]
      /\ UNCHANGED <<table, clock>>
  BY DEF Alone
<1>3. StepOf(s)'
  BY <1>1, <1>2 DEF ReaderFits, StepOf
<1>4. RowsFit(s)'
  BY <1>1, <1>2 DEF ReaderFits, RowsFit, Within
<1>5. CountsFit(s)'
  BY <1>1, <1>2 DEF ReaderFits, CountsFit, Fits, Within
<1>6. AnswerFits(s)'
  BY <1>1, <1>2 DEF ReaderFits, AnswerFits, Fits, Within
<1>7. QED BY <1>3, <1>4, <1>5, <1>6 DEF ReaderFits

LEMMA BoardKept ==
  ASSUME BoardFits, UNCHANGED <<table, clock, board>>
  PROVE  BoardFits'
BY DEF BoardFits, Fits, Within

LEMMA BeginFits ==
  ASSUME IInv, NEW r \in Readers, Begin(r)
  PROVE  ReaderFits(r)' /\ Alone(r) /\ board' = board
<1> USE DEF TypeOK
<1>1. PICK a \in Asks :
        ask' = [ask EXCEPT ![r] = a] /\ pc' = [pc EXCEPT ![r] = FirstQuery(a.kind)]
  BY DEF Begin
<1>2. /\ pc[r] = "idle" /\ since' = [since EXCEPT ![r] = clock]
      /\ UNCHANGED <<table, clock, rows, fig, board>>
      /\ \A s \in Readers \ {r} : page'[s] = page[s]
  BY DEF Begin, caches, IInv
<1>3. a.kind \in {"walk", "dashboard", "sync"}
  BY QueriesAssumption DEF AskType
<1>4. /\ ask'[r] = a /\ since'[r] = clock
      /\ pc'[r] = IF a.kind = "walk" THEN "rows" ELSE "counts"
  BY <1>1, <1>2 DEF IInv, FirstQuery
<1>5. \A x \in Figures : fig[r][x] = None
  BY <1>2 DEF IInv, ReaderFits, StepOf
<1>6. Alone(r)
  BY <1>1, <1>2 DEF Alone, IInv
<1>7. StepOf(r)' /\ RowsFit(r)' /\ AnswerFits(r)'
  BY <1>2, <1>3, <1>4 DEF StepOf, RowsFit, AnswerFits, IInv
<1>8. CountsFit(r)'
  BY <1>2, <1>5 DEF CountsFit, Fits, Figures
<1>9. QED BY <1>2, <1>6, <1>7, <1>8 DEF ReaderFits

LEMMA BeginCachedFits ==
  ASSUME IInv, NEW r \in Readers, BeginCached(r)
  PROVE  ReaderFits(r)' /\ Alone(r) /\ board' = board
<1> USE DEF TypeOK
<1>1. PICK a \in Asks : a.kind = "dashboard" /\ ask' = [ask EXCEPT ![r] = a]
  BY DEF BeginCached
<1>2. /\ board # None /\ pc' = [pc EXCEPT ![r] = "answered"]
      /\ fig' = [fig EXCEPT ![r] = board.fig] /\ rows' = [rows EXCEPT ![r] = board.recent]
      /\ since' = [since EXCEPT ![r] = board.since]
      /\ UNCHANGED <<table, clock, page, board>>
  BY DEF BeginCached, caches
<1>3. Fits(board.fig, board.since) /\ board.since \in 0..clock
  BY <1>2 DEF IInv, BoardFits
<1>4. /\ ask'[r] = a /\ pc'[r] = "answered" /\ fig'[r] = board.fig
      /\ since'[r] = board.since
  BY <1>1, <1>2 DEF IInv
<1>5. Alone(r)
  BY <1>1, <1>2 DEF Alone, IInv
<1>6. StepOf(r)' /\ RowsFit(r)' /\ CountsFit(r)'
  BY <1>2, <1>3, <1>4 DEF StepOf, RowsFit, CountsFit, IInv
<1>7. AnswerFits(r)'
  BY <1>1, <1>2, <1>3, <1>4 DEF AnswerFits, Fits, Within
<1>8. QED BY <1>2, <1>5, <1>6, <1>7 DEF ReaderFits

LEMMA RowsQueryFits ==
  ASSUME IInv, NEW r \in Readers, RowsQuery(r)
  PROVE  ReaderFits(r)' /\ Alone(r) /\ board' = board
<1> USE DEF TypeOK
<1> DEFINE a == ask[r]
           skip == Skip(page[r], Limit(a))
<1>1. /\ pc[r] = "rows" /\ ReaderFits(r)
      /\ UNCHANGED <<table, clock, ask, page, fig, since, board>>
  BY DEF RowsQuery, history, caches, IInv
<1>2. a \in Asks /\ a.kind = "walk" /\ since[r] <= clock
  BY <1>1 DEF ReaderFits, StepOf
<1>3. page[r] \in Nat /\ Limit(a) \in Nat
  BY <1>2, AskedNumbers DEF IInv
<1>4. skip \in Int
  BY <1>3 DEF Skip
<1>5. CASE skip < 0
  <2>1. pc' = [pc EXCEPT ![r] = "error"] /\ rows' = rows
    BY <1>5 DEF RowsQuery
  <2>2. pc'[r] = "error" /\ Alone(r)
    BY <1>1, <2>1 DEF Alone, IInv
  <2>3. QED BY <1>1, <1>2, <2>2 DEF ReaderFits, StepOf, RowsFit, CountsFit, AnswerFits
<1>6. CASE ~(skip < 0)
  <2>1. PICK f \in Rankings(table, View(table, a), Sort(a), Order(a)) :
          /\ rows' = [rows EXCEPT ![r] = Slice(f, skip, Limit(a))]
          /\ pc' = [pc EXCEPT ![r] = "count"]
    BY <1>6 DEF RowsQuery
  <2>2. /\ pc'[r] = "count" /\ rows'[r] = Slice(f, skip, Limit(a)) /\ Alone(r)
    BY <1>1, <2>1 DEF Alone, IInv
  <2> DEFINE S == View(table, a)
             n == Cardinality(Slice(f, skip, Limit(a)))
  <2>3. ASSUME 0 < n, n < Limit(a) PROVE skip + n = Cardinality(S)
    <3>1. /\ f \in [S -> 0..(Cardinality(S) - 1)]
          /\ \A u, v \in S : u # v => f[u] # f[v]
      BY DEF Rankings
    <3>2. IsFiniteSet(S) /\ skip \in Nat
      BY <1>4, <1>6, ViewCounts
    <3> HIDE DEF S, skip
    <3>3. QED BY <1>3, <2>3, <3>1, <3>2, ShortPageIsLast
  <2>4. Within(Cardinality(S), Cardinality(S), since[r])
    BY <1>2, ViewCounts, JustRead DEF IInv
  <2>5. RowsFit(r)'
    <3>1. 0 < n /\ n < Limit(a) => Within(skip + n, Cardinality(S), since[r])
      BY <2>3, <2>4
    <3>2. QED BY <1>1, <2>2, <3>1 DEF RowsFit, Within
  <2>6. QED BY <1>1, <1>2, <2>2, <2>5 DEF ReaderFits, StepOf, CountsFit, AnswerFits
<1>7. QED BY <1>5, <1>6

LEMMA CountQueryFits ==
  ASSUME IInv, NEW r \in Readers, CountQuery(r)
  PROVE  ReaderFits(r)' /\ Alone(r) /\ board' = board
<1> USE DEF TypeOK
<1> DEFINE skip == Skip(page[r], Limit(ask[r]))
           n == Cardinality(rows[r])
           c == Cardinality(View(table, ask[r]))
<1>1. /\ pc[r] = "count" /\ ReaderFits(r) /\ pc' = [pc EXCEPT ![r] = "answered"]
      /\ UNCHANGED <<table, clock, ask, page, rows, since, board>>
  BY DEF CountQuery, history, caches, IInv
<1>2. PICK total \in {c} \union (IF 0 < n /\ n < Limit(ask[r]) THEN {skip + n} ELSE {}) :
        fig' = [fig EXCEPT ![r].total = total]
  BY DEF CountQuery
<1>3. ask[r] \in Asks /\ ask[r].kind = "walk" /\ since[r] <= clock
  BY <1>1 DEF ReaderFits, StepOf
<1>4. Within(c, c, since[r])
  BY <1>3, ViewCounts, JustRead DEF IInv
<1>5. 0 < n /\ n < Limit(ask[r]) => Within(skip + n, c, since[r])
  BY <1>1 DEF ReaderFits, RowsFit
<1> HIDE DEF skip, n, c
<1>6. Within(total, c, since[r])
  BY <1>2, <1>4, <1>5
<1>7. pc'[r] = "answered" /\ fig'[r].total = total /\ Alone(r)
  BY <1>1, <1>2 DEF Alone, IInv, Figures
<1>8. AnswerFits(r)'
  BY <1>1, <1>3, <1>6, <1>7 DEF AnswerFits, Within, c
<1>9. StepOf(r)' /\ RowsFit(r)' /\ CountsFit(r)'
  BY <1>1, <1>3, <1>7 DEF StepOf, RowsFit, CountsFit
<1>10. QED BY <1>1, <1>7, <1>8, <1>9 DEF ReaderFits

LEMMA NextPageFits ==
  ASSUME IInv, NEW r \in Readers, NextPage(r)
  PROVE  ReaderFits(r)' /\ Alone(r) /\ board' = board
<1> USE DEF TypeOK
<1>1. /\ pc[r] = "answered" /\ ask[r].kind = "walk" /\ ReaderFits(r)
      /\ pc' = [pc EXCEPT ![r] = "rows"]
      /\ page' = [page EXCEPT ![r] = @ + 1] /\ rows' = [rows EXCEPT ![r] = {}]
      /\ UNCHANGED <<table, clock, ask, fig, since, board>>
  BY DEF NextPage, history, caches, IInv
<1>2. pc'[r] = "rows" /\ Alone(r)
  BY <1>1 DEF Alone, IInv
<1>3. StepOf(r)' /\ RowsFit(r)' /\ CountsFit(r)' /\ AnswerFits(r)'
  BY <1>1, <1>2 DEF ReaderFits, StepOf, RowsFit, CountsFit, AnswerFits
<1>4. QED BY <1>1, <1>2, <1>3 DEF ReaderFits

\* A count that is read fits, and does not disturb the ones before it.
LEMMA CountStepFits ==
  ASSUME IInv, NEW r \in Readers, pc[r] = "counts", NEW x \in Figures, CountStep(r, x)
  PROVE  /\ StepOf(r)' /\ RowsFit(r)' /\ AnswerFits(r)' /\ Fits(fig[r], since[r])'
         /\ fig'[r] = [fig[r] EXCEPT ![x] = Tally(table, x)]
         /\ Alone(r) /\ board' = board
<1> USE DEF TypeOK
<1>1. /\ UNCHANGED <<table, clock, ask, pc, page, rows, since, board>>
      /\ fig' = [fig EXCEPT ![r][x] = Tally(table, x)] /\ ReaderFits(r)
  BY DEF CountStep, history, caches, IInv
<1>2. fig'[r] = [fig[r] EXCEPT ![x] = Tally(table, x)] /\ Alone(r)
  BY <1>1 DEF Alone, IInv
<1>3. StepOf(r)' /\ RowsFit(r)' /\ AnswerFits(r)'
  BY <1>1 DEF ReaderFits, StepOf, RowsFit, AnswerFits
<1>4. Within(Tally(table, x), Tally(table, x), since[r])
  BY <1>1, TallyCounts, JustRead DEF IInv, ReaderFits, StepOf
<1>5. \A y \in Figures : fig'[r][y] # None => Within(fig'[r][y], Tally(table, y), since[r])
  <2> SUFFICES ASSUME NEW y \in Figures, fig'[r][y] # None
               PROVE  Within(fig'[r][y], Tally(table, y), since[r])
    OBVIOUS
  <2>1. CASE y = x
    BY <1>2, <1>4, <2>1 DEF IInv
  <2>2. CASE y # x
    <3>1. fig'[r][y] = fig[r][y]
      BY <1>2, <2>2 DEF IInv
    <3>2. QED BY <1>1, <3>1 DEF ReaderFits, CountsFit, Fits
  <2>3. QED BY <2>1, <2>2
<1>6. Fits(fig[r], since[r])'
  BY <1>1, <1>5 DEF Fits, Within
<1>7. QED BY <1>1, <1>2, <1>3, <1>6

\* The total was torn from the tallies by the changes before the active accounts
\* were counted, and so is the difference.
LEMMA DashboardCountFits ==
  ASSUME IInv, NEW r \in Readers, DashboardCount(r)
  PROVE  ReaderFits(r)' /\ Alone(r) /\ board' = board
<1> USE DEF TypeOK
<1>1. PICK i \in 1..4 : /\ \A j \in 1..(i - 1) : fig[r][DashboardCounts[j]] # None
                        /\ CountStep(r, DashboardCounts[i])
  BY DEF DashboardCount
<1> DEFINE x == DashboardCounts[i]
<1>2. x \in Figures \ {"inactive"} /\ (x = "active" => fig[r]["total"] # None)
  BY <1>1 DEF DashboardCounts, Figures
<1>3. pc[r] = "counts" /\ ask[r].kind = "dashboard" /\ ReaderFits(r)
      /\ UNCHANGED <<table, clock, ask, pc, since>>
  BY <1>1 DEF DashboardCount, IInv, CountStep, history
<1> HIDE DEF x
<1>4. /\ StepOf(r)' /\ RowsFit(r)' /\ AnswerFits(r)' /\ Fits(fig[r], since[r])'
      /\ fig'[r] = [fig[r] EXCEPT ![x] = Tally(table, x)]
      /\ Alone(r) /\ board' = board
  BY <1>1, <1>2, <1>3, CountStepFits DEF x
<1>5. fig[r] \in [Figures -> Int \union {None}] /\ {"total", "active", "inactive"} \subseteq Figures
  BY DEF IInv, Figures
<1>6. /\ fig[r].inactive = None
      /\ fig[r].active # None =>
           /\ fig[r].total # None
           /\ Within(fig[r].total - fig[r].active, Tally(table, "inactive"), since[r])
  BY <1>3 DEF ReaderFits, CountsFit
<1>7. fig'[r].inactive = None
  BY <1>2, <1>4, <1>5, <1>6
<1>8. ASSUME fig'[r].active # None
      PROVE  /\ fig'[r].total # None
             /\ Within(fig'[r].total - fig'[r].active, Tally(table, "inactive"), since[r])
  <2>1. CASE x = "active"
    <3>1. fig'[r].total = fig[r].total /\ fig[r].total # None
          /\ fig'[r].active = Tally(table, "active")
      BY <1>2, <1>4, <1>5, <2>1
    <3>2. Within(fig[r].total, Tally(table, "total"), since[r])
      BY <1>3, <1>5, <3>1 DEF ReaderFits, CountsFit, Fits
    <3>3. /\ Tally(table, "total") = Tally(table, "active") + Tally(table, "inactive")
          /\ Tally(table, "active") \in Int /\ Tally(table, "inactive") \in Int
      BY TotalSplits, TallyCounts DEF IInv
    <3>4. since[r] \in Int /\ clock \in Int
      BY DEF IInv
    <3>5. Within(fig[r].total - Tally(table, "active"), Tally(table, "inactive"), since[r])
      BY <3>2, <3>3, <3>4 DEF Within, Distance
    <3>6. QED BY <3>1, <3>5
  <2>2. CASE x = "total"
    <3>1. fig'[r].active = fig[r].active /\ fig[r].active # None /\ fig[r].total # None
      BY <1>4, <1>5, <1>6, <1>8, <2>2
    <3>2. fig[r][x] = None
      BY <1>1 DEF CountStep, x
    <3>3. QED BY <2>2, <3>1, <3>2
  <2>3. CASE x \notin {"active", "total"}
    BY <1>4, <1>5, <1>6, <1>8, <2>3
  <2>4. QED BY <2>1, <2>2, <2>3
<1>9. CountsFit(r)'
  BY <1>3, <1>4, <1>7, <1>8 DEF CountsFit, Fits, Within
<1>10. QED BY <1>4, <1>9 DEF ReaderFits

LEMMA SyncCountFits ==
  ASSUME IInv, NEW r \in Readers, SyncCount(r)
  PROVE  ReaderFits(r)' /\ Alone(r) /\ board' = board
<1>1. PICK x \in SyncCounts : CountStep(r, x)
  BY DEF SyncCount
<1>2. pc[r] = "counts" /\ ask[r].kind = "sync" /\ UNCHANGED ask
  BY <1>1 DEF SyncCount, CountStep
<1>3. x \in Figures
  BY DEF SyncCounts, Figures
<1>4. /\ StepOf(r)' /\ RowsFit(r)' /\ AnswerFits(r)' /\ Fits(fig[r], since[r])'
      /\ Alone(r) /\ board' = board
  BY <1>1, <1>2, <1>3, CountStepFits
<1>5. CountsFit(r)'
  BY <1>2, <1>4 DEF CountsFit
<1>6. QED BY <1>4, <1>5 DEF ReaderFits

LEMMA DashboardShownFits ==
  ASSUME IInv, NEW r \in Readers, DashboardShown(r)
  PROVE  ReaderFits(r)' /\ Alone(r) /\ BoardFits'
<1> USE DEF TypeOK
<1>1. /\ pc[r] = "counts" /\ ask[r].kind = "dashboard" /\ ReaderFits(r)
      /\ fig[r].active # None
      /\ fig' = [fig EXCEPT ![r].inactive = fig[r].total - fig[r].active]
      /\ pc' = [pc EXCEPT ![r] = "answered"]
      /\ board' = [fig |-> fig'[r], recent |-> rows'[r], since |-> since[r]]
      /\ UNCHANGED <<table, clock, ask, page, since>>
  BY DEF DashboardShown, DashboardCounts, history, IInv
<1>2. PICK S \in SUBSET Ids : rows' = [rows EXCEPT ![r] = S]
  <2>1. PICK f \in Rankings(table, Present(table), "createdAt", "DESC") :
          rows' = [rows EXCEPT ![r] = Slice(f, 0, RecentTake)]
    BY DEF DashboardShown
  <2>2. Slice(f, 0, RecentTake) \subseteq Ids
    BY SliceType DEF Present
  <2>3. QED BY <2>1, <2>2
<1>3. /\ Fits(fig[r], since[r]) /\ StepOf(r)
      /\ Within(fig[r].total - fig[r].active, Tally(table, "inactive"), since[r])
  BY <1>1 DEF ReaderFits, CountsFit
<1>4. /\ pc'[r] = "answered" /\ rows'[r] = S /\ Alone(r)
      /\ fig'[r] = [fig[r] EXCEPT !["inactive"] = fig[r].total - fig[r].active]
  BY <1>1, <1>2 DEF Alone, IInv
<1>5. Fits(fig[r], since[r])'
  <2>1. ASSUME NEW x \in Figures, fig'[r][x] # None
        PROVE  Within(fig'[r][x], Tally(table, x), since[r])
    <3>1. CASE x = "inactive"
      BY <1>3, <1>4, <3>1 DEF IInv
    <3>2. CASE x # "inactive"
      BY <1>3, <1>4, <2>1, <3>2 DEF IInv, Fits
    <3>3. QED BY <3>1, <3>2
  <2>2. QED BY <1>1, <2>1 DEF Fits, Within
<1>6. StepOf(r)' /\ RowsFit(r)' /\ CountsFit(r)' /\ AnswerFits(r)'
  BY <1>1, <1>3, <1>4, <1>5 DEF StepOf, RowsFit, CountsFit, AnswerFits
<1>7. BoardFits'
  <2>1. since[r] \in 0..clock
    BY <1>3 DEF IInv, StepOf
  <2>2. fig'[r] \in [Figures -> Int \union {None}]
    <3>1. fig[r].total - fig[r].active \in Int
      BY <1>3 DEF Within
    <3>2. fig[r] \in [Figures -> Int \union {None}]
      BY DEF IInv
    <3>3. QED BY <1>4, <3>1, <3>2
  <2>3. Fits(board.fig, board.since)'
    BY <1>1, <1>5 DEF Fits, Within
  <2>4. QED BY <1>1, <1>4, <2>1, <2>2, <2>3 DEF BoardFits
<1>8. QED BY <1>4, <1>6, <1>7 DEF ReaderFits

LEMMA SyncStoredFits ==
  ASSUME IInv, NEW r \in Readers, SyncStored(r)
  PROVE  ReaderFits(r)' /\ Alone(r) /\ board' = board
<1> USE DEF TypeOK
<1>1. /\ pc[r] = "counts" /\ ask[r].kind = "sync" /\ ReaderFits(r)
      /\ pc' = [pc EXCEPT ![r] = "answered"]
      /\ UNCHANGED <<table, clock, ask, page, rows, fig, since, board>>
  BY DEF SyncStored, history, IInv
<1>2. pc'[r] = "answered" /\ Alone(r)
  BY <1>1 DEF Alone, IInv
<1>3. Fits(fig[r], since[r])'
  BY <1>1 DEF ReaderFits, CountsFit, Fits, Within
<1>4. StepOf(r)' /\ RowsFit(r)' /\ CountsFit(r)' /\ AnswerFits(r)'
  BY <1>1, <1>2, <1>3 DEF ReaderFits, StepOf, RowsFit, CountsFit, AnswerFits
<1>5. QED BY <1>1, <1>2, <1>4 DEF ReaderFits

LEMMA FinishFits ==
  ASSUME IInv, NEW r \in Readers, Finish(r)
  PROVE  ReaderFits(r)' /\ Alone(r) /\ board' = board
<1> USE DEF TypeOK
<1>1. /\ pc'[r] = "idle" /\ since'[r] = 0 /\ fig'[r] = [x \in Figures |-> None]
      /\ UNCHANGED <<table, clock, board>> /\ Alone(r)
  BY DEF Finish, caches, Alone, IInv
<1>2. 0 <= clock
  BY DEF IInv
<1>3. QED BY <1>1, <1>2 DEF ReaderFits, StepOf, RowsFit, CountsFit, AnswerFits

-----------------------------------------------------------------------------
LEMMA InitInv ==
  ASSUME Init
  PROVE  IInv
<1>1. TypeOK
  BY QueriesAssumption DEF Init, TypeOK
<1>2. BoardFits
  BY DEF Init, BoardFits
<1>3. ASSUME NEW r \in Readers PROVE ReaderFits(r)
  BY DEF Init, ReaderFits, StepOf, RowsFit, CountsFit, AnswerFits
<1>4. QED BY <1>1, <1>2, <1>3 DEF IInv

LEMMA NextInv ==
  ASSUME IInv, [Next]_vars
  PROVE  IInv'
<1>1. TypeOK'
  BY TypeStep
<1>2. ASSUME NEW u \in Ids, Create(u) \/ Update(u) \/ Remove(u) PROVE IInv'
  BY <1>1, <1>2, Changing, ChangeFits DEF IInv
<1>3. ASSUME NEW r \in Readers, ReaderFits(r)', Alone(r), BoardFits' PROVE IInv'
  BY <1>1, <1>3, OthersFit DEF IInv
<1>4. ASSUME NEW r \in Readers, ReaderFits(r)', Alone(r), board' = board PROVE IInv'
  <2>1. BoardFits'
    BY <1>4, BoardKept DEF Alone, IInv
  <2>2. QED BY <1>3, <1>4, <2>1
<1>5. ASSUME NEW r \in Readers,
             \/ Begin(r) \/ BeginCached(r) \/ RowsQuery(r) \/ CountQuery(r) \/ NextPage(r)
             \/ DashboardCount(r) \/ SyncCount(r) \/ SyncStored(r) \/ Finish(r)
      PROVE  IInv'
  <2>1. ReaderFits(r)' /\ Alone(r) /\ board' = board
    BY <1>5, BeginFits, BeginCachedFits, RowsQueryFits, CountQueryFits, NextPageFits,
       DashboardCountFits, SyncCountFits, SyncStoredFits, FinishFits
  <2>2. QED BY <1>4, <2>1
<1>6. ASSUME NEW r \in Readers, DashboardShown(r) PROVE IInv'
  BY <1>3, <1>6, DashboardShownFits
<1>7. CASE UNCHANGED vars
  BY <1>7 DEF vars, caches, IInv, TypeOK, BoardFits, ReaderFits, StepOf, RowsFit,
              CountsFit, AnswerFits, Fits, Within
<1>8. QED BY <1>2, <1>5, <1>6, <1>7 DEF Next

\* The inductive invariant.
THEOREM QueriesInvariant == Spec => []IInv
BY InitInv, NextInv, PTL DEF Spec

\* The variables keep their types.
THEOREM QueriesType == Spec => []TypeOK
<1>1. IInv => TypeOK
  BY DEF IInv
<1>2. QED BY <1>1, QueriesInvariant, PTL

\* However many accounts change while someone reads, what he is answered -- total
\* of a page, dashboard, cached dashboard, synchronized figures -- is off by no
\* more than the changes made since its first query.
THEOREM FiguresTornByChanges == Spec => []FiguresWithinChanges
<1>1. IInv => FiguresWithinChanges
  BY DEF IInv, ReaderFits, AnswerFits, Fits, Within, FiguresWithinChanges
<1>2. QED BY <1>1, QueriesInvariant, PTL
=============================================================================
